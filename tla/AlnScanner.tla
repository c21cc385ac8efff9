----------------------------- MODULE AlnScanner -----------------------------
(***************************************************************************)
(* parseAlnDocument (src/aln/core/runtime/aln_parser.js), one line per   *)
(* step.  The input text is given already split on '\n': a sequence of     *)
(* lines, each a glyph sequence (AlnValue).  The scanner keeps the loop's  *)
(* variables, lineNumber and currentSection, and the ParsedAlnDoc it fills *)
(* in; rawSections maps each declared section name to its entry list.     *)
(***************************************************************************)
EXTENDS AlnValue

CONSTANTS
    Texts,        \* the inputs of a parseAlnDocument call (texts or NotAString)
    NotAString    \* an argument that is not a string (null, a number, ...)

VARIABLES
    text,         \* the argument of the call
    pc,           \* "start", "scan" (inside the for loop) or "done"
    scan          \* [line |-> lineNumber, cur |-> currentSection, doc |-> doc]

vars == <<text, pc, scan>>

(* new ParsedAlnDoc() *)
NewDoc == [header |-> EmptyMap, data |-> EmptyMap, footer |-> EmptyMap,
           rawSections |-> <<>>, errors |-> <<>>]

(* The three typed sections the loop stores into, by their lowercase name *)
TypedSection == [n \in {<<"header">>, <<"data">>, <<"footer">>} |-> n[1]]

(* ------------------- classifying one trimmed line --------------------- *)
IsSkipped(tr)       == tr = <<>> \/ StartsWith(tr, <<"#">>)
IsSectionHeader(tr) == StartsWith(tr, <<"[">>) /\ EndsWith(tr, <<"]">>)
SectionName(tr)     == ToLower(Unwrap(tr))
ColonIndex(tr)      == IndexOf(tr, ":")
EntryKey(tr)        == Trim(SubSeq(tr, 1, ColonIndex(tr) - 1))
EntryValue(tr)      == Trim(SubSeq(tr, ColonIndex(tr) + 1, Len(tr)))
\* `colonIndex > 0 && currentSection` (indexOf is 0-based in the code)
IsEntry(tr, cur)    == ColonIndex(tr) > 1 /\ Truthy(cur)

(* ---------------------- the loop body, per case ------------------------ *)
\* seeded fault: lineNumber advanced twice
skipLineTwice(s) == [s EXCEPT !.line = @ + 2]

\* `continue` on an empty or comment line
skipLine(s) == [s EXCEPT !.line = @ + 1]

\* seeded fault: the section name is not lower-cased
declareSectionKeepCase(s, tr) ==
    LET name == Unwrap(tr)
    IN  [s EXCEPT !.line = @ + 1,
                  !.cur  = Str(name),
                  !.doc.rawSections = (name :> <<>>) @@ @]

\* a section header: currentSection := name, rawSections[name] := []
declareSection(s, tr) ==
    LET name == SectionName(tr)
    IN  [s EXCEPT !.line = @ + 1,
                  !.cur  = Str(name),
                  !.doc.rawSections = (name :> <<>>) @@ @]

\* a key: value line: store the coerced value in a typed section, and the
\* raw value with its line number in rawSections[currentSection]
storeEntry(s, tr) ==
    LET name  == s.cur.s
        key   == EntryKey(tr)
        value == EntryValue(tr)
        n     == s.line + 1
        d1    == IF name \in DOMAIN TypedSection
                 THEN [s.doc EXCEPT ![TypedSection[name]] =
                                        Put(@, key, parseValue(value))]
                 ELSE s.doc
    IN  [s EXCEPT !.line = n,
                  !.doc  = [d1 EXCEPT !.rawSections[name] =
                               Append(@, [key |-> key, value |-> value, line |-> n])]]

\* any other line only advances lineNumber
ignoreLine(s) == [s EXCEPT !.line = @ + 1]

\* one iteration of `for (const line of lines)`
scanLine(s, line) ==
    LET tr == Trim(line) IN
    CASE IsSkipped(tr)        -> skipLine(s)
      [] IsSectionHeader(tr)  -> declareSection(s, tr)
      [] IsEntry(tr, s.cur)   -> storeEntry(s, tr)
      [] OTHER                -> ignoreLine(s)

\* `!text || typeof text !== 'string'`; "" split on '\n' is one empty line
IsInvalidInput(t) == t = NotAString \/ t = << <<>> >>

\* the fail-fast document
InvalidDoc == [NewDoc EXCEPT !.errors = <<"Invalid input">>]

StartState == [line |-> 0, cur |-> Null, doc |-> NewDoc]

\* parseAlnDocument as a function, for callers that parse serialized text
parseAlnDocument(t) ==
    IF IsInvalidInput(t) THEN InvalidDoc
    ELSE FoldLeft(scanLine, StartState, t).doc

(* ------------------------- the state machine --------------------------- *)
Init ==
    /\ text \in Texts
    /\ pc = "start"
    /\ scan = StartState

RejectInput ==
    /\ pc = "start"
    /\ IsInvalidInput(text)
    /\ scan' = [scan EXCEPT !.doc = InvalidDoc]
    /\ pc' = "done"
    /\ UNCHANGED text

BeginScan ==
    /\ pc = "start"
    /\ ~IsInvalidInput(text)
    /\ pc' = "scan"
    /\ UNCHANGED <<text, scan>>

NextLine == Trim(text[scan.line + 1])
HasNextLine == pc = "scan" /\ scan.line < Len(text)

SkipLine ==
    /\ HasNextLine /\ IsSkipped(NextLine)
    /\ scan' = skipLine(scan)
    /\ UNCHANGED <<text, pc>>

DeclareSection ==
    /\ HasNextLine /\ ~IsSkipped(NextLine) /\ IsSectionHeader(NextLine)
    /\ scan' = declareSection(scan, NextLine)
    /\ UNCHANGED <<text, pc>>

StoreEntry ==
    /\ HasNextLine /\ ~IsSkipped(NextLine) /\ ~IsSectionHeader(NextLine)
    /\ IsEntry(NextLine, scan.cur)
    /\ scan' = storeEntry(scan, NextLine)
    /\ UNCHANGED <<text, pc>>

IgnoreLine ==
    /\ HasNextLine /\ ~IsSkipped(NextLine) /\ ~IsSectionHeader(NextLine)
    /\ ~IsEntry(NextLine, scan.cur)
    /\ scan' = ignoreLine(scan)
    /\ UNCHANGED <<text, pc>>

\* the loop ends and `return doc`
Finish ==
    /\ pc = "scan" /\ scan.line = Len(text)
    /\ pc' = "done"
    /\ UNCHANGED <<text, scan>>

Next ==
    \/ RejectInput \/ BeginScan
    \/ SkipLine \/ DeclareSection \/ StoreEntry \/ IgnoreLine
    \/ Finish

Spec == Init /\ [][Next]_vars

(***************************************************************************)
(* Reference: the document spec.md section 4.1 describes for lines ls,    *)
(* stated over the whole prefix instead of line by line.  A line is under *)
(* the section declared by the last header line before it; a key keeps   *)
(* the position of its first line and the value of its last; a section's *)
(* raw entries are the entry lines after its last declaration.            *)
(* ActiveName(n) says which section names accept entries.                 *)
(***************************************************************************)
RefTrim(ls, i) == Trim(ls[i])
RefDecls(ls) ==
    {i \in DOMAIN ls : ~IsSkipped(RefTrim(ls, i)) /\ IsSectionHeader(RefTrim(ls, i))}
RefSectionOf(ls, i) ==
    LET before == {j \in RefDecls(ls) : j < i}
    IN  IF before = {} THEN Null ELSE Str(SectionName(RefTrim(ls, Max(before))))
RefEntries(ls, ActiveName(_)) ==
    {i \in DOMAIN ls \ RefDecls(ls) :
        /\ ~IsSkipped(RefTrim(ls, i))
        /\ ColonIndex(RefTrim(ls, i)) > 1
        /\ RefSectionOf(ls, i) # Null
        /\ ActiveName(RefSectionOf(ls, i).s)}
RefMapping(ls, name, ActiveName(_)) ==
    LET lines == {i \in RefEntries(ls, ActiveName) : RefSectionOf(ls, i) = Str(name)}
        keys  == {EntryKey(RefTrim(ls, i)) : i \in lines}
        at(k) == {i \in lines : EntryKey(RefTrim(ls, i)) = k}
        order == SetToSortSeq(keys, LAMBDA a, b : Min(at(a)) < Min(at(b)))
    IN  [j \in DOMAIN order |->
           [k |-> order[j],
            v |-> parseValue(EntryValue(RefTrim(ls, Max(at(order[j])))))]]
RefRaw(ls, ActiveName(_)) ==
    [n \in {SectionName(RefTrim(ls, j)) : j \in RefDecls(ls)} |->
       LET last  == Max({j \in RefDecls(ls) : SectionName(RefTrim(ls, j)) = n})
           lines == {i \in RefEntries(ls, ActiveName) :
                       i > last /\ RefSectionOf(ls, i) = Str(n)}
           order == SetToSortSeq(lines, LAMBDA a, b : a < b)
       IN  [j \in DOMAIN order |->
              [key   |-> EntryKey(RefTrim(ls, order[j])),
               value |-> EntryValue(RefTrim(ls, order[j])),
               line  |-> order[j]]]]
RefDoc(ls, ActiveName(_)) ==
    [NewDoc EXCEPT !.header = RefMapping(ls, <<"header">>, ActiveName),
                   !.data   = RefMapping(ls, <<"data">>, ActiveName),
                   !.footer = RefMapping(ls, <<"footer">>, ActiveName),
                   !.rawSections = RefRaw(ls, ActiveName)]

\* the lines the loop has consumed so far
Consumed == IF pc = "scan" \/ (pc = "done" /\ ~IsInvalidInput(text))
            THEN SubSeq(text, 1, scan.line) ELSE <<>>

(***************************************************************************)
(* Properties                                                              *)
(***************************************************************************)
TypeOK ==
    /\ text \in Texts
    /\ pc \in {"start", "scan", "done"}
    /\ scan.line \in 0..(IF text = NotAString THEN 0 ELSE Len(text))
    /\ scan.cur = Null \/ scan.cur.t = "string"
    /\ DOMAIN scan.doc = DOMAIN NewDoc

(* After every line, the document parseAlnDocument has built equals the  *)
(* reference document of the lines read so far: currentSection tracking,  *)
(* last-write-wins with first-insertion order, the reset of rawSections   *)
(* on a redeclared section, and the line numbers all agree.  The code     *)
(* treats a section named "" (the line "[]") as no section, and so does   *)
(* this reference, although spec.md 4.1 keeps such entries.               *)
ScannerMatchesReference ==
    pc # "start" /\ ~IsInvalidInput(text) =>
        scan.doc = RefDoc(Consumed, LAMBDA n : n # <<>>)

=============================================================================
