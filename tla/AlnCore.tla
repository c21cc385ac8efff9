------------------------------ MODULE AlnCore -------------------------------
(***************************************************************************)
(* The parser's callers: the document parseAlnDocument returns is given   *)
(* to validateChainlexemes and to serializeAlnDocument, and serialized    *)
(* text is parsed again where it is received.  The properties are stated  *)
(* on the document the scanner has built once the call has returned.      *)
(***************************************************************************)
EXTENDS AlnScanner, AlnValidator, AlnSerializer

Parsed == scan.doc
Report == validateChainlexemes(Parsed)

\* serialize, then parse what was written
RoundTrip(d) == parseAlnDocument(serializeAlnDocument(d))

(* Values spec.md 4.4 and 8 call well behaved: scalars, and strings with  *)
(* no comma and no quote character.  A string with a space or a colon is  *)
(* written quoted, so it is never an unquoted string with one.            *)
WellBehaved(v) ==
    \/ v.t \in {"number", "boolean"}
    \/ v.t = "string" /\ \A i \in DOMAIN v.s : v.s[i] \notin {",", "\"", "'"}
WellBehavedDoc(d) ==
    \A sec \in {"header", "data", "footer"} :
        \A i \in DOMAIN d[sec] : WellBehaved(d[sec][i].v)

(* The rules of spec.md 4.3 as the spec states them: a present field is   *)
(* checked whatever its value ("if present ..."), nonce and timestamp are *)
(* Integers, and a transfer amount is "present and not the empty string / *)
(* not numeric zero / not boolean false".                                 *)
IsInteger(v) == v.t = "number" /\ v.e = 0
SpecAmount(v) == v # Undefined /\ v \notin {Str(<<>>), Num(0, 0), Bool(FALSE)}
SpecRulesHold(d) ==
    LET h(f) == Get(d.header, <<f>>)
        op   == h("op_code")
    IN  /\ \A sec \in {"header", "data", "footer"} : Len(d[sec]) > 0
        /\ \A f \in {"op_code", "from", "to", "nonce"} : Has(d.header, <<f>>)
        /\ \A f \in {"signature", "timestamp"} : Has(d.footer, <<f>>)
        /\ op \in {Word(c) : c \in ValidOpCodes}
        /\ \A f \in {"from", "to"} :
              h(f).t = "string" /\ StartsWith(h(f).s, <<"aln1">>)
        /\ IsInteger(h("nonce")) /\ h("nonce").m >= 0
        /\ LET ts == Get(d.footer, <<"timestamp">>)
           IN  IsInteger(ts) /\ ts.m > 0
        /\ op = Word("transfer") => SpecAmount(Get(d.data, <<"amount">>))
        /\ op = Word("governance_proposal") =>
              \A f \in {"proposal_id", "title", "category"} : Has(d.data, <<f>>)

(***************************************************************************)
(* Properties                                                              *)
(***************************************************************************)

(* spec.md 4.3: "The validator performs no I/O and raises no fatal        *)
(* conditions".  validateChainlexemes calls startsWith on header.from,    *)
(* header.to and footer.signature whenever they are truthy.               *)
ValidatorNeverThrows ==
    pc = "done" => ~Report.thrown

(* A document validateChainlexemes accepts satisfies every rule of        *)
(* spec.md 4.3 (rules 3, 4, 5, 8 and 10 checked as the spec words them).  *)
ValidReportMeetsSpecRules ==
    pc = "done" /\ ~Report.thrown /\ Report.isValid => SpecRulesHold(Parsed)

(* spec.md 8: for a document of well-behaved scalar values,               *)
(* serialize(parse(serialize(doc))) is textually serialize(doc).          *)
SerializeParseIdempotent ==
    pc = "done" /\ WellBehavedDoc(Parsed) =>
        serializeAlnDocument(RoundTrip(Parsed)) = serializeAlnDocument(Parsed)
=============================================================================
