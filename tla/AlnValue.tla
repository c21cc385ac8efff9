------------------------------ MODULE AlnValue ------------------------------
(***************************************************************************)
(* Text and JavaScript values as the chainlexeme parser sees them          *)
(* (src/aln/core/runtime/aln_parser.js).                                   *)
(*                                                                         *)
(* A JavaScript string is a sequence of GLYPHS.  A glyph is either one of  *)
(* the characters the code tests for (quote, apostrophe, brackets, comma,  *)
(* colon, '#', '.', whitespace, the ten digits, '-', '+') or an opaque     *)
(* word such as "op_code", "aln1", "ed25519", "true" or "x" that the code  *)
(* only ever compares whole.  The code's string operations (trim,          *)
(* startsWith, endsWith, indexOf, slice, split, includes, toLowerCase) are *)
(* operators on these sequences.                                           *)
(*                                                                         *)
(* A JavaScript value is a record tagged by its typeof: strings, booleans, *)
(* numbers (exact decimals m / 10^e, which is what parseInt/parseFloat of  *)
(* the short literals used here produce), arrays, null and undefined.      *)
(***************************************************************************)
EXTENDS Integers, Sequences, SequencesExt, TLC

CONSTANT UpperWords   \* function: upper-case word glyph -> its toLowerCase()

Whitespace == {" ", "\t", "\r"}
DigitGlyphs == <<"0", "1", "2", "3", "4", "5", "6", "7", "8", "9">>
Digits == Range(DigitGlyphs)
DigitVal(d) == CHOOSE i \in 0..9 : DigitGlyphs[i + 1] = d

(* ---------------------------- JS values ------------------------------- *)
Str(s)       == [t |-> "string", s |-> s]
Bool(b)      == [t |-> "boolean", b |-> b]
Num(m, e)    == [t |-> "number", m |-> m, e |-> e]     \* the number m / 10^e
Arr(a)       == [t |-> "array", a |-> a]
Null         == [t |-> "null"]
Undefined    == [t |-> "undefined"]
\* a string literal that is one word glyph, such as 'transfer'
Word(w)      == Str(<<w>>)

(* JavaScript truthiness: "", 0, false, null and undefined are falsy.     *)
Truthy(v) ==
    CASE v.t = "string"  -> v.s # <<>>
      [] v.t = "boolean" -> v.b
      [] v.t = "number"  -> v.m # 0
      [] v.t = "array"   -> TRUE
      [] OTHER           -> FALSE

(* -------------------------- string operations ------------------------- *)
\* String.prototype.trim, over the alphabet's whitespace (space, tab, CR)
Trim(s) ==
    LET keep == {i \in DOMAIN s : s[i] \notin Whitespace}
    IN  IF keep = {} THEN <<>> ELSE SubSeq(s, Min(keep), Max(keep))

StartsWith(s, p) == IsPrefix(p, s)
EndsWith(s, p)   == IsSuffix(p, s)
Includes(s, g)   == \E i \in DOMAIN s : s[i] = g

\* s.indexOf(g) as a 1-based index; 0 when g does not occur
IndexOf(s, g) ==
    LET at == {i \in DOMAIN s : s[i] = g}
    IN  IF at = {} THEN 0 ELSE Min(at)

\* s.slice(1, -1)
Unwrap(s) == SubSeq(s, 2, Len(s) - 1)

\* String.prototype.toLowerCase
ToLower(s) == [i \in DOMAIN s |->
                 IF s[i] \in DOMAIN UpperWords THEN UpperWords[s[i]] ELSE s[i]]

\* s.split(g): the pieces between occurrences of g; "".split(g) = [""]
RECURSIVE Split(_, _)
Split(s, g) ==
    LET i == IndexOf(s, g)
    IN  IF i = 0 THEN <<s>>
        ELSE <<SubSeq(s, 1, i - 1)>> \o Split(SubSeq(s, i + 1, Len(s)), g)

\* parts.join(sep)
RECURSIVE Join(_, _)
Join(parts, sep) ==
    IF Len(parts) <= 1 THEN FlattenSeq(parts)
    ELSE Head(parts) \o sep \o Join(Tail(parts), sep)

(* ------------------------------ numbers ------------------------------- *)
AllDigits(s) == s # <<>> /\ \A i \in DOMAIN s : s[i] \in Digits

DigitsToNat(s) == FoldLeft(LAMBDA acc, d : 10 * acc + DigitVal(d), 0, s)

\* drop trailing zeros of the fraction, so that equal numbers are equal
RECURSIVE Canonical(_, _)
Canonical(m, e) ==
    IF e > 0 /\ m % 10 = 0 THEN Canonical(m \div 10, e - 1) ELSE Num(m, e)

\* the regex /^\d+\.\d+$/
IsDecimalLiteral(s) ==
    \E i \in DOMAIN s : /\ s[i] = "."
                        /\ AllDigits(SubSeq(s, 1, i - 1))
                        /\ AllDigits(SubSeq(s, i + 1, Len(s)))

\* parseFloat of a string matching /^\d+\.\d+$/
DecimalValue(s) ==
    LET i == IndexOf(s, ".")
        frac == SubSeq(s, i + 1, Len(s))
    IN  Canonical(DigitsToNat(SubSeq(s, 1, i - 1) \o frac), Len(frac))

RECURSIVE NatToDigits(_)
NatToDigits(n) ==
    IF n < 10 THEN <<DigitGlyphs[n + 1]>>
    ELSE NatToDigits(n \div 10) \o <<DigitGlyphs[(n % 10) + 1]>>

\* Number.prototype.toString for a finite decimal of moderate size
NumberToString(v) ==
    LET sign   == IF v.m < 0 THEN <<"-">> ELSE <<>>
        ds     == NatToDigits(IF v.m < 0 THEN -v.m ELSE v.m)
        padded == [i \in 1..(v.e + 1 - Len(ds)) |-> "0"] \o ds
        cut    == Len(padded) - v.e
    IN  IF v.e = 0 THEN sign \o ds
        ELSE sign \o SubSeq(padded, 1, cut) \o <<".">>
                  \o SubSeq(padded, cut + 1, Len(padded))

(* ---------------------------- conversions ----------------------------- *)
\* String(v); inside Array.prototype.join null and undefined become ""
RECURSIVE ToJsString(_)
ToJsString(v) ==
    CASE v.t = "string"    -> v.s
      [] v.t = "boolean"   -> IF v.b THEN <<"true">> ELSE <<"false">>
      [] v.t = "number"    -> NumberToString(v)
      [] v.t = "null"      -> <<"null">>
      [] v.t = "undefined" -> <<"undefined">>
      [] v.t = "array"     ->
           Join([i \in DOMAIN v.a |->
                   IF v.a[i].t \in {"null", "undefined"} THEN <<>>
                   ELSE ToJsString(v.a[i])], <<",">>)

NaN == [nan |-> TRUE]

\* StringToNumber over the glyph alphabet: surrounding whitespace ignored,
\* "" is 0, an optionally signed decimal literal is its value, else NaN
StringToNumber(s) ==
    LET t    == Trim(s)
        neg  == t # <<>> /\ t[1] = "-"
        body == IF t # <<>> /\ t[1] \in {"-", "+"} THEN Tail(t) ELSE t
        dot  == IndexOf(body, ".")
        ip   == IF dot = 0 THEN body ELSE SubSeq(body, 1, dot - 1)
        fp   == IF dot = 0 THEN <<>> ELSE SubSeq(body, dot + 1, Len(body))
        ok   == /\ ip \o fp # <<>>
                /\ \A i \in DOMAIN (ip \o fp) : (ip \o fp)[i] \in Digits
        n    == Canonical(DigitsToNat(ip \o fp), Len(fp))
    IN  CASE t = <<>> -> Num(0, 0)
          [] ok       -> IF neg THEN [n EXCEPT !.m = -@] ELSE n
          [] OTHER    -> NaN

\* ToNumber(ToPrimitive(v)), as applied by a relational comparison
ToNumeric(v) ==
    CASE v.t = "number"  -> v
      [] v.t = "boolean" -> Num(IF v.b THEN 1 ELSE 0, 0)
      [] v.t = "null"    -> Num(0, 0)
      [] v.t = "string"  -> StringToNumber(v.s)
      [] v.t = "array"   -> StringToNumber(ToJsString(v))
      [] OTHER           -> NaN

\* v < c for an integer c, with JavaScript's coercions (NaN compares false)
LessThan(v, c) ==
    LET n == ToNumeric(v)
    IN  n # NaN /\ n.m < c * (10 ^ n.e)

(* ----------------------- the value coercer ---------------------------- *)
\* parseValue: quoted string, boolean, integer, decimal, array, else string
RECURSIVE parseValue(_)
parseValue(value) ==
    CASE (StartsWith(value, <<"\"">>) /\ EndsWith(value, <<"\"">>))
          \/ (StartsWith(value, <<"'">>) /\ EndsWith(value, <<"'">>))
                                  -> Str(Unwrap(value))
      [] value = <<"true">>       -> Bool(TRUE)
      [] value = <<"false">>      -> Bool(FALSE)
      [] AllDigits(value)         -> Num(DigitsToNat(value), 0)
      [] IsDecimalLiteral(value)  -> DecimalValue(value)
      [] StartsWith(value, <<"[">>) /\ EndsWith(value, <<"]">>) ->
           LET items == Split(Unwrap(value), ",")
           IN  Arr([i \in DOMAIN items |-> parseValue(Trim(items[i]))])
      [] OTHER                    -> Str(value)

\* formatValue: arrays bracketed, strings with ' ' or ':' double-quoted
RECURSIVE formatValue(_)
formatValue(value) ==
    CASE value.t = "array" ->
           <<"[">> \o Join([i \in DOMAIN value.a |-> formatValue(value.a[i])],
                           <<",", " ">>) \o <<"]">>
      [] value.t = "string" /\ (Includes(value.s, " ") \/ Includes(value.s, ":")) ->
           <<"\"">> \o value.s \o <<"\"">>
      [] OTHER -> ToJsString(value)

(* ------------------------ plain-object mappings ----------------------- *)
(* doc.header, doc.data and doc.footer are plain objects.  A mapping is   *)
(* the sequence of its [k, v] entries in insertion order.                 *)
EmptyMap == <<>>
Keys(m) == {m[i].k : i \in DOMAIN m}
Has(m, k) == k \in Keys(m)           \* `k in obj` (no prototype key is used)
Get(m, k) == IF Has(m, k) THEN m[CHOOSE i \in DOMAIN m : m[i].k = k].v
             ELSE Undefined
\* obj[k] = v: an existing key keeps its position, a new key is appended
Put(m, k, v) ==
    IF Has(m, k) THEN [i \in DOMAIN m |-> IF m[i].k = k THEN [k |-> k, v |-> v]
                                            ELSE m[i]]
    ELSE Append(m, [k |-> k, v |-> v])

\* array-index keys ("0", "7", "12"; not "07") come first in Object.entries
IsIndexKey(k) == AllDigits(k) /\ (Len(k) = 1 \/ k[1] # "0")
\* Object.entries: index keys ascending, then the others in insertion order
Entries(m) ==
    SortSeq(SelectSeq(m, LAMBDA e : IsIndexKey(e.k)),
            LAMBDA a, b : DigitsToNat(a.k) < DigitsToNat(b.k))
    \o SelectSeq(m, LAMBDA e : ~IsIndexKey(e.k))
=============================================================================
