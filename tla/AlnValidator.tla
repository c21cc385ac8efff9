---------------------------- MODULE AlnValidator ----------------------------
(***************************************************************************)
(* validateChainlexemes and ValidationReport                               *)
(* (src/aln/core/runtime/aln_parser.js).  The validator is a function of  *)
(* the document.  Each rule is a check giving the errors and warnings it  *)
(* adds, or a TypeError: `x.startsWith(...)` on a truthy value that is    *)
(* not a string (a number, true, an array) throws, and the throw ends the *)
(* call before the later rules run.  An error or warning is abstracted to *)
(* the rule and the field its message names.                               *)
(***************************************************************************)
EXTENDS AlnValue

ValidOpCodes == {"transfer", "governance_proposal", "governance_vote",
                 "migration_lock", "migration_mint", "migration_burn",
                 "token_mint", "token_transfer", "delegation"}

Issue(rule, field) == [rule |-> rule, field |-> field]
Check(errs, warns) == [errors |-> errs, warnings |-> warns, throws |-> FALSE]
Throws == [errors |-> <<>>, warnings |-> <<>>, throws |-> TRUE]
Pass == Check(<<>>, <<>>)

\* one issue per name of fields (in their order) that is in the set missing
IssuesFor(rule, fields, missing) ==
    LET bad == SelectSeq(fields, LAMBDA f : f \in missing)
    IN  [i \in DOMAIN bad |-> Issue(rule, bad[i])]

\* Rule 1: header, data and footer non-empty
rule1(doc) ==
    LET secs == <<"header", "data", "footer">>
    IN  Check(IssuesFor("R1", secs, {s \in Range(secs) : Len(doc[s]) = 0}), <<>>)

\* Rule 2: op_code, from, to, nonce present (`field in doc.header`)
rule2(doc) ==
    LET fs == <<"op_code", "from", "to", "nonce">>
    IN  Check(IssuesFor("R2", fs, {f \in Range(fs) : ~Has(doc.header, <<f>>)}),
              <<>>)

\* Rule 3: a truthy op_code must be one of validOpCodes
rule3(doc) ==
    LET op == Get(doc.header, <<"op_code">>)
    IN  IF Truthy(op) /\ op \notin {Word(c) : c \in ValidOpCodes}
        THEN Check(<<Issue("R3", "op_code")>>, <<>>) ELSE Pass

\* Rule 4: a truthy from/to must start with 'aln1'
rule4(doc, field) ==
    LET a == Get(doc.header, <<field>>)
    IN  CASE ~Truthy(a)                   -> Pass
          [] a.t # "string"               -> Throws
          [] ~StartsWith(a.s, <<"aln1">>) -> Check(<<Issue("R4", field)>>, <<>>)
          [] OTHER                        -> Pass

\* Rule 5: a nonce that is not undefined must be a number >= 0
rule5(doc) ==
    LET n == Get(doc.header, <<"nonce">>)
    IN  IF n # Undefined /\ (n.t # "number" \/ n.m < 0)
        THEN Check(<<Issue("R5", "nonce")>>, <<>>) ELSE Pass

\* Rule 6: signature and timestamp present in the footer
rule6(doc) ==
    LET fs == <<"signature", "timestamp">>
    IN  Check(IssuesFor("R6", fs, {f \in Range(fs) : ~Has(doc.footer, <<f>>)}),
              <<>>)

\* Rule 7: a truthy signature without the 'ed25519:' prefix is a warning
rule7(doc) ==
    LET sig == Get(doc.footer, <<"signature">>)
    IN  CASE ~Truthy(sig)                             -> Pass
          [] sig.t # "string"                         -> Throws
          [] ~StartsWith(sig.s, <<"ed25519", ":">>)   ->
                Check(<<>>, <<Issue("R7", "signature")>>)
          [] OTHER                                    -> Pass

\* Rule 8: a timestamp that is not undefined must be a number > 0
rule8(doc) ==
    LET ts == Get(doc.footer, <<"timestamp">>)
    IN  IF ts # Undefined /\ (ts.t # "number" \/ ts.m <= 0)
        THEN Check(<<Issue("R8", "timestamp")>>, <<>>) ELSE Pass

\* Rule 9: gas_limit < 21000 (JavaScript comparison) is a warning
rule9(doc) ==
    LET g == Get(doc.footer, <<"gas_limit">>)
    IN  IF g # Undefined /\ LessThan(g, 21000)
        THEN Check(<<>>, <<Issue("R9", "gas_limit")>>) ELSE Pass

\* Rule 10: transfer needs a truthy amount, governance_proposal needs a
\* truthy proposal_id, title and category
rule10(doc) ==
    LET op == Get(doc.header, <<"op_code">>)
        fs == <<"amount", "proposal_id", "title", "category">>
        missing == {f \in Range(fs) : ~Truthy(Get(doc.data, <<f>>))}
    IN  Check((IF op = Word("transfer")
               THEN IssuesFor("R10", <<"amount">>, missing) ELSE <<>>)
              \o
              (IF op = Word("governance_proposal")
               THEN IssuesFor("R10", <<"proposal_id", "title", "category">>,
                              missing)
               ELSE <<>>), <<>>)

Rules(doc) == <<rule1(doc), rule2(doc), rule3(doc), rule4(doc, "from"),
                rule4(doc, "to"), rule5(doc), rule6(doc), rule7(doc),
                rule8(doc), rule9(doc), rule10(doc)>>

(* validateChainlexemes: the rules in order into one ValidationReport;    *)
(* addError clears isValid.  `thrown` marks a call that ended in a        *)
(* TypeError; its report holds what the rules before the throw added.     *)
RECURSIVE runRules(_, _)
runRules(rs, report) ==
    IF rs = <<>> THEN report
    ELSE IF Head(rs).throws THEN [report EXCEPT !.thrown = TRUE]
    ELSE runRules(Tail(rs),
                  [report EXCEPT !.isValid  = @ /\ Head(rs).errors = <<>>,
                                 !.errors   = @ \o Head(rs).errors,
                                 !.warnings = @ \o Head(rs).warnings])

validateChainlexemes(doc) ==
    runRules(Rules(doc), [thrown |-> FALSE, isValid |-> TRUE,
                          errors |-> <<>>, warnings |-> <<>>])
=============================================================================
