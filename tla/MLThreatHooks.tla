---------------------------- MODULE MLThreatHooks ----------------------------
(***************************************************************************)
(* MLThreatHooks (src/aln/security/ml_hooks.js).  loadSignatures and      *)
(* updatePolicies are async but have no await before their assignments,  *)
(* so each is one atomic step.  A payload's text is a sequence of tokens: *)
(* the words the three regular expressions look for, "nl" for a line     *)
(* terminator (which `.` does not match) and "x" for anything else.  An  *)
(* object payload is {data: text}, and JSON.stringify escapes each        *)
(* terminator as the two characters \ and n.                              *)
(***************************************************************************)
EXTENDS Naturals, Sequences, SequencesExt

CONSTANTS
    Payloads,    \* payload arguments: [kind |-> "string" | "object", text]
    Clock,       \* values of Date.now()
    MaxScores    \* bound on the scorePayload calls recorded

VARIABLES
    signatures,  \* this.signatures
    lastUpdate,  \* this.lastUpdate
    results      \* the ThreatScores returned so far, with their payloads

vars == <<signatures, lastUpdate, results>>

\* the stub list loadSignatures installs, in order
StubSignatures ==
    << [pattern |-> "selfdestruct(",          domain |-> "drainer",      severity |-> "high"],
       [pattern |-> "delegatecall.*unknown",  domain |-> "supply_chain", severity |-> "high"],
       [pattern |-> "balanceOf.*revert",      domain |-> "drainer",      severity |-> "medium"] >>

\* seeded fault: String(payload) in place of JSON.stringify
TextOfNoStringify(p) ==
    IF p.kind = "string" THEN p.text ELSE <<"[", "object", " ", "Object", "]">>

\* `typeof payload === 'string' ? payload : JSON.stringify(payload)`
TextOf(p) ==
    IF p.kind = "string" THEN p.text
    ELSE <<"{", "\"", "data", "\"", ":", "\"">>
         \o FoldLeft(LAMBDA acc, t : acc \o (IF t = "nl" THEN <<"\\", "n">> ELSE <<t>>),
                     <<>>, p.text)
         \o <<"\"", "}">>

\* `a.*b`: an a, then a b later on the same line
Spans(t, a, b) ==
    \E i, j \in DOMAIN t :
        i < j /\ t[i] = a /\ t[j] = b /\ \A k \in (i + 1)..(j - 1) : t[k] # "nl"

\* sig.pattern.test(text)
Matches(pattern, t) ==
    CASE pattern = "selfdestruct("         -> \E i \in DOMAIN t : t[i] = "selfdestruct("
      [] pattern = "delegatecall.*unknown" -> Spans(t, "delegatecall", "unknown")
      [] pattern = "balanceOf.*revert"     -> Spans(t, "balanceOf", "revert")

\* the scoring loop over this.signatures, then the returned ThreatScore;
\* confidence is in tenths
scorePayload(sigs, p) ==
    LET t    == TextOf(p)
        step(acc, sig) ==
            IF Matches(sig.pattern, t)
            THEN [score    |-> acc.score + (IF sig.severity = "high" THEN 40 ELSE 20),
                  domain   |-> sig.domain,
                  evidence |-> Append(acc.evidence, [pattern |-> sig.pattern,
                                                     severity |-> sig.severity])]
            ELSE acc
        r    == FoldLeft(step, [score |-> 0, domain |-> "none", evidence |-> <<>>], sigs)
    IN  [score |-> IF r.score < 100 THEN r.score ELSE 100, domain |-> r.domain,
         confidence |-> IF r.score > 0 THEN 8 ELSE 0, evidence |-> r.evidence]

Init ==
    /\ signatures = <<>>
    /\ lastUpdate = 0
    /\ results = <<>>

LoadSignatures ==
    /\ signatures' = StubSignatures
    /\ \E now \in Clock : lastUpdate' = now
    /\ UNCHANGED results

\* `await this.loadSignatures()`
UpdatePolicies == LoadSignatures

ScorePayload ==
    /\ Len(results) < MaxScores
    /\ \E p \in Payloads :
          results' = Append(results, [payload |-> p] @@ scorePayload(signatures, p))
    /\ UNCHANGED <<signatures, lastUpdate>>

Next == LoadSignatures \/ UpdatePolicies \/ ScorePayload

Spec == Init /\ [][Next]_vars

(***************************************************************************)
(* Properties                                                              *)
(***************************************************************************)
(* JSON.stringify only adds the wrapper and escapes: a threat the hooks    *)
(* find in a string is found in {data: string} too, so wrapping a payload *)
(* in an object never lowers its score (a line break that hides a match  *)
(* in the string is escaped in the object and may raise it).              *)
WrappingNeverHidesThreat ==
    \A t \in {p.text : p \in Payloads} :
        scorePayload(signatures, [kind |-> "object", text |-> t]).score
            >= scorePayload(signatures, [kind |-> "string", text |-> t]).score

(* The hooks "score transaction or contract payload" for threats: a       *)
(* payload that one of the known malware patterns matches is never        *)
(* reported clean (score 0, confidence 0.0), whenever it is scored.      *)
KnownThreatsScored ==
    \A i \in DOMAIN results :
        (\E s \in Range(StubSignatures) :
            Matches(s.pattern, TextOf(results[i].payload)))
        => results[i].score > 0
=============================================================================
