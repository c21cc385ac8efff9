--------------------------- MODULE AlnPolicyEngine ---------------------------
(***************************************************************************)
(* AugmentedPolicyEngine (src/aln/augmented_policy/policy_engine.js).     *)
(* isActionAllowed is synchronous, so one call is one step.  The engine's *)
(* collaborators are not in the repository: what                          *)
(* reputationSystem.computeReputation and                                 *)
(* energyIntegration.checkEnergyBudget return is chosen from Reputations  *)
(* and EnergyAnswers, which are JavaScript values (AlnValue).  The engine *)
(* itself never writes `policies`; its contents are the constant Policies, *)
(* which is empty for an engine as the constructor leaves it.  The call  *)
(* log and the audit log are bounded by MaxCalls.                         *)
(***************************************************************************)
EXTENDS AlnValue

CONSTANTS
    Users,          \* user ids
    ActionIds,      \* actionId arguments: registered ids and unknown ones
    EnergyStates,   \* energyState arguments (records, or Undefined)
    Reputations,    \* values computeReputation may return
    EnergyAnswers,  \* values checkEnergyBudget may return
    Policies,       \* the contents of this.policies: user -> policy record
    MaxCalls

VARIABLES
    calls,    \* the isActionAllowed calls so far, with their results
    audits    \* the emitActionAudit records, in order

vars == <<calls, audits>>

\* this.actionRegistry: action id -> capabilityLevel
actionRegistry ==
    [a \in {"ENHANCED_VISION", "RAPID_MOBILITY"} |-> "ADVANCED"] @@
    [a \in {"SECURE_COMMS", "DATA_ACCESS_LEVEL_X"} |-> "LAW_ENF_ASSIST"]

\* seeded fault: the default policy also lists 'ADVANCED'
getEffectivePolicyOpenDefault(user) ==
    IF user \in DOMAIN Policies THEN Policies[user]
    ELSE [allowedCapabilityLevels |-> <<"BASIC", "ADVANCED">>]

\* `this.policies.get(user) || {..., allowedCapabilityLevels: ['BASIC'] ...}`
getEffectivePolicy(user) ==
    IF user \in DOMAIN Policies THEN Policies[user]
    ELSE [allowedCapabilityLevels |-> <<"BASIC">>]

requireLawEnfModeFor(actionId) ==
    actionId \in DOMAIN actionRegistry /\ actionRegistry[actionId] = "LAW_ENF_ASSIST"

\* `x?.f || d` for a record (energyState, policy) or undefined
Field(x, f, d) ==
    IF x # Undefined /\ f \in DOMAIN x /\ Truthy(x[f]) THEN x[f] ELSE d

\* seeded fault: the ADVANCED threshold test is `reputation <= 50`
reputationTooLowAtMost50(level, rep) ==
    \/ level = "ADVANCED" /\ LessThan(rep, 51)
    \/ level = "LAW_ENF_ASSIST" /\ LessThan(rep, 70)

\* the two reputation thresholds, with JavaScript's `<`
reputationTooLow(level, rep) ==
    \/ level = "ADVANCED" /\ LessThan(rep, 50)
    \/ level = "LAW_ENF_ASSIST" /\ LessThan(rep, 70)

\* the result of isActionAllowed, given the collaborators' answers
isActionAllowed(user, actionId, energyState, rep, energyCheck) ==
    LET level == actionRegistry[actionId]
    IN  CASE actionId \notin DOMAIN actionRegistry -> [allowed |-> FALSE, reason |-> "unknown"]
          [] ~Includes(getEffectivePolicy(user).allowedCapabilityLevels, level) ->
                 [allowed |-> FALSE, reason |-> "capability"]
          [] reputationTooLow(level, rep) -> [allowed |-> FALSE, reason |-> "reputation"]
          [] ~Truthy(energyCheck) -> [allowed |-> FALSE, reason |-> "energy"]
          [] OTHER -> [allowed |-> TRUE, reason |-> ""]

\* seeded fault: energyBefore is `energyState?.cognitiveLevel`, no default
energyBeforeNoDefault(energyState) ==
    IF energyState # Undefined THEN energyState.cognitiveLevel ELSE Undefined

\* `energyState?.cognitiveLevel || 0`
energyBefore(energyState) == Field(energyState, "cognitiveLevel", Num(0, 0))

\* the record emitActionAudit logs (timestamp left out)
emitActionAudit(user, actionId, allowed, energyState, policy) ==
    [user |-> user, actionId |-> actionId, allowed |-> allowed,
     energyBefore |-> energyBefore(energyState),
     policyVersion |-> Field(policy, "version", Str(<<"1", ".", "0">>))]

\* one call isActionAllowed(user, actionId, energyState); the energy
\* budget is asked for energyState?.gridPowerDrawWatts || 0
IsActionAllowed ==
    /\ Len(calls) < MaxCalls
    /\ \E u \in Users, a \in ActionIds, es \in EnergyStates, rep \in Reputations,
          ans \in EnergyAnswers :
          LET r == isActionAllowed(u, a, es, rep, ans)
          IN  /\ calls' = Append(calls,
                    [user |-> u, actionId |-> a, reputation |-> rep,
                     watts |-> Field(es, "gridPowerDrawWatts", Num(0, 0)),
                     energyOk |-> Truthy(ans), allowed |-> r.allowed,
                     reason |-> r.reason])
              /\ audits' = IF r.allowed
                           THEN Append(audits, emitActionAudit(u, a, TRUE, es,
                                                    getEffectivePolicy(u)))
                           ELSE audits

Init == calls = <<>> /\ audits = <<>>

Next == IsActionAllowed

Spec == Init /\ [][Next]_vars

(***************************************************************************)
(* Properties                                                              *)
(***************************************************************************)
Reasons == {"unknown", "capability", "reputation", "energy", ""}
TypeOK ==
    /\ Len(calls) <= MaxCalls
    /\ \A i \in DOMAIN calls :
          /\ calls[i].user \in Users /\ calls[i].actionId \in ActionIds
          /\ calls[i].allowed \in BOOLEAN /\ calls[i].reason \in Reasons
    /\ Len(audits) <= Len(calls)
    /\ \A i \in DOMAIN audits : audits[i].energyBefore.t = "number"

(* The engine implements AllowDecision: every call's result is the one the *)
(* abstract decision gives for the same user, action, reputation and      *)
(* energy answer, whatever order the code checks them in and whatever     *)
(* JavaScript's `<` makes of the reputation value.                       *)
Abstract == INSTANCE AllowDecision WITH
    decisions <- [i \in DOMAIN calls |->
                    [user |-> calls[i].user, actionId |-> calls[i].actionId,
                     reputation |-> calls[i].reputation,
                     energyOk |-> calls[i].energyOk, allowed |-> calls[i].allowed]],
    Level <- actionRegistry,
    Permitted <- [u \in Users |-> Range(getEffectivePolicy(u).allowedCapabilityLevels)],
    Threshold <- [l \in {"BASIC", "ADVANCED", "LAW_ENF_ASSIST"} |->
                    CASE l = "ADVANCED" -> 50 [] l = "LAW_ENF_ASSIST" -> 70 [] OTHER -> 0],
    IsNumber <- LAMBDA r : r.t = "number",
    AtLeast <- LAMBDA r, t : r.m >= t * 10 ^ r.e,
    EnergyAnswers <- {Truthy(x) : x \in EnergyAnswers}
AllowDecisionRefined == Abstract!Spec

(* A user with no entry in `policies` gets the default policy, which     *)
(* permits only BASIC, and no registered action is BASIC: such a user is  *)
(* denied every action, whatever its reputation and energy.              *)
UnconfiguredUserDenied ==
    \A i \in DOMAIN calls :
        calls[i].user \notin DOMAIN Policies => ~calls[i].allowed
=============================================================================
