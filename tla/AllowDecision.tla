---------------------------- MODULE AllowDecision ----------------------------
(***************************************************************************)
(* What the augmented policy engine promises, stated without the order of *)
(* its checks: a request is allowed exactly when the action is registered, *)
(* the user's policy permits the action's capability level, the user's    *)
(* reputation is a number at least the level's threshold, and the energy  *)
(* budget check passed.  Each decision is recorded with the reputation    *)
(* and the energy answer it was made on.                                  *)
(***************************************************************************)
EXTENDS Naturals, Sequences

CONSTANTS
    Users, ActionIds, Reputations, EnergyAnswers,
    Level,        \* registered action id -> its capability level
    Permitted,    \* user -> the set of capability levels its policy allows
    Threshold,    \* capability level -> minimum reputation (0 if none)
    IsNumber(_),  \* is this reputation value a number?
    AtLeast(_, _) \* numeric reputation r is at least threshold t
VARIABLE decisions

Grant(u, a, rep, energyOk) ==
    /\ a \in DOMAIN Level
    /\ Level[a] \in Permitted[u]
    /\ IsNumber(rep) /\ AtLeast(rep, Threshold[Level[a]])
    /\ energyOk

Decide ==
    \E u \in Users, a \in ActionIds, rep \in Reputations, e \in EnergyAnswers :
        decisions' = Append(decisions,
                            [user |-> u, actionId |-> a, reputation |-> rep,
                             energyOk |-> e, allowed |-> Grant(u, a, rep, e)])

Spec == decisions = <<>> /\ [][Decide]_decisions
=============================================================================
