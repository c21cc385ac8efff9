-------------------------- MODULE MCAlnPolicyEngine --------------------------
(* Two users, one with a policy that permits every level and one with no  *)
(* entry in `policies`; an ADVANCED, a LAW_ENF_ASSIST and an unknown      *)
(* action; reputations on both sides of both thresholds; a granting and a *)
(* refusing energy budget; an energyState with and without fields.        *)
EXTENDS AlnPolicyEngine

MCUpperWords == [w \in {"HEADER"} |-> "header"]

MCUsers     == {"u1", "u2"}
MCActionIds == {"ENHANCED_VISION", "SECURE_COMMS", "TELEPORT"}
MCEnergyStates ==
    {Undefined, [gridPowerDrawWatts |-> Num(500, 0), cognitiveLevel |-> Num(3, 0)]}
MCReputations == {Num(49, 0), Num(50, 0), Num(69, 0), Num(70, 0)}
\* a reputation system that has no score for a user returns undefined
MCReputationsWithUndefined == MCReputations \cup {Undefined}
MCEnergyAnswers == {Bool(TRUE), Bool(FALSE)}
MCPolicies ==
    "u1" :> [allowedCapabilityLevels |-> <<"BASIC", "ADVANCED", "LAW_ENF_ASSIST">>,
             version |-> Str(<<"2">>)]
=============================================================================
