CONSTANTS
    UpperWords <- MCUpperWords
    Users <- MCUsers
    ActionIds <- MCActionIds
    EnergyStates <- MCEnergyStates
    Reputations <- MCReputations
    EnergyAnswers <- MCEnergyAnswers
    Policies <- MCPolicies
    MaxCalls = 2
SPECIFICATION Spec
INVARIANT TypeOK
INVARIANT UnconfiguredUserDenied
PROPERTY AllowDecisionRefined
CHECK_DEADLOCK FALSE
