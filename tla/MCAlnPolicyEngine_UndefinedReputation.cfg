CONSTANTS
    UpperWords <- MCUpperWords
    Users <- MCUsers
    ActionIds <- MCActionIds
    EnergyStates <- MCEnergyStates
    Reputations <- MCReputationsWithUndefined
    EnergyAnswers <- MCEnergyAnswers
    Policies <- MCPolicies
    MaxCalls = 2
SPECIFICATION Spec
PROPERTY AllowDecisionRefined
CHECK_DEADLOCK FALSE
