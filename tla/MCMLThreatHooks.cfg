CONSTANTS
    Payloads <- MCPayloads
    Clock = {1}
    MaxScores = 3
SPECIFICATION Spec
INVARIANT WrappingNeverHidesThreat
CHECK_DEADLOCK FALSE
