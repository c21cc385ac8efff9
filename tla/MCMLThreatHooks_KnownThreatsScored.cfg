CONSTANTS
    Payloads <- MCPayloads
    Clock = {1}
    MaxScores = 2
SPECIFICATION Spec
INVARIANT KnownThreatsScored
CHECK_DEADLOCK FALSE
