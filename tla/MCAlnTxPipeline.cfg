CONSTANTS
    UpperWords <- MCUpperWords
    Seeds <- MCSeeds
    Amounts <- MCAmounts
    Nonces <- MCNonces
    ProposalDatas <- MCProposalDatas
    ProposalIds <- MCProposalIds
    Supports <- MCSupports
    Clock <- MCClock
    MsgHashes <- MCMsgHashes
    NotAString = NotAString
SPECIFICATION Spec
INVARIANT BuiltTxValidates
CHECK_DEADLOCK FALSE
