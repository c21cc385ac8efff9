CONSTANTS
    UpperWords <- MCUpperWords
    Texts <- MCTexts
    NotAString = NotAString
SPECIFICATION Spec
INVARIANT SerializeParseIdempotent
CHECK_DEADLOCK FALSE
