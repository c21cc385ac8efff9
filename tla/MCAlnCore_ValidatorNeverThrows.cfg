CONSTANTS
    UpperWords <- MCUpperWords
    Texts <- MCTexts
    NotAString = NotAString
SPECIFICATION Spec
INVARIANT ValidatorNeverThrows
CHECK_DEADLOCK FALSE
