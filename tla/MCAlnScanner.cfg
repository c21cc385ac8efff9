CONSTANTS
    UpperWords <- MCUpperWords
    Texts <- MCScanTexts
    NotAString = NotAString
SPECIFICATION Spec
INVARIANT TypeOK
INVARIANT ScannerMatchesReference
CHECK_DEADLOCK FALSE
