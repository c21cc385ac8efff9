CONSTANTS
    UpperWords <- MCUpperWords
    Texts <- MCTexts
    NotAString = NotAString
SPECIFICATION Spec
INVARIANT ValidReportMeetsSpecRules
CHECK_DEADLOCK FALSE
