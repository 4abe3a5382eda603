CONSTANTS
    Words <- MCWords
    LowerWord <- MCLowerWord
    None = None
    BadLiteral = BadLiteral
    ArgsDomain <- ArgsPei
SPECIFICATION Spec
INVARIANT
    ErrorRecordsByIndex
CHECK_DEADLOCK FALSE
