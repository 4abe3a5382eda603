CONSTANTS
    Words <- MCWords
    LowerWord <- MCLowerWord
SPECIFICATION Spec
INVARIANT StripsAtMostOneSuffix
CHECK_DEADLOCK FALSE
