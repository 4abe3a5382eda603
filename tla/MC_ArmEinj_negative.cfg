CONSTANTS
    Words <- MCWords
    LowerWord <- MCLowerWord
    None = None
    BadLiteral = BadLiteral
    VirtAddrKey <- QemuVirtAddrKey
    ArgsDomain <- ArgsGlobalsNegative
SPECIFICATION Spec
INVARIANT RejectsExactlyInvalidInput
CHECK_DEADLOCK FALSE
