CONSTANTS
    Words <- MCWords
    LowerWord <- MCLowerWord
    None = None
    BadLiteral = BadLiteral
    VirtAddrKey <- QemuVirtAddrKey
    ArgsDomain <- ArgsErrorInfo
SPECIFICATION Spec
INVARIANT
    ErrorInfoSent
CHECK_DEADLOCK FALSE
