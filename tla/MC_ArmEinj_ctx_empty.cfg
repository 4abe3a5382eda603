CONSTANTS
    Words <- MCWords
    LowerWord <- MCLowerWord
    None = None
    BadLiteral = BadLiteral
    VirtAddrKey <- QemuVirtAddrKey
    ArgsDomain <- ArgsCtxEmpty
SPECIFICATION Spec
INVARIANT ContextRecordsByIndex
CHECK_DEADLOCK FALSE
