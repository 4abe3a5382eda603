CONSTANTS
    Words <- MCWords
    LowerWord <- MCLowerWord
    None = None
    BadLiteral = BadLiteral
    VirtAddrKey <- QemuVirtAddrKey
    ArgsDomain <- ArgsGlobalsZero
SPECIFICATION Spec
INVARIANT TopLevelScalarsCopied
CHECK_DEADLOCK FALSE
