CONSTANTS
    Words <- MCWords
    LowerWord <- MCLowerWord
    None = None
    BadLiteral = BadLiteral
    VirtAddrKey <- QemuVirtAddrKey
    ArgsDomain <- ArgsConstructor
SPECIFICATION Spec
INVARIANTS
    TypeOK
    ErrorRecordsByIndex
    ContextRecordsByIndex
    VendorBytesFlattened
    TopLevelScalarsCopied
    RejectsExactlyInvalidInput
CHECK_DEADLOCK FALSE
