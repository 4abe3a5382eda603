CONSTANTS
    Words <- MCWords
    LowerWord <- MCLowerWord
    None = None
    BadLiteral = BadLiteral
    VirtAddrKey <- MainVirtAddrKey
    ArgsDomain <- ArgsMain
    Capabilities = Capabilities
    Inject = Inject
    MaxSplit = 3
    MaxEvents = 1
SPECIFICATION Spec
INVARIANTS
    EveryCommandAccepted
PROPERTIES
    Terminates
    ImplementsSession
CHECK_DEADLOCK FALSE
