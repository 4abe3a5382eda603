CONSTANTS
    Capabilities = Capabilities
    Inject = Inject
    MaxSplit = 3
    MaxEvents = 1
SPECIFICATION Spec
INVARIANT
    EveryCommandAccepted
PROPERTIES
    Terminates
    ImplementsSession
CHECK_DEADLOCK FALSE
