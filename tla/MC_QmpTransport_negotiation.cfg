CONSTANTS
    Capabilities = Capabilities
    Inject = Inject
    RunCommands <- MCRunCommands
    Prelude <- MCPrelude
    MaxSplit = 2
    MaxEvents = 1
SPECIFICATION Spec
INVARIANT
    NegotiationAcknowledged
CHECK_DEADLOCK FALSE
