SPECIFICATION ChildSpec
CONSTANTS
    Streams <- MCStreams
    Limit <- MCLimit
    MaxWritten <- MCMaxWritten
INVARIANTS
    CancelTerminatesGroup
CHECK_DEADLOCK FALSE
