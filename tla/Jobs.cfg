SPECIFICATION FairJobsSpec
CONSTANTS
    MaxPending <- MCMaxPending
    MaxRetained <- MCMaxRetained
    MaxJobs <- MCMaxJobs
    Streams <- MCStreams
    Limit <- MCLimit
    MaxWritten <- MCMaxWritten
INVARIANTS
    NoOrphan
    ReportedOnce
    WakeupPosted
    RoomForRecords
    NothingLeft
    HonestOutput
PROPERTIES
    Implements
    EveryJobEnds
    ChildImplements
CHECK_DEADLOCK FALSE
