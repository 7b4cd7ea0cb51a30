SPECIFICATION FairRuntimeSpec
CONSTANTS
    MaxPending <- MCMaxPending
    MaxRetained <- MCMaxRetained
    MaxJobs <- MCOneJob
    MaxWork <- MCMaxWork
    MaxNativeRetained <- MCMaxNativeRetained
    MaxQueries <- MCMaxQueries
    MaxNative <- MCMaxNative
    MaxCalls <- MCMaxCalls
    EveryWriterOwes = FALSE
PROPERTIES
    JobsOfBothQueuesEnd
    ShutdownCompletes
CHECK_DEADLOCK FALSE
