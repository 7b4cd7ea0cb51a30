SPECIFICATION ServerSpec
CONSTANTS
    None = None
    MaxPending <- MCMaxPending
    MaxRetained <- MCMaxRetained
    MaxJobs <- MCTwoJobs
    MaxWork <- MCMaxWork
    MaxNativeRetained <- MCMaxNativeRetained
    MaxQueries <- MCMaxQueries
    MaxNative <- MCMaxNative
    MaxCalls <- MCMaxCalls
    EveryWriterOwes = FALSE
    FileIds = {1, 2, 3}
    ScopeOf <- Scopes
    NameOf <- SymbolNames
    Contents <- FactTexts
    MaxFacts = 1
    MaxCatalog = 2
    RemovesWhileRead = FALSE
    QueueLimit = 2
    MaxRecords = 5
    Launches = {1, 2, 3}
    MaxKills = 2
INVARIANTS
    MutualExclusion
    NoLostRefresh
    NativeNoOrphan
    ShutdownClean
    IndexServesFacts
    LogAccounts
    OneHonestServer
CHECK_DEADLOCK FALSE
