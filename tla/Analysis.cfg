SPECIFICATION Spec
CONSTANTS
    None = None
    Classes = {"B", "D", "E"}
    BaseOf <- Bases
    OneUnit = TRUE
    SharedTargets = FALSE
    OtherObjects = FALSE
    MaxGraph = 3
    Limits = {1, 2, 3}
    Units = {"a.cpp", "b.cpp"}
    HomeOf <- RecHome
    InputsOf <- RecInputs
    MayCall <- RecMay
    Virtual = {"f"}
    MaxEdits = 1
    MaxSteps = 16
    t1 = t1
    t2 = t2
    Tools = {t1, t2}
    EnvironmentOf <- ToolEnvironment
    CacheEnabled <- AllEnabled
    InvocationDirectory = "b"
    CommandsFor <- MCCommandsFor
    PhysicalOf <- MCPhysicalOf
    Selections <- MCSelections
    DriverNames = {"g++"}
    Executables = {"g12", "g13"}
    SdkRoot = None
    Resources = "clang"
    MemoryLimit = 1
    BrokenBuilds <- MCBroken
    MaxReplacements = 1
    MaxDamages = 1
    MaxSelections = 2
    SwitchedWhileProbing = FALSE
    TreeDirectories <- MCDirectories
    TreeFiles <- MCTreeFiles
    TreeLinks <- MCTreeLinks
    SuffixedNames = {"a.cpp", "b.cpp", "c.cpp", "h.h", "k.h", "o.h"}
    SuffixlessHeaders = {"vector", "notes"}
    Unreadable <- MCUnreadable
    SelectedSources <- MCSelected
    CommandsOf <- MCCommandsOf
    MaxVanished = 1
    LinksVanish = FALSE
    IncludesAt <- MCIncludesAt
    OnlyFor <- MCOnlyFor
    Forced <- MCForced
    MaxTexts = 3
    MaxAnalyses = 2
    Repositories = {"m", "s", "x"}
    MainRepository = "m"
    Searched = {"s"}
    NamedBy <- NamedHeaders
    Optional = 2
    Broken = {2}
    c1 = c1
    c2 = c2
    Processes = {c1, c2}
    MaxTreeEdits = 2
    MaxUses <- Quota
INVARIANTS
    SearchHonest
    NoOverrideDropped
    RecoveryHonest
    FlowSound
    ProbedAsAnswered
    FoundInAnyOrder
    GraphOfPresentTexts
    NoCommitMissed
CHECK_DEADLOCK FALSE
