SPECIFICATION Spec
CONSTANTS
    None = None
    A = A
    B = B
    f = f
    g = g
    Checkouts = {A, B}
    Names = {f, g}
    OnDisk <- FilesOnDisk
    Stores = {d}
    MaxRows = 2
    MaxCommands = 5
    MayOverlap = FALSE
    Openers = {o1, o2}
    Symbols = {s}
    FileIds = {1, 2, 3}
    MaxFileId = 2
    Places = {p, q}
    sa = sa
    sb = sb
    hs = hs
    hn = hn
    Sources = {sa, sb}
    Headers = {hs, hn}
    Outputs = {d1}
    Runs = {p1, p2}
    Includes <- MCIncludes
    Requests <- Whole
    MidRun = FALSE
    MaxChanges = 2
    MaxStops = 1
    fa = fa
    fb = fb
    fc = fc
    Units = {ua, ub}
    Header = hd
    Functions = {fa, fb, fc}
    Shared = {fa}
    Texts <- MCTexts
    MaxEdits = 2
    MaxRefreshes = 3
    Clones <- MCClones
    CloneRoot <- MCCloneRoot
    RepositoryOf <- MCRepositoryOf
    ProjectComponents <- MCProjectComponents
    Versions <- MCVersions
    Links <- MCLinks
    Databases <- MCDatabases
    PathFlags = {"-I", "-isystem"}
    IncludeFlags = {"-I", "-isystem", "-include"}
    Dropped = {"-c"}
    DroppedPrefix = {"-MF"}
    DroppedWithArgument = {"-o"}
    MaxImports = 3
    Trees <- MCTrees
    Node <- MCNode
    SourceFiles <- AllFiles
    SystemFiles = {"s"}
    Unregistered = {"g", "b"}
INVARIANTS
    PairedIdentity
    ReadersFindCurrent
    SkippedIsCurrent
    FactsAgree
    IdsNeverReused
    StoredBuildKept
    FactsAreTheSources
PROPERTIES
    CommittedPairAgrees
    UpgradesWhole
    ExtractionAdvances
CHECK_DEADLOCK FALSE
