SPECIFICATION AstSpec
CONSTANTS
    None = None
    Trees <- MCTrees
    Node <- MCNode
    SourceFiles <- AllFiles
    SystemFiles = {"s"}
    Unregistered = {"g", "b"}
INVARIANTS
    EntriesComplete
CHECK_DEADLOCK FALSE
