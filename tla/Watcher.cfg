SPECIFICATION FairSpec
CONSTANTS
    MaxBuffered <- MCMaxBuffered
    Disturbed = FALSE
    MaxEdits <- MCMaxEdits
    MaxMoves <- MCMaxMoves
    MaxFaults <- MCMaxFaults
    MaxHalts <- MCMaxHalts
INVARIANTS
    NeverBlind
    SettledIsCurrent
    CheckpointHonest
PROPERTIES
    CatchesUp
