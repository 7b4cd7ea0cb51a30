SPECIFICATION Spec
CONSTANTS
    MaxBuffered <- MCMaxBuffered
    Disturbed = TRUE
    MaxEdits = 0
    MaxMoves = 1
    MaxFaults = 0
    MaxHalts <- MCMaxHalts
INVARIANTS
    NeverBlind
