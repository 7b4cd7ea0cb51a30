SPECIFICATION Spec
CONSTANTS
    MaxBuffered <- MCMaxBuffered
    Disturbed = TRUE
    MaxEdits = 1
    MaxMoves = 0
    MaxFaults = 0
    MaxHalts <- MCMaxHalts
INVARIANTS
    ResumedIsCurrent
