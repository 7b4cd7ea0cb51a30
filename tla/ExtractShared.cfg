SPECIFICATION ExtractSpec
CONSTANTS
    sa = sa
    sb = sb
    hs = hs
    hn = hn
    None = None
    Sources = {sa, sb}
    Headers = {hs, hn}
    Outputs = {d1}
    Runs = {p1}
    Includes <- MCIncludes
    Requests <- Partial
    MidRun = FALSE
    MaxChanges = 2
    MaxStops = 1
INVARIANTS
    HeaderEditRearms
CHECK_DEADLOCK FALSE
