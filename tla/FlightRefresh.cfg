SPECIFICATION FFairSpec
CONSTANTS
    i1 = i1  i2 = i2  p1 = p1  p2 = p2  p3 = p3
    Instance = {i1, i2}
    Proc = {p1, p2, p3}
    Home <- TwoOne
    Redis = TRUE
    InFlightOnly = FALSE
    Timeouts = TRUE
    None = None
    MaxFaults = 2
INVARIANTS FTypeOK RunsExclude SuccessNotRepeated
PROPERTIES EveryDoReturns DoSharesRuns ResultNotOverwritten
