SPECIFICATION FSpec
CONSTANTS
    i1 = i1  i2 = i2  p1 = p1  p2 = p2  p3 = p3
    Instance = {i1, i2}
    Proc = {p1, p2, p3}
    Home <- TwoOne
    Redis = TRUE
    InFlightOnly = TRUE
    Timeouts = FALSE
    None = None
    MaxFaults = 0
INVARIANT NotReplayed
