SPECIFICATION Spec
CONSTANTS
    d1 = d1  d2 = d2  u1 = u1  u2 = u2  i1 = i1  p1 = p1  p2 = p2
    Device = {d1, d2}
    User = {u1, u2}
    Instance = {i1}
    Proc = {p1, p2}
    Home <- OneHome
    Redis = FALSE
    None = None
    MaxGen = 2
    MaxFaults = 1
SYMMETRY Shuffle
INVARIANTS TypeOK CacheNotAhead NoResurrection CoherentAtRest ReadsFresh
CONSTRAINT OneAccount
