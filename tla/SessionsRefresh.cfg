SPECIFICATION SSpec
CONSTANTS
    d1 = d1  d2 = d2  u1 = u1  u2 = u2  i1 = i1  i2 = i2  p1 = p1  p2 = p2  p3 = p3
    Device = {d1}
    User = {u1}
    Instance = {i1, i2}
    Proc = {p1, p2, p3}
    Home <- TwoHomes
    Redis = TRUE
    None = None
    MaxGen = 3
    MaxFaults = 0
    Requests = {"refresh", "login"}
    UsernameQuery = FALSE
    Expiry = TRUE
    Timeouts = FALSE
SYMMETRY Swap
INVARIANTS STypeOK OnlyOldTokensAreReuse ConcurrentRefreshIsNotTheft CurrentTokenIsHeld ReadsFresh
PROPERTY RefreshSharesRotations
CHECK_DEADLOCK FALSE
