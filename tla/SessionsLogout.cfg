SPECIFICATION SFairSpec
CONSTANTS
    d1 = d1  d2 = d2  u1 = u1  u2 = u2  i1 = i1  i2 = i2  p1 = p1  p2 = p2  p3 = p3
    Device = {d1}
    User = {u1}
    Instance = {i1, i2}
    Proc = {p1, p2}
    Home <- OneEach
    Redis = TRUE
    None = None
    MaxGen = 2
    MaxFaults = 0
    Requests = {"refresh", "logout", "login"}
    UsernameQuery = TRUE
    Expiry = FALSE
    Timeouts = FALSE
PROPERTY LogoutDeletesSession
