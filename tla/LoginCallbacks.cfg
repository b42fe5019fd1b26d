SPECIFICATION LSpec
CONSTANTS
    i1 = i1  i2 = i2  p1 = p1  p2 = p2  p3 = p3  e1 = e1  e2 = e2
    Email = {e1, e2}  NoEmail = NoEmail  Failed = Failed  MaxAddresses = 2
    Instance = {i1, i2}
    Proc = {p1, p2, p3}
    Home <- TwoOne
    Redis = TRUE
    InFlightOnly = TRUE
    Timeouts = FALSE
    None = None
    MaxFaults = 1
    Modes <- Deployments
SYMMETRY Swap
CONSTRAINT OneKindOfFailure
INVARIANTS LTypeOK OneSessionPerLogin FailedLoginLeavesNothing DuplicatesShareTheLogin ProviderTokensRevoked SessionEmailVouched
PROPERTIES LeaderNotReplayed
