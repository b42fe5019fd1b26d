SPECIFICATION LiveSpec
CONSTANTS
    Instance = {i1, i2}
    Environments <- MCEnvironments
    MaxStarts = 3
    MaxInt = 127
    Unit <- MCUnit
    DefaultDuration = 100
    Unset = Unset
INVARIANTS StartupTypeOK DurationsAreMeant StartFailsOnlyWithReason PublishedSocketIsOpen
    ServesWithItsSchema RequestsKeepTheirResources
PROPERTIES StartUpEnds ExitEnds
CHECK_DEADLOCK FALSE
