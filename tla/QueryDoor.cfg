CONSTANTS
    RrfK = 5
    LegFactor = 1
    OverFetch = 2
    KnnMaxK = 2
    MaxK = 2
    Scale = 336
    Questions <- mc_Questions
    SeedCount = 1
    None = None
    MaxRequests = 2
    MaxRestarts = 1
    MaxFailures = 1
SPECIFICATION Spec
INVARIANTS DoorIsSound SearchIsFair FusionsAgree
PROPERTIES EveryRequestSettled
CHECK_DEADLOCK FALSE
