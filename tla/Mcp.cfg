CONSTANTS
    home = home
    other = other
    Ids = {1, 2}
    Names = {home, other}
    Home = home
    DaemonHolds = {home}
    MaxRequests = 3
    MaxFaults = 1
SPECIFICATION Spec
INVARIANTS SessionIsSound NoReplyLost
PROPERTIES StoresRest Answering
CHECK_DEADLOCK FALSE
