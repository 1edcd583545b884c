CONSTANTS
    Docs = {doc}
    Versions = {a}
    None = None
    Standin = Standin
    Unmarked = Unmarked
    a = a
    b = b
    doc = doc
    Messages <- Few
    RewindOutcomes = {"seek failed", "store failed", "commit failed", "done"}
    WriteAttempts = 2
    MaxLog = 2
    MaxStops = 1
    MaxRewinds = 1
    MaxRebalances = 1
SPECIFICATION FairSpec
INVARIANTS CommittedIsAccountedFor
PROPERTIES AtLeastOnceDelivery EveryMessageHandled
CHECK_DEADLOCK FALSE
