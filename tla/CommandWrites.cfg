CONSTANTS
    None = None
    doc = doc
    thread = thread
    c1 = c1
    c2 = c2
    c3 = c3
    c4 = c4
    c5 = c5
    c6 = c6
    Docs = {doc}
    Threads = {thread}
    Ids = {c1, c2, c3, c4, c5, c6}
    Commands <- Writing
    FailurePoints <- HalfWay
    MaxLog = 3
    MaxStops = 1
    MaxRebalances = 0
    MaxExpiries = 0
    MaxSweeps = 1
SYMMETRY Twins
SPECIFICATION Spec
INVARIANTS LedgerHolds TurnsMeet
CHECK_DEADLOCK FALSE
