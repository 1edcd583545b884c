CONSTANTS
    None = None
    doc = doc
    thread = thread
    c1 = c1
    c2 = c2
    c3 = c3
    c4 = c4
    c5 = c5
    c6 = c6
    Docs = {doc}
    Threads = {thread}
    Ids = {c1, c2, c3, c4, c5, c6}
    Commands <- Door
    FailurePoints <- Failing
    MaxLog = 3
    MaxStops = 1
    MaxRebalances = 1
    MaxExpiries = 1
    MaxSweeps = 0
SPECIFICATION FairSpec
INVARIANTS OldCommandsNeverRun NoneSkippedAfterStart
PROPERTIES EveryCommandRun
CHECK_DEADLOCK FALSE
