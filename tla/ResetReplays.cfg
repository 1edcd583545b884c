CONSTANTS
    None = None
    Standin = Standin
    Unmarked = Unmarked
    a = a
    b = b
    doc = doc
    Docs = {doc}
    Versions = {a, b}
    Messages <- Writes
    RewindOutcomes = {"seek failed", "store failed", "commit failed", "done"}
    WriteAttempts = 1
    MaxLog = 2
    MaxStops = 1
    MaxRewinds = 2
    MaxRebalances = 0
    ResetFailures = {"wipe", "wipe ltm", "seed", "embed"}
    MaxResets = 1
SYMMETRY Contents
SPECIFICATION ResetSpec
INVARIANTS ReplayIsSound
CHECK_DEADLOCK FALSE
