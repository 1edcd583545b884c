CONSTANTS
    Docs = {doc}
    Versions = {a, b}
    None = None
    Standin = Standin
    Unmarked = Unmarked
    a = a
    b = b
    doc = doc
    Messages <- Writes
    RewindOutcomes = {"done"}
    WriteAttempts = 1
    MaxLog = 3
    MaxStops = 1
    MaxRewinds = 1
    MaxRebalances = 0
SYMMETRY Contents
SPECIFICATION Spec
INVARIANTS BodyMatchesNewestLeaf CaughtUpAgrees
PROPERTIES ReplacementNeverLoses
CHECK_DEADLOCK FALSE
