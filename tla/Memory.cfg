SPECIFICATION Spec
CONSTANTS
    p = p  q = q  c1 = c1  c2 = c2  v1 = v1  d1 = d1
    None = None
    Procs <- mc_Procs
    Talkers <- mc_Talkers
    Sweepers <- mc_Sweepers
    Chat = {c1, c2}
    Versions = {v1}
    Data = {d1}
    Alike <- mc_Alike
    Close <- mc_Close
    Layers = {"working"}
    Rate <- mc_Rate
    Bound = 1
    Batch = 1
    Calls <- mc_Calls
    MaxFacts = 2
    MaxNodes = 2
INVARIANTS RowsAreSound VectorFollowsText
PROPERTIES FreshIsKept ForgottenFades
