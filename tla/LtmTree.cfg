CONSTANTS
    None = None
    p = p
    q = q
    d = d
    Procs = {p}
    Docs = {d}
    Texts = {"plain", "vague"}
    Spines <- Growing
    Distance <- Distances
    Cutoff = 3
    MinMargin = 1
    MaxNodes = 9
    PageSize = 1
    MaxCrashes = 2
    MaxOps = 4
    Maintenance = {"garden", "reset", "reembed"}
SPECIFICATION Spec
INVARIANTS TreeIsSound SpineComplete BrowsingFindsDocuments SummariesCurrent
PROPERTIES ReplacementKeepsOne OperationsHeal GardeningSettles
CHECK_DEADLOCK FALSE
