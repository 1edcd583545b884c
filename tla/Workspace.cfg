CONSTANTS
    None = None
    Unknown = Unknown
    p = p
    q = q
    gemma = gemma
    minilm = minilm
    Procs = {p, q}
    Models = {gemma, minilm}
    Dim <- SameDims
    Latest = 1
    Stores <- AnyStores
    Ops = {"serve", "delete", "reembed", "import"}
    MaxInodes = 8
    MaxJobs = 2
    MaxCrashes = 1
SPECIFICATION Spec
INVARIANTS StoresAreSound ServedIsOnDisk
PROPERTIES UpgradesAreSafe
CHECK_DEADLOCK FALSE
