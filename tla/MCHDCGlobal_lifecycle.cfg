SPECIFICATION Spec
CONSTANTS
    p = p
    q = q
    Process = {p, q}
    File = {"file"}
    Server = {"server"}
    Private = "private"
    MaxStores = 3
    MaxNodes = 2
SYMMETRY Processes
INVARIANTS TypeOK HandlesResolve ObjectsLead StringsResolve FilesRemoved
CHECK_DEADLOCK FALSE
