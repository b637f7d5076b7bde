SPECIFICATION Spec
CONSTANTS
    p = p
    q = q
    Process = {p, q}
    File = {"file"}
    Server = {}
    Private = "private"
    MaxStores = 3
    MaxNodes = 2

INVARIANT StoredInFile
CHECK_DEADLOCK FALSE
