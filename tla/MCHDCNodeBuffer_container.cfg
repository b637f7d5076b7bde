SPECIFICATION Spec
CONSTANTS
    a = a
    b = b
    c = c
    Key = {a, b, c}
    Length <- Lengths
    Address = {w, x, y, z}
    Gone = Gone
    HeaderSize = 128
    NodeSize = 4096
    Overhead = 700
    RecordSize = 1100
    Local = 23
    Enough = 2200
    Attempts = 5
    MaxLen = 3
    MaxSize = 8192
    Calls = {"add", "insert", "delete", "link"}
SYMMETRY Addresses
INVARIANTS TypeOK GrowsOnce MissingOnlyInRewrite HeaderFollowsContainer RecordsName
PROPERTIES AddStored ImplementsContainer
