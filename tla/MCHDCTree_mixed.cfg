SPECIFICATION Spec
CONSTANTS
    a = a
    b = b
    Key = {a, b}
    LongKey = {b}
    MaxUuid = 4
    Paths <- MixedPaths
    Slots = {0, 1}
    Calls = {"new", "create", "insert", "type", "data", "scalar", "delete"}
    Sharing = FALSE
INVARIANTS TypeOK HeaderMatchesChildren
\* Only MaxUuid uuids can be drawn: the model stops there.
CHECK_DEADLOCK FALSE
