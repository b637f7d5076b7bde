SPECIFICATION Spec
CONSTANTS
    a = a
    b = b
    Key = {a, b}
    LongKey = {}
    MaxUuid = 4
    Paths <- SlicePaths
    Slots = {}
    Calls = {"new", "create", "delete"}
    Sharing = FALSE
INVARIANTS RecordsResolve
\* Only MaxUuid uuids can be drawn: the model stops there.
CHECK_DEADLOCK FALSE
