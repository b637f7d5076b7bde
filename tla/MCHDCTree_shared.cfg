SPECIFICATION Spec
CONSTANTS
    a = a
    b = b
    Key = {a, b}
    LongKey = {}
    MaxUuid = 3
    Paths <- SharedPaths
    Slots = {}
    Calls = {"new", "add", "set", "delete", "assign", "clean", "copy"}
    Sharing = TRUE
INVARIANTS StructKeysUnique
PROPERTIES AddKeepsPaths AddResolves
\* Only MaxUuid uuids can be drawn: the model stops there.
CHECK_DEADLOCK FALSE
