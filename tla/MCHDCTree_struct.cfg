SPECIFICATION StructSpec
CONSTANTS
    a = a
    b = b
    Key = {a, b}
    LongKey = {}
    MaxUuid = 10
    Paths <- StructPaths
    Slots = {}
    Calls = {"new", "add", "set", "delete", "copy"}
    Sharing = FALSE
INVARIANTS RecordsResolve TreeShaped
PROPERTIES AddKeepsPaths AddResolves DeleteErasesOnlyTheDeleted PruneExact CopyFaithful
\* Only MaxUuid uuids can be drawn: the model stops there.
CHECK_DEADLOCK FALSE
