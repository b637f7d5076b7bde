SPECIFICATION Spec
CONSTANTS
    p = p
    q = q
    mine = mine
    box = box
    ours = ours
    small = small
    small2 = small2
    large = large
    item = item
    Process = {p, q}
    Node = {mine, box, ours}
    Container = {box}
    Owner <- MCOwner
    Nobody = Nobody
    NoEntry = NoEntry
    Value = {small, small2, large}
    First = small
    Item = {item}
    SizeOf <- MCSizeOf
    MaxCalls = 3
INVARIANTS TypeOK EntriesWhole HoldsLastStored MissingOnlyInRewrite
PROPERTIES ReadsRecent CallsEnd
CHECK_DEADLOCK FALSE
