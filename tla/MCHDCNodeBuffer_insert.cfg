SPECIFICATION Spec
CONSTANTS
    a = a
    b = b
    c = c
    Key = {a, b, c}
    Length <- Lengths
    Address = {w, x, y, z}
    Gone = Gone
    HeaderSize = 128
    NodeSize = 4096
    Overhead = 700
    RecordSize = 1100
    Local = 23
    Enough = 2200
    Attempts = 5
    MaxLen = 4
    MaxSize = 8192
    Calls = {"insert"}
SYMMETRY Addresses
PROPERTIES InsertStored
