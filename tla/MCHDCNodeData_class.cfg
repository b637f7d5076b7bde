SPECIFICATION Spec
CONSTANTS
    DataType = {"INT32", "DOUBLE"}
    SizeOf <- Bytes4and8
    Shape <- Shapes
    Length = {3}
    Content = {"p", "q"}
    Unset = Unset
    Garbage = Garbage
    Size = {0, 3968, 4224}
    HeaderSize = 128
    PointerSize = 8
    NodeSize = 4096
    MaxDims = 10
    MaxData = 8500
    Mapped = TRUE
    Reserves = FALSE
    Setters = {"set_data", "set_vector", "set_external", "set_scalar", "set_string", "set_type", "grow"}
INVARIANTS ReadersAgree
PROPERTIES ImplementsNodeValue
