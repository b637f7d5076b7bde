---------------------------- MODULE HDCNodeData ----------------------------
(***************************************************************************)
(* The data of one node and the calls that set it (src/include/hdc.hpp and *)
(* src/src/hdc.cpp).                                                       *)
(*                                                                         *)
(* The entry of a node in the storage is a header and the bytes behind it. *)
(* The header repeats what the bytes are: their type, shape and number,    *)
(* and whether they are the data or the address of data that the caller    *)
(* owns (the flag External).  A setter writes into the buffer that is      *)
(* there when buffer_size is the size it needs, and makes a new one        *)
(* otherwise; the several setters of the class each do so in their own     *)
(* way.  The module is about what the readers, as() and get_data(), see    *)
(* after any sequence of them.                                             *)
(***************************************************************************)
EXTENDS Integers, Sequences

CONSTANTS
    DataType,   \* the numeric types
    SizeOf,     \* SizeOf[t]: hdc_sizeof(t)
    Shape,      \* the shapes the client uses; <<>> is that of a scalar
    Length,     \* the lengths of strings it uses
    Content,    \* data, or the addresses of data
    Unset,      \* what bytes hold that were never set
    Garbage,    \* what a reader gets that does not see all the bytes set
    Size,       \* arguments of HDC(size), alloc() and grow()
    HeaderSize, \* sizeof(hdc_header_t)
    PointerSize,
    NodeSize,   \* HDC_NODE_SIZE_DEFAULT
    MaxDims,    \* HDC_MAX_DIMS
    Mapped,     \* storage->memory_mapped()
    MaxData,    \* bound: the size of the data up to which grow() is called
    Reserves,   \* does reserve() of the storage change get_size()?
    Setters     \* the calls the client makes

\* size_t n = 1; for (i ...) n *= shape[i];
Elements(shape) ==
    LET n[i \in 0..Len(shape)] == IF i = 0 THEN 1 ELSE n[i-1] * shape[i]
    IN  n[Len(shape)]

ASSUME SizesAssumption ==
    /\ SizeOf \in [DataType -> Nat]
    /\ HeaderSize \in Nat /\ PointerSize \in Nat /\ MaxDims \in Nat
    /\ NodeSize \in Nat /\ HeaderSize <= NodeSize
    /\ Size \subseteq Nat /\ Length \subseteq Nat
    /\ MaxData \in Nat /\ Mapped \in BOOLEAN /\ Reserves \in BOOLEAN
\* No shape has more dimensions than the header, and no number of elements
\* overflows.
ASSUME ShapesAssumption ==
    \A s \in Shape : s \in Seq(Nat) /\ Len(s) <= MaxDims /\ Elements(s) \in Nat
ASSUME TypesAssumption ==
    /\ DataType \cap {"EMPTY", "STRUCT", "STRING"} = {}
    /\ Unset \notin Content /\ Garbage \notin Content \cup {Unset}
    /\ MaxDims > 0

VARIABLES
    node,       \* the buffer of the node
    entry,      \* the size of the node's entry in the storage
    last        \* the last call that stores a value: the value, and was it accepted?

vars == <<node, entry, last>>

----------------------------------------------------------------------------
(* Values, and the buffers that hold them. *)

\* What a setter is given and a reader returns.
ArrayValue == [type : DataType, shape : Shape, fortran : BOOLEAN,
               external : BOOLEAN, content : Content]
TextValue == [type : {"STRING"}, shape : {<<n>> : n \in Length}, fortran : {FALSE},
              external : {FALSE}, content : Content]
UnsetValue == [type : DataType, shape : Shape, fortran : BOOLEAN,
               external : {FALSE}, content : {Unset}]
NoData(type) == [type |-> type, shape |-> <<>>, fortran |-> FALSE,
                 external |-> FALSE, content |-> Unset]
Value == ArrayValue \cup TextValue \cup UnsetValue \cup {NoData("EMPTY"), NoData("STRUCT")}

\* The size of a value behind the header: a string has its final zero there.
BytesOf(v) ==
    IF v.external THEN PointerSize
    ELSE IF v.type = "STRING" THEN v.shape[1] + 1
    ELSE SizeOf[v.type] * Elements(v.shape)

\* Mutant: the places behind the last dimension are not cleared.
PaddedShort(shape) == [i \in 1..Len(shape) |-> shape[i]]

\* header->shape has MaxDims places.
Padded(shape) == [i \in 1..MaxDims |-> IF i <= Len(shape) THEN shape[i] ELSE 0]

\* The bytes behind the header: what was written, and how much of it is there.
Bytes(holds, of, size) == [holds |-> holds, of |-> of, size |-> size]
BytesFor(v) ==
    Bytes(IF v.external THEN "address" ELSE "data", v.content, BytesOf(v))

\* Mutant: as in set_external(hdc_data_t), the data_size of an address is that of an
\* element.
BufferElementSize(v) ==
    [buffer_size |-> HeaderSize + BytesOf(v),
     data_size |-> IF v.external THEN SizeOf[v.type] ELSE BytesOf(v),
     type |-> v.type, external |-> v.external, fortran |-> v.fortran,
     shape |-> Padded(v.shape), rank |-> Len(v.shape), bytes |-> BytesFor(v)]

\* A new buffer for a value.
Buffer(v) ==
    [buffer_size |-> HeaderSize + BytesOf(v), data_size |-> BytesOf(v),
     type |-> v.type, external |-> v.external, fortran |-> v.fortran,
     shape |-> Padded(v.shape), rank |-> Len(v.shape), bytes |-> BytesFor(v)]

\* HDC(size): an EMPTY node of rank 1.
EmptyBuffer(size) ==
    [buffer_size |-> HeaderSize + size, data_size |-> size,
     type |-> "EMPTY", external |-> FALSE, fortran |-> FALSE,
     shape |-> Padded(<<>>), rank |-> 1, bytes |-> Bytes("none", Unset, size)]

ShapeOf(nd) == [i \in 1..nd.rank |-> nd.shape[i]]

\* What the bytes have to be for the header to be true.  The records of a STRUCT are
\* at the front of the heap, in the part that a small node has.
Holds(nd) ==
    IF nd.type = "STRUCT" THEN "heap" ELSE IF nd.external THEN "address" ELSE "data"
Needs(nd) ==
    IF nd.type = "STRUCT" THEN NodeSize - HeaderSize
    ELSE BytesOf([type |-> nd.type, external |-> nd.external, shape |-> ShapeOf(nd)])

\* as(), as_scalar(), as_void_ptr(): the header says how to read the bytes.
As(nd) ==
    IF nd.bytes.holds = Holds(nd) /\ Needs(nd) <= nd.bytes.size THEN nd.bytes.of
    ELSE Garbage

\* get_data() copies data_size bytes into a pointer if the node is external or of
\* rank 0, and returns the address of the bytes otherwise.
GetData(nd) ==
    IF /\ nd.external \/ nd.rank = 0
       /\ nd.data_size > PointerSize \/ nd.data_size < Needs(nd)
    THEN Garbage
    ELSE As(nd)

\* What the readers see in the node.
Seen(nd) ==
    IF nd.type = "EMPTY" THEN NoData("EMPTY")
    ELSE IF nd.type = "STRUCT" THEN [NoData("STRUCT") EXCEPT !.content = As(nd)]
    ELSE [type |-> nd.type, shape |-> ShapeOf(nd), fortran |-> nd.fortran,
          external |-> nd.external, content |-> As(nd)]

----------------------------------------------------------------------------
(* Calls. *)

InPlace(v) == node.buffer_size = HeaderSize + BytesOf(v)

\* Mutant: the shape is written, the rank is not.
OverwrittenOldRank(v) ==
    [node EXCEPT !.type = v.type, !.external = v.external, !.fortran = v.fortran,
                 !.shape = Padded(v.shape), !.bytes = BytesFor(v)]

\* The buffer that is there takes the value; its sizes stay.
Overwritten(v) ==
    [node EXCEPT !.type = v.type, !.external = v.external, !.fortran = v.fortran,
                 !.shape = Padded(v.shape), !.rank = Len(v.shape), !.bytes = BytesFor(v)]

\* A change in place is written back unless the storage is memory mapped.
WriteBack == entry' = IF Mapped THEN entry ELSE node'.buffer_size

\* Mutant: the entry keeps its size.
ReplaceUnsized(nd) ==
    /\ node' = nd
    /\ UNCHANGED entry

\* storage->set() with a new buffer.
Replace(nd) ==
    /\ node' = nd
    /\ entry' = nd.buffer_size

Accept(v) == last' = [value |-> v, ok |-> TRUE]

Refuse(v) ==
    /\ last' = [value |-> v, ok |-> FALSE]
    /\ UNCHANGED <<node, entry>>

Write(v) ==
    /\ Accept(v)
    /\ IF InPlace(v) THEN node' = Overwritten(v) /\ WriteBack ELSE Replace(Buffer(v))

\* set_data(shape, data): throws on a node whose data the caller owns.
SetData(v) ==
    /\ "set_data" \in Setters /\ ~v.external
    /\ IF node.external THEN Refuse(v) ELSE Write(v)

\* set_data(vector): returns at once, without an exception, if there are children.
SetVector(v) ==
    /\ "set_vector" \in Setters /\ ~v.external /\ ~v.fortran /\ Len(v.shape) = 1
    /\ IF node.external \/ node.type = "STRUCT" THEN Refuse(v) ELSE Write(v)

\* set_external(shape, data): what the node was does not matter.
SetExternal(v) ==
    /\ "set_external" \in Setters /\ v.external
    /\ Write(v)

\* set_data(scalar), set_external(scalar): always a new buffer.
SetScalar(v) ==
    /\ "set_scalar" \in Setters /\ v.shape = <<>> /\ ~v.fortran
    /\ Accept(v)
    /\ Replace(Buffer(v))

\* set_string(): the entry is removed and set again.
SetString(v) ==
    /\ "set_string" \in Setters
    /\ Accept(v)
    /\ Replace(Buffer(v))

\* set_data_c(), set_external_c(): in place, the header stays as it is.
SetC(v) ==
    /\ "set_c" \in Setters
    /\ Accept(v)
    /\ IF InPlace(v) THEN node' = [node EXCEPT !.bytes = BytesFor(v)] /\ WriteBack
       ELSE Replace(Buffer(v))

\* Mutant: the loop stops before the last dimension.
OverwrittenObjectShort(v) ==
    [Overwritten(v) EXCEPT
        !.shape = [i \in 1..MaxDims |-> IF i < node.rank THEN @[i] ELSE 0],
        !.rank = node.rank]

\* In set_data(hdc_data_t) and set_external(hdc_data_t) the loop over the dimensions
\* runs to the rank that is in the header, and leaves it there.
OverwrittenObject(v) ==
    [Overwritten(v) EXCEPT
        !.shape = [i \in 1..MaxDims |-> IF i <= node.rank THEN @[i] ELSE 0],
        !.rank = node.rank]

SetDataObject(v) ==
    /\ "set_object" \in Setters /\ ~v.external
    /\ Accept(v)
    /\ IF InPlace(v) THEN node' = OverwrittenObject(v) /\ WriteBack
       ELSE Replace(Buffer(v))

\* A new buffer of set_external(hdc_data_t) has room for an address, a data_size of
\* one element, and as many bytes of the address as that.
SetExternalObject(v) ==
    /\ "set_external_object" \in Setters /\ v.external
    /\ Accept(v)
    /\ IF InPlace(v) THEN node' = OverwrittenObject(v) /\ WriteBack
       ELSE Replace([Buffer(v) EXCEPT !.data_size = SizeOf[v.type],
                                      !.bytes.size = SizeOf[v.type]])

\* alloc() returns at once when the entry is too small; when there is room enough, the
\* handle gets a new uuid and an EMPTY node.
Alloc(size) ==
    /\ "alloc" \in Setters
    /\ entry >= HeaderSize + size
    /\ Replace(EmptyBuffer(size))
    /\ UNCHANGED last

\* set_type(STRUCT) of an EMPTY node, by the first add_child(): alloc() and then a
\* heap, in the buffer that is there if it has NodeSize bytes.  The set() at the end
\* does nothing in umap if the buffer is the entry.
MakeStruct ==
    LET moved == entry >= HeaderSize + NodeSize
        nd == IF moved THEN EmptyBuffer(NodeSize) ELSE node
        small == nd.buffer_size < NodeSize
        room == IF small THEN NodeSize - HeaderSize ELSE nd.data_size
    IN  /\ "set_type" \in Setters /\ node.type = "EMPTY"
        /\ node' = [nd EXCEPT !.type = "STRUCT", !.data_size = room,
                              !.buffer_size = IF small THEN NodeSize ELSE @,
                              !.bytes = Bytes("heap", Unset, room)]
        /\ entry' = IF ~Reserves /\ ~moved /\ ~small THEN entry ELSE node'.buffer_size
        /\ Accept(NoData("STRUCT"))

\* grow() stores a buffer of which it forgets to count the header: so many bytes of
\* data remain.
GrownBytes(size) == node.data_size + size - HeaderSize

\* grow(): throws on an external node.
Grow(size) ==
    /\ "grow" \in Setters /\ size > 0 /\ ~node.external
    /\ node.data_size + size <= MaxData
    /\ node' = [node EXCEPT !.data_size = @ + size,
                            !.buffer_size = HeaderSize + node.data_size + size,
                            !.bytes.size = IF @ < GrownBytes(size) THEN @
                                           ELSE GrownBytes(size)]
    /\ entry' = node.data_size + size
    /\ UNCHANGED last

\* The constructors: HDC(size), HDC(shape, type, flags), and those from data, which
\* make the buffer that the setters make.
Init ==
    \/ \E size \in Size :
        /\ node = EmptyBuffer(size)
        /\ entry = IF Reserves THEN node.buffer_size ELSE HeaderSize
        /\ last = [value |-> NoData("EMPTY"), ok |-> TRUE]
    \/ \E v \in UnsetValue :
        /\ node = Buffer(v)
        /\ entry = IF Reserves THEN node.buffer_size ELSE HeaderSize
        /\ last = [value |-> v, ok |-> TRUE]
    \/ \E v \in ArrayValue \cup TextValue :
        /\ node = Buffer(v)
        /\ entry = node.buffer_size
        /\ last = [value |-> v, ok |-> TRUE]

Next ==
    \/ \E v \in ArrayValue :
        \/ SetData(v)
        \/ SetVector(v)
        \/ SetExternal(v)
        \/ SetScalar(v)
        \/ SetC(v)
        \/ SetDataObject(v)
        \/ SetExternalObject(v)
    \/ \E v \in TextValue : SetString(v)
    \/ \E size \in Size : Alloc(size) \/ Grow(size)
    \/ MakeStruct

Spec == Init /\ [][Next]_vars

----------------------------------------------------------------------------
(* Properties. *)

NodeBuffer ==
    [buffer_size : Nat, data_size : Nat,
     type : DataType \cup {"EMPTY", "STRUCT", "STRING"},
     external : BOOLEAN, fortran : BOOLEAN,
     shape : [1..MaxDims -> Nat], rank : 0..MaxDims,
     bytes : [holds : {"none", "data", "address", "heap"}, of : Content \cup {Unset},
              size : Int]]

\* The types of the variables.
TypeOK ==
    /\ node \in NodeBuffer
    /\ entry \in Nat
    /\ last \in [value : Value, ok : BOOLEAN]

\* A node is a register, whatever setters follow each other: what the readers see is
\* the value stored last, and a call that is refused changes nothing.
Register == INSTANCE NodeValue WITH value <- Seen(node)
ImplementsNodeValue == Register!Spec

\* set_data_c(), set_data(hdc_data_t) and the two for external data keep part of the
\* header of a node of the right size (hdc.cpp:1005, 1616): given what the header
\* already says, they still store their value, whatever made that header.
SameKindSeen ==
    [][\A c \in Content :
         LET v == [Seen(node) EXCEPT !.content = c]
         IN  v \in ArrayValue /\ (SetC(v) \/ SetDataObject(v) \/ SetExternalObject(v))
             => Seen(node') = v]_vars

\* get_data() returns what as() returns, for every node that has data: one goes by
\* rank and data_size and the other by type and flags (hdc.cpp:1583, hdc.hpp:1078).
\* A scalar that grow() has enlarged is the exception: get_data() copies all of it.
ReadersAgree ==
    /\ node.type \in DataType \cup {"STRING"}
    /\ node.external \/ node.rank > 0 \/ node.data_size <= PointerSize
    => GetData(node) = As(node)

\* The buffer_size in the header is the size of the entry: copy(), operator= and
\* get_children() copy that many bytes from the entry (hdc.cpp:798, 1281, 1706).
EntryIsBuffer == entry = node.buffer_size
=============================================================================
