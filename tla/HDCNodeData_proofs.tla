------------------------- MODULE HDCNodeData_proofs -------------------------
(***************************************************************************)
(* Proofs about HDCNodeData, for every set of types, shapes and sizes.     *)
(*                                                                         *)
(* A setter that fills the whole header makes the readers see its value    *)
(* whether it writes into the buffer that is there (SeenOverwritten) or    *)
(* into a new one (SeenBuffer).  That a refusal is allowed, that grow()    *)
(* keeps the value and that a STRUCT has room for its records depends on   *)
(* what the header says of the bytes (HeaderTrue).                         *)
(***************************************************************************)
EXTENDS HDCNodeData, TLAPS

\* The setters of the C++ class that take a type from a template parameter, and grow().
ClassSetters ==
    {"set_data", "set_vector", "set_external", "set_scalar", "set_string", "set_type", "grow"}

\* The setters that keep the promise of NodeValue, if grow() adds a header at least.
ClassClient ==
    /\ Setters \subseteq ClassSetters
    /\ \A size \in Size : size > 0 => size >= HeaderSize

\* The header tells the truth about the bytes.
HeaderTrue ==
    /\ node.buffer_size = HeaderSize + node.data_size
    /\ node.type \in {"EMPTY", "STRUCT"} => ~node.external
    /\ node.type # "EMPTY" =>
        /\ node.bytes.holds = Holds(node)
        /\ Needs(node) \in Nat
        /\ Needs(node) <= node.bytes.size
        /\ Needs(node) <= node.data_size
    /\ node.external => node.data_size = PointerSize
    /\ node.type = "STRUCT" => node.bytes.of = Unset

Stored == ArrayValue \cup TextValue \cup UnsetValue

----------------------------------------------------------------------------
(* Values and buffers. *)

LEMMA StoredFields ==
    ASSUME NEW v \in Stored
    PROVE  /\ v = [type |-> v.type, shape |-> v.shape, fortran |-> v.fortran,
                   external |-> v.external, content |-> v.content]
           /\ v.type \in DataType \cup {"STRING"}
           /\ v.external \in BOOLEAN /\ v.fortran \in BOOLEAN
           /\ v.content \in Content \cup {Unset}
           /\ v.shape \in Seq(Nat) /\ (v.type = "STRING" => v.shape[1] \in Nat)
           /\ v.type # "STRING" => v.shape \in Shape
           /\ v.type = "STRING" => Len(v.shape) = 1
<1>1. CASE v \in ArrayValue
  <2>1. v.type # "STRING" BY <1>1, TypesAssumption DEF ArrayValue
  <2> QED BY <1>1, <2>1, ShapesAssumption DEF ArrayValue
<1>2. CASE v \in UnsetValue
  <2>1. v.type # "STRING" BY <1>2, TypesAssumption DEF UnsetValue
  <2> QED BY <1>2, <2>1, ShapesAssumption DEF UnsetValue
<1>3. CASE v \in TextValue
  <2>1. PICK n \in Length : v.shape = <<n>> BY <1>3 DEF TextValue
  <2>2. n \in Nat BY SizesAssumption
  <2>3. v.shape \in Seq(Nat) /\ v.shape[1] \in Nat /\ Len(v.shape) = 1
    BY <2>1, <2>2
  <2>4. v.type = "STRING" /\ v.external = FALSE /\ v.fortran = FALSE /\ v.content \in Content
    BY <1>3 DEF TextValue
  <2>5. v = [type |-> v.type, shape |-> v.shape, fortran |-> v.fortran,
             external |-> v.external, content |-> v.content]
    BY <1>3 DEF TextValue
  <2> QED BY <2>3, <2>4, <2>5
<1> QED BY <1>1, <1>2, <1>3 DEF Stored

\* Every value fits its header and has a size.
LEMMA StoredSize ==
    ASSUME NEW v \in Stored
    PROVE  /\ BytesOf(v) \in Nat
           /\ Len(v.shape) \in 0..MaxDims
           /\ Padded(v.shape) \in [1..MaxDims -> Nat]
<1>1. /\ v.type \in DataType \cup {"STRING"} /\ v.external \in BOOLEAN
      /\ v.shape \in Seq(Nat) /\ (v.type = "STRING" => v.shape[1] \in Nat)
      /\ v.type # "STRING" => v.shape \in Shape
      /\ v.type = "STRING" => Len(v.shape) = 1
  BY StoredFields
<1>2. Len(v.shape) \in 0..MaxDims
  <2>0. MaxDims \in Nat /\ MaxDims > 0 BY TypesAssumption, SizesAssumption
  <2>1. CASE v.type = "STRING"
    <3>1. Len(v.shape) = 1 BY <1>1, <2>1
    <3> QED BY <2>0, <3>1
  <2>2. CASE v.type # "STRING" BY <1>1, <2>2, ShapesAssumption, SizesAssumption
  <2> QED BY <2>1, <2>2
<1>3. BytesOf(v) \in Nat
  <2>1. CASE v.external BY <2>1, SizesAssumption DEF BytesOf
  <2>2. CASE ~v.external /\ v.type = "STRING" BY <1>1, <2>2 DEF BytesOf
  <2>3. CASE ~v.external /\ v.type # "STRING"
    <3>1. Elements(v.shape) \in Nat BY <1>1, <2>3, ShapesAssumption
    <3>2. SizeOf[v.type] \in Nat BY <1>1, <2>3, SizesAssumption
    <3>3. BytesOf(v) = SizeOf[v.type] * Elements(v.shape) BY <2>3 DEF BytesOf
    <3> HIDE DEF BytesOf, Elements
    <3> QED BY <3>1, <3>2, <3>3, SMT
  <2> QED BY <1>1, <2>1, <2>2, <2>3
<1>4. Padded(v.shape) \in [1..MaxDims -> Nat]
  <2>1. \A i \in 1..MaxDims : (IF i <= Len(v.shape) THEN v.shape[i] ELSE 0) \in Nat
    <3> TAKE i \in 1..MaxDims
    <3>1. i \in Nat \ {0} BY SizesAssumption
    <3> QED BY <1>1, <3>1
  <2> QED BY <2>1 DEF Padded
<1> QED BY <1>2, <1>3, <1>4

\* What the buffer is, field by field.
LEMMA BufferFields ==
    ASSUME NEW v \in Stored
    PROVE  /\ Buffer(v).buffer_size = HeaderSize + BytesOf(v)
           /\ Buffer(v).data_size = BytesOf(v)
           /\ Buffer(v).type = v.type
           /\ Buffer(v).external = v.external
           /\ Buffer(v).fortran = v.fortran
           /\ Buffer(v).shape = Padded(v.shape)
           /\ Buffer(v).rank = Len(v.shape)
           /\ Buffer(v).bytes = BytesFor(v)
BY DEF Buffer

\* The bytes of a value.
LEMMA BytesType ==
    ASSUME NEW v \in Stored
    PROVE  /\ BytesFor(v) \in [holds : {"none", "data", "address", "heap"},
                                of : Content \cup {Unset}, size : Int]
           /\ BytesFor(v).of = v.content
           /\ BytesFor(v).size = BytesOf(v)
           /\ v.external => BytesFor(v).holds = "address"
           /\ ~v.external => BytesFor(v).holds = "data"
<1>1. BytesOf(v) \in Int BY StoredSize
<1>2. v.content \in Content \cup {Unset} BY StoredFields
<1>3. CASE v.external
  <2>1. BytesFor(v) = [holds |-> "address", of |-> v.content, size |-> BytesOf(v)]
    BY <1>3, Zenon DEF BytesFor, Bytes
  <2> HIDE DEF BytesFor
  <2> QED BY <1>1, <1>2, <1>3, <2>1
<1>4. CASE ~v.external
  <2>1. BytesFor(v) = [holds |-> "data", of |-> v.content, size |-> BytesOf(v)]
    BY <1>4, Zenon DEF BytesFor, Bytes
  <2> HIDE DEF BytesFor
  <2> QED BY <1>1, <1>2, <1>4, <2>1
<1> QED BY <1>3, <1>4

LEMMA BufferType ==
    ASSUME NEW v \in Stored
    PROVE  Buffer(v) \in NodeBuffer
<1>1. BytesOf(v) \in Nat /\ Len(v.shape) \in 0..MaxDims /\ Padded(v.shape) \in [1..MaxDims -> Nat]
  BY StoredSize
<1>2. /\ v.type \in DataType \cup {"STRING"} /\ v.external \in BOOLEAN
      /\ v.fortran \in BOOLEAN
  BY StoredFields
<1>3. HeaderSize + BytesOf(v) \in Nat BY <1>1, SizesAssumption
<1>4. BytesFor(v) \in [holds : {"none", "data", "address", "heap"},
                       of : Content \cup {Unset}, size : Int]
  BY BytesType
<1> HIDE DEF BytesFor
<1> QED BY <1>1, <1>2, <1>3, <1>4 DEF Buffer, NodeBuffer

LEMMA EmptyType ==
    ASSUME NEW size \in Nat
    PROVE  /\ EmptyBuffer(size) \in NodeBuffer
           /\ EmptyBuffer(size).buffer_size = HeaderSize + size
<1>1. Padded(<<>>) \in [1..MaxDims -> Nat]
  <2>1. \A i \in 1..MaxDims : (IF i <= Len(<<>>) THEN <<>>[i] ELSE 0) \in Nat
    BY SizesAssumption
  <2> QED BY <2>1 DEF Padded
<1>2. HeaderSize + size \in Nat /\ 1 \in 0..MaxDims /\ size \in Int
  BY SizesAssumption, TypesAssumption
<1>3. Unset \in Content \cup {Unset} OBVIOUS
<1>4. Bytes("none", Unset, size) \in [holds : {"none", "data", "address", "heap"},
                                     of : Content \cup {Unset}, size : Int]
  BY <1>2 DEF Bytes
<1> QED BY <1>1, <1>2, <1>4 DEF EmptyBuffer, NodeBuffer

\* The sizes of a buffer stay when a value is written into it.
LEMMA OverwrittenType ==
    ASSUME NEW v \in Stored, node \in NodeBuffer
    PROVE  /\ Overwritten(v) \in NodeBuffer
           /\ Overwritten(v).buffer_size = node.buffer_size
           /\ Overwritten(v).data_size = node.data_size
           /\ Overwritten(v).type = v.type
           /\ Overwritten(v).external = v.external
           /\ Overwritten(v).fortran = v.fortran
           /\ Overwritten(v).shape = Padded(v.shape)
           /\ Overwritten(v).rank = Len(v.shape)
           /\ Overwritten(v).bytes = BytesFor(v)
<1>1. Buffer(v) \in NodeBuffer BY BufferType
<1> DEFINE sh == Padded(v.shape)
           bs == BytesFor(v)
           rk == Len(v.shape)
           sz == BytesOf(v)
           tp == v.type
           ex == v.external
           ft == v.fortran
<1>2. Overwritten(v) = [node EXCEPT !.type = tp, !.external = ex, !.fortran = ft,
                                    !.shape = sh, !.rank = rk, !.bytes = bs]
  BY DEF Overwritten
<1>3. Buffer(v) = [buffer_size |-> HeaderSize + sz, data_size |-> sz, type |-> tp,
                   external |-> ex, fortran |-> ft, shape |-> sh, rank |-> rk, bytes |-> bs]
  BY DEF Buffer
<1> HIDE DEF sh, bs, rk, sz, tp, ex, ft
<1>4. Overwritten(v) = [buffer_size |-> node.buffer_size, data_size |-> node.data_size,
                        type |-> tp, external |-> ex, fortran |-> ft, shape |-> sh,
                        rank |-> rk, bytes |-> bs]
  BY <1>2 DEF NodeBuffer
<1>5. /\ tp \in DataType \cup {"EMPTY", "STRUCT", "STRING"}
      /\ ex \in BOOLEAN /\ ft \in BOOLEAN /\ sh \in [1..MaxDims -> Nat] /\ rk \in 0..MaxDims
      /\ bs \in [holds : {"none", "data", "address", "heap"},
                 of : Content \cup {Unset}, size : Int]
  BY <1>1, <1>3 DEF NodeBuffer
<1>6. Overwritten(v) \in NodeBuffer
  BY <1>4, <1>5 DEF NodeBuffer
<1>7. /\ Overwritten(v).buffer_size = node.buffer_size
      /\ Overwritten(v).data_size = node.data_size
      /\ Overwritten(v).type = tp /\ Overwritten(v).external = ex
      /\ Overwritten(v).fortran = ft /\ Overwritten(v).shape = sh
      /\ Overwritten(v).rank = rk /\ Overwritten(v).bytes = bs
  BY <1>4
<1> QED BY <1>6, <1>7 DEF sh, bs, rk, tp, ex, ft

\* A header that says what v is, and the bytes of v.
Describes(nd, v) ==
    /\ nd.type = v.type /\ nd.external = v.external /\ nd.fortran = v.fortran
    /\ nd.shape = Padded(v.shape) /\ nd.rank = Len(v.shape)
    /\ nd.bytes = BytesFor(v)

LEMMA ShapeOfPadded ==
    ASSUME NEW v \in Stored, NEW nd, nd.shape = Padded(v.shape), nd.rank = Len(v.shape)
    PROVE  ShapeOf(nd) = v.shape
<1> DEFINE s == v.shape
<1>1. s \in Seq(Nat) BY StoredFields
<1>2. Len(s) \in 0..MaxDims /\ MaxDims \in Nat BY StoredSize, SizesAssumption
<1>3. ShapeOf(nd) = [i \in 1..Len(s) |-> Padded(s)[i]] BY DEF ShapeOf
<1> HIDE DEF s
<1>4. \A i \in 1..Len(s) : i \in 1..MaxDims BY <1>2
<1>5. \A i \in 1..Len(s) : Padded(s)[i] = s[i] BY <1>1, <1>2, <1>4 DEF Padded
<1>6. s = [i \in 1..Len(s) |-> s[i]] BY <1>1
<1>7. [i \in 1..Len(s) |-> Padded(s)[i]] = [i \in 1..Len(s) |-> s[i]] BY <1>5
<1>8. ShapeOf(nd) = s BY <1>3, <1>6, <1>7
<1> QED BY <1>8 DEF s

\* Whoever reads such a node sees v, and its header tells the truth.
LEMMA DescribesSeen ==
    ASSUME NEW v \in Stored, NEW nd, Describes(nd, v)
    PROVE  /\ Needs(nd) = BytesOf(v)
           /\ nd.bytes.size = BytesOf(v)
           /\ nd.bytes.holds = Holds(nd)
           /\ nd.type \notin {"EMPTY", "STRUCT"}
           /\ Seen(nd) = v
<1>1. ShapeOf(nd) = v.shape BY ShapeOfPadded DEF Describes
<1>2. nd.type = v.type /\ nd.external = v.external /\ nd.fortran = v.fortran
      /\ nd.bytes = BytesFor(v)
  BY DEF Describes
<1>3. nd.type \in DataType \cup {"STRING"} BY <1>2, StoredFields
<1>4. nd.type # "STRUCT" /\ nd.type # "EMPTY" BY <1>3, TypesAssumption
<1>5. nd.bytes.of = v.content /\ nd.bytes.size = BytesOf(v) BY <1>2, BytesType
<1>6. nd.bytes.holds = Holds(nd)
  <2>1. CASE v.external
    <3>1. BytesFor(v).holds = "address" BY <2>1, BytesType
    <3> QED BY <1>2, <1>4, <2>1, <3>1 DEF Holds
  <2>2. CASE ~v.external
    <3>1. BytesFor(v).holds = "data" BY <2>2, BytesType
    <3> QED BY <1>2, <1>4, <2>2, <3>1 DEF Holds
  <2> QED BY <2>1, <2>2
<1>7. Needs(nd) = BytesOf(v)
  <2>1. Needs(nd) = BytesOf([type |-> v.type, external |-> v.external, shape |-> v.shape])
    BY <1>1, <1>2, <1>4, Zenon DEF Needs
  <2> HIDE DEF Elements
  <2> QED BY <2>1 DEF BytesOf
<1>8. As(nd) = v.content
  <2>1. BytesOf(v) \in Nat BY StoredSize
  <2> QED BY <1>5, <1>6, <1>7, <2>1 DEF As
<1>9. Seen(nd) = [type |-> v.type, shape |-> v.shape, fortran |-> v.fortran,
                  external |-> v.external, content |-> v.content]
  BY <1>1, <1>2, <1>4, <1>8, Zenon DEF Seen
<1> QED BY <1>4, <1>5, <1>6, <1>7, <1>9, StoredFields

----------------------------------------------------------------------------
(* The types, for every set of calls. *)

LEMMA StoredIsValue == Stored \subseteq Value
BY DEF Stored, Value

\* What Accept, Refuse, Replace and WriteBack do to the types.
LEMMA AcceptType == ASSUME NEW v \in Value, Accept(v)
                    PROVE  last' \in [value : Value, ok : BOOLEAN]
BY DEF Accept

LEMMA RefuseType == ASSUME TypeOK, NEW v \in Value, Refuse(v) PROVE TypeOK'
<1>1. last' \in [value : Value, ok : BOOLEAN] BY DEF Refuse
<1>2. node' \in NodeBuffer /\ entry' \in Nat BY DEF Refuse, TypeOK
<1> QED BY <1>1, <1>2 DEF TypeOK

LEMMA ReplaceType ==
    ASSUME NEW nd \in NodeBuffer, Replace(nd)
    PROVE  node' \in NodeBuffer /\ entry' \in Nat
<1>1. nd.buffer_size \in Nat BY DEF NodeBuffer
<1> QED BY <1>1 DEF Replace

LEMMA WriteBackType ==
    ASSUME TypeOK, node' \in NodeBuffer, WriteBack
    PROVE  entry' \in Nat
<1>1. node'.buffer_size \in Nat BY DEF NodeBuffer
<1>2. entry \in Nat BY DEF TypeOK
<1> QED BY <1>1, <1>2 DEF WriteBack

LEMMA WriteType == ASSUME TypeOK, NEW v \in Stored, Write(v) PROVE TypeOK'
<1>1. last' \in [value : Value, ok : BOOLEAN] BY StoredIsValue, AcceptType DEF Write
<1>2. node' \in NodeBuffer /\ entry' \in Nat
  <2>1. CASE InPlace(v)
    <3>1. node' = Overwritten(v) /\ WriteBack BY <2>1 DEF Write
    <3>2. node \in NodeBuffer BY DEF TypeOK
    <3>3. node' \in NodeBuffer BY <3>1, <3>2, OverwrittenType
    <3> QED BY <3>1, <3>3, WriteBackType
  <2>2. CASE ~InPlace(v)
    <3>1. Replace(Buffer(v)) BY <2>2 DEF Write
    <3> QED BY <3>1, BufferType, ReplaceType
  <2> QED BY <2>1, <2>2
<1> QED BY <1>1, <1>2 DEF TypeOK

LEMMA ScalarType ==
    ASSUME TypeOK, NEW v \in Stored, Accept(v), Replace(Buffer(v))
    PROVE  TypeOK'
<1>1. last' \in [value : Value, ok : BOOLEAN] BY StoredIsValue, AcceptType
<1>2. node' \in NodeBuffer /\ entry' \in Nat BY BufferType, ReplaceType
<1> QED BY <1>1, <1>2 DEF TypeOK

LEMMA SetCType == ASSUME TypeOK, NEW v \in Stored, SetC(v) PROVE TypeOK'
<1>0. Accept(v) BY DEF SetC
<1>1. last' \in [value : Value, ok : BOOLEAN] BY <1>0, StoredIsValue, AcceptType
<1>2. CASE InPlace(v)
  <2> DEFINE bs == BytesFor(v)
  <2>1. node' = [node EXCEPT !.bytes = bs] /\ WriteBack BY <1>2 DEF SetC
  <2>2. bs \in [holds : {"none", "data", "address", "heap"},
                of : Content \cup {Unset}, size : Int] BY BytesType
  <2>3. node \in NodeBuffer BY DEF TypeOK
  <2>4. node' \in NodeBuffer
    <3> HIDE DEF bs
    <3> QED BY <2>1, <2>2, <2>3 DEF NodeBuffer
  <2>5. entry' \in Nat BY <2>1, <2>4, WriteBackType
  <2> QED BY <1>1, <2>4, <2>5 DEF TypeOK
<1>3. CASE ~InPlace(v)
  <2>1. Replace(Buffer(v)) BY <1>3 DEF SetC
  <2> QED BY <1>0, <2>1, ScalarType
<1> QED BY <1>2, <1>3

LEMMA OverwrittenObjectType ==
    ASSUME node \in NodeBuffer, NEW v \in Stored
    PROVE  /\ OverwrittenObject(v) \in NodeBuffer
           /\ OverwrittenObject(v).buffer_size = node.buffer_size
<1> DEFINE nd == Overwritten(v)
           sh == [i \in 1..MaxDims |-> IF i <= node.rank THEN nd.shape[i] ELSE 0]
<1>1. nd \in NodeBuffer /\ nd.buffer_size = node.buffer_size BY OverwrittenType
<1>2. OverwrittenObject(v) = [nd EXCEPT !.shape = sh, !.rank = node.rank]
  BY DEF OverwrittenObject
<1> HIDE DEF nd
<1>3. nd.shape \in [1..MaxDims -> Nat] BY <1>1 DEF NodeBuffer
<1>4. sh \in [1..MaxDims -> Nat] BY <1>3
<1>5. node.rank \in 0..MaxDims BY DEF NodeBuffer
<1> HIDE DEF sh
<1> QED BY <1>1, <1>2, <1>4, <1>5 DEF NodeBuffer

LEMMA ObjectType == ASSUME TypeOK, NEW v \in Stored, SetDataObject(v) PROVE TypeOK'
<1>0. Accept(v) BY DEF SetDataObject
<1>1. last' \in [value : Value, ok : BOOLEAN] BY <1>0, StoredIsValue, AcceptType
<1>2. CASE InPlace(v)
  <2>1. node' = OverwrittenObject(v) /\ WriteBack BY <1>2 DEF SetDataObject
  <2>2. node \in NodeBuffer BY DEF TypeOK
  <2>3. node' \in NodeBuffer BY <2>1, <2>2, OverwrittenObjectType
  <2>4. entry' \in Nat BY <2>1, <2>3, WriteBackType
  <2> QED BY <1>1, <2>3, <2>4 DEF TypeOK
<1>3. CASE ~InPlace(v)
  <2>1. Replace(Buffer(v)) BY <1>3 DEF SetDataObject
  <2> QED BY <1>0, <2>1, ScalarType
<1> QED BY <1>2, <1>3

LEMMA ExternalObjectType ==
    ASSUME TypeOK, NEW v \in ArrayValue, SetExternalObject(v)
    PROVE  TypeOK'
<1>0. Accept(v) /\ v \in Stored BY DEF SetExternalObject, Stored
<1>1. last' \in [value : Value, ok : BOOLEAN] BY <1>0, StoredIsValue, AcceptType
<1>2. CASE InPlace(v)
  <2>1. node' = OverwrittenObject(v) /\ WriteBack BY <1>2 DEF SetExternalObject
  <2>2. node \in NodeBuffer BY DEF TypeOK
  <2>3. node' \in NodeBuffer BY <1>0, <2>1, <2>2, OverwrittenObjectType
  <2>4. entry' \in Nat BY <2>1, <2>3, WriteBackType
  <2> QED BY <1>1, <2>3, <2>4 DEF TypeOK
<1>3. CASE ~InPlace(v)
  <2> DEFINE bf == Buffer(v)
             n == SizeOf[v.type]
             bs == [bf.bytes EXCEPT !.size = n]
             nd == [bf EXCEPT !.data_size = n, !.bytes = bs]
  <2>1. Replace(nd) BY <1>3 DEF SetExternalObject
  <2>2. bf \in NodeBuffer BY <1>0, BufferType
  <2>3. n \in Nat
    <3>1. v.type \in DataType BY DEF ArrayValue
    <3> QED BY <3>1, SizesAssumption
  <2>4. nd \in NodeBuffer
    <3> HIDE DEF bf, n
    <3>1. bs \in [holds : {"none", "data", "address", "heap"},
                  of : Content \cup {Unset}, size : Int]
      BY <2>2, <2>3 DEF NodeBuffer
    <3> HIDE DEF bs
    <3> QED BY <2>2, <2>3, <3>1 DEF NodeBuffer
  <2>5. node' \in NodeBuffer /\ entry' \in Nat
    <3> HIDE DEF nd
    <3> QED BY <2>1, <2>4, ReplaceType
  <2> QED BY <1>1, <2>5 DEF TypeOK
<1> QED BY <1>2, <1>3

\* set_type(STRUCT): the buffer before the heap is made in it, and after that.
StructBase(moved) == IF moved THEN EmptyBuffer(NodeSize) ELSE node
StructRoom(nd) ==
    IF nd.buffer_size < NodeSize THEN NodeSize - HeaderSize ELSE nd.data_size

MadeStruct(moved) ==
    LET nd == StructBase(moved)
    IN  /\ nd \in NodeBuffer
        /\ moved => nd.buffer_size = HeaderSize + NodeSize
        /\ node' = [nd EXCEPT
              !.type = "STRUCT", !.data_size = StructRoom(nd),
              !.buffer_size = IF nd.buffer_size < NodeSize THEN NodeSize ELSE @,
              !.bytes = Bytes("heap", Unset, StructRoom(nd))]
        /\ node.type = "EMPTY" /\ Accept(NoData("STRUCT"))
        /\ (Reserves \/ moved) => entry' = node'.buffer_size
        /\ entry' \in {entry, node'.buffer_size}

LEMMA MakeStructStep ==
    ASSUME node \in NodeBuffer, MakeStruct
    PROVE  \E moved \in BOOLEAN : MadeStruct(moved)
<1> DEFINE moved == entry >= HeaderSize + NodeSize
           nd == StructBase(moved)
<1>1. moved \in BOOLEAN OBVIOUS
<1>2. NodeSize \in Nat BY SizesAssumption
<1>3. EmptyBuffer(NodeSize) \in NodeBuffer
      /\ EmptyBuffer(NodeSize).buffer_size = HeaderSize + NodeSize
  BY <1>2, EmptyType
<1>4. nd \in NodeBuffer /\ (moved => nd.buffer_size = HeaderSize + NodeSize)
  <2>1. CASE moved BY <1>3, <2>1, Zenon DEF StructBase
  <2>2. CASE ~moved BY <2>2, Zenon DEF StructBase
  <2> QED BY <2>1, <2>2
<1>5. /\ node' = [nd EXCEPT
           !.type = "STRUCT", !.data_size = StructRoom(nd),
           !.buffer_size = IF nd.buffer_size < NodeSize THEN NodeSize ELSE @,
           !.bytes = Bytes("heap", Unset, StructRoom(nd))]
      /\ entry' = IF ~Reserves /\ ~moved /\ ~(nd.buffer_size < NodeSize) THEN entry
                  ELSE node'.buffer_size
      /\ node.type = "EMPTY" /\ Accept(NoData("STRUCT"))
  BY Zenon DEF MakeStruct, StructBase, StructRoom
<1>6. /\ (Reserves \/ moved) => entry' = node'.buffer_size
      /\ entry' \in {entry, node'.buffer_size}
  BY <1>5, Zenon
<1>7. MadeStruct(moved) BY <1>4, <1>5, <1>6, Zenon DEF MadeStruct
<1> HIDE DEF moved
<1> QED BY <1>1, <1>7

LEMMA StructRoomType ==
    ASSUME NEW nd \in NodeBuffer
    PROVE  StructRoom(nd) \in Nat
<1>1. NodeSize - HeaderSize \in Nat BY SizesAssumption
<1> QED BY <1>1 DEF StructRoom, NodeBuffer

LEMMA MakeStructType == ASSUME TypeOK, MakeStruct PROVE TypeOK'
<1>1. node \in NodeBuffer /\ entry \in Nat BY DEF TypeOK
<1>2. PICK moved \in BOOLEAN : MadeStruct(moved) BY <1>1, MakeStructStep
<1> DEFINE nd == StructBase(moved)
           room == StructRoom(nd)
           bs == Bytes("heap", Unset, room)
<1>3. nd \in NodeBuffer BY <1>2 DEF MadeStruct
<1>4. room \in Nat BY <1>3, StructRoomType
<1>5. bs \in [holds : {"none", "data", "address", "heap"},
              of : Content \cup {Unset}, size : Int]
  BY <1>4 DEF Bytes
<1>6. node' = [nd EXCEPT !.type = "STRUCT", !.data_size = room,
                         !.buffer_size = IF nd.buffer_size < NodeSize THEN NodeSize ELSE @,
                         !.bytes = bs]
  BY <1>2 DEF MadeStruct
<1>7. node' \in NodeBuffer
  <2> HIDE DEF nd, room, bs
  <2>1. NodeSize \in Nat BY SizesAssumption
  <2> QED BY <1>3, <1>4, <1>5, <1>6, <2>1 DEF NodeBuffer
<1>8. entry' \in Nat
  <2>1. node'.buffer_size \in Nat BY <1>7 DEF NodeBuffer
  <2> QED BY <1>1, <1>2, <2>1 DEF MadeStruct
<1>9. NoData("STRUCT") \in Value BY DEF Value
<1>10. last' \in [value : Value, ok : BOOLEAN] BY <1>2, <1>9, AcceptType DEF MadeStruct
<1> QED BY <1>7, <1>8, <1>10 DEF TypeOK

\* grow() changes the sizes only.
LEMMA GrowStep ==
    ASSUME node \in NodeBuffer, NEW size \in Size, Grow(size)
    PROVE  /\ node' \in NodeBuffer /\ entry' \in Nat
           /\ node'.buffer_size = HeaderSize + (node.data_size + size)
           /\ node'.data_size = node.data_size + size
           /\ node'.type = node.type /\ node'.external = node.external
           /\ node'.fortran = node.fortran /\ node'.shape = node.shape
           /\ node'.rank = node.rank
           /\ node'.bytes.holds = node.bytes.holds /\ node'.bytes.of = node.bytes.of
           /\ node'.bytes.size \in {node.bytes.size, GrownBytes(size)}
<1> DEFINE ds == node.data_size + size
           m == IF node.bytes.size < GrownBytes(size) THEN node.bytes.size
                ELSE GrownBytes(size)
           bs == [node.bytes EXCEPT !.size = m]
           total == HeaderSize + node.data_size + size
<1>1. size \in Nat /\ HeaderSize \in Nat BY SizesAssumption
<1>2. node.data_size \in Nat /\ node.bytes.size \in Int BY DEF NodeBuffer
<1>3. ds \in Nat /\ total \in Nat /\ total = HeaderSize + ds BY <1>1, <1>2
<1>4. GrownBytes(size) \in Int BY <1>1, <1>2 DEF GrownBytes
<1>5. m \in Int /\ m \in {node.bytes.size, GrownBytes(size)}
  <2> HIDE DEF GrownBytes
  <2> QED BY <1>2, <1>4
<1>6. node' = [node EXCEPT !.data_size = ds, !.buffer_size = total, !.bytes = bs]
      /\ entry' = ds
  BY DEF Grow
<1> HIDE DEF m, ds, total, GrownBytes
<1>7. /\ bs \in [holds : {"none", "data", "address", "heap"},
                 of : Content \cup {Unset}, size : Int]
      /\ bs.holds = node.bytes.holds /\ bs.of = node.bytes.of /\ bs.size = m
  BY <1>5 DEF NodeBuffer
<1> HIDE DEF bs
<1>8. node' \in NodeBuffer BY <1>3, <1>6, <1>7 DEF NodeBuffer
<1>9. /\ node'.buffer_size = total /\ node'.data_size = ds /\ node'.bytes = bs
      /\ node'.type = node.type /\ node'.external = node.external
      /\ node'.fortran = node.fortran /\ node'.shape = node.shape
      /\ node'.rank = node.rank
  BY <1>6 DEF NodeBuffer
<1>10. ds = node.data_size + size BY DEF ds
<1> QED BY <1>3, <1>5, <1>6, <1>7, <1>8, <1>9, <1>10

LEMMA InitType == ASSUME Init PROVE TypeOK
<1>1. CASE \E size \in Size :
             /\ node = EmptyBuffer(size)
             /\ entry = IF Reserves THEN node.buffer_size ELSE HeaderSize
             /\ last = [value |-> NoData("EMPTY"), ok |-> TRUE]
  <2>1. PICK size \in Size :
             /\ node = EmptyBuffer(size)
             /\ entry = IF Reserves THEN node.buffer_size ELSE HeaderSize
             /\ last = [value |-> NoData("EMPTY"), ok |-> TRUE]
    BY <1>1
  <2>2. size \in Nat /\ HeaderSize \in Nat BY SizesAssumption
  <2>3. node \in NodeBuffer BY <2>1, <2>2, EmptyType
  <2>4. node.buffer_size \in Nat BY <2>3 DEF NodeBuffer
  <2>5. entry \in Nat BY <2>1, <2>2, <2>4
  <2>6. NoData("EMPTY") \in Value BY DEF Value
  <2>7. last \in [value : Value, ok : BOOLEAN] BY <2>1, <2>6
  <2> QED BY <2>3, <2>5, <2>7 DEF TypeOK
<1>2. CASE \E v \in Stored :
             /\ node = Buffer(v)
             /\ entry \in {node.buffer_size, HeaderSize}
             /\ last = [value |-> v, ok |-> TRUE]
  <2>1. PICK v \in Stored :
             /\ node = Buffer(v)
             /\ entry \in {node.buffer_size, HeaderSize}
             /\ last = [value |-> v, ok |-> TRUE]
    BY <1>2
  <2>2. node \in NodeBuffer BY <2>1, BufferType
  <2>3. node.buffer_size \in Nat BY <2>2 DEF NodeBuffer
  <2>4. entry \in Nat BY <2>1, <2>3, SizesAssumption
  <2>5. v \in Value BY StoredIsValue
  <2>6. last \in [value : Value, ok : BOOLEAN] BY <2>1, <2>5
  <2> QED BY <2>2, <2>4, <2>6 DEF TypeOK
<1>3. \/ \E size \in Size :
           /\ node = EmptyBuffer(size)
           /\ entry = IF Reserves THEN node.buffer_size ELSE HeaderSize
           /\ last = [value |-> NoData("EMPTY"), ok |-> TRUE]
      \/ \E v \in Stored :
           /\ node = Buffer(v)
           /\ entry \in {node.buffer_size, HeaderSize}
           /\ last = [value |-> v, ok |-> TRUE]
  BY Zenon DEF Init, Stored
<1> QED BY <1>1, <1>2, <1>3

\* The calls, one by one.
LEMMA NextCases ==
    ASSUME Next
    PROVE  \/ \E v \in ArrayValue :
                \/ SetData(v) \/ SetVector(v) \/ SetExternal(v) \/ SetScalar(v)
                \/ SetC(v) \/ SetDataObject(v) \/ SetExternalObject(v)
           \/ \E v \in TextValue : SetString(v)
           \/ \E size \in Size : Alloc(size)
           \/ \E size \in Size : Grow(size)
           \/ MakeStruct
BY Zenon DEF Next

LEMMA NextType == ASSUME TypeOK, Next PROVE TypeOK'
<1>0. ArrayValue \subseteq Stored /\ TextValue \subseteq Stored BY DEF Stored
<1>1. ASSUME NEW v \in ArrayValue, SetData(v) PROVE TypeOK'
  <2>1. CASE node.external
    <3>1. Refuse(v) BY <1>1, <2>1 DEF SetData
    <3> QED BY <1>0, <3>1, StoredIsValue, RefuseType
  <2>2. CASE ~node.external
    <3>1. Write(v) BY <1>1, <2>2 DEF SetData
    <3> QED BY <1>0, <3>1, WriteType
  <2> QED BY <2>1, <2>2
<1>2. ASSUME NEW v \in ArrayValue, SetVector(v) PROVE TypeOK'
  <2>1. Refuse(v) \/ Write(v) BY <1>2 DEF SetVector
  <2>2. CASE Refuse(v) BY <1>0, <2>2, StoredIsValue, RefuseType
  <2>3. CASE Write(v) BY <1>0, <2>3, WriteType
  <2> QED BY <2>1, <2>2, <2>3
<1>3. ASSUME NEW v \in ArrayValue, SetExternal(v) PROVE TypeOK'
  <2>1. Write(v) BY <1>3 DEF SetExternal
  <2> QED BY <1>0, <2>1, WriteType
<1>4. ASSUME NEW v \in ArrayValue, SetScalar(v) PROVE TypeOK'
  <2>1. Accept(v) /\ Replace(Buffer(v)) BY <1>4 DEF SetScalar
  <2> QED BY <1>0, <2>1, ScalarType
<1>5. ASSUME NEW v \in ArrayValue, SetC(v) PROVE TypeOK'
  BY <1>0, <1>5, SetCType
<1>6. ASSUME NEW v \in ArrayValue, SetDataObject(v) PROVE TypeOK'
  BY <1>0, <1>6, ObjectType
<1>7. ASSUME NEW v \in ArrayValue, SetExternalObject(v) PROVE TypeOK'
  BY <1>7, ExternalObjectType
<1>8. ASSUME NEW v \in TextValue, SetString(v) PROVE TypeOK'
  <2>1. Accept(v) /\ Replace(Buffer(v)) BY <1>8 DEF SetString
  <2> QED BY <1>0, <2>1, ScalarType
<1>9. ASSUME NEW size \in Size, Alloc(size) PROVE TypeOK'
  <2>1. size \in Nat BY SizesAssumption
  <2>2. Replace(EmptyBuffer(size)) /\ last' = last BY <1>9 DEF Alloc
  <2>3. node' \in NodeBuffer /\ entry' \in Nat BY <2>1, <2>2, EmptyType, ReplaceType
  <2> QED BY <2>2, <2>3 DEF TypeOK
<1>10. ASSUME NEW size \in Size, Grow(size) PROVE TypeOK'
  <2>1. node \in NodeBuffer BY DEF TypeOK
  <2>2. node' \in NodeBuffer /\ entry' \in Nat BY <1>10, <2>1, GrowStep
  <2>3. last' = last BY <1>10 DEF Grow
  <2> QED BY <2>2, <2>3 DEF TypeOK
<1>11. CASE MakeStruct BY <1>11, MakeStructType
<1> QED BY <1>1, <1>2, <1>3, <1>4, <1>5, <1>6, <1>7, <1>8, <1>9, <1>10, <1>11, NextCases

\* The state of a node has its types under any sequence of setters: no rank exceeds the
\* dimensions of the header (HDC_MAX_DIMS), no size is negative.
THEOREM TypeCorrect == Spec => []TypeOK
<1>1. Init => TypeOK BY InitType
<1>2. TypeOK /\ [Next]_vars => TypeOK'
  <2> SUFFICES ASSUME TypeOK, [Next]_vars PROVE TypeOK' OBVIOUS
  <2>1. CASE Next BY <2>1, NextType
  <2>2. CASE UNCHANGED vars BY <2>2 DEF vars, TypeOK
  <2> QED BY <2>1, <2>2
<1> QED BY <1>1, <1>2, PTL DEF Spec

----------------------------------------------------------------------------
(* The size of the entry. *)

LEMMA ReplaceEntry == ASSUME NEW nd, Replace(nd) PROVE EntryIsBuffer'
BY DEF Replace, EntryIsBuffer

LEMMA WriteBackEntry ==
    ASSUME EntryIsBuffer, WriteBack, node'.buffer_size = node.buffer_size
    PROVE  EntryIsBuffer'
<1>1. CASE Mapped BY <1>1 DEF WriteBack, EntryIsBuffer
<1>2. CASE ~Mapped BY <1>2 DEF WriteBack, EntryIsBuffer
<1> QED BY <1>1, <1>2

LEMMA WriteEntry ==
    ASSUME node \in NodeBuffer, EntryIsBuffer, NEW v \in Stored, Write(v)
    PROVE  EntryIsBuffer'
<1>1. CASE InPlace(v)
  <2>1. node' = Overwritten(v) /\ WriteBack BY <1>1 DEF Write
  <2>2. node'.buffer_size = node.buffer_size BY <2>1, OverwrittenType
  <2> QED BY <2>1, <2>2, WriteBackEntry
<1>2. CASE ~InPlace(v)
  <2>1. Replace(Buffer(v)) BY <1>2 DEF Write
  <2> QED BY <2>1, ReplaceEntry
<1> QED BY <1>1, <1>2

LEMMA NextEntry ==
    ASSUME TypeOK, EntryIsBuffer, Reserves, "grow" \notin Setters, Next
    PROVE  EntryIsBuffer'
<1>0. ArrayValue \subseteq Stored /\ node \in NodeBuffer BY DEF Stored, TypeOK
<1>1. ASSUME NEW v, Refuse(v) PROVE EntryIsBuffer' BY <1>1 DEF Refuse, EntryIsBuffer
<1>2. ASSUME NEW v \in ArrayValue, SetData(v) \/ SetVector(v) \/ SetExternal(v)
      PROVE  EntryIsBuffer'
  <2>1. Refuse(v) \/ Write(v) BY <1>2 DEF SetData, SetVector, SetExternal
  <2>2. CASE Refuse(v) BY <1>1, <2>2
  <2>3. CASE Write(v) BY <1>0, <2>3, WriteEntry
  <2> QED BY <2>1, <2>2, <2>3
<1>3. ASSUME NEW v, SetScalar(v) \/ SetString(v) PROVE EntryIsBuffer'
  <2>1. Replace(Buffer(v)) BY <1>3 DEF SetScalar, SetString
  <2> QED BY <2>1, ReplaceEntry
<1>4. ASSUME NEW v \in ArrayValue, SetC(v) PROVE EntryIsBuffer'
  <2>1. CASE InPlace(v)
    <3> DEFINE bs == BytesFor(v)
    <3>1. node' = [node EXCEPT !.bytes = bs] /\ WriteBack BY <1>4, <2>1 DEF SetC
    <3>2. node'.buffer_size = node.buffer_size
      <4> HIDE DEF bs
      <4> QED BY <1>0, <3>1 DEF NodeBuffer
    <3> QED BY <3>1, <3>2, WriteBackEntry
  <2>2. CASE ~InPlace(v)
    <3>1. Replace(Buffer(v)) BY <1>4, <2>2 DEF SetC
    <3> QED BY <3>1, ReplaceEntry
  <2> QED BY <2>1, <2>2
<1>5. ASSUME NEW v \in ArrayValue, SetDataObject(v) \/ SetExternalObject(v)
      PROVE  EntryIsBuffer'
  <2>1. CASE InPlace(v)
    <3>1. node' = OverwrittenObject(v) /\ WriteBack
      BY <1>5, <2>1 DEF SetDataObject, SetExternalObject
    <3>2. node'.buffer_size = node.buffer_size BY <1>0, <3>1, OverwrittenObjectType
    <3> QED BY <3>1, <3>2, WriteBackEntry
  <2>2. CASE ~InPlace(v)
    <3>1. \E nd : Replace(nd)
      BY <1>5, <2>2, Zenon DEF SetDataObject, SetExternalObject
    <3> QED BY <3>1, ReplaceEntry
  <2> QED BY <2>1, <2>2
<1>6. ASSUME NEW size \in Size, Alloc(size) PROVE EntryIsBuffer'
  <2>1. Replace(EmptyBuffer(size)) BY <1>6 DEF Alloc
  <2> QED BY <2>1, ReplaceEntry
<1>7. ASSUME NEW size \in Size, Grow(size) PROVE FALSE BY <1>7 DEF Grow
<1>8. CASE MakeStruct
  <2>1. PICK moved \in BOOLEAN : MadeStruct(moved) BY <1>0, <1>8, MakeStructStep
  <2>2. entry' = node'.buffer_size BY <2>1 DEF MadeStruct
  <2> QED BY <2>2 DEF EntryIsBuffer
<1> QED BY <1>2, <1>3, <1>4, <1>5, <1>6, <1>7, <1>8, NextCases

LEMMA InitEntry == ASSUME Init, Reserves PROVE EntryIsBuffer
BY DEF Init, EntryIsBuffer

\* If reserve() changes the size of an entry, as in mdbm and redis, the buffer_size that
\* copy(), operator= and get_children() read is the size of the entry, after any setters
\* but grow().
THEOREM EntryCorrect ==
    ASSUME Reserves, "grow" \notin Setters
    PROVE  Spec => []EntryIsBuffer
<1>1. Init => TypeOK /\ EntryIsBuffer BY InitType, InitEntry
<1>2. TypeOK /\ EntryIsBuffer /\ [Next]_vars => (TypeOK /\ EntryIsBuffer)'
  <2> SUFFICES ASSUME TypeOK, EntryIsBuffer, [Next]_vars
               PROVE  TypeOK' /\ EntryIsBuffer'
    OBVIOUS
  <2>1. CASE Next BY <2>1, NextType, NextEntry
  <2>2. CASE UNCHANGED vars BY <2>2 DEF vars, TypeOK, EntryIsBuffer
  <2> QED BY <2>1, <2>2
<1> QED BY <1>1, <1>2, PTL DEF Spec

----------------------------------------------------------------------------
(* The setters of the class implement NodeValue. *)

\* After a call that stores v: the header tells the truth, and v is what is seen.
Holding(v) == HeaderTrue /\ Seen(node) = v

LEMMA BufferHolding ==
    ASSUME NEW v \in Stored, Replace(Buffer(v))
    PROVE  Holding(v)'
<1>1. node' = Buffer(v) BY DEF Replace
<1>2. Describes(node', v) BY <1>1, BufferFields DEF Describes
<1>3. /\ Needs(node') = BytesOf(v) /\ node'.bytes.size = BytesOf(v)
      /\ node'.bytes.holds = Holds(node')
      /\ node'.type \notin {"EMPTY", "STRUCT"} /\ Seen(node') = v
  BY <1>2, DescribesSeen
<1>4. node'.buffer_size = HeaderSize + BytesOf(v) /\ node'.data_size = BytesOf(v)
  BY <1>1, BufferFields
<1>5. BytesOf(v) \in Nat BY StoredSize
<1>6. node'.external => BytesOf(v) = PointerSize BY <1>2 DEF Describes, BytesOf
<1> QED BY <1>3, <1>4, <1>5, <1>6 DEF Holding, HeaderTrue

LEMMA OverwrittenHolding ==
    ASSUME node \in NodeBuffer, HeaderTrue, NEW v \in Stored, InPlace(v),
           node' = Overwritten(v)
    PROVE  Holding(v)'
<1>1. Describes(node', v) BY OverwrittenType DEF Describes
<1>2. /\ Needs(node') = BytesOf(v) /\ node'.bytes.size = BytesOf(v)
      /\ node'.bytes.holds = Holds(node')
      /\ node'.type \notin {"EMPTY", "STRUCT"} /\ Seen(node') = v
  BY <1>1, DescribesSeen
<1>3. node'.buffer_size = node.buffer_size /\ node'.data_size = node.data_size
  BY OverwrittenType
<1>4. node.buffer_size = HeaderSize + node.data_size BY DEF HeaderTrue
<1>5. node.buffer_size = HeaderSize + BytesOf(v) BY DEF InPlace
<1>6. BytesOf(v) \in Nat /\ HeaderSize \in Nat BY StoredSize, SizesAssumption
<1>7. node.data_size \in Nat BY DEF NodeBuffer
<1>8. node'.data_size = BytesOf(v) BY <1>3, <1>4, <1>5, <1>6, <1>7
<1>9. node'.buffer_size = HeaderSize + node'.data_size BY <1>3, <1>4
<1>10. node'.external => BytesOf(v) = PointerSize BY <1>1 DEF Describes, BytesOf
<1> QED BY <1>2, <1>6, <1>8, <1>9, <1>10 DEF Holding, HeaderTrue

LEMMA WriteHolding ==
    ASSUME node \in NodeBuffer, HeaderTrue, NEW v \in Stored, Write(v)
    PROVE  Holding(v)' /\ Accept(v)
<1>1. CASE InPlace(v)
  <2>1. node' = Overwritten(v) BY <1>1 DEF Write
  <2> QED BY <1>1, <2>1, OverwrittenHolding DEF Write
<1>2. CASE ~InPlace(v)
  <2>1. Replace(Buffer(v)) BY <1>2 DEF Write
  <2> QED BY <2>1, BufferHolding DEF Write
<1> QED BY <1>1, <1>2

LEMMA StructHolding ==
    ASSUME node \in NodeBuffer, HeaderTrue, MakeStruct
    PROVE  Holding(NoData("STRUCT"))' /\ Accept(NoData("STRUCT"))
<1>1. PICK moved \in BOOLEAN : MadeStruct(moved) BY MakeStructStep
<1> DEFINE nd == StructBase(moved)
           room == StructRoom(nd)
           bs == Bytes("heap", Unset, room)
           size == IF nd.buffer_size < NodeSize THEN NodeSize ELSE nd.buffer_size
<1>2. nd \in NodeBuffer /\ node.type = "EMPTY" /\ Accept(NoData("STRUCT"))
      /\ node' = [nd EXCEPT !.type = "STRUCT", !.data_size = room,
                            !.buffer_size = size, !.bytes = bs]
  BY <1>1 DEF MadeStruct
<1>3. nd.buffer_size = HeaderSize + nd.data_size /\ nd.external = FALSE
  <2>1. CASE moved
    <3>1. nd = EmptyBuffer(NodeSize) BY <2>1, Zenon DEF StructBase
    <3> QED BY <3>1 DEF EmptyBuffer
  <2>2. CASE ~moved
    <3>1. nd = node BY <2>2, Zenon DEF StructBase
    <3>2. node.external \in BOOLEAN BY DEF NodeBuffer
    <3> QED BY <1>2, <3>1, <3>2 DEF HeaderTrue
  <2> QED BY <2>1, <2>2
<1>4. HeaderSize \in Nat /\ NodeSize \in Nat /\ HeaderSize <= NodeSize BY SizesAssumption
<1>5. room \in Nat /\ size = HeaderSize + room /\ NodeSize - HeaderSize <= room
  <2>1. nd.data_size \in Nat BY <1>2 DEF NodeBuffer
  <2>2. CASE nd.buffer_size < NodeSize BY <1>4, <2>2 DEF StructRoom
  <2>3. CASE ~(nd.buffer_size < NodeSize) BY <1>3, <1>4, <2>1, <2>3 DEF StructRoom
  <2> QED BY <2>2, <2>3
<1>6. bs.holds = "heap" /\ bs.of = Unset /\ bs.size = room BY DEF Bytes
<1>7. /\ node'.type = "STRUCT" /\ node'.data_size = room /\ node'.buffer_size = size
      /\ node'.bytes = bs /\ node'.external = FALSE
  <2> HIDE DEF nd, room, bs, size
  <2> QED BY <1>2, <1>3 DEF NodeBuffer
<1>8. Holds(node') = "heap" /\ Needs(node') = NodeSize - HeaderSize
  BY <1>7, Zenon DEF Holds, Needs
<1> HIDE DEF nd, room, bs, size
<1>9. As(node') = Unset BY <1>4, <1>5, <1>6, <1>7, <1>8 DEF As
<1>10. Seen(node') = [NoData("STRUCT") EXCEPT !.content = As(node')]
  BY <1>7 DEF Seen
<1>11. Seen(node') = NoData("STRUCT") BY <1>9, <1>10 DEF NoData
<1>12. HeaderTrue' BY <1>4, <1>5, <1>6, <1>7, <1>8 DEF HeaderTrue
<1> QED BY <1>2, <1>11, <1>12 DEF Holding

\* grow() keeps what is seen if it adds a header at least.
LEMMA GrowHolding ==
    ASSUME node \in NodeBuffer, HeaderTrue, NEW size \in Size, size >= HeaderSize, Grow(size)
    PROVE  HeaderTrue' /\ Seen(node') = Seen(node)
<1>1. /\ node' \in NodeBuffer
      /\ node'.buffer_size = HeaderSize + (node.data_size + size)
      /\ node'.data_size = node.data_size + size
      /\ node'.type = node.type /\ node'.external = node.external
      /\ node'.fortran = node.fortran /\ node'.shape = node.shape
      /\ node'.rank = node.rank
      /\ node'.bytes.holds = node.bytes.holds /\ node'.bytes.of = node.bytes.of
      /\ node'.bytes.size \in {node.bytes.size, GrownBytes(size)}
  BY GrowStep
<1>2. ShapeOf(node') = ShapeOf(node) BY <1>1, Zenon DEF ShapeOf
<1>3. Holds(node') = Holds(node) BY <1>1, Zenon DEF Holds
<1>4. Needs(node') = Needs(node) BY <1>1, <1>2, Zenon DEF Needs
<1>5. /\ size \in Nat /\ HeaderSize \in Nat /\ node.data_size \in Nat
      /\ node.bytes.size \in Int
  BY SizesAssumption DEF NodeBuffer
<1>6. GrownBytes(size) >= node.data_size /\ GrownBytes(size) \in Int BY <1>5 DEF GrownBytes
<1>7. ~node.external BY DEF Grow
<1>8. CASE node.type = "EMPTY"
  <2>1. HeaderTrue' BY <1>1, <1>8, <1>7 DEF HeaderTrue
  <2>2. Seen(node') = Seen(node) BY <1>1, <1>8, Zenon DEF Seen
  <2> QED BY <2>1, <2>2
<1>9. CASE node.type # "EMPTY"
  <2> DEFINE needs == Needs(node)
  <2>1. node.bytes.holds = Holds(node) /\ needs <= node.bytes.size /\ needs <= node.data_size
    BY <1>9 DEF HeaderTrue
  <2>2. needs \in Nat BY <1>9 DEF HeaderTrue
  <2>3. needs <= node'.bytes.size /\ needs <= node'.data_size
    <3> HIDE DEF needs, GrownBytes
    <3> QED BY <1>1, <1>5, <1>6, <2>1, <2>2
  <2>4. HeaderTrue'
    <3>1. node.type = "STRUCT" => node.bytes.of = Unset BY DEF HeaderTrue
    <3>2. node.type \in {"EMPTY", "STRUCT"} => ~node.external BY DEF HeaderTrue
    <3> QED BY <1>1, <1>3, <1>4, <1>7, <2>1, <2>2, <2>3, <3>1, <3>2 DEF HeaderTrue
  <2>5. As(node') = node'.bytes.of /\ As(node) = node.bytes.of
    BY <1>1, <1>3, <1>4, <2>1, <2>3, Zenon DEF As
  <2>6. Seen(node') = Seen(node) BY <1>1, <1>2, <2>5, Zenon DEF Seen
  <2> QED BY <2>4, <2>6
<1> QED BY <1>8, <1>9

\* A step of the node is a step of the register.
Simulated == HeaderTrue' /\ (Register!Next \/ UNCHANGED <<Seen(node), last>>)

LEMMA StoreSimulated ==
    ASSUME NEW v \in Value, Holding(v)', Accept(v)
    PROVE  Simulated
<1>1. Register!Store(v) BY DEF Holding, Accept, Register!Store
<1> QED BY <1>1 DEF Holding, Simulated, Register!Next

LEMMA RefuseSimulated ==
    ASSUME HeaderTrue, NEW v \in Value, Refuse(v),
           node.external = TRUE \/ node.type = "STRUCT"
    PROVE  Simulated
<1>1. node' = node /\ last' = [value |-> v, ok |-> FALSE] BY DEF Refuse
<1>2. HeaderTrue' BY <1>1 DEF HeaderTrue, Holds, Needs, ShapeOf, BytesOf
<1>3. Seen(node') = Seen(node) BY <1>1
<1>4. Seen(node).external = TRUE \/ Seen(node).type = "STRUCT"
  <2>1. CASE node.type = "STRUCT"
    <3>1. Seen(node) = [NoData("STRUCT") EXCEPT !.content = As(node)]
      BY <2>1 DEF Seen
    <3> HIDE DEF As
    <3>2. Seen(node).type = "STRUCT" BY <3>1 DEF NoData
    <3> QED BY <3>2
  <2>2. CASE node.type # "STRUCT"
    <3>1. node.external = TRUE BY <2>2
    <3>2. node.type # "EMPTY" BY <3>1 DEF HeaderTrue
    <3>3. Seen(node) = [type |-> node.type, shape |-> ShapeOf(node),
                        fortran |-> node.fortran, external |-> node.external,
                        content |-> As(node)]
      BY <2>2, <3>2, Zenon DEF Seen
    <3>4. Seen(node).external = node.external BY <3>3
    <3> QED BY <3>1, <3>4
  <2> QED BY <2>1, <2>2
<1>5. Register!Refuse(v) BY <1>1, <1>3, <1>4 DEF Register!Refuse
<1> QED BY <1>2, <1>5 DEF Simulated, Register!Next

LEMMA NextSimulated ==
    ASSUME TypeOK, HeaderTrue, ClassClient, Next
    PROVE  Simulated
<1>0. /\ ArrayValue \subseteq Stored /\ TextValue \subseteq Stored
      /\ Stored \subseteq Value /\ node \in NodeBuffer
  BY StoredIsValue DEF Stored, TypeOK
<1>1. ASSUME NEW v \in Stored, Write(v) PROVE Simulated
  <2>1. Holding(v)' /\ Accept(v) BY <1>0, <1>1, WriteHolding
  <2> QED BY <1>0, <2>1, StoreSimulated
<1>2. ASSUME NEW v \in Stored, Accept(v), Replace(Buffer(v)) PROVE Simulated
  <2>1. Holding(v)' BY <1>2, BufferHolding
  <2> QED BY <1>0, <1>2, <2>1, StoreSimulated
<1>3. ASSUME NEW v \in ArrayValue, SetData(v) PROVE Simulated
  <2>0. v \in Stored /\ v \in Value BY <1>0
  <2>1. CASE node.external
    <3>1. node.external = TRUE BY <2>1, <1>0 DEF NodeBuffer
    <3>2. Refuse(v) BY <1>3, <2>1 DEF SetData
    <3> QED BY <2>0, <3>1, <3>2, RefuseSimulated
  <2>2. CASE ~node.external
    <3>1. Write(v) BY <1>3, <2>2 DEF SetData
    <3> QED BY <2>0, <3>1, <1>1
  <2> QED BY <2>1, <2>2
<1>4. ASSUME NEW v \in ArrayValue, SetVector(v) PROVE Simulated
  <2>0. v \in Stored /\ v \in Value BY <1>0
  <2>1. CASE node.external \/ node.type = "STRUCT"
    <3>1. node.external = TRUE \/ node.type = "STRUCT" BY <2>1, <1>0 DEF NodeBuffer
    <3>2. Refuse(v) BY <1>4, <2>1 DEF SetVector
    <3> QED BY <2>0, <3>1, <3>2, RefuseSimulated
  <2>2. CASE ~(node.external \/ node.type = "STRUCT")
    <3>1. Write(v) BY <1>4, <2>2 DEF SetVector
    <3> QED BY <2>0, <3>1, <1>1
  <2> QED BY <2>1, <2>2
<1>5. ASSUME NEW v \in ArrayValue, SetExternal(v) PROVE Simulated
  <2>1. Write(v) BY <1>5 DEF SetExternal
  <2> QED BY <1>0, <2>1, <1>1
<1>6. ASSUME NEW v \in ArrayValue, SetScalar(v) PROVE Simulated
  <2>1. Accept(v) /\ Replace(Buffer(v)) BY <1>6 DEF SetScalar
  <2> QED BY <1>0, <2>1, <1>2
<1>7. ASSUME NEW v \in TextValue, SetString(v) PROVE Simulated
  <2>1. Accept(v) /\ Replace(Buffer(v)) BY <1>7 DEF SetString
  <2> QED BY <1>0, <2>1, <1>2
<1>8. Setters \cap {"set_c", "set_object", "set_external_object", "alloc"} = {}
  BY DEF ClassClient, ClassSetters
<1>9. ASSUME NEW v \in ArrayValue, SetC(v) \/ SetDataObject(v) \/ SetExternalObject(v)
      PROVE  FALSE
  BY <1>8, <1>9 DEF SetC, SetDataObject, SetExternalObject
<1>10. ASSUME NEW size \in Size, Alloc(size) PROVE FALSE
  BY <1>8, <1>10 DEF Alloc
<1>11. ASSUME NEW size \in Size, Grow(size) PROVE Simulated
  <2>1. size > 0 /\ last' = last BY <1>11 DEF Grow
  <2>2. size >= HeaderSize BY <2>1 DEF ClassClient
  <2>3. HeaderTrue' /\ Seen(node') = Seen(node) BY <1>0, <1>11, <2>2, GrowHolding
  <2> QED BY <2>1, <2>3 DEF Simulated
<1>12. CASE MakeStruct
  <2>1. Holding(NoData("STRUCT"))' /\ Accept(NoData("STRUCT"))
    BY <1>0, <1>12, StructHolding
  <2>2. NoData("STRUCT") \in Value BY DEF Value
  <2> QED BY <2>1, <2>2, StoreSimulated
<1> QED BY <1>3, <1>4, <1>5, <1>6, <1>7, <1>9, <1>10, <1>11, <1>12, NextCases

LEMMA InitSimulated == ASSUME Init PROVE HeaderTrue /\ Register!Init
<1>1. CASE \E size \in Size :
             node = EmptyBuffer(size) /\ last = [value |-> NoData("EMPTY"), ok |-> TRUE]
  <2>1. PICK size \in Size :
             node = EmptyBuffer(size) /\ last = [value |-> NoData("EMPTY"), ok |-> TRUE]
    BY <1>1
  <2>2. /\ node.type = "EMPTY" /\ node.external = FALSE
        /\ node.buffer_size = HeaderSize + node.data_size
    BY <2>1 DEF EmptyBuffer
  <2>3. HeaderTrue BY <2>2 DEF HeaderTrue
  <2>4. Seen(node) = NoData("EMPTY") BY <2>2 DEF Seen
  <2>5. NoData("EMPTY") \in Value BY DEF Value
  <2> QED BY <2>1, <2>3, <2>4, <2>5 DEF Register!Init
<1>2. CASE \E v \in Stored : node = Buffer(v) /\ last = [value |-> v, ok |-> TRUE]
  <2>1. PICK v \in Stored : node = Buffer(v) /\ last = [value |-> v, ok |-> TRUE]
    BY <1>2
  <2>2. Describes(node, v) BY <2>1, BufferFields DEF Describes
  <2>3. /\ Needs(node) = BytesOf(v) /\ node.bytes.size = BytesOf(v)
        /\ node.bytes.holds = Holds(node)
        /\ node.type \notin {"EMPTY", "STRUCT"} /\ Seen(node) = v
    BY <2>2, DescribesSeen
  <2>4. node.buffer_size = HeaderSize + BytesOf(v) /\ node.data_size = BytesOf(v)
    BY <2>1, BufferFields
  <2>5. BytesOf(v) \in Nat BY StoredSize
  <2>6. node.external => BytesOf(v) = PointerSize BY <2>2 DEF Describes, BytesOf
  <2>7. HeaderTrue BY <2>3, <2>4, <2>5, <2>6 DEF HeaderTrue
  <2> QED BY <2>1, <2>3, <2>7, StoredIsValue DEF Register!Init
<1>3. \/ \E size \in Size :
           node = EmptyBuffer(size) /\ last = [value |-> NoData("EMPTY"), ok |-> TRUE]
      \/ \E v \in Stored : node = Buffer(v) /\ last = [value |-> v, ok |-> TRUE]
  BY Zenon DEF Init, Stored
<1> QED BY <1>1, <1>2, <1>3

\* Every step keeps the header true, and is a step of the register.
LEMMA NextHolding ==
    ASSUME TypeOK, HeaderTrue, ClassClient, [Next]_vars
    PROVE  (TypeOK /\ HeaderTrue)' /\ [Register!Next]_<<Seen(node), last>>
<1>1. CASE Next
  <2>1. TypeOK' BY <1>1, NextType
  <2>2. Simulated BY <1>1, NextSimulated
  <2> QED BY <2>1, <2>2 DEF Simulated
<1>2. CASE UNCHANGED vars
  <2>1. node' = node /\ entry' = entry /\ last' = last BY <1>2 DEF vars
  <2>2. TypeOK' BY <2>1 DEF TypeOK
  <2>3. HeaderTrue' BY <2>1 DEF HeaderTrue, Holds, Needs, ShapeOf, BytesOf
  <2>4. Seen(node') = Seen(node) BY <2>1
  <2> QED BY <2>1, <2>2, <2>3, <2>4
<1> QED BY <1>1, <1>2

\* Whatever setters of the class follow each other, with whatever types, shapes and sizes,
\* the readers see the value stored last, and only data of the caller and children make a
\* setter refuse.
THEOREM Implementation ==
    ASSUME ClassClient
    PROVE  Spec => ImplementsNodeValue
<1>1. Init => TypeOK /\ HeaderTrue /\ Register!Init BY InitType, InitSimulated
<1>2. TypeOK /\ HeaderTrue /\ [Next]_vars
        => (TypeOK /\ HeaderTrue)' /\ [Register!Next]_<<Seen(node), last>>
  BY NextHolding
<1> QED BY <1>1, <1>2, PTL DEF Spec, ImplementsNodeValue, Register!Spec

\* get_data() and as() return the same for every node that has data, whatever setters of
\* the class follow each other (hdc.cpp:1583, hdc.hpp:1078): an external node has the
\* size of an address, so that all of it is copied, and grow() refuses it.
THEOREM ReadersCorrect ==
    ASSUME ClassClient
    PROVE  Spec => []ReadersAgree
<1>1. Init => TypeOK /\ HeaderTrue BY InitType, InitSimulated
<1>2. TypeOK /\ HeaderTrue /\ [Next]_vars => (TypeOK /\ HeaderTrue)' BY NextHolding
<1>3. TypeOK /\ HeaderTrue => ReadersAgree
  <2> SUFFICES ASSUME TypeOK, HeaderTrue, node.type \in DataType \cup {"STRING"},
                      node.external \/ node.rank > 0 \/ node.data_size <= PointerSize
               PROVE  GetData(node) = As(node)
    BY DEF ReadersAgree
  <2>1. node \in NodeBuffer BY DEF TypeOK
  <2>2. node.type # "EMPTY" BY TypesAssumption
  <2>3. /\ Needs(node) \in Nat /\ Needs(node) <= node.data_size
        /\ node.external => node.data_size = PointerSize
    BY <2>2 DEF HeaderTrue
  <2>4. node.data_size \in Nat /\ PointerSize \in Nat /\ node.rank \in Nat
    BY <2>1, SizesAssumption DEF NodeBuffer
  <2> DEFINE needs == Needs(node)
  <2>5. (node.external \/ node.rank = 0) =>
            ~(node.data_size > PointerSize \/ node.data_size < needs)
    <3> HIDE DEF needs
    <3> QED BY <2>3, <2>4 DEF needs
  <2> HIDE DEF needs
  <2> QED BY <2>5, Zenon DEF GetData, needs
<1> QED BY <1>1, <1>2, <1>3, PTL DEF Spec

----------------------------------------------------------------------------
(* The setters that keep part of the header, whatever calls come before. *)

\* A node whose data the caller owns has the size of an address.
ExternalSized ==
    /\ node.type = "EMPTY" => ~node.external
    /\ node.external => node.buffer_size = HeaderSize + PointerSize

LEMMA BufferSized ==
    ASSUME NEW v \in Stored, node' = Buffer(v)
    PROVE  ExternalSized'
<1>1. node'.type # "EMPTY" BY StoredFields, BufferFields, TypesAssumption
<1>2. node'.external => node'.buffer_size = HeaderSize + PointerSize
  BY BufferFields DEF BytesOf
<1> QED BY <1>1, <1>2 DEF ExternalSized

LEMMA WriteSized ==
    ASSUME TypeOK, NEW v \in Stored, Write(v)
    PROVE  ExternalSized'
<1>1. CASE InPlace(v)
  <2>1. node' = Overwritten(v) /\ node \in NodeBuffer BY <1>1 DEF Write, TypeOK
  <2>2. /\ node'.buffer_size = node.buffer_size
        /\ node'.type = v.type /\ node'.external = v.external
    BY <2>1, OverwrittenType
  <2>3. v.external => node.buffer_size = HeaderSize + PointerSize
    BY <1>1 DEF InPlace, BytesOf
  <2>4. v.type # "EMPTY" BY StoredFields, TypesAssumption
  <2> QED BY <2>2, <2>3, <2>4 DEF ExternalSized
<1>2. CASE ~InPlace(v)
  <2>1. node' = Buffer(v) BY <1>2 DEF Write, Replace
  <2> QED BY <2>1, BufferSized
<1> QED BY <1>1, <1>2

\* What the in-place branch of set_data(hdc_data_t) makes of the header.
LEMMA ObjectFields ==
    ASSUME node \in NodeBuffer, NEW v \in Stored
    PROVE  LET new == OverwrittenObject(v)
           IN  /\ new.type = v.type /\ new.external = v.external /\ new.fortran = v.fortran
               /\ new.rank = node.rank /\ new.bytes = BytesFor(v)
               /\ new.buffer_size = node.buffer_size
               /\ new.shape = [i \in 1..MaxDims |->
                                IF i <= node.rank THEN Padded(v.shape)[i] ELSE 0]
<1> DEFINE nd == Overwritten(v)
           sh == [i \in 1..MaxDims |-> IF i <= node.rank THEN nd.shape[i] ELSE 0]
           new == OverwrittenObject(v)
<1>1. /\ nd \in NodeBuffer /\ nd.buffer_size = node.buffer_size
      /\ nd.type = v.type /\ nd.external = v.external /\ nd.fortran = v.fortran
      /\ nd.shape = Padded(v.shape) /\ nd.bytes = BytesFor(v)
  BY OverwrittenType
<1>2. new = [nd EXCEPT !.shape = sh, !.rank = node.rank] BY DEF OverwrittenObject
<1>3. sh = [i \in 1..MaxDims |-> IF i <= node.rank THEN Padded(v.shape)[i] ELSE 0] BY <1>1
<1> HIDE DEF nd, sh, new
<1>4. /\ new.type = nd.type /\ new.external = nd.external /\ new.fortran = nd.fortran
      /\ new.rank = node.rank /\ new.bytes = nd.bytes /\ new.buffer_size = nd.buffer_size
      /\ new.shape = sh
  BY <1>1, <1>2 DEF NodeBuffer
<1> QED BY <1>1, <1>3, <1>4 DEF new

\* set_data_c() in place changes nothing but the bytes.
LEMMA SetCFields ==
    ASSUME node \in NodeBuffer, NEW v \in Stored, node' = [node EXCEPT !.bytes = BytesFor(v)]
    PROVE  /\ node'.type = node.type /\ node'.external = node.external
           /\ node'.fortran = node.fortran /\ node'.shape = node.shape
           /\ node'.rank = node.rank /\ node'.buffer_size = node.buffer_size
           /\ node'.bytes = BytesFor(v)
<1> HIDE DEF BytesFor
<1> QED BY DEF NodeBuffer

\* A new buffer of set_external(hdc_data_t).
LEMMA ExternalObjectFields ==
    ASSUME NEW v \in ArrayValue, SetExternalObject(v), ~InPlace(v)
    PROVE  /\ node'.type = v.type
           /\ node'.buffer_size = HeaderSize + PointerSize
<1> DEFINE bf == Buffer(v)
           n == SizeOf[v.type]
<1>1. v \in Stored /\ v.external BY DEF Stored, SetExternalObject
<1>2. bf \in NodeBuffer /\ bf.type = v.type /\ bf.buffer_size = HeaderSize + PointerSize
  BY <1>1, BufferType, BufferFields DEF BytesOf
<1>3. node' = [bf EXCEPT !.data_size = n, !.bytes.size = n]
  BY DEF SetExternalObject, Replace
<1> HIDE DEF bf, n
<1> QED BY <1>2, <1>3 DEF NodeBuffer

LEMMA NextSized ==
    ASSUME TypeOK, ExternalSized, Next
    PROVE  ExternalSized'
<1>0. /\ ArrayValue \subseteq Stored /\ TextValue \subseteq Stored /\ node \in NodeBuffer
  BY DEF Stored, TypeOK
<1>1. ASSUME NEW v \in ArrayValue, SetData(v) \/ SetVector(v) \/ SetExternal(v)
      PROVE  ExternalSized'
  <2>1. Refuse(v) \/ Write(v) BY <1>1 DEF SetData, SetVector, SetExternal
  <2>2. CASE Refuse(v) BY <2>2 DEF Refuse, ExternalSized
  <2>3. CASE Write(v) BY <1>0, <2>3, WriteSized
  <2> QED BY <2>1, <2>2, <2>3
<1>2. ASSUME NEW v \in ArrayValue \cup TextValue, SetScalar(v) \/ SetString(v)
      PROVE  ExternalSized'
  <2>1. node' = Buffer(v) BY <1>2 DEF SetScalar, SetString, Replace
  <2> QED BY <1>0, <2>1, BufferSized
<1>3. ASSUME NEW v \in ArrayValue, SetC(v) PROVE ExternalSized'
  <2>1. CASE InPlace(v)
    <3>1. node' = [node EXCEPT !.bytes = BytesFor(v)] BY <1>3, <2>1 DEF SetC
    <3>2. /\ node'.type = node.type /\ node'.external = node.external
          /\ node'.buffer_size = node.buffer_size
      BY <1>0, <3>1, SetCFields
    <3> QED BY <3>2 DEF ExternalSized
  <2>2. CASE ~InPlace(v)
    <3>1. node' = Buffer(v) BY <1>3, <2>2 DEF SetC, Replace
    <3> QED BY <1>0, <3>1, BufferSized
  <2> QED BY <2>1, <2>2
<1>4. ASSUME NEW v \in ArrayValue, SetDataObject(v) \/ SetExternalObject(v), InPlace(v)
      PROVE  ExternalSized'
  <2>1. node' = OverwrittenObject(v) BY <1>4 DEF SetDataObject, SetExternalObject
  <2>2. /\ node'.type = v.type /\ node'.external = v.external
        /\ node'.buffer_size = node.buffer_size
    BY <1>0, <2>1, ObjectFields
  <2>3. v.type # "EMPTY" BY <1>0, StoredFields, TypesAssumption
  <2>4. v.external => node.buffer_size = HeaderSize + PointerSize
    BY <1>4 DEF InPlace, BytesOf
  <2> QED BY <2>2, <2>3, <2>4 DEF ExternalSized
<1>5. ASSUME NEW v \in ArrayValue, SetDataObject(v), ~InPlace(v) PROVE ExternalSized'
  <2>1. node' = Buffer(v) BY <1>5 DEF SetDataObject, Replace
  <2> QED BY <1>0, <2>1, BufferSized
<1>6. ASSUME NEW v \in ArrayValue, SetExternalObject(v), ~InPlace(v) PROVE ExternalSized'
  <2>1. v.type # "EMPTY" BY <1>0, StoredFields, TypesAssumption
  <2> QED BY <1>6, <2>1, ExternalObjectFields DEF ExternalSized
<1>7. ASSUME NEW size \in Size, Alloc(size) PROVE ExternalSized'
  <2>1. node' = EmptyBuffer(size) BY <1>7 DEF Alloc, Replace
  <2> QED BY <2>1 DEF EmptyBuffer, ExternalSized
<1>8. ASSUME NEW size \in Size, Grow(size) PROVE ExternalSized'
  <2>1. ~node.external BY <1>8 DEF Grow
  <2> QED BY <1>0, <1>8, <2>1, GrowStep DEF ExternalSized
<1>9. CASE MakeStruct
  <2>1. PICK moved \in BOOLEAN : MadeStruct(moved) BY <1>0, <1>9, MakeStructStep
  <2> DEFINE nd == StructBase(moved)
             room == StructRoom(nd)
             size == IF nd.buffer_size < NodeSize THEN NodeSize ELSE nd.buffer_size
             bs == Bytes("heap", Unset, room)
  <2>2. /\ nd \in NodeBuffer /\ node.type = "EMPTY"
        /\ node' = [nd EXCEPT !.type = "STRUCT", !.data_size = room,
                              !.buffer_size = size, !.bytes = bs]
    BY <2>1 DEF MadeStruct
  <2>3. ~nd.external
    <3>1. ~EmptyBuffer(NodeSize).external BY DEF EmptyBuffer
    <3> QED BY <2>2, <3>1 DEF StructBase, ExternalSized
  <2> HIDE DEF nd, room, size, bs
  <2>4. node'.external = nd.external /\ node'.type = "STRUCT" BY <2>2 DEF NodeBuffer
  <2> QED BY <2>3, <2>4 DEF ExternalSized
<1> QED BY <1>1, <1>2, <1>3, <1>4, <1>5, <1>6, <1>7, <1>8, <1>9, NextCases

LEMMA InitSized == Init => ExternalSized
<1> SUFFICES ASSUME Init PROVE ExternalSized OBVIOUS
<1>1. CASE \E size \in Size : node = EmptyBuffer(size)
  BY <1>1 DEF EmptyBuffer, ExternalSized
<1>2. CASE \E v \in Stored : node = Buffer(v)
  <2>1. PICK v \in Stored : node = Buffer(v) BY <1>2
  <2>2. node.type # "EMPTY" BY <2>1, StoredFields, BufferFields, TypesAssumption
  <2>3. node.external => node.buffer_size = HeaderSize + PointerSize
    BY <2>1, BufferFields DEF BytesOf
  <2> QED BY <2>2, <2>3 DEF ExternalSized
<1> QED BY <1>1, <1>2, Zenon DEF Init, Stored

\* A node whose header describes v, and whose bytes are those of v, shows v.
LEMMA KeptSeen ==
    ASSUME NEW v \in ArrayValue, NEW nd,
           nd.type = v.type, nd.external = v.external, nd.fortran = v.fortran,
           ShapeOf(nd) = v.shape, nd.bytes = BytesFor(v)
    PROVE  Seen(nd) = v
<1>1. v \in Stored BY DEF Stored
<1>2. nd.type # "STRUCT" /\ nd.type # "EMPTY" /\ nd.type # "STRING"
  BY TypesAssumption DEF ArrayValue
<1>3. nd.bytes.of = v.content /\ nd.bytes.size = BytesOf(v) BY <1>1, BytesType
<1>4. nd.bytes.holds = Holds(nd)
  <2>1. CASE v.external
    <3>1. BytesFor(v).holds = "address" BY <1>1, <2>1, BytesType
    <3> QED BY <1>2, <2>1, <3>1 DEF Holds
  <2>2. CASE ~v.external
    <3>1. BytesFor(v).holds = "data" BY <1>1, <2>2, BytesType
    <3> QED BY <1>2, <2>2, <3>1 DEF Holds
  <2> QED BY <2>1, <2>2
<1>5. Needs(nd) = BytesOf(v)
  <2>1. Needs(nd) = BytesOf([type |-> v.type, external |-> v.external, shape |-> v.shape])
    BY <1>2, Zenon DEF Needs
  <2> HIDE DEF Elements
  <2> QED BY <2>1 DEF BytesOf
<1>6. As(nd) = v.content
  <2>1. BytesOf(v) \in Nat BY <1>1, StoredSize
  <2> QED BY <1>3, <1>4, <1>5, <2>1 DEF As
<1>7. Seen(nd) = [type |-> v.type, shape |-> v.shape, fortran |-> v.fortran,
                  external |-> v.external, content |-> v.content]
  BY <1>2, <1>6, Zenon DEF Seen
<1> QED BY <1>1, <1>7, StoredFields

\* What a value of the kind that the node has already says about its header.
LEMMA SameKind ==
    ASSUME NEW c \in Content, NEW v, v = [Seen(node) EXCEPT !.content = c],
           v \in ArrayValue
    PROVE  /\ node.type = v.type /\ node.external = v.external
           /\ node.fortran = v.fortran /\ ShapeOf(node) = v.shape
<1>1. v.type \in DataType /\ v.type \notin {"EMPTY", "STRUCT"}
  BY TypesAssumption DEF ArrayValue
<1>2. node.type # "EMPTY"
  <2> SUFFICES ASSUME node.type = "EMPTY" PROVE FALSE OBVIOUS
  <2>1. v = [NoData("EMPTY") EXCEPT !.content = c] BY Zenon DEF Seen
  <2>2. v.type = "EMPTY" BY <2>1 DEF NoData
  <2> QED BY <1>1, <2>2
<1>3. node.type # "STRUCT"
  <2> SUFFICES ASSUME node.type = "STRUCT" PROVE FALSE OBVIOUS
  <2> DEFINE a == As(node)
  <2>1. v = [[NoData("STRUCT") EXCEPT !.content = a] EXCEPT !.content = c]
    BY <1>2, Zenon DEF Seen
  <2> HIDE DEF a
  <2>2. v.type = "STRUCT" BY <2>1 DEF NoData
  <2> QED BY <1>1, <2>2
<1> DEFINE a == As(node)
           s == ShapeOf(node)
<1>4. v = [[type |-> node.type, shape |-> s, fortran |-> node.fortran,
            external |-> node.external, content |-> a] EXCEPT !.content = c]
  BY <1>2, <1>3, Zenon DEF Seen
<1> HIDE DEF a, s
<1>5. /\ node.type = v.type /\ node.external = v.external
      /\ node.fortran = v.fortran /\ s = v.shape
  BY <1>4
<1> QED BY <1>5 DEF s

LEMMA SameKindStored ==
    ASSUME TypeOK, ExternalSized, NEW c \in Content,
           NEW v, v = [Seen(node) EXCEPT !.content = c], v \in ArrayValue,
           SetC(v) \/ SetDataObject(v) \/ SetExternalObject(v)
    PROVE  Seen(node') = v
<1>0. v \in Stored /\ node \in NodeBuffer BY DEF Stored, TypeOK
<1>1. /\ node.type = v.type /\ node.external = v.external
      /\ node.fortran = v.fortran /\ ShapeOf(node) = v.shape
  BY SameKind
<1>2. CASE node' = Buffer(v)
  <2>1. Describes(node', v) BY <1>0, <1>2, BufferFields DEF Describes
  <2> QED BY <1>0, <2>1, DescribesSeen
<1>3. CASE node' = [node EXCEPT !.bytes = BytesFor(v)]
  <2>1. /\ node'.type = node.type /\ node'.external = node.external
        /\ node'.fortran = node.fortran /\ node'.shape = node.shape
        /\ node'.rank = node.rank /\ node'.bytes = BytesFor(v)
    BY <1>0, <1>3, SetCFields
  <2>2. ShapeOf(node') = v.shape BY <1>1, <2>1 DEF ShapeOf
  <2> QED BY <1>1, <2>1, <2>2, KeptSeen
<1>4. CASE node' = OverwrittenObject(v)
  <2>1. /\ node'.type = v.type /\ node'.external = v.external /\ node'.fortran = v.fortran
        /\ node'.rank = node.rank /\ node'.bytes = BytesFor(v)
        /\ node'.shape = [i \in 1..MaxDims |->
                            IF i <= node.rank THEN Padded(v.shape)[i] ELSE 0]
    BY <1>0, <1>4, ObjectFields
  <2>2. node.rank \in 0..MaxDims /\ MaxDims \in Nat BY <1>0, SizesAssumption DEF NodeBuffer
  <2>3. v.shape = [i \in 1..node.rank |-> node.shape[i]] BY <1>1 DEF ShapeOf
  <2>4. Len(v.shape) = node.rank /\ v.shape \in Seq(Nat) BY <1>0, <2>2, <2>3, StoredFields
  <2>5. \A i \in 1..node.rank : i \in 1..MaxDims /\ i <= node.rank BY <2>2
  <2>6. \A i \in 1..node.rank : Padded(v.shape)[i] = v.shape[i]
    BY <2>4, <2>5 DEF Padded
  <2>7. \A i \in 1..node.rank : node'.shape[i] = v.shape[i] BY <2>1, <2>5, <2>6
  <2>8. ShapeOf(node') = [i \in 1..node.rank |-> node'.shape[i]] BY <2>1 DEF ShapeOf
  <2>9. \A i \in 1..node.rank : node'.shape[i] = node.shape[i] BY <2>3, <2>7
  <2>10. ShapeOf(node') = v.shape BY <2>3, <2>8, <2>9
  <2> QED BY <2>1, <2>10, KeptSeen
<1>5. SetExternalObject(v) => InPlace(v)
  <2> SUFFICES ASSUME SetExternalObject(v) PROVE InPlace(v) OBVIOUS
  <2>1. v.external BY DEF SetExternalObject
  <2>2. node.buffer_size = HeaderSize + PointerSize BY <1>1, <2>1 DEF ExternalSized
  <2> QED BY <2>1, <2>2 DEF InPlace, BytesOf
<1>6. \/ node' = Buffer(v) \/ node' = [node EXCEPT !.bytes = BytesFor(v)]
      \/ node' = OverwrittenObject(v)
  <2>1. CASE SetC(v)
    <3>1. CASE InPlace(v) BY <2>1, <3>1, Zenon DEF SetC
    <3>2. CASE ~InPlace(v) BY <2>1, <3>2, Zenon DEF SetC, Replace
    <3> QED BY <3>1, <3>2
  <2>2. CASE SetDataObject(v)
    <3>1. CASE InPlace(v) BY <2>2, <3>1, Zenon DEF SetDataObject
    <3>2. CASE ~InPlace(v) BY <2>2, <3>2, Zenon DEF SetDataObject, Replace
    <3> QED BY <3>1, <3>2
  <2>3. CASE SetExternalObject(v) BY <1>5, <2>3, Zenon DEF SetExternalObject
  <2> QED BY <2>1, <2>2, <2>3
<1> QED BY <1>2, <1>3, <1>4, <1>6

\* set_data_c(), set_data(hdc_data_t) and the two for external data leave part of the
\* header of a node as it is.  Given a value of the kind that it describes they store
\* it, whatever calls made that header (hdc.cpp:1005, 1616).
THEOREM SameKindCorrect == Spec => SameKindSeen
<1> DEFINE Kept == \A c \in Content :
                LET v == [Seen(node) EXCEPT !.content = c]
                IN  v \in ArrayValue /\ (SetC(v) \/ SetDataObject(v) \/ SetExternalObject(v))
                    => Seen(node') = v
<1>1. Init => TypeOK /\ ExternalSized BY InitType, InitSized
<1>2. TypeOK /\ ExternalSized /\ [Next]_vars => (TypeOK /\ ExternalSized)'
  <2> SUFFICES ASSUME TypeOK, ExternalSized, [Next]_vars
               PROVE  TypeOK' /\ ExternalSized'
    OBVIOUS
  <2>1. CASE Next BY <2>1, NextType, NextSized
  <2>2. CASE UNCHANGED vars BY <2>2 DEF vars, TypeOK, ExternalSized
  <2> QED BY <2>1, <2>2
<1>3. TypeOK /\ ExternalSized /\ [Next]_vars => [Kept]_vars
  <2> SUFFICES ASSUME TypeOK, ExternalSized, NEW c \in Content,
                      NEW v, v = [Seen(node) EXCEPT !.content = c], v \in ArrayValue,
                      SetC(v) \/ SetDataObject(v) \/ SetExternalObject(v)
               PROVE  Seen(node') = v
    OBVIOUS
  <2> QED BY SameKindStored
<1> QED BY <1>1, <1>2, <1>3, PTL DEF Spec, SameKindSeen
=============================================================================
