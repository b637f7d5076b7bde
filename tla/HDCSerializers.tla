--------------------------- MODULE HDCSerializers ---------------------------
(***************************************************************************)
(* Trees written to JSON, HDF5 and flatbuffers files and to an S3 bucket,  *)
(* and read back: src/serialization/hdc_{json,hdf5,flatbuffers,s3}_        *)
(* serializer.cpp, called by HDC::save and HDC::load (hdc.cpp:1377).       *)
(*                                                                         *)
(* A tree is a function from the paths of its nodes to the nodes, so that  *)
(* a recursion over the children is a definition for each path.  A name in *)
(* a path is a key, which is a number in the order of the keys, or that of *)
(* the item of a list, which is negative.  The number in a node is twice   *)
(* its value, so that odd numbers are the fractions, and a text is a       *)
(* number of its own.  What a reader has to tell apart in each format is   *)
(* kept: types, the shape and the order of an array, the order of keys,    *)
(* and whether the array is external, so that only its address is in the   *)
(* node.                                                                   *)
(***************************************************************************)
EXTENDS Integers, SequencesExt

CONSTANTS
    Trees,      \* trees written to files
    Uploads,    \* trees written to the bucket
    NaN,        \* not a number
    Memory,     \* what is found in place of the elements of an external array
    MaxRank,    \* ranks above it have no loop in any serializer (5 in the code)
    IntMax,     \* largest int32
    LargestMax, \* largest integer of jsoncpp (64 bits)
    MaxDepth    \* bound: an empty node grows by a level each time it goes through
                \* HDF5 (an array of one NaN) and JSON (a list of one null)

ASSUME SerializersAssumption ==
    /\ MaxRank \in Nat \ {0} /\ IntMax \in Nat /\ LargestMax \in Nat
    /\ IntMax <= LargestMax
    /\ MaxDepth \in Nat
    /\ Memory \in {0, 2}   \* which an element of any type can be

VARIABLES
    tree,    \* the tree in memory
    file,    \* the file: its format, its content and the tree it was made of
    bucket,  \* the objects of the bucket: a JSON document for each path
    queue,   \* leaves that S3Serializer::write_node has still to put, by their paths
    listed,  \* paths that S3Serializer::read has listed and not read yet
    back,    \* the tree that the last call read
    failed   \* the last call threw

vars == <<tree, file, bucket, queue, listed, back, failed>>

-----------------------------------------------------------------------------
(* Paths and trees.                                                        *)

\* The name of the i-th item of a list, counted from 0; and the index of the name.
ListItem(i) == -1 - i
ItemNames(n) == [k \in 1..n |-> ListItem(k - 1)]
ItemPath(i) == [d \in DOMAIN i |-> ListItem(i[d])]

\* What is left of a path behind another one.
Rest(p, x) == SubSeq(x, Len(p) + 1, Len(x))

\* Keys in their order.
Sorted(keys) ==
    CHOOSE s \in [DOMAIN keys -> Range(keys)] : \A a, b \in DOMAIN keys : a < b => s[a] < s[b]

\* How far a path leads.
Deepest(t, x) ==
    CHOOSE p \in DOMAIN t :
        IsPrefix(p, x) /\ \A q \in DOMAIN t : IsPrefix(q, x) => Len(q) <= Len(p)

\* The last node on the way from item to first item.
FirstItem(p, n) == p \o [k \in 1..n |-> ListItem(0)]
Innermost(t, p) ==
    CHOOSE q \in DOMAIN t :
        /\ IsPrefix(p, q) /\ q = FirstItem(p, Len(q) - Len(p))
        /\ FirstItem(q, 1) \notin DOMAIN t

\* How many items the nodes on this way have.
ItemCounts(t, p, type) ==
    LET q == Innermost(t, p)
        n == Len(q) - Len(p)
    IN  [k \in 1..(IF t[q].type = type THEN n + 1 ELSE n) |-> Len(t[FirstItem(p, k - 1)].names)]

Reals == {"DOUBLE"}
Ints == {"INT32", "INT64", "UINT8"}

Node(type, shape, order, elems, names) ==
    [type |-> type, shape |-> shape, order |-> order, elems |-> elems, names |-> names,
     external |-> FALSE]
Array(type, shape, elems) == Node(type, shape, "C", elems, <<>>)
EmptyNode == Array("EMPTY", <<>>, <<>>)
StructNode(names) == Node("STRUCT", <<>>, "C", <<>>, names)
ListNode(n) == Node("LIST", <<>>, "C", <<>>, ItemNames(n))
Inner(u) == u.type \in {"STRUCT", "LIST"}

Alone(u) == [p \in {<<>>} |-> u]
Empty == Alone(EmptyNode)
Failure == Alone([type |-> "failure"])
Failed(t) == t = Failure
None == [format |-> "none", content |-> Empty, origin |-> Empty]

\* The part of a tree below a path, and a tree with another one in its place.
Below(t, p) ==
    [q \in {Rest(p, x) : x \in {y \in DOMAIN t : IsPrefix(p, y)}} |-> t[p \o q]]
Replace(t, at, new) ==
    [p \in {x \in DOMAIN t : ~IsPrefix(at, x)} \cup {at \o q : q \in DOMAIN new} |->
        IF IsPrefix(at, p) THEN new[Rest(at, p)] ELSE t[p]]

\* A list of trees.
List(kids) ==
    [p \in {<<>>} \cup UNION {{<<ListItem(i - 1)>> \o q : q \in DOMAIN kids[i]} : i \in DOMAIN kids} |->
        IF p = <<>> THEN ListNode(Len(kids)) ELSE kids[-Head(p)][Tail(p)]]

-----------------------------------------------------------------------------
(* Arrays.                                                                 *)

Product(shape) ==
    LET size[d \in 0..Len(shape)] == IF d = 0 THEN 1 ELSE size[d - 1] * shape[d]
    IN  size[Len(shape)]

Indices(shape) ==
    {i \in [DOMAIN shape -> UNION {0..(shape[d] - 1) : d \in DOMAIN shape}] :
        \A d \in DOMAIN shape : i[d] < shape[d]}

\* Where andres::View finds the element of an index: get_strides counts the last
\* index first, the Fortran flag turns this round.
RowMajor(shape, i) ==
    LET at[d \in 0..Len(shape)] == IF d = 0 THEN 0 ELSE at[d - 1] * shape[d] + i[d]
    IN  at[Len(shape)]
Offset(u, i) ==
    IF u.order = "C" THEN RowMajor(u.shape, i) ELSE RowMajor(Reverse(u.shape), Reverse(i))
At(u, i) == u.elems[1 + Offset(u, i)]

\* transpose_buffer reads the array in its order and writes the indexes and the
\* extents reversed in the other order, which is the same place: the bytes stay.
\* It has no loop for rank 0 nor for more than MaxRank.
Untransposable(u) == u.order = "F" /\ Len(u.shape) \notin 1..MaxRank

-----------------------------------------------------------------------------
(* JSON: a document is a function from paths, too.                         *)

Json(type, n) == [type |-> type, n |-> n, names |-> <<>>]
JNull == Json("null", 0)
JInner(type, names) == [type |-> type, n |-> 0, names |-> names]

\* jsoncpp writes a NaN as null, and 2.0 with its point.
Number(type, n) ==
    IF n = NaN THEN JNull
    ELSE IF type = "BOOL" THEN Json("bool", n)
    ELSE IF type \in Reals THEN Json("real", n)
    ELSE Json("int", n)

\* Nested arrays in the order of the indexes: an array for each part of an index.
Nested(u) ==
    [p \in {ItemPath(i) : i \in UNION {Indices(SubSeq(u.shape, 1, n)) : n \in 0..Len(u.shape)}} |->
        IF Len(p) < Len(u.shape) THEN JInner("array", ItemNames(u.shape[Len(p) + 1]))
        ELSE Number(u.type, At(u, ItemPath(p)))]

\* Mutant: the flag is not read.
BufferToJsonC(u) ==
    IF Len(u.shape) > MaxRank THEN Failure
    ELSE IF Product(u.shape) = 0 THEN Alone(JNull)
    ELSE Nested([u EXCEPT !.order = "C"])

BufferToJson(u) ==
    IF Len(u.shape) > MaxRank THEN Failure
    ELSE IF Product(u.shape) = 0 THEN Alone(JNull)   \* no element is ever assigned
    ELSE Nested(u)

\* An object without members is never more than a null.
NodeToJson(u) ==
    IF u.type = "EMPTY" \/ (u.type = "STRUCT" /\ u.names = <<>>) THEN Alone(JNull)
    ELSE IF u.type = "STRING" THEN Alone(Json("string", u.elems[1]))
    ELSE IF u.type = "STRUCT" THEN Alone(JInner("object", Sorted(u.names)))
    ELSE IF u.type = "LIST" THEN Alone(JInner("array", u.names))
    ELSE BufferToJson(u)

\* to_json: each node in its place.
ToJson(t) ==
    LET doc == [p \in DOMAIN t |-> NodeToJson(t[p])]
        paths == UNION {{p \o q : q \in DOMAIN doc[p]} : p \in DOMAIN t}
    IN  IF \E p \in DOMAIN t : Failed(doc[p]) THEN Failure
        ELSE [x \in paths |-> LET p == Deepest(t, x) IN doc[p][Rest(p, x)]]

\* The values of an array that are no arrays themselves.
Values(j, p) == {j[q] : q \in {x \in DOMAIN j : IsPrefix(p, x) /\ j[x].type # "array"}}

\* is_all_numeric and is_all_bool.
AllOf(kinds, j, p) == \A v \in Values(j, p) : v.type \in kinds
IsAllNumeric(j, p) == AllOf({"int", "real"}, j, p)
IsAllBool(j, p) == AllOf({"bool"}, j, p)

\* A real with a whole value is an integer to jsoncpp as well.
IsWhole(v) ==
    \/ v.type = "int"
    \/ v.type = "real" /\ v.n % 2 = 0 /\ v.n <= 2 * LargestMax
IsDouble(j, p) == IsAllNumeric(j, p) /\ \E v \in Values(j, p) : ~IsWhole(v)
IsInt(j, p) == IsAllNumeric(j, p) /\ \E v \in Values(j, p) : IsWhole(v)

\* get_shape follows the first item.
JsonShape(j, p) == ItemCounts(j, p, "array")

\* root[i][j]..: past the end of an array is null, and so is an index of null;
\* an index of anything else throws.
ItemAt(j, p, i) ==
    LET x == p \o ItemPath(i)
        at == Deepest(j, x)
    IN  IF at = x THEN j[x]
        ELSE IF j[at].type \in {"array", "null"} THEN JNull
        ELSE [type |-> "failure"]

\* asDouble, asInt and asBool of one element.  NaN stands for a throw here.
Element(type, v) ==
    IF v.type = "null" THEN 0
    ELSE IF v.type \notin {"int", "real", "bool"} THEN NaN
    ELSE IF type = "INT32" /\ v.n > 2 * IntMax THEN NaN
    ELSE IF type = "BOOL" /\ v.n # 0 THEN 2
    ELSE v.n

ArrayType(j, p) ==
    IF IsDouble(j, p) THEN "DOUBLE"
    ELSE IF IsInt(j, p) THEN "INT32"
    ELSE "BOOL"

\* Mutant: the view of the new array is in the other order.
IndexOfFortran(shape, n) ==
    CHOOSE i \in Indices(shape): RowMajor(Reverse(shape), Reverse(i)) = n

\* The index of the n-th element of a new array, which is in C order.
IndexOf(shape, n) == CHOOSE i \in Indices(shape): RowMajor(shape, i) = n

JsonArray(j, p) ==
    LET shape == JsonShape(j, p)
        type == ArrayType(j, p)
        elems == [n \in 1..Product(shape) |-> Element(type, ItemAt(j, p, IndexOf(shape, n - 1)))]
    IN  IF Len(shape) > MaxRank \/ \E n \in DOMAIN elems: elems[n] = NaN
        THEN [type |-> "failure"]
        ELSE Array(type, shape, elems)

\* Arrays that become arrays and not lists.
Numeric(j, p) == j[p].type = "array" /\ (IsAllNumeric(j, p) \/ IsAllBool(j, p))

JsonToNode(j, p) ==
    LET v == j[p]
    IN  IF v.type = "null" THEN EmptyNode
        ELSE IF v.type = "string" THEN Array("STRING", <<>>, <<v.n>>)
        ELSE IF v.type = "bool" THEN Array("BOOL", <<>>, <<v.n>>)
        ELSE IF v.type = "real" THEN Array("DOUBLE", <<>>, <<v.n>>)
        ELSE IF v.type = "int" /\ v.n <= 2 * IntMax THEN Array("INT32", <<>>, <<v.n>>)
        ELSE IF Numeric(j, p) THEN JsonArray(j, p)
        ELSE IF v.type = "array" THEN ListNode(Len(v.names))
        ELSE IF v.type = "object" THEN StructNode(v.names)
        ELSE [type |-> "failure"]

\* json_to_HDC: a node for everything that is not inside of an array.
FromJson(j) ==
    LET paths == {p \in DOMAIN j : \A q \in DOMAIN j : IsPrefix(q, p) /\ Numeric(j, q) => q = p}
        t == [p \in paths |-> JsonToNode(j, p)]
    IN  IF \E p \in paths : t[p].type = "failure" THEN Failure ELSE t

-----------------------------------------------------------------------------
(* HDF5 and flatbuffers.                                                   *)

\* What write_node of HDF5 and of flatbuffers finds behind the header: neither looks
\* at the flag of an external array, as buffer_to_json does, and what they take for its
\* elements is its address, and what lies behind that.
Bytes(u) == IF u.external THEN [i \in DOMAIN u.elems |-> Memory] ELSE u.elems

\* Mutant: the extents are reversed with the buffer.
DatasetReversed(u) ==
    IF u.type = "EMPTY" THEN Array("DOUBLE", <<1>>, <<NaN>>)
    ELSE IF u.type = "BOOL" THEN Array("UINT8", u.shape, Bytes(u))
    ELSE Array(u.type, Reverse(u.shape), Bytes(u))

\* What HDF5's write_node leaves for a node without children: a NaN for an empty
\* node, bytes for the booleans, the bytes of an array under its own extents.
Dataset(u) ==
    IF u.type = "EMPTY" THEN Array("DOUBLE", <<1>>, <<NaN>>)
    ELSE IF u.type = "BOOL" THEN Array("UINT8", u.shape, Bytes(u))
    ELSE Array(u.type, u.shape, Bytes(u))

\* A struct is a group, which is read in the order of the names, a list an array of
\* references to its items.
ToHdf5(t) ==
    IF \E p \in DOMAIN t : Untransposable(t[p]) THEN Failure
    ELSE [p \in DOMAIN t |->
            IF t[p].type = "STRUCT" THEN StructNode(Sorted(t[p].names))
            ELSE IF t[p].type = "LIST" THEN t[p]
            ELSE Dataset(t[p])]

\* A group without members never becomes a struct.
FromHdf5(d) ==
    [p \in DOMAIN d |->
        IF d[p].type = "STRUCT" /\ d[p].names = <<>> THEN EmptyNode ELSE d[p]]

\* get_data copies the bytes of an array.
Vector(u) == IF u.type = "EMPTY" THEN EmptyNode ELSE Array(u.type, u.shape, Bytes(u))

ToFlatBuffers(t) ==
    IF \E p \in DOMAIN t : Untransposable(t[p]) THEN Failure
    ELSE [p \in DOMAIN t |-> IF Inner(t[p]) THEN t[p] ELSE Vector(t[p])]

\* to_hdc starts from an empty node: without items it stays one.
FromFlatBuffers(d) ==
    [p \in DOMAIN d |-> IF Inner(d[p]) /\ d[p].names = <<>> THEN EmptyNode ELSE d[p]]

-----------------------------------------------------------------------------
(* Files.                                                                  *)

Formats == {"json", "hdf5", "flatbuffers"}

Written(f, t) ==
    IF f = "json" THEN ToJson(t) ELSE IF f = "hdf5" THEN ToHdf5(t) ELSE ToFlatBuffers(t)
ReadBack(f, c) ==
    IF f = "json" THEN FromJson(c) ELSE IF f = "hdf5" THEN FromHdf5(c) ELSE FromFlatBuffers(c)
Trip(f, t) ==
    LET c == Written(f, t)
    IN  IF Failed(t) \/ Failed(c) THEN Failure ELSE ReadBack(f, c)

\* HDC::save.  JSON and HDF5 files are truncated first, a flatbuffer is complete
\* before its file is opened.
Save(f) ==
    LET c == Written(f, tree)
    IN  /\ \A p \in DOMAIN tree : Len(p) < MaxDepth
        /\ bucket = <<>> /\ queue = {}   \* bound: files or the bucket
        /\ failed' = Failed(c)
        /\ file' = IF Failed(c) /\ f = "flatbuffers" THEN file
                   ELSE [format |-> f, content |-> c, origin |-> tree]
        /\ UNCHANGED <<tree, bucket, queue, listed, back>>

\* HDC::load.  What a write that failed left is not read.
Load(f) ==
    /\ file.format = f
    /\ ~Failed(file.content)
    /\ LET t == ReadBack(f, file.content)
       IN  /\ failed' = Failed(t)
           /\ back' = t
           /\ tree' = IF Failed(t) THEN tree ELSE t
    /\ UNCHANGED <<file, bucket, queue, listed>>

-----------------------------------------------------------------------------
(* The bucket: one object for each leaf.                                   *)

\* S3Serializer::write_node puts the leaves of one child after those of another.
LeafPaths(t) == {p \in DOMAIN t : ~Inner(t[p])}
PutEarlier(t, p, q) ==
    \E d \in DOMAIN p \cap DOMAIN q :
        LET parent == SubSeq(p, 1, d - 1)
            names == t[parent].names
        IN  /\ parent = SubSeq(q, 1, d - 1)
            /\ \E a, b \in DOMAIN names : a < b /\ names[a] = p[d] /\ names[b] = q[d]

\* The names of a bucket are listed in the order of their characters: item 10 comes
\* before item 2.
Decimal(i) == IF i < 10 THEN 100 * i ELSE 100 * (i \div 10) + 1 + (i % 10)
NameOrder(c) == IF c < 0 THEN Decimal(ListItem(c)) ELSE c
Before(p, q) ==
    \/ IsPrefix(p, q) /\ p # q
    \/ \E d \in DOMAIN p \cap DOMAIN q :
          SubSeq(p, 1, d - 1) = SubSeq(q, 1, d - 1) /\ NameOrder(p[d]) < NameOrder(q[d])

\* A name of an item is a key to add_child like any other, which no key of the trees is.
AsKey(c) == IF c < 0 THEN 1000 - c ELSE c
\* Mutant: a node on the way is made again.
HasKeyNever(names, key) == FALSE
HasKey(names, key) == \E i \in DOMAIN names : names[i] = key

\* add_child: missing nodes on the way are made, and the node if there is none yet.
AddChild(t, path, node) ==
    LET keys == [d \in DOMAIN path |-> AsKey(path[d])]
        way == {SubSeq(keys, 1, d) : d \in 0..(Len(path) - 1)}
        names(p) == IF p \in DOMAIN t THEN t[p].names ELSE <<>>
        key(p) == keys[Len(p) + 1]
        made == IF keys \in DOMAIN t THEN {} ELSE {keys \o q : q \in DOMAIN node}
    IN  IF \E p \in way \cap DOMAIN t : t[p].type \notin {"EMPTY", "STRUCT"} THEN Failure
        ELSE [p \in DOMAIN t \cup way \cup made |->
                IF p \in way
                THEN StructNode(IF HasKey(names(p), key(p)) THEN names(p)
                                ELSE Append(names(p), key(p)))
                ELSE IF p \in DOMAIN t THEN t[p] ELSE node[Rest(keys, p)]]

\* The items of a list, with a gap before the index filled with empty nodes.
Padded(t, i) ==
    LET names == t[<<>>].names
    IN  [k \in 1..(IF i > Len(names) THEN i ELSE Len(names)) |->
            IF k <= Len(names) THEN Below(t, <<names[k]>>) ELSE Empty]

\* Mutant: the node goes before the item with the index before.
InsertEarly(t, i, node) ==
    IF t[<<>>].type \notin {"EMPTY", "LIST"} THEN Failure
    ELSE List(InsertAt(Padded(t, i), IF i = 0 THEN 1 ELSE i, node))

\* insert.
Insert(t, i, node) ==
    IF t[<<>>].type \notin {"EMPTY", "LIST"} THEN Failure
    ELSE List(InsertAt(Padded(t, i), i + 1, node))

\* get_or_create on the list and insert in it.
InsertIn(t, path, i, node) ==
    LET made == AddChild(t, path, Empty)
        keys == [d \in DOMAIN path |-> AsKey(path[d])]
        list == Insert(Below(made, keys), i, node)
    IN  IF Failed(made) \/ Failed(list) THEN Failure ELSE Replace(made, keys, list)

\* read_node: an object whose last name is that of an item is inserted.
Placed(t, path, node) ==
    IF Failed(t) \/ Failed(node) \/ path = <<>> THEN Failure
    ELSE IF Last(path) < 0 THEN InsertIn(t, Front(path), ListItem(Last(path)), node)
    ELSE AddChild(t, path, node)

\* S3Serializer::serialize.
Upload ==
    /\ queue = {}
    /\ file = None   \* bound: files or the bucket
    /\ tree \in Uploads
    /\ queue' = LeafPaths(tree)
    /\ failed' = FALSE
    /\ UNCHANGED <<tree, file, bucket, listed, back>>

\* One leaf is put, or the call throws and what was put stays.
Put(path) ==
    /\ \A p \in queue : ~PutEarlier(tree, p, path)
    /\ LET j == ToJson(Alone(tree[path]))
           throws == Untransposable(tree[path]) \/ Failed(j)
       IN  /\ failed' = throws
           /\ queue' = IF throws THEN {} ELSE queue \ {path}
           /\ bucket' = IF throws THEN bucket
                        ELSE [p \in DOMAIN bucket \cup {path} |-> IF p = path THEN j ELSE bucket[p]]
    /\ UNCHANGED <<tree, file, listed, back>>

PutFails ==
    /\ queue # {}
    /\ queue' = {}
    /\ failed' = TRUE
    /\ UNCHANGED <<tree, file, bucket, listed, back>>

\* S3Serializer::read: the names are listed, then the objects are read one by one,
\* whatever another client puts meanwhile.
ListBucket ==
    /\ listed = {}
    /\ DOMAIN bucket # {}
    /\ listed' = DOMAIN bucket
    /\ back' = Empty
    /\ failed' = FALSE
    /\ UNCHANGED <<tree, file, bucket, queue>>

GetObject(path) ==
    /\ \A p \in listed : ~Before(p, path)
    /\ LET t == Placed(back, path, FromJson(bucket[path]))
       IN  /\ back' = t
           /\ failed' = Failed(t)
           /\ listed' = IF Failed(t) THEN {} ELSE listed \ {path}
    /\ UNCHANGED <<tree, file, bucket, queue>>

\* The list, or one of the objects, is not delivered: read() throws, and what it has
\* read is lost.
ReadFails ==
    /\ DOMAIN bucket # {}
    /\ listed' = {}
    /\ back' = Failure
    /\ failed' = TRUE
    /\ UNCHANGED <<tree, file, bucket, queue>>

\* The program works on another tree.
Make ==
    /\ file = None
    /\ queue = {}
    /\ tree' \in Uploads
    /\ UNCHANGED <<file, bucket, queue, listed, back, failed>>

Init ==
    /\ tree \in Trees \cup Uploads
    /\ file = None
    /\ bucket = <<>>
    /\ queue = {}
    /\ listed = {}
    /\ back = Empty
    /\ failed = FALSE

Next ==
    \/ \E f \in Formats: Save(f) \/ Load(f)
    \/ Upload \/ (\E path \in queue : Put(path)) \/ PutFails
    \/ ListBucket \/ (\E path \in listed : GetObject(path)) \/ ReadFails
    \/ Make

Spec == Init /\ [][Next]_vars
-----------------------------------------------------------------------------
(* Properties.                                                             *)

\* What a tree says, whatever nodes it is made of: the value at each path, the
\* indexes of arrays and of lists alike.  A missing value says nothing.
LeavesAt(p, u) ==
    {[path |-> p \o ItemPath(i), text |-> u.type = "STRING", value |-> At(u, i)] :
        i \in {x \in Indices(u.shape) : At(u, x) # NaN}}
Leaves(t) == UNION {LeavesAt(p, t[p]) : p \in {q \in LeafPaths(t) : t[q].type # "EMPTY"}}

\* What a tree says below a node of another one.
Shifted(p, leaves) ==
    {[path |-> p \o l.path, text |-> l.text, value |-> l.value] : l \in leaves}

\* The arrays that lie in the nodes of a tree.
Arrays(t) ==
    {<<p, t[p].shape, t[p].elems>> :
        p \in {q \in LeafPaths(t) : t[q].type # "EMPTY" /\ ~t[q].external}}

Elements(u) == {u.elems[i] : i \in DOMAIN u.elems}

\* Lists that JSON cannot tell from an array: all numbers, or all booleans.
Uniform(types, t, p) ==
    \A q \in DOMAIN t : IsPrefix(p, q) /\ t[q].type # "LIST" =>
        t[q].type \in types /\ NaN \notin Elements(t[q]) /\ t[q].elems # <<>>
Extents(t, p) == ItemCounts(t, p, "LIST") \o t[Innermost(t, p)].shape
Rectangular(t, p) ==
    /\ Len(Extents(t, p)) <= MaxRank
    /\ \A q \in DOMAIN t : IsPrefix(p, q) /\ t[q].type = "LIST" =>
          \A i, j \in DOMAIN t[q].names :
            Extents(t, Append(q, t[q].names[i])) = Extents(t, Append(q, t[q].names[j]))
FitsInt(u) ==
    \A n \in Elements(u) \ {NaN}:
        n > 2 * IntMax => \/ u.type = "STRING"
                          \/ u.type \in Reals /\ (n % 2 # 0 \/ n > 2 * LargestMax)

\* What each format can hold.  JSON: integers of 32 bits, ranks up to MaxRank, and
\* numbers in lists of lists only if these are rectangular.  The others: arrays in C
\* order, unless the order does not matter, and none that is external.
Holds(f, t) ==
    \A p \in DOMAIN t :
        IF f = "json"
        THEN /\ Len(t[p].shape) <= MaxRank /\ FitsInt(t[p])
             /\ t[p].type = "LIST" /\ (Uniform(Ints \cup Reals, t, p) \/ Uniform({"BOOL"}, t, p))
                  => Rectangular(t, p)
        ELSE ~t[p].external /\ (t[p].order = "F" => Len(t[p].shape) = 1)

\* Every node is one the library can hold: an array has as many elements as its shape
\* says (bound: an external one is in C order), the names of the children differ, and a
\* node is there if and only if its parent names it.
NodeOK(u) ==
    /\ u.type \in {"EMPTY", "STRUCT", "LIST", "STRING", "BOOL"} \cup Ints \cup Reals
    /\ u.order \in {"C", "F"} /\ u.shape \in Seq(Nat) /\ u.elems \in Seq(Int \cup {NaN})
    /\ u.type = "EMPTY" => u = EmptyNode
    /\ u.type = "STRUCT" => u = StructNode(u.names) /\ u.names \in Seq(Nat)
    /\ u.type = "LIST" => u = ListNode(Len(u.names))
    /\ ~Inner(u) => u.names = <<>>
    /\ ~Inner(u) /\ u.type # "EMPTY" => Len(u.elems) = Product(u.shape)
    /\ u.type = "STRING" => u.shape = <<>>
    /\ u.type = "BOOL" => Elements(u) \subseteq {0, 2}
    /\ u.external \in BOOLEAN /\ (u.external => u.type # "STRING" /\ u.order = "C")
    /\ u.names \in Seq(Int) /\ IsInjective(u.names)
Linked(t) ==
    /\ <<>> \in DOMAIN t
    /\ \A p \in DOMAIN t :
        /\ p \in Seq(Int)
        /\ p # <<>> => Front(p) \in DOMAIN t /\ Last(p) \in Range(t[Front(p)].names)
        /\ \A i \in DOMAIN t[p].names : Append(p, t[p].names[i]) \in DOMAIN t
Wellformed(t) == Linked(t) /\ \A p \in DOMAIN t : NodeOK(t[p])

\* The program makes its trees with the library.
ASSUME TreesAssumption ==
    \A t \in Trees \cup Uploads : Wellformed(t) /\ \A p \in DOMAIN t : Len(p) <= MaxDepth

TypeOK ==
    /\ Wellformed(tree) /\ Wellformed(file.origin)
    /\ file.format \in Formats \cup {"none"}
    /\ Failed(back) \/ Wellformed(back)
    /\ failed \in BOOLEAN

\* A tree that a format can hold comes back from a file of that format with the same
\* value at every path, and neither call throws: save and load of each serializer.
KeepsLeaves ==
    [][\A f \in Formats:
         /\ Save(f) /\ Holds(f, tree) => ~failed'
         /\ Load(f) /\ Holds(f, file.origin) =>
              ~failed' /\ Leaves(tree') = Leaves(file.origin)]_vars

\* HDF5 and flatbuffers give every array that lies in its node back with its extents
\* and with its bytes in the same places, whatever its order was: transpose_buffer moves
\* none of them.  An external array is lost: its memory is not what is written.
KeepsBytes ==
    [][\A f \in {"hdf5", "flatbuffers"}:
         Load(f) => Arrays(file.origin) \subseteq Arrays(tree')]_vars

\* What was read is what will be read again: a format may turn nodes into others the
\* first two times a tree is written and read, and never after that.
Settles ==
    \A f \in Formats:
        LET once == Trip(f, tree)
            twice == Trip(f, once)
        IN  ~Failed(once) /\ ~Failed(twice) => Trip(f, twice) = twice

\* Names that S3Serializer::read can put together again: only a leaf is an item, of
\* at most ten, and no node is both a leaf and an inner one, or a list and a struct.
Plain(paths) ==
    \A p \in paths:
        /\ p # <<>>
        /\ \A d \in DOMAIN p: p[d] < 0 => d = Len(p) /\ p[d] >= ListItem(9)
        /\ \A q \in paths: p # q =>
             /\ ~IsPrefix(p, q)
             /\ IsPrefix(Front(p), q) => (Last(p) < 0) = (q[Len(p)] < 0)

\* Each object that is read adds its own values to the tree and disturbs none that
\* are there, whatever was put, or left over, since the names were listed.
ReadsBucket ==
    [][\A path \in listed :
         GetObject(path) /\ Plain(DOMAIN bucket) =>
           LET node == FromJson(bucket[path])
           IN  ~Failed(node) =>
                 /\ ~failed'
                 /\ Leaves(back') = Leaves(back) \cup Shifted(path, Leaves(node))]_vars
=============================================================================
