------------------------ MODULE HDCSerializers_proofs ------------------------
(***************************************************************************)
(* Proofs about the serializers, for every set of trees of any depth, and  *)
(* every limit on integers and ranks.                                      *)
(*                                                                         *)
(* The inductive invariant Consistent says what the file and the bucket    *)
(* hold: what was written, of a tree that is at hand.  The rest is about   *)
(* what comes back.  Settles: JSON changes a node that was read once into  *)
(* JsonAgain of it, and HDF5 and flatbuffers change each node by itself.   *)
(* KeepsLeaves: the leaves of a document are those of the tree it was      *)
(* written of and of the tree that is read; the hard case is a list of     *)
(* lists of arrays that is read as one array, which is a Box.              *)
(* ReadsBucket: Reading says that each object that is listed and not read  *)
(* yet has its place in the tree that is read (Open).                      *)
(***************************************************************************)
EXTENDS HDCSerializers_lemmas

-----------------------------------------------------------------------------
(* Consistent states.                                                      *)

Shallow(t) == \E depth \in Nat : Within(t, depth)

\* What is in a file is what its writer makes of a tree, and what is in the bucket
\* what it makes of a leaf.
FileMade ==
    \/ file = None
    \/ /\ file.format \in Formats
       /\ Wellformed(file.origin) /\ Within(file.origin, MaxDepth)
       /\ file.content = Written(file.format, file.origin)
BucketMade ==
    /\ DOMAIN bucket \subseteq Paths
    /\ \A path \in DOMAIN bucket :
        /\ ~Failed(bucket[path])
        /\ \E t \in Uploads : \E p \in LeafPaths(t) : bucket[path] = ToJson(Alone(t[p]))
Consistent ==
    /\ Wellformed(tree) /\ Shallow(tree)
    /\ FileMade
    /\ BucketMade
    /\ queue \subseteq LeafPaths(tree)
    /\ queue # {} => file = None /\ tree \in Uploads
    /\ listed \subseteq DOMAIN bucket
    /\ Failed(back) \/ Wellformed(back)
    /\ failed \in BOOLEAN

\* The trees of the program are trees of the library.
LEMMA TreesOK ==
    ASSUME NEW t \in Trees \cup Uploads
    PROVE  Wellformed(t) /\ Shallow(t)
BY TreesAssumption, SerializersAssumption DEF Shallow, Within

\* A leaf of one of them is a node without children.
LEMMA LeafOK ==
    ASSUME NEW t \in Uploads, NEW p \in LeafPaths(t)
    PROVE  p \in Paths /\ NodeOK(t[p]) /\ ~Inner(t[p])
BY TreesOK, TreePaths DEF LeafPaths, Paths

\* An object of the bucket is a document, and what is read from it a tree.
LEMMA ObjectOK ==
    ASSUME BucketMade, NEW path \in DOMAIN bucket
    PROVE  /\ Document(bucket[path]) /\ Within(bucket[path], MaxRank) /\ MaxRank \in Nat
           /\ Failed(FromJson(bucket[path])) \/ Wellformed(FromJson(bucket[path]))
<1>1. /\ ~Failed(bucket[path])
      /\ \E t \in Uploads : \E p \in LeafPaths(t) : bucket[path] = ToJson(Alone(t[p]))
    BY DEF BucketMade
<1>2. PICK t \in Uploads : \E p \in LeafPaths(t) : bucket[path] = ToJson(Alone(t[p]))
    BY <1>1
<1>3. PICK p \in LeafPaths(t) : bucket[path] = ToJson(Alone(t[p]))
    BY <1>2
<1> DEFINE u == t[p]
           j == bucket[path]
<1>4. Wellformed(Alone(u)) /\ Within(Alone(u), 0) /\ j = ToJson(Alone(u)) /\ ~Failed(j)
    BY <1>1, <1>3, LeafOK, AloneOK
<1> HIDE DEF u, j
<1>5. Document(j) /\ Within(j, 0 + MaxRank)
    BY <1>4, ToJsonOK, ToJsonWithin
<1>6. MaxRank \in Nat /\ 0 + MaxRank = MaxRank
    BY SerializersAssumption
<1>7. Failed(FromJson(j)) \/ Wellformed(FromJson(j))
    BY <1>5, <1>6, FromJsonOK
<1> QED
    BY <1>5, <1>6, <1>7 DEF j

\* No file has no format.
LEMMA NoneIs == None.format = "none" /\ None.origin = Empty /\ None.format \notin Formats
BY DEF None, Formats

\* The program starts consistently.
LEMMA InitConsistent == Init => Consistent
<1> SUFFICES ASSUME Init PROVE Consistent
    OBVIOUS
<1>1. Wellformed(tree) /\ Shallow(tree) /\ Wellformed(Empty)
    BY TreesOK, EmptyOK DEF Init
<1>2. bucket = <<>> /\ DOMAIN bucket = {}
    BY DEF Init
<1> QED
    BY <1>1, <1>2 DEF Init, Consistent, FileMade, BucketMade

\* HDC::save: the file holds what was written.
LEMMA SaveConsistent ==
    ASSUME Consistent, NEW f \in Formats, Save(f)
    PROVE  Consistent'
<1> DEFINE c == Written(f, tree)
<1>1. /\ \A p \in DOMAIN tree : Len(p) < MaxDepth
      /\ queue = {} /\ failed' = Failed(c)
      /\ file' = IF Failed(c) /\ f = "flatbuffers" THEN file
                 ELSE [format |-> f, content |-> c, origin |-> tree]
      /\ UNCHANGED <<tree, bucket, queue, listed, back>>
    BY DEF Save
<1> HIDE DEF c
<1>2. Within(tree, MaxDepth)
    <2>1. \A p \in DOMAIN tree : Len(p) \in Nat
        <3>1. DOMAIN tree \subseteq Seq(Int)
            BY TreePaths DEF Consistent
        <3> QED
            BY <3>1, LenProperties
    <2> QED
        BY <1>1, <2>1, SerializersAssumption DEF Within
<1>3. FileMade'
    <2>1. CASE file' = file
        BY <2>1 DEF Consistent, FileMade
    <2>2. CASE file' = [format |-> f, content |-> c, origin |-> tree]
        BY <1>2, <2>2 DEF Consistent, FileMade, c
    <2> QED
        BY <1>1, <2>1, <2>2
<1>4. failed' \in BOOLEAN
    BY <1>1 DEF Failed
<1> QED
    BY <1>1, <1>3, <1>4 DEF Consistent, BucketMade

\* HDC::load reads what was written of the tree the file was made of.
LEMMA LoadRead ==
    ASSUME Consistent, NEW f \in Formats, Load(f)
    PROVE  LET t == ReadBack(f, Written(f, file.origin))
           IN  /\ file.format = f /\ Wellformed(file.origin) /\ Within(file.origin, MaxDepth)
               /\ ~Failed(Written(f, file.origin)) /\ failed' = Failed(t) /\ back' = t
               /\ ~Failed(t) => tree' = t /\ Wellformed(t) /\ Shallow(t)
               /\ Failed(t) => tree' = tree
               /\ file # None
<1>1. /\ file.format = f /\ ~Failed(file.content)
      /\ failed' = Failed(ReadBack(f, file.content)) /\ back' = ReadBack(f, file.content)
      /\ tree' = IF Failed(ReadBack(f, file.content)) THEN tree ELSE ReadBack(f, file.content)
    BY DEF Load
<1>2. /\ file # None /\ Wellformed(file.origin) /\ Within(file.origin, MaxDepth)
      /\ file.content = Written(f, file.origin)
    BY <1>1, NoneIs DEF Consistent, FileMade
<1>3. MaxDepth \in Nat
    BY SerializersAssumption
<1> DEFINE t == ReadBack(f, Written(f, file.origin))
<1>4. ~Failed(t) => Wellformed(t) /\ Within(t, MaxDepth + MaxRank) /\ MaxDepth + MaxRank \in Nat
    BY <1>1, <1>2, <1>3, ReadBackOK
<1> HIDE DEF t
<1>5. ~Failed(t) => Wellformed(t) /\ Shallow(t)
    BY <1>4 DEF Shallow
<1> QED
    BY <1>1, <1>2, <1>5 DEF t

\* HDC::load: the tree is one of the library again, and of some depth.
LEMMA LoadConsistent ==
    ASSUME Consistent, NEW f \in Formats, Load(f)
    PROVE  Consistent'
<1> DEFINE t == ReadBack(f, Written(f, file.origin))
<1>1. /\ failed' = Failed(t) /\ back' = t /\ file # None
      /\ ~Failed(t) => tree' = t /\ Wellformed(t) /\ Shallow(t)
      /\ Failed(t) => tree' = tree
    BY LoadRead
<1>2. UNCHANGED <<file, bucket, queue, listed>>
    BY DEF Load
<1> HIDE DEF t
<1>3. failed' \in BOOLEAN
    BY <1>1 DEF Failed
<1>4. Wellformed(tree') /\ Shallow(tree')
    BY <1>1 DEF Consistent
<1>5. queue' = {}
    BY <1>1, <1>2 DEF Consistent
<1> QED
    BY <1>1, <1>2, <1>3, <1>4, <1>5 DEF Consistent, FileMade, BucketMade

\* An object that is put is the document of a leaf.
LEMMA PutConsistent ==
    ASSUME Consistent, NEW path \in queue, Put(path)
    PROVE  Consistent'
<1> DEFINE j == ToJson(Alone(tree[path]))
           throws == Untransposable(tree[path]) \/ Failed(j)
<1>1. /\ failed' = throws /\ throws \in BOOLEAN
      /\ queue' = IF throws THEN {} ELSE queue \ {path}
      /\ bucket' = IF throws THEN bucket
                   ELSE [p \in DOMAIN bucket \cup {path} |-> IF p = path THEN j ELSE bucket[p]]
      /\ UNCHANGED <<tree, file, listed, back>>
    BY DEF Put, Failed, Untransposable
<1>2. ~throws => ~Failed(j)
    OBVIOUS
<1>3. tree \in Uploads /\ path \in LeafPaths(tree) /\ path \in Paths
    BY LeafOK DEF Consistent
<1>4. \E t \in Uploads : \E p \in LeafPaths(t) : j = ToJson(Alone(t[p]))
    BY <1>3
<1> HIDE DEF j, throws
<1>5. BucketMade' /\ DOMAIN bucket \subseteq DOMAIN bucket'
    <2>1. CASE throws
        BY <1>1, <2>1 DEF Consistent, BucketMade
    <2>2. CASE ~throws
        <3>1. /\ DOMAIN bucket' = DOMAIN bucket \cup {path} /\ bucket'[path] = j
              /\ \A p \in DOMAIN bucket : p # path => bucket'[p] = bucket[p]
            BY <1>1, <2>2
        <3>2. DOMAIN bucket' \subseteq Paths
            BY <1>3, <3>1 DEF Consistent, BucketMade
        <3>3. ASSUME NEW p \in DOMAIN bucket'
              PROVE  /\ ~Failed(bucket'[p])
                     /\ \E t \in Uploads : \E q \in LeafPaths(t) : bucket'[p] = ToJson(Alone(t[q]))
            <4>1. CASE p = path
                BY <1>2, <1>4, <2>2, <3>1, <4>1
            <4>2. CASE p # path
                BY <3>1, <4>2 DEF Consistent, BucketMade
            <4> QED
                BY <4>1, <4>2
        <3> QED
            BY <3>1, <3>2, <3>3 DEF BucketMade
    <2> QED
        BY <2>1, <2>2
<1> QED
    BY <1>1, <1>5 DEF Consistent, FileMade

\* An object that is read gives a tree again or a failure.
LEMMA GetObjectConsistent ==
    ASSUME Consistent, NEW path \in listed, GetObject(path)
    PROVE  Consistent'
<1> DEFINE node == FromJson(bucket[path])
           t == Placed(back, path, node)
<1>1. /\ back' = t /\ failed' = Failed(t)
      /\ listed' = IF Failed(t) THEN {} ELSE listed \ {path}
      /\ UNCHANGED <<tree, file, bucket, queue>>
    BY DEF GetObject
<1>2. path \in DOMAIN bucket /\ path \in Paths
    BY DEF Consistent, BucketMade
<1>3. Failed(node) \/ Wellformed(node)
    BY <1>2, ObjectOK DEF Consistent
<1> HIDE DEF node
<1>4. Failed(t) \/ Wellformed(t)
    BY <1>2, <1>3, PlacedOK DEF Consistent
<1> HIDE DEF t
<1>5. failed' \in BOOLEAN
    BY <1>1 DEF Failed
<1> QED
    BY <1>1, <1>4, <1>5 DEF Consistent, FileMade, BucketMade

\* Every step keeps the states consistent.
LEMMA NextConsistent ==
    ASSUME Consistent, [Next]_vars
    PROVE  Consistent'
<1>1. ASSUME NEW f \in Formats, Save(f) PROVE Consistent'
    BY <1>1, SaveConsistent
<1>2. ASSUME NEW f \in Formats, Load(f) PROVE Consistent'
    BY <1>2, LoadConsistent
<1>3. CASE Upload
    <2>1. queue' = LeafPaths(tree) /\ UNCHANGED <<tree, file, bucket, listed, back>>
          /\ file = None /\ tree \in Uploads /\ failed' = FALSE
        BY <1>3 DEF Upload
    <2> QED
        BY <2>1 DEF Consistent, FileMade, BucketMade
<1>4. ASSUME NEW path \in queue, Put(path) PROVE Consistent'
    BY <1>4, PutConsistent
<1>5. CASE PutFails
    BY <1>5 DEF PutFails, Consistent, FileMade, BucketMade
<1>6. CASE ListBucket
    BY <1>6, EmptyOK DEF ListBucket, Consistent, FileMade, BucketMade
<1>7. ASSUME NEW path \in listed, GetObject(path) PROVE Consistent'
    BY <1>7, GetObjectConsistent
<1>8. CASE ReadFails
    <2>1. listed' = {} /\ back' = Failure /\ failed' = TRUE /\ UNCHANGED <<tree, file, bucket, queue>>
        BY <1>8 DEF ReadFails
    <2>2. Failed(back')
        BY <2>1 DEF Failed
    <2> QED
        BY <2>1, <2>2 DEF Consistent, FileMade, BucketMade
<1>9. CASE Make
    <2>1. Wellformed(tree') /\ Shallow(tree') /\ queue' = {}
        BY <1>9, TreesOK DEF Make
    <2> QED
        BY <1>9, <2>1 DEF Make, Consistent, FileMade, BucketMade
<1>10. CASE UNCHANGED vars
    BY <1>10 DEF vars, Consistent, FileMade, BucketMade
<1> QED
    BY <1>1, <1>2, <1>3, <1>4, <1>5, <1>6, <1>7, <1>8, <1>9, <1>10 DEF Next

\* All states are consistent.
LEMMA AlwaysConsistent == Spec => []Consistent
BY InitConsistent, NextConsistent, PTL DEF Spec

\* Consistent states are of their types.
LEMMA ConsistentType == Consistent => TypeOK
<1> SUFFICES ASSUME Consistent PROVE TypeOK
    OBVIOUS
<1>1. Wellformed(file.origin) /\ file.format \in Formats \cup {"none"}
    BY NoneIs, EmptyOK DEF Consistent, FileMade
<1> QED
    BY <1>1 DEF TypeOK, Consistent

\* Every tree in memory, in a file and read back is one the library can hold.
THEOREM TypeCorrect == Spec => []TypeOK
BY AlwaysConsistent, ConsistentType, PTL

-----------------------------------------------------------------------------
(* Bytes come back from HDF5 and flatbuffers.                              *)

\* Neither format changes the extents of an array, nor the bytes of one that lies in its node.
LEMMA SameBytes ==
    ASSUME NEW u, NodeOK(u), ~Inner(u), u.type # "EMPTY"
    PROVE  /\ Dataset(u).shape = u.shape /\ Vector(u).shape = u.shape
           /\ ~Inner(Dataset(u)) /\ Dataset(u).type # "EMPTY" /\ ~Dataset(u).external
           /\ ~Inner(Vector(u)) /\ Vector(u).type # "EMPTY" /\ ~Vector(u).external
           /\ ~u.external => Dataset(u).elems = u.elems /\ Vector(u).elems = u.elems
<1>1. ASSUME NEW type, NEW shape, NEW elems
      PROVE  /\ Array(type, shape, elems).type = type /\ Array(type, shape, elems).shape = shape
             /\ Array(type, shape, elems).elems = elems
    BY DEF Array, Node
<1>2. /\ Dataset(u) = IF u.type = "BOOL" THEN Array("UINT8", u.shape, Bytes(u))
                      ELSE Array(u.type, u.shape, Bytes(u))
      /\ Vector(u) = Array(u.type, u.shape, Bytes(u))
    BY DEF Dataset, Vector
<1>3. Vector(u).type = u.type /\ Dataset(u).type \in {u.type, "UINT8"}
    BY <1>1, <1>2
<1>4. ~Inner(Dataset(u)) /\ Dataset(u).type # "EMPTY" /\ ~Inner(Vector(u)) /\ Vector(u).type # "EMPTY"
    BY <1>3 DEF Inner
<1>5. ~u.external => Bytes(u) = u.elems
    BY BytesAre DEF DataNode
<1>6. ~Dataset(u).external /\ ~Vector(u).external
    BY DatasetOK, VectorOK
<1> QED
    BY <1>1, <1>2, <1>4, <1>5, <1>6

\* What comes back from a file of HDF5 or of flatbuffers, node by node.
LEMMA TripHdf5 ==
    ASSUME NEW t, Wellformed(t), ~Failed(ToHdf5(t))
    PROVE  LET r == FromHdf5(ToHdf5(t))
           IN  /\ Wellformed(r) /\ ~Failed(r) /\ DOMAIN r = DOMAIN t
               /\ \A p \in DOMAIN t :
                    r[p] = IF t[p].type = "STRUCT"
                           THEN IF Sorted(t[p].names) = <<>> THEN EmptyNode ELSE StructNode(Sorted(t[p].names))
                           ELSE IF t[p].type = "LIST" THEN t[p]
                           ELSE Dataset(t[p])
<1> DEFINE d == ToHdf5(t)
           r == FromHdf5(d)
<1>1. /\ Wellformed(d) /\ DOMAIN d = DOMAIN t
      /\ \A p \in DOMAIN t : d[p] = IF t[p].type = "STRUCT" THEN StructNode(Sorted(t[p].names))
                                    ELSE IF t[p].type = "LIST" THEN t[p]
                                    ELSE Dataset(t[p])
    BY ToHdf5OK
<1> HIDE DEF d
<1>2. /\ Wellformed(r) /\ DOMAIN r = DOMAIN d
      /\ \A p \in DOMAIN d : r[p] = IF d[p].type = "STRUCT" /\ d[p].names = <<>> THEN EmptyNode ELSE d[p]
    BY <1>1, FromHdf5OK
<1>3. ~Failed(r)
    BY <1>2, NodesNotFailed
<1>4. ASSUME NEW p \in DOMAIN t
      PROVE  r[p] = IF t[p].type = "STRUCT"
                    THEN IF Sorted(t[p].names) = <<>> THEN EmptyNode ELSE StructNode(Sorted(t[p].names))
                    ELSE IF t[p].type = "LIST" THEN t[p]
                    ELSE Dataset(t[p])
    <2>1. NodeOK(t[p]) /\ p \in DOMAIN d
        BY <1>1, TreePaths
    <2>2. CASE t[p].type = "STRUCT"
        <3>1. t[p].names \in Seq(Nat) /\ IsInjective(t[p].names)
            BY <2>1, <2>2 DEF NodeOK
        <3>2. Sorted(t[p].names) \in Seq(Nat) /\ IsInjective(Sorted(t[p].names))
            BY <3>1, SortedKeys
        <3>3. /\ StructNode(Sorted(t[p].names)).type = "STRUCT"
              /\ StructNode(Sorted(t[p].names)).names = Sorted(t[p].names)
            BY <3>2, StructNodeOK
        <3> QED
            BY <1>1, <1>2, <2>1, <2>2, <3>3
    <2>3. CASE t[p].type = "LIST"
        BY <1>1, <1>2, <2>1, <2>3
    <2>4. CASE t[p].type \notin {"STRUCT", "LIST"}
        <3>1. ~Inner(t[p])
            BY <2>4 DEF Inner
        <3>2. DataNode(Dataset(t[p]))
            BY <2>1, <3>1, DatasetOK
        <3>3. Dataset(t[p]).type # "STRUCT"
            BY <3>2 DEF DataNode, Inner
        <3> QED
            BY <1>1, <1>2, <2>1, <2>4, <3>3
    <2> QED
        BY <2>2, <2>3, <2>4
<1> QED
    BY <1>1, <1>2, <1>3, <1>4 DEF d

\* What comes back from a flatbuffer, node by node.
LEMMA TripFlatBuffers ==
    ASSUME NEW t, Wellformed(t), ~Failed(ToFlatBuffers(t))
    PROVE  LET r == FromFlatBuffers(ToFlatBuffers(t))
           IN  /\ Wellformed(r) /\ ~Failed(r) /\ DOMAIN r = DOMAIN t
               /\ \A p \in DOMAIN t :
                    r[p] = IF Inner(t[p]) THEN IF t[p].names = <<>> THEN EmptyNode ELSE t[p]
                           ELSE Vector(t[p])
<1> DEFINE d == ToFlatBuffers(t)
           r == FromFlatBuffers(d)
<1>1. /\ Wellformed(d) /\ DOMAIN d = DOMAIN t
      /\ \A p \in DOMAIN t : d[p] = IF Inner(t[p]) THEN t[p] ELSE Vector(t[p])
    BY ToFlatBuffersOK
<1> HIDE DEF d
<1>2. /\ Wellformed(r) /\ DOMAIN r = DOMAIN d
      /\ \A p \in DOMAIN d : r[p] = IF Inner(d[p]) /\ d[p].names = <<>> THEN EmptyNode ELSE d[p]
    BY <1>1, FromFlatBuffersOK
<1>3. ~Failed(r)
    BY <1>2, NodesNotFailed
<1>4. ASSUME NEW p \in DOMAIN t, ~Inner(t[p]) PROVE ~Inner(Vector(t[p]))
    BY <1>4, TreePaths, VectorOK
<1> QED
    BY <1>1, <1>2, <1>3, <1>4 DEF d

\* The arrays that lie in the nodes of a tree come back from both formats as they were.
LEMMA BytesBack ==
    ASSUME NEW f \in {"hdf5", "flatbuffers"}, NEW t, Wellformed(t), ~Failed(Written(f, t))
    PROVE  LET r == ReadBack(f, Written(f, t))
           IN  ~Failed(r) /\ Arrays(t) \subseteq Arrays(r)
<1> DEFINE r == ReadBack(f, Written(f, t))
<1>1. ASSUME NEW p \in LeafPaths(t), t[p].type # "EMPTY", ~t[p].external
      PROVE  /\ ~Failed(r) /\ p \in LeafPaths(r) /\ r[p].type # "EMPTY" /\ ~r[p].external
             /\ r[p].shape = t[p].shape /\ r[p].elems = t[p].elems
    <2>1. p \in DOMAIN t /\ NodeOK(t[p]) /\ ~Inner(t[p])
        BY TreePaths DEF LeafPaths
    <2>2. CASE f = "hdf5"
        <3>1. r = FromHdf5(ToHdf5(t)) /\ ~Failed(ToHdf5(t))
            BY <2>2 DEF ReadBack, Written
        <3> HIDE DEF r
        <3>2. t[p].type \notin {"STRUCT", "LIST"}
            BY <2>1 DEF Inner
        <3>3. ~Failed(r) /\ p \in DOMAIN r /\ r[p] = Dataset(t[p])
            BY <2>1, <3>1, <3>2, TripHdf5
        <3> QED
            BY <1>1, <2>1, <3>3, SameBytes DEF LeafPaths
    <2>3. CASE f = "flatbuffers"
        <3>1. r = FromFlatBuffers(ToFlatBuffers(t)) /\ ~Failed(ToFlatBuffers(t))
            BY <2>3 DEF ReadBack, Written
        <3> HIDE DEF r
        <3>2. ~Failed(r) /\ p \in DOMAIN r /\ r[p] = Vector(t[p])
            BY <2>1, <3>1, TripFlatBuffers
        <3> QED
            BY <1>1, <2>1, <3>2, SameBytes DEF LeafPaths
    <2> QED
        BY <2>2, <2>3
<1>2. ~Failed(r)
    <2>1. CASE f = "hdf5"
        BY <2>1, TripHdf5 DEF ReadBack, Written
    <2>2. CASE f = "flatbuffers"
        BY <2>2, TripFlatBuffers DEF ReadBack, Written
    <2> QED
        BY <2>1, <2>2
<1> HIDE DEF r
<1>3. Arrays(t) \subseteq Arrays(r)
    <2> SUFFICES ASSUME NEW p \in LeafPaths(t), t[p].type # "EMPTY", ~t[p].external
                 PROVE  <<p, t[p].shape, t[p].elems>> \in Arrays(r)
        BY DEF Arrays
    <2>1. p \in {q \in LeafPaths(r) : r[q].type # "EMPTY" /\ ~r[q].external}
        BY <1>1
    <2>2. <<p, r[p].shape, r[p].elems>> \in Arrays(r)
        BY <2>1 DEF Arrays
    <2> QED
        BY <1>1, <2>2
<1> QED
    BY <1>2, <1>3 DEF r

\* HDC::load gives back the arrays of the tree the file was made of.
LEMMA LoadKeepsBytes ==
    ASSUME Consistent, NEW f \in {"hdf5", "flatbuffers"}, Load(f)
    PROVE  Arrays(file.origin) \subseteq Arrays(tree')
<1> DEFINE t == ReadBack(f, Written(f, file.origin))
<1>1. f \in Formats
    BY DEF Formats
<1>2. /\ Wellformed(file.origin) /\ ~Failed(Written(f, file.origin))
      /\ ~Failed(t) => tree' = t
    BY <1>1, LoadRead
<1>3. ~Failed(t) /\ Arrays(file.origin) \subseteq Arrays(t)
    BY <1>2, BytesBack
<1> QED
    BY <1>2, <1>3

\* HDF5 and flatbuffers give every array that lies in its node back with its extents and
\* its bytes; of an external one they write its address and what is behind that.
THEOREM BytesCorrect == Spec => KeepsBytes
<1>1. Consistent /\ [Next]_vars =>
        [\A f \in {"hdf5", "flatbuffers"} : Load(f) => Arrays(file.origin) \subseteq Arrays(tree')]_vars
    BY LoadKeepsBytes
<1> QED
    BY <1>1, AlwaysConsistent, PTL DEF Spec, KeepsBytes

-----------------------------------------------------------------------------
(* Trees settle.                                                           *)

\* What a node becomes on its way through a file of HDF5, and of flatbuffers.
Hdf5Node(u) ==
    IF u.type = "STRUCT"
    THEN IF Sorted(u.names) = <<>> THEN EmptyNode ELSE StructNode(Sorted(u.names))
    ELSE IF u.type = "LIST" THEN u
    ELSE Dataset(u)
FlatBuffersNode(u) ==
    IF Inner(u) THEN IF u.names = <<>> THEN EmptyNode ELSE u ELSE Vector(u)

\* A tree that comes back was written and read.
LEMMA TripIs ==
    ASSUME NEW f \in Formats, NEW t, ~Failed(Trip(f, t))
    PROVE  ~Failed(t) /\ ~Failed(Written(f, t)) /\ Trip(f, t) = ReadBack(f, Written(f, t))
BY DEF Trip, Failed

\* The fields of an array.
LEMMA ArrayFields ==
    ASSUME NEW type, NEW shape, NEW elems
    PROVE  /\ Array(type, shape, elems).type = type /\ Array(type, shape, elems).shape = shape
           /\ Array(type, shape, elems).elems = elems /\ Array(type, shape, elems).order = "C"
           /\ Array(type, shape, elems).names = <<>> /\ ~Array(type, shape, elems).external
           /\ Bytes(Array(type, shape, elems)) = elems
BY DEF Array, Node, Bytes

\* HDF5 changes a node twice at most.
LEMMA Hdf5Twice ==
    ASSUME NEW u, NodeOK(u)
    PROVE  /\ Hdf5Node(Hdf5Node(Hdf5Node(u))) = Hdf5Node(Hdf5Node(u))
           /\ Hdf5Node(u).order = "C"
<1>0. EmptyNode.type = "EMPTY" /\ Dataset(EmptyNode) = Array("DOUBLE", <<1>>, <<NaN>>)
      /\ EmptyNode.order = "C"
    BY EmptyNodeOK, ArrayFields DEF Dataset, EmptyNode
<1>1. ASSUME NEW type, type \notin {"STRUCT", "LIST", "EMPTY", "BOOL"}, NEW shape, NEW elems
      PROVE  Hdf5Node(Array(type, shape, elems)) = Array(type, shape, elems)
    <2> DEFINE v == Array(type, shape, elems)
    <2>1. v.type = type /\ v.shape = shape /\ v.elems = elems /\ Bytes(v) = elems
        BY ArrayFields
    <2> HIDE DEF v
    <2>2. Hdf5Node(v) = Array(v.type, v.shape, v.elems)
        BY <1>1, <2>1 DEF Hdf5Node, Dataset
    <2> QED
        BY <2>1, <2>2 DEF v
<1>2. Hdf5Node(EmptyNode) = Array("DOUBLE", <<1>>, <<NaN>>)
    BY <1>0 DEF Hdf5Node
<1>3. Hdf5Node(Array("DOUBLE", <<1>>, <<NaN>>)) = Array("DOUBLE", <<1>>, <<NaN>>)
    BY <1>1
<1>4. CASE u.type = "STRUCT"
    <2> DEFINE names == Sorted(u.names)
    <2>1. u.names \in Seq(Nat) /\ IsInjective(u.names)
        BY <1>4 DEF NodeOK
    <2>2. names \in Seq(Nat) /\ IsInjective(names) /\ Sorted(names) = names
        BY <2>1, SortedKeys
    <2>3. Hdf5Node(u) = IF names = <<>> THEN EmptyNode ELSE StructNode(names)
        BY <1>4 DEF Hdf5Node
    <2> HIDE DEF names
    <2>4. StructNode(names).type = "STRUCT" /\ StructNode(names).names = names /\ StructNode(names).order = "C"
        BY DEF StructNode, Node
    <2>5. CASE names = <<>>
        BY <1>0, <1>2, <1>3, <2>3, <2>5
    <2>6. CASE names # <<>>
        <3>1. Hdf5Node(StructNode(names)) = StructNode(names)
            BY <2>2, <2>4, <2>6 DEF Hdf5Node
        <3> QED
            BY <2>3, <2>4, <2>6, <3>1
    <2> QED
        BY <2>5, <2>6
<1>5. CASE u.type = "LIST"
    <2>1. Hdf5Node(u) = u
        BY <1>5 DEF Hdf5Node
    <2>2. u.order = "C"
        <3>1. u = ListNode(Len(u.names))
            BY <1>5 DEF NodeOK
        <3>2. ListNode(Len(u.names)).order = "C"
            BY DEF ListNode, Node
        <3> QED
            BY <3>1, <3>2
    <2> QED
        BY <2>1, <2>2
<1>6. CASE u.type = "EMPTY"
    <2>1. u = EmptyNode
        BY <1>6 DEF NodeOK
    <2> QED
        BY <1>2, <1>3, <2>1, ArrayFields
<1>7. CASE u.type \notin {"STRUCT", "LIST", "EMPTY"}
    <2> DEFINE type == IF u.type = "BOOL" THEN "UINT8" ELSE u.type
    <2>1. Hdf5Node(u) = Array(type, u.shape, Bytes(u))
        BY <1>7 DEF Hdf5Node, Dataset
    <2>2. type \notin {"STRUCT", "LIST", "EMPTY", "BOOL"}
        BY <1>7
    <2> HIDE DEF type
    <2>3. Hdf5Node(Array(type, u.shape, Bytes(u))) = Array(type, u.shape, Bytes(u))
        BY <1>1, <2>2
    <2> QED
        BY <2>1, <2>3, ArrayFields
<1> QED
    BY <1>4, <1>5, <1>6, <1>7

\* Flatbuffers change a node once at most.
LEMMA FlatBuffersOnce ==
    ASSUME NEW u, NodeOK(u)
    PROVE  /\ FlatBuffersNode(FlatBuffersNode(u)) = FlatBuffersNode(u)
           /\ FlatBuffersNode(u).order = "C"
<1>0. FlatBuffersNode(EmptyNode) = EmptyNode /\ EmptyNode.order = "C"
    BY EmptyNodeOK, ArrayFields DEF FlatBuffersNode, Vector, EmptyNode
<1>1. CASE Inner(u) /\ u.names = <<>>
    BY <1>0, <1>1 DEF FlatBuffersNode
<1>2. CASE Inner(u) /\ u.names # <<>>
    <2>1. u = StructNode(u.names) \/ u = ListNode(Len(u.names))
        BY <1>2 DEF NodeOK, Inner
    <2>2. u.order = "C"
        <3>1. StructNode(u.names).order = "C" /\ ListNode(Len(u.names)).order = "C"
            BY DEF StructNode, ListNode, Node
        <3> QED
            BY <2>1, <3>1
    <2> QED
        BY <1>2, <2>2 DEF FlatBuffersNode
<1>3. CASE ~Inner(u) /\ u.type = "EMPTY"
    <2>1. u = EmptyNode
        BY <1>3 DEF NodeOK
    <2> QED
        BY <1>0, <2>1
<1>4. CASE ~Inner(u) /\ u.type # "EMPTY"
    <2> DEFINE v == Array(u.type, u.shape, Bytes(u))
    <2>1. FlatBuffersNode(u) = v
        BY <1>4 DEF FlatBuffersNode, Vector
    <2>2. v.type = u.type /\ v.shape = u.shape /\ v.elems = Bytes(u) /\ v.order = "C"
          /\ Bytes(v) = Bytes(u)
        BY ArrayFields
    <2>3. v = Array(v.type, v.shape, Bytes(v))
        BY <2>2
    <2> HIDE DEF v
    <2>4. FlatBuffersNode(v) = v
        BY <1>4, <2>2, <2>3 DEF FlatBuffersNode, Vector, Inner
    <2> QED
        BY <2>1, <2>2, <2>4
<1> QED
    BY <1>1, <1>2, <1>3, <1>4

\* What comes back from an HDF5 file, node by node.
LEMMA TripHdf5Is ==
    ASSUME NEW t, Wellformed(t), ~Failed(Written("hdf5", t))
    PROVE  /\ Trip("hdf5", t) = [p \in DOMAIN t |-> Hdf5Node(t[p])]
           /\ Wellformed(Trip("hdf5", t))
<1> DEFINE r == FromHdf5(ToHdf5(t))
<1>1. ~Failed(ToHdf5(t)) /\ Trip("hdf5", t) = r
    <2>1. ~Failed(t) /\ "hdf5" # "json"
        BY NodesNotFailed
    <2> QED
        BY <2>1 DEF Trip, Written, ReadBack
<1>2. /\ Wellformed(r) /\ DOMAIN r = DOMAIN t /\ \A p \in DOMAIN t : r[p] = Hdf5Node(t[p])
    BY <1>1, TripHdf5 DEF Hdf5Node
<1>3. r = [p \in DOMAIN r |-> r[p]]
    BY DEF FromHdf5
<1> HIDE DEF r
<1>4. r = [p \in DOMAIN t |-> Hdf5Node(t[p])]
    BY <1>2, <1>3
<1> QED
    BY <1>1, <1>2, <1>4

\* The same for a flatbuffer.
LEMMA TripFlatBuffersIs ==
    ASSUME NEW t, Wellformed(t), ~Failed(Written("flatbuffers", t))
    PROVE  /\ Trip("flatbuffers", t) = [p \in DOMAIN t |-> FlatBuffersNode(t[p])]
           /\ Wellformed(Trip("flatbuffers", t))
<1> DEFINE r == FromFlatBuffers(ToFlatBuffers(t))
<1>1. ~Failed(ToFlatBuffers(t)) /\ Trip("flatbuffers", t) = r
    <2>1. ~Failed(t) /\ "flatbuffers" # "json" /\ "flatbuffers" # "hdf5"
        BY NodesNotFailed
    <2> QED
        BY <2>1 DEF Trip, Written, ReadBack
<1>2. /\ Wellformed(r) /\ DOMAIN r = DOMAIN t /\ \A p \in DOMAIN t : r[p] = FlatBuffersNode(t[p])
    BY <1>1, TripFlatBuffers DEF FlatBuffersNode
<1>3. r = [p \in DOMAIN r |-> r[p]]
    BY DEF FromFlatBuffers
<1> HIDE DEF r
<1>4. r = [p \in DOMAIN t |-> FlatBuffersNode(t[p])]
    BY <1>2, <1>3
<1> QED
    BY <1>1, <1>2, <1>4

\* Arrays in C order are always written.
LEMMA CanTranspose ==
    ASSUME NEW t, Wellformed(t), \A p \in DOMAIN t : t[p].order = "C"
    PROVE  ~Failed(Written("hdf5", t)) /\ ~Failed(Written("flatbuffers", t))
<1>1. \A p \in DOMAIN t : ~Untransposable(t[p])
    BY DEF Untransposable
<1> QED
    BY <1>1, ToHdf5OK, ToFlatBuffersOK DEF Written

\* A tree that came through HDF5 twice does not change any more.
LEMMA SettlesHdf5 ==
    ASSUME NEW t, Wellformed(t), ~Failed(Trip("hdf5", t))
    PROVE  Trip("hdf5", Trip("hdf5", Trip("hdf5", t))) = Trip("hdf5", Trip("hdf5", t))
<1> DEFINE once == Trip("hdf5", t)
           twice == Trip("hdf5", once)
           thrice == Trip("hdf5", twice)
<1>1. ~Failed(Written("hdf5", t))
    BY TripIs DEF Formats
<1>2. once = [p \in DOMAIN t |-> Hdf5Node(t[p])] /\ Wellformed(once)
    BY <1>1, TripHdf5Is
<1> HIDE DEF once
<1>3. \A p \in DOMAIN t : NodeOK(t[p])
    BY TreePaths
<1>4. \A p \in DOMAIN once : once[p].order = "C"
    BY <1>2, <1>3, Hdf5Twice
<1>5. twice = [p \in DOMAIN once |-> Hdf5Node(once[p])] /\ Wellformed(twice)
    BY <1>2, <1>4, CanTranspose, TripHdf5Is
<1> HIDE DEF twice
<1>6. \A p \in DOMAIN twice : twice[p].order = "C"
    <2>1. \A p \in DOMAIN once : NodeOK(once[p])
        BY <1>2, TreePaths
    <2> QED
        BY <1>5, <2>1, Hdf5Twice
<1>7. thrice = [p \in DOMAIN twice |-> Hdf5Node(twice[p])]
    BY <1>5, <1>6, CanTranspose, TripHdf5Is
<1>8. \A p \in DOMAIN t : Hdf5Node(twice[p]) = twice[p]
    BY <1>2, <1>3, <1>5, Hdf5Twice
<1>9. thrice = twice
    BY <1>2, <1>5, <1>7, <1>8
<1> QED
    BY <1>9 DEF twice, once

\* A tree that came through a flatbuffer does not change any more.
LEMMA SettlesFlatBuffers ==
    ASSUME NEW t, Wellformed(t), ~Failed(Trip("flatbuffers", t))
    PROVE  Trip("flatbuffers", Trip("flatbuffers", t)) = Trip("flatbuffers", t)
<1> DEFINE once == Trip("flatbuffers", t)
           twice == Trip("flatbuffers", once)
<1>1. ~Failed(Written("flatbuffers", t))
    BY TripIs DEF Formats
<1>2. once = [p \in DOMAIN t |-> FlatBuffersNode(t[p])] /\ Wellformed(once)
    BY <1>1, TripFlatBuffersIs
<1> HIDE DEF once
<1>3. \A p \in DOMAIN t : NodeOK(t[p])
    BY TreePaths
<1>4. \A p \in DOMAIN once : once[p].order = "C"
    BY <1>2, <1>3, FlatBuffersOnce
<1>5. twice = [p \in DOMAIN once |-> FlatBuffersNode(once[p])]
    BY <1>2, <1>4, CanTranspose, TripFlatBuffersIs
<1>6. \A p \in DOMAIN t : FlatBuffersNode(once[p]) = once[p]
    BY <1>2, <1>3, FlatBuffersOnce
<1>7. twice = once
    BY <1>2, <1>5, <1>6
<1> QED
    BY <1>7 DEF once

\* The fields of a value of a document.
LEMMA JsonIs ==
    ASSUME NEW type, NEW n
    PROVE  /\ Json(type, n).type = type /\ Json(type, n).n = n /\ Json(type, n).names = <<>>
           /\ JNull.type = "null" /\ JNull.names = <<>>
BY DEF Json, JNull

\* The document of one node.
LEMMA NodeToJsonIs ==
    ASSUME NEW u, NodeOK(u)
    PROVE  /\ u.type = "EMPTY" => NodeToJson(u) = Alone(JNull)
           /\ u.type = "STRING" => NodeToJson(u) = Alone(Json("string", u.elems[1]))
           /\ u.type = "STRUCT" => NodeToJson(u) = IF u.names = <<>> THEN Alone(JNull)
                                                   ELSE Alone(JInner("object", Sorted(u.names)))
           /\ u.type = "LIST" => NodeToJson(u) = Alone(JInner("array", u.names))
           /\ DataNode(u) /\ u.type # "STRING" =>
                NodeToJson(u) = IF Len(u.shape) > MaxRank THEN Failure
                                ELSE IF Product(u.shape) = 0 THEN Alone(JNull)
                                ELSE Nested(u)
           /\ u.type \in {"EMPTY", "STRING", "STRUCT", "LIST"} => Len(u.shape) = 0
<1>1. u.type = "EMPTY" => NodeToJson(u) = Alone(JNull)
    BY DEF NodeToJson
<1>2. u.type = "STRING" => NodeToJson(u) = Alone(Json("string", u.elems[1]))
    BY DEF NodeToJson
<1>3. u.type = "STRUCT" => NodeToJson(u) = IF u.names = <<>> THEN Alone(JNull)
                                           ELSE Alone(JInner("object", Sorted(u.names)))
    BY DEF NodeToJson
<1>4. u.type = "LIST" => NodeToJson(u) = Alone(JInner("array", u.names))
    BY DEF NodeToJson
<1>5. DataNode(u) /\ u.type # "STRING" => NodeToJson(u) = BufferToJson(u)
    BY DEF NodeToJson, DataNode, Inner
<1>6. u.type \in {"EMPTY", "STRING", "STRUCT", "LIST"} => Len(u.shape) = 0
    <2>1. EmptyNode.shape = <<>> /\ StructNode(u.names).shape = <<>> /\ ListNode(Len(u.names)).shape = <<>>
        BY DEF EmptyNode, Array, StructNode, ListNode, Node
    <2>2. u.type \in {"EMPTY", "STRING", "STRUCT", "LIST"} => u.shape = <<>>
        BY <2>1 DEF NodeOK
    <2>3. Len(<<>>) = 0
        OBVIOUS
    <2> QED
        BY <2>2, <2>3
<1> QED
    BY <1>1, <1>2, <1>3, <1>4, <1>5, <1>6 DEF BufferToJson

\* A node is written unless it has more than MaxRank dimensions.
LEMMA NodeToJsonFails ==
    ASSUME NEW u, NodeOK(u)
    PROVE  Failed(NodeToJson(u)) <=> Len(u.shape) > MaxRank
<1>0. MaxRank \in Nat /\ Failure = Alone([type |-> "failure"])
    BY SerializersAssumption DEF Failure
<1>1. ASSUME NEW v, v.type # "failure" PROVE ~Failed(Alone(v))
    <2>1. Alone(v) # Alone([type |-> "failure"])
        <3> SUFFICES ASSUME Alone(v) = Alone([type |-> "failure"]) PROVE FALSE
            OBVIOUS
        <3>1. v = [type |-> "failure"]
            BY SameAlone
        <3> QED
            BY <1>1, <3>1
    <2> QED
        BY <1>0, <2>1 DEF Failed
<1>2. JNull.type # "failure" /\ Json("string", u.elems[1]).type # "failure"
      /\ JInner("object", Sorted(u.names)).type # "failure" /\ JInner("array", u.names).type # "failure"
    BY JsonIs, JInnerIs
<1>3. CASE u.type \in {"EMPTY", "STRING", "STRUCT", "LIST"}
    <2>1. Len(u.shape) = 0
        BY <1>3, NodeToJsonIs
    <2>2. ~Failed(NodeToJson(u))
        BY <1>1, <1>2, <1>3, NodeToJsonIs
    <2> QED
        BY <1>0, <2>1, <2>2
<1>4. CASE u.type \notin {"EMPTY", "STRING", "STRUCT", "LIST"}
    <2>1. DataNode(u) /\ u.type # "STRING"
        BY <1>4 DEF DataNode, Inner
    <2>2. NodeToJson(u) = IF Len(u.shape) > MaxRank THEN Failure
                          ELSE IF Product(u.shape) = 0 THEN Alone(JNull)
                          ELSE Nested(u)
        BY <2>1, NodeToJsonIs
    <2>3. ~Failed(Nested(u))
        <3>1. Document(Nested(u))
            BY <2>1, NestedOK
        <3>2. <<>> \in DOMAIN Nested(u) /\ JsonNodeOK(Nested(u)[<<>>])
            BY <3>1 DEF Document, Linked
        <3> QED
            BY <3>2, NotFailed DEF JsonNodeOK
    <2> QED
        BY <1>1, <1>2, <2>2, <2>3 DEF Failed
<1> QED
    BY <1>3, <1>4

\* The path of the root.
LEMMA EmptyPath == <<>> \in Seq(Int) /\ <<>> \o <<>> = <<>> /\ Rest(<<>>, <<>>) = <<>>
<1> DEFINE e == <<>>
<1>1. e \in Seq(Int)
    OBVIOUS
<1> HIDE DEF e
<1>2. e \o <<>> = e
    BY <1>1, ConcatPaths
<1>3. SubSeq(e \o e, Len(e) + 1, Len(e \o e)) = e
    BY <1>1, PrefixConcat
<1> USE DEF e
<1>4. Len(e) = 0 /\ e \o e = e
    BY <1>2
<1> QED
    BY <1>1, <1>3, <1>4 DEF Rest

\* A tree is written unless one of its arrays has more than MaxRank dimensions.
LEMMA ToJsonFails ==
    ASSUME NEW t, Wellformed(t)
    PROVE  Failed(ToJson(t)) <=> \E p \in DOMAIN t : Len(t[p].shape) > MaxRank
<1>1. \A p \in DOMAIN t : Failed(NodeToJson(t[p])) <=> Len(t[p].shape) > MaxRank
    BY TreePaths, NodeToJsonFails
<1>2. ASSUME NEW p \in DOMAIN t, Len(t[p].shape) > MaxRank PROVE Failed(ToJson(t))
    <2>1. Failed(NodeToJson(t[p]))
        BY <1>1, <1>2
    <2>2. ToJson(t) = Failure
        BY <2>1 DEF ToJson
    <2> QED
        BY <2>2 DEF Failed
<1>3. ASSUME ~(\E p \in DOMAIN t : Len(t[p].shape) > MaxRank) PROVE ~Failed(ToJson(t))
    <2> DEFINE doc == [p \in DOMAIN t |-> NodeToJson(t[p])]
               paths == UNION {{p \o q : q \in DOMAIN doc[p]} : p \in DOMAIN t}
               j == [x \in paths |-> LET p == Deepest(t, x) IN doc[p][Rest(p, x)]]
    <2>1. \A p \in DOMAIN t : ~Failed(doc[p])
        BY <1>1, <1>3
    <2>2. ToJson(t) = j
        <3>1. ~\E p \in DOMAIN t : Failed(doc[p])
            BY <2>1
        <3> QED
            BY <3>1, Zenon DEF ToJson
    <2>3. /\ Linked(t) /\ <<>> \in DOMAIN t /\ DOMAIN t \subseteq Paths /\ NodeOK(t[<<>>]) /\ <<>> \in Paths
        BY TreePaths DEF Paths
    <2>4. <<>> \in DOMAIN doc[<<>>] /\ JsonNodeOK(doc[<<>>][<<>>])
        <3>1. doc[<<>>] = NodeToJson(t[<<>>])
            BY <2>3
        <3>2. ~Failed(NodeToJson(t[<<>>]))
            BY <2>1, <2>3, <3>1
        <3> QED
            BY <2>3, <3>1, <3>2, NodeToJsonOK
    <2> HIDE DEF doc
    <2>5. <<>> \o <<>> = <<>> /\ Rest(<<>>, <<>>) = <<>>
        BY EmptyPath
    <2>6. <<>> \in paths
        BY <2>3, <2>4, <2>5
    <2>7. Deepest(t, <<>>) = <<>>
        <3>1. ASSUME NEW q \in DOMAIN t, IsPrefix(q, <<>>) PROVE Len(q) <= Len(<<>>)
            BY <3>1 DEF IsPrefix
        <3>2. IsPrefix(<<>>, <<>>)
            BY <2>3, PrefixOrder DEF Paths
        <3> QED
            BY <2>3, <3>1, <3>2, DeepestIs
    <2>8. <<>> \in DOMAIN j /\ j[<<>>] = doc[<<>>][<<>>]
        <3> HIDE DEF paths
        <3> QED
            BY <2>5, <2>6, <2>7
    <2> HIDE DEF j
    <2>9. ~Failed(j)
        BY <2>4, <2>8, NotFailed DEF JsonNodeOK
    <2> QED
        BY <2>2, <2>9
<1> QED
    BY <1>2, <1>3

\* The document at a node, and all of it that is below a node without children.
LEMMA DocAt ==
    ASSUME NEW t, Wellformed(t), ~Failed(ToJson(t)), NEW p \in DOMAIN t
    PROVE  /\ p \in DOMAIN ToJson(t) /\ ToJson(t)[p] = NodeToJson(t[p])[<<>>]
           /\ <<>> \in DOMAIN NodeToJson(t[p])
<1>1. ~Failed(NodeToJson(t[p])) /\ NodeOK(t[p]) /\ p \in Paths
    BY ToJsonAt, TreePaths
<1>2. <<>> \in DOMAIN NodeToJson(t[p])
    BY <1>1, NodeToJsonOK
<1>3. p \o <<>> = p
    BY <1>1, ConcatPaths DEF Paths
<1>4. p \o <<>> \in DOMAIN ToJson(t) /\ ToJson(t)[p \o <<>>] = NodeToJson(t[p])[<<>>]
    BY <1>2, ToJsonAt
<1> QED
    BY <1>2, <1>3, <1>4

\* What is below the place of a leaf is of that leaf.
LEMMA DocBelow ==
    ASSUME NEW t, Wellformed(t), ~Failed(ToJson(t)), NEW p \in DOMAIN t, ~Inner(t[p]),
           NEW x \in DOMAIN ToJson(t), IsPrefix(p, x)
    PROVE  \E q \in DOMAIN NodeToJson(t[p]) : x = p \o q /\ ToJson(t)[x] = NodeToJson(t[p])[q]
<1>1. PICK r \in DOMAIN t : \E q \in DOMAIN NodeToJson(t[r]) : x = r \o q
    BY ToJsonAt
<1>2. PICK q \in DOMAIN NodeToJson(t[r]) : x = r \o q
    BY <1>1
<1>3. /\ p \in Seq(Int) /\ r \in Seq(Int) /\ q \in Seq(Int) /\ Linked(t)
      /\ NodeOK(t[r]) /\ NodeOK(t[p]) /\ ~Failed(NodeToJson(t[r]))
    BY ToJsonAt, TreePaths DEF Paths
<1>4. IsPrefix(r, x) /\ x \in Seq(Int) /\ Len(x) = Len(r) + Len(q)
    BY <1>2, <1>3, PrefixConcat, ConcatPaths
<1>5. Len(p) \in Nat /\ Len(r) \in Nat /\ t[p].names = <<>>
    BY <1>3, LenProperties DEF NodeOK
<1>6. CASE Len(p) <= Len(r)
    <2>1. IsPrefix(p, r)
        BY <1>3, <1>4, <1>6, PrefixOrder
    <2>2. p = r
        BY <1>3, <1>5, <2>1, LinkedNext DEF Paths
    <2> QED
        BY <1>2, <2>2, ToJsonAt
<1>7. CASE Len(r) < Len(p)
    <2>1. IsPrefix(r, p) /\ r # p
        BY <1>3, <1>4, <1>5, <1>7, PrefixOrder
    <2>2. t[r].names # <<>>
        BY <1>3, <2>1, LinkedNext DEF Paths
    <2>3. Inner(t[r])
        BY <1>3, <2>2 DEF NodeOK
    <2>4. q = <<>>
        BY <1>2, <1>3, <2>3, NodeToJsonOK
    <2>5. Len(q) = 0 /\ Len(p) <= Len(x)
        BY <2>4 DEF IsPrefix
    <2> QED
        BY <1>4, <1>5, <1>7, <2>5
<1> QED
    BY <1>5, <1>6, <1>7, SMTT(30)

\* Each place of an array has an index.
LEMMA OffsetOnto ==
    ASSUME NEW u, u.shape \in Seq(Nat), NEW m \in 0..(Product(u.shape) - 1)
    PROVE  \E i \in Indices(u.shape) : Offset(u, i) = m
<1> DEFINE shape == u.shape
           turned == Reverse(shape)
<1>1. CASE u.order = "C"
    <2>1. IndexOf(shape, m) \in Indices(shape) /\ RowMajor(shape, IndexOf(shape, m)) = m
        BY IndexOfPlace
    <2> QED
        BY <1>1, <2>1 DEF Offset
<1>2. CASE u.order # "C"
    <2>1. turned \in Seq(Nat) /\ Product(turned) = Product(shape) /\ Reverse(turned) = shape
        BY Reversed, ReversedTwice, ReversedProduct
    <2> DEFINE k == IndexOf(turned, m)
    <2> HIDE DEF turned, shape
    <2>2. k \in Indices(turned) /\ RowMajor(turned, k) = m
        BY <2>1, IndexOfPlace DEF shape
    <2> HIDE DEF k
    <2>3. Reverse(k) \in Indices(shape)
        BY <2>1, <2>2, ReversedIndex
    <2>4. k \in Seq(Int)
        BY <2>1, <2>2, EmptyPath, IndexPath DEF Paths
    <2>5. Reverse(Reverse(k)) = k
        BY <2>4, ReversedTwice
    <2>6. Offset(u, Reverse(k)) = RowMajor(turned, Reverse(Reverse(k)))
        BY <1>2 DEF Offset, turned, shape
    <2> QED
        BY <2>2, <2>3, <2>5, <2>6 DEF shape
<1> QED
    BY <1>1, <1>2

\* The elements of an array are what is found at its indexes.
LEMMA ElementsAt ==
    ASSUME NEW u, DataNode(u)
    PROVE  /\ Elements(u) = {At(u, i) : i \in Indices(u.shape)}
           /\ (u.elems = <<>> <=> Product(u.shape) = 0)
           /\ (u.elems # <<>> => Indices(u.shape) # {})
           /\ Elements(u) \subseteq Int \cup {NaN}
<1>1. /\ u.shape \in Seq(Nat) /\ u.elems \in Seq(Int \cup {NaN}) /\ Len(u.elems) = Product(u.shape)
      /\ Product(u.shape) \in Nat
    BY DataNodeIs, ProductNumber
<1>2. ASSUME NEW e \in Elements(u) PROVE \E i \in Indices(u.shape) : e = At(u, i)
    <2>1. PICK n \in 1..Len(u.elems) : e = u.elems[n]
        BY <1>1, LenProperties DEF Elements
    <2>2. n - 1 \in 0..(Product(u.shape) - 1) /\ 1 + (n - 1) = n
        BY <1>1, <2>1
    <2>3. PICK i \in Indices(u.shape) : Offset(u, i) = n - 1
        BY <1>1, <2>2, OffsetOnto
    <2> QED
        BY <2>1, <2>2, <2>3 DEF At
<1>3. \A i \in Indices(u.shape) : At(u, i) \in Elements(u)
    BY <1>1, AtElement
<1>4. u.elems = <<>> <=> Product(u.shape) = 0
    BY <1>1, EmptySeq
<1>5. u.elems # <<>> => Indices(u.shape) # {}
    BY <1>1, <1>4, NoElements
<1>6. Elements(u) \subseteq Int \cup {NaN}
    <2> SUFFICES ASSUME NEW i \in DOMAIN u.elems PROVE u.elems[i] \in Int \cup {NaN}
        BY DEF Elements
    <2> QED
        BY <1>1, LenProperties, ElementOfSeq
<1> QED
    BY <1>2, <1>3, <1>4, <1>5, <1>6

\* The values that is_all_numeric and is_all_bool look for, and the nodes that have them.
KindTypes(kinds, types) ==
    \/ kinds = {"int", "real"} /\ types = Ints \cup Reals
    \/ kinds = {"bool"} /\ types = {"BOOL"}

\* The kind of a number in a document, by the type of its array.
LEMMA NumberKind ==
    ASSUME NEW kinds, NEW types, KindTypes(kinds, types), NEW type \in {"BOOL"} \cup Ints \cup Reals, NEW n
    PROVE  /\ Number(type, n).type # "array" /\ Number(type, n).type # "null" <=> n # NaN
           /\ Number(type, n).type \in kinds <=> n # NaN /\ type \in types
           /\ n # NaN => Number(type, n).n = n
           /\ Number(type, n).type # "array"
           /\ n # NaN => Number(type, n).type = IF type = "BOOL" THEN "bool" ELSE IF type \in Reals THEN "real" ELSE "int"
<1>1. JNull.type = "null"
    BY JsonIs
<1>2. /\ Json("bool", n).type = "bool" /\ Json("real", n).type = "real" /\ Json("int", n).type = "int"
      /\ Json("bool", n).n = n /\ Json("real", n).n = n /\ Json("int", n).n = n
    BY JsonIs
<1> QED
    BY <1>1, <1>2 DEF Number, KindTypes, Ints, Reals

\* The values of a node are all of some kinds if and only if its type is of these and
\* none is missing.
LEMMA NodeValues ==
    ASSUME NEW u, NodeOK(u), u.type # "LIST", ~Failed(NodeToJson(u)),
           NEW kinds, NEW types, KindTypes(kinds, types)
    PROVE  (\A q \in DOMAIN NodeToJson(u) : NodeToJson(u)[q].type # "array" => NodeToJson(u)[q].type \in kinds)
             <=> u.type \in types /\ NaN \notin Elements(u) /\ u.elems # <<>>
<1> DEFINE doc == NodeToJson(u)
           All == \A q \in DOMAIN doc : doc[q].type # "array" => doc[q].type \in kinds
           Kind == u.type \in types /\ NaN \notin Elements(u) /\ u.elems # <<>>
<1>1. ASSUME NEW v, doc = Alone(v), v.type # "array", v.type \notin kinds PROVE ~All
    BY <1>1, AloneIs
<1>2. CASE u.type \in {"EMPTY", "STRING", "STRUCT"}
    <2>1. \/ doc = Alone(JNull) \/ doc = Alone(Json("string", u.elems[1]))
          \/ doc = Alone(JInner("object", Sorted(u.names)))
        BY <1>2, NodeToJsonIs
    <2>2. /\ JNull.type = "null" /\ Json("string", u.elems[1]).type = "string"
          /\ JInner("object", Sorted(u.names)).type = "object"
        BY JsonIs, JInnerIs
    <2>3. /\ JNull.type # "array" /\ JNull.type \notin kinds
          /\ Json("string", u.elems[1]).type # "array" /\ Json("string", u.elems[1]).type \notin kinds
          /\ JInner("object", Sorted(u.names)).type # "array" /\ JInner("object", Sorted(u.names)).type \notin kinds
        BY <2>2 DEF KindTypes
    <2>4. u.type \notin types
        BY <1>2 DEF KindTypes, Ints, Reals
    <2> HIDE DEF doc, All
    <2> QED
        BY <1>1, <2>1, <2>3, <2>4 DEF All, doc
<1>3. CASE u.type \notin {"EMPTY", "STRING", "STRUCT", "LIST"}
    <2>0. DataNode(u) /\ u.type # "STRING" /\ u.type \in {"BOOL"} \cup Ints \cup Reals
        BY <1>3 DEF DataNode, Inner, NodeOK
    <2>k. ASSUME NEW n
          PROVE  /\ Number(u.type, n).type # "array"
                 /\ Number(u.type, n).type \in kinds <=> n # NaN /\ u.type \in types
        <3> DEFINE type == u.type
        <3>1. type \in {"BOOL"} \cup Ints \cup Reals
            BY <2>0
        <3> HIDE DEF type
        <3>2. /\ Number(type, n).type # "array"
              /\ Number(type, n).type \in kinds <=> n # NaN /\ type \in types
            BY <3>1, NumberKind, Zenon
        <3> QED
            BY <3>2 DEF type
    <2>1. /\ Elements(u) = {At(u, i) : i \in Indices(u.shape)}
          /\ (u.elems = <<>> <=> Product(u.shape) = 0)
          /\ (u.elems # <<>> => Indices(u.shape) # {})
        BY <2>0, ElementsAt
    <2>2. u.shape \in Seq(Nat) /\ Len(u.shape) \in Nat
        BY <2>0, DataNodeIs, LenProperties
    <2>3. CASE Product(u.shape) = 0
        <3>1. doc = Alone(JNull)
            BY <2>0, <2>3, NodeToJsonIs DEF Failed
        <3>2. JNull.type # "array" /\ JNull.type \notin kinds
            BY JsonIs DEF KindTypes
        <3> HIDE DEF doc, All
        <3> QED
            BY <1>1, <2>1, <2>3, <3>1, <3>2 DEF All, doc
    <2>4. CASE Product(u.shape) # 0
        <3>1. doc = Nested(u)
            BY <2>0, <2>4, NodeToJsonIs DEF Failed
        <3>2. ASSUME All PROVE Kind
            <4>1. ASSUME NEW i \in Indices(u.shape) PROVE At(u, i) # NaN /\ u.type \in types
                <5> DEFINE x == ItemPath(i)
                <5>1. PartPath(u.shape, x) /\ Len(x) = Len(u.shape) /\ ItemPath(x) = i
                    BY <2>2, WholePath
                <5> HIDE DEF x
                <5>2. x \in DOMAIN doc /\ doc[x] = Number(u.type, At(u, i))
                    BY <2>2, <3>1, <5>1, NestedAt
                <5> DEFINE n == At(u, i)
                <5> HIDE DEF n
                <5>3. /\ Number(u.type, n).type # "array"
                      /\ Number(u.type, n).type \in kinds <=> n # NaN /\ u.type \in types
                    BY <2>k
                <5>4. doc[x].type \in kinds
                    BY <3>2, <5>2, <5>3 DEF n
                <5> QED
                    BY <5>2, <5>3, <5>4 DEF n
            <4>2. u.elems # <<>>
                BY <2>1, <2>4
            <4> QED
                BY <2>1, <4>1, <4>2
        <3>3. ASSUME Kind PROVE All
            <4> SUFFICES ASSUME NEW x \in DOMAIN doc, doc[x].type # "array" PROVE doc[x].type \in kinds
                OBVIOUS
            <4>1. PartPath(u.shape, x) /\ x \in Paths /\ Len(x) <= Len(u.shape) /\ Len(x) \in Nat
                BY <2>2, <3>1, NestedAt, LenProperties DEF PartPath, Paths
            <4>2. doc[x] = IF Len(x) < Len(u.shape)
                           THEN JInner("array", ItemNames(u.shape[Len(x) + 1]))
                           ELSE Number(u.type, At(u, ItemPath(x)))
                BY <2>2, <3>1, NestedAt
            <4>3. Len(x) = Len(u.shape) /\ doc[x] = Number(u.type, At(u, ItemPath(x)))
                BY <2>2, <4>1, <4>2, JInnerIs
            <4>4. ItemPath(x) \in Indices(u.shape)
                BY <2>2, <4>1, <4>3, WholePath
            <4>5. At(u, ItemPath(x)) # NaN
                BY <2>1, <3>3, <4>4
            <4> DEFINE n == At(u, ItemPath(x))
            <4> HIDE DEF n
            <4>6. Number(u.type, n).type \in kinds <=> n # NaN /\ u.type \in types
                BY <2>k
            <4> QED
                BY <3>3, <4>3, <4>5, <4>6 DEF n
        <3> QED
            BY <3>2, <3>3
    <2> QED
        BY <2>3, <2>4
<1> QED
    BY <1>2, <1>3

\* Each value of a document below a node is in the document of a node below it.
LEMMA DocNode ==
    ASSUME NEW t, Wellformed(t), ~Failed(ToJson(t)), NEW p \in DOMAIN t,
           NEW x \in DOMAIN ToJson(t), IsPrefix(p, x)
    PROVE  \E r \in DOMAIN t : /\ IsPrefix(p, r)
                               /\ \E q \in DOMAIN NodeToJson(t[r]) :
                                    x = r \o q /\ ToJson(t)[x] = NodeToJson(t[r])[q]
<1>1. PICK r \in DOMAIN t : \E q \in DOMAIN NodeToJson(t[r]) : x = r \o q
    BY ToJsonAt
<1>2. PICK q \in DOMAIN NodeToJson(t[r]) : x = r \o q
    BY <1>1
<1>3. /\ p \in Seq(Int) /\ r \in Seq(Int) /\ q \in Seq(Int) /\ Linked(t)
      /\ NodeOK(t[r]) /\ ~Failed(NodeToJson(t[r])) /\ ToJson(t)[x] = NodeToJson(t[r])[q]
    BY <1>2, ToJsonAt, TreePaths DEF Paths
<1>4. IsPrefix(r, x) /\ x \in Seq(Int) /\ Len(x) = Len(r) + Len(q)
    BY <1>2, <1>3, PrefixConcat, ConcatPaths
<1>5. Len(p) \in Nat /\ Len(r) \in Nat
    BY <1>3, LenProperties
<1>6. CASE Len(p) <= Len(r)
    <2>1. IsPrefix(p, r)
        BY <1>3, <1>4, <1>6, PrefixOrder
    <2> QED
        BY <1>2, <1>3, <2>1
<1>7. CASE Len(r) < Len(p)
    <2>1. IsPrefix(r, p) /\ r # p
        BY <1>3, <1>4, <1>5, <1>7, PrefixOrder
    <2>2. t[r].names # <<>>
        BY <1>3, <2>1, LinkedNext DEF Paths
    <2>3. Inner(t[r])
        BY <1>3, <2>2 DEF NodeOK
    <2>4. q = <<>>
        BY <1>2, <1>3, <2>3, NodeToJsonOK
    <2>5. Len(q) = 0 /\ Len(p) <= Len(x)
        BY <2>4 DEF IsPrefix
    <2> QED
        BY <1>4, <1>5, <1>7, <2>5
<1> QED
    BY <1>5, <1>6, <1>7

\* The reader takes an array for numbers, or for booleans, if the nodes below it are.
LEMMA AllOfIs ==
    ASSUME NEW t, Wellformed(t), ~Failed(ToJson(t)), NEW p \in DOMAIN t,
           NEW kinds, NEW types, KindTypes(kinds, types)
    PROVE  AllOf(kinds, ToJson(t), p) <=> Uniform(types, t, p)
<1> DEFINE j == ToJson(t)
<1>1. AllOf(kinds, j, p) <=> \A x \in DOMAIN j : IsPrefix(p, x) /\ j[x].type # "array" => j[x].type \in kinds
    BY DEF AllOf, Values
<1>2. /\ p \in Seq(Int)
      /\ \A r \in DOMAIN t : /\ NodeOK(t[r]) /\ r \in Seq(Int) /\ ~Failed(NodeToJson(t[r]))
                             /\ \A q \in DOMAIN NodeToJson(t[r]) :
                                  q \in Seq(Int) /\ r \o q \in DOMAIN j /\ j[r \o q] = NodeToJson(t[r])[q]
    BY ToJsonAt, TreePaths DEF Paths
<1>3. ASSUME AllOf(kinds, j, p) PROVE Uniform(types, t, p)
    <2> SUFFICES ASSUME NEW r \in DOMAIN t, IsPrefix(p, r), t[r].type # "LIST"
                 PROVE  t[r].type \in types /\ NaN \notin Elements(t[r]) /\ t[r].elems # <<>>
        BY DEF Uniform
    <2>1. ASSUME NEW q \in DOMAIN NodeToJson(t[r]), NodeToJson(t[r])[q].type # "array"
          PROVE  NodeToJson(t[r])[q].type \in kinds
        <3>1. q \in Seq(Int) /\ r \o q \in DOMAIN j /\ j[r \o q] = NodeToJson(t[r])[q] /\ r \in Seq(Int)
            BY <1>2
        <3>2. IsPrefix(r, r \o q) /\ r \o q \in Seq(Int)
            BY <3>1, PrefixConcat, ConcatPaths
        <3>3. IsPrefix(p, r \o q)
            BY <1>2, <3>1, <3>2, PrefixOrder
        <3> QED
            BY <1>1, <1>3, <2>1, <3>1, <3>3
    <2> QED
        BY <1>2, <2>1, NodeValues
<1>4. ASSUME Uniform(types, t, p) PROVE AllOf(kinds, j, p)
    <2> SUFFICES ASSUME NEW x \in DOMAIN j, IsPrefix(p, x), j[x].type # "array"
                 PROVE  j[x].type \in kinds
        BY <1>1
    <2>1. PICK r \in DOMAIN t : /\ IsPrefix(p, r)
                                /\ \E q \in DOMAIN NodeToJson(t[r]) : x = r \o q /\ j[x] = NodeToJson(t[r])[q]
        BY DocNode
    <2>2. PICK q \in DOMAIN NodeToJson(t[r]) : x = r \o q /\ j[x] = NodeToJson(t[r])[q]
        BY <2>1
    <2>3. t[r].type # "LIST"
        <3> SUFFICES ASSUME t[r].type = "LIST" PROVE FALSE
            OBVIOUS
        <3>1. NodeToJson(t[r]) = Alone(JInner("array", t[r].names))
            BY <1>2, NodeToJsonIs
        <3>2. NodeToJson(t[r])[q] = JInner("array", t[r].names)
            BY <2>2, <3>1, AloneIs
        <3> QED
            BY <2>2, <3>2, JInnerIs
    <2>4. t[r].type \in types /\ NaN \notin Elements(t[r]) /\ t[r].elems # <<>>
        BY <1>4, <2>1, <2>3 DEF Uniform
    <2> QED
        BY <1>2, <2>2, <2>3, <2>4, NodeValues
<1> QED
    BY <1>3, <1>4

\* An array of a document that becomes an array again: what it was written of is
\* uniform.
LEMMA NumericIs ==
    ASSUME NEW t, Wellformed(t), ~Failed(ToJson(t)), NEW p \in DOMAIN t
    PROVE  /\ IsAllNumeric(ToJson(t), p) <=> Uniform(Ints \cup Reals, t, p)
           /\ IsAllBool(ToJson(t), p) <=> Uniform({"BOOL"}, t, p)
           /\ Numeric(ToJson(t), p) <=>
                /\ NodeToJson(t[p])[<<>>].type = "array"
                /\ Uniform(Ints \cup Reals, t, p) \/ Uniform({"BOOL"}, t, p)
<1>1. KindTypes({"int", "real"}, Ints \cup Reals) /\ KindTypes({"bool"}, {"BOOL"})
    BY DEF KindTypes
<1>2. /\ IsAllNumeric(ToJson(t), p) <=> Uniform(Ints \cup Reals, t, p)
      /\ IsAllBool(ToJson(t), p) <=> Uniform({"BOOL"}, t, p)
    BY <1>1, AllOfIs DEF IsAllNumeric, IsAllBool
<1> QED
    BY <1>2, DocAt DEF Numeric

\* There is one last node on the way from first item to first item.
LEMMA InnermostUnique ==
    ASSUME NEW t, Linked(t), NEW p \in Paths, NEW n \in Nat,
           FirstItem(p, n) \in DOMAIN t, FirstItem(p, n + 1) \notin DOMAIN t
    PROVE  Innermost(t, p) = FirstItem(p, n)
<1> DEFINE Goal(x) == /\ IsPrefix(p, x) /\ x = FirstItem(p, Len(x) - Len(p))
                      /\ FirstItem(x, 1) \notin DOMAIN t
           q == FirstItem(p, n)
<1>1. Len(p) \in Nat /\ n + 1 \in Nat
    BY LenProperties DEF Paths
<1>2. /\ q \in Paths /\ Len(q) = Len(p) + n /\ IsPrefix(p, q) /\ FirstItem(q, 1) = FirstItem(p, n + 1)
    <2>1. q \in Paths /\ Len(q) = Len(p) + n /\ IsPrefix(p, q)
        BY FirstItemIs
    <2>2. \A m \in Nat : FirstItem(FirstItem(p, n), m) = FirstItem(p, n + m)
        BY FirstItemIs
    <2>3. FirstItem(FirstItem(p, n), 1) = FirstItem(p, n + 1)
        BY <2>2
    <2> QED
        BY <2>1, <2>3
<1>3. q \in DOMAIN t /\ Goal(q)
    <2>1. Len(q) - Len(p) = n
        BY <1>1, <1>2
    <2> QED
        BY <1>2, <2>1
<1>4. ASSUME NEW x \in DOMAIN t, Goal(x) PROVE x = q
    <2> DEFINE m == Len(x) - Len(p)
    <2>1. x \in Paths /\ Len(x) \in Nat
        BY LenProperties DEF Linked, Paths
    <2>2. m \in Nat /\ x = FirstItem(p, m)
        BY <1>1, <1>4, <2>1 DEF IsPrefix
    <2> HIDE DEF m
    <2>3. FirstItem(x, 1) = FirstItem(p, m + 1) /\ m + 1 \in Nat
        BY <2>2, FirstItemIs
    <2>4. CASE m < n
        <3>1. m + 1 \in 0..n
            BY <2>2, <2>4
        <3>2. IsPrefix(FirstItem(p, m + 1), q) /\ FirstItem(p, m + 1) \in Paths
            BY <2>3, <3>1, FirstItemIs
        <3>3. FirstItem(p, m + 1) \in DOMAIN t
            BY <1>3, <3>2, LinkedPrefix
        <3> QED
            BY <1>4, <2>3, <3>3
    <2>5. CASE n < m
        <3>1. n + 1 \in 0..m
            BY <2>2, <2>5
        <3>2. IsPrefix(FirstItem(p, n + 1), x) /\ FirstItem(p, n + 1) \in Paths
            BY <1>1, <2>2, <3>1, FirstItemIs
        <3>3. FirstItem(p, n + 1) \in DOMAIN t
            BY <3>2, LinkedPrefix
        <3> QED
            BY <3>3
    <2> QED
        BY <2>2, <2>4, <2>5
<1>5. Innermost(t, p) = CHOOSE x \in DOMAIN t : Goal(x)
    BY DEF Innermost
<1> HIDE DEF Goal, q
<1> QED
    BY <1>3, <1>4, <1>5 DEF q

\* The counts of the items, when this node is known.
LEMMA CountsOf ==
    ASSUME NEW t, Linked(t), NEW p \in Paths, NEW n \in Nat,
           FirstItem(p, n) \in DOMAIN t, FirstItem(p, n + 1) \notin DOMAIN t, NEW type
    PROVE  ItemCounts(t, p, type) =
             [k \in 1..(IF t[FirstItem(p, n)].type = type THEN n + 1 ELSE n) |-> Len(t[FirstItem(p, k - 1)].names)]
<1> DEFINE q == Innermost(t, p)
<1>1. q = FirstItem(p, n)
    BY InnermostUnique
<1>2. Len(q) - Len(p) = n
    <2>1. Len(q) = Len(p) + n /\ Len(p) \in Nat
        BY <1>1, FirstItemIs, LenProperties DEF Paths
    <2> QED
        BY <2>1
<1>3. ItemCounts(t, p, type) =
        [k \in 1..(IF t[q].type = type THEN (Len(q) - Len(p)) + 1 ELSE Len(q) - Len(p)) |->
            Len(t[FirstItem(p, k - 1)].names)]
    BY DEF ItemCounts
<1> HIDE DEF q
<1> QED
    BY <1>1, <1>2, <1>3

\* The way from item to first item behind a path.
LEMMA FirstItemBehind ==
    ASSUME NEW p \in Paths, NEW z \in Paths, NEW n \in Nat
    PROVE  FirstItem(p \o z, n) = p \o FirstItem(z, n)
<1> DEFINE ones == [k \in 1..n |-> ListItem(0)]
<1>1. ones \in Seq(Int)
    <2>1. ones \in [1..n -> Int]
        BY DEF ListItem
    <2> QED
        BY <2>1, FunctionIsSeq
<1> HIDE DEF ones
<1>2. (p \o z) \o ones = p \o (z \o ones)
    BY <1>1, ConcatPaths, SMTT(30) DEF Paths
<1> QED
    BY <1>2 DEF FirstItem, ones

\* An array with elements has an item at each beginning of an index.
LEMMA PartFirst ==
    ASSUME NEW shape \in Seq(Nat), Product(shape) # 0, NEW z, PartPath(shape, z), NEW n \in Nat
    PROVE  PartPath(shape, FirstItem(z, n)) <=> Len(z) + n <= Len(shape)
<1>1. z \in Paths /\ Len(z) \in Nat /\ Len(shape) \in Nat /\ Len(z) <= Len(shape)
      /\ \A d \in 1..Len(z) : ListItem(z[d]) \in 0..(shape[d] - 1)
    BY LenProperties DEF PartPath, Paths
<1>2. /\ FirstItem(z, n) \in Paths /\ Len(FirstItem(z, n)) = Len(z) + n
      /\ \A i \in 1..(Len(z) + n) : FirstItem(z, n)[i] = IF i <= Len(z) THEN z[i] ELSE -1
    BY <1>1, FirstItemIs
<1>3. \A d \in 1..Len(shape) : 0 \in 0..(shape[d] - 1)
    <2>1. PICK i \in Indices(shape) : TRUE
        BY NoElements
    <2>2. ASSUME NEW d \in 1..Len(shape) PROVE 0 \in 0..(shape[d] - 1)
        <3>1. i[d] \in 0..(shape[d] - 1) /\ shape[d] \in Nat
            BY <2>1, IndicesAre, ElementOfSeq
        <3> QED
            BY <3>1
    <2> QED
        BY <2>2
<1>4. ListItem(-1) = 0
    BY DEF ListItem
<1> DEFINE y == FirstItem(z, n)
<1> HIDE DEF y
<1>5. ASSUME PartPath(shape, y) PROVE Len(z) + n <= Len(shape)
    BY <1>2, <1>5 DEF PartPath, y
<1>6. ASSUME Len(z) + n <= Len(shape) PROVE PartPath(shape, y)
    <2>1. ASSUME NEW d \in 1..Len(y) PROVE ListItem(y[d]) \in 0..(shape[d] - 1)
        <3>1. d \in 1..(Len(z) + n) /\ d \in 1..Len(shape)
            BY <1>1, <1>2, <1>6 DEF y
        <3>2. y[d] = IF d <= Len(z) THEN z[d] ELSE -1
            BY <1>2, <3>1 DEF y
        <3> QED
            BY <1>1, <1>3, <1>4, <3>1, <3>2
    <2> QED
        BY <1>2, <1>6, <2>1 DEF PartPath, y
<1> QED
    BY <1>5, <1>6 DEF y

\* Arrays with elements.
FullNode(u) == DataNode(u) /\ u.type # "STRING" /\ Product(u.shape) # 0

\* Two paths behind one path.
LEMMA ConcatSame ==
    ASSUME NEW p \in Paths, NEW q \in Paths, NEW r \in Paths, p \o q = p \o r
    PROVE  q = r
<1>1. SubSeq(p \o q, Len(p) + 1, Len(p \o q)) = q
    BY PrefixConcat DEF Paths
<1>2. SubSeq(p \o r, Len(p) + 1, Len(p \o r)) = r
    BY PrefixConcat DEF Paths
<1> QED
    BY <1>1, <1>2

\* The document of an array with elements.
LEMMA DocData ==
    ASSUME NEW t, Wellformed(t), ~Failed(ToJson(t)), NEW p \in DOMAIN t, FullNode(t[p])
    PROVE  /\ \A z : PartPath(t[p].shape, z) =>
                /\ p \o z \in DOMAIN ToJson(t) /\ IsPrefix(p, p \o z)
                /\ ToJson(t)[p \o z] = IF Len(z) < Len(t[p].shape)
                                       THEN JInner("array", ItemNames(t[p].shape[Len(z) + 1]))
                                       ELSE Number(t[p].type, At(t[p], ItemPath(z)))
           /\ \A x \in DOMAIN ToJson(t) : IsPrefix(p, x) => \E z \in Paths : PartPath(t[p].shape, z) /\ x = p \o z
           /\ \A z \in Paths : p \o z \in DOMAIN ToJson(t) => PartPath(t[p].shape, z)
           /\ t[p].shape \in Seq(Nat) /\ Len(t[p].shape) \in Nat /\ p \in Paths
<1> DEFINE u == t[p]
           j == ToJson(t)
           doc == NodeToJson(u)
<1>1. /\ p \in Paths /\ ~Failed(doc)
      /\ \A q \in DOMAIN doc : q \in Paths /\ p \o q \in DOMAIN j /\ j[p \o q] = doc[q]
    BY ToJsonAt
<1>2. u.shape \in Seq(Nat) /\ Len(u.shape) \in Nat /\ NodeOK(u) /\ ~Inner(u)
    BY LenProperties, DataNodeIs DEF FullNode, DataNode
<1>3. doc = Nested(u)
    BY <1>1, <1>2, NodeToJsonIs DEF FullNode, Failed
<1>4. \A z : z \in DOMAIN doc <=> PartPath(u.shape, z)
    BY <1>2, <1>3, NestedAt
<1>5. \A z \in DOMAIN doc : doc[z] = IF Len(z) < Len(u.shape)
                                     THEN JInner("array", ItemNames(u.shape[Len(z) + 1]))
                                     ELSE Number(u.type, At(u, ItemPath(z)))
    BY <1>2, <1>3, NestedAt
<1>6. \A x \in DOMAIN j : IsPrefix(p, x) => \E q \in DOMAIN doc : x = p \o q
    BY <1>2, DocBelow
<1> HIDE DEF j, doc, u
<1>7. ASSUME NEW z, PartPath(u.shape, z)
      PROVE  /\ p \o z \in DOMAIN j /\ IsPrefix(p, p \o z)
             /\ j[p \o z] = IF Len(z) < Len(u.shape)
                            THEN JInner("array", ItemNames(u.shape[Len(z) + 1]))
                            ELSE Number(u.type, At(u, ItemPath(z)))
    <2>1. z \in DOMAIN doc
        BY <1>4, <1>7
    <2>2. IsPrefix(p, p \o z)
        BY <1>1, <2>1, PrefixConcat DEF Paths
    <2> QED
        BY <1>1, <1>5, <2>1, <2>2
<1>8. ASSUME NEW z \in Paths, p \o z \in DOMAIN j PROVE PartPath(u.shape, z)
    <2>1. IsPrefix(p, p \o z)
        BY <1>1, PrefixConcat DEF Paths
    <2>2. PICK q \in DOMAIN doc : p \o z = p \o q
        BY <1>6, <1>8, <2>1
    <2>3. q \in Paths
        BY <1>1, <2>2
    <2>4. z = q
        BY <1>1, <2>2, <2>3, ConcatSame
    <2> QED
        BY <1>4, <2>4
<1> QED
    BY <1>1, <1>2, <1>4, <1>6, <1>7, <1>8 DEF j, u

\* get_shape finds the extents of an array that was written, from each of its parts
\* on.
LEMMA ArrayShape ==
    ASSUME NEW t, Wellformed(t), ~Failed(ToJson(t)), NEW p \in DOMAIN t, FullNode(t[p]),
           NEW z, PartPath(t[p].shape, z)
    PROVE  LET n == Len(t[p].shape) - Len(z)
           IN  /\ n \in Nat /\ p \o z \in Paths
               /\ Innermost(ToJson(t), p \o z) = FirstItem(p \o z, n)
               /\ FirstItem(p \o z, n) \in DOMAIN ToJson(t) /\ FirstItem(p \o z, n + 1) \notin DOMAIN ToJson(t)
               /\ JsonShape(ToJson(t), p \o z) = [k \in 1..n |-> t[p].shape[Len(z) + k]]
               /\ \A k \in 1..n : Len(ToJson(t)[FirstItem(p \o z, k - 1)].names) = t[p].shape[Len(z) + k]
               /\ ToJson(t)[FirstItem(p \o z, n)].type # "array"
<1> DEFINE u == t[p]
           shape == u.shape
           j == ToJson(t)
           n == Len(shape) - Len(z)
           x == p \o z
<1>1. shape \in Seq(Nat) /\ Len(shape) \in Nat /\ p \in Paths
    BY DocData
<1>2. z \in Paths /\ Len(z) \in Nat /\ Len(z) <= Len(shape) /\ n \in Nat
    BY <1>1, LenProperties DEF PartPath, Paths
<1>3. x \in Paths
    BY <1>1, <1>2, ConcatPaths DEF Paths
<1>4. /\ \A y : PartPath(shape, y) =>
                /\ p \o y \in DOMAIN j
                /\ j[p \o y] = IF Len(y) < Len(shape)
                               THEN JInner("array", ItemNames(shape[Len(y) + 1]))
                               ELSE Number(u.type, At(u, ItemPath(y)))
      /\ \A y \in Paths : p \o y \in DOMAIN j => PartPath(shape, y)
    BY DocData
<1>5. \A k \in Nat : FirstItem(x, k) = p \o FirstItem(z, k) /\ FirstItem(z, k) \in Paths
                     /\ Len(FirstItem(z, k)) = Len(z) + k
    <2>1. ASSUME NEW k \in Nat
          PROVE  FirstItem(x, k) = p \o FirstItem(z, k) /\ FirstItem(z, k) \in Paths
                 /\ Len(FirstItem(z, k)) = Len(z) + k
        <3>1. FirstItem(p \o z, k) = p \o FirstItem(z, k)
            BY <1>1, <1>2, FirstItemBehind
        <3>2. FirstItem(z, k) \in Paths /\ Len(FirstItem(z, k)) = Len(z) + k
            BY <1>2, FirstItemIs
        <3> QED
            BY <3>1, <3>2
    <2> QED
        BY <2>1
<1>p. Product(shape) # 0 /\ PartPath(shape, z)
    BY DEF FullNode
<1>d. Document(j)
    BY ToJsonOK
<1>t. u.type \in {"BOOL"} \cup Ints \cup Reals
    BY DEF FullNode, DataNode, NodeOK, Inner
<1> HIDE DEF j, shape, x, u
<1>6. \A k \in Nat : PartPath(shape, FirstItem(z, k)) <=> Len(z) + k <= Len(shape)
    BY <1>1, <1>p, PartFirst
<1>7. FirstItem(x, n) \in DOMAIN j /\ FirstItem(x, n + 1) \notin DOMAIN j
    <2>1. Len(z) + n <= Len(shape) /\ ~(Len(z) + (n + 1) <= Len(shape)) /\ n + 1 \in Nat
        BY <1>1, <1>2
    <2> QED
        BY <1>2, <1>4, <1>5, <1>6, <2>1
<1>8. Innermost(j, x) = FirstItem(x, n)
    BY <1>d, <1>2, <1>3, <1>7, InnermostUnique DEF Document
<1>9. ASSUME NEW k \in 1..n
      PROVE  Len(j[FirstItem(x, k - 1)].names) = shape[Len(z) + k]
    <2> DEFINE m == k - 1
    <2>1. m \in Nat /\ Len(z) + m <= Len(shape) /\ Len(z) + m < Len(shape)
          /\ (Len(z) + m) + 1 = Len(z) + k /\ Len(z) + k \in 1..Len(shape)
        BY <1>1, <1>2
    <2> HIDE DEF m
    <2>2. PartPath(shape, FirstItem(z, m)) /\ Len(FirstItem(z, m)) = Len(z) + m
        BY <1>5, <1>6, <2>1
    <2>3. j[p \o FirstItem(z, m)] = JInner("array", ItemNames(shape[Len(z) + k]))
        BY <1>4, <2>1, <2>2
    <2>4. shape[Len(z) + k] \in Nat
        BY <1>1, <2>1, ElementOfSeq
    <2>5. Len(ItemNames(shape[Len(z) + k])) = shape[Len(z) + k]
        BY <2>4, ItemNamesAre
    <2>6. j[FirstItem(x, m)].names = ItemNames(shape[Len(z) + k])
        <3> DEFINE names == ItemNames(shape[Len(z) + k])
        <3> HIDE DEF names
        <3>1. j[FirstItem(x, m)] = JInner("array", names)
            BY <1>5, <2>1, <2>3 DEF names
        <3>2. JInner("array", names).names = names
            BY JInnerIs
        <3> QED
            BY <3>1, <3>2 DEF names
    <2> QED
        BY <2>5, <2>6 DEF m
<1>10. j[FirstItem(x, n)].type # "array"
    <2> DEFINE y == FirstItem(z, n)
               e == At(u, ItemPath(y))
    <2>1. PartPath(shape, y) /\ ~(Len(y) < Len(shape)) /\ FirstItem(x, n) = p \o y
        <3>1. n \in Nat /\ Len(z) + n = Len(shape)
            BY <1>1, <1>2
        <3> HIDE DEF n, e
        <3>2. Len(FirstItem(z, n)) = Len(z) + n /\ FirstItem(x, n) = p \o FirstItem(z, n)
            BY <1>5, <3>1
        <3>3. PartPath(shape, FirstItem(z, n))
            BY <1>1, <1>6, <3>1
        <3>4. ~(Len(FirstItem(z, n)) < Len(shape))
            BY <1>1, <3>1, <3>2
        <3> QED
            BY <3>2, <3>3, <3>4 DEF y
    <2>2. j[FirstItem(x, n)] = Number(u.type, e)
        BY <1>4, <2>1
    <2> HIDE DEF e
    <2>3. KindTypes({"bool"}, {"BOOL"})
        BY DEF KindTypes
    <2>4. Number(u.type, e).type # "array"
        <3> DEFINE type == u.type
        <3> HIDE DEF type
        <3>1. type \in {"BOOL"} \cup Ints \cup Reals
            BY <1>t DEF type
        <3>2. Number(type, e).type # "array"
            BY <2>3, <3>1, NumberKind, Zenon
        <3> QED
            BY <3>2 DEF type
    <2> QED
        BY <2>2, <2>4
<1>11. JsonShape(j, x) = [k \in 1..n |-> Len(j[FirstItem(x, k - 1)].names)]
    BY <1>d, <1>2, <1>3, <1>7, <1>10, CountsOf DEF JsonShape, Document
<1>12. JsonShape(j, x) = [k \in 1..n |-> shape[Len(z) + k]]
    BY <1>9, <1>11
<1> QED
    BY <1>2, <1>3, <1>7, <1>8, <1>9, <1>10, <1>12 DEF j, shape, x, u

\* Its elements are found where they were.
LEMMA ArrayItems ==
    ASSUME NEW t, Wellformed(t), ~Failed(ToJson(t)), NEW p \in DOMAIN t, FullNode(t[p])
    PROVE  /\ JsonShape(ToJson(t), p) = t[p].shape
           /\ \A i \in Indices(t[p].shape) : ItemAt(ToJson(t), p, i) = Number(t[p].type, At(t[p], i))
<1> DEFINE u == t[p]
           shape == u.shape
           j == ToJson(t)
<1>1. shape \in Seq(Nat) /\ Len(shape) \in Nat /\ p \in Paths /\ p \o <<>> = p /\ <<>> \in Paths
    BY DocData, EmptyPath, ConcatPaths DEF Paths
<1>2. JsonShape(j, p) = shape
    <2>1. PartPath(shape, <<>>)
        <3>1. Len(<<>>) = 0
            OBVIOUS
        <3> QED
            BY <1>1, <3>1 DEF PartPath
    <2> DEFINE e == <<>>
    <2>e. Len(e) = 0 /\ PartPath(shape, e) /\ p \o e = p
        BY <1>1, <2>1
    <2> HIDE DEF e
    <2>2. JsonShape(j, p \o e) = [k \in 1..(Len(shape) - Len(e)) |-> shape[Len(e) + k]]
        <3>1. PartPath(t[p].shape, e)
            BY <2>e
        <3>2. JsonShape(ToJson(t), p \o e) = [k \in 1..(Len(t[p].shape) - Len(e)) |-> t[p].shape[Len(e) + k]]
            BY <3>1, ArrayShape
        <3> QED
            BY <3>2
    <2>3. Len(shape) - 0 = Len(shape)
        BY <1>1
    <2>4. \A k \in 1..Len(shape) : 0 + k = k
        OBVIOUS
    <2>5. JsonShape(j, p) = [k \in 1..Len(shape) |-> shape[k]]
        BY <2>e, <2>2, <2>3, <2>4
    <2>6. shape = [k \in 1..Len(shape) |-> shape[k]]
        BY <1>1
    <2> QED
        BY <2>5, <2>6
<1>3. ASSUME NEW i \in Indices(shape)
      PROVE  ItemAt(j, p, i) = Number(u.type, At(u, i))
    <2> DEFINE z == ItemPath(i)
               x == p \o z
    <2>1. PartPath(shape, z) /\ Len(z) = Len(shape) /\ ItemPath(z) = i /\ z \in Paths
        BY <1>1, WholePath DEF PartPath
    <2>2. x \in DOMAIN j /\ j[x] = Number(u.type, At(u, i)) /\ x \in Paths
        <3> HIDE DEF z
        <3>1. x \in DOMAIN j /\ j[x] = Number(u.type, At(u, ItemPath(z)))
            BY <1>1, <2>1, DocData
        <3>2. x \in Paths
            BY <1>1, <2>1, ConcatPaths DEF Paths
        <3> QED
            BY <2>1, <3>1, <3>2
    <2>3. Document(j) /\ DOMAIN j \subseteq Paths /\ <<>> \in DOMAIN j
        BY ToJsonOK, DocumentNames
    <2>4. Deepest(j, x) = x
        <3> HIDE DEF x, j
        <3>1. IsPrefix(x, x)
            BY <2>2, PrefixOrder DEF Paths
        <3>2. ASSUME NEW q \in DOMAIN j, IsPrefix(q, x) PROVE Len(q) <= Len(x)
            BY <3>2 DEF IsPrefix
        <3> QED
            BY <2>2, <2>3, <3>1, <3>2, DeepestIs
    <2>5. ItemAt(j, p, i) = j[x]
        BY <2>4 DEF ItemAt
    <2> QED
        BY <2>2, <2>5
<1> QED
    BY <1>2, <1>3

\* The nodes that the reader of JSON makes.
LEMMA JsonToNodeIs ==
    ASSUME NEW j, NEW p, JsonNodeOK(j[p]), JsonToNode(j, p).type # "failure"
    PROVE  /\ j[p].type = "null" => JsonToNode(j, p) = EmptyNode
           /\ j[p].type = "string" => JsonToNode(j, p) = Array("STRING", <<>>, <<j[p].n>>)
           /\ j[p].type = "bool" => JsonToNode(j, p) = Array("BOOL", <<>>, <<j[p].n>>)
           /\ j[p].type = "real" => JsonToNode(j, p) = Array("DOUBLE", <<>>, <<j[p].n>>)
           /\ j[p].type = "int" => JsonToNode(j, p) = Array("INT32", <<>>, <<j[p].n>>)
           /\ j[p].type = "object" => JsonToNode(j, p) = StructNode(j[p].names)
           /\ j[p].type = "array" => JsonToNode(j, p) = IF Numeric(j, p) THEN JsonArray(j, p) ELSE ListNode(Len(j[p].names))
<1>1. ~Numeric(j, p) \/ j[p].type = "array"
    BY DEF Numeric
<1> DEFINE v == j[p]
           a == JsonArray(j, p)
           numeric == Numeric(j, p)
           failure == [type |-> "failure"]
           node == JsonToNode(j, p)
<1>2. failure.type = "failure"
    OBVIOUS
<1>3. node =
        IF v.type = "null" THEN EmptyNode
        ELSE IF v.type = "string" THEN Array("STRING", <<>>, <<v.n>>)
        ELSE IF v.type = "bool" THEN Array("BOOL", <<>>, <<v.n>>)
        ELSE IF v.type = "real" THEN Array("DOUBLE", <<>>, <<v.n>>)
        ELSE IF v.type = "int" /\ v.n <= 2 * IntMax THEN Array("INT32", <<>>, <<v.n>>)
        ELSE IF numeric THEN a
        ELSE IF v.type = "array" THEN ListNode(Len(v.names))
        ELSE IF v.type = "object" THEN StructNode(v.names)
        ELSE failure
    BY DEF JsonToNode
<1> HIDE DEF v, a, numeric, failure, node
<1>4. node.type # "failure" /\ (~numeric \/ v.type = "array")
    BY <1>1 DEF v, numeric, node
<1> SUFFICES /\ v.type = "null" => node = EmptyNode
             /\ v.type = "string" => node = Array("STRING", <<>>, <<v.n>>)
             /\ v.type = "bool" => node = Array("BOOL", <<>>, <<v.n>>)
             /\ v.type = "real" => node = Array("DOUBLE", <<>>, <<v.n>>)
             /\ v.type = "int" => node = Array("INT32", <<>>, <<v.n>>)
             /\ v.type = "object" => node = StructNode(v.names)
             /\ v.type = "array" => node = IF numeric THEN a ELSE ListNode(Len(v.names))
    BY DEF v, a, numeric, node
<1> QED
    BY <1>2, <1>3, <1>4

\* Something inside of an array that is read as one is below the path of that array.
LEMMA InArray ==
    ASSUME NEW j, Document(j), NEW x \in DOMAIN j,
           NEW q0 \in DOMAIN j, IsPrefix(q0, x), Numeric(j, q0)
    PROVE  \E y \in DOMAIN j : /\ IsPrefix(y, x) /\ Numeric(j, y)
                               /\ \A q \in DOMAIN j : IsPrefix(q, y) /\ Numeric(j, q) => q = y
<1>1. DOMAIN j \subseteq Seq(Int)
    BY DocumentNames DEF Paths
<1> DEFINE lengths == {Len(q) : q \in {r \in DOMAIN j : IsPrefix(r, x) /\ Numeric(j, r)}}
<1>2. lengths \in SUBSET Nat /\ lengths # {}
    <2>1. Len(q0) \in lengths
        OBVIOUS
    <2>2. \A q \in DOMAIN j : Len(q) \in Nat
        BY <1>1, LenProperties
    <2> QED
        BY <2>1, <2>2
<1>3. PICK m \in lengths : \A k \in lengths : ~(k < m)
    <2> HIDE DEF lengths
    <2> QED
        BY <1>2, LeastNumber
<1>4. PICK y \in DOMAIN j : IsPrefix(y, x) /\ Numeric(j, y) /\ Len(y) = m
    OBVIOUS
<1>5. ASSUME NEW q \in DOMAIN j, IsPrefix(q, y), Numeric(j, q) PROVE q = y
    <2>1. q \in Seq(Int) /\ y \in Seq(Int) /\ x \in Seq(Int) /\ Len(q) \in Nat /\ Len(y) \in Nat
        BY <1>1, LenProperties
    <2>2. IsPrefix(q, x)
        BY <1>4, <1>5, <2>1, PrefixOrder
    <2>3. Len(q) \in lengths
        BY <1>5, <2>2
    <2>4. Len(y) <= Len(q)
        BY <1>3, <1>4, <2>1, <2>3, SMTT(30)
    <2> QED
        BY <1>5, <2>1, <2>4, PrefixOrder
<1> QED
    BY <1>4, <1>5

\* The values of an array that becomes a list: what they are shows in the list.
LEMMA ListRead ==
    ASSUME NEW j, Document(j), NEW depth \in Nat, Within(j, depth), ~Failed(FromJson(j)),
           NEW p \in DOMAIN FromJson(j), ~Numeric(j, p),
           NEW kinds, NEW types, KindTypes(kinds, types), Uniform(types, FromJson(j), p)
    PROVE  AllOf(kinds, j, p)
<1> DEFINE r == FromJson(j)
<1>1. /\ \A x : x \in DOMAIN r <=> /\ x \in DOMAIN j
                                   /\ \A q \in DOMAIN j : IsPrefix(q, x) /\ Numeric(j, q) => q = x
      /\ \A x \in DOMAIN r : r[x] = JsonToNode(j, x) /\ JsonToNode(j, x).type # "failure"
    BY FromJsonOK
<1>2. DOMAIN j \subseteq Seq(Int) /\ \A x \in DOMAIN j : JsonNodeOK(j[x])
    BY DocumentNames DEF Paths
<1> HIDE DEF r
<1>3. \A x \in DOMAIN r : IsPrefix(p, x) /\ r[x].type # "LIST" => r[x].type \in types
    BY DEF Uniform, r
<1>4. ASSUME NEW x \in DOMAIN j, IsPrefix(p, x), j[x].type # "array" PROVE j[x].type \in kinds
    <2>1. CASE x \in DOMAIN r
        <3>1. JsonNodeOK(j[x]) /\ r[x] = JsonToNode(j, x) /\ JsonToNode(j, x).type # "failure"
            BY <1>1, <1>2, <2>1
        <3>2. j[x].type \in {"null", "bool", "int", "real", "string", "object"}
            BY <1>4, <3>1 DEF JsonNodeOK
        <3>3. /\ j[x].type = "null" => r[x].type = "EMPTY"
              /\ j[x].type = "string" => r[x].type = "STRING"
              /\ j[x].type = "bool" => r[x].type = "BOOL"
              /\ j[x].type = "real" => r[x].type = "DOUBLE"
              /\ j[x].type = "int" => r[x].type = "INT32"
              /\ j[x].type = "object" => r[x].type = "STRUCT"
            <4>1. EmptyNode.type = "EMPTY" /\ \A names : StructNode(names).type = "STRUCT"
                BY DEF EmptyNode, Array, StructNode, Node
            <4>2. /\ j[x].type = "null" => r[x] = EmptyNode
                  /\ j[x].type = "string" => r[x] = Array("STRING", <<>>, <<j[x].n>>)
                  /\ j[x].type = "bool" => r[x] = Array("BOOL", <<>>, <<j[x].n>>)
                  /\ j[x].type = "real" => r[x] = Array("DOUBLE", <<>>, <<j[x].n>>)
                  /\ j[x].type = "int" => r[x] = Array("INT32", <<>>, <<j[x].n>>)
                  /\ j[x].type = "object" => r[x] = StructNode(j[x].names)
                BY <3>1, JsonToNodeIs
            <4>3. \A type : Array(type, <<>>, <<j[x].n>>).type = type
                BY ArrayFields
            <4> QED
                BY <4>1, <4>2, <4>3
        <3>4. r[x].type # "LIST"
            BY <3>2, <3>3
        <3>5. r[x].type \in types
            BY <1>3, <1>4, <2>1, <3>4
        <3> QED
            BY <3>2, <3>3, <3>5 DEF KindTypes, Ints, Reals
    <2>2. CASE x \notin DOMAIN r
        <3>1. PICK q0 \in DOMAIN j : IsPrefix(q0, x) /\ Numeric(j, q0)
            BY <1>1, <2>2
        <3>2. PICK y \in DOMAIN j : /\ IsPrefix(y, x) /\ Numeric(j, y)
                                    /\ \A q \in DOMAIN j : IsPrefix(q, y) /\ Numeric(j, q) => q = y
            BY <3>1, InArray
        <3>3. y \in DOMAIN r /\ r[y] = JsonToNode(j, y) /\ JsonToNode(j, y).type # "failure"
            BY <1>1, <3>2
        <3>4. p \in DOMAIN j /\ p \in Seq(Int) /\ y \in Seq(Int) /\ x \in Seq(Int)
              /\ Len(p) \in Nat /\ Len(y) \in Nat
            BY <1>1, <1>2, LenProperties DEF r
        <3>5. IsPrefix(p, y)
            <4>1. CASE Len(p) <= Len(y)
                BY <1>4, <3>2, <3>4, <4>1, PrefixOrder
            <4>2. CASE Len(y) <= Len(p)
                <5>1. IsPrefix(y, p)
                    BY <1>4, <3>2, <3>4, <4>2, PrefixOrder
                <5>2. y = p
                    BY <1>1, <3>2, <5>1 DEF r
                <5> QED
                    BY <3>2, <5>2
            <4> QED
                BY <3>4, <4>1, <4>2
        <3>6. r[y] = JsonArray(j, y) /\ JsonNodeOK(j[y])
            BY <1>2, <3>2, <3>3, JsonToNodeIs DEF Numeric
        <3>7. r[y].type = ArrayType(j, y)
            BY <3>3, <3>6, JsonArrayOK
        <3>8. ArrayType(j, y) \in types
            <4>1. ArrayType(j, y) # "LIST"
                BY DEF ArrayType
            <4> QED
                BY <1>3, <3>3, <3>5, <3>7, <4>1
        <3>9. j[x] \in Values(j, y)
            BY <1>4, <3>2 DEF Values
        <3>10. CASE kinds = {"int", "real"}
            <4>1. ArrayType(j, y) # "BOOL"
                BY <3>8, <3>10 DEF KindTypes, Ints, Reals
            <4>2. IsAllNumeric(j, y)
                BY <4>1 DEF ArrayType, IsDouble, IsInt
            <4> QED
                BY <3>9, <3>10, <4>2 DEF IsAllNumeric, AllOf
        <3>11. CASE kinds = {"bool"}
            <4>1. ArrayType(j, y) = "BOOL"
                BY <3>8, <3>11 DEF KindTypes
            <4>2. ~IsDouble(j, y) /\ ~IsInt(j, y)
                BY <4>1 DEF ArrayType
            <4>3. ~IsAllNumeric(j, y)
                BY <3>9, <4>2 DEF IsDouble, IsInt
            <4>4. IsAllBool(j, y)
                BY <3>2, <4>3 DEF Numeric
            <4> QED
                BY <3>9, <3>11, <4>4 DEF IsAllBool, AllOf
        <3> QED
            BY <3>10, <3>11 DEF KindTypes
    <2> QED
        BY <2>1, <2>2
<1>5. ASSUME NEW v \in Values(j, p) PROVE v.type \in kinds
    <2>1. PICK x \in DOMAIN j : IsPrefix(p, x) /\ j[x].type # "array" /\ v = j[x]
        BY DEF Values
    <2> QED
        BY <1>4, <2>1
<1> QED
    BY <1>5 DEF AllOf

\* What every tree that was read from JSON is like.
ReadTree(t) ==
    /\ Wellformed(t)
    /\ \A p \in DOMAIN t :
        /\ t[p].type \notin {"EMPTY", "STRUCT", "LIST"} =>
             ReadNode(t[p]) /\ t[p] = Array(t[p].type, t[p].shape, t[p].elems)
        /\ t[p].type = "STRUCT" => t[p].names # <<>> /\ Sorted(t[p].names) = t[p].names
        /\ t[p].type = "LIST" => ~Uniform(Ints \cup Reals, t, p) /\ ~Uniform({"BOOL"}, t, p)

\* An object has its names in their order already.
LEMMA WrittenObject ==
    ASSUME NEW t, Wellformed(t), ~Failed(ToJson(t)), NEW x \in DOMAIN ToJson(t),
           ToJson(t)[x].type = "object"
    PROVE  ToJson(t)[x].names # <<>> /\ Sorted(ToJson(t)[x].names) = ToJson(t)[x].names
<1>1. PICK p \in DOMAIN t : \E q \in DOMAIN NodeToJson(t[p]) : x = p \o q
    BY ToJsonAt
<1>2. PICK q \in DOMAIN NodeToJson(t[p]) : x = p \o q
    BY <1>1
<1> DEFINE u == t[p]
           v == ToJson(t)[x]
<1>3. NodeOK(u) /\ v = NodeToJson(u)[q] /\ ~Failed(NodeToJson(u))
    BY <1>2, ToJsonAt DEF Wellformed
<1> HIDE DEF u, v
<1>4. u.type = "STRUCT"
    <2>1. u.type # "EMPTY"
        <3>1. ASSUME u.type = "EMPTY" PROVE FALSE
            <4>1. NodeToJson(u) = Alone(JNull)
                BY <1>3, <3>1, NodeToJsonIs
            <4>2. v = JNull
                BY <1>2, <1>3, <4>1, AloneIs DEF u
            <4> QED
                BY <4>2, JsonIs DEF v
        <3> QED
            BY <3>1
    <2>2. u.type # "STRING"
        <3>1. ASSUME u.type = "STRING" PROVE FALSE
            <4> DEFINE text == u.elems[1]
            <4>1. NodeToJson(u) = Alone(Json("string", text))
                BY <1>3, <3>1, NodeToJsonIs
            <4> HIDE DEF text
            <4>2. v = Json("string", text)
                BY <1>2, <1>3, <4>1, AloneIs DEF u
            <4> QED
                BY <4>2, JsonIs DEF v
        <3> QED
            BY <3>1
    <2>3. u.type # "LIST"
        <3>1. ASSUME u.type = "LIST" PROVE FALSE
            <4>1. NodeToJson(u) = Alone(JInner("array", u.names))
                BY <1>3, <3>1, NodeToJsonIs
            <4>2. v = JInner("array", u.names)
                BY <1>2, <1>3, <4>1, AloneIs DEF u
            <4> QED
                BY <4>2, JInnerIs DEF v
        <3> QED
            BY <3>1
    <2>4. ASSUME DataNode(u), u.type # "STRING" PROVE FALSE
        <3>1. u.shape \in Seq(Nat) /\ u.type \in {"BOOL"} \cup Ints \cup Reals
            BY <2>4, DataNodeIs
        <3>2. NodeToJson(u) = Alone(JNull) \/ NodeToJson(u) = Nested(u)
            BY <1>3, <2>4, NodeToJsonIs DEF Failed
        <3>3. CASE NodeToJson(u) = Alone(JNull)
            <4>1. v = JNull
                BY <1>2, <1>3, <3>3, AloneIs DEF u
            <4> QED
                BY <4>1, JsonIs DEF v
        <3>4. CASE NodeToJson(u) = Nested(u)
            <4> DEFINE names == ItemNames(u.shape[Len(q) + 1])
                       type == u.type
                       e == At(u, ItemPath(q))
            <4>1. v = IF Len(q) < Len(u.shape) THEN JInner("array", names) ELSE Number(type, e)
                BY <1>2, <1>3, <3>1, <3>4, NestedAt DEF u
            <4> HIDE DEF names, type, e
            <4>2. JInner("array", names).type = "array"
                BY JInnerIs
            <4>3. Number(type, e).type # "object"
                BY JsonIs DEF Number, Json, JNull
            <4> QED
                BY <4>1, <4>2, <4>3 DEF v
        <3> QED
            BY <3>2, <3>3, <3>4
    <2> QED
        BY <1>3, <2>1, <2>2, <2>3, <2>4 DEF NodeOK, DataNode, Inner
<1>5. u.names \in Seq(Nat) /\ IsInjective(u.names)
    BY <1>3, <1>4 DEF NodeOK
<1>6. v = JInner("object", Sorted(u.names)) /\ u.names # <<>>
    <2>1. CASE u.names = <<>>
        <3>1. NodeToJson(u) = Alone(JNull)
            BY <1>3, <1>4, <2>1, NodeToJsonIs
        <3>2. v = JNull
            BY <1>2, <1>3, <3>1, AloneIs DEF u
        <3> QED
            BY <3>2, JsonIs DEF v
    <2>2. CASE u.names # <<>>
        <3>1. NodeToJson(u) = Alone(JInner("object", Sorted(u.names)))
            BY <1>3, <1>4, <2>2, NodeToJsonIs
        <3> QED
            BY <1>2, <1>3, <2>2, <3>1, AloneIs DEF u
    <2> QED
        BY <2>1, <2>2
<1>7. v.names = Sorted(u.names)
    <2> DEFINE names == Sorted(u.names)
    <2> HIDE DEF names
    <2>1. v = JInner("object", names)
        BY <1>6 DEF names
    <2>2. v.names = names
        BY <2>1, JInnerIs
    <2> QED
        BY <2>2 DEF names
<1>8. v.names # <<>> /\ Sorted(v.names) = v.names
    BY <1>5, <1>6, <1>7, SortedKeys
<1> QED
    BY <1>8 DEF v

\* A tree that was written and read is one that was read.
LEMMA JsonRead ==
    ASSUME NEW t, Wellformed(t), Shallow(t), ~Failed(ToJson(t)), ~Failed(FromJson(ToJson(t)))
    PROVE  ReadTree(FromJson(ToJson(t))) /\ Shallow(FromJson(ToJson(t)))
<1> DEFINE j == ToJson(t)
           r == FromJson(j)
<1>1. PICK depth \in Nat : Within(t, depth)
    BY DEF Shallow
<1>2. PICK deep \in Nat : Within(j, deep)
    BY <1>1, ToJsonWithin
<1>3. Document(j) /\ \A x \in DOMAIN j : JsonNodeOK(j[x])
    BY ToJsonOK DEF Document
<1>o. \A x \in DOMAIN j : j[x].type = "object" => j[x].names # <<>> /\ Sorted(j[x].names) = j[x].names
    BY WrittenObject
<1>f. ~Failed(r)
    OBVIOUS
<1> HIDE DEF j
<1>4. /\ Wellformed(r) /\ Within(r, deep)
      /\ \A p \in DOMAIN r : p \in DOMAIN j /\ r[p] = JsonToNode(j, p) /\ JsonToNode(j, p).type # "failure"
    BY <1>2, <1>3, <1>f, FromJsonOK
<1> HIDE DEF r
<1>5. ASSUME NEW p \in DOMAIN r
      PROVE  /\ r[p].type \notin {"EMPTY", "STRUCT", "LIST"} =>
                  ReadNode(r[p]) /\ r[p] = Array(r[p].type, r[p].shape, r[p].elems)
             /\ r[p].type = "STRUCT" => r[p].names # <<>> /\ Sorted(r[p].names) = r[p].names
             /\ r[p].type = "LIST" => ~Uniform(Ints \cup Reals, r, p) /\ ~Uniform({"BOOL"}, r, p)
    <2> DEFINE u == JsonToNode(j, p)
               v == j[p]
    <2>1. JsonNodeOK(v) /\ u.type # "failure" /\ p \in DOMAIN j /\ r[p] = u
        BY <1>3, <1>4
    <2>2. u.type \notin {"EMPTY", "STRUCT", "LIST"} => ReadNode(u)
        BY <1>2, <1>3, <2>1, JsonToNodeOK
    <2>3. /\ v.type = "null" => u = EmptyNode
          /\ v.type = "string" => u = Array("STRING", <<>>, <<v.n>>)
          /\ v.type = "bool" => u = Array("BOOL", <<>>, <<v.n>>)
          /\ v.type = "real" => u = Array("DOUBLE", <<>>, <<v.n>>)
          /\ v.type = "int" => u = Array("INT32", <<>>, <<v.n>>)
          /\ v.type = "object" => u = StructNode(v.names)
          /\ v.type = "array" => u = IF Numeric(j, p) THEN JsonArray(j, p) ELSE ListNode(Len(v.names))
        BY <2>1, JsonToNodeIs
    <2>4. v.type \in {"null", "bool", "int", "real", "string", "array", "object"}
        BY <2>1 DEF JsonNodeOK
    <2>5. /\ EmptyNode.type = "EMPTY"
          /\ \A names : StructNode(names).type = "STRUCT" /\ StructNode(names).names = names
          /\ \A n : ListNode(n).type = "LIST"
        BY DEF EmptyNode, Array, StructNode, ListNode, Node
    <2>6. \A type, shape, elems : LET a == Array(type, shape, elems)
                                  IN  a.type = type /\ a = Array(a.type, a.shape, a.elems)
        BY ArrayFields
    <2>7. Numeric(j, p) /\ u = JsonArray(j, p) =>
             u = Array(u.type, u.shape, u.elems) /\ u.type \in {"DOUBLE", "INT32", "BOOL"}
        <3>1. ASSUME u = JsonArray(j, p)
              PROVE  u = Array(u.type, u.shape, u.elems) /\ u.type \in {"DOUBLE", "INT32", "BOOL"}
            <4> DEFINE shape == JsonShape(j, p)
                       type == ArrayType(j, p)
                       elems == [n \in 1..Product(shape) |-> Element(type, ItemAt(j, p, IndexOf(shape, n - 1)))]
                       array == JsonArray(j, p)
            <4>1. \/ array.type = "failure"
                  \/ array = Array(type, shape, elems)
                BY DEF JsonArray
            <4>2. type \in {"DOUBLE", "INT32", "BOOL"}
                BY DEF ArrayType
            <4> HIDE DEF shape, type, elems, array
            <4>3. array = Array(type, shape, elems)
                BY <2>1, <3>1, <4>1 DEF array
            <4>4. array = Array(array.type, array.shape, array.elems) /\ array.type = type
                BY <4>3, ArrayFields
            <4> QED
                BY <3>1, <4>2, <4>4 DEF array
        <3> QED
            BY <3>1
    <2> HIDE DEF u, v
    <2>8. ASSUME u.type \notin {"EMPTY", "STRUCT", "LIST"} PROVE u = Array(u.type, u.shape, u.elems)
        <3>1. CASE v.type \in {"null", "object"}
            BY <2>3, <2>5, <2>8, <3>1
        <3>2. CASE v.type \in {"string", "bool", "real", "int"}
            BY <2>3, <2>6, <3>2
        <3>3. CASE v.type = "array"
            BY <2>3, <2>5, <2>7, <2>8, <3>3
        <3> QED
            BY <2>4, <3>1, <3>2, <3>3
    <2>9. ASSUME u.type = "STRUCT" PROVE v.type = "object" /\ u = StructNode(v.names)
        <3>1. CASE v.type \in {"null", "object"}
            BY <2>3, <2>5, <2>9, <3>1
        <3>2. CASE v.type \in {"string", "bool", "real", "int"}
            BY <2>3, <2>6, <2>9, <3>2
        <3>3. CASE v.type = "array"
            BY <2>3, <2>5, <2>7, <2>9, <3>3
        <3> QED
            BY <2>4, <3>1, <3>2, <3>3
    <2>10. ASSUME u.type = "LIST" PROVE v.type = "array" /\ ~Numeric(j, p)
        <3>1. CASE v.type \in {"null", "object"}
            BY <2>3, <2>5, <2>10, <3>1
        <3>2. CASE v.type \in {"string", "bool", "real", "int"}
            BY <2>3, <2>6, <2>10, <3>2
        <3>3. CASE v.type = "array"
            BY <2>3, <2>5, <2>7, <2>10, <3>3
        <3> QED
            BY <2>4, <3>1, <3>2, <3>3
    <2>11. u.type = "STRUCT" => u.names # <<>> /\ Sorted(u.names) = u.names
        BY <1>o, <2>1, <2>5, <2>9 DEF v
    <2>12. ASSUME u.type = "LIST" PROVE ~Uniform(Ints \cup Reals, r, p) /\ ~Uniform({"BOOL"}, r, p)
        <3>1. KindTypes({"int", "real"}, Ints \cup Reals) /\ KindTypes({"bool"}, {"BOOL"})
            BY DEF KindTypes
        <3>2. ~Numeric(j, p) /\ v.type = "array"
            BY <2>10, <2>12
        <3>3. ~AllOf({"int", "real"}, j, p) /\ ~AllOf({"bool"}, j, p)
            BY <3>2 DEF Numeric, IsAllNumeric, IsAllBool, v
        <3>4. ASSUME NEW kinds, NEW types, KindTypes(kinds, types), Uniform(types, r, p)
              PROVE  AllOf(kinds, j, p)
            BY <1>2, <1>3, <1>5, <1>f, <3>2, <3>4, ListRead DEF r
        <3> QED
            BY <3>1, <3>3, <3>4
    <2> QED
        BY <2>1, <2>2, <2>8, <2>11, <2>12
<1>6. ReadTree(r)
    BY <1>4, <1>5 DEF ReadTree
<1>7. Shallow(r)
    BY <1>4 DEF Shallow
<1> QED
    BY <1>6, <1>7 DEF r, j

\* What a node that was read from JSON becomes when it is written and read again.
WholeReals(u) ==
    u.type = "DOUBLE" /\ u.shape # <<>> /\ \A n \in Elements(u) : n % 2 = 0 /\ n <= 2 * LargestMax
JsonAgain(u) ==
    IF u.type \in {"EMPTY", "STRUCT", "LIST"} THEN u
    ELSE IF Product(u.shape) = 0 THEN EmptyNode
    ELSE IF ~WholeReals(u) THEN u
    ELSE IF \E n \in Elements(u) : n > 2 * IntMax THEN [type |-> "failure"]
    ELSE Array("INT32", u.shape, u.elems)

\* The values of the document of an array.
LEMMA ArrayValues ==
    ASSUME NEW t, Wellformed(t), ~Failed(ToJson(t)), NEW p \in DOMAIN t, FullNode(t[p])
    PROVE  /\ Values(ToJson(t), p) = {Number(t[p].type, n) : n \in Elements(t[p])}
           /\ Elements(t[p]) # {}
<1> DEFINE u == t[p]
           j == ToJson(t)
<1>1. DataNode(u) /\ u.shape \in Seq(Nat) /\ Len(u.shape) \in Nat /\ p \in Paths
      /\ u.type \in {"BOOL"} \cup Ints \cup Reals /\ Product(u.shape) # 0
    BY DocData, DataNodeIs DEF FullNode
<1>2. Elements(u) = {At(u, i) : i \in Indices(u.shape)} /\ Indices(u.shape) # {}
    BY <1>1, ElementsAt
<1>3. /\ \A z : PartPath(u.shape, z) =>
                /\ p \o z \in DOMAIN j /\ IsPrefix(p, p \o z)
                /\ j[p \o z] = IF Len(z) < Len(u.shape)
                               THEN JInner("array", ItemNames(u.shape[Len(z) + 1]))
                               ELSE Number(u.type, At(u, ItemPath(z)))
      /\ \A x \in DOMAIN j : IsPrefix(p, x) => \E z \in Paths : PartPath(u.shape, z) /\ x = p \o z
    BY DocData
<1> HIDE DEF u, j
<1>4. ASSUME NEW x \in DOMAIN j, IsPrefix(p, x), j[x].type # "array"
      PROVE  \E n \in Elements(u) : j[x] = Number(u.type, n)
    <2>1. PICK z \in Paths : PartPath(u.shape, z) /\ x = p \o z
        BY <1>3, <1>4
    <2>2. Len(z) = Len(u.shape)
        <3>1. ASSUME Len(z) < Len(u.shape) PROVE FALSE
            <4> DEFINE names == ItemNames(u.shape[Len(z) + 1])
            <4>1. j[x] = JInner("array", names)
                BY <1>3, <2>1, <3>1
            <4> HIDE DEF names
            <4>2. j[x].type = "array"
                BY <4>1, JInnerIs
            <4> QED
                BY <1>4, <4>2
        <3>2. Len(z) <= Len(u.shape) /\ Len(z) \in Nat
            BY <2>1, LenProperties DEF PartPath, Paths
        <3> QED
            BY <1>1, <3>1, <3>2
    <2>3. ItemPath(z) \in Indices(u.shape)
        BY <1>1, <2>1, <2>2, WholePath
    <2>4. j[x] = Number(u.type, At(u, ItemPath(z)))
        BY <1>1, <1>3, <2>1, <2>2
    <2> QED
        BY <1>2, <2>3, <2>4
<1>5. ASSUME NEW n \in Elements(u)
      PROVE  \E x \in DOMAIN j : IsPrefix(p, x) /\ j[x].type # "array" /\ j[x] = Number(u.type, n)
    <2>1. PICK i \in Indices(u.shape) : n = At(u, i)
        BY <1>2
    <2> DEFINE z == ItemPath(i)
               x == p \o z
    <2>2. PartPath(u.shape, z) /\ Len(z) = Len(u.shape) /\ ItemPath(z) = i
        BY <1>1, WholePath
    <2> HIDE DEF z
    <2>3. x \in DOMAIN j /\ IsPrefix(p, x) /\ j[x] = Number(u.type, At(u, ItemPath(z)))
        BY <1>1, <1>3, <2>2
    <2>4. j[x] = Number(u.type, n)
        BY <2>1, <2>2, <2>3
    <2>5. Number(u.type, n).type # "array"
        <3> DEFINE type == u.type
        <3>1. type \in {"BOOL"} \cup Ints \cup Reals
            BY <1>1
        <3> HIDE DEF type
        <3>2. KindTypes({"bool"}, {"BOOL"})
            BY DEF KindTypes
        <3>3. Number(type, n).type # "array"
            BY <3>1, <3>2, NumberKind, Zenon
        <3> QED
            BY <3>3 DEF type
    <2> QED
        BY <2>3, <2>4, <2>5
<1>6. Values(j, p) = {Number(u.type, n) : n \in Elements(u)}
    <2>1. ASSUME NEW v \in Values(j, p) PROVE v \in {Number(u.type, n) : n \in Elements(u)}
        <3>1. PICK x \in DOMAIN j : IsPrefix(p, x) /\ j[x].type # "array" /\ v = j[x]
            BY DEF Values
        <3> QED
            BY <1>4, <3>1
    <2>2. ASSUME NEW n \in Elements(u) PROVE Number(u.type, n) \in Values(j, p)
        BY <1>5 DEF Values
    <2> QED
        BY <2>1, <2>2
<1>7. Elements(u) # {}
    BY <1>2
<1> QED
    BY <1>6, <1>7 DEF u, j

\* The type of the array that is read, and its elements.
LEMMA ElementAgain ==
    ASSUME NEW u, ReadNode(u), FullNode(u), NEW n \in Elements(u)
    PROVE  /\ n \in Int /\ n # NaN
           /\ u.type = "BOOL" => Element("BOOL", Number("BOOL", n)) = n
           /\ u.type = "INT32" => Element("INT32", Number("INT32", n)) = n /\ IsWhole(Number("INT32", n))
           /\ u.type = "DOUBLE" =>
                /\ Element("DOUBLE", Number("DOUBLE", n)) = n
                /\ Element("INT32", Number("DOUBLE", n)) = IF n > 2 * IntMax THEN NaN ELSE n
                /\ IsWhole(Number("DOUBLE", n)) <=> n % 2 = 0 /\ n <= 2 * LargestMax
<1>1. n \in Int /\ n # NaN
    <2>1. Elements(u) \subseteq Int \cup {NaN}
        BY ElementsAt DEF FullNode
    <2> QED
        BY <2>1 DEF ReadNode, FullNode
<1>2. u.type = "BOOL" => n \in {0, 2}
    BY DEF ReadNode, DataNode, NodeOK
<1>3. u.type = "INT32" => n <= 2 * IntMax
    BY DEF ReadNode
<1> DEFINE limit == 2 * IntMax
           largest == 2 * LargestMax
<1>4. limit \in Nat
    BY SerializersAssumption
<1> HIDE DEF limit, largest
<1>5. /\ Number("BOOL", n) = Json("bool", n) /\ Number("INT32", n) = Json("int", n)
      /\ Number("DOUBLE", n) = Json("real", n)
    BY <1>1 DEF Number, Reals
<1>6. /\ Json("bool", n).type = "bool" /\ Json("bool", n).n = n
      /\ Json("int", n).type = "int" /\ Json("int", n).n = n
      /\ Json("real", n).type = "real" /\ Json("real", n).n = n
    BY JsonIs
<1>7. ASSUME NEW type, NEW v, v.type \in {"bool", "int", "real"}
      PROVE  Element(type, v) = IF type = "INT32" /\ v.n > limit THEN NaN
                                ELSE IF type = "BOOL" /\ v.n # 0 THEN 2 ELSE v.n
    BY <1>7 DEF Element, limit
<1>8. /\ IsWhole(Json("int", n))
      /\ IsWhole(Json("real", n)) <=> n % 2 = 0 /\ n <= largest
    BY <1>6 DEF IsWhole, largest
<1>9. /\ Element("BOOL", Json("bool", n)) = IF n # 0 THEN 2 ELSE n
      /\ Element("INT32", Json("int", n)) = IF n > limit THEN NaN ELSE n
      /\ Element("DOUBLE", Json("real", n)) = n
      /\ Element("INT32", Json("real", n)) = IF n > limit THEN NaN ELSE n
    BY <1>6, <1>7
<1>10. u.type = "BOOL" => Element("BOOL", Number("BOOL", n)) = n
    BY <1>2, <1>5, <1>9
<1>11. u.type = "INT32" => Element("INT32", Number("INT32", n)) = n /\ IsWhole(Number("INT32", n))
    BY <1>1, <1>3, <1>4, <1>5, <1>8, <1>9 DEF limit
<1> QED
    BY <1>1, <1>5, <1>8, <1>9, <1>10, <1>11 DEF limit, largest

\* A leaf is alone below its path.
LEMMA LeafAlone ==
    ASSUME NEW t, Wellformed(t), NEW p \in DOMAIN t, ~Inner(t[p]), NEW q \in DOMAIN t, IsPrefix(p, q)
    PROVE  q = p
<1>1. t[p].names = <<>> /\ p \in Paths /\ Linked(t)
    BY DEF Wellformed, Linked, NodeOK, Paths
<1> QED
    BY <1>1, LinkedNext

\* The type in which an array is read again.
LEMMA AgainType ==
    ASSUME NEW t, Wellformed(t), ~Failed(ToJson(t)), NEW p \in DOMAIN t, ReadNode(t[p]), FullNode(t[p])
    PROVE  /\ IsAllNumeric(ToJson(t), p) \/ IsAllBool(ToJson(t), p)
           /\ ArrayType(ToJson(t), p) =
                IF t[p].type = "DOUBLE" /\ \A n \in Elements(t[p]) : n % 2 = 0 /\ n <= 2 * LargestMax
                THEN "INT32" ELSE t[p].type
<1> DEFINE u == t[p]
           j == ToJson(t)
           type == u.type
<1>1. type \in {"DOUBLE", "INT32", "BOOL"}
    BY DEF ReadNode, FullNode
<1>2. /\ Values(j, p) = {Number(type, n) : n \in Elements(u)}
      /\ Elements(u) # {}
    BY ArrayValues
<1>3. \A n \in Elements(u) :
        /\ n # NaN
        /\ type = "INT32" => IsWhole(Number("INT32", n))
        /\ type = "DOUBLE" => (IsWhole(Number("DOUBLE", n)) <=> n % 2 = 0 /\ n <= 2 * LargestMax)
    BY ElementAgain
<1> HIDE DEF u, j, type
<1>4. ASSUME NEW n \in Elements(u)
      PROVE  Number(type, n).type = IF type = "BOOL" THEN "bool" ELSE IF type = "DOUBLE" THEN "real" ELSE "int"
    BY <1>1, <1>3, JsonIs DEF Number, Reals
<1>5. CASE type = "BOOL"
    <2>1. IsAllBool(j, p)
        BY <1>2, <1>4, <1>5 DEF IsAllBool, AllOf
    <2>2. ~IsAllNumeric(j, p)
        BY <1>2, <1>4, <1>5 DEF IsAllNumeric, AllOf
    <2>3. ArrayType(j, p) = "BOOL"
        BY <2>2 DEF ArrayType, IsDouble, IsInt
    <2> QED
        BY <1>5, <2>1, <2>3 DEF u, j, type
<1>6. CASE type = "INT32"
    <2>1. IsAllNumeric(j, p)
        BY <1>2, <1>4, <1>6 DEF IsAllNumeric, AllOf
    <2>2. \A v \in Values(j, p) : IsWhole(v)
        BY <1>2, <1>3, <1>6
    <2>3. ArrayType(j, p) = "INT32"
        BY <1>2, <2>1, <2>2 DEF ArrayType, IsDouble, IsInt
    <2> QED
        BY <1>6, <2>1, <2>3 DEF u, j, type
<1>7. CASE type = "DOUBLE"
    <2> DEFINE whole(n) == n % 2 = 0 /\ n <= 2 * LargestMax
    <2>1. IsAllNumeric(j, p)
        BY <1>2, <1>4, <1>7 DEF IsAllNumeric, AllOf
    <2>2. \A n \in Elements(u) : IsWhole(Number("DOUBLE", n)) <=> whole(n)
        BY <1>3, <1>7
    <2> HIDE DEF whole
    <2>3. CASE \A n \in Elements(u) : whole(n)
        <3>1. \A v \in Values(j, p) : IsWhole(v)
            BY <1>2, <1>7, <2>2, <2>3
        <3>2. ArrayType(j, p) = "INT32"
            BY <1>2, <2>1, <3>1 DEF ArrayType, IsDouble, IsInt
        <3> QED
            BY <1>7, <2>1, <2>3, <3>2 DEF u, j, type, whole
    <2>4. CASE ~(\A n \in Elements(u) : whole(n))
        <3>1. \E v \in Values(j, p) : ~IsWhole(v)
            BY <1>2, <1>7, <2>2, <2>4
        <3>2. ArrayType(j, p) = "DOUBLE"
            BY <2>1, <3>1 DEF ArrayType, IsDouble
        <3> QED
            BY <1>7, <2>1, <2>4, <3>2 DEF u, j, type, whole
    <2> QED
        BY <2>3, <2>4
<1> QED
    BY <1>1, <1>5, <1>6, <1>7

\* The array that is read again.
LEMMA ArrayAgain ==
    ASSUME NEW t, Wellformed(t), ~Failed(ToJson(t)), NEW p \in DOMAIN t, ReadNode(t[p]), FullNode(t[p]),
           t[p] = Array(t[p].type, t[p].shape, t[p].elems), t[p].shape # <<>>
    PROVE  JsonArray(ToJson(t), p) = JsonAgain(t[p])
<1> DEFINE u == t[p]
           j == ToJson(t)
           type == u.type
           shape == u.shape
           elems == u.elems
           new == ArrayType(j, p)
           fresh == [n \in 1..Product(shape) |-> Element(new, ItemAt(j, p, IndexOf(shape, n - 1)))]
<1>1. JsonShape(j, p) = shape /\ \A i \in Indices(shape) : ItemAt(j, p, i) = Number(type, At(u, i))
    BY ArrayItems
<1>2. /\ type \in {"DOUBLE", "INT32", "BOOL"} /\ shape \in Seq(Nat) /\ Len(shape) <= MaxRank
      /\ Len(elems) = Product(shape) /\ elems \in Seq(Int \cup {NaN}) /\ u.order = "C" /\ Product(shape) # 0
      /\ DataNode(u)
    BY DataNodeIs DEF ReadNode, FullNode
<1>3. \A n \in Elements(u) :
           /\ n \in Int /\ n # NaN
           /\ u.type = "BOOL" => Element("BOOL", Number("BOOL", n)) = n
           /\ u.type = "INT32" => Element("INT32", Number("INT32", n)) = n
           /\ u.type = "DOUBLE" =>
                /\ Element("DOUBLE", Number("DOUBLE", n)) = n
                /\ Element("INT32", Number("DOUBLE", n)) = IF n > 2 * IntMax THEN NaN ELSE n
    BY ElementAgain
<1>4. new = IF type = "DOUBLE" /\ \A n \in Elements(u) : n % 2 = 0 /\ n <= 2 * LargestMax
            THEN "INT32" ELSE type
    BY AgainType
<1>5. u = Array(type, shape, elems)
    OBVIOUS
<1>6. ASSUME NEW n \in 1..Product(shape)
      PROVE  /\ ItemAt(j, p, IndexOf(shape, n - 1)) = Number(type, elems[n])
             /\ elems[n] \in Elements(u)
    <2> DEFINE m == n - 1
               i == IndexOf(shape, m)
    <2>1. Product(shape) \in Nat
        BY <1>2, ProductNumber
    <2>2. m \in 0..(Product(shape) - 1) /\ 1 + m = n
        BY <2>1
    <2> HIDE DEF m
    <2>3. i \in Indices(shape) /\ RowMajor(shape, i) = m
        BY <1>2, <2>2, IndexOfPlace
    <2> HIDE DEF i
    <2>4. At(u, i) = elems[n]
        BY <1>2, <2>2, <2>3 DEF At, Offset
    <2>5. elems[n] \in Elements(u)
        BY <1>2 DEF Elements
    <2> QED
        BY <1>1, <2>3, <2>4, <2>5 DEF i, m
<1>s. t[p].shape # <<>>
    OBVIOUS
<1>7. JsonArray(j, p) = IF Len(shape) > MaxRank \/ \E n \in DOMAIN fresh : fresh[n] = NaN
                        THEN [type |-> "failure"] ELSE Array(new, shape, fresh)
    BY <1>1 DEF JsonArray
<1>8. fresh = [n \in 1..Product(shape) |-> Element(new, Number(type, elems[n]))]
    BY <1>6
<1>9. elems = [n \in 1..Product(shape) |-> elems[n]]
    BY <1>2
<1>10. /\ JsonAgain(u) = IF ~WholeReals(u) THEN u
                         ELSE IF \E n \in Elements(u) : n > 2 * IntMax THEN [type |-> "failure"]
                         ELSE Array("INT32", shape, elems)
       /\ WholeReals(u) <=> type = "DOUBLE" /\ \A n \in Elements(u) : n % 2 = 0 /\ n <= 2 * LargestMax
    BY <1>2, <1>s DEF JsonAgain, WholeReals
<1>e. \A n \in Elements(u) : \E k \in 1..Product(shape) : n = elems[k]
    BY <1>2 DEF Elements
<1> DEFINE failure == [type |-> "failure"]
           result == JsonArray(j, p)
           again == JsonAgain(u)
           whole == WholeReals(u)
           throws == \E n \in DOMAIN fresh : fresh[n] = NaN
<1>f. failure = [type |-> "failure"]
    OBVIOUS
<1> HIDE DEF u, j, type, shape, elems, new, fresh, failure, result, again, whole
<1>11. DOMAIN fresh = 1..Product(shape) /\ \A n \in 1..Product(shape) : fresh[n] = Element(new, Number(type, elems[n]))
    BY <1>8
<1>12. ~(Len(shape) > MaxRank)
    BY <1>2, LenProperties, SerializersAssumption
<1>13. result = IF throws THEN failure ELSE Array(new, shape, fresh)
    BY <1>7, <1>12, <1>f DEF result
<1>14. CASE ~whole
    <2>1. new = type
        BY <1>4, <1>10, <1>14 DEF whole
    <2>2. \A n \in 1..Product(shape) : Element(type, Number(type, elems[n])) = elems[n] /\ elems[n] # NaN
        BY <1>2, <1>3, <1>6 DEF type
    <2>3. fresh = elems
        BY <1>8, <1>9, <2>1, <2>2
    <2>4. ~throws
        BY <1>11, <2>1, <2>2
    <2>5. result = u
        BY <1>5, <1>13, <2>1, <2>3, <2>4
    <2> QED
        BY <1>10, <1>14, <2>5 DEF u, j, result, whole, again
<1>15. CASE whole
    <2>1. new = "INT32" /\ type = "DOUBLE"
        BY <1>4, <1>10, <1>15 DEF whole
    <2>2. \A n \in 1..Product(shape) :
            Element("INT32", Number("DOUBLE", elems[n])) = IF elems[n] > 2 * IntMax THEN NaN ELSE elems[n]
        BY <1>3, <1>6, <2>1 DEF type
    <2>3. CASE \E n \in Elements(u) : n > 2 * IntMax
        <3>1. PICK n \in Elements(u) : n > 2 * IntMax
            BY <2>3
        <3>2. PICK k \in 1..Product(shape) : n = elems[k]
            BY <1>e
        <3>3. fresh[k] = NaN
            BY <1>11, <2>1, <2>2, <3>1, <3>2
        <3>4. result = failure
            BY <1>11, <1>13, <3>3
        <3> QED
            BY <1>10, <1>15, <1>f, <2>3, <3>4 DEF u, j, result, whole, again
    <2>4. CASE ~(\E n \in Elements(u) : n > 2 * IntMax)
        <3>1. \A n \in 1..Product(shape) :
                Element(new, Number(type, elems[n])) = elems[n] /\ elems[n] # NaN
            BY <1>3, <1>6, <2>1, <2>2, <2>4
        <3>2. fresh = elems
            BY <1>8, <1>9, <3>1
        <3>3. ~throws
            BY <1>11, <3>1
        <3>4. result = Array("INT32", shape, elems)
            BY <1>13, <2>1, <3>2, <3>3
        <3> QED
            BY <1>10, <1>15, <2>4, <3>4 DEF u, j, result, whole, again
    <2> QED
        BY <2>3, <2>4
<1> QED
    BY <1>14, <1>15

\* What becomes of each kind of value.
LEMMA JsonToNodeBy ==
    ASSUME NEW j, NEW p
    PROVE  /\ j[p].type = "null" => JsonToNode(j, p) = EmptyNode
           /\ j[p].type = "string" => JsonToNode(j, p) = Array("STRING", <<>>, <<j[p].n>>)
           /\ j[p].type = "bool" => JsonToNode(j, p) = Array("BOOL", <<>>, <<j[p].n>>)
           /\ j[p].type = "real" => JsonToNode(j, p) = Array("DOUBLE", <<>>, <<j[p].n>>)
           /\ j[p].type = "int" /\ j[p].n <= 2 * IntMax => JsonToNode(j, p) = Array("INT32", <<>>, <<j[p].n>>)
           /\ j[p].type = "object" => JsonToNode(j, p) = StructNode(j[p].names)
           /\ j[p].type = "array" => JsonToNode(j, p) = IF Numeric(j, p) THEN JsonArray(j, p) ELSE ListNode(Len(j[p].names))
<1>1. ~Numeric(j, p) \/ j[p].type = "array"
    BY DEF Numeric
<1> DEFINE v == j[p]
           a == JsonArray(j, p)
           numeric == Numeric(j, p)
           failure == [type |-> "failure"]
           node == JsonToNode(j, p)
           fits == v.n <= 2 * IntMax
<1>3. node =
        IF v.type = "null" THEN EmptyNode
        ELSE IF v.type = "string" THEN Array("STRING", <<>>, <<v.n>>)
        ELSE IF v.type = "bool" THEN Array("BOOL", <<>>, <<v.n>>)
        ELSE IF v.type = "real" THEN Array("DOUBLE", <<>>, <<v.n>>)
        ELSE IF v.type = "int" /\ fits THEN Array("INT32", <<>>, <<v.n>>)
        ELSE IF numeric THEN a
        ELSE IF v.type = "array" THEN ListNode(Len(v.names))
        ELSE IF v.type = "object" THEN StructNode(v.names)
        ELSE failure
    BY DEF JsonToNode
<1> HIDE DEF v, a, numeric, failure, node, fits
<1>4. ~numeric \/ v.type = "array"
    BY <1>1 DEF v, numeric
<1> SUFFICES /\ v.type = "null" => node = EmptyNode
             /\ v.type = "string" => node = Array("STRING", <<>>, <<v.n>>)
             /\ v.type = "bool" => node = Array("BOOL", <<>>, <<v.n>>)
             /\ v.type = "real" => node = Array("DOUBLE", <<>>, <<v.n>>)
             /\ v.type = "int" /\ fits => node = Array("INT32", <<>>, <<v.n>>)
             /\ v.type = "object" => node = StructNode(v.names)
             /\ v.type = "array" => node = IF numeric THEN a ELSE ListNode(Len(v.names))
    BY DEF v, a, numeric, node, fits
<1> QED
    BY <1>3, <1>4

\* A scalar of a tree that was read comes back as it is.
LEMMA ScalarAgain ==
    ASSUME NEW t, Wellformed(t), ~Failed(ToJson(t)), NEW p \in DOMAIN t, ReadNode(t[p]), FullNode(t[p]),
           t[p] = Array(t[p].type, t[p].shape, t[p].elems), t[p].shape = <<>>
    PROVE  JsonToNode(ToJson(t), p) = t[p] /\ ToJson(t)[p].type # "array"
<1> DEFINE u == t[p]
           j == ToJson(t)
           type == u.type
           elems == u.elems
           v == j[p]
           e == <<>>
<1>1. /\ type \in {"DOUBLE", "INT32", "BOOL"} /\ u.shape = e /\ u.shape \in Seq(Nat)
      /\ Len(elems) = 1 /\ elems \in Seq(Int \cup {NaN}) /\ DataNode(u) /\ type # "STRING"
      /\ Product(u.shape) # 0
    BY DataNodeIs, ScalarProduct DEF ReadNode, FullNode
<1>2. ~Failed(NodeToJson(u)) /\ v = NodeToJson(u)[e] /\ e \in DOMAIN NodeToJson(u)
    BY DocAt, ToJsonAt
<1>3. NodeToJson(u) = Nested(u) /\ NodeOK(u)
    BY <1>1, <1>2, NodeToJsonIs DEF Failed, DataNode
<1>4. v = Number(type, At(u, ItemPath(e)))
    <2> HIDE DEF e
    <2>1. v = IF Len(e) < Len(u.shape) THEN JInner("array", ItemNames(u.shape[Len(e) + 1]))
              ELSE Number(type, At(u, ItemPath(e)))
        BY <1>1, <1>2, <1>3, NestedAt
    <2>2. ~(Len(e) < Len(u.shape))
        BY <1>1, LenProperties
    <2> QED
        BY <2>1, <2>2
<1>5. At(u, ItemPath(e)) \in Elements(u)
    <2> HIDE DEF e
    <2>1. PartPath(u.shape, e)
        BY <1>1, <1>2, <1>3, NestedAt
    <2>2. ItemPath(e) \in Indices(u.shape)
        BY <1>1, <2>1, WholePath
    <2> QED
        BY <1>1, <2>2, ElementsAt
<1> DEFINE n == At(u, ItemPath(e))
<1>6. n = elems[1] /\ elems = <<n>>
    BY <1>1, <1>5 DEF Elements
<1>7. n \in Int /\ n # NaN /\ (type = "INT32" => n <= 2 * IntMax)
    BY <1>1, <1>5, ElementAgain DEF ReadNode, FullNode
<1>8. u = Array(type, <<>>, elems)
    BY <1>1
<1> HIDE DEF n, u, j, type, elems, v, e
<1>9. v = Number(type, n)
    BY <1>4 DEF n
<1>10. /\ type = "BOOL" => v.type = "bool" /\ v.n = n
       /\ type = "DOUBLE" => v.type = "real" /\ v.n = n
       /\ type = "INT32" => v.type = "int" /\ v.n = n
    BY <1>7, <1>9, JsonIs DEF Number, Reals
<1>11. /\ v.type = "bool" => JsonToNode(j, p) = Array("BOOL", <<>>, <<v.n>>)
       /\ v.type = "real" => JsonToNode(j, p) = Array("DOUBLE", <<>>, <<v.n>>)
       /\ v.type = "int" /\ v.n <= 2 * IntMax => JsonToNode(j, p) = Array("INT32", <<>>, <<v.n>>)
    BY JsonToNodeBy DEF v
<1>12. JsonToNode(j, p) = Array(type, <<>>, <<n>>)
    BY <1>1, <1>7, <1>10, <1>11
<1>13. JsonToNode(j, p) = u /\ v.type # "array"
    BY <1>1, <1>6, <1>8, <1>10, <1>12
<1> QED
    BY <1>13 DEF u, j, v

\* Every node of a tree that was read.
LEMMA NodeAgain ==
    ASSUME NEW t, ReadTree(t), ~Failed(ToJson(t)), NEW p \in DOMAIN t
    PROVE  /\ JsonToNode(ToJson(t), p) = JsonAgain(t[p])
           /\ Inner(t[p]) => ~Numeric(ToJson(t), p)
           /\ DataNode(t[p]) /\ Product(t[p].shape) # 0 /\ t[p].shape # <<>> => Numeric(ToJson(t), p)
<1> DEFINE u == t[p]
           j == ToJson(t)
           v == j[p]
           e == <<>>
<1>1. /\ Wellformed(t) /\ NodeOK(u)
      /\ u.type \notin {"EMPTY", "STRUCT", "LIST"} =>
             ReadNode(u) /\ u = Array(u.type, u.shape, u.elems)
      /\ u.type = "STRUCT" => u.names # <<>> /\ Sorted(u.names) = u.names
      /\ u.type = "LIST" => ~Uniform(Ints \cup Reals, t, p) /\ ~Uniform({"BOOL"}, t, p)
    BY DEF ReadTree, Wellformed
<1>2. ~Failed(NodeToJson(u)) /\ v = NodeToJson(u)[e] /\ e \in DOMAIN NodeToJson(u)
    BY <1>1, DocAt, ToJsonAt
<1>n. \A w : Alone(w)[e] = w
    BY AloneIs
<1> HIDE DEF e
<1>3. CASE u.type = "EMPTY"
    <2>1. v = JNull
        BY <1>1, <1>2, <1>3, <1>n, NodeToJsonIs
    <2>2. JsonToNode(j, p) = EmptyNode
        BY <2>1, JsonToNodeBy, JsonIs
    <2>3. u = EmptyNode /\ ~Inner(u) /\ ~DataNode(u)
        BY <1>1, <1>3 DEF NodeOK, Inner, DataNode
    <2> QED
        BY <1>3, <2>2, <2>3 DEF JsonAgain
<1>4. CASE u.type = "STRUCT"
    <2> DEFINE names == u.names
    <2>1. NodeToJson(u) = Alone(JInner("object", names))
        BY <1>1, <1>4, NodeToJsonIs
    <2>2. v = JInner("object", names)
        BY <1>2, <1>n, <2>1
    <2>3. u = StructNode(names) /\ Inner(u) /\ ~DataNode(u)
        BY <1>1, <1>4 DEF NodeOK, Inner, DataNode
    <2> HIDE DEF names
    <2>4. v.type = "object" /\ v.names = names
        BY <2>2, JInnerIs
    <2>5. JsonToNode(j, p) = StructNode(names)
        BY <2>4, JsonToNodeBy
    <2>6. ~Numeric(j, p)
        BY <2>4 DEF Numeric
    <2> QED
        BY <1>4, <2>3, <2>5, <2>6 DEF JsonAgain
<1>5. CASE u.type = "LIST"
    <2> DEFINE names == u.names
    <2>1. NodeToJson(u) = Alone(JInner("array", names))
        BY <1>1, <1>5, NodeToJsonIs
    <2>2. v = JInner("array", names)
        BY <1>2, <1>n, <2>1
    <2>3. u = ListNode(Len(names)) /\ Inner(u) /\ ~DataNode(u)
        BY <1>1, <1>5 DEF NodeOK, Inner, DataNode
    <2> HIDE DEF names
    <2>4. v.type = "array" /\ v.names = names
        BY <2>2, JInnerIs
    <2>5. ~Numeric(j, p)
        BY <1>1, <1>5, NumericIs
    <2>6. JsonToNode(j, p) = ListNode(Len(names))
        BY <2>4, <2>5, JsonToNodeBy
    <2> QED
        BY <1>5, <2>3, <2>5, <2>6 DEF JsonAgain
<1>6. CASE u.type \notin {"EMPTY", "STRUCT", "LIST"}
    <2>1. ReadNode(u) /\ u = Array(u.type, u.shape, u.elems) /\ DataNode(u) /\ ~Inner(u)
        BY <1>1, <1>6 DEF ReadNode, Inner
    <2>2. u.type = "STRING" => u.shape = <<>> /\ Product(u.shape) = 1 /\ Len(u.elems) = 1
        BY <2>1, DataNodeIs, ScalarProduct
    <2>3. CASE u.type = "STRING"
        <3> DEFINE n == u.elems[1]
        <3>1. NodeToJson(u) = Alone(Json("string", n))
            BY <1>1, <2>3, NodeToJsonIs
        <3>2. v = Json("string", n)
            BY <1>2, <1>n, <3>1
        <3>3. u.elems = <<n>>
            <4>1. u.elems \in Seq(Int \cup {NaN})
                BY <2>1, DataNodeIs
            <4> QED
                BY <2>2, <2>3, <4>1
        <3>4. u = Array("STRING", <<>>, <<n>>)
            BY <2>1, <2>2, <2>3, <3>3
        <3> HIDE DEF n
        <3>5. v.type = "string" /\ v.n = n
            BY <3>2, JsonIs
        <3>6. JsonToNode(j, p) = Array("STRING", <<>>, <<n>>)
            BY <3>5, JsonToNodeBy
        <3>7. JsonAgain(u) = u
            BY <2>2, <2>3 DEF JsonAgain, WholeReals
        <3> QED
            BY <2>1, <2>2, <2>3, <3>4, <3>6, <3>7
    <2>4. CASE u.type # "STRING" /\ Product(u.shape) = 0
        <3>1. NodeToJson(u) = Alone(JNull)
            BY <1>1, <1>2, <2>1, <2>4, NodeToJsonIs DEF Failed
        <3>2. v = JNull
            BY <1>2, <1>n, <3>1
        <3>3. JsonToNode(j, p) = EmptyNode
            BY <3>2, JsonToNodeBy, JsonIs
        <3> QED
            BY <1>6, <2>1, <2>4, <3>3 DEF JsonAgain
    <2>5. CASE u.type # "STRING" /\ Product(u.shape) # 0 /\ u.shape = <<>>
        <3>1. FullNode(u)
            BY <2>1, <2>5 DEF FullNode
        <3>2. JsonToNode(j, p) = u
            BY <1>1, <2>1, <2>5, <3>1, ScalarAgain
        <3>3. JsonAgain(u) = u
            BY <1>6, <2>5 DEF JsonAgain, WholeReals
        <3> QED
            BY <2>1, <2>5, <3>2, <3>3
    <2>6. CASE u.type # "STRING" /\ Product(u.shape) # 0 /\ u.shape # <<>>
        <3>1. FullNode(u)
            BY <2>1, <2>6 DEF FullNode
        <3>2. JsonArray(j, p) = JsonAgain(u)
            BY <1>1, <2>1, <2>6, <3>1, ArrayAgain
        <3>3. IsAllNumeric(j, p) \/ IsAllBool(j, p)
            BY <1>1, <2>1, <3>1, AgainType
        <3>4. v.type = "array"
            <4>1. u.shape \in Seq(Nat) /\ 0 < Len(u.shape) /\ Len(e) = 0
                BY <2>1, <2>6, DataNodeIs DEF e
            <4>2. NodeToJson(u) = Nested(u)
                BY <1>1, <1>2, <2>1, <2>6, NodeToJsonIs DEF Failed
            <4> DEFINE names == ItemNames(u.shape[Len(e) + 1])
            <4>3. v = JInner("array", names)
                BY <1>2, <4>1, <4>2, NestedAt
            <4> HIDE DEF names
            <4> QED
                BY <4>3, JInnerIs
        <3>5. Numeric(j, p)
            BY <3>3, <3>4 DEF Numeric
        <3>6. JsonToNode(j, p) = JsonAgain(u)
            BY <3>2, <3>4, <3>5, JsonToNodeBy
        <3> QED
            BY <2>1, <3>5, <3>6
    <2> QED
        BY <2>3, <2>4, <2>5, <2>6
<1> QED
    BY <1>3, <1>4, <1>5, <1>6

\* A tree that was read is always written again.
LEMMA ReadWritten ==
    ASSUME NEW t, ReadTree(t)
    PROVE  ~Failed(ToJson(t))
<1>1. Wellformed(t) /\ \A p \in DOMAIN t : NodeOK(t[p])
    BY DEF ReadTree, Wellformed
<1>2. ASSUME NEW p \in DOMAIN t PROVE ~(Len(t[p].shape) > MaxRank)
    <2>1. CASE t[p].type \in {"EMPTY", "STRUCT", "LIST"}
        <3>1. Len(t[p].shape) = 0
            BY <1>1, <2>1, NodeToJsonIs
        <3> QED
            BY <3>1, SerializersAssumption
    <2>2. CASE t[p].type \notin {"EMPTY", "STRUCT", "LIST"}
        <3>1. ReadNode(t[p])
            BY <2>2 DEF ReadTree
        <3>2. Len(t[p].shape) <= MaxRank /\ t[p].shape \in Seq(Nat)
            BY <3>1, DataNodeIs DEF ReadNode
        <3> QED
            BY <3>2, LenProperties, SerializersAssumption
    <2> QED
        BY <2>1, <2>2
<1> QED
    BY <1>1, <1>2, ToJsonFails

\* A tree that was read keeps its paths.
LEMMA PathsAgain ==
    ASSUME NEW t, ReadTree(t), NEW x
    PROVE  x \in DOMAIN t <=> /\ x \in DOMAIN ToJson(t)
                              /\ \A q \in DOMAIN ToJson(t) : IsPrefix(q, x) /\ Numeric(ToJson(t), q) => q = x
<1> DEFINE j == ToJson(t)
<1>1. Wellformed(t) /\ Linked(t) /\ ~Failed(j) /\ \A p \in DOMAIN t : NodeOK(t[p])
    BY ReadWritten DEF ReadTree, Wellformed
<1>2. DOMAIN j \subseteq Paths /\ DOMAIN t \subseteq Paths
    BY <1>1, ToJsonOK, DocumentNames DEF Linked, Paths
<1>3. ASSUME x \in DOMAIN t
      PROVE  x \in DOMAIN j /\ \A q \in DOMAIN j : IsPrefix(q, x) /\ Numeric(j, q) => q = x
    <2>1. x \in DOMAIN j
        BY <1>1, <1>3, DocAt
    <2>2. ASSUME NEW q \in DOMAIN j, IsPrefix(q, x), Numeric(j, q), q # x PROVE FALSE
        <3>1. q \in Paths /\ q \in DOMAIN t
            BY <1>1, <1>2, <1>3, <2>2, LinkedPrefix
        <3>2. t[q].names # <<>>
            BY <1>1, <1>3, <2>2, <3>1, LinkedNext
        <3>3. Inner(t[q])
            BY <1>1, <3>1, <3>2 DEF NodeOK
        <3> QED
            BY <1>1, <2>2, <3>1, <3>3, NodeAgain
    <2> QED
        BY <2>1, <2>2
<1>4. ASSUME x \in DOMAIN j, \A q \in DOMAIN j : IsPrefix(q, x) /\ Numeric(j, q) => q = x
      PROVE  x \in DOMAIN t
    <2>1. PICK p \in DOMAIN t : \E q \in DOMAIN NodeToJson(t[p]) : x = p \o q
        BY <1>1, <1>4, ToJsonAt
    <2>2. PICK q \in DOMAIN NodeToJson(t[p]) : x = p \o q
        BY <2>1
    <2> DEFINE u == t[p]
               e == <<>>
    <2>3. p \in Seq(Int) /\ q \in Seq(Int) /\ p \in DOMAIN j /\ NodeOK(u) /\ ~Failed(NodeToJson(u))
        BY <1>1, <1>2, <2>2, ToJsonAt, DocAt DEF Paths
    <2>4. p \o e = p /\ (p \o q = p => q = e) /\ IsPrefix(p, x)
        <3>1. p \o <<>> = p
            BY <2>3, ConcatPaths
        <3>2. p \o q = p <=> q = <<>>
            BY <2>3, ConcatPaths
        <3>3. IsPrefix(p, p \o q)
            BY <2>3, PrefixConcat
        <3> QED
            BY <2>2, <3>1, <3>2, <3>3
    <2>5. CASE q = e
        BY <2>2, <2>4, <2>5
    <2>6. CASE q # e
        <3> HIDE DEF u
        <3>1. \A w : NodeToJson(u) # Alone(w)
            BY <2>2, <2>6, AloneIs DEF u
        <3>2. DataNode(u) /\ u.type # "STRING" /\ Product(u.shape) # 0
            <4> DEFINE text == Json("string", u.elems[1])
                       object == JInner("object", Sorted(u.names))
                       array == JInner("array", u.names)
            <4>1. /\ u.type = "EMPTY" => NodeToJson(u) = Alone(JNull)
                  /\ u.type = "STRING" => NodeToJson(u) = Alone(text)
                  /\ u.type = "STRUCT" => NodeToJson(u) = IF u.names = <<>> THEN Alone(JNull) ELSE Alone(object)
                  /\ u.type = "LIST" => NodeToJson(u) = Alone(array)
                  /\ DataNode(u) /\ u.type # "STRING" =>
                       NodeToJson(u) = IF Len(u.shape) > MaxRank THEN Failure
                                       ELSE IF Product(u.shape) = 0 THEN Alone(JNull)
                                       ELSE Nested(u)
                BY <2>3, NodeToJsonIs
            <4> HIDE DEF text, object, array
            <4>2. u.type \notin {"EMPTY", "STRING", "STRUCT", "LIST"}
                BY <3>1, <4>1
            <4>3. DataNode(u) /\ u.type # "STRING"
                BY <2>3, <4>2 DEF DataNode, Inner
            <4>4. NodeToJson(u) # Failure
                BY <2>3 DEF Failed
            <4> QED
                BY <3>1, <4>1, <4>3, <4>4
        <3>3. NodeToJson(u) = Nested(u) /\ u.shape \in Seq(Nat)
            BY <2>3, <3>2, NodeToJsonIs, DataNodeIs DEF Failed
        <3>4. PartPath(u.shape, q)
            BY <2>2, <3>3, NestedAt DEF u
        <3>5. u.shape # <<>>
            <4>1. Len(q) \in Nat /\ Len(q) # 0 /\ Len(q) <= Len(u.shape)
                BY <2>3, <2>6, <3>4 DEF PartPath
            <4> QED
                BY <4>1
        <3>6. Numeric(j, p)
            BY <1>1, <3>2, <3>5, NodeAgain DEF u
        <3>7. p = x
            BY <1>4, <2>3, <2>4, <3>6
        <3> QED
            BY <2>2, <2>4, <2>6, <3>7
    <2> QED
        BY <2>5, <2>6
<1> QED
    BY <1>3, <1>4

\* What a tree that was read becomes when it is written and read again.
LEMMA TripAgain ==
    ASSUME NEW t, ReadTree(t), \A p \in DOMAIN t : JsonAgain(t[p]).type # "failure"
    PROVE  FromJson(ToJson(t)) = [p \in DOMAIN t |-> JsonAgain(t[p])]
<1> DEFINE j == ToJson(t)
           paths == {p \in DOMAIN j : \A q \in DOMAIN j : IsPrefix(q, p) /\ Numeric(j, q) => q = p}
           r == [p \in paths |-> JsonToNode(j, p)]
<1>1. paths = DOMAIN t
    BY PathsAgain
<1>2. \A p \in DOMAIN t : JsonToNode(j, p) = JsonAgain(t[p])
    BY ReadWritten, NodeAgain
<1>3. FromJson(j) = IF \E p \in paths : r[p].type = "failure" THEN Failure ELSE r
    BY DEF FromJson
<1> HIDE DEF j, paths
<1>4. r = [p \in DOMAIN t |-> JsonAgain(t[p])]
    BY <1>1, <1>2
<1>5. \A p \in paths : r[p].type # "failure"
    BY <1>1, <1>2
<1> QED
    BY <1>3, <1>4, <1>5 DEF j

\* Reading it again fails if one of its nodes cannot be read again.
LEMMA TripAgainFails ==
    ASSUME NEW t, ReadTree(t), NEW p \in DOMAIN t, JsonAgain(t[p]).type = "failure"
    PROVE  FromJson(ToJson(t)) = Failure
<1> DEFINE j == ToJson(t)
           paths == {x \in DOMAIN j : \A q \in DOMAIN j : IsPrefix(q, x) /\ Numeric(j, q) => q = x}
           r == [x \in paths |-> JsonToNode(j, x)]
<1>1. p \in paths
    BY PathsAgain
<1>2. JsonToNode(j, p) = JsonAgain(t[p])
    BY ReadWritten, NodeAgain
<1>3. FromJson(j) = IF \E x \in paths : r[x].type = "failure" THEN Failure ELSE r
    BY DEF FromJson
<1> HIDE DEF j, paths
<1>4. r[p].type = "failure"
    BY <1>1, <1>2
<1> QED
    BY <1>1, <1>3, <1>4 DEF j

\* A node that was read and comes back does not change any more.
LEMMA AgainTwice ==
    ASSUME NEW u, u.type \notin {"EMPTY", "STRUCT", "LIST"} => ReadNode(u),
           u.type = "EMPTY" => u = EmptyNode,
           JsonAgain(u).type # "failure"
    PROVE  JsonAgain(JsonAgain(u)) = JsonAgain(u) /\ JsonAgain(u).type # "failure"
<1>1. JsonAgain(EmptyNode) = EmptyNode
    BY EmptyNodeOK DEF JsonAgain
<1>2. ASSUME u.type \notin {"EMPTY", "STRUCT", "LIST"}, Product(u.shape) # 0
      PROVE  LET a == Array("INT32", u.shape, u.elems)
             IN  JsonAgain(a) = a
    <2> DEFINE a == Array("INT32", u.shape, u.elems)
    <2>1. a.type = "INT32" /\ a.shape = u.shape
        BY ArrayFields
    <2> HIDE DEF a
    <2>2. JsonAgain(a) = a
        BY <1>2, <2>1 DEF JsonAgain, WholeReals
    <2> QED
        BY <2>2 DEF a
<1> DEFINE a == Array("INT32", u.shape, u.elems)
           failure == [type |-> "failure"]
<1>3. failure.type = "failure"
    OBVIOUS
<1>4. JsonAgain(u) = IF u.type \in {"EMPTY", "STRUCT", "LIST"} THEN u
                     ELSE IF Product(u.shape) = 0 THEN EmptyNode
                     ELSE IF ~WholeReals(u) THEN u
                     ELSE IF \E n \in Elements(u) : n > 2 * IntMax THEN failure
                     ELSE a
    BY DEF JsonAgain
<1> HIDE DEF a, failure
<1> QED
    BY <1>1, <1>2, <1>3, <1>4 DEF a

\* The third time a tree is written to JSON and read it comes back as it is.
LEMMA SettlesJson ==
    ASSUME NEW t, Wellformed(t), Shallow(t), ~Failed(Trip("json", t)), ~Failed(Trip("json", Trip("json", t)))
    PROVE  LET twice == Trip("json", Trip("json", t))
           IN  Trip("json", twice) = twice
<1> DEFINE once == Trip("json", t)
           twice == Trip("json", once)
<1>0. "json" \in Formats
    BY DEF Formats
<1>w. \A s : Written("json", s) = ToJson(s) /\ ReadBack("json", s) = FromJson(s)
    BY DEF Written, ReadBack
<1>1. ~Failed(ToJson(t)) /\ once = FromJson(ToJson(t)) /\ ~Failed(once)
    BY <1>0, <1>w, TripIs
<1>2. ReadTree(once) /\ Shallow(once)
    BY <1>1, JsonRead
<1> HIDE DEF once
<1>3. ~Failed(ToJson(once)) /\ twice = FromJson(ToJson(once)) /\ ~Failed(twice)
    BY <1>0, <1>w, TripIs DEF once
<1>4. ReadTree(twice) /\ Shallow(twice)
    <2>1. Wellformed(once) /\ Shallow(once)
        BY <1>2 DEF ReadTree
    <2> HIDE DEF twice
    <2> QED
        BY <1>3, <2>1, JsonRead
<1> HIDE DEF twice
<1>5. \A p \in DOMAIN once : JsonAgain(once[p]).type # "failure"
    BY <1>2, <1>3, TripAgainFails DEF Failed
<1>6. twice = [p \in DOMAIN once |-> JsonAgain(once[p])]
    BY <1>2, <1>3, <1>5, TripAgain
<1>7. ASSUME NEW p \in DOMAIN once
      PROVE  JsonAgain(JsonAgain(once[p])) = JsonAgain(once[p])
    <2>1. /\ once[p].type \notin {"EMPTY", "STRUCT", "LIST"} => ReadNode(once[p])
          /\ once[p].type = "EMPTY" => once[p] = EmptyNode
        BY <1>2 DEF ReadTree, Wellformed, NodeOK
    <2> QED
        BY <1>5, <2>1, AgainTwice
<1>8. \A p \in DOMAIN twice : JsonAgain(twice[p]) = twice[p] /\ JsonAgain(twice[p]).type # "failure"
    BY <1>5, <1>6, <1>7
<1>9. FromJson(ToJson(twice)) = [p \in DOMAIN twice |-> JsonAgain(twice[p])]
    BY <1>4, <1>8, TripAgain
<1>10. [p \in DOMAIN twice |-> JsonAgain(twice[p])] = twice
    <2>1. twice = [p \in DOMAIN twice |-> twice[p]]
        BY <1>6
    <2> QED
        BY <1>8, <2>1
<1>11. ~Failed(ToJson(twice))
    BY <1>4, ReadWritten
<1>12. Trip("json", twice) = FromJson(ToJson(twice))
    BY <1>3, <1>11, <1>w DEF Trip
<1>13. Trip("json", twice) = twice
    BY <1>9, <1>10, <1>12
<1> QED
    BY <1>13 DEF twice, once

\* What is read settles after two rounds through a file of any format, whatever
\* the tree is: HDC::save and HDC::load.
THEOREM SettlesCorrect == Spec => []Settles
<1>1. ASSUME Consistent PROVE Settles
    <2>1. ASSUME NEW f \in Formats, ~Failed(Trip(f, tree)), ~Failed(Trip(f, Trip(f, tree)))
          PROVE  Trip(f, Trip(f, Trip(f, tree))) = Trip(f, Trip(f, tree))
        <3>1. Wellformed(tree) /\ Shallow(tree)
            BY <1>1 DEF Consistent
        <3>2. CASE f = "json"
            BY <2>1, <3>1, <3>2, SettlesJson
        <3>3. CASE f = "hdf5"
            BY <2>1, <3>1, <3>3, SettlesHdf5
        <3>4. CASE f = "flatbuffers"
            <4>1. Trip("flatbuffers", Trip("flatbuffers", tree)) = Trip("flatbuffers", tree)
                BY <2>1, <3>1, <3>4, SettlesFlatBuffers
            <4> QED
                BY <3>4, <4>1
        <3> QED
            BY <3>2, <3>3, <3>4 DEF Formats
    <2> QED
        BY <2>1 DEF Settles
<1> QED
    BY <1>1, AlwaysConsistent, PTL

-----------------------------------------------------------------------------
(* Leaves come back from every format.                                     *)

\* Two nodes of one tree with the same elements at the same indexes say the same.
LEMMA SameLeaves ==
    ASSUME NEW p, NEW u, NEW v, v.shape = u.shape, (v.type = "STRING") = (u.type = "STRING"),
           \A i \in Indices(u.shape) : At(v, i) = At(u, i)
    PROVE  LeavesAt(p, v) = LeavesAt(p, u)
<1> DEFINE places(w) == {x \in Indices(w.shape) : At(w, x) # NaN}
           leaf(w, i) == [path |-> p \o ItemPath(i), text |-> w.type = "STRING", value |-> At(w, i)]
<1>1. places(v) = places(u)
    OBVIOUS
<1>2. \A i \in places(u) : leaf(v, i) = leaf(u, i)
    OBVIOUS
<1>3. LeavesAt(p, v) = {leaf(v, i) : i \in places(v)} /\ LeavesAt(p, u) = {leaf(u, i) : i \in places(u)}
    BY DEF LeavesAt
<1> HIDE DEF places, leaf
<1> QED
    BY <1>1, <1>2, <1>3

\* A missing value says nothing.
LEMMA NoLeaves ==
    ASSUME NEW p
    PROVE  LeavesAt(p, Array("DOUBLE", <<1>>, <<NaN>>)) = {}
<1> DEFINE s == <<1>>
           u == Array("DOUBLE", s, <<NaN>>)
<1>1. s \in Seq(Nat) /\ Product(s) = 1
    BY OneElement
<1>2. u.shape = s /\ u.elems = <<NaN>> /\ Elements(u) = {NaN}
    <2>1. u.shape = s /\ u.elems = <<NaN>>
        BY ArrayFields
    <2>2. Elements(u) = {<<NaN>>[i] : i \in DOMAIN <<NaN>>}
        BY <2>1 DEF Elements
    <2> QED
        BY <2>1, <2>2
<1>3. \A i \in Indices(u.shape) : At(u, i) = NaN
    <2>1. ASSUME NEW i \in Indices(u.shape) PROVE At(u, i) = NaN
        <3>1. u.elems \in Seq({NaN}) /\ Len(u.elems) = Product(u.shape)
            <4>1. <<NaN>> \in Seq({NaN}) /\ Len(<<NaN>>) = 1
                OBVIOUS
            <4> HIDE DEF u, s
            <4> QED
                BY <1>1, <1>2, <4>1
        <3> HIDE DEF u, s
        <3>2. At(u, i) \in Elements(u)
            BY <1>1, <1>2, <3>1, AtElement
        <3> QED
            BY <1>2, <3>2
    <2> QED
        BY <2>1
<1> HIDE DEF u, s
<1>4. LeavesAt(p, u) = {}
    BY <1>3 DEF LeavesAt
<1> QED
    BY <1>4 DEF u, s

\* An array in C order with the same bytes says the same.
LEMMA SameElements ==
    ASSUME NEW u, u.shape \in Seq(Nat), u.order \in {"C", "F"}, u.order = "F" => Len(u.shape) = 1,
           NEW v, v.shape = u.shape, v.elems = u.elems, v.order = "C",
           NEW i \in Indices(u.shape)
    PROVE  At(v, i) = At(u, i)
<1>1. Offset(v, i) = Offset(u, i)
    <2>1. CASE u.order = "C"
        BY <2>1 DEF Offset
    <2>2. CASE u.order = "F"
        <3>1. i \in Seq(Nat) /\ Len(i) = Len(u.shape) /\ Len(u.shape) <= 1
            BY <2>2, IndicesAre
        <3>2. Reverse(u.shape) = u.shape /\ Reverse(i) = i
            BY <3>1, OneDimension
        <3> QED
            BY <2>2, <3>2 DEF Offset
    <2> QED
        BY <2>1, <2>2
<1> QED
    BY <1>1 DEF At

\* HDF5 and flatbuffers: each node says what it said.
LEMMA NodeLeaves ==
    ASSUME NEW f \in {"hdf5", "flatbuffers"}, NEW t, Wellformed(t), Holds(f, t), ~Failed(Written(f, t)),
           NEW p \in DOMAIN t
    PROVE  LET r == ReadBack(f, Written(f, t))
           IN  /\ DOMAIN r = DOMAIN t
               /\ IF Inner(t[p]) \/ t[p].type = "EMPTY"
                  THEN Inner(r[p]) \/ r[p].type = "EMPTY" \/ LeavesAt(p, r[p]) = {}
                  ELSE /\ ~Inner(r[p]) /\ r[p].type # "EMPTY"
                       /\ LeavesAt(p, r[p]) = LeavesAt(p, t[p])
<1> DEFINE u == t[p]
           r == ReadBack(f, Written(f, t))
           v == r[p]
<1>1. NodeOK(u) /\ (u.order = "F" => Len(u.shape) = 1) /\ ~u.external
    BY DEF Wellformed, Holds
<1>2. CASE f = "hdf5"
    <2>1. r = FromHdf5(ToHdf5(t)) /\ ~Failed(ToHdf5(t))
        BY <1>2 DEF ReadBack, Written
    <2>2. DOMAIN r = DOMAIN t
          /\ v = IF u.type = "STRUCT"
                 THEN IF Sorted(u.names) = <<>> THEN EmptyNode ELSE StructNode(Sorted(u.names))
                 ELSE IF u.type = "LIST" THEN u
                 ELSE Dataset(u)
        BY <2>1, TripHdf5
    <2> HIDE DEF u, r
    <2> DEFINE names == Sorted(u.names)
    <2> HIDE DEF names
    <2>3. EmptyNode.type = "EMPTY" /\ StructNode(names).type = "STRUCT"
        BY DEF EmptyNode, StructNode, Array, Node
    <2>4. CASE Inner(u)
        <3>1. v.type \in {"STRUCT", "LIST", "EMPTY"}
            BY <2>2, <2>3, <2>4 DEF Inner, names
        <3> QED
            BY <2>2, <2>4, <3>1 DEF Inner, u, r
    <2>5. CASE u.type = "EMPTY"
        <3>1. v = Array("DOUBLE", <<1>>, <<NaN>>)
            BY <2>2, <2>5 DEF Dataset
        <3>2. LeavesAt(p, v) = {}
            BY <3>1, NoLeaves
        <3> QED
            BY <2>2, <2>5, <3>2 DEF u, r
    <2>6. CASE ~Inner(u) /\ u.type # "EMPTY"
        <3>1. v = Dataset(u)
            BY <2>2, <2>6 DEF Inner
        <3>2. v.shape = u.shape /\ v.elems = u.elems /\ ~Inner(v) /\ v.type # "EMPTY" /\ v.order = "C"
            BY <1>1, <2>6, <3>1, SameBytes, DatasetOK DEF u
        <3>3. (v.type = "STRING") = (u.type = "STRING")
            <4>1. Dataset(u) = IF u.type = "BOOL" THEN Array("UINT8", u.shape, Bytes(u))
                               ELSE Array(u.type, u.shape, Bytes(u))
                BY <2>6 DEF Dataset
            <4>2. Array("UINT8", u.shape, Bytes(u)).type = "UINT8"
                  /\ Array(u.type, u.shape, Bytes(u)).type = u.type
                BY ArrayFields
            <4> QED
                BY <3>1, <4>1, <4>2
        <3>4. u.shape \in Seq(Nat) /\ u.order \in {"C", "F"}
            BY <1>1 DEF NodeOK, u
        <3> HIDE DEF v
        <3>5. LeavesAt(p, v) = LeavesAt(p, u)
            BY <1>1, <3>2, <3>3, <3>4, SameElements, SameLeaves DEF u
        <3> QED
            BY <2>2, <2>6, <3>2, <3>5 DEF u, r, v
    <2> QED
        BY <2>4, <2>5, <2>6
<1>3. CASE f = "flatbuffers"
    <2>1. r = FromFlatBuffers(ToFlatBuffers(t)) /\ ~Failed(ToFlatBuffers(t))
        BY <1>3 DEF ReadBack, Written
    <2>2. DOMAIN r = DOMAIN t
          /\ v = IF Inner(u) THEN IF u.names = <<>> THEN EmptyNode ELSE u ELSE Vector(u)
        BY <2>1, TripFlatBuffers
    <2> HIDE DEF u, r
    <2>3. EmptyNode.type = "EMPTY"
        BY DEF EmptyNode, Array, Node
    <2>4. CASE Inner(u)
        <3>1. v.type = "EMPTY" \/ Inner(v)
            BY <2>2, <2>3, <2>4
        <3> QED
            BY <2>2, <2>4, <3>1 DEF u, r
    <2>5. CASE u.type = "EMPTY"
        <3>1. v = EmptyNode
            BY <2>2, <2>5 DEF Vector, Inner
        <3> QED
            BY <2>2, <2>3, <2>5, <3>1 DEF u, r
    <2>6. CASE ~Inner(u) /\ u.type # "EMPTY"
        <3>1. v = Vector(u)
            BY <2>2, <2>6
        <3>2. v.shape = u.shape /\ v.elems = u.elems /\ ~Inner(v) /\ v.type # "EMPTY" /\ v.order = "C"
            BY <1>1, <2>6, <3>1, SameBytes, VectorOK DEF u
        <3>3. v.type = u.type
            BY <2>6, <3>1, ArrayFields DEF Vector
        <3>4. u.shape \in Seq(Nat) /\ u.order \in {"C", "F"}
            BY <1>1 DEF NodeOK, u
        <3> HIDE DEF v
        <3>5. LeavesAt(p, v) = LeavesAt(p, u)
            BY <1>1, <3>2, <3>3, <3>4, SameElements, SameLeaves DEF u
        <3> QED
            BY <2>2, <2>6, <3>2, <3>5 DEF u, r, v
    <2> QED
        BY <2>4, <2>5, <2>6
<1> QED
    BY <1>2, <1>3

\* A tree that HDF5 or flatbuffers can hold comes back with its values.
LEMMA LeavesBack ==
    ASSUME NEW f \in {"hdf5", "flatbuffers"}, NEW t, Wellformed(t), Holds(f, t), ~Failed(Written(f, t))
    PROVE  Leaves(ReadBack(f, Written(f, t))) = Leaves(t)
<1> DEFINE r == ReadBack(f, Written(f, t))
<1>1. DOMAIN r = DOMAIN t
    <2>1. <<>> \in DOMAIN t
        BY DEF Wellformed, Linked
    <2> QED
        BY <2>1, NodeLeaves
<1>2. \A p \in DOMAIN t :
            IF Inner(t[p]) \/ t[p].type = "EMPTY"
            THEN Inner(r[p]) \/ r[p].type = "EMPTY" \/ LeavesAt(p, r[p]) = {}
            ELSE /\ ~Inner(r[p]) /\ r[p].type # "EMPTY"
                 /\ LeavesAt(p, r[p]) = LeavesAt(p, t[p])
    BY NodeLeaves
<1> HIDE DEF r
<1>3. ASSUME NEW s PROVE \A l : l \in Leaves(s) <=> \E p \in DOMAIN s : ~Inner(s[p]) /\ s[p].type # "EMPTY" /\ l \in LeavesAt(p, s[p])
    BY DEF Leaves, LeafPaths
<1>4. \A l : l \in Leaves(r) <=> l \in Leaves(t)
    BY <1>1, <1>2, <1>3
<1> QED
    BY <1>4 DEF r

\* A tree that a format can hold is written.
LEMMA HeldWritten ==
    ASSUME NEW f \in Formats, NEW t, Wellformed(t), Holds(f, t)
    PROVE  ~Failed(Written(f, t))
<1>1. CASE f = "json"
    <2>1. \A p \in DOMAIN t : Len(t[p].shape) <= MaxRank /\ t[p].shape \in Seq(Nat)
        BY <1>1 DEF Holds, Wellformed, NodeOK
    <2>2. \A p \in DOMAIN t : ~(Len(t[p].shape) > MaxRank)
        BY <2>1, LenProperties, SerializersAssumption
    <2> QED
        BY <1>1, <2>2, ToJsonFails DEF Written
<1>2. CASE f # "json"
    <2>1. 1 \in 1..MaxRank
        BY SerializersAssumption
    <2>2. \A p \in DOMAIN t : ~Untransposable(t[p])
        BY <1>2, <2>1 DEF Holds, Untransposable
    <2> QED
        BY <1>2, <2>2, ToHdf5OK, ToFlatBuffersOK DEF Written, Formats
<1> QED
    BY <1>1, <1>2

\* What a document says.
Says(v) == v.type \in {"bool", "int", "real", "string"} /\ v.n # NaN
JsonLeaf(x, v) == [path |-> x, text |-> v.type = "string", value |-> v.n]
JsonLeaves(j) == {JsonLeaf(x, j[x]) : x \in {y \in DOMAIN j : Says(j[y])}}

\* A null, an array and an object say nothing themselves.
LEMMA NullSilent ==
    /\ ~Says(JNull)
    /\ \A names : ~Says(JInner("array", names)) /\ ~Says(JInner("object", names))
<1>1. \A names : JInner("array", names).type = "array" /\ JInner("object", names).type = "object"
    BY JInnerIs
<1>2. JNull.type = "null"
    BY JsonIs
<1> QED
    BY <1>1, <1>2 DEF Says

\* A number says its value unless that is missing.
LEMMA NumberSays ==
    ASSUME NEW type \in {"BOOL"} \cup Ints \cup Reals, NEW n
    PROVE  /\ Says(Number(type, n)) <=> n # NaN
           /\ n # NaN => Number(type, n).n = n
           /\ Number(type, n).type # "string"
<1>1. Number(type, n) = IF n = NaN THEN JNull ELSE IF type = "BOOL" THEN Json("bool", n)
                        ELSE IF type \in Reals THEN Json("real", n) ELSE Json("int", n)
    BY DEF Number
<1>2. /\ Json("bool", n).type = "bool" /\ Json("bool", n).n = n
      /\ Json("int", n).type = "int" /\ Json("int", n).n = n
      /\ Json("real", n).type = "real" /\ Json("real", n).n = n
      /\ JNull.type = "null"
    BY JsonIs
<1> QED
    BY <1>1, <1>2, NullSilent DEF Says

\* The document of one node says what the node says.
LEMMA NodeSays ==
    ASSUME NEW u, DataNode(u), ~Failed(NodeToJson(u))
    PROVE  /\ \A q \in DOMAIN NodeToJson(u) :
                Says(NodeToJson(u)[q]) =>
                  \E i \in Indices(u.shape) :
                    /\ q = ItemPath(i) /\ At(u, i) # NaN /\ NodeToJson(u)[q].n = At(u, i)
                    /\ (NodeToJson(u)[q].type = "string") = (u.type = "STRING")
           /\ \A i \in Indices(u.shape) :
                At(u, i) # NaN =>
                  /\ ItemPath(i) \in DOMAIN NodeToJson(u)
                  /\ Says(NodeToJson(u)[ItemPath(i)]) /\ NodeToJson(u)[ItemPath(i)].n = At(u, i)
                  /\ (NodeToJson(u)[ItemPath(i)].type = "string") = (u.type = "STRING")
<1> DEFINE doc == NodeToJson(u)
           e == <<>>
<1>1. /\ u.type \in {"STRING", "BOOL"} \cup Ints \cup Reals /\ u.shape \in Seq(Nat)
      /\ u.elems \in Seq(Int \cup {NaN}) /\ Len(u.elems) = Product(u.shape) /\ NodeOK(u)
      /\ (u.type = "STRING" => u.shape = e)
    BY DataNodeIs DEF DataNode
<1>2. CASE u.type = "STRING"
    <2> DEFINE n == u.elems[1]
               v == Json("string", n)
    <2>1. doc = Alone(v)
        BY <1>1, <1>2, NodeToJsonIs
    <2>2. DOMAIN doc = {e} /\ doc[e] = v
        BY <2>1, AloneIs
    <2>3. v.type = "string" /\ v.n = n
        BY JsonIs
    <2>4. Len(u.elems) = 1
        BY <1>1, <1>2, ScalarProduct
    <2>5. ASSUME NEW i \in Indices(u.shape) PROVE At(u, i) = n /\ i = e
        <3>1. At(u, i) \in Elements(u)
            BY <1>1, AtElement
        <3>2. DOMAIN u.elems = {1}
            BY <1>1, <2>4
        <3>3. i \in Seq(Nat) /\ Len(i) = 0
            BY <1>1, <1>2, IndicesAre
        <3> QED
            BY <3>1, <3>2, <3>3 DEF Elements
    <2>6. ItemPath(e) = e /\ e \in Indices(u.shape)
        <3>1. ItemPath(e) = e
            BY DEF ItemPath
        <3>2. e \in Seq(Nat) /\ Len(e) = 0 /\ Len(u.shape) = 0
            BY <1>1, <1>2
        <3> QED
            BY <1>1, <3>1, <3>2, IndicesAre
    <2> HIDE DEF e, n, v, doc
    <2>7. Says(v) <=> n # NaN
        BY <2>3 DEF Says
    <2> QED
        BY <1>2, <2>2, <2>3, <2>5, <2>6, <2>7 DEF doc
<1>3. CASE u.type # "STRING" /\ Product(u.shape) = 0
    <2>1. doc = Alone(JNull)
        BY <1>1, <1>3, NodeToJsonIs DEF Failed
    <2>2. \A q \in DOMAIN doc : doc[q] = JNull
        BY <2>1, AloneIs
    <2>3. Indices(u.shape) = {}
        BY <1>1, <1>3, NoElements
    <2> QED
        BY <2>2, <2>3, NullSilent
<1>4. CASE u.type # "STRING" /\ Product(u.shape) # 0
    <2> DEFINE type == u.type
               shape == u.shape
    <2>1. doc = Nested(u)
        BY <1>1, <1>4, NodeToJsonIs DEF Failed
    <2>2. /\ \A x : x \in DOMAIN doc <=> PartPath(shape, x)
          /\ \A x \in DOMAIN doc :
                doc[x] = IF Len(x) < Len(shape)
                         THEN JInner("array", ItemNames(shape[Len(x) + 1]))
                         ELSE Number(type, At(u, ItemPath(x)))
        BY <1>1, <2>1, NestedAt
    <2>3. type \in {"BOOL"} \cup Ints \cup Reals /\ shape \in Seq(Nat) /\ Len(shape) \in Nat
        BY <1>1, <1>4, LenProperties
    <2> HIDE DEF type, shape, doc
    <2>4. ASSUME NEW q \in DOMAIN doc, Says(doc[q])
          PROVE  \E i \in Indices(shape) :
                    /\ q = ItemPath(i) /\ At(u, i) # NaN /\ doc[q].n = At(u, i)
                    /\ doc[q].type # "string"
        <3>1. PartPath(shape, q)
            BY <2>2
        <3>2. ~(Len(q) < Len(shape))
            <4> DEFINE names == ItemNames(shape[Len(q) + 1])
            <4>1. ASSUME Len(q) < Len(shape) PROVE doc[q] = JInner("array", names)
                BY <2>2, <4>1
            <4> HIDE DEF names
            <4> QED
                BY <2>4, <4>1, NullSilent
        <3>3. Len(q) = Len(shape) /\ q \in Paths
            BY <2>3, <3>1, <3>2, LenProperties DEF PartPath, Paths
        <3>4. ItemPath(q) \in Indices(shape) /\ ItemPath(ItemPath(q)) = q
            BY <2>3, <3>1, <3>3, WholePath, ItemPathIs
        <3> DEFINE i == ItemPath(q)
                   n == At(u, i)
        <3>5. doc[q] = Number(type, n)
            BY <2>2, <3>2
        <3> HIDE DEF i, n
        <3>6. n # NaN /\ doc[q].n = n /\ doc[q].type # "string"
            BY <2>3, <2>4, <3>5, NumberSays
        <3> QED
            BY <3>4, <3>6 DEF i, n
    <2>5. ASSUME NEW i \in Indices(shape), At(u, i) # NaN
          PROVE  /\ ItemPath(i) \in DOMAIN doc
                 /\ Says(doc[ItemPath(i)]) /\ doc[ItemPath(i)].n = At(u, i)
                 /\ doc[ItemPath(i)].type # "string"
        <3> DEFINE z == ItemPath(i)
                   n == At(u, i)
        <3>1. PartPath(shape, z) /\ Len(z) = Len(shape) /\ ItemPath(z) = i
            BY <2>3, WholePath
        <3> HIDE DEF z
        <3>2. z \in DOMAIN doc /\ ~(Len(z) < Len(shape))
            BY <2>2, <2>3, <3>1
        <3>3. doc[z] = Number(type, n)
            BY <2>2, <3>1, <3>2
        <3> HIDE DEF n
        <3>4. n # NaN
            BY <2>5 DEF n
        <3>5. Says(doc[z]) /\ doc[z].n = n /\ doc[z].type # "string"
            BY <2>3, <3>3, <3>4, NumberSays
        <3> QED
            BY <3>2, <3>5 DEF z, n
    <2> QED
        BY <1>4, <2>4, <2>5 DEF doc, shape
<1> QED
    BY <1>2, <1>3, <1>4

\* Nodes without data say nothing.
LEMMA InnerSilent ==
    ASSUME NEW u, NodeOK(u), ~DataNode(u), NEW q \in DOMAIN NodeToJson(u)
    PROVE  ~Says(NodeToJson(u)[q])
<1> DEFINE object == JInner("object", Sorted(u.names))
           array == JInner("array", u.names)
           doc == NodeToJson(u)
<1>1. /\ u.type = "EMPTY" => doc = Alone(JNull)
      /\ u.type = "STRUCT" => doc = IF u.names = <<>> THEN Alone(JNull) ELSE Alone(object)
      /\ u.type = "LIST" => doc = Alone(array)
    BY NodeToJsonIs
<1>2. u.type \in {"EMPTY", "STRUCT", "LIST"}
    BY DEF DataNode, Inner
<1>3. ~Says(object) /\ ~Says(array) /\ ~Says(JNull)
    BY NullSilent
<1> HIDE DEF object, array, doc
<1>4. doc = Alone(JNull) \/ doc = Alone(object) \/ doc = Alone(array)
    BY <1>1, <1>2
<1>5. \A w : doc = Alone(w) => doc[q] = w
    BY AloneIs DEF doc
<1>6. doc[q] = JNull \/ doc[q] = object \/ doc[q] = array
    BY <1>4, <1>5
<1> QED
    BY <1>3, <1>6 DEF doc

\* The document of a tree says what the tree says.
LEMMA WrittenLeaves ==
    ASSUME NEW t, Wellformed(t), ~Failed(ToJson(t))
    PROVE  JsonLeaves(ToJson(t)) = Leaves(t)
<1> DEFINE j == ToJson(t)
           leaf(p, i) == [path |-> p \o ItemPath(i), text |-> t[p].type = "STRING", value |-> At(t[p], i)]
<1>1. /\ \A p \in DOMAIN t :
                /\ p \in Paths /\ ~Failed(NodeToJson(t[p])) /\ NodeOK(t[p])
                /\ \A q \in DOMAIN NodeToJson(t[p]) :
                     p \o q \in DOMAIN j /\ j[p \o q] = NodeToJson(t[p])[q]
      /\ \A x \in DOMAIN j : \E p \in DOMAIN t : \E q \in DOMAIN NodeToJson(t[p]) : x = p \o q
    BY ToJsonAt DEF Wellformed
<1>2. \A l : l \in Leaves(t) <=>
               \E p \in DOMAIN t : DataNode(t[p]) /\ \E i \in Indices(t[p].shape) : At(t[p], i) # NaN /\ l = leaf(p, i)
    <2>1. \A p \in DOMAIN t : DataNode(t[p]) <=> ~Inner(t[p]) /\ t[p].type # "EMPTY"
        BY <1>1 DEF DataNode
    <2> QED
        BY <2>1 DEF Leaves, LeafPaths, LeavesAt
<1>3. \A l : l \in JsonLeaves(j) <=> \E x \in DOMAIN j : Says(j[x]) /\ l = JsonLeaf(x, j[x])
    BY DEF JsonLeaves
<1> HIDE DEF j
<1>4. ASSUME NEW x \in DOMAIN j, Says(j[x])
      PROVE  \E p \in DOMAIN t : DataNode(t[p]) /\ \E i \in Indices(t[p].shape) : At(t[p], i) # NaN /\ JsonLeaf(x, j[x]) = leaf(p, i)
    <2>1. PICK p \in DOMAIN t : \E q \in DOMAIN NodeToJson(t[p]) : x = p \o q
        BY <1>1
    <2>2. PICK q \in DOMAIN NodeToJson(t[p]) : x = p \o q
        BY <2>1
    <2>3. j[x] = NodeToJson(t[p])[q]
        BY <1>1, <2>2
    <2>4. DataNode(t[p])
        BY <1>1, <1>4, <2>3, InnerSilent
    <2>5. PICK i \in Indices(t[p].shape) :
                    /\ q = ItemPath(i) /\ At(t[p], i) # NaN /\ NodeToJson(t[p])[q].n = At(t[p], i)
                    /\ (NodeToJson(t[p])[q].type = "string") = (t[p].type = "STRING")
        BY <1>1, <1>4, <2>3, <2>4, NodeSays
    <2>6. JsonLeaf(x, j[x]) = leaf(p, i)
        BY <2>2, <2>3, <2>5 DEF JsonLeaf
    <2> QED
        BY <2>4, <2>5, <2>6
<1>5. ASSUME NEW p \in DOMAIN t, DataNode(t[p]), NEW i \in Indices(t[p].shape), At(t[p], i) # NaN
      PROVE  \E x \in DOMAIN j : Says(j[x]) /\ leaf(p, i) = JsonLeaf(x, j[x])
    <2> DEFINE z == ItemPath(i)
    <2>1. /\ z \in DOMAIN NodeToJson(t[p])
          /\ Says(NodeToJson(t[p])[z]) /\ NodeToJson(t[p])[z].n = At(t[p], i)
          /\ (NodeToJson(t[p])[z].type = "string") = (t[p].type = "STRING")
        BY <1>1, <1>5, NodeSays
    <2>2. p \o z \in DOMAIN j /\ j[p \o z] = NodeToJson(t[p])[z]
        BY <1>1, <2>1
    <2>3. leaf(p, i) = JsonLeaf(p \o z, j[p \o z])
        BY <2>1, <2>2 DEF JsonLeaf
    <2> QED
        BY <2>1, <2>2, <2>3
<1> HIDE DEF leaf
<1>6. \A l : l \in JsonLeaves(j) <=> l \in Leaves(t)
    BY <1>2, <1>3, <1>4, <1>5
<1> QED
    BY <1>6 DEF j

\* The part of a document below y is an array with the extents S.
Box(j, y, S) ==
    /\ S \in Seq(Nat)
    /\ \A z \in Paths : y \o z \in DOMAIN j <=> PartPath(S, z)
    /\ \A z \in Paths : PartPath(S, z) => (j[y \o z].type = "array" <=> Len(z) < Len(S))
    /\ JsonShape(j, y) = S

\* Whole numbers fit into an int.
Fits(j) ==
    \A x \in DOMAIN j : j[x].type \in {"int", "real"} /\ IsWhole(j[x]) => j[x].n <= 2 * IntMax

\* An item that is there is found.
LEMMA ItemAtThere ==
    ASSUME NEW j, Document(j), NEW y, NEW i, y \o ItemPath(i) \in DOMAIN j
    PROVE  ItemAt(j, y, i) = j[y \o ItemPath(i)]
<1> DEFINE x == y \o ItemPath(i)
<1>1. DOMAIN j \subseteq Paths /\ <<>> \in DOMAIN j
    BY DocumentNames
<1>2. ItemAt(j, y, i) = LET at == Deepest(j, x)
                        IN  IF at = x THEN j[x]
                            ELSE IF j[at].type \in {"array", "null"} THEN JNull
                            ELSE [type |-> "failure"]
    BY DEF ItemAt
<1> HIDE DEF x
<1>3. x \in DOMAIN j /\ x \in Paths
    BY <1>1 DEF x
<1>4. IsPrefix(x, x)
    BY <1>3, PrefixOrder DEF Paths
<1>5. ASSUME NEW q \in DOMAIN j, IsPrefix(q, x) PROVE Len(q) <= Len(x)
    BY <1>5 DEF IsPrefix
<1>6. Deepest(j, x) = x
    BY <1>1, <1>3, <1>4, <1>5, DeepestIs
<1> QED
    BY <1>2, <1>6 DEF x

\* An element of an array that fits is read as it is.
LEMMA ElementSame ==
    ASSUME NEW j, Document(j), NEW y \in DOMAIN j, Numeric(j, y), Fits(j),
           NEW x \in DOMAIN j, IsPrefix(y, x), j[x].type # "array"
    PROVE  /\ Element(ArrayType(j, y), j[x]) = j[x].n
           /\ Says(j[x]) /\ j[x].type # "string"
<1> DEFINE v == j[x]
           type == ArrayType(j, y)
<1>1. v \in Values(j, y)
    BY DEF Values
<1>2. JsonNodeOK(v)
    BY DEF Document
<1>3. IsAllNumeric(j, y) => v.type \in {"int", "real"}
    BY <1>1 DEF IsAllNumeric, AllOf
<1>4. IsAllBool(j, y) => v.type = "bool"
    BY <1>1 DEF IsAllBool, AllOf
<1>5. IsAllNumeric(j, y) \/ IsAllBool(j, y)
    BY DEF Numeric
<1>6. type = IF IsDouble(j, y) THEN "DOUBLE" ELSE IF IsInt(j, y) THEN "INT32" ELSE "BOOL"
    BY DEF ArrayType
<1>7. /\ IsDouble(j, y) <=> IsAllNumeric(j, y) /\ \E w \in Values(j, y) : ~IsWhole(w)
      /\ IsInt(j, y) <=> IsAllNumeric(j, y) /\ \E w \in Values(j, y) : IsWhole(w)
    BY DEF IsDouble, IsInt
<1>8. v.type \in {"int", "real"} /\ IsWhole(v) => v.n <= 2 * IntMax
    BY DEF Fits
<1> DEFINE limit == 2 * IntMax
<1>9. limit \in Nat
    BY SerializersAssumption
<1>10. Element(type, v) = IF v.type = "null" THEN 0
                          ELSE IF v.type \notin {"int", "real", "bool"} THEN NaN
                          ELSE IF type = "INT32" /\ v.n > limit THEN NaN
                          ELSE IF type = "BOOL" /\ v.n # 0 THEN 2
                          ELSE v.n
    BY DEF Element
<1>11. v.type \in {"int", "real", "bool"} => v.n \in Int /\ v.n # NaN
    BY <1>2 DEF JsonNodeOK
<1>12. v.type = "bool" => v.n \in {0, 2}
    BY <1>2 DEF JsonNodeOK
<1> HIDE DEF v, type, limit
<1>13. v.type \in {"int", "real", "bool"}
    BY <1>3, <1>4, <1>5
<1>14. CASE IsAllNumeric(j, y)
    <2>1. type = "DOUBLE" \/ (type = "INT32" /\ IsWhole(v))
        BY <1>1, <1>6, <1>7, <1>14
    <2>2. v.type \in {"int", "real"}
        BY <1>3, <1>14
    <2>3. CASE type = "DOUBLE"
        <3>1. Element(type, v) = v.n
            BY <1>10, <1>13, <2>2, <2>3
        <3> QED
            BY <1>11, <2>2, <3>1 DEF Says, v, type
    <2>4. CASE type = "INT32" /\ IsWhole(v)
        <3>1. ~(v.n > limit)
            BY <1>8, <1>9, <1>11, <2>2, <2>4 DEF v, limit
        <3>2. Element(type, v) = v.n
            BY <1>10, <1>13, <2>2, <2>4, <3>1
        <3> QED
            BY <1>11, <2>2, <3>2 DEF Says, v, type
    <2> QED
        BY <2>1, <2>3, <2>4
<1>15. CASE ~IsAllNumeric(j, y)
    <2>1. type = "BOOL" /\ v.type = "bool"
        BY <1>4, <1>5, <1>6, <1>7, <1>15
    <2>2. Element(type, v) = v.n
        BY <1>10, <1>12, <2>1
    <2> QED
        BY <1>11, <2>1, <2>2 DEF Says, v, type
<1> QED
    BY <1>14, <1>15

\* An array in a document is read as it is.
LEMMA BoxRead ==
    ASSUME NEW j, Document(j), NEW y \in DOMAIN j, Numeric(j, y), Fits(j),
           NEW S, Box(j, y, S), Len(S) <= MaxRank
    PROVE  LET a == JsonArray(j, y)
           IN  /\ a.type \in {"DOUBLE", "INT32", "BOOL"} /\ a.shape = S
               /\ \A i \in Indices(S) :
                    LET x == y \o ItemPath(i)
                    IN  x \in DOMAIN j /\ Says(j[x]) /\ j[x].type # "string" /\ At(a, i) = j[x].n
<1> DEFINE type == ArrayType(j, y)
           elems == [n \in 1..Product(S) |-> Element(type, ItemAt(j, y, IndexOf(S, n - 1)))]
           a == JsonArray(j, y)
<1>1. S \in Seq(Nat) /\ Len(S) \in Nat /\ y \in Paths /\ MaxRank \in Nat
    BY DocumentNames, LenProperties, SerializersAssumption DEF Box
<1>2. ASSUME NEW i \in Indices(S)
      PROVE  LET x == y \o ItemPath(i)
             IN  /\ x \in DOMAIN j /\ Says(j[x]) /\ j[x].type # "string"
                 /\ Element(type, ItemAt(j, y, i)) = j[x].n /\ j[x].n # NaN
    <2> DEFINE z == ItemPath(i)
               x == y \o z
    <2>1. PartPath(S, z) /\ Len(z) = Len(S) /\ z \in Paths
        BY <1>1, WholePath DEF PartPath
    <2>2. IsPrefix(y, x)
        BY <1>1, <2>1, PrefixConcat DEF Paths
    <2>3. x \in DOMAIN j /\ j[x].type # "array"
        <3> HIDE DEF z
        <3>1. ~(Len(z) < Len(S))
            BY <1>1, <2>1
        <3> QED
            BY <2>1, <3>1 DEF Box
    <2>4. ItemAt(j, y, i) = j[x]
        BY <2>3, ItemAtThere
    <2> HIDE DEF z, x
    <2>5. Element(type, j[x]) = j[x].n /\ Says(j[x]) /\ j[x].type # "string"
        BY <2>2, <2>3, ElementSame
    <2> QED
        BY <2>3, <2>4, <2>5 DEF Says, x, z
<1>3. a = IF Len(S) > MaxRank \/ \E n \in DOMAIN elems : elems[n] = NaN
          THEN [type |-> "failure"] ELSE Array(type, S, elems)
    <2>1. JsonShape(j, y) = S
        BY DEF Box
    <2> QED
        BY <2>1 DEF JsonArray
<1>4. type \in {"DOUBLE", "INT32", "BOOL"}
    BY DEF ArrayType
<1>5. ASSUME NEW n \in 1..Product(S) PROVE elems[n] # NaN
    <2>1. n - 1 \in 0..(Product(S) - 1)
        BY <1>1, ProductNumber
    <2>2. IndexOf(S, n - 1) \in Indices(S)
        BY <1>1, <2>1, IndexOfPlace
    <2> QED
        BY <1>2, <2>2
<1>6. a = Array(type, S, elems)
    <2>1. ~(Len(S) > MaxRank)
        BY <1>1
    <2>2. DOMAIN elems = 1..Product(S)
        OBVIOUS
    <2> HIDE DEF elems, type, a
    <2> QED
        BY <1>3, <1>5, <2>1, <2>2
<1>7. a.type = type /\ a.shape = S /\ a.elems = elems /\ a.order = "C"
    <2> HIDE DEF elems, type, a
    <2> QED
        BY <1>6, ArrayFields
<1>8. ASSUME NEW i \in Indices(S)
      PROVE  At(a, i) = Element(type, ItemAt(j, y, i))
    <2> DEFINE m == RowMajor(S, i)
    <2>1. m \in 0..(Product(S) - 1) /\ IndexOf(S, m) = i
        BY <1>1, RowMajorRange, IndexOfPlace
    <2>2. At(a, i) = elems[1 + m]
        <3> HIDE DEF elems
        <3> QED
            BY <1>7 DEF At, Offset
    <2> HIDE DEF m, a
    <2>3. 1 + m \in 1..Product(S) /\ (1 + m) - 1 = m
        BY <1>1, <2>1, ProductNumber
    <2>4. elems[1 + m] = Element(type, ItemAt(j, y, IndexOf(S, m)))
        BY <2>3
    <2> QED
        BY <2>1, <2>2, <2>4
<1> HIDE DEF a, type, elems
<1> QED
    BY <1>2, <1>4, <1>7, <1>8 DEF a

\* Three paths in a row.
LEMMA ConcatThree ==
    ASSUME NEW p \in Paths, NEW q \in Paths, NEW r \in Paths
    PROVE  (p \o q) \o r = p \o (q \o r)
BY ConcatPaths, SMTT(30) DEF Paths

\* The extents behind the first ones.
TailOf(shape, n) == [k \in 1..(Len(shape) - n) |-> shape[n + k]]

\* The extents that are left behind some dimensions.
LEMMA TailExtents ==
    ASSUME NEW shape \in Seq(Nat), NEW n \in 0..Len(shape)
    PROVE  /\ TailOf(shape, n) \in Seq(Nat) /\ Len(TailOf(shape, n)) = Len(shape) - n
           /\ Len(shape) - n \in Nat
           /\ \A k \in 1..(Len(shape) - n) : TailOf(shape, n)[k] = shape[n + k] /\ n + k \in 1..Len(shape)
<1> DEFINE m == Len(shape) - n
           S == TailOf(shape, n)
<1>1. m \in Nat /\ Len(shape) \in Nat
    BY LenProperties
<1>2. ASSUME NEW k \in 1..m PROVE n + k \in 1..Len(shape) /\ shape[n + k] \in Nat
    <2>1. n + k \in 1..Len(shape)
        BY <1>1
    <2> QED
        BY <2>1, ElementOfSeq
<1>3. S = [k \in 1..m |-> shape[n + k]]
    BY DEF TailOf
<1>4. S \in [1..m -> Nat]
    BY <1>2, <1>3
<1> HIDE DEF m, S
<1>5. S \in Seq(Nat) /\ Len(S) = m
    BY <1>1, <1>4, FunctionIsSeq
<1> QED
    BY <1>1, <1>2, <1>3, <1>5 DEF m, S

\* A part of an index behind another one is a part of what is left of the shape.
LEMMA PartBehind ==
    ASSUME NEW shape \in Seq(Nat), NEW z, PartPath(shape, z), NEW w \in Paths
    PROVE  /\ PartPath(shape, z \o w) <=> PartPath(TailOf(shape, Len(z)), w)
           /\ z \o w \in Paths /\ Len(z \o w) = Len(z) + Len(w) /\ Len(w) \in Nat
<1> DEFINE n == Len(shape) - Len(z)
           S == TailOf(shape, Len(z))
           y == z \o w
<1>1. Len(shape) \in Nat
    BY LenProperties
<1>2. z \in Paths /\ Len(z) \in Nat /\ Len(z) <= Len(shape) /\ n \in Nat
      /\ \A d \in 1..Len(z) : ListItem(z[d]) \in 0..(shape[d] - 1)
    BY <1>1, LenProperties DEF PartPath, Paths
<1>6. S \in Seq(Nat) /\ Len(S) = n /\ \A k \in 1..n : S[k] = shape[Len(z) + k]
    BY <1>1, <1>2, TailExtents
<1>7. y \in Paths /\ Len(y) = Len(z) + Len(w) /\ Len(w) \in Nat
    BY <1>2, ConcatPaths, LenProperties DEF Paths
<1>8. \A d \in 1..(Len(z) + Len(w)) : y[d] = IF d <= Len(z) THEN z[d] ELSE w[d - Len(z)]
    BY <1>2, ConcatProperties DEF Paths
<1> HIDE DEF y, S
<1>9. ASSUME PartPath(shape, y) PROVE PartPath(S, w)
    <2>1. Len(w) <= Len(S)
        BY <1>1, <1>2, <1>6, <1>7, <1>9 DEF PartPath
    <2>2. ASSUME NEW d \in 1..Len(w) PROVE ListItem(w[d]) \in 0..(S[d] - 1)
        <3>1. Len(z) + d \in 1..Len(y) /\ ~(Len(z) + d <= Len(z)) /\ (Len(z) + d) - Len(z) = d
              /\ Len(z) + d \in 1..(Len(z) + Len(w)) /\ d \in 1..n
            BY <1>2, <1>6, <1>7, <2>1, SMTT(30)
        <3>2. y[Len(z) + d] = w[d] /\ S[d] = shape[Len(z) + d]
            BY <1>6, <1>8, <3>1
        <3>3. ListItem(y[Len(z) + d]) \in 0..(shape[Len(z) + d] - 1)
            BY <1>9, <3>1 DEF PartPath
        <3> QED
            BY <3>2, <3>3
    <2> QED
        BY <2>1, <2>2 DEF PartPath
<1>10. ASSUME PartPath(S, w) PROVE PartPath(shape, y)
    <2>1. Len(w) <= n
        BY <1>6, <1>10 DEF PartPath
    <2>2. Len(y) <= Len(shape)
        BY <1>1, <1>2, <1>7, <2>1
    <2>3. ASSUME NEW d \in 1..Len(y) PROVE ListItem(y[d]) \in 0..(shape[d] - 1)
        <3>1. CASE d <= Len(z)
            <4>1. d \in 1..Len(z) /\ y[d] = z[d]
                BY <1>2, <1>7, <1>8, <3>1
            <4> QED
                BY <1>2, <4>1
        <3>2. CASE ~(d <= Len(z))
            <4> DEFINE c == d - Len(z)
            <4>1. c \in 1..Len(w) /\ c \in 1..n /\ Len(z) + c = d
                BY <1>2, <1>7, <2>1, <3>2
            <4>2. y[d] = w[c]
                BY <1>7, <1>8, <3>2
            <4> HIDE DEF c
            <4>3. S[c] = shape[d]
                BY <1>6, <4>1
            <4>4. ListItem(w[c]) \in 0..(S[c] - 1)
                BY <1>10, <4>1 DEF PartPath
            <4> QED
                BY <4>2, <4>3, <4>4
        <3> QED
            BY <3>1, <3>2
    <2> QED
        BY <1>7, <2>2, <2>3 DEF PartPath
<1> QED
    BY <1>7, <1>9, <1>10 DEF y, S

\* An array of a tree, or a part of it.
LEMMA ArrayBox ==
    ASSUME NEW t, Wellformed(t), ~Failed(ToJson(t)), NEW p \in DOMAIN t, FullNode(t[p]),
           NEW z, PartPath(t[p].shape, z)
    PROVE  \E S : Box(ToJson(t), p \o z, S) /\ Len(S) <= MaxRank
<1> DEFINE u == t[p]
           shape == u.shape
           j == ToJson(t)
           n == Len(shape) - Len(z)
           S == TailOf(shape, Len(z))
<1>1. shape \in Seq(Nat) /\ Len(shape) \in Nat /\ p \in Paths
      /\ (\A y : PartPath(shape, y) =>
                /\ p \o y \in DOMAIN j
                /\ j[p \o y] = IF Len(y) < Len(shape)
                               THEN JInner("array", ItemNames(shape[Len(y) + 1]))
                               ELSE Number(u.type, At(u, ItemPath(y))))
      /\ \A y \in Paths : p \o y \in DOMAIN j => PartPath(shape, y)
    BY DocData
<1>2. z \in Paths /\ Len(z) \in Nat /\ Len(z) <= Len(shape) /\ n \in Nat
      /\ \A d \in 1..Len(z) : ListItem(z[d]) \in 0..(shape[d] - 1)
    BY <1>1, LenProperties DEF PartPath, Paths
<1>3. JsonShape(j, p \o z) = S
    BY ArrayShape DEF TailOf
<1>4. Len(shape) <= MaxRank
    <2>1. ~(Len(shape) > MaxRank)
        BY ToJsonFails
    <2> QED
        BY <1>1, <2>1, SerializersAssumption
<1>5. u.type \in {"BOOL"} \cup Ints \cup Reals
    BY DataNodeIs DEF FullNode
<1> HIDE DEF u, shape, j
<1>6. S \in Seq(Nat) /\ Len(S) = n
    BY <1>1, <1>2, TailExtents
<1> HIDE DEF S
<1>7. ASSUME NEW w \in Paths
      PROVE  /\ PartPath(shape, z \o w) <=> PartPath(S, w)
             /\ z \o w \in Paths /\ Len(z \o w) = Len(z) + Len(w) /\ Len(w) \in Nat
             /\ (p \o z) \o w = p \o (z \o w)
    <2>1. PartPath(shape, z)
        BY DEF shape, u
    <2>2. /\ PartPath(shape, z \o w) <=> PartPath(S, w)
          /\ z \o w \in Paths /\ Len(z \o w) = Len(z) + Len(w) /\ Len(w) \in Nat
        BY <1>1, <2>1, PartBehind DEF S
    <2> QED
        BY <1>1, <1>2, <2>2, ConcatThree
<1>8. ASSUME NEW w \in Paths
      PROVE  (p \o z) \o w \in DOMAIN j <=> PartPath(S, w)
    BY <1>1, <1>7
<1>9. ASSUME NEW w \in Paths, PartPath(S, w)
      PROVE  j[(p \o z) \o w].type = "array" <=> Len(w) < Len(S)
    <2> DEFINE y == z \o w
               names == ItemNames(shape[Len(y) + 1])
               e == At(u, ItemPath(y))
               type == u.type
    <2>1. PartPath(shape, y) /\ Len(y) = Len(z) + Len(w) /\ Len(w) \in Nat /\ (p \o z) \o w = p \o y
        BY <1>7, <1>9
    <2>2. j[p \o y] = IF Len(y) < Len(shape) THEN JInner("array", names) ELSE Number(type, e)
        BY <1>1, <2>1
    <2>3. type \in {"BOOL"} \cup Ints \cup Reals
        BY <1>5
    <2>4. Len(y) < Len(shape) <=> Len(w) < Len(S)
        <3> HIDE DEF y
        <3> QED
            BY <1>1, <1>2, <1>6, <2>1
    <2> HIDE DEF y, names, e, type
    <2>5. JInner("array", names).type = "array"
        BY JInnerIs
    <2>6. Number(type, e).type # "array"
        <3>1. KindTypes({"bool"}, {"BOOL"})
            BY DEF KindTypes
        <3> QED
            BY <2>3, <3>1, NumberKind, Zenon
    <2> QED
        BY <2>1, <2>2, <2>4, <2>5, <2>6
<1>10. Len(S) <= MaxRank
    BY <1>1, <1>2, <1>4, <1>6, SerializersAssumption
<1>11. Box(j, p \o z, S)
    BY <1>3, <1>6, <1>8, <1>9 DEF Box
<1> QED
    BY <1>10, <1>11 DEF j

\* Below a list that is uniform there are lists and arrays with elements.
LEMMA UniformNode ==
    ASSUME NEW t, Wellformed(t), NEW types, types \subseteq {"BOOL"} \cup Ints \cup Reals,
           NEW p, Uniform(types, t, p), NEW q \in DOMAIN t, IsPrefix(p, q)
    PROVE  t[q].type = "LIST" \/ FullNode(t[q])
<1>1. SUFFICES ASSUME t[q].type # "LIST" PROVE FullNode(t[q])
    OBVIOUS
<1>2. t[q].type \in {"BOOL"} \cup Ints \cup Reals /\ t[q].elems # <<>> /\ NodeOK(t[q])
    BY <1>1 DEF Uniform, Wellformed
<1>3. DataNode(t[q]) /\ t[q].type # "STRING"
    BY <1>2 DEF DataNode, Inner, Ints, Reals
<1> QED
    BY <1>2, <1>3, ElementsAt DEF FullNode

\* The first item of a node.
LEMMA FirstOf ==
    ASSUME NEW t, Wellformed(t), NEW q \in DOMAIN t
    PROVE  /\ q \in Paths /\ FirstItem(q, 0) = q /\ FirstItem(q, 1) = Append(q, ListItem(0))
           /\ t[q].type = "LIST" /\ t[q].names # <<>> => FirstItem(q, 1) \in DOMAIN t /\ t[q].names[1] = ListItem(0)
                                                         /\ 1 \in DOMAIN t[q].names
           /\ t[q].names = <<>> => FirstItem(q, 1) \notin DOMAIN t
<1>1. q \in Paths /\ Linked(t) /\ NodeOK(t[q])
    BY DEF Wellformed, Linked, Paths
<1>2. FirstItem(q, 0) = q /\ FirstItem(q, 1) \in Paths /\ Len(FirstItem(q, 1)) = Len(q) + 1
      /\ Len(q) \in Nat
      /\ \A i \in 1..(Len(q) + 1) : FirstItem(q, 1)[i] = IF i <= Len(q) THEN q[i] ELSE -1
    BY <1>1, FirstItemIs, LenProperties DEF Paths
<1>3. ListItem(0) = -1 /\ ListItem(0) \in Int
    BY DEF ListItem
<1>4. FirstItem(q, 1) = Append(q, ListItem(0))
    <2> DEFINE x == FirstItem(q, 1)
               c == ListItem(0)
    <2>1. c \in Int /\ c = -1
        BY <1>3
    <2>2. x \in Seq(Int) /\ Len(x) = Len(q) + 1 /\ q \in Seq(Int)
          /\ \A i \in 1..(Len(q) + 1) : x[i] = IF i <= Len(q) THEN q[i] ELSE c
        BY <1>1, <1>2, <2>1 DEF Paths
    <2> HIDE DEF x, c
    <2>3. x = Append(q, c)
        BY <1>2, <2>1, <2>2
    <2> QED
        BY <2>3 DEF x, c
<1>5. ASSUME t[q].type = "LIST", t[q].names # <<>>
      PROVE  FirstItem(q, 1) \in DOMAIN t /\ t[q].names[1] = ListItem(0) /\ 1 \in DOMAIN t[q].names
    <2> DEFINE n == Len(t[q].names)
    <2>1. n \in Nat /\ n # 0 /\ t[q].names \in Seq(Int)
        BY <1>1, <1>5, LenProperties DEF NodeOK
    <2>2. t[q].names = ItemNames(n)
        <3>1. t[q] = ListNode(n)
            BY <1>1, <1>5 DEF NodeOK
        <3> HIDE DEF n
        <3>2. ListNode(n).names = ItemNames(n)
            BY DEF ListNode, Node
        <3> QED
            BY <3>1, <3>2
    <2>3. 1 \in 1..n /\ ItemNames(n)[1] = -1
        <3>1. 1 \in 1..n
            BY <2>1
        <3>2. ItemNames(n)[1] = ListItem(1 - 1)
            BY <3>1 DEF ItemNames
        <3> QED
            BY <1>3, <3>1, <3>2
    <2>4. 1 \in DOMAIN t[q].names
        BY <2>1, <2>3
    <2>5. Append(q, t[q].names[1]) \in DOMAIN t
        BY <1>1, <2>4 DEF Linked
    <2> QED
        BY <1>3, <1>4, <2>2, <2>3, <2>4, <2>5
<1>6. ASSUME t[q].names = <<>>, FirstItem(q, 1) \in DOMAIN t PROVE FALSE
    <2>1. IsPrefix(q, FirstItem(q, 1)) /\ q # FirstItem(q, 1)
        BY <1>1, <1>2, FirstItemIs
    <2> QED
        BY <1>1, <1>6, <2>1, LinkedNext
<1> QED
    BY <1>1, <1>2, <1>4, <1>5, <1>6

\* The extents of lists of lists of arrays.
LEMMA ExtentsOK ==
    ASSUME NEW t, Wellformed(t), Shallow(t), NEW p \in DOMAIN t
    PROVE  Extents(t, p) \in Seq(Nat)
<1>1. PICK depth \in Nat : Within(t, depth)
    BY DEF Shallow
<1>2. Linked(t) /\ \A x \in DOMAIN t : t[x].names \in Seq(Int) /\ t[x].shape \in Seq(Nat)
    BY DEF Wellformed, NodeOK
<1>3. ItemCounts(t, p, "LIST") \in Seq(Nat)
    BY <1>1, <1>2, ItemCountsAre
<1>4. t[Innermost(t, p)].shape \in Seq(Nat)
    BY <1>1, <1>2, InnermostIs
<1> QED
    BY <1>3, <1>4, ConcatProperties DEF Extents

\* A leaf, an empty list, and a list with items.
LEMMA ExtentsEnd ==
    ASSUME NEW t, Wellformed(t), NEW q \in DOMAIN t, t[q].names = <<>>
    PROVE  /\ DataNode(t[q]) => Extents(t, q) = t[q].shape
           /\ t[q].type = "LIST" => Extents(t, q) = <<0>>
<1>1. q \in Paths /\ FirstItem(q, 0) = q /\ FirstItem(q, 1) \notin DOMAIN t /\ Linked(t) /\ NodeOK(t[q])
    BY FirstOf DEF Wellformed
<1>2. Innermost(t, q) = q
    <2>1. FirstItem(q, 0 + 1) \notin DOMAIN t
        BY <1>1
    <2> QED
        BY <1>1, <2>1, InnermostUnique
<1>3. ItemCounts(t, q, "LIST") =
         [k \in 1..(IF t[q].type = "LIST" THEN 1 ELSE 0) |-> Len(t[FirstItem(q, k - 1)].names)]
    <2>1. FirstItem(q, 0 + 1) \notin DOMAIN t /\ FirstItem(q, 0) \in DOMAIN t
        BY <1>1
    <2>2. ItemCounts(t, q, "LIST") =
             [k \in 1..(IF t[FirstItem(q, 0)].type = "LIST" THEN 0 + 1 ELSE 0) |-> Len(t[FirstItem(q, k - 1)].names)]
        BY <1>1, <2>1, CountsOf
    <2> QED
        BY <1>1, <2>2
<1>4. ASSUME DataNode(t[q]) PROVE Extents(t, q) = t[q].shape
    <2> DEFINE shape == t[q].shape
    <2>1. shape \in Seq(Nat) /\ t[q].type # "LIST"
        BY <1>1, <1>4 DEF NodeOK, DataNode, Inner
    <2>2. ItemCounts(t, q, "LIST") = <<>>
        BY <1>3, <2>1
    <2>3. Extents(t, q) = <<>> \o shape
        BY <1>2, <2>2 DEF Extents
    <2> HIDE DEF shape
    <2>4. Extents(t, q) = shape
        BY <2>1, <2>3
    <2> QED
        BY <2>4 DEF shape
<1>5. ASSUME t[q].type = "LIST" PROVE Extents(t, q) = <<0>>
    <2>1. t[q].shape = <<>>
        <3> DEFINE n == Len(t[q].names)
        <3>1. t[q] = ListNode(n)
            BY <1>1, <1>5 DEF NodeOK
        <3> HIDE DEF n
        <3> QED
            BY <3>1 DEF ListNode, Node
    <2>2. ItemCounts(t, q, "LIST") = [k \in 1..1 |-> Len(t[FirstItem(q, k - 1)].names)]
        BY <1>3, <1>5
    <2>3. \A k \in 1..1 : Len(t[FirstItem(q, k - 1)].names) = 0
        <3>1. \A k \in 1..1 : k - 1 = 0
            OBVIOUS
        <3>2. Len(t[q].names) = 0
            OBVIOUS
        <3> QED
            BY <1>1, <3>1, <3>2
    <2>4. ItemCounts(t, q, "LIST") = <<0>>
        BY <2>2, <2>3
    <2>5. Extents(t, q) = <<0>> \o <<>>
        BY <1>2, <2>1, <2>4 DEF Extents
    <2> QED
        BY <2>5
<1> QED
    BY <1>4, <1>5

\* Those of a list and of its first item.
LEMMA ExtentsStep ==
    ASSUME NEW t, Wellformed(t), Shallow(t), NEW q \in DOMAIN t, t[q].type = "LIST", t[q].names # <<>>
    PROVE  LET c == FirstItem(q, 1)
           IN  /\ c \in DOMAIN t
               /\ Len(Extents(t, q)) = Len(Extents(t, c)) + 1
               /\ Extents(t, q)[1] = Len(t[q].names)
               /\ \A k \in 1..Len(Extents(t, c)) : Extents(t, q)[k + 1] = Extents(t, c)[k]
<1> DEFINE c == FirstItem(q, 1)
<1>1. q \in Paths /\ FirstItem(q, 0) = q /\ c \in DOMAIN t /\ c \in Paths /\ Linked(t)
    BY FirstOf, FirstItemIs DEF Wellformed
<1>2. PICK depth \in Nat : Within(t, depth)
    BY DEF Shallow
<1> DEFINE x == Innermost(t, c)
           m == Len(x) - Len(c)
<1>3. x \in DOMAIN t /\ x = FirstItem(c, m) /\ m \in Nat /\ FirstItem(x, 1) \notin DOMAIN t
    BY <1>1, <1>2, InnermostIs
<1> HIDE DEF x, m
<1>c. \A n \in Nat : FirstItem(c, n) = FirstItem(q, 1 + n)
    BY <1>1, FirstItemIs
<1> HIDE DEF c
<1>4. FirstItem(c, m) \in DOMAIN t /\ FirstItem(c, m + 1) \notin DOMAIN t
    <2>1. FirstItem(FirstItem(c, m), 1) = FirstItem(c, m + 1)
        <3>1. \A n \in Nat : FirstItem(FirstItem(c, m), n) = FirstItem(c, m + n)
            BY <1>1, <1>3, FirstItemIs
        <3> QED
            BY <3>1
    <2> QED
        BY <1>3, <2>1
<1>5. FirstItem(q, m + 1) = x /\ FirstItem(q, m + 1) \in DOMAIN t /\ FirstItem(q, (m + 1) + 1) \notin DOMAIN t
      /\ m + 1 \in Nat
    <2>1. FirstItem(c, m) = FirstItem(q, 1 + m) /\ FirstItem(c, m + 1) = FirstItem(q, 1 + (m + 1))
        BY <1>3, <1>c
    <2>2. 1 + m = m + 1 /\ 1 + (m + 1) = (m + 1) + 1 /\ m + 1 \in Nat
        BY <1>3
    <2> QED
        BY <1>3, <1>4, <2>1, <2>2
<1>6. Innermost(t, q) = x
    BY <1>1, <1>5, InnermostUnique
<1> DEFINE more == IF t[x].type = "LIST" THEN 1 ELSE 0
           C(y) == ItemCounts(t, y, "LIST")
           shape == t[x].shape
<1>7. C(c) = [k \in 1..(m + more) |-> Len(t[FirstItem(c, k - 1)].names)]
    <2>1. C(c) = [k \in 1..(IF t[x].type = "LIST" THEN m + 1 ELSE m) |-> Len(t[FirstItem(c, k - 1)].names)]
        BY <1>1, <1>3, <1>4, CountsOf
    <2> QED
        BY <1>3, <2>1
<1>8. C(q) = [k \in 1..(m + 1 + more) |-> Len(t[FirstItem(q, k - 1)].names)]
    <2>1. C(q) = [k \in 1..(IF t[x].type = "LIST" THEN (m + 1) + 1 ELSE m + 1) |-> Len(t[FirstItem(q, k - 1)].names)]
        BY <1>1, <1>5, CountsOf
    <2> QED
        BY <1>3, <2>1
<1>9. C(c) \in Seq(Nat) /\ C(q) \in Seq(Nat) /\ shape \in Seq(Nat) /\ more \in Nat
    <2>1. \A y \in DOMAIN t : t[y].names \in Seq(Int) /\ t[y].shape \in Seq(Nat)
        BY DEF Wellformed, NodeOK
    <2> QED
        BY <1>1, <1>2, <1>3, <2>1, ItemCountsAre
<1>10. Len(C(c)) = m + more /\ Len(C(q)) = m + more + 1
    BY <1>3, <1>7, <1>8, <1>9
<1>11. C(q)[1] = Len(t[q].names)
    <2>1. 1 \in 1..(m + 1 + more) /\ 1 - 1 = 0
        BY <1>3, <1>9
    <2> QED
        BY <1>1, <1>8, <2>1, ZenonT(60)
<1>12. ASSUME NEW k \in 1..(m + more) PROVE C(q)[k + 1] = C(c)[k]
    <2>1. k + 1 \in 1..(m + 1 + more) /\ (k + 1) - 1 = k /\ k - 1 \in Nat /\ 1 + (k - 1) = k
        BY <1>3, <1>9
    <2>2. FirstItem(c, k - 1) = FirstItem(q, k)
        BY <1>c, <2>1
    <2>3. C(c)[k] = Len(t[FirstItem(c, k - 1)].names)
        BY <1>7
    <2>4. C(q)[k + 1] = Len(t[FirstItem(q, (k + 1) - 1)].names)
        <3> DEFINE i == k + 1
        <3>1. i \in 1..(m + 1 + more)
            BY <2>1
        <3> HIDE DEF i
        <3>2. C(q)[i] = Len(t[FirstItem(q, i - 1)].names)
            BY <1>8, <3>1
        <3> QED
            BY <3>2 DEF i
    <2> QED
        BY <2>1, <2>2, <2>3, <2>4
<1>13. Extents(t, q) = C(q) \o shape /\ Extents(t, c) = C(c) \o shape
    BY <1>6 DEF Extents, x
<1> HIDE DEF C, shape, more
<1> DEFINE E == Extents(t, q)
           G == Extents(t, c)
           n == m + more
           a == C(q)
           b == C(c)
<1>14. /\ Len(E) = n + 1 + Len(shape) /\ Len(G) = n + Len(shape) /\ n \in Nat /\ Len(shape) \in Nat
       /\ \A k \in 1..(n + 1 + Len(shape)) : E[k] = IF k <= n + 1 THEN a[k] ELSE shape[k - (n + 1)]
       /\ \A k \in 1..(n + Len(shape)) : G[k] = IF k <= n THEN b[k] ELSE shape[k - n]
    <2>1. n \in Nat /\ Len(a) = n + 1 /\ Len(b) = n /\ a \in Seq(Nat) /\ b \in Seq(Nat) /\ E = a \o shape /\ G = b \o shape
        BY <1>3, <1>9, <1>10, <1>13
    <2> HIDE DEF E, G, n, a, b
    <2>2. Len(shape) \in Nat /\ shape \in Seq(Nat)
        BY <1>9, LenProperties
    <2>3. Len(E) = Len(a) + Len(shape) /\ \A k \in 1..(Len(a) + Len(shape)) : E[k] = IF k <= Len(a) THEN a[k] ELSE shape[k - Len(a)]
        BY <2>1, <2>2, ConcatProperties
    <2>4. Len(G) = Len(b) + Len(shape) /\ \A k \in 1..(Len(b) + Len(shape)) : G[k] = IF k <= Len(b) THEN b[k] ELSE shape[k - Len(b)]
        BY <2>1, <2>2, ConcatProperties
    <2> QED
        BY <2>1, <2>2, <2>3, <2>4
<1>15. (\A k \in 1..n : a[k + 1] = b[k]) /\ a[1] = Len(t[q].names)
    BY <1>11, <1>12
<1> HIDE DEF E, G, n, a, b
<1>16. Len(E) = Len(G) + 1 /\ E[1] = Len(t[q].names)
    <2>1. 1 \in 1..(n + 1 + Len(shape)) /\ 1 <= n + 1
        BY <1>14
    <2> QED
        BY <1>14, <1>15, <2>1
<1>17. ASSUME NEW k \in 1..Len(G) PROVE E[k + 1] = G[k]
    <2>1. k + 1 \in 1..(n + 1 + Len(shape)) /\ k \in 1..(n + Len(shape))
        BY <1>14
    <2>2. CASE k <= n
        <3>1. k \in 1..n /\ k + 1 <= n + 1
            BY <1>14, <2>2
        <3> QED
            BY <1>14, <1>15, <2>1, <2>2, <3>1
    <2>3. CASE ~(k <= n)
        <3>1. ~(k + 1 <= n + 1) /\ (k + 1) - (n + 1) = k - n
            BY <1>14, <2>3
        <3> QED
            BY <1>14, <2>1, <2>3, <3>1
    <2> QED
        BY <2>2, <2>3
<1> QED
    BY <1>1, <1>16, <1>17 DEF E, G, c

\* A node of nested lists that are an array for JSON is where the extents say.
On(t, p, S, z) == p \o z \in DOMAIN t /\ PartPath(S, z) /\ Extents(t, p \o z) = TailOf(S, Len(z))

\* Extents that agree in every dimension are the same.
LEMMA SameExtents ==
    ASSUME NEW s \in Seq(Nat), NEW w \in Seq(Nat), NEW n, Len(s) = n, Len(w) = n, \A k \in 1..n : s[k] = w[k]
    PROVE  s = w
  OBVIOUS

\* No dimension is left out.
LEMMA TailWhole ==
    ASSUME NEW s \in Seq(Nat)
    PROVE  TailOf(s, 0) = s
<1>1. Len(s) \in Nat
    BY LenProperties
<1>2. 0 \in 0..Len(s)
    BY <1>1
<1>3. TailOf(s, 0) \in Seq(Nat) /\ Len(TailOf(s, 0)) = Len(s) - 0
      /\ \A k \in 1..(Len(s) - 0) : TailOf(s, 0)[k] = s[0 + k]
    BY <1>2, TailExtents
<1> DEFINE W == TailOf(s, 0)
<1>4. W \in Seq(Nat) /\ Len(W) = Len(s)
    BY <1>1, <1>3
<1>5. ASSUME NEW k \in 1..Len(s) PROVE W[k] = s[k]
    BY <1>1, <1>3
<1> HIDE DEF W
<1>6. W = s
    BY <1>4, <1>5, SameExtents
<1> QED
    BY <1>6 DEF W

\* A child of a node on the box is on the box.
LEMMA BoxChild ==
    ASSUME NEW t, Wellformed(t), Shallow(t), NEW p \in DOMAIN t, Rectangular(t, p),
           NEW types, types \subseteq {"BOOL"} \cup Ints \cup Reals, Uniform(types, t, p),
           NEW z \in Paths, On(t, p, Extents(t, p), z),
           NEW c \in Int, Append(p \o z, c) \in DOMAIN t
    PROVE  On(t, p, Extents(t, p), Append(z, c))
<1> DEFINE S == Extents(t, p)
           q == p \o z
           x == Append(q, c)
           names == t[q].names
           n == Len(names)
           f == FirstItem(q, 1)
           m == Len(z)
<1>1. Linked(t) /\ p \in Seq(Int) /\ z \in Seq(Int) /\ m \in Nat /\ q \in DOMAIN t /\ q \in Seq(Int)
      /\ IsPrefix(p, q) /\ NodeOK(t[q])
    <2>1. Linked(t) /\ q \in DOMAIN t
        BY DEF Wellformed, On
    <2>2. p \in Seq(Int) /\ z \in Seq(Int) /\ q \in Seq(Int) /\ NodeOK(t[q])
        BY <2>1 DEF Wellformed, Linked, Paths
    <2> QED
        BY <2>1, <2>2, PrefixConcat, LenProperties
<1>2. S \in Seq(Nat) /\ Len(S) \in Nat
    BY ExtentsOK, LenProperties
<1>3. c \in Range(names)
    <2>1. Append(q, c) # <<>> /\ Front(Append(q, c)) = q /\ Last(Append(q, c)) = c
        BY <1>1, AppendFront
    <2> QED
        BY <1>1, <2>1 DEF Linked
<1>4. t[q].type = "LIST" /\ names # <<>>
    <2>1. names # <<>>
        BY <1>3 DEF Range
    <2>2. t[q].type = "LIST" \/ FullNode(t[q])
        BY <1>1, UniformNode
    <2> QED
        BY <2>1, <2>2, DataNodeIs DEF FullNode
<1>5. names = ItemNames(n) /\ n \in Nat
    <2>1. t[q] = ListNode(n) /\ n \in Nat
        BY <1>1, <1>4, LenProperties DEF NodeOK
    <2> HIDE DEF n
    <2>2. ListNode(n).names = ItemNames(n)
        BY DEF ListNode, Node
    <2> QED
        BY <2>1, <2>2
<1>6. ListItem(c) \in 0..(n - 1)
    BY <1>3, <1>5, ItemNamesAre
<1> DEFINE E == Extents(t, q)
           G == Extents(t, f)
<1>7. f \in DOMAIN t /\ Len(E) = Len(G) + 1 /\ E[1] = n /\ \A k \in 1..Len(G) : E[k + 1] = G[k]
    BY <1>1, <1>4, ExtentsStep
<1>8. f = Append(q, names[1]) /\ 1 \in DOMAIN names
    BY <1>1, <1>4, FirstOf
<1>9. Extents(t, x) = G
    <2>1. PICK i \in DOMAIN names : c = names[i]
        BY <1>3 DEF Range
    <2>2. \A a, b \in DOMAIN names : Extents(t, Append(q, names[a])) = Extents(t, Append(q, names[b]))
        BY <1>1, <1>4 DEF Rectangular
    <2> QED
        BY <1>8, <2>1, <2>2
<1>10. E = TailOf(S, m) /\ PartPath(S, z) /\ m <= Len(S)
    BY DEF On, PartPath
<1>m. m \in 0..Len(S)
    BY <1>1, <1>2, <1>10
<1>11. Len(E) = Len(S) - m /\ \A k \in 1..(Len(S) - m) : E[k] = S[m + k]
    <2> HIDE DEF S, E, m
    <2>1. Len(TailOf(S, m)) = Len(S) - m /\ \A k \in 1..(Len(S) - m) : TailOf(S, m)[k] = S[m + k]
        BY <1>2, <1>m, TailExtents
    <2> QED
        BY <1>10, <2>1
<1>12. G \in Seq(Nat) /\ Len(G) \in Nat
    BY <1>7, ExtentsOK, LenProperties
<1> HIDE DEF S, q, names, n, f, m, E, G
<1>13. m + 1 <= Len(S) /\ Len(G) = Len(S) - (m + 1) /\ S[m + 1] = n
    <2>0. Len(E) = Len(G) + 1 /\ Len(E) = Len(S) - m /\ m \in Nat /\ Len(S) \in Nat /\ Len(G) \in Nat
        BY <1>1, <1>2, <1>7, <1>11, <1>12
    <2>1. m + 1 <= Len(S) /\ Len(G) = Len(S) - (m + 1) /\ 1 \in 1..(Len(S) - m)
        BY <2>0
    <2> QED
        BY <1>7, <1>11, <2>1
<1>14. G = TailOf(S, m + 1)
    <2>1. m + 1 \in 0..Len(S)
        BY <1>1, <1>2, <1>13
    <2>2. /\ TailOf(S, m + 1) \in Seq(Nat) /\ Len(TailOf(S, m + 1)) = Len(S) - (m + 1)
          /\ \A k \in 1..(Len(S) - (m + 1)) : TailOf(S, m + 1)[k] = S[(m + 1) + k]
        BY <1>2, <2>1, TailExtents
    <2>3. ASSUME NEW k \in 1..Len(G) PROVE G[k] = S[(m + 1) + k]
        <3>1. k + 1 \in 1..(Len(S) - m) /\ m + (k + 1) = (m + 1) + k
            BY <1>1, <1>2, <1>13
        <3>2. E[k + 1] = S[m + (k + 1)]
            BY <1>11, <3>1
        <3> QED
            BY <1>7, <3>1, <3>2
    <2> DEFINE W == TailOf(S, m + 1)
    <2>4. W \in Seq(Nat) /\ Len(W) = Len(G) /\ \A k \in 1..Len(G) : W[k] = G[k]
        BY <1>13, <2>2, <2>3
    <2> HIDE DEF W
    <2>5. W = G
        BY <1>12, <2>4
    <2> QED
        BY <2>5 DEF W
<1> DEFINE y == Append(z, c)
<1>15. y \in Seq(Int) /\ Len(y) = m + 1 /\ y[m + 1] = c /\ \A d \in 1..m : y[d] = z[d]
    BY <1>1 DEF m
<1>16. p \o y = x
    BY <1>1, ConcatAppend DEF q
<1> HIDE DEF y
<1>17. PartPath(S, y)
    <2>1. ASSUME NEW d \in 1..Len(y) PROVE ListItem(y[d]) \in 0..(S[d] - 1)
        <3>1. CASE d = m + 1
            BY <1>6, <1>13, <1>15, <3>1
        <3>2. CASE d # m + 1
            <4>1. d \in 1..m
                BY <1>1, <1>15, <3>2
            <4> QED
                BY <1>10, <1>15, <4>1 DEF PartPath, m
        <3> QED
            BY <3>1, <3>2
    <2> QED
        BY <1>13, <1>15, <2>1 DEF PartPath, Paths
<1>18. x \in DOMAIN t
    BY DEF q
<1>19. On(t, p, S, y)
    BY <1>9, <1>14, <1>15, <1>16, <1>17, <1>18 DEF On
<1> QED
    BY <1>19 DEF S, y

\* All nodes below a rectangular list are on the box.
LEMMA BoxNodes ==
    ASSUME NEW t, Wellformed(t), Shallow(t), NEW p \in DOMAIN t, Rectangular(t, p),
           NEW types, types \subseteq {"BOOL"} \cup Ints \cup Reals, Uniform(types, t, p),
           NEW x \in Paths, p \o x \in DOMAIN t
    PROVE  On(t, p, Extents(t, p), x)
<1> DEFINE S == Extents(t, p)
           good == {n \in Nat : \A z \in Paths : Len(z) = n /\ p \o z \in DOMAIN t => On(t, p, S, z)}
<1>1. Linked(t) /\ p \in Seq(Int) /\ S \in Seq(Nat) /\ Len(S) \in Nat
    BY ExtentsOK, LenProperties DEF Wellformed, Linked
<1>2. 0 \in good
    <2>1. ASSUME NEW z \in Paths, Len(z) = 0 PROVE On(t, p, S, z)
        <3>1. p \o z = p
            <4>1. z = <<>>
                BY <2>1 DEF Paths
            <4> QED
                BY <1>1, <4>1
        <3>2. PartPath(S, z)
            BY <1>1, <2>1 DEF PartPath
        <3>3. TailOf(S, 0) = S
            BY <1>1, TailWhole
        <3> QED
            BY <2>1, <3>1, <3>2, <3>3 DEF On
    <2> QED
        BY <2>1
<1>3. ASSUME NEW n \in Nat, n \in good PROVE n + 1 \in good
    <2>1. ASSUME NEW z \in Paths, Len(z) = n + 1, p \o z \in DOMAIN t PROVE On(t, p, S, z)
        <3> DEFINE y == Front(z)
                   c == Last(z)
        <3>1. z \in Seq(Int) /\ z # <<>>
            BY <2>1 DEF Paths
        <3>2. y \in Seq(Int) /\ c \in Int /\ Len(y) = n /\ z = Append(y, c)
            BY <2>1, <3>1, FrontLast, SMTT(30)
        <3>3. p \o z # <<>> /\ Front(p \o z) = p \o y
            BY <1>1, <3>1, ConcatFront
        <3>4. p \o y \in DOMAIN t
            BY <1>1, <2>1, <3>3 DEF Linked
        <3> HIDE DEF y, c
        <3>5. p \o z = Append(p \o y, c)
            <4>1. p \o Append(y, c) = Append(p \o y, c)
                BY <1>1, <3>2, ConcatAppend
            <4> QED
                BY <3>2, <4>1
        <3>6. On(t, p, S, y)
            BY <1>3, <3>2, <3>4 DEF Paths
        <3>7. y \in Paths /\ Append(p \o y, c) \in DOMAIN t
            BY <2>1, <3>2, <3>5 DEF Paths
        <3>8. On(t, p, S, Append(y, c))
            BY <3>2, <3>6, <3>7, BoxChild
        <3> QED
            BY <3>2, <3>8
    <2> QED
        BY <2>1
<1> DEFINE N == Len(x)
<1>4. N \in Nat
    BY LenProperties DEF Paths
<1>5. \A i \in 0..(N - 1) : i \in good => i + 1 \in good
    BY <1>3, <1>4
<1>6. 0..N \subseteq good
    <2> HIDE DEF good, N
    <2> QED
        BY <1>2, <1>4, <1>5, BoundedInduction
<1>7. N \in good
    BY <1>4, <1>6
<1> QED
    BY <1>7

\* The document of such lists.
DocOn(j, p, S, z) ==
    /\ PartPath(S, z)
    /\ j[p \o z].type = "array" <=> Len(z) < Len(S)
    /\ Len(z) < Len(S) => j[p \o z].names = ItemNames(S[Len(z) + 1])

\* So are all nodes of the document below it.
LEMMA BoxDoc ==
    ASSUME NEW t, Wellformed(t), Shallow(t), NEW p \in DOMAIN t, Rectangular(t, p), ~Failed(ToJson(t)),
           NEW types, types \subseteq {"BOOL"} \cup Ints \cup Reals, Uniform(types, t, p),
           NEW z \in Paths, p \o z \in DOMAIN ToJson(t)
    PROVE  DocOn(ToJson(t), p, Extents(t, p), z)
<1> DEFINE S == Extents(t, p)
           j == ToJson(t)
           x == p \o z
<1>1. p \in Paths /\ S \in Seq(Nat) /\ Len(S) \in Nat /\ IsPrefix(p, x) /\ DOMAIN t \subseteq Paths
    BY ExtentsOK, LenProperties, PrefixConcat DEF Wellformed, Linked, Paths
<1>2. PICK r \in DOMAIN t : /\ IsPrefix(p, r)
                            /\ \E q \in DOMAIN NodeToJson(t[r]) : x = r \o q /\ j[x] = NodeToJson(t[r])[q]
    BY <1>1, DocNode
<1>3. PICK q \in DOMAIN NodeToJson(t[r]) : x = r \o q /\ j[x] = NodeToJson(t[r])[q]
    BY <1>2
<1> DEFINE y == Rest(p, r)
           u == t[r]
           m == Len(y)
<1>4. y \in Paths /\ r = p \o y /\ r \in Paths /\ m \in Nat
    BY <1>1, <1>2, PrefixRest, LenProperties DEF Rest, Paths
<1>5. q \in Paths /\ ~Failed(NodeToJson(u)) /\ NodeOK(u)
    BY ToJsonAt DEF Wellformed
<1> HIDE DEF j, y, u, x
<1>6. z = y \o q
    <2>1. p \o z = p \o (y \o q)
        BY <1>1, <1>3, <1>4, <1>5, ConcatThree DEF x
    <2>2. y \o q \in Paths
        BY <1>4, <1>5, ConcatPaths DEF Paths
    <2> QED
        BY <1>1, <2>1, <2>2, ConcatSame
<1>7. On(t, p, S, y)
    BY <1>1, <1>4, BoxNodes
<1> DEFINE E == Extents(t, r)
<1>8. E = TailOf(S, m) /\ PartPath(S, y) /\ m <= Len(S)
    BY <1>4, <1>7 DEF On, PartPath
<1>9. E \in Seq(Nat) /\ Len(E) = Len(S) - m /\ Len(E) \in Nat /\ \A k \in 1..Len(E) : E[k] = S[m + k]
    <2> HIDE DEF S, E, m
    <2>0. S \in Seq(Nat) /\ Len(S) \in Nat
        BY <1>1 DEF S
    <2>m. m \in Nat /\ m <= Len(S)
        BY <1>4, <1>8 DEF m, S
    <2>1. m \in 0..Len(S)
        BY <2>0, <2>m
    <2>2. TailOf(S, m) \in Seq(Nat) /\ Len(TailOf(S, m)) = Len(S) - m /\ Len(S) - m \in Nat
          /\ \A k \in 1..(Len(S) - m) : TailOf(S, m)[k] = S[m + k]
        BY <2>0, <2>1, TailExtents
    <2>3. E = TailOf(S, m)
        BY <1>8 DEF E, S, m
    <2> QED
        BY <2>2, <2>3
<1>10. u.type = "LIST" \/ FullNode(u)
    BY <1>2, UniformNode DEF u
<1>i. \A k \in 1..Len(E) : E[k] \in Nat
    BY <1>9
<1> HIDE DEF S, E, m
<1>11. CASE u.type = "LIST"
    <2> DEFINE names == u.names
               n == Len(names)
               e == <<>>
    <2>1. names = ItemNames(n) /\ n \in Nat
        <3>1. u = ListNode(n) /\ n \in Nat
            BY <1>5, <1>11, LenProperties DEF NodeOK
        <3> HIDE DEF n
        <3>2. ListNode(n).names = ItemNames(n)
            BY DEF ListNode, Node
        <3> QED
            BY <3>1, <3>2
    <2>2. NodeToJson(u) = Alone(JInner("array", names))
        BY <1>5, <1>11, NodeToJsonIs
    <2>3. q = e /\ j[x] = JInner("array", names)
        BY <1>3, <2>2, AloneIs DEF u
    <2>4. z = y /\ Len(z) = m
        BY <1>4, <1>6, <2>3, ConcatPaths DEF Paths, m
    <2>5. Len(E) # 0 /\ E[1] = n
        <3>1. CASE names = <<>>
            <4>1. E = <<0>>
                BY <1>11, <3>1, ExtentsEnd DEF E, u
            <4>2. n = 0
                BY <3>1
            <4> QED
                BY <4>1, <4>2
        <3>2. CASE names # <<>>
            <4>1. Len(E) = Len(Extents(t, FirstItem(r, 1))) + 1 /\ E[1] = n /\ FirstItem(r, 1) \in DOMAIN t
                BY <1>11, <3>2, ExtentsStep DEF E, u
            <4>2. Len(Extents(t, FirstItem(r, 1))) \in Nat
                BY <4>1, ExtentsOK, LenProperties
            <4> QED
                BY <4>1, <4>2
        <3> QED
            BY <3>1, <3>2
    <2> HIDE DEF names, n
    <2>6. m < Len(S) /\ 1 \in 1..Len(E)
        BY <1>1, <1>4, <1>9, <2>5 DEF S, m
    <2>7. S[m + 1] = n
        BY <1>9, <2>5, <2>6
    <2>8. j[x].type = "array" /\ j[x].names = names
        BY <2>3, JInnerIs
    <2> QED
        BY <1>8, <2>1, <2>4, <2>6, <2>7, <2>8 DEF DocOn, x, S, j
<1>12. CASE FullNode(u)
    <2> DEFINE shape == u.shape
               names == ItemNames(shape[Len(q) + 1])
               type == u.type
               e == At(u, ItemPath(q))
    <2>1. E = shape
        <3>1. u.names = <<>> /\ DataNode(u)
            BY <1>12, DataNodeIs DEF FullNode
        <3> QED
            BY <3>1, ExtentsEnd DEF E, u
    <2>2. NodeToJson(u) = Nested(u)
        BY <1>5, <1>12, NodeToJsonIs DEF FullNode, Failed
    <2>3. PartPath(shape, q) /\ j[x] = IF Len(q) < Len(shape) THEN JInner("array", names) ELSE Number(type, e)
        BY <1>3, <1>9, <2>1, <2>2, NestedAt DEF u
    <2>4. type \in {"BOOL"} \cup Ints \cup Reals
        BY <1>12, DataNodeIs DEF FullNode
    <2>5. PartPath(S, z) /\ Len(z) = m + Len(q) /\ Len(q) \in Nat
        <3>1. PartPath(TailOf(S, Len(y)), q)
            BY <1>8, <2>1, <2>3 DEF m
        <3>2. S \in Seq(Nat)
            BY <1>1
        <3> QED
            BY <1>5, <1>6, <1>8, <3>1, <3>2, PartBehind DEF m
    <2>6. Len(z) < Len(S) <=> Len(q) < Len(E)
        BY <1>1, <1>4, <1>9, <2>5 DEF S, m
    <2>7. ASSUME Len(q) < Len(E) PROVE names = ItemNames(S[Len(z) + 1])
        <3>1. Len(q) + 1 \in 1..Len(E) /\ m + (Len(q) + 1) = Len(z) + 1
            BY <1>4, <1>9, <2>5, <2>7 DEF m
        <3>2. E[Len(q) + 1] = S[Len(z) + 1]
            BY <1>9, <3>1
        <3> QED
            BY <2>1, <3>2
    <2> HIDE DEF names, e, type
    <2>8. JInner("array", names).type = "array" /\ JInner("array", names).names = names
        BY JInnerIs
    <2>9. Number(type, e).type # "array"
        <3>1. KindTypes({"bool"}, {"BOOL"})
            BY DEF KindTypes
        <3> QED
            BY <2>4, <3>1, NumberKind, Zenon
    <2> QED
        BY <2>1, <2>3, <2>5, <2>6, <2>7, <2>8, <2>9 DEF DocOn, x, S, j
<1> QED
    BY <1>10, <1>11, <1>12

\* The way from first item to first item.
Down(n) == FirstItem(<<>>, n)

\* The path of the first items.
LEMMA DownIs ==
    ASSUME NEW n \in Nat
    PROVE  /\ Down(n) \in Paths /\ Len(Down(n)) = n /\ \A d \in 1..n : Down(n)[d] = -1
           /\ \A p \in Paths : FirstItem(p, n) = p \o Down(n)
<1> DEFINE e == <<>>
<1>1. e \in Paths /\ Len(e) = 0 /\ Down(n) = FirstItem(e, n)
    BY EmptyPath, LenProperties DEF Paths, Down
<1>2. ASSUME NEW p \in Paths PROVE p \o e = p
    BY <1>2, ConcatPaths DEF Paths
<1> HIDE DEF e
<1>3. Down(n) \in Paths /\ Len(Down(n)) = Len(e) + n
      /\ \A d \in 1..(Len(e) + n) : Down(n)[d] = IF d <= Len(e) THEN e[d] ELSE -1
    <2>1. FirstItem(e, n) \in Paths /\ Len(FirstItem(e, n)) = Len(e) + n
          /\ \A d \in 1..(Len(e) + n) : FirstItem(e, n)[d] = IF d <= Len(e) THEN e[d] ELSE -1
        BY <1>1, FirstItemIs
    <2> QED
        BY <1>1, <2>1
<1>4. ASSUME NEW p \in Paths PROVE FirstItem(p, n) = p \o Down(n)
    <2>1. FirstItem(p \o e, n) = p \o FirstItem(e, n)
        BY <1>1, FirstItemBehind
    <2>2. p \o e = p
        BY <1>2
    <2> QED
        BY <1>1, <2>1, <2>2
<1> QED
    BY <1>1, <1>3, <1>4

\* Such a document has the extents of the lists for its shape.
LEMMA BoxShape ==
    ASSUME NEW j, Document(j), NEW p \in Paths, NEW S \in Seq(Nat),
           \A z \in Paths : p \o z \in DOMAIN j <=> PartPath(S, z),
           \A z \in Paths : PartPath(S, z) => DocOn(j, p, S, z),
           NEW n \in Nat, PartPath(S, Down(n)),
           n = Len(S) \/ (n + 1 = Len(S) /\ S[n + 1] = 0)
    PROVE  JsonShape(j, p) = S
<1>1. Len(S) \in Nat
    BY LenProperties
<1>2. ASSUME NEW k \in Nat
      PROVE  /\ Down(k) \in Paths /\ Len(Down(k)) = k /\ FirstItem(p, k) = p \o Down(k)
             /\ \A d \in 1..k : Down(k)[d] = -1
    BY DownIs
<1>3. n <= Len(S) /\ \A d \in 1..n : ListItem(Down(n)[d]) \in 0..(S[d] - 1)
    BY <1>2 DEF PartPath
<1>4. ASSUME NEW k \in 0..n PROVE PartPath(S, Down(k))
    <2>0. k \in Nat /\ k <= n /\ Down(k) \in Paths /\ Len(Down(k)) = k
        BY <1>2
    <2>1. ASSUME NEW d \in 1..k PROVE ListItem(Down(k)[d]) \in 0..(S[d] - 1)
        <3>0. d \in 1..n
            BY <2>0
        <3>1. Down(k)[d] = -1 /\ Down(n)[d] = -1
            BY <1>2, <2>0, <3>0
        <3>2. ListItem(Down(n)[d]) \in 0..(S[d] - 1)
            BY <1>3, <3>0
        <3> QED
            BY <3>1, <3>2
    <2>2. Len(Down(k)) <= Len(S)
        BY <1>1, <1>3, <2>0
    <2> QED
        BY <2>0, <2>1, <2>2 DEF PartPath
<1>5. ASSUME NEW k \in 0..n PROVE FirstItem(p, k) \in DOMAIN j
    <2>1. k \in Nat
        OBVIOUS
    <2> QED
        BY <1>2, <1>4, <2>1
<1>6. FirstItem(p, n + 1) \notin DOMAIN j
    <2>0. n + 1 \in Nat
        OBVIOUS
    <2>1. FirstItem(p, n + 1) = p \o Down(n + 1) /\ Down(n + 1) \in Paths
        BY <1>2, <2>0
    <2>2. Len(Down(n + 1)) = n + 1 /\ Down(n + 1)[n + 1] = -1 /\ n + 1 \in 1..(n + 1)
        BY <1>2, <2>0, SMTT(30)
    <2>3. ~PartPath(S, Down(n + 1))
        <3>3. CASE n = Len(S)
            BY <2>2, <3>3 DEF PartPath
        <3>4. CASE n + 1 = Len(S) /\ S[n + 1] = 0
            <4>1. ListItem(-1) \notin 0..(0 - 1)
                BY DEF ListItem
            <4> QED
                BY <2>2, <3>4, <4>1 DEF PartPath
        <3> QED
            BY <3>3, <3>4
    <2> QED
        BY <2>1, <2>3
<1>7. ASSUME NEW k \in 0..n, k < Len(S)
      PROVE  Len(j[FirstItem(p, k)].names) = S[k + 1]
    <2>0. k \in Nat
        OBVIOUS
    <2>1. DocOn(j, p, S, Down(k)) /\ Len(Down(k)) = k /\ FirstItem(p, k) = p \o Down(k)
        BY <1>2, <1>4, <2>0
    <2>2. j[FirstItem(p, k)].names = ItemNames(S[k + 1])
        BY <1>7, <2>1 DEF DocOn
    <2>3. S[k + 1] \in Nat
        BY <1>1, <1>7, ElementOfSeq
    <2> QED
        BY <2>2, <2>3, ItemNamesAre
<1>8. j[FirstItem(p, n)].type = "array" <=> n < Len(S)
    <2>1. DocOn(j, p, S, Down(n)) /\ FirstItem(p, n) = p \o Down(n) /\ Len(Down(n)) = n
        BY <1>2
    <2> QED
        BY <2>1 DEF DocOn
<1> DEFINE N == IF j[FirstItem(p, n)].type = "array" THEN n + 1 ELSE n
<1>9. N = Len(S)
    BY <1>1, <1>3, <1>8
<1>10. JsonShape(j, p) = [k \in 1..N |-> Len(j[FirstItem(p, k - 1)].names)]
    <2>1. Linked(j)
        BY DEF Document
    <2> QED
        BY <1>5, <1>6, <2>1, CountsOf DEF JsonShape
<1> HIDE DEF N
<1>11. ASSUME NEW k \in 1..Len(S) PROVE Len(j[FirstItem(p, k - 1)].names) = S[k]
    <2> DEFINE i == k - 1
    <2>1. i \in 0..n /\ i < Len(S) /\ i + 1 = k
        BY <1>1, <1>3
    <2> HIDE DEF i
    <2>2. Len(j[FirstItem(p, i)].names) = S[i + 1]
        BY <1>7, <2>1
    <2> QED
        BY <2>1, <2>2 DEF i
<1>12. S = [k \in 1..Len(S) |-> S[k]]
    BY <1>1
<1> QED
    BY <1>9, <1>10, <1>11, <1>12

\* Where the first items of the lists end.
LEMMA BoxEnd ==
    ASSUME NEW t, Wellformed(t), Shallow(t), NEW p \in DOMAIN t, Rectangular(t, p),
           NEW types, types \subseteq {"BOOL"} \cup Ints \cup Reals, Uniform(types, t, p)
    PROVE  \E n \in Nat : LET S == Extents(t, p)
                          IN  /\ PartPath(S, Down(n))
                              /\ n = Len(S) \/ (n + 1 = Len(S) /\ S[n + 1] = 0)
<1> DEFINE S == Extents(t, p)
           q == Innermost(t, p)
           m == Len(q) - Len(p)
           u == t[q]
           z == Down(m)
<1>1. S \in Seq(Nat) /\ Len(S) \in Nat /\ Linked(t) /\ p \in Paths
    BY ExtentsOK, LenProperties DEF Wellformed, Linked, Paths
<1>2. q \in DOMAIN t /\ IsPrefix(p, q) /\ q = FirstItem(p, m) /\ m \in Nat /\ FirstItem(q, 1) \notin DOMAIN t
    <2>1. PICK depth \in Nat : Within(t, depth)
        BY DEF Shallow
    <2> QED
        BY <1>1, <2>1, InnermostIs
<1> HIDE DEF q, m
<1>3. z \in Paths /\ Len(z) = m /\ q = p \o z /\ \A d \in 1..m : z[d] = -1
    BY <1>1, <1>2, DownIs
<1> HIDE DEF z
<1>4. On(t, p, S, z)
    BY <1>2, <1>3, BoxNodes
<1>5. PartPath(S, z) /\ m <= Len(S) /\ Extents(t, q) = TailOf(S, m)
    BY <1>3, <1>4 DEF On, PartPath
<1>6. m \in 0..Len(S)
    BY <1>1, <1>2, <1>5
<1>7. /\ Extents(t, q) \in Seq(Nat) /\ Len(Extents(t, q)) = Len(S) - m
      /\ \A k \in 1..(Len(S) - m) : Extents(t, q)[k] = S[m + k]
    <2> HIDE DEF S
    <2>1. S \in Seq(Nat)
        BY <1>1 DEF S
    <2>2. TailOf(S, m) \in Seq(Nat) /\ Len(TailOf(S, m)) = Len(S) - m
          /\ \A k \in 1..(Len(S) - m) : TailOf(S, m)[k] = S[m + k]
        BY <1>6, <2>1, TailExtents
    <2> QED
        BY <1>5, <2>2 DEF S
<1>8. u.type = "LIST" \/ FullNode(u)
    BY <1>2, UniformNode
<1>9. CASE u.type = "LIST"
    <2>1. u.names = <<>>
        BY <1>2, <1>9, FirstOf
    <2>2. Extents(t, q) = <<0>>
        BY <1>2, <1>9, <2>1, ExtentsEnd
    <2> DEFINE E == Extents(t, q)
    <2>3. Len(E) = 1 /\ E[1] = 0
        BY <2>2
    <2> HIDE DEF E, S
    <2>4. Len(S) - m = 1 /\ \A k \in 1..(Len(S) - m) : E[k] = S[m + k]
        BY <1>7, <2>3 DEF E, S
    <2>5. m + 1 = Len(S) /\ S[m + 1] = 0
        <3>1. 1 \in 1..(Len(S) - m) /\ m + 1 = Len(S)
            BY <1>1, <1>2, <2>4 DEF S
        <3> QED
            BY <2>3, <2>4, <3>1
    <2> QED
        BY <1>2, <1>5, <2>5 DEF S, z
<1>10. CASE FullNode(u)
    <2> DEFINE shape == u.shape
               w == Down(Len(S))
    <2>1. shape = Extents(t, q)
        <3>1. u.names = <<>> /\ DataNode(u)
            BY <1>10, DataNodeIs DEF FullNode
        <3> QED
            BY <1>2, <3>1, ExtentsEnd
    <2>2. Product(shape) # 0 /\ shape \in Seq(Nat)
        BY <1>10, DataNodeIs DEF FullNode
    <2> DEFINE n == Len(shape)
               v == Down(n)
    <2> HIDE DEF S, shape, n
    <2>3. n = Len(S) - m /\ n \in Nat /\ \A k \in 1..n : shape[k] = S[m + k]
        <3>1. n = Len(S) - m
            BY <1>7, <2>1 DEF S, n
        <3>2. n \in Nat
            BY <1>6, <3>1, <1>1 DEF S
        <3>3. \A k \in 1..(Len(S) - m) : shape[k] = S[m + k]
            BY <1>7, <2>1 DEF S
        <3> QED
            BY <3>1, <3>2, <3>3
    <2>4. PartPath(shape, v) /\ Len(v) = n /\ \A d \in 1..n : v[d] = -1
        <3> DEFINE e == <<>>
        <3>0. e \in Paths /\ Len(e) = 0 /\ v = FirstItem(e, n)
            BY EmptyPath, LenProperties DEF Paths, Down
        <3> HIDE DEF e
        <3>1. PartPath(shape, e)
            BY <2>2, <2>3, <3>0 DEF PartPath, n
        <3>2. PartPath(shape, FirstItem(e, n)) <=> Len(e) + n <= Len(shape)
            BY <2>2, <2>3, <3>1, PartFirst
        <3>3. PartPath(shape, v)
            BY <2>3, <3>0, <3>2 DEF n
        <3> QED
            BY <2>3, <3>3, DownIs
    <2>5. w \in Paths /\ Len(w) = Len(S) /\ \A d \in 1..Len(S) : w[d] = -1
        <3>1. Len(S) \in Nat
            BY <1>1 DEF S
        <3> QED
            BY <3>1, DownIs
    <2> HIDE DEF v, w
    <2>6. ASSUME NEW d \in 1..Len(w) PROVE ListItem(w[d]) \in 0..(S[d] - 1)
        <3>1. CASE d <= m
            <4>1. d \in 1..m /\ w[d] = -1 /\ z[d] = -1
                BY <1>2, <1>3, <2>5, <3>1
            <4> QED
                BY <1>3, <1>5, <4>1 DEF PartPath, S
        <3>2. CASE ~(d <= m)
            <4> DEFINE k == d - m
            <4>0. Len(S) \in Nat
                BY <1>1 DEF S
            <4>1. k \in 1..n /\ m + k = d /\ w[d] = -1
                BY <1>2, <2>3, <2>5, <3>2, <4>0
            <4> HIDE DEF k
            <4>2. v[k] = -1 /\ ListItem(v[k]) \in 0..(shape[k] - 1) /\ shape[k] = S[d]
                BY <2>3, <2>4, <4>1 DEF PartPath
            <4> QED
                BY <4>1, <4>2
        <3> QED
            BY <3>1, <3>2
    <2>7. PartPath(S, w)
        BY <2>5, <2>6, <1>1 DEF PartPath, S
    <2> QED
        BY <1>1, <2>7 DEF S, w
<1> QED
    BY <1>8, <1>9, <1>10

\* Every index of the box is there.
LEMMA BoxOnto ==
    ASSUME NEW t, Wellformed(t), Shallow(t), NEW p \in DOMAIN t, Rectangular(t, p), ~Failed(ToJson(t)),
           NEW types, types \subseteq {"BOOL"} \cup Ints \cup Reals, Uniform(types, t, p),
           NEW x, PartPath(Extents(t, p), x)
    PROVE  p \o x \in DOMAIN ToJson(t)
<1> DEFINE S == Extents(t, p)
           j == ToJson(t)
           good == {n \in Nat : \A z : PartPath(S, z) /\ Len(z) = n => p \o z \in DOMAIN j}
<1>1. p \in Paths /\ S \in Seq(Nat) /\ Len(S) \in Nat
    BY ExtentsOK, LenProperties DEF Wellformed, Linked, Paths
<1>d. Document(j) /\ Linked(j) /\ DOMAIN j \subseteq Paths
    BY ToJsonOK, DocumentNames
<1>2. 0 \in good
    <2>1. ASSUME NEW z, PartPath(S, z), Len(z) = 0 PROVE p \o z \in DOMAIN j
        <3>1. z = <<>>
            BY <2>1 DEF PartPath, Paths
        <3>2. p \o z = p
            BY <1>1, <3>1, ConcatPaths DEF Paths
        <3> QED
            BY <3>2, DocAt
    <2> QED
        BY <2>1
<1>3. ASSUME NEW n \in Nat, n \in good PROVE n + 1 \in good
    <2>1. ASSUME NEW z, PartPath(S, z), Len(z) = n + 1 PROVE p \o z \in DOMAIN j
        <3> DEFINE y == Front(z)
                   c == Last(z)
        <3>1. z \in Seq(Int) /\ z # <<>> /\ n + 1 <= Len(S) /\ n + 1 \in 1..Len(z)
            BY <2>1 DEF PartPath, Paths
        <3>2. y \in Seq(Int) /\ c \in Int /\ Len(y) = n /\ z = Append(y, c) /\ \A d \in 1..n : y[d] = z[d]
            <4>1. Front(z) \in Seq(Int) /\ Last(z) \in Int /\ Len(Front(z)) = Len(z) - 1
                  /\ z = Append(Front(z), Last(z)) /\ \A d \in 1..(Len(z) - 1) : Front(z)[d] = z[d]
                BY <3>1, FrontLast
            <4>2. Len(z) - 1 = n
                BY <2>1
            <4> HIDE DEF S, j
            <4> QED
                BY <4>1, <4>2
        <3>3. c = z[n + 1]
            BY <2>1 DEF Last
        <3> HIDE DEF y, c, S, j
        <3>4. PartPath(S, y)
            <4>1. ASSUME NEW d \in 1..Len(y) PROVE ListItem(y[d]) \in 0..(S[d] - 1)
                <5>1. d \in 1..n /\ d \in 1..Len(z) /\ y[d] = z[d]
                    BY <2>1, <3>2
                <5> QED
                    BY <2>1, <5>1 DEF PartPath
            <4>2. Len(y) <= Len(S)
                BY <1>1, <3>1, <3>2 DEF S
            <4> QED
                BY <3>2, <4>1, <4>2 DEF PartPath, Paths
        <3>5. p \o y \in DOMAIN j
            BY <1>3, <3>2, <3>4 DEF S, j
        <3>6. y \in Paths
            BY <3>2 DEF Paths
        <3>7. DocOn(j, p, S, y)
            BY <3>5, <3>6, BoxDoc DEF j, S
        <3>8. j[p \o y].names = ItemNames(S[n + 1])
            <4>1. Len(y) < Len(S)
                BY <1>1, <3>1, <3>2 DEF S
            <4> QED
                BY <3>2, <3>7, <4>1 DEF DocOn
        <3>9. c \in Range(j[p \o y].names)
            <4>1. ListItem(c) \in 0..(S[n + 1] - 1)
                BY <2>1, <3>1, <3>3 DEF PartPath
            <4>2. S[n + 1] \in Nat
                <5>1. n + 1 \in 1..Len(S) /\ S \in Seq(Nat)
                    BY <1>1, <3>1 DEF S
                <5> QED
                    BY <5>1, ElementOfSeq
            <4> QED
                BY <3>2, <3>8, <4>1, <4>2, ItemNamesAre
        <3>10. Append(p \o y, c) \in DOMAIN j
            <4>1. PICK i \in DOMAIN j[p \o y].names : j[p \o y].names[i] = c
                BY <3>9 DEF Range
            <4> QED
                BY <1>d, <3>5, <4>1 DEF Linked, j
        <3>11. p \o Append(y, c) = Append(p \o y, c)
            BY <1>1, <3>2, ConcatAppend DEF Paths
        <3> QED
            BY <3>2, <3>10, <3>11 DEF j
    <2> QED
        BY <2>1
<1> DEFINE N == Len(x)
<1>4. N \in Nat
    BY LenProperties DEF Paths, PartPath
<1>5. \A i \in 0..(N - 1) : i \in good => i + 1 \in good
    BY <1>3, <1>4
<1>6. 0..N \subseteq good
    <2> HIDE DEF good, N
    <2> QED
        BY <1>2, <1>4, <1>5, BoundedInduction
<1>7. N \in good
    BY <1>4, <1>6
<1> QED
    BY <1>7

\* A rectangular list is a box.
LEMMA ListBox ==
    ASSUME NEW t, Wellformed(t), Shallow(t), NEW p \in DOMAIN t, Rectangular(t, p), ~Failed(ToJson(t)),
           NEW types, types \subseteq {"BOOL"} \cup Ints \cup Reals, Uniform(types, t, p)
    PROVE  Box(ToJson(t), p, Extents(t, p)) /\ Len(Extents(t, p)) <= MaxRank
<1> DEFINE S == Extents(t, p)
           j == ToJson(t)
<1>1. p \in Paths /\ S \in Seq(Nat) /\ Document(j)
    BY ExtentsOK, ToJsonOK DEF Wellformed, Linked, Paths
<1>2. \A z \in Paths : p \o z \in DOMAIN j <=> PartPath(S, z)
    BY BoxOnto, BoxDoc DEF DocOn
<1>3. \A z \in Paths : PartPath(S, z) => DocOn(j, p, S, z)
    BY BoxOnto, BoxDoc
<1>4. PICK n \in Nat : PartPath(S, Down(n)) /\ (n = Len(S) \/ (n + 1 = Len(S) /\ S[n + 1] = 0))
    BY BoxEnd
<1> HIDE DEF S, j
<1>5. JsonShape(j, p) = S
    BY <1>1, <1>2, <1>3, <1>4, BoxShape
<1>6. Box(j, p, S)
    BY <1>1, <1>2, <1>3, <1>5 DEF Box, DocOn
<1> QED
    BY <1>6 DEF S, j, Rectangular

\* The numbers of the document of a tree that JSON can hold fit an int when they
\* are whole.
LEMMA DocFits ==
    ASSUME NEW t, Wellformed(t), Holds("json", t), ~Failed(ToJson(t))
    PROVE  Fits(ToJson(t))
<1> DEFINE j == ToJson(t)
<1>1. ASSUME NEW x \in DOMAIN j, j[x].type \in {"int", "real"}, IsWhole(j[x])
      PROVE  j[x].n <= 2 * IntMax
    <2>1. PICK p \in DOMAIN t : \E q \in DOMAIN NodeToJson(t[p]) : x = p \o q
        BY ToJsonAt
    <2>2. PICK q \in DOMAIN NodeToJson(t[p]) : x = p \o q
        BY <2>1
    <2> DEFINE u == t[p]
               doc == NodeToJson(u)
    <2>3. j[x] = doc[q] /\ ~Failed(doc) /\ NodeOK(u) /\ FitsInt(u)
        BY <2>2, ToJsonAt DEF Wellformed, Holds
    <2> HIDE DEF j, u
    <2>4. CASE DataNode(u) /\ u.type # "STRING" /\ Product(u.shape) # 0
        <3> DEFINE type == u.type
                   shape == u.shape
                   e == At(u, ItemPath(q))
        <3>1. doc = Nested(u) /\ shape \in Seq(Nat) /\ Len(shape) \in Nat /\ type \in {"BOOL"} \cup Ints \cup Reals
            BY <2>3, <2>4, NodeToJsonIs, DataNodeIs, LenProperties DEF Failed
        <3>2. PartPath(shape, q) /\ doc[q] = IF Len(q) < Len(shape) THEN JInner("array", ItemNames(shape[Len(q) + 1]))
                                             ELSE Number(type, e)
            <4>1. q \in DOMAIN Nested(u)
                BY <2>2, <3>1 DEF u
            <4>2. PartPath(u.shape, q) /\ Nested(u)[q] = IF Len(q) < Len(u.shape) THEN JInner("array", ItemNames(u.shape[Len(q) + 1]))
                                                         ELSE Number(u.type, At(u, ItemPath(q)))
                BY <3>1, <4>1, NestedAt
            <4> HIDE DEF doc
            <4> QED
                BY <3>1, <4>2
        <3> DEFINE names == ItemNames(shape[Len(q) + 1])
        <3>3. Len(q) = Len(shape) /\ doc[q] = Number(type, e)
            <4> HIDE DEF names, e, type, shape
            <4>1. ~(Len(q) < Len(shape))
                BY <1>1, <2>3, <3>2, JInnerIs
            <4>2. Len(q) <= Len(shape) /\ Len(q) \in Nat
                BY <3>2, LenProperties DEF PartPath, Paths
            <4> QED
                BY <3>1, <3>2, <4>1, <4>2
        <3>4. ItemPath(q) \in Indices(shape)
            BY <3>1, <3>2, <3>3, WholePath
        <3>5. e \in Elements(u) /\ e \in Int \cup {NaN}
            <4>1. u.shape \in Seq(Nat) /\ u.elems \in Seq(Int \cup {NaN}) /\ Len(u.elems) = Product(u.shape)
                BY <2>4, DataNodeIs
            <4> QED
                BY <3>4, <4>1, AtElement
        <3> HIDE DEF e, type
        <3>6. /\ Number(type, e).type # "null" <=> e # NaN
              /\ e # NaN => Number(type, e).n = e
              /\ e # NaN => Number(type, e).type = IF type = "BOOL" THEN "bool" ELSE IF type \in Reals THEN "real" ELSE "int"
            <4>1. KindTypes({"bool"}, {"BOOL"})
                BY DEF KindTypes
            <4> QED
                BY <3>1, <4>1, NumberKind, ZenonT(40)
        <3>7. e # NaN /\ j[x].n = e /\ e \in Int
            BY <1>1, <2>3, <3>3, <3>5, <3>6
        <3>8. e > 2 * IntMax => type \in Reals /\ (e % 2 # 0 \/ e > 2 * LargestMax)
            BY <2>3, <2>4, <3>5, <3>7 DEF FitsInt, type
        <3>9. e > 2 * IntMax => FALSE
            <4>1. ASSUME e > 2 * IntMax PROVE FALSE
                <5>1. type \in Reals /\ (e % 2 # 0 \/ e > 2 * LargestMax)
                    BY <3>8, <4>1
                <5>2. j[x].type = "real"
                    BY <2>3, <3>3, <3>6, <3>7, <5>1 DEF Reals
                <5>3. e % 2 = 0 /\ e <= 2 * LargestMax
                    BY <1>1, <3>7, <5>2 DEF IsWhole
                <5>4. LargestMax \in Nat
                    BY SerializersAssumption
                <5> QED
                    BY <3>7, <5>1, <5>3, <5>4
            <4> QED
                BY <4>1
        <3>10. IntMax \in Nat
            BY SerializersAssumption
        <3> QED
            BY <3>7, <3>9, <3>10
    <2>5. CASE ~(DataNode(u) /\ u.type # "STRING" /\ Product(u.shape) # 0)
        <3>1. \/ doc = Alone(JNull)
              \/ doc = Alone(Json("string", u.elems[1]))
              \/ doc = Alone(JInner("object", Sorted(u.names)))
              \/ doc = Alone(JInner("array", u.names))
            <4>1. u.type \in {"EMPTY", "STRING", "STRUCT", "LIST"} \/ (DataNode(u) /\ u.type # "STRING" /\ Product(u.shape) = 0)
                BY <2>3, <2>5 DEF DataNode, Inner
            <4> HIDE DEF doc
            <4> QED
                BY <2>3, <4>1, NodeToJsonIs DEF doc, Failed
        <3>2. \/ doc[q] = JNull
              \/ doc[q] = Json("string", u.elems[1])
              \/ doc[q] = JInner("object", Sorted(u.names))
              \/ doc[q] = JInner("array", u.names)
            <4> HIDE DEF doc
            <4>1. q \in DOMAIN doc
                BY DEF doc, u
            <4> QED
                BY <3>1, <4>1, AloneIs
        <3>3. doc[q].type \notin {"int", "real"}
            <4> HIDE DEF doc
            <4> DEFINE e == u.elems[1]
                       names == Sorted(u.names)
            <4> HIDE DEF e, names
            <4>1. doc[q] = JNull \/ doc[q] = Json("string", e) \/ doc[q] = JInner("object", names)
                  \/ doc[q] = JInner("array", u.names)
                BY <3>2 DEF e, names
            <4>2. JNull.type = "null" /\ Json("string", e).type = "string"
                  /\ JInner("object", names).type = "object" /\ JInner("array", u.names).type = "array"
                BY JsonIs, JInnerIs
            <4> QED
                BY <4>1, <4>2
        <3> QED
            BY <1>1, <2>3, <3>3
    <2> QED
        BY <2>4, <2>5
<1> QED
    BY <1>1 DEF Fits

\* Every array of numbers in the document of such a tree has a shape.
LEMMA NumericBox ==
    ASSUME NEW t, Wellformed(t), Shallow(t), Holds("json", t), ~Failed(ToJson(t)),
           NEW y \in DOMAIN ToJson(t), Numeric(ToJson(t), y)
    PROVE  \E S : Box(ToJson(t), y, S) /\ Len(S) <= MaxRank
<1> DEFINE j == ToJson(t)
<1>1. PICK p \in DOMAIN t : \E q \in DOMAIN NodeToJson(t[p]) : y = p \o q
    BY ToJsonAt
<1>2. PICK q \in DOMAIN NodeToJson(t[p]) : y = p \o q
    BY <1>1
<1> DEFINE u == t[p]
           doc == NodeToJson(u)
<1>3. j[y] = doc[q] /\ ~Failed(doc) /\ NodeOK(u) /\ p \in Paths
    BY <1>2, ToJsonAt DEF Wellformed
<1>4. j[y].type = "array"
    BY DEF Numeric
<1>5. CASE u.type = "LIST"
    <2>1. doc = Alone(JInner("array", u.names))
        BY <1>3, <1>5, NodeToJsonIs
    <2>2. q = <<>> /\ doc[<<>>] = JInner("array", u.names)
        BY <1>2, <2>1, AloneIs
    <2>3. y = p
        BY <1>2, <1>3, <2>2, ConcatPaths DEF Paths
    <2>4. Uniform(Ints \cup Reals, t, p) \/ Uniform({"BOOL"}, t, p)
        BY <2>3, NumericIs
    <2>5. Rectangular(t, p)
        BY <1>5, <2>4 DEF Holds
    <2>6. PICK types : types \subseteq {"BOOL"} \cup Ints \cup Reals /\ Uniform(types, t, p)
        BY <2>4
    <2>7. Box(j, p, Extents(t, p)) /\ Len(Extents(t, p)) <= MaxRank
        BY <2>5, <2>6, ListBox
    <2> QED
        BY <2>3, <2>7
<1>6. CASE DataNode(u) /\ u.type # "STRING" /\ Product(u.shape) # 0
    <2>1. doc = Nested(u) /\ u.shape \in Seq(Nat)
        BY <1>3, <1>6, NodeToJsonIs, DataNodeIs DEF Failed
    <2>2. PartPath(u.shape, q)
        BY <1>2, <2>1, NestedAt
    <2>3. FullNode(u)
        BY <1>6 DEF FullNode
    <2> QED
        BY <1>2, <2>2, <2>3, ArrayBox
<1>7. CASE u.type # "LIST" /\ ~(DataNode(u) /\ u.type # "STRING" /\ Product(u.shape) # 0)
    <2> HIDE DEF u
    <2>1. \/ doc = Alone(JNull)
          \/ doc = Alone(Json("string", u.elems[1]))
          \/ doc = Alone(JInner("object", Sorted(u.names)))
        <3>1. u.type \in {"EMPTY", "STRING", "STRUCT"} \/ (DataNode(u) /\ u.type # "STRING" /\ Product(u.shape) = 0)
            BY <1>3, <1>7 DEF DataNode, Inner, u
        <3>2. NodeOK(u) /\ ~Failed(doc)
            BY <1>3 DEF u
        <3> HIDE DEF doc
        <3> QED
            BY <3>1, <3>2, NodeToJsonIs DEF doc, Failed
    <2> HIDE DEF doc
    <2> DEFINE e == u.elems[1]
               names == Sorted(u.names)
    <2> HIDE DEF e, names
    <2>2. q \in DOMAIN doc
        BY <1>2 DEF doc, u
    <2>3. doc[q] = JNull \/ doc[q] = Json("string", e) \/ doc[q] = JInner("object", names)
        BY <2>1, <2>2, AloneIs DEF e, names
    <2>4. doc[q].type # "array"
        BY <2>3, JsonIs, JInnerIs
    <2> QED
        BY <1>3, <1>4, <2>4 DEF doc, u
<1> QED
    BY <1>5, <1>6, <1>7

\* A scalar says its one value.
ScalarLeaf(p, type, n) == [path |-> p, text |-> type = "STRING", value |-> n]

\* The one leaf of a single value.
LEMMA ScalarLeaves ==
    ASSUME NEW p \in Paths, NEW type, NEW n, NEW u, u = Array(type, <<>>, <<n>>)
    PROVE  LeavesAt(p, u) = IF n = NaN THEN {} ELSE {ScalarLeaf(p, type, n)}
<1> DEFINE e == <<>>
           elems == <<n>>
<1>1. u.type = type /\ u.shape = e /\ u.elems = elems /\ u.order = "C"
    BY ArrayFields
<1>2. e \in Seq(Nat) /\ Len(e) = 0 /\ ItemPath(e) = e /\ p \o e = p
    BY ConcatPaths DEF Paths, ItemPath
<1>3. \A i : i \in Indices(e) <=> i = e
    <2>1. \A i : i \in Indices(e) <=> i \in Seq(Nat) /\ Len(i) = Len(e) /\ \A d \in 1..Len(e) : i[d] \in 0..(e[d] - 1)
        BY <1>2, IndicesAre
    <2>2. \A i : i \in Seq(Nat) /\ Len(i) = 0 => i = <<>>
        OBVIOUS
    <2>3. 1..Len(e) = {}
        BY <1>2
    <2> HIDE DEF e
    <2> QED
        BY <1>2, <2>1, <2>2, <2>3 DEF e
<1>4. elems \in Seq({n}) /\ Len(elems) = 1 /\ Product(e) = 1
    BY ScalarProduct
<1>5. At(u, e) = n
    <2> HIDE DEF e, elems
    <2>1. u.shape \in Seq(Nat) /\ u.elems \in Seq({n}) /\ Len(u.elems) = Product(u.shape) /\ e \in Indices(u.shape)
        BY <1>1, <1>2, <1>3, <1>4
    <2>2. At(u, e) \in {n}
        BY <2>1, AtElement
    <2> QED
        BY <2>2
<1> HIDE DEF e
<1>6. LeavesAt(p, u) = IF n = NaN THEN {} ELSE {ScalarLeaf(p, type, n)}
    BY <1>1, <1>2, <1>3, <1>5 DEF LeavesAt, ScalarLeaf
<1> QED
    BY <1>6

\* The leaves of a node that is read are what its part of the document says.
LEMMA ReadSays ==
    ASSUME NEW j, Document(j), Fits(j),
           \A y \in DOMAIN j : Numeric(j, y) => \E S : Box(j, y, S) /\ Len(S) <= MaxRank,
           NEW p \in DOMAIN j
    PROVE  LET u == JsonToNode(j, p)
           IN  /\ u.type # "failure"
               /\ ~Numeric(j, p) =>
                    IF Inner(u) \/ u.type = "EMPTY" THEN ~Says(j[p])
                    ELSE LeavesAt(p, u) = {JsonLeaf(p, j[p]) : x \in {y \in {p} : Says(j[p])}}
               /\ Numeric(j, p) =>
                    /\ ~Inner(u) /\ u.type # "EMPTY" /\ ~Says(j[p])
                    /\ LeavesAt(p, u) = {JsonLeaf(x, j[x]) : x \in {y \in DOMAIN j : IsPrefix(p, y) /\ Says(j[y])}}
<1> DEFINE u == JsonToNode(j, p)
           v == j[p]
<1>1. JsonNodeOK(v) /\ p \in Paths /\ v.type \in {"null", "bool", "int", "real", "string", "array", "object"}
    BY DocumentNames DEF JsonNodeOK
<1>2. CASE v.type \in {"null", "object"}
    <2>1. u = EmptyNode \/ u = StructNode(v.names)
        BY <1>2, JsonToNodeBy
    <2> HIDE DEF u
    <2>2. u.type \in {"EMPTY", "STRUCT"}
        BY <2>1 DEF EmptyNode, StructNode, Node, Array
    <2>3. ~Says(v) /\ ~Numeric(j, p)
        BY <1>2 DEF Says, Numeric
    <2> QED
        BY <2>2, <2>3 DEF Inner, u
<1>3. CASE v.type \in {"bool", "int", "real", "string"}
    <2> DEFINE type == IF v.type = "string" THEN "STRING" ELSE IF v.type = "bool" THEN "BOOL"
                       ELSE IF v.type = "real" THEN "DOUBLE" ELSE "INT32"
               n == v.n
    <2>1. u = Array(type, <<>>, <<n>>)
        <3>1. v.type = "int" => v.n <= 2 * IntMax
            BY DEF Fits, IsWhole
        <3> HIDE DEF u
        <3> QED
            BY <1>3, <3>1, JsonToNodeBy DEF u
    <2>2. type \in {"STRING", "BOOL", "DOUBLE", "INT32"} /\ (type = "STRING") = (v.type = "string")
        BY <1>3
    <2> HIDE DEF type, n, u
    <2>3. u.type = type
        BY <2>1, ArrayFields
    <2>4. LeavesAt(p, u) = IF n = NaN THEN {} ELSE {ScalarLeaf(p, type, n)}
        <3>1. p \in Paths
            BY <1>1
        <3> QED
            BY <2>1, <3>1, ScalarLeaves
    <2>5. ~Numeric(j, p) /\ (Says(v) <=> n # NaN)
        BY <1>3 DEF Numeric, Says, n
    <2>6. LeavesAt(p, u) = {JsonLeaf(p, v) : x \in {y \in {p} : Says(v)}}
        BY <2>2, <2>4, <2>5 DEF JsonLeaf, ScalarLeaf, n
    <2> QED
        BY <2>2, <2>3, <2>5, <2>6 DEF Inner, u
<1>4. CASE v.type = "array" /\ ~Numeric(j, p)
    <2>1. u = ListNode(Len(v.names))
        BY <1>4, JsonToNodeBy
    <2> HIDE DEF u
    <2>2. u.type = "LIST"
        BY <2>1 DEF ListNode, Node
    <2>3. ~Says(v)
        BY <1>4 DEF Says
    <2> QED
        BY <1>4, <2>2, <2>3 DEF Inner, u
<1>5. CASE v.type = "array" /\ Numeric(j, p)
    <2>1. u = JsonArray(j, p) /\ ~Says(v)
        BY <1>5, JsonToNodeBy DEF Says
    <2>2. PICK S : Box(j, p, S) /\ Len(S) <= MaxRank
        BY <1>5
    <2>3. /\ u.type \in {"DOUBLE", "INT32", "BOOL"} /\ u.shape = S
          /\ \A i \in Indices(S) :
               LET x == p \o ItemPath(i)
               IN  x \in DOMAIN j /\ Says(j[x]) /\ j[x].type # "string" /\ At(u, i) = j[x].n
        <3> DEFINE a == JsonArray(j, p)
        <3>1. LET b == JsonArray(j, p)
              IN  /\ b.type \in {"DOUBLE", "INT32", "BOOL"} /\ b.shape = S
                  /\ \A i \in Indices(S) :
                       LET x == p \o ItemPath(i)
                       IN  x \in DOMAIN j /\ Says(j[x]) /\ j[x].type # "string" /\ At(b, i) = j[x].n
            BY <1>5, <2>2, BoxRead
        <3> HIDE DEF u
        <3> QED
            BY <2>1, <3>1
    <2>4. S \in Seq(Nat) /\ Len(S) \in Nat
        BY <2>2, LenProperties DEF Box
    <2> HIDE DEF u
    <2> DEFINE L == LeavesAt(p, u)
               R == {JsonLeaf(x, j[x]) : x \in {y \in DOMAIN j : IsPrefix(p, y) /\ Says(j[y])}}
    <2>5. ASSUME NEW i \in Indices(S)
          PROVE  LET x == p \o ItemPath(i)
                 IN  /\ x \in DOMAIN j /\ IsPrefix(p, x) /\ Says(j[x]) /\ At(u, i) # NaN
                     /\ [path |-> x, text |-> u.type = "STRING", value |-> At(u, i)] = JsonLeaf(x, j[x])
        <3> DEFINE x == p \o ItemPath(i)
        <3>1. x \in DOMAIN j /\ Says(j[x]) /\ j[x].type # "string" /\ At(u, i) = j[x].n
            BY <2>3
        <3>2. IsPrefix(p, x)
            <4>1. ItemPath(i) \in Paths
                BY <1>1, <2>4, IndexPath
            <4> QED
                BY <1>1, <4>1, PrefixConcat DEF Paths
        <3> HIDE DEF x
        <3>3. [path |-> x, text |-> u.type = "STRING", value |-> At(u, i)] = JsonLeaf(x, j[x])
            <4>1. (u.type = "STRING") = FALSE /\ (j[x].type = "string") = FALSE
                BY <2>3, <3>1
            <4> QED
                BY <3>1, <4>1 DEF JsonLeaf
        <3>4. j[x].n # NaN
            BY <3>1 DEF Says
        <3> QED
            BY <3>1, <3>2, <3>3, <3>4 DEF x
    <2>6. L \subseteq R
        <3>1. ASSUME NEW l \in L PROVE l \in R
            <4>1. PICK i \in Indices(S) : l = [path |-> p \o ItemPath(i), text |-> u.type = "STRING", value |-> At(u, i)]
                BY <2>3 DEF LeavesAt
            <4> DEFINE x == p \o ItemPath(i)
            <4>2. x \in DOMAIN j /\ IsPrefix(p, x) /\ Says(j[x]) /\ l = JsonLeaf(x, j[x])
                BY <2>5, <4>1
            <4> HIDE DEF x
            <4> QED
                BY <4>2
        <3> QED
            BY <3>1
    <2>7. R \subseteq L
        <3>1. ASSUME NEW x \in DOMAIN j, IsPrefix(p, x), Says(j[x]) PROVE JsonLeaf(x, j[x]) \in L
            <4> DEFINE z == Rest(p, x)
            <4>1. x \in Paths /\ z \in Paths /\ x = p \o z
                BY <1>1, <3>1, DocumentNames, PrefixRest DEF Rest, Paths
            <4> HIDE DEF z
            <4>2. PartPath(S, z)
                BY <2>2, <4>1 DEF Box
            <4>3. j[x].type # "array"
                BY <3>1 DEF Says
            <4>4. ~(Len(z) < Len(S))
                BY <2>2, <4>1, <4>2, <4>3 DEF Box
            <4>5. Len(z) = Len(S)
                <5>1. Len(z) \in Nat /\ Len(z) <= Len(S)
                    BY <4>2, LenProperties DEF PartPath, Paths
                <5> QED
                    BY <2>4, <4>4, <5>1
            <4> DEFINE i == ItemPath(z)
            <4>6. i \in Indices(S) /\ ItemPath(i) = z
                BY <2>4, <4>1, <4>2, <4>5, WholePath, ItemPathIs
            <4> HIDE DEF i
            <4>7. At(u, i) # NaN /\ [path |-> x, text |-> u.type = "STRING", value |-> At(u, i)] = JsonLeaf(x, j[x])
                  /\ x = p \o ItemPath(i)
                BY <2>5, <4>1, <4>6
            <4>8. [path |-> p \o ItemPath(i), text |-> u.type = "STRING", value |-> At(u, i)] \in L
                BY <2>3, <4>6, <4>7 DEF LeavesAt
            <4> QED
                BY <4>7, <4>8
        <3> QED
            BY <3>1
    <2>8. L = R
        BY <2>6, <2>7
    <2> QED
        BY <1>5, <2>1, <2>3, <2>8 DEF Inner, u
<1> QED
    BY <1>1, <1>2, <1>3, <1>4, <1>5 DEF Numeric

\* A document whose arrays of numbers have shapes is read, and nothing it says is
\* lost or made up.
LEMMA DocumentRead ==
    ASSUME NEW j, Document(j), Fits(j), NEW depth \in Nat, Within(j, depth),
           \A y \in DOMAIN j : Numeric(j, y) => \E S : Box(j, y, S) /\ Len(S) <= MaxRank
    PROVE  ~Failed(FromJson(j)) /\ Leaves(FromJson(j)) = JsonLeaves(j)
<1> DEFINE paths == {p \in DOMAIN j : \A q \in DOMAIN j : IsPrefix(q, p) /\ Numeric(j, q) => q = p}
           t == [p \in paths |-> JsonToNode(j, p)]
           r == FromJson(j)
<1>1. \A p \in paths : t[p].type # "failure"
    <2>1. ASSUME NEW p \in paths PROVE JsonToNode(j, p).type # "failure"
        BY ReadSays
    <2> QED
        BY <2>1
<1>2. r = t
    BY <1>1 DEF FromJson
<1>3. <<>> \in paths
    <2>1. <<>> \in DOMAIN j /\ DOMAIN j \subseteq Paths
        BY DocumentNames
    <2>2. ASSUME NEW q \in DOMAIN j, IsPrefix(q, <<>>) PROVE q = <<>>
        BY <2>1, <2>2, PrefixElements DEF Paths
    <2> QED
        BY <2>1, <2>2
<1>4. ~Failed(r)
    BY <1>1, <1>2, <1>3, NotFailed
<1>5. /\ \A p : p \in DOMAIN r <=> p \in DOMAIN j /\ \A q \in DOMAIN j : IsPrefix(q, p) /\ Numeric(j, q) => q = p
      /\ \A p \in DOMAIN r : r[p] = JsonToNode(j, p)
    BY <1>2
<1>d. \A x, y : IsPrefix(x, y) /\ x \in DOMAIN j /\ y \in DOMAIN j => x \in Paths /\ y \in Paths
    BY DocumentNames
<1> HIDE DEF r, t, paths
<1>6. ASSUME NEW l \in Leaves(r) PROVE l \in JsonLeaves(j)
    <2>1. PICK p \in LeafPaths(r) : r[p].type # "EMPTY" /\ l \in LeavesAt(p, r[p])
        BY DEF Leaves
    <2> DEFINE u == JsonToNode(j, p)
    <2>2. p \in DOMAIN j /\ r[p] = u /\ ~Inner(u) /\ u.type # "EMPTY"
        BY <1>5, <2>1 DEF LeafPaths
    <2>3. CASE Numeric(j, p)
        <3>1. LeavesAt(p, u) = {JsonLeaf(x, j[x]) : x \in {y \in DOMAIN j : IsPrefix(p, y) /\ Says(j[y])}}
            BY <2>2, <2>3, ReadSays
        <3> HIDE DEF u
        <3> QED
            BY <2>1, <2>2, <3>1 DEF JsonLeaves
    <2>4. CASE ~Numeric(j, p)
        <3>1. LeavesAt(p, u) = {JsonLeaf(p, j[p]) : x \in {y \in {p} : Says(j[p])}}
            BY <2>2, <2>4, ReadSays
        <3> HIDE DEF u
        <3> QED
            BY <2>1, <2>2, <3>1 DEF JsonLeaves
    <2> QED
        BY <2>3, <2>4
<1>7. ASSUME NEW x \in DOMAIN j, Says(j[x]) PROVE JsonLeaf(x, j[x]) \in Leaves(r)
    <2>1. ~Numeric(j, x)
        BY <1>7 DEF Says, Numeric
    <2>2. CASE x \in DOMAIN r
        <3> DEFINE u == JsonToNode(j, x)
        <3>1. ~Inner(u) /\ u.type # "EMPTY"
              /\ LeavesAt(x, u) = {JsonLeaf(x, j[x]) : z \in {y \in {x} : Says(j[x])}}
            BY <1>7, <2>1, ReadSays
        <3> HIDE DEF u
        <3>2. r[x] = u
            BY <1>5, <2>2 DEF u
        <3>3. JsonLeaf(x, j[x]) \in LeavesAt(x, r[x])
            BY <1>7, <3>1, <3>2
        <3> QED
            BY <2>2, <3>1, <3>2, <3>3 DEF Leaves, LeafPaths
    <2>3. CASE x \notin DOMAIN r
        <3>1. PICK q0 \in DOMAIN j : IsPrefix(q0, x) /\ Numeric(j, q0)
            BY <1>5, <2>3
        <3>2. PICK y \in DOMAIN j : /\ IsPrefix(y, x) /\ Numeric(j, y)
                                    /\ \A q \in DOMAIN j : IsPrefix(q, y) /\ Numeric(j, q) => q = y
            BY <3>1, InArray
        <3> DEFINE u == JsonToNode(j, y)
        <3>3. y \in DOMAIN r /\ r[y] = u
            BY <1>5, <3>2
        <3>4. ~Inner(u) /\ u.type # "EMPTY"
              /\ LeavesAt(y, u) = {JsonLeaf(z, j[z]) : z \in {w \in DOMAIN j : IsPrefix(y, w) /\ Says(j[w])}}
            BY <3>2, ReadSays
        <3> HIDE DEF u
        <3>5. JsonLeaf(x, j[x]) \in LeavesAt(y, r[y])
            BY <1>7, <3>2, <3>3, <3>4
        <3> QED
            BY <3>3, <3>4, <3>5 DEF Leaves, LeafPaths
    <2> QED
        BY <2>2, <2>3
<1>8. Leaves(r) = JsonLeaves(j)
    <2>1. JsonLeaves(j) \subseteq Leaves(r)
        BY <1>7 DEF JsonLeaves
    <2> QED
        BY <1>6, <2>1
<1> QED
    BY <1>4, <1>8 DEF r

\* A tree that JSON can hold comes back with its leaves.
LEMMA JsonBack ==
    ASSUME NEW t, Wellformed(t), Shallow(t), Holds("json", t)
    PROVE  ~Failed(FromJson(ToJson(t))) /\ Leaves(FromJson(ToJson(t))) = Leaves(t)
<1>1. ~Failed(ToJson(t))
    BY HeldWritten DEF Formats, Written
<1> DEFINE j == ToJson(t)
<1>2. Document(j) /\ Fits(j)
    BY <1>1, ToJsonOK, DocFits
<1>3. \A y \in DOMAIN j : Numeric(j, y) => \E S : Box(j, y, S) /\ Len(S) <= MaxRank
    BY <1>1, NumericBox
<1>4. PICK depth \in Nat : Within(j, depth)
    <2>1. PICK d \in Nat : Within(t, d)
        BY DEF Shallow
    <2>2. Within(j, d + MaxRank) /\ d + MaxRank \in Nat
        BY <1>1, <2>1, ToJsonWithin
    <2> QED
        BY <2>2
<1>5. JsonLeaves(j) = Leaves(t)
    BY <1>1, WrittenLeaves
<1> HIDE DEF j
<1>6. ~Failed(FromJson(j)) /\ Leaves(FromJson(j)) = JsonLeaves(j)
    BY <1>2, <1>3, <1>4, DocumentRead
<1> QED
    BY <1>5, <1>6 DEF j

\* A tree that a format can hold comes back from a file of that format with the same
\* value at every path, and neither save nor load throws.  HDF5 and flatbuffers can not
\* hold external arrays.
THEOREM LeavesCorrect == Spec => KeepsLeaves
<1> DEFINE Step == \A f \in Formats:
                     /\ Save(f) /\ Holds(f, tree) => ~failed'
                     /\ Load(f) /\ Holds(f, file.origin) =>
                          ~failed' /\ Leaves(tree') = Leaves(file.origin)
<1>1. ASSUME Consistent, NEW f \in Formats, Save(f), Holds(f, tree) PROVE ~failed'
    <2>1. Wellformed(tree)
        BY <1>1 DEF Consistent
    <2>2. ~Failed(Written(f, tree))
        BY <1>1, <2>1, HeldWritten
    <2> QED
        BY <1>1, <2>2 DEF Save
<1>2. ASSUME Consistent, NEW f \in Formats, Load(f), Holds(f, file.origin)
      PROVE  ~failed' /\ Leaves(tree') = Leaves(file.origin)
    <2> DEFINE t == file.origin
               r == ReadBack(f, Written(f, t))
    <2>1. /\ Wellformed(t) /\ Within(t, MaxDepth) /\ ~Failed(Written(f, t)) /\ failed' = Failed(r)
          /\ ~Failed(r) => tree' = r
        BY <1>2, LoadRead
    <2>2. Shallow(t)
        BY <2>1, SerializersAssumption DEF Shallow
    <2>3. ~Failed(r) /\ Leaves(r) = Leaves(t)
        <3>1. CASE f = "json"
            <4>1. r = FromJson(ToJson(t))
                BY <3>1 DEF Written, ReadBack
            <4> HIDE DEF r
            <4> QED
                BY <1>2, <2>1, <2>2, <3>1, <4>1, JsonBack
        <3>2. CASE f # "json"
            <4>1. f \in {"hdf5", "flatbuffers"}
                BY <3>2 DEF Formats
            <4> QED
                BY <1>2, <2>1, <4>1, LeavesBack, BytesBack
        <3> QED
            BY <3>1, <3>2
    <2> HIDE DEF t, r
    <2> QED
        BY <2>1, <2>3 DEF t
<1>3. Consistent /\ [Next]_vars => [Step]_vars
    BY <1>1, <1>2
<1>4. Spec => []Consistent
    BY AlwaysConsistent
<1> HIDE DEF Step
<1>5. Spec => [][Step]_vars
    BY <1>3, <1>4, PTL DEF Spec
<1> QED
    BY <1>5 DEF KeepsLeaves, Step

-----------------------------------------------------------------------------
(* Objects of the bucket find their places.                                *)

Valued(u) == ~Inner(u) /\ u.type # "EMPTY"

\* A path that read can put together: only its last name may be that of an item.
PlainPath(p) ==
    /\ p \in Paths /\ p # <<>>
    /\ \A d \in 1..Len(p) : p[d] < 0 => d = Len(p) /\ p[d] >= ListItem(9)

\* There is place for an object in a tree: the nodes above it are structs, or will
\* be, the one it is an item of is a list without an item at its place.
Open(t, p) ==
    /\ p \notin DOMAIN t
    /\ \A q \in DOMAIN t : OnWay(q, p) =>
         IF q = Front(p) /\ Last(p) < 0
         THEN t[q].type \in {"EMPTY", "LIST"} /\ Len(t[q].names) <= ListItem(Last(p))
         ELSE t[q].type \in {"EMPTY", "STRUCT"}

\* The nodes of the tree with the object in it: those that were there, those above
\* the object, the ones of the object, and the empty items before it.
AboveObject(r, p, x) ==
    /\ OnWay(x, p)
    /\ IF x = Front(p) /\ Last(p) < 0
       THEN r[x].type = "LIST" /\ Len(r[x].names) = ListItem(Last(p)) + 1
       ELSE r[x].type = "STRUCT"
OfObject(r, p, node, x) == \E q \in DOMAIN node : x = p \o q /\ r[x] = node[q]
BeforeObject(r, p, x) ==
    /\ Last(p) < 0 /\ r[x] = EmptyNode
    /\ \E c \in Int : x = Append(Front(p), c) /\ c < 0 /\ ListItem(c) < ListItem(Last(p))
WithObject(r, t, p, node) ==
    /\ Wellformed(r)
    /\ \A x \in DOMAIN r : \/ x \in DOMAIN t /\ r[x] = t[x]
                           \/ AboveObject(r, p, x)
                           \/ OfObject(r, p, node, x)
                           \/ BeforeObject(r, p, x)
    /\ \A x \in DOMAIN t : Valued(t[x]) => x \in DOMAIN r /\ r[x] = t[x]
    /\ \A q \in DOMAIN node : p \o q \in DOMAIN r /\ r[p \o q] = node[q]

\* The names of a path without items are keys as they are.
LEMMA KeysSame ==
    ASSUME NEW p \in Paths, \A d \in 1..Len(p) : ~(p[d] < 0)
    PROVE  Keys(p) = p
<1>1. Keys(p) \in Seq(Int) /\ Len(Keys(p)) = Len(p) /\ Len(p) \in Nat
      /\ \A d \in 1..Len(p) : Keys(p)[d] = AsKey(p[d])
    BY KeysAre, LenProperties DEF Paths
<1>2. \A d \in 1..Len(p) : AsKey(p[d]) = p[d]
    BY DEF AsKey
<1> DEFINE k == Keys(p)
<1>3. k \in Seq(Int) /\ Len(k) = Len(p) /\ \A d \in 1..Len(p) : k[d] = p[d]
    BY <1>1, <1>2
<1> HIDE DEF k
<1>4. k = p
    <2>1. p \in Seq(Int)
        BY DEF Paths
    <2> QED
        BY <1>3, <2>1
<1> QED
    BY <1>4 DEF k

\* A path and the one above it.
LEMMA PlainParts ==
    ASSUME NEW p, PlainPath(p)
    PROVE  /\ Front(p) \in Paths /\ Last(p) \in Int /\ p = Append(Front(p), Last(p))
           /\ Len(p) \in Nat /\ Len(p) >= 1 /\ Len(Front(p)) = Len(p) - 1 /\ Last(p) = p[Len(p)]
           /\ IsPrefix(Front(p), p) /\ OnWay(Front(p), p)
           /\ \A d \in 1..Len(Front(p)) : Front(p)[d] = p[d] /\ ~(Front(p)[d] < 0)
           /\ \A q : OnWay(q, p) <=> q = Front(p) \/ OnWay(q, Front(p))
           /\ Last(p) < 0 => ListItem(Last(p)) \in 0..9
           /\ Keys(Front(p)) = Front(p)
           /\ ~(Last(p) < 0) => Keys(p) = p
<1>1. p \in Seq(Int) /\ p # <<>> /\ Len(p) \in Nat
    BY LenProperties DEF PlainPath, Paths
<1> DEFINE f == Front(p)
           c == Last(p)
<1>2. f \in Seq(Int) /\ c \in Int /\ Len(f) = Len(p) - 1 /\ p = Append(f, c) /\ IsPrefix(f, p)
      /\ \A i \in 1..(Len(p) - 1) : f[i] = p[i]
    BY <1>1, FrontLast
<1>3. c = p[Len(p)] /\ Len(p) >= 1
    BY <1>1 DEF Last
<1> HIDE DEF f, c
<1>4. ASSUME NEW d \in 1..Len(f) PROVE f[d] = p[d] /\ ~(f[d] < 0)
    <2>1. d \in 1..(Len(p) - 1) /\ d \in 1..Len(p) /\ d # Len(p)
        BY <1>1, <1>2
    <2> QED
        BY <1>2, <2>1 DEF PlainPath
<1>5. OnWay(f, p)
    <2>1. f # p
        BY <1>1, <1>2
    <2> QED
        BY <1>2, <2>1 DEF OnWay, Paths
<1>6. ASSUME NEW q PROVE OnWay(q, p) <=> q = f \/ OnWay(q, f)
    <2>1. ASSUME OnWay(q, p), q # f PROVE OnWay(q, f)
        <3>1. q \in Seq(Int) /\ IsPrefix(q, p) /\ q # p
            BY <2>1 DEF OnWay, Paths
        <3>2. IsPrefix(q, f)
            BY <1>1, <3>1, PrefixFront DEF f
        <3> QED
            BY <2>1, <3>1, <3>2 DEF OnWay, Paths
    <2>2. ASSUME OnWay(q, f) PROVE OnWay(q, p)
        <3>1. q \in Seq(Int) /\ IsPrefix(q, f) /\ q # f
            BY <2>2 DEF OnWay, Paths
        <3>2. IsPrefix(q, p)
            BY <1>1, <1>2, <3>1, PrefixOrder
        <3>3. q # p
            <4>1. Len(q) <= Len(f)
                BY <1>2, <3>1, PrefixElements
            <4> QED
                BY <1>1, <1>2, <4>1
        <3> QED
            BY <3>1, <3>2, <3>3 DEF OnWay, Paths
    <2> QED
        BY <1>5, <2>1, <2>2
<1>7. c < 0 => ListItem(c) \in 0..9
    <2>1. Len(p) \in 1..Len(p)
        BY <1>1, <1>3
    <2>2. c < 0 => c >= ListItem(9)
        BY <1>3, <2>1 DEF PlainPath
    <2> QED
        BY <1>2, <2>2 DEF ListItem
<1>8. Keys(f) = f
    BY <1>2, <1>4, KeysSame DEF Paths
<1>9. ~(c < 0) => Keys(p) = p
    <2>1. ASSUME ~(c < 0), NEW d \in 1..Len(p) PROVE ~(p[d] < 0)
        BY <1>3, <2>1 DEF PlainPath
    <2> QED
        BY <1>1, <2>1, KeysSame DEF Paths
<1> QED
    BY <1>1, <1>2, <1>3, <1>4, <1>5, <1>6, <1>7, <1>8, <1>9 DEF f, c, Paths

\* Nodes with children of their own, and lists.
LEMMA StructNodeIs ==
    ASSUME NEW names
    PROVE  StructNode(names).type = "STRUCT" /\ StructNode(names).names = names
BY DEF StructNode, Node

\* An object that is no item: add_child.
LEMMA PutInStruct ==
    ASSUME NEW t, Wellformed(t), NEW p, PlainPath(p), Open(t, p), ~(Last(p) < 0),
           NEW node, Wellformed(node)
    PROVE  WithObject(Placed(t, p, node), t, p, node)
<1> DEFINE r == AddChild(t, p, node)
<1>1. p \in Paths /\ p # <<>> /\ Keys(p) = p
    BY PlainParts DEF PlainPath
<1>2. Placed(t, p, node) = r
    BY <1>1, NodesNotFailed DEF Placed
<1>3. Added(r, t, p, node)
    <2>1. ~\E q \in DOMAIN t : OnWay(q, p) /\ t[q].type \notin {"EMPTY", "STRUCT"}
        BY DEF Open
    <2>2. /\ Failed(r) <=> \E q \in DOMAIN t : OnWay(q, Keys(p)) /\ t[q].type \notin {"EMPTY", "STRUCT"}
          /\ ~Failed(r) => Added(r, t, Keys(p), node)
        BY <1>1, AddChildOK
    <2> HIDE DEF r
    <2> QED
        BY <1>1, <2>1, <2>2
<1> HIDE DEF r
<1>4. /\ Wellformed(r)
      /\ \A x : x \in DOMAIN r <=> InAdded(x, t, p, node)
      /\ \A x : OnWay(x, p) => r[x] = StructNode(NamesAdded(t, p, x))
      /\ \A x \in DOMAIN t : ~OnWay(x, p) => r[x] = t[x]
      /\ \A q \in DOMAIN node : r[p \o q] = node[q]
    BY <1>3 DEF Added, Open
<1>5. ASSUME NEW x, OnWay(x, p) PROVE r[x].type = "STRUCT"
    <2> DEFINE names == NamesAdded(t, p, x)
    <2> HIDE DEF names
    <2>1. r[x] = StructNode(names)
        BY <1>4, <1>5 DEF names
    <2> QED
        BY <2>1, StructNodeIs
<1>6. ASSUME NEW x \in DOMAIN r
      PROVE  (x \in DOMAIN t /\ r[x] = t[x]) \/ AboveObject(r, p, x) \/ OfObject(r, p, node, x)
    <2>1. InAdded(x, t, p, node)
        BY <1>4
    <2>2. CASE OnWay(x, p)
        BY <1>5, <2>2 DEF AboveObject
    <2>3. CASE x \in DOMAIN t /\ ~OnWay(x, p)
        BY <1>4, <2>3
    <2>4. CASE \E q \in DOMAIN node : x = p \o q
        BY <1>4, <2>4 DEF OfObject
    <2> QED
        BY <2>1, <2>2, <2>3, <2>4 DEF InAdded
<1>7. ASSUME NEW x \in DOMAIN t, Valued(t[x]) PROVE x \in DOMAIN r /\ r[x] = t[x]
    <2>1. ~OnWay(x, p)
        BY <1>7 DEF Open, Valued, Inner
    <2> QED
        BY <1>4, <2>1 DEF InAdded
<1>8. ASSUME NEW q \in DOMAIN node PROVE p \o q \in DOMAIN r /\ r[p \o q] = node[q]
    BY <1>4 DEF InAdded, Open
<1> QED
    BY <1>2, <1>4, <1>6, <1>7, <1>8 DEF WithObject

\* The list that the object is an item of, before and after it is inserted.
LEMMA ListBefore ==
    ASSUME NEW t, Wellformed(t), NEW p, PlainPath(p), Open(t, p), Last(p) < 0
    PROVE  LET f == Front(p)
               i == ListItem(Last(p))
               made == AddChild(t, f, Empty)
           IN  /\ ~Failed(made) /\ Added(made, t, f, Empty) /\ f \in DOMAIN made
               /\ made[f].type \in {"EMPTY", "LIST"}
               /\ f \in DOMAIN t => made[f] = t[f]
               /\ Len(made[f].names) <= i
               /\ \A x \in DOMAIN made : \/ OnWay(x, p) /\ x # f /\ made[x].type = "STRUCT"
                                         \/ x = f
                                         \/ x \in DOMAIN t /\ made[x] = t[x]
<1> DEFINE f == Front(p)
           i == ListItem(Last(p))
           made == AddChild(t, f, Empty)
<1>1. f \in Paths /\ Keys(f) = f /\ i \in Nat /\ OnWay(f, p)
      /\ \A q : OnWay(q, p) <=> q = f \/ OnWay(q, f)
    BY PlainParts, SMTT(30)
<1>2. ~\E q \in DOMAIN t : OnWay(q, f) /\ t[q].type \notin {"EMPTY", "STRUCT"}
    <2>1. ASSUME NEW q \in DOMAIN t, OnWay(q, f) PROVE t[q].type \in {"EMPTY", "STRUCT"}
        <3>1. OnWay(q, p) /\ q # f
            BY <1>1, <2>1 DEF OnWay
        <3> QED
            BY <3>1 DEF Open
    <2> QED
        BY <2>1
<1>3. ~Failed(made) /\ Added(made, t, f, Empty)
    <2>1. /\ Failed(made) <=> \E q \in DOMAIN t : OnWay(q, Keys(f)) /\ t[q].type \notin {"EMPTY", "STRUCT"}
          /\ ~Failed(made) => Added(made, t, Keys(f), Empty)
        BY <1>1, AddChildOK, EmptyOK
    <2> HIDE DEF made, f
    <2> QED
        BY <1>1, <1>2, <2>1
<1> HIDE DEF made, f
<1>4. /\ \A x : x \in DOMAIN made <=> InAdded(x, t, f, Empty)
      /\ \A x : OnWay(x, f) => made[x] = StructNode(NamesAdded(t, f, x))
      /\ \A x \in DOMAIN t : ~OnWay(x, f) => made[x] = t[x]
      /\ f \notin DOMAIN t => \A q \in DOMAIN Empty : made[f \o q] = Empty[q]
    BY <1>3 DEF Added
<1>5. DOMAIN Empty = {<<>>} /\ Empty[<<>>] = EmptyNode /\ f \o <<>> = f
    BY <1>1, AloneIs, ConcatPaths DEF Empty, Paths
<1>6. f \in DOMAIN made /\ (f \in DOMAIN t => made[f] = t[f]) /\ (f \notin DOMAIN t => made[f] = EmptyNode)
    <2>1. ~OnWay(f, f)
        BY DEF OnWay
    <2>2. f \in DOMAIN made
        BY <1>4, <1>5 DEF InAdded
    <2>3. f \notin DOMAIN t => made[f \o <<>>] = Empty[<<>>]
        BY <1>4, <1>5
    <2> QED
        BY <1>4, <1>5, <2>1, <2>2, <2>3
<1>7. made[f].type \in {"EMPTY", "LIST"} /\ Len(made[f].names) <= i
    <2>1. CASE f \in DOMAIN t
        BY <1>1, <1>6, <2>1 DEF Open, f
    <2>2. CASE f \notin DOMAIN t
        <3>1. Len(EmptyNode.names) = 0 /\ EmptyNode.type = "EMPTY"
            BY EmptyNodeOK
        <3> QED
            BY <1>1, <1>6, <2>2, <3>1
    <2> QED
        BY <2>1, <2>2
<1>8. ASSUME NEW x \in DOMAIN made
      PROVE  \/ OnWay(x, p) /\ x # f /\ made[x].type = "STRUCT"
             \/ x = f
             \/ x \in DOMAIN t /\ made[x] = t[x]
    <2>1. InAdded(x, t, f, Empty)
        BY <1>4
    <2>2. CASE OnWay(x, f)
        <3> DEFINE names == NamesAdded(t, f, x)
        <3> HIDE DEF names
        <3>1. made[x] = StructNode(names)
            BY <1>4, <2>2 DEF names
        <3>2. x # f /\ OnWay(x, p)
            BY <1>1, <2>2 DEF OnWay
        <3> QED
            BY <3>1, <3>2, StructNodeIs
    <2>3. CASE x \in DOMAIN t /\ ~OnWay(x, f)
        BY <1>4, <2>3
    <2>4. CASE \E q \in DOMAIN Empty : x = f \o q
        BY <1>5, <2>4
    <2> QED
        BY <2>1, <2>2, <2>3, <2>4 DEF InAdded
<1> QED
    BY <1>3, <1>6, <1>7, <1>8 DEF f, made

\* The items of the list with the object at its end.
AtEnd(list, b, i, node) ==
    /\ Wellformed(list) /\ <<>> \in DOMAIN list /\ list[<<>>] = ListNode(i + 1)
    /\ \A q \in DOMAIN node : <<-(i + 1)>> \o q \in DOMAIN list /\ list[<<-(i + 1)>> \o q] = node[q]
    /\ \A y \in DOMAIN b : y # <<>> => y \in DOMAIN list /\ list[y] = b[y]
    /\ \A y \in DOMAIN list :
         \/ y = <<>>
         \/ y \in DOMAIN b /\ list[y] = b[y]
         \/ \E q \in DOMAIN node : y = <<-(i + 1)>> \o q /\ list[y] = node[q]
         \/ \E k \in 1..i : y = <<-k>> /\ list[y] = EmptyNode

\* insert behind the end of the list gives this.
LEMMA ListAfter ==
    ASSUME NEW b, Wellformed(b), b[<<>>].type \in {"EMPTY", "LIST"}, NEW i \in Nat, Len(b[<<>>].names) <= i,
           NEW node, Wellformed(node)
    PROVE  ~Failed(Insert(b, i, node)) /\ AtEnd(Insert(b, i, node), b, i, node)
<1> DEFINE list == Insert(b, i, node)
           names == b[<<>>].names
           n == Len(names)
           kids == Padded(b, i)
<1>1. ~Failed(list) /\ Inserted(list, b, i, node)
    BY InsertOK
<1>2. n \in Nat /\ n <= i /\ Linked(b) /\ <<>> \in DOMAIN b /\ DOMAIN b \subseteq Seq(Int) /\ NodeOK(b[<<>>])
      /\ names \in Seq(Int)
    BY TreePaths, LenProperties
<1>3. names = ItemNames(n)
    <2>1. CASE b[<<>>].type = "EMPTY"
        <3>1. names = <<>>
            BY <1>2, <2>1, EmptyNodeOK DEF NodeOK
        <3>2. ItemNames(0) \in Seq(Int) /\ Len(ItemNames(0)) = 0
            BY ItemNamesAre
        <3>3. ItemNames(0) = <<>> /\ n = 0
            BY <3>1, <3>2
        <3> QED
            BY <3>1, <3>3
    <2>2. CASE b[<<>>].type = "LIST"
        <3>1. b[<<>>] = ListNode(n)
            BY <1>2, <2>2 DEF NodeOK
        <3> HIDE DEF n
        <3>2. ListNode(n).names = ItemNames(n)
            BY <1>2, ListNodeOK
        <3> QED
            BY <3>1, <3>2
    <2> QED
        BY <2>1, <2>2
<1>4. \A k \in 1..n : names[k] = -k
    BY <1>2, <1>3, ItemNamesAre
<1>5. Items(b, i) = i
    BY <1>2 DEF Items
<1>6. \A k \in 1..i : kids[k] = IF k <= n THEN Below(b, <<names[k]>>) ELSE Empty
    <2>1. LET m == IF i > n THEN i ELSE n
          IN  \A k \in 1..m : kids[k] = IF k <= n THEN Below(b, <<names[k]>>) ELSE Empty
        BY PaddedOK
    <2>2. (IF i > n THEN i ELSE n) = i
        BY <1>2
    <2> HIDE DEF kids, n, names
    <2> QED
        BY <2>1, <2>2
<1> HIDE DEF list, names, n, kids
<1>7. /\ \A k \in 1..i : Kid(b, i, node, k) = IF k <= n THEN Below(b, <<-k>>) ELSE Empty
      /\ Kid(b, i, node, i + 1) = node
    <2>1. ASSUME NEW k \in 1..i PROVE Kid(b, i, node, k) = IF k <= n THEN Below(b, <<-k>>) ELSE Empty
        <3>1. Kid(b, i, node, k) = kids[k]
            BY DEF Kid, kids
        <3>2. k <= n => names[k] = -k
            BY <1>2, <1>4
        <3> QED
            BY <1>6, <3>1, <3>2
    <2>2. Kid(b, i, node, i + 1) = node
        BY DEF Kid
    <2> QED
        BY <2>1, <2>2
<1>8. /\ Wellformed(list) /\ <<>> \in DOMAIN list /\ list[<<>>] = ListNode(i + 1)
      /\ \A k \in 1..(i + 1) : \A q \in DOMAIN Kid(b, i, node, k) :
           <<-k>> \o q \in DOMAIN list /\ list[<<-k>> \o q] = Kid(b, i, node, k)[q]
      /\ \A x \in DOMAIN list :
           x = <<>> \/ \E k \in 1..(i + 1) : \E q \in DOMAIN Kid(b, i, node, k) : x = <<-k>> \o q
    BY <1>1, <1>5 DEF Inserted
<1>9. ASSUME NEW k \in 1..n
      PROVE  /\ <<-k>> \in DOMAIN b
             /\ \A q : q \in DOMAIN Below(b, <<-k>>) <=> q \in Seq(Int) /\ <<-k>> \o q \in DOMAIN b
             /\ \A q \in DOMAIN Below(b, <<-k>>) : Below(b, <<-k>>)[q] = b[<<-k>> \o q]
    <2>1. <<-k>> \in DOMAIN b
        <3>1. <<names[k]>> \in DOMAIN b
            BY <1>9, NamedChild DEF n, names
        <3> QED
            BY <1>4, <3>1
    <2> QED
        BY <2>1, BelowOK
<1>10. ASSUME NEW q \in DOMAIN node
       PROVE  <<-(i + 1)>> \o q \in DOMAIN list /\ list[<<-(i + 1)>> \o q] = node[q]
    <2>1. i + 1 \in 1..(i + 1) /\ q \in DOMAIN Kid(b, i, node, i + 1)
        BY <1>7
    <2> QED
        BY <1>7, <1>8, <2>1
<1>11. ASSUME NEW y \in DOMAIN b, y # <<>>
       PROVE  y \in DOMAIN list /\ list[y] = b[y]
    <2> DEFINE e == <<>>
               c == Head(y)
               q == Tail(y)
    <2>1. y \in Seq(Int) /\ c \in Int /\ q \in Seq(Int) /\ y = <<c>> \o q
        BY <1>2, <1>11, TailConcat
    <2>2. y[Len(e) + 1] \in Range(b[e].names)
        <3>1. e \in Paths /\ IsPrefix(e, y) /\ e # y
            BY <1>11, <2>1, EmptyPath, PrefixOrder DEF Paths
        <3> HIDE DEF e
        <3> QED
            BY <1>2, <3>1, LinkedNext
    <2>3. c = y[1] /\ Len(e) + 1 = 1
        BY <2>1, <1>11
    <2>4. c \in Range(names)
        BY <2>2, <2>3 DEF names
    <2>5. PICK k \in DOMAIN names : names[k] = c
        BY <2>4 DEF Range
    <2>6. k \in 1..n /\ c = -k
        <3>1. names \in Seq(Int)
            BY <1>2
        <3>2. k \in 1..n
            BY <2>5, <3>1 DEF n
        <3> QED
            BY <1>4, <2>5, <3>2
    <2> HIDE DEF c, q, e
    <2>7. q \in DOMAIN Below(b, <<-k>>) /\ Below(b, <<-k>>)[q] = b[<<-k>> \o q]
        BY <1>9, <2>1, <2>6
    <2>8. k \in 1..i /\ k \in 1..(i + 1) /\ k <= n
        BY <1>2, <2>6
    <2>9. <<-k>> \o q \in DOMAIN list /\ list[<<-k>> \o q] = Below(b, <<-k>>)[q]
        BY <1>7, <1>8, <2>7, <2>8
    <2> QED
        BY <2>1, <2>6, <2>7, <2>9
<1>12. ASSUME NEW y \in DOMAIN list
       PROVE  \/ y = <<>>
              \/ y \in DOMAIN b /\ list[y] = b[y]
              \/ \E q \in DOMAIN node : y = <<-(i + 1)>> \o q /\ list[y] = node[q]
              \/ \E k \in 1..i : y = <<-k>> /\ list[y] = EmptyNode
    <2>1. SUFFICES ASSUME y # <<>>
                   PROVE  \/ y \in DOMAIN b /\ list[y] = b[y]
                          \/ \E q \in DOMAIN node : y = <<-(i + 1)>> \o q /\ list[y] = node[q]
                          \/ \E k \in 1..i : y = <<-k>> /\ list[y] = EmptyNode
        OBVIOUS
    <2>2. PICK k \in 1..(i + 1) : \E q \in DOMAIN Kid(b, i, node, k) : y = <<-k>> \o q
        BY <1>8, <2>1
    <2>3. PICK q \in DOMAIN Kid(b, i, node, k) : y = <<-k>> \o q
        BY <2>2
    <2>4. list[y] = Kid(b, i, node, k)[q]
        BY <1>8, <2>3
    <2>5. CASE k = i + 1
        BY <1>7, <2>3, <2>4, <2>5
    <2>6. CASE k # i + 1 /\ k <= n
        <3>1. k \in 1..n /\ k \in 1..i
            BY <1>2, <2>6
        <3>2. Kid(b, i, node, k) = Below(b, <<-k>>)
            BY <1>7, <2>6, <3>1
        <3> QED
            BY <1>9, <2>3, <2>4, <3>1, <3>2
    <2>7. CASE k # i + 1 /\ ~(k <= n)
        <3>1. k \in 1..i
            BY <2>7
        <3>2. Kid(b, i, node, k) = Empty
            BY <1>7, <2>7, <3>1
        <3>3. q = <<>> /\ Empty[<<>>] = EmptyNode
            BY <2>3, <3>2, AloneIs DEF Empty
        <3>4. <<-k>> \o <<>> = <<-k>>
            BY <3>1, HeadTail
        <3> QED
            BY <2>3, <2>4, <3>1, <3>2, <3>3, <3>4
    <2> QED
        BY <2>5, <2>6, <2>7
<1> QED
    BY <1>1, <1>8, <1>10, <1>11, <1>12 DEF list, AtEnd

\* An object that is an item: insert.
LEMMA PutInList ==
    ASSUME NEW t, Wellformed(t), NEW p, PlainPath(p), Open(t, p), Last(p) < 0,
           NEW node, Wellformed(node)
    PROVE  WithObject(Placed(t, p, node), t, p, node)
<1> DEFINE f == Front(p)
           i == ListItem(Last(p))
           made == AddChild(t, f, Empty)
           b == Below(made, f)
           list == Insert(b, i, node)
           r == Replace(made, f, list)
           c == -(i + 1)
<1>1. f \in Paths /\ Keys(f) = f /\ i \in Nat /\ c = Last(p) /\ c \in Int /\ p = Append(f, c) /\ p \in Paths
    <2>1. f \in Paths /\ Keys(f) = f /\ i \in 0..9 /\ p = Append(f, Last(p)) /\ Last(p) \in Int
        BY PlainParts
    <2>2. c = Last(p)
        BY <2>1 DEF ListItem
    <2> QED
        BY <2>1, <2>2 DEF PlainPath
<1>2. /\ ~Failed(made) /\ Added(made, t, f, Empty) /\ f \in DOMAIN made
      /\ made[f].type \in {"EMPTY", "LIST"}
      /\ f \in DOMAIN t => made[f] = t[f]
      /\ Len(made[f].names) <= i
      /\ \A x \in DOMAIN made : \/ OnWay(x, p) /\ x # f /\ made[x].type = "STRUCT"
                                \/ x = f
                                \/ x \in DOMAIN t /\ made[x] = t[x]
    BY ListBefore
<1>3. Placed(t, p, node) = IF Failed(list) THEN Failure ELSE r
    <2>1. Placed(t, p, node) = InsertIn(t, f, i, node)
        BY NodesNotFailed DEF Placed, PlainPath
    <2>2. InsertIn(t, f, i, node) =
            LET new == Insert(Below(made, Keys(f)), i, node)
            IN  IF Failed(made) \/ Failed(new) THEN Failure ELSE Replace(made, Keys(f), new)
        BY DEF InsertIn, Keys
    <2> HIDE DEF f, made
    <2> QED
        BY <1>1, <1>2, <2>1, <2>2
<1> HIDE DEF made, f, i, c
<1>4. Wellformed(made)
    BY <1>2 DEF Added
<1>5. /\ Wellformed(b)
      /\ \A q : q \in DOMAIN b <=> q \in Seq(Int) /\ f \o q \in DOMAIN made
      /\ \A q \in DOMAIN b : b[q] = made[f \o q]
    BY <1>2, <1>4, BelowOK
<1> HIDE DEF b
<1>6. f \o <<>> = f /\ <<>> \in DOMAIN b /\ b[<<>>] = made[f]
    <2>1. f \o <<>> = f
        BY <1>1, ConcatPaths DEF Paths
    <2>2. <<>> \in DOMAIN b
        BY <1>5, TreePaths
    <2>3. b[<<>>] = made[f \o <<>>]
        BY <1>5, <2>2
    <2> QED
        BY <2>1, <2>2, <2>3
<1>7. /\ ~Failed(list) /\ Wellformed(list) /\ <<>> \in DOMAIN list /\ list[<<>>] = ListNode(i + 1)
      /\ \A q \in DOMAIN node : <<c>> \o q \in DOMAIN list /\ list[<<c>> \o q] = node[q]
      /\ \A y \in DOMAIN b : y # <<>> => y \in DOMAIN list /\ list[y] = b[y]
      /\ \A y \in DOMAIN list :
           \/ y = <<>>
           \/ y \in DOMAIN b /\ list[y] = b[y]
           \/ \E q \in DOMAIN node : y = <<c>> \o q /\ list[y] = node[q]
           \/ \E k \in 1..i : y = <<-k>> /\ list[y] = EmptyNode
    <2>1. b[<<>>].type \in {"EMPTY", "LIST"} /\ Len(b[<<>>].names) <= i
        BY <1>2, <1>6
    <2>2. ~Failed(list) /\ AtEnd(list, b, i, node)
        <3> HIDE DEF r
        <3>1. Wellformed(b) /\ i \in Nat /\ Wellformed(node)
            BY <1>1, <1>5
        <3> QED
            BY <2>1, <3>1, ListAfter
    <2> QED
        BY <2>2 DEF c, AtEnd
<1> HIDE DEF list
<1>8. /\ Wellformed(r)
      /\ \A x : x \in DOMAIN r <=> \/ x \in DOMAIN made /\ ~IsPrefix(f, x)
                                   \/ \E q \in DOMAIN list : x = f \o q
      /\ \A x \in DOMAIN made : ~IsPrefix(f, x) => r[x] = made[x]
      /\ \A q \in DOMAIN list : r[f \o q] = list[q]
    <2> HIDE DEF r
    <2>1. /\ Wellformed(Replace(made, f, list))
          /\ \A x : x \in DOMAIN Replace(made, f, list) <=>
                      \/ x \in DOMAIN made /\ ~IsPrefix(f, x)
                      \/ \E q \in DOMAIN list : x = f \o q
          /\ \A x \in DOMAIN made : ~IsPrefix(f, x) => Replace(made, f, list)[x] = made[x]
          /\ \A q \in DOMAIN list : Replace(made, f, list)[f \o q] = list[q]
        <3>1. f \in DOMAIN made /\ Wellformed(list)
            BY <1>2, <1>7
        <3> QED
            BY <1>4, <3>1, ReplaceOK, SMTT(30)
    <2> QED
        BY <2>1 DEF r
<1> HIDE DEF r
<1>9. ASSUME NEW q \in DOMAIN node
      PROVE  p \o q = f \o (<<c>> \o q)
    <2>1. q \in Seq(Int) /\ f \in Seq(Int) /\ <<c>> \in Seq(Int) /\ <<c>> = Append(<<>>, c)
        BY <1>1, TreePaths, HeadTail DEF Paths
    <2>2. (f \o <<c>>) \o q = f \o (<<c>> \o q)
        BY <2>1, ConcatPaths
    <2>3. f \o <<c>> = Append(f, c)
        <3>1. f \o Append(<<>>, c) = Append(f \o <<>>, c)
            BY <1>1, <2>1, EmptyPath, ConcatAppend
        <3> QED
            BY <1>6, <2>1, <3>1
    <2> QED
        BY <1>1, <2>2, <2>3
<1>10. ASSUME NEW x \in DOMAIN r
       PROVE  \/ x \in DOMAIN t /\ r[x] = t[x]
              \/ AboveObject(r, p, x)
              \/ OfObject(r, p, node, x)
              \/ BeforeObject(r, p, x)
    <2>1. CASE x \in DOMAIN made /\ ~IsPrefix(f, x)
        <3>1. r[x] = made[x] /\ x # f
            BY <1>1, <1>8, <2>1, PrefixOrder DEF Paths
        <3>2. (OnWay(x, p) /\ x # f /\ made[x].type = "STRUCT") \/ (x \in DOMAIN t /\ made[x] = t[x])
            BY <1>2, <2>1, <3>1
        <3> QED
            BY <3>1, <3>2 DEF AboveObject, f
    <2>2. ASSUME NEW y \in DOMAIN list, x = f \o y
          PROVE  \/ x \in DOMAIN t /\ r[x] = t[x]
                 \/ AboveObject(r, p, x)
                 \/ OfObject(r, p, node, x)
                 \/ BeforeObject(r, p, x)
        <3>1. r[x] = list[y]
            BY <1>8, <2>2
        <3>2. CASE y = <<>>
            <4>1. x = f /\ r[x] = ListNode(i + 1)
                BY <1>6, <1>7, <2>2, <3>1, <3>2
            <4>2. ListNode(i + 1).type = "LIST" /\ Len(ListNode(i + 1).names) = i + 1
                <5>1. i + 1 \in Nat
                    BY <1>1
                <5>2. ListNode(i + 1).names = ItemNames(i + 1) /\ ListNode(i + 1).type = "LIST"
                    BY <5>1, ListNodeOK
                <5>3. Len(ItemNames(i + 1)) = i + 1
                    BY <5>1, ItemNamesAre
                <5> QED
                    BY <5>2, <5>3
            <4>3. OnWay(f, p)
                BY PlainParts DEF f
            <4> QED
                BY <4>1, <4>2, <4>3 DEF AboveObject, f, i
        <3>3. CASE y # <<>> /\ y \in DOMAIN b /\ list[y] = b[y]
            <4>1. x \in DOMAIN made /\ r[x] = made[x] /\ y \in Seq(Int)
                BY <1>5, <2>2, <3>1, <3>3
            <4>2. x # f
                BY <1>1, <2>2, <3>3, <4>1, ConcatPaths DEF Paths
            <4>3. ~OnWay(x, p)
                <5>1. Len(x) = Len(f) + Len(y) /\ Len(y) >= 1 /\ Len(f) \in Nat /\ Len(y) \in Nat
                      /\ Len(p) = Len(f) + 1
                    <6>1. f \in Seq(Int)
                        BY <1>1 DEF Paths
                    <6>2. Len(x) = Len(f) + Len(y)
                        BY <2>2, <4>1, <6>1, ConcatPaths
                    <6>3. Len(p) = Len(f) + 1
                        BY <1>1, <6>1
                    <6> QED
                        BY <3>3, <4>1, <6>1, <6>2, <6>3
                <5>2. ASSUME OnWay(x, p) PROVE FALSE
                    <6>1. x \in Seq(Int) /\ p \in Seq(Int) /\ IsPrefix(x, p) /\ x # p
                        BY <1>1, <5>2 DEF OnWay, Paths
                    <6>2. Len(x) < Len(p)
                        BY <6>1, PrefixFront
                    <6> QED
                        BY <5>1, <6>2
                <5> QED
                    BY <5>2
            <4> QED
                BY <1>2, <4>1, <4>2, <4>3
        <3>4. CASE \E q \in DOMAIN node : y = <<c>> \o q /\ list[y] = node[q]
            <4>1. PICK q \in DOMAIN node : y = <<c>> \o q /\ list[y] = node[q]
                BY <3>4
            <4>2. x = p \o q
                BY <1>9, <2>2, <4>1
            <4> QED
                BY <3>1, <4>1, <4>2 DEF OfObject
        <3>5. CASE \E k \in 1..i : y = <<-k>> /\ list[y] = EmptyNode
            <4>1. PICK k \in 1..i : y = <<-k>> /\ list[y] = EmptyNode
                BY <3>5
            <4> DEFINE d == -k
            <4>2. d \in Int /\ d < 0 /\ ListItem(d) < i
                BY <1>1, <4>1 DEF ListItem
            <4>3. y = <<d>>
                BY <4>1
            <4> HIDE DEF d
            <4>4. x = Append(f, d)
                <5>1. <<d>> = Append(<<>>, d) /\ f \in Seq(Int)
                    BY <1>1, <4>2, HeadTail DEF Paths
                <5>2. f \o Append(<<>>, d) = Append(f \o <<>>, d)
                    BY <4>2, <5>1, EmptyPath, ConcatAppend
                <5> QED
                    BY <1>6, <2>2, <4>3, <5>1, <5>2
            <4>5. Last(p) < 0
                OBVIOUS
            <4> QED
                BY <3>1, <4>1, <4>2, <4>4, <4>5 DEF BeforeObject, f, i
        <3> QED
            BY <1>7, <3>2, <3>3, <3>4, <3>5
    <2> QED
        BY <1>8, <2>1, <2>2
<1>11. ASSUME NEW x \in DOMAIN t, Valued(t[x]) PROVE x \in DOMAIN r /\ r[x] = t[x]
    <2>1. ~OnWay(x, p)
        BY <1>11 DEF Open, Valued, Inner
    <2>2. x # f
        BY <2>1, PlainParts DEF f
    <2>3. x \in DOMAIN made
        BY <1>2 DEF Added, InAdded
    <2>4. made[x] = t[x]
        BY <1>2, <2>1, <2>2, <2>3
    <2>5. CASE ~IsPrefix(f, x)
        BY <1>8, <2>3, <2>4, <2>5
    <2>6. CASE IsPrefix(f, x)
        <3> DEFINE y == SubSeq(x, Len(f) + 1, Len(x))
        <3>1. x \in Seq(Int) /\ f \in Seq(Int)
            BY <1>1, TreePaths DEF Paths
        <3>2. y \in Seq(Int) /\ x = f \o y
            BY <2>6, <3>1, PrefixRest
        <3> HIDE DEF y
        <3>3. y # <<>>
            BY <1>6, <2>2, <3>2
        <3>4. y \in DOMAIN b /\ b[y] = made[x]
            BY <1>5, <2>3, <3>2
        <3>5. y \in DOMAIN list /\ list[y] = b[y]
            BY <1>7, <3>3, <3>4
        <3> QED
            BY <1>8, <2>4, <3>2, <3>4, <3>5
    <2> QED
        BY <2>5, <2>6
<1>12. ASSUME NEW q \in DOMAIN node PROVE p \o q \in DOMAIN r /\ r[p \o q] = node[q]
    BY <1>7, <1>8, <1>9
<1>13. WithObject(r, t, p, node)
    BY <1>8, <1>10, <1>11, <1>12 DEF WithObject
<1> QED
    BY <1>3, <1>7, <1>13 DEF r

\* An object finds its place, and the nodes of the tree stay where they are.
LEMMA PlacedInTree ==
    ASSUME NEW t, Wellformed(t), NEW p, PlainPath(p), Open(t, p), NEW node, Wellformed(node)
    PROVE  WithObject(Placed(t, p, node), t, p, node)
BY PutInStruct, PutInList

\* The leaves of a node, and those of the same node below another one.
LEMMA LeavesShifted ==
    ASSUME NEW p \in Paths, NEW q \in Paths, NEW u, u.shape \in Seq(Nat)
    PROVE  LeavesAt(p \o q, u) = Shifted(p, LeavesAt(q, u))
<1> DEFINE I == {x \in Indices(u.shape) : At(u, x) # NaN}
           text == u.type = "STRING"
           leaf(s, i) == [path |-> s \o ItemPath(i), text |-> text, value |-> At(u, i)]
           shift(l) == [path |-> p \o l.path, text |-> l.text, value |-> l.value]
<1>1. LeavesAt(p \o q, u) = {leaf(p \o q, i) : i \in I}
    BY DEF LeavesAt
<1>2. LeavesAt(q, u) = {leaf(q, i) : i \in I}
    BY DEF LeavesAt
<1>3. Shifted(p, LeavesAt(q, u)) = {shift(l) : l \in LeavesAt(q, u)}
    BY DEF Shifted
<1>4. ASSUME NEW i \in I PROVE leaf(p \o q, i) = shift(leaf(q, i))
    <2> DEFINE y == ItemPath(i)
               v == At(u, i)
    <2>1. y \in Paths
        BY IndexPath, EmptyPath DEF Paths
    <2> HIDE DEF y, v, text
    <2>2. (p \o q) \o y = p \o (q \o y)
        BY <2>1, ConcatThree
    <2>3. [path |-> (p \o q) \o y, text |-> text, value |-> v]
            = shift([path |-> q \o y, text |-> text, value |-> v])
        BY <2>2
    <2> QED
        BY <2>3 DEF y, v
<1> HIDE DEF I, leaf, shift
<1> QED
    BY <1>1, <1>2, <1>3, <1>4

\* The tree with the object in it says what it said, and what the object says.
LEMMA LeavesJoined ==
    ASSUME NEW t, Wellformed(t), NEW p \in Paths, NEW node, Wellformed(node),
           NEW r, WithObject(r, t, p, node)
    PROVE  Leaves(r) = Leaves(t) \cup Shifted(p, Leaves(node))
<1>1. \A x : Leaves(x) = UNION {LeavesAt(y, x[y]) : y \in {z \in DOMAIN x : Valued(x[z])}}
    BY DEF Leaves, LeafPaths, Valued
<1>2. ASSUME NEW q \in DOMAIN node PROVE LeavesAt(p \o q, node[q]) = Shifted(p, LeavesAt(q, node[q]))
    <2>1. q \in Paths /\ node[q].shape \in Seq(Nat)
        BY TreePaths DEF NodeOK, Paths
    <2> QED
        BY <2>1, LeavesShifted
<1>3. ASSUME NEW l \in Leaves(r) PROVE l \in Leaves(t) \/ l \in Shifted(p, Leaves(node))
    <2>1. PICK x \in DOMAIN r : Valued(r[x]) /\ l \in LeavesAt(x, r[x])
        BY <1>1
    <2>2. ~AboveObject(r, p, x) /\ ~BeforeObject(r, p, x)
        BY <2>1, EmptyNodeOK DEF AboveObject, BeforeObject, Valued, Inner
    <2>3. CASE x \in DOMAIN t /\ r[x] = t[x]
        BY <1>1, <2>1, <2>3
    <2>4. CASE OfObject(r, p, node, x)
        <3>1. PICK q \in DOMAIN node : x = p \o q /\ r[x] = node[q]
            BY <2>4 DEF OfObject
        <3>2. l \in Shifted(p, LeavesAt(q, node[q])) /\ Valued(node[q])
            BY <1>2, <2>1, <3>1
        <3>3. LeavesAt(q, node[q]) \subseteq Leaves(node)
            BY <1>1, <3>2
        <3> QED
            BY <3>2, <3>3 DEF Shifted
    <2> QED
        BY <2>2, <2>3, <2>4 DEF WithObject
<1>4. ASSUME NEW l \in Leaves(t) PROVE l \in Leaves(r)
    <2>1. PICK x \in DOMAIN t : Valued(t[x]) /\ l \in LeavesAt(x, t[x])
        BY <1>1
    <2>2. x \in DOMAIN r /\ r[x] = t[x]
        BY <2>1 DEF WithObject
    <2> QED
        BY <1>1, <2>1, <2>2
<1>5. ASSUME NEW l \in Shifted(p, Leaves(node)) PROVE l \in Leaves(r)
    <2>1. PICK m \in Leaves(node) : l = [path |-> p \o m.path, text |-> m.text, value |-> m.value]
        BY DEF Shifted
    <2>2. PICK q \in DOMAIN node : Valued(node[q]) /\ m \in LeavesAt(q, node[q])
        BY <1>1
    <2>3. l \in LeavesAt(p \o q, node[q])
        <3>1. l \in Shifted(p, LeavesAt(q, node[q]))
            BY <2>1, <2>2 DEF Shifted
        <3> QED
            BY <1>2, <3>1
    <2>4. p \o q \in DOMAIN r /\ r[p \o q] = node[q]
        BY DEF WithObject
    <2> QED
        BY <1>1, <2>2, <2>3, <2>4
<1> QED
    BY <1>3, <1>4, <1>5

\* The paths of a bucket that can be put together.
LEMMA PlainIs ==
    ASSUME NEW paths, paths \subseteq Paths, Plain(paths)
    PROVE  /\ \A p \in paths : PlainPath(p)
           /\ \A p, q \in paths : p # q =>
                /\ ~IsPrefix(p, q)
                /\ IsPrefix(Front(p), q) => ((Last(p) < 0) <=> (q[Len(p)] < 0))
<1>1. ASSUME NEW p \in paths PROVE PlainPath(p)
    <2>1. p \in Seq(Int) /\ DOMAIN p = 1..Len(p)
        BY DEF Paths
    <2> QED
        BY <2>1 DEF Plain, PlainPath
<1>2. ASSUME NEW p \in paths, NEW q \in paths, p # q
      PROVE  /\ ~IsPrefix(p, q)
             /\ IsPrefix(Front(p), q) => ((Last(p) < 0) <=> (q[Len(p)] < 0))
    BY <1>2 DEF Plain
<1> QED
    BY <1>1, <1>2

\* Fewer of them can be put together, too.
LEMMA PlainFewer ==
    ASSUME NEW paths, NEW more, Plain(more), paths \subseteq more
    PROVE  Plain(paths)
BY DEF Plain

\* An item and a path through its list: the path is that of another item.
LEMMA Siblings ==
    ASSUME NEW paths, paths \subseteq Paths, Plain(paths), NEW p \in paths, NEW q \in paths, p # q,
           Last(p) < 0, IsPrefix(Front(p), q)
    PROVE  Front(q) = Front(p) /\ Last(q) < 0 /\ Len(q) = Len(p)
<1>1. PlainPath(p) /\ PlainPath(q) /\ ~IsPrefix(q, p) /\ q[Len(p)] < 0
    BY PlainIs
<1>2. q \in Seq(Int) /\ q # <<>> /\ Len(q) \in Nat /\ Front(p) \in Seq(Int)
    BY <1>1, PlainParts, LenProperties DEF PlainPath, Paths
<1>3. Len(p) \in Nat /\ Len(p) >= 1 /\ Len(Front(p)) = Len(p) - 1 /\ IsPrefix(Front(p), p)
    BY <1>1, PlainParts
<1>4. Front(p) # q
    BY <1>1, <1>3
<1>5. IsPrefix(Front(p), Front(q)) /\ Len(Front(p)) < Len(q)
    BY <1>2, <1>4, PrefixFront
<1>6. Len(p) \in 1..Len(q)
    BY <1>2, <1>3, <1>5
<1>7. Len(p) = Len(q)
    BY <1>1, <1>6 DEF PlainPath
<1>8. Front(q) \in Seq(Int) /\ Len(Front(q)) = Len(q) - 1 /\ Last(q) = q[Len(q)]
    BY <1>1, PlainParts DEF Paths
<1>9. Front(p) = Front(q)
    <2>1. Len(Front(q)) <= Len(Front(p))
        BY <1>3, <1>7, <1>8
    <2> QED
        BY <1>2, <1>5, <1>8, <2>1, PrefixOrder
<1> QED
    BY <1>1, <1>7, <1>8, <1>9

\* Of two items of a list the one that is listed first has the lower index.
LEMMA ItemsInOrder ==
    ASSUME NEW p, NEW q, PlainPath(p), PlainPath(q), p # q, Front(p) = Front(q),
           Last(p) < 0, Last(q) < 0, ~Before(p, q)
    PROVE  ListItem(Last(q)) + 1 <= ListItem(Last(p))
<1>1. p = Append(Front(p), Last(p)) /\ q = Append(Front(q), Last(q)) /\ Last(p) \in Int /\ Last(q) \in Int
      /\ Len(p) \in Nat /\ Len(p) >= 1 /\ Len(Front(p)) = Len(p) - 1 /\ Last(p) = p[Len(p)]
      /\ Len(q) \in Nat /\ Len(Front(q)) = Len(q) - 1 /\ Last(q) = q[Len(q)]
      /\ ListItem(Last(p)) \in 0..9 /\ ListItem(Last(q)) \in 0..9
    BY PlainParts
<1>2. Len(p) = Len(q)
    BY <1>1
<1> DEFINE d == Len(p)
<1>3. d \in DOMAIN p \cap DOMAIN q
    <2>1. p \in Seq(Int) /\ q \in Seq(Int)
        BY DEF PlainPath, Paths
    <2> QED
        BY <1>1, <1>2, <2>1
<1>4. SubSeq(p, 1, d - 1) = SubSeq(q, 1, d - 1)
    BY <1>2 DEF Front
<1>5. ~(NameOrder(p[d]) < NameOrder(q[d]))
    BY <1>3, <1>4 DEF Before
<1>6. p[d] = Last(p) /\ q[d] = Last(q) /\ Last(p) # Last(q)
    BY <1>1, <1>2
<1>7. NameOrder(Last(p)) = 100 * ListItem(Last(p)) /\ NameOrder(Last(q)) = 100 * ListItem(Last(q))
    <2>1. \A i \in 0..9 : Decimal(i) = 100 * i
        BY DEF Decimal
    <2> QED
        BY <1>1, <2>1 DEF NameOrder
<1>8. ListItem(Last(p)) # ListItem(Last(q))
    BY <1>1, <1>6 DEF ListItem
<1> DEFINE a == ListItem(Last(p))
           b == ListItem(Last(q))
<1>9. a \in 0..9 /\ b \in 0..9 /\ a # b
    BY <1>1, <1>8
<1>10. ~(100 * a < 100 * b)
    BY <1>5, <1>6, <1>7
<1> HIDE DEF a, b
<1>11. b + 1 <= a
    BY <1>9, <1>10
<1> QED
    BY <1>11 DEF a, b

\* An object in its place leaves the places of the others as they were: those of
\* its list come later in the listing.
LEMMA OpenKept ==
    ASSUME NEW paths, paths \subseteq Paths, Plain(paths), NEW p0 \in paths, NEW p \in paths, p # p0,
           ~Before(p, p0), NEW t, Open(t, p), NEW node, Wellformed(node),
           NEW r, WithObject(r, t, p0, node)
    PROVE  Open(r, p)
<1>1. PlainPath(p) /\ PlainPath(p0) /\ ~IsPrefix(p, p0) /\ ~IsPrefix(p0, p)
    BY PlainIs
<1>2. p \in Seq(Int) /\ p0 \in Seq(Int)
    BY <1>1 DEF PlainPath, Paths
<1>3. \A x \in DOMAIN r : (x \in DOMAIN t /\ r[x] = t[x]) \/ AboveObject(r, p0, x)
                          \/ OfObject(r, p0, node, x) \/ BeforeObject(r, p0, x)
    BY DEF WithObject
<1>4. \A x : OfObject(r, p0, node, x) => x \in Seq(Int) /\ IsPrefix(p0, x)
    <2>1. ASSUME NEW x, NEW q \in DOMAIN node, x = p0 \o q
          PROVE  x \in Seq(Int) /\ IsPrefix(p0, x)
        <3>1. q \in Seq(Int)
            BY TreePaths
        <3> QED
            BY <1>2, <2>1, <3>1, ConcatPaths, PrefixConcat
    <2> QED
        BY <2>1 DEF OfObject
<1>5. ASSUME Last(p) < 0, IsPrefix(Front(p), p0)
      PROVE  Front(p0) = Front(p) /\ Last(p0) < 0 /\ Len(p0) = Len(p)
             /\ ListItem(Last(p0)) + 1 <= ListItem(Last(p))
    <2>1. Front(p0) = Front(p) /\ Last(p0) < 0 /\ Len(p0) = Len(p)
        BY <1>5, Siblings
    <2> QED
        BY <1>1, <1>5, <2>1, ItemsInOrder
<1>6. ASSUME Last(p0) < 0, IsPrefix(Front(p0), p)
      PROVE  Front(p) = Front(p0) /\ Last(p) < 0 /\ Len(p) = Len(p0)
    BY <1>6, Siblings
<1>7. p \notin DOMAIN r
    <2> SUFFICES ASSUME p \in DOMAIN r PROVE FALSE
        OBVIOUS
    <2>1. p \notin DOMAIN t
        BY DEF Open
    <2>2. ~AboveObject(r, p0, p)
        BY <1>1 DEF AboveObject, OnWay
    <2>3. ~OfObject(r, p0, node, p)
        BY <1>1, <1>4
    <2>4. ASSUME BeforeObject(r, p0, p) PROVE FALSE
        <3>1. PICK c \in Int : p = Append(Front(p0), c) /\ c < 0 /\ ListItem(c) < ListItem(Last(p0))
                               /\ Last(p0) < 0
            BY <2>4 DEF BeforeObject
        <3>2. Front(p0) \in Seq(Int) /\ Last(p0) \in Int
            BY <1>1, PlainParts DEF Paths
        <3>3. Front(p) = Front(p0) /\ Last(p) = c
            BY <3>1, <3>2, AppendFront
        <3>4. ListItem(Last(p0)) + 1 <= ListItem(Last(p))
            BY <1>1, <3>1, <3>3, ItemsInOrder
        <3> QED
            BY <3>1, <3>2, <3>3, <3>4 DEF ListItem
    <2> QED
        BY <1>3, <2>1, <2>2, <2>3, <2>4
<1>8. ASSUME NEW x \in DOMAIN r, OnWay(x, p)
      PROVE  IF x = Front(p) /\ Last(p) < 0
             THEN r[x].type \in {"EMPTY", "LIST"} /\ Len(r[x].names) <= ListItem(Last(p))
             ELSE r[x].type \in {"EMPTY", "STRUCT"}
    <2>1. x \in Seq(Int) /\ IsPrefix(x, p) /\ x # p
        BY <1>8 DEF OnWay, Paths
    <2>2. CASE x \in DOMAIN t /\ r[x] = t[x]
        BY <1>8, <2>2 DEF Open
    <2>3. CASE AboveObject(r, p0, x)
        <3>1. IsPrefix(x, p0)
            BY <2>3 DEF AboveObject, OnWay
        <3>2. CASE x = Front(p) /\ Last(p) < 0
            <4>1. Front(p0) = x /\ Last(p0) < 0 /\ ListItem(Last(p0)) + 1 <= ListItem(Last(p))
                BY <1>5, <3>1, <3>2
            <4>2. r[x].type = "LIST" /\ Len(r[x].names) = ListItem(Last(p0)) + 1
                BY <2>3, <4>1 DEF AboveObject
            <4> QED
                BY <3>2, <4>1, <4>2
        <3>3. CASE ~(x = Front(p) /\ Last(p) < 0)
            <4>1. ~(x = Front(p0) /\ Last(p0) < 0)
                BY <1>6, <2>1, <3>3
            <4>2. r[x].type = "STRUCT"
                BY <2>3, <4>1 DEF AboveObject
            <4> QED
                BY <3>3, <4>2
        <3> QED
            BY <3>2, <3>3
    <2>4. ~OfObject(r, p0, node, x)
        BY <1>1, <1>2, <1>4, <2>1, PrefixOrder
    <2>5. ASSUME BeforeObject(r, p0, x) PROVE FALSE
        <3>1. PICK c \in Int : x = Append(Front(p0), c) /\ Last(p0) < 0
            BY <2>5 DEF BeforeObject
        <3>2. Front(p0) \in Seq(Int) /\ Len(Front(p0)) = Len(p0) - 1 /\ Len(p0) \in Nat
            BY <1>1, PlainParts DEF Paths
        <3>3. IsPrefix(Front(p0), x) /\ Len(x) = Len(Front(p0)) + 1
            BY <3>1, <3>2, AppendFront
        <3>4. IsPrefix(Front(p0), p)
            BY <1>2, <2>1, <3>2, <3>3, PrefixOrder
        <3>5. Len(p) = Len(p0)
            BY <1>6, <3>1, <3>4
        <3>6. Len(x) < Len(p)
            BY <1>2, <2>1, PrefixFront
        <3> QED
            BY <3>2, <3>3, <3>5, <3>6
    <2> QED
        BY <1>3, <2>2, <2>3, <2>4, <2>5
<1> QED
    BY <1>7, <1>8 DEF Open

\* The empty tree that a reading starts from.
LEMMA OpenFirst ==
    ASSUME NEW p, PlainPath(p)
    PROVE  Open(Empty, p)
<1>1. DOMAIN Empty = {<<>>} /\ Empty[<<>>] = EmptyNode
    BY AloneIs DEF Empty
<1>2. EmptyNode.type = "EMPTY" /\ Len(EmptyNode.names) = 0
    <2>1. EmptyNode.names = <<>> /\ Len(<<>>) = 0
        BY EmptyNodeOK
    <2> QED
        BY <2>1, EmptyNodeOK
<1>3. Last(p) < 0 => ListItem(Last(p)) \in 0..9
    BY PlainParts
<1>4. p # <<>>
    BY DEF PlainPath
<1> QED
    BY <1>1, <1>2, <1>3, <1>4 DEF Open

-----------------------------------------------------------------------------
(* The reading of a bucket.                                                *)

\* What is listed and not read yet has its place in the tree.
Reading ==
    /\ file # None => DOMAIN bucket = {}
    /\ listed # {} /\ Plain(DOMAIN bucket) =>
         ~Failed(back) /\ \A p \in listed : Open(back, p)

\* An object is read into the tree.
LEMMA ObjectRead ==
    ASSUME Consistent, Reading, NEW path \in listed, GetObject(path), Plain(DOMAIN bucket)
    PROVE  LET node == FromJson(bucket[path])
           IN  /\ ~Failed(node) =>
                    ~Failed(back') /\ ~failed' /\ Wellformed(node) /\ Wellformed(back)
                    /\ WithObject(back', back, path, node)
               /\ Failed(node) => listed' = {}
               /\ ~Failed(node) => listed' = listed \ {path}
<1> DEFINE node == FromJson(bucket[path])
           t == Placed(back, path, node)
<1>1. /\ back' = t /\ failed' = Failed(t)
      /\ listed' = IF Failed(t) THEN {} ELSE listed \ {path}
    BY DEF GetObject
<1>2. path \in DOMAIN bucket /\ DOMAIN bucket \subseteq Paths /\ PlainPath(path)
    <2>1. path \in DOMAIN bucket /\ DOMAIN bucket \subseteq Paths
        BY DEF Consistent, BucketMade
    <2> QED
        BY <2>1, PlainIs
<1>3. Failed(node) \/ Wellformed(node)
    BY <1>2, ObjectOK DEF Consistent
<1>4. Wellformed(back) /\ Open(back, path)
    BY DEF Consistent, Reading
<1> HIDE DEF node
<1>5. ASSUME ~Failed(node) PROVE WithObject(t, back, path, node) /\ ~Failed(t)
    <2>1. WithObject(t, back, path, node)
        BY <1>2, <1>3, <1>4, <1>5, PlacedInTree
    <2> HIDE DEF t
    <2>2. Wellformed(t)
        BY <2>1 DEF WithObject
    <2> QED
        BY <2>1, <2>2, NodesNotFailed
<1>6. ASSUME Failed(node) PROVE Failed(t)
    BY <1>6 DEF Placed, Failed
<1> HIDE DEF t
<1> QED
    BY <1>1, <1>3, <1>4, <1>5, <1>6 DEF node

\* What is left of the listing keeps its places.
LEMMA GetObjectReading ==
    ASSUME Consistent, Reading, NEW path \in listed, GetObject(path)
    PROVE  Reading'
<1> DEFINE node == FromJson(bucket[path])
<1>1. UNCHANGED <<file, bucket>> /\ \A p \in listed : ~Before(p, path)
    BY DEF GetObject
<1>2. ASSUME listed' # {}, Plain(DOMAIN bucket)
      PROVE  ~Failed(back') /\ \A p \in listed' : Open(back', p)
    <2>1. /\ ~Failed(node) =>
                ~Failed(back') /\ ~failed' /\ Wellformed(node) /\ Wellformed(back)
                /\ WithObject(back', back, path, node)
          /\ Failed(node) => listed' = {}
          /\ ~Failed(node) => listed' = listed \ {path}
        BY <1>2, ObjectRead
    <2> HIDE DEF node
    <2>2. ~Failed(back') /\ Wellformed(node) /\ WithObject(back', back, path, node)
          /\ listed' = listed \ {path}
        BY <1>2, <2>1
    <2>3. DOMAIN bucket \subseteq Paths /\ listed \subseteq DOMAIN bucket
        BY DEF Consistent, BucketMade
    <2>4. ASSUME NEW p \in listed' PROVE Open(back', p)
        <3>1. p \in listed /\ p # path /\ p \in DOMAIN bucket /\ path \in DOMAIN bucket /\ ~Before(p, path)
            BY <1>1, <2>2, <2>3
        <3>2. Open(back, p)
            BY <1>2, <3>1 DEF Reading
        <3> QED
            BY <1>2, <2>2, <2>3, <3>1, <3>2, OpenKept
    <2> QED
        BY <2>2, <2>4
<1> QED
    BY <1>1, <1>2 DEF Reading

\* Every step keeps what Reading says.
LEMMA NextReading ==
    ASSUME Consistent, Reading, [Next]_vars
    PROVE  Reading'
<1>1. ASSUME NEW f \in Formats, Save(f) PROVE Reading'
    <2>1. bucket = <<>> /\ UNCHANGED <<bucket, listed>>
        BY <1>1 DEF Save
    <2>2. DOMAIN bucket = {}
        BY <2>1
    <2>3. listed' = {}
        BY <2>1, <2>2 DEF Consistent
    <2> QED
        BY <2>1, <2>2, <2>3 DEF Reading
<1>2. ASSUME NEW f \in Formats, Load(f) PROVE Reading'
    <2>1. UNCHANGED <<file, bucket, queue, listed>> /\ file.format = f
        BY <1>2 DEF Load
    <2>2. DOMAIN bucket = {}
        BY <2>1, NoneIs DEF Reading
    <2>3. listed' = {}
        BY <2>1, <2>2 DEF Consistent
    <2> QED
        BY <2>1, <2>2, <2>3 DEF Reading
<1>3. CASE Upload
    BY <1>3 DEF Upload, Reading
<1>4. ASSUME NEW path \in queue, Put(path) PROVE Reading'
    <2>1. UNCHANGED <<file, listed, back>> /\ DOMAIN bucket \subseteq DOMAIN bucket'
        <3> DEFINE j == ToJson(Alone(tree[path]))
                   throws == Untransposable(tree[path]) \/ Failed(j)
        <3>1. /\ UNCHANGED <<file, listed, back>>
              /\ bucket' = IF throws THEN bucket
                           ELSE [p \in DOMAIN bucket \cup {path} |-> IF p = path THEN j ELSE bucket[p]]
            BY <1>4 DEF Put
        <3> HIDE DEF j, throws
        <3> QED
            BY <3>1
    <2>2. file = None
        BY DEF Consistent
    <2>3. ASSUME Plain(DOMAIN bucket') PROVE Plain(DOMAIN bucket)
        BY <2>1, <2>3, PlainFewer
    <2> QED
        BY <2>1, <2>2, <2>3 DEF Reading
<1>5. CASE PutFails
    BY <1>5 DEF PutFails, Reading
<1>6. CASE ListBucket
    <2>1. listed' = DOMAIN bucket /\ back' = Empty /\ UNCHANGED <<file, bucket>>
        BY <1>6 DEF ListBucket
    <2>2. ASSUME Plain(DOMAIN bucket), NEW p \in DOMAIN bucket PROVE Open(Empty, p)
        <3>1. DOMAIN bucket \subseteq Paths
            BY DEF Consistent, BucketMade
        <3> QED
            BY <2>2, <3>1, PlainIs, OpenFirst
    <2>3. ~Failed(Empty)
        BY EmptyOK, NodesNotFailed
    <2> QED
        BY <2>1, <2>2, <2>3 DEF Reading
<1>7. ASSUME NEW path \in listed, GetObject(path) PROVE Reading'
    BY <1>7, GetObjectReading
<1>8. CASE ReadFails
    <2>1. listed' = {} /\ DOMAIN bucket # {} /\ UNCHANGED <<file, bucket>> /\ back' = Failure
        BY <1>8 DEF ReadFails
    <2> QED
        BY <2>1 DEF Reading
<1>9. CASE Make
    BY <1>9 DEF Make, Reading
<1>10. CASE UNCHANGED vars
    BY <1>10 DEF vars, Reading
<1> QED
    BY <1>1, <1>2, <1>3, <1>4, <1>5, <1>6, <1>7, <1>8, <1>9, <1>10 DEF Next

\* It holds in all states.
LEMMA AlwaysReading == Spec => [](Consistent /\ Reading)
<1>1. Init => Reading
    BY DEF Init, Reading
<1>2. (Consistent /\ Reading) /\ [Next]_vars => (Consistent /\ Reading)'
    BY NextConsistent, NextReading
<1> QED
    BY <1>1, <1>2, InitConsistent, PTL DEF Spec

\* Each object that S3Serializer::read gets adds its own values to the tree and
\* disturbs none, whatever is put between the listing and the reading.
THEOREM ReadsCorrect == Spec => ReadsBucket
<1> DEFINE Step == \A path \in listed :
             GetObject(path) /\ Plain(DOMAIN bucket) =>
               LET node == FromJson(bucket[path])
               IN  ~Failed(node) =>
                     /\ ~failed'
                     /\ Leaves(back') = Leaves(back) \cup Shifted(path, Leaves(node))
<1>1. ASSUME Consistent, Reading, NEW path \in listed, GetObject(path), Plain(DOMAIN bucket)
      PROVE  LET node == FromJson(bucket[path])
             IN  ~Failed(node) =>
                   /\ ~failed'
                   /\ Leaves(back') = Leaves(back) \cup Shifted(path, Leaves(node))
    <2> DEFINE node == FromJson(bucket[path])
               r == back'
    <2>1. ~Failed(node) => ~failed' /\ Wellformed(node) /\ Wellformed(back)
                           /\ WithObject(r, back, path, node)
        BY <1>1, ObjectRead
    <2>2. path \in Paths
        BY <1>1 DEF Consistent, BucketMade
    <2> HIDE DEF node, r
    <2>3. ~Failed(node) => Leaves(r) = Leaves(back) \cup Shifted(path, Leaves(node))
        BY <2>1, <2>2, LeavesJoined
    <2> QED
        BY <2>1, <2>3 DEF node, r
<1>2. Consistent /\ Reading /\ [Next]_vars => [Step]_vars
    BY <1>1
<1> HIDE DEF Step
<1>3. Spec => [][Step]_vars
    BY <1>2, AlwaysReading, PTL DEF Spec
<1> QED
    BY <1>3 DEF ReadsBucket, Step
=============================================================================
