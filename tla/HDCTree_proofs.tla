--------------------------- MODULE HDCTree_proofs ---------------------------
(***************************************************************************)
(* Proofs about the tree of HDC nodes, for every set of keys, every bound  *)
(* on the uuids and every client.                                          *)
(*                                                                         *)
(* The inductive invariant TreeInv says, node by node, that the header     *)
(* agrees with the container and that a STRUCT holds a key once, and of    *)
(* the call in progress that it only names uuids that were drawn.  The     *)
(* node-level lemmas give, for each operator that changes a node, a node   *)
(* that is sound again; the steps of the invariance proof then only have   *)
(* to say where in the storage that node goes.  The second half is about   *)
(* where paths lead: what get(path) comes through node by node, and from   *)
(* it the promises of add_child() and of copy().                           *)
(***************************************************************************)
EXTENDS HDCTree, SequenceLemmas

KeysUnique(kids) == \A i, j \in DOMAIN kids : kids[i].key = kids[j].key => i = j

\* The records of a LIST have indexes for keys.
SliceKeys(nd) == nd.type = "LIST" => \A i \in DOMAIN nd.kids : nd.kids[i].key \in Nat

\* The sound nodes whose records name uuids of D.
SoundNode(D) ==
    {nd \in [type : Type, len : Nat, kids : Seq([key : Selector, addr : D])] :
        /\ nd.len = Len(nd.kids)
        /\ IsTerminal(nd) => nd.kids = <<>>
        /\ nd.type = "STRUCT" => KeysUnique(nd.kids)
        /\ SliceKeys(nd)}

\* What the steps of a recursive call rely on.
CallSound ==
    /\ call \in {Idle} \cup AddCall \cup PruneCall \cup CopyCall
    /\ call.op = "add" => call.at \in Drawn /\ call.child \in Drawn
    /\ call.op = "copy" =>
        \A i \in DOMAIN call.todo :
            /\ call.todo[i].src \in Drawn
            /\ call.todo[i].dst \in live
            /\ store[call.todo[i].dst].type = store[call.todo[i].src].type

TreeInv ==
    /\ next \in 1..(MaxUuid + 1)
    /\ live \subseteq Drawn
    /\ store \in [Uuid -> SoundNode(Drawn)]
    /\ \A u \in Uuid \ live : store[u] = EmptyNode
    /\ CallSound

----------------------------------------------------------------------------
(* Nodes. *)

\* A sound node stays sound when more uuids have been drawn.
LEMMA SoundNodeMonotonic ==
    ASSUME NEW D, NEW E, D \subseteq E, NEW nd \in SoundNode(D)
    PROVE  nd \in SoundNode(E)
<1>1. nd.kids \in Seq([key : Selector, addr : E])
    BY SeqMonotonic DEF SoundNode
<1> QED
    BY <1>1 DEF SoundNode

\* The two nodes without records.
LEMMA LeafSound == \A D : EmptyNode \in SoundNode(D) /\ DataNode \in SoundNode(D)
BY EmptySeq DEF EmptyNode, DataNode, SoundNode, Type, IsTerminal, KeysUnique, SliceKeys

\* The record found for a selector that exists names a uuid of D.
LEMMA GetSingleSound ==
    ASSUME NEW D, NEW nd \in SoundNode(D), NEW sel \in Selector, ExistsSingle(nd, sel)
    PROVE  /\ Position(nd, sel) \in 1..Len(nd.kids)
           /\ GetSingle(nd, sel) \in D
<1>1. Len(nd.kids) \in Nat /\ DOMAIN nd.kids = 1..Len(nd.kids)
    BY LenProperties DEF SoundNode
<1>2. Position(nd, sel) \in 1..Len(nd.kids)
    <2>1. CASE sel \in Nat
        BY <1>1, <2>1 DEF ExistsSingle, Position
    <2>2. CASE sel \notin Nat
        BY <1>1, <2>2 DEF ExistsSingle, Position
    <2> QED
        BY <2>1, <2>2
<1>3. nd.kids[Position(nd, sel)] \in [key : Selector, addr : D]
    BY <1>2, ElementOfSeq DEF SoundNode
<1> QED
    BY <1>2, <1>3 DEF GetSingle

\* The parts of a sound node, for the steps that need no more than that.
LEMMA SoundNodeParts ==
    ASSUME NEW D, NEW nd \in SoundNode(D)
    PROVE  /\ nd \in [type : Type, len : Nat, kids : Seq([key : Selector, addr : D])]
           /\ nd = [type |-> nd.type, len |-> nd.len, kids |-> nd.kids]
           /\ nd.type \in Type /\ nd.len \in Nat
           /\ nd.kids \in Seq([key : Selector, addr : D])
           /\ Len(nd.kids) \in Nat /\ DOMAIN nd.kids = 1..Len(nd.kids)
           /\ nd.len = Len(nd.kids)
           /\ IsTerminal(nd) => nd.kids = <<>>
           /\ nd.type = "STRUCT" => KeysUnique(nd.kids)
           /\ SliceKeys(nd)
BY LenProperties DEF SoundNode

\* set_type() on an EMPTY node, or on a node of the type it asks for.
LEMMA SetTypeOfSound ==
    ASSUME NEW D, NEW nd \in SoundNode(D), NEW type \in {"STRUCT", "LIST"},
           nd.type \in {"EMPTY", type}
    PROVE  SetTypeOf(nd, type) \in SoundNode(D) /\ SetTypeOf(nd, type).type = type
<1>1. CASE nd.type = type
    BY <1>1 DEF SetTypeOf
<1>2. CASE nd.type # type
    <2>1. nd.kids = <<>> /\ nd.len = 0
        BY <1>2, SoundNodeParts, EmptySeq DEF IsTerminal
    <2>2. /\ nd \in [type : Type, len : Nat, kids : Seq([key : Selector, addr : D])]
          /\ nd.len = 0
        BY <2>1, SoundNodeParts
    <2>3. SetTypeOf(nd, type) = [type |-> type, len |-> 0, kids |-> <<>>]
        BY <1>2, <2>2 DEF SetTypeOf
    <2> QED
        BY <2>3, EmptySeq DEF SoundNode, Type, IsTerminal, KeysUnique, SliceKeys
<1> QED
    BY <1>1, <1>2

\* insert() keeps header and container together, and the new slice can be found.
LEMMA InsertedSound ==
    ASSUME NEW D, NEW E, D \subseteq E,
           NEW nd \in SoundNode(D), nd.type \in {"EMPTY", "LIST"},
           NEW index \in Nat, NEW x \in E,
           NEW pad \in Nat, pad..(pad + Padding(nd, index) - 1) \subseteq E
    PROVE  /\ Inserted(nd, index, x, pad) \in SoundNode(E)
           /\ Inserted(nd, index, x, pad).type = "LIST"
           /\ index < Len(Inserted(nd, index, x, pad).kids)
<1> DEFINE R == [key : Nat, addr : E]
           n == Padding(nd, index)
           pads == [i \in 1..n |-> [key |-> nd.len + i - 1, addr |-> pad + i - 1]]
           padded == nd.kids \o pads
           rec == [key |-> index, addr |-> x]
           kids == InsertAt(padded, index + 1, rec)
<1>0. /\ nd.kids \in Seq([key : Selector, addr : D])
      /\ nd.len \in Nat /\ nd.len = Len(nd.kids)
    BY SoundNodeParts
<1>1. n \in Nat /\ index <= nd.len + n
    <2>1. nd.len \in Nat /\ index \in Nat
        BY <1>0
    <2>2. CASE index > nd.len
        BY <2>1, <2>2 DEF Padding
    <2>3. CASE ~(index > nd.len)
        <3>1. n = 0
            BY <2>3 DEF Padding
        <3> HIDE DEF n
        <3> QED
            BY <2>1, <2>3, <3>1
    <2> QED
        BY <2>2, <2>3
<1>2. nd.kids \in Seq(R)
    <2>1. /\ Len(nd.kids) \in Nat /\ DOMAIN nd.kids = 1..Len(nd.kids)
          /\ nd.type = "EMPTY" => nd.kids = <<>>
          /\ SliceKeys(nd)
        BY SoundNodeParts DEF IsTerminal
    <2>2. ASSUME NEW i \in 1..Len(nd.kids) PROVE nd.kids[i] \in R
        <3>1. nd.kids[i] \in [key : Selector, addr : D]
            BY <1>0, <2>1, ElementOfSeq
        <3>2. nd.kids[i].key \in Nat
            BY <2>1, EmptySeq DEF SliceKeys
        <3> QED
            BY <3>1, <3>2
    <2> HIDE DEF R
    <2> QED
        BY <1>0, <2>1, <2>2, SeqOfElements
<1> HIDE DEF n
<1>3. pads \in Seq(R) /\ Len(pads) = n
    <2>1. ASSUME NEW i \in 1..n PROVE pads[i] \in R
        <3>1. nd.len + i - 1 \in Nat
            BY <1>0, <1>1
        <3>2. pad + i - 1 \in E
            BY <1>1 DEF n
        <3> QED
            BY <3>1, <3>2
    <2>2. pads \in [1..n -> R]
        BY <2>1
    <2> HIDE DEF pads, R
    <2> QED
        BY <1>1, <2>2
<1> HIDE DEF pads
<1>4. padded \in Seq(R) /\ Len(padded) = nd.len + n
    <2> HIDE DEF R
    <2>1. padded \in Seq(R) /\ Len(padded) = Len(nd.kids) + Len(pads)
        BY <1>2, <1>3, ConcatProperties
    <2> QED
        BY <1>0, <1>3, <2>1
<1> HIDE DEF padded
<1>5. rec \in R /\ index + 1 \in 1..(Len(padded) + 1)
    BY <1>0, <1>1, <1>4
<1> HIDE DEF rec
<1>6. kids \in Seq(R) /\ Len(kids) = Len(padded) + 1
    <2> HIDE DEF R
    <2> QED
        BY <1>4, <1>5, InsertAtSeq
<1>7. Inserted(nd, index, x, pad) = [type |-> "LIST", len |-> Len(kids), kids |-> kids]
    BY DEF Inserted, pads, padded, n, rec
<1> HIDE DEF kids
<1>8. kids \in Seq([key : Selector, addr : E])
    <2>1. R \subseteq [key : Selector, addr : E]
        BY DEF Selector
    <2> QED
        BY <1>6, <2>1, SeqMonotonic
<1>9. \A i \in DOMAIN kids : kids[i].key \in Nat
    <2>1. DOMAIN kids = 1..Len(kids)
        BY <1>6, LenProperties
    <2>2. \A i \in DOMAIN kids : kids[i] \in R
        <3> HIDE DEF R
        <3> QED
            BY <1>6, <2>1, ElementOfSeq
    <2> QED
        BY <2>2
<1>10. SliceKeys(Inserted(nd, index, x, pad))
    BY <1>7, <1>9 DEF SliceKeys
<1> HIDE DEF R
<1> QED
    BY <1>0, <1>1, <1>4, <1>6, <1>7, <1>8, <1>10 DEF SoundNode, Type, IsTerminal

\* add_child_single() keeps the keys of a STRUCT apart, and the key can be found.
LEMMA AddedSingleSound ==
    ASSUME NEW D, NEW E, D \subseteq E,
           NEW nd \in SoundNode(D), nd.type \in {"EMPTY", "STRUCT"},
           NEW key \in Key, NEW x \in E
    PROVE  /\ AddedSingle(nd, key, x) \in SoundNode(E)
           /\ ExistsSingle(AddedSingle(nd, key, x), key)
<1> DEFINE st == SetTypeOf(nd, "STRUCT")
           rec == [key |-> key, addr |-> x]
           R == [key : Selector, addr : E]
           added == Append(st.kids, rec)
<1>1. st \in SoundNode(E) /\ st.type = "STRUCT"
    BY SetTypeOfSound, SoundNodeMonotonic
<1> HIDE DEF st
<1>2. key \notin Nat /\ key \in Selector
    BY KeyAssumption DEF Selector
<1>3. /\ st = [type |-> "STRUCT", len |-> st.len, kids |-> st.kids]
      /\ st.len = Len(st.kids)
      /\ Len(st.kids) \in Nat /\ DOMAIN st.kids = 1..Len(st.kids)
      /\ st.kids \in Seq(R)
      /\ KeysUnique(st.kids)
    BY <1>1, SoundNodeParts
<1>4. CASE ExistsSingle(st, key)
    <2>1. AddedSingle(nd, key, x) = st
        BY <1>3, <1>4 DEF AddedSingle, st
    <2> QED
        BY <1>1, <1>4, <2>1
<1>5. CASE ~ExistsSingle(st, key)
    <2>1. AddedSingle(nd, key, x) = [type |-> "STRUCT", len |-> Len(added), kids |-> added]
        <3>1. AddedSingle(nd, key, x) = [st EXCEPT !.kids = added, !.len = Len(added)]
            BY <1>5 DEF AddedSingle, st
        <3> HIDE DEF added
        <3>2. st \in [type : Type, len : Nat, kids : Seq(R)]
            BY <1>1, SoundNodeParts
        <3> QED
            BY <1>1, <3>1, <3>2
    <2>2. \A i \in 1..Len(st.kids) : st.kids[i].key # key
        BY <1>1, <1>2, <1>3, <1>5 DEF ExistsSingle, IsTerminal
    <2>3. /\ added \in Seq(R)
          /\ Len(added) = Len(st.kids) + 1
          /\ \A i \in 1..Len(st.kids) : added[i] = st.kids[i]
          /\ added[Len(st.kids) + 1] = rec
          /\ DOMAIN added = 1..Len(added)
        <3>1. rec \in R
            BY <1>2
        <3> QED
            BY <1>3, <3>1, AppendProperties, LenProperties
    <2> HIDE DEF added
    <2>4. KeysUnique(added)
        <3> SUFFICES ASSUME NEW i \in 1..Len(added), NEW j \in 1..Len(added),
                            added[i].key = added[j].key
                     PROVE  i = j
            BY <2>3 DEF KeysUnique
        <3>1. CASE i \in 1..Len(st.kids) /\ j \in 1..Len(st.kids)
            BY <1>3, <2>3, <3>1 DEF KeysUnique
        <3>2. CASE i = Len(added) \/ j = Len(added)
            BY <1>3, <2>2, <2>3, <3>2
        <3> QED
            BY <1>3, <2>3, <3>1, <3>2
    <2>5. AddedSingle(nd, key, x) \in SoundNode(E)
        BY <1>3, <2>1, <2>3, <2>4 DEF SoundNode, Type, IsTerminal, SliceKeys
    <2>6. /\ Len(st.kids) + 1 \in DOMAIN added
          /\ added[Len(st.kids) + 1].key = key
        BY <1>3, <2>3
    <2> QED
        BY <1>2, <2>1, <2>5, <2>6 DEF ExistsSingle, IsTerminal
<1> QED
    BY <1>4, <1>5

\* One level of add_child() that does not throw leaves a sound node, in which the
\* selector can be found.
LEMMA AttachedSound ==
    ASSUME NEW D, NEW E, D \subseteq E,
           NEW nd \in SoundNode(D), NEW sel \in Selector, Accepts(nd, sel),
           NEW x \in E, NEW pad \in Nat,
           pad..(pad + LevelPadding(nd, sel) - 1) \subseteq E
    PROVE  /\ Attached(nd, sel, x, pad) \in SoundNode(E)
           /\ ExistsSingle(Attached(nd, sel, x, pad), sel)
<1>1. CASE sel \notin Nat
    <2>1. sel \in Key /\ nd.type \in {"EMPTY", "STRUCT"}
        BY <1>1 DEF Selector, Accepts
    <2>2. Attached(nd, sel, x, pad) = AddedSingle(nd, sel, x)
        BY <1>1 DEF Attached
    <2>3. /\ AddedSingle(nd, sel, x) \in SoundNode(E)
          /\ ExistsSingle(AddedSingle(nd, sel, x), sel)
        BY <2>1, AddedSingleSound
    <2> QED
        BY <2>2, <2>3
<1>2. CASE sel \in Nat /\ ExistsSingle(nd, sel)
    <2>1. Attached(nd, sel, x, pad) = nd
        BY <1>2 DEF Attached
    <2> QED
        BY <1>2, <2>1, SoundNodeMonotonic
<1>3. CASE sel \in Nat /\ ~ExistsSingle(nd, sel)
    <2>1. nd.type \in {"EMPTY", "LIST"}
        BY <1>3 DEF Accepts
    <2>2. Attached(nd, sel, x, pad) = Inserted(nd, sel, x, pad)
        BY <1>3 DEF Attached
    <2>3. pad..(pad + Padding(nd, sel) - 1) \subseteq E
        BY <1>3 DEF LevelPadding
    <2>4. /\ Inserted(nd, sel, x, pad) \in SoundNode(E)
          /\ Inserted(nd, sel, x, pad).type = "LIST"
          /\ sel < Len(Inserted(nd, sel, x, pad).kids)
        BY <1>3, <2>1, <2>3, InsertedSound
    <2> QED
        BY <1>3, <2>2, <2>4 DEF ExistsSingle, IsTerminal
<1> QED
    BY <1>1, <1>2, <1>3

\* A refused key leaves a sound node.
LEMMA RefusedSound ==
    ASSUME NEW D, NEW nd \in SoundNode(D), NEW sel \in Selector
    PROVE  Refused(nd, sel) \in SoundNode(D)
BY SetTypeOfSound DEF Refused

\* set_child() puts the address of another node of D into a record.
LEMMA RelinkedSound ==
    ASSUME NEW D, NEW nd \in SoundNode(D), NEW sel \in Selector,
           ExistsSingle(nd, sel), NEW x \in D
    PROVE  Relinked(nd, sel, x) \in SoundNode(D)
<1> DEFINE R == [key : Selector, addr : D]
           p == Position(nd, sel)
           rec == [nd.kids[p] EXCEPT !.addr = x]
           kids == [nd.kids EXCEPT ![p] = rec]
<1>1. p \in 1..Len(nd.kids)
    BY GetSingleSound
<1>2. /\ nd \in [type : Type, len : Nat, kids : Seq(R)]
      /\ nd.len = Len(nd.kids)
      /\ nd.type = "STRUCT" => KeysUnique(nd.kids)
      /\ SliceKeys(nd)
      /\ Len(nd.kids) \in Nat /\ DOMAIN nd.kids = 1..Len(nd.kids)
    BY SoundNodeParts
<1>3. ~IsTerminal(nd)
    BY DEF ExistsSingle
<1>4. Relinked(nd, sel, x) = [nd EXCEPT !.kids = kids]
    BY DEF Relinked
<1> HIDE DEF p
<1>5. rec \in R /\ rec.key = nd.kids[p].key
    <2>1. nd.kids[p] \in R
        BY <1>1, <1>2, ElementOfSeq
    <2> QED
        BY <2>1
<1> HIDE DEF rec
<1>6. /\ kids \in Seq(R)
      /\ Len(kids) = Len(nd.kids)
      /\ \A j \in 1..Len(nd.kids) : kids[j] = IF j = p THEN rec ELSE nd.kids[j]
    <2> HIDE DEF R
    <2> QED
        BY <1>1, <1>2, <1>5, ExceptSeq
<1> HIDE DEF kids
<1>7. DOMAIN kids = 1..Len(nd.kids)
    BY <1>6, LenProperties
<1>8. \A j \in 1..Len(nd.kids) : kids[j].key = nd.kids[j].key
    BY <1>5, <1>6
<1>9. nd.type = "STRUCT" => KeysUnique(kids)
    BY <1>2, <1>7, <1>8 DEF KeysUnique
<1> QED
    BY <1>2, <1>3, <1>4, <1>6, <1>7, <1>8, <1>9 DEF SoundNode, IsTerminal, SliceKeys

\* delete_child() erases a record, whichever of equal keys find() returns.
LEMMA ErasedSound ==
    ASSUME NEW D, NEW nd \in SoundNode(D), ~IsTerminal(nd), NEW j \in DOMAIN nd.kids
    PROVE  Erased(nd, j) \in SoundNode(D)
<1> DEFINE R == [key : Selector, addr : D]
           kids == RemoveAt(nd.kids, j)
<1>1. /\ nd \in [type : Type, len : Nat, kids : Seq(R)]
      /\ nd.type = "STRUCT" => KeysUnique(nd.kids)
      /\ SliceKeys(nd)
      /\ Len(nd.kids) \in Nat /\ DOMAIN nd.kids = 1..Len(nd.kids)
    BY SoundNodeParts
<1>2. /\ kids \in Seq(R)
      /\ Len(kids) = Len(nd.kids) - 1
      /\ \A i \in 1..(Len(nd.kids) - 1) :
            kids[i] = IF i < j THEN nd.kids[i] ELSE nd.kids[i + 1]
    <2> HIDE DEF R
    <2> QED
        BY <1>1, RemoveAtSeq
<1>3. Erased(nd, j) = [nd EXCEPT !.kids = kids, !.len = Len(nd.kids) - 1]
    BY DEF Erased
<1> HIDE DEF kids
<1>4. DOMAIN kids = 1..(Len(nd.kids) - 1)
    BY <1>2, LenProperties
<1>5. ASSUME nd.type = "STRUCT" PROVE KeysUnique(kids)
    <2> SUFFICES ASSUME NEW i \in 1..(Len(nd.kids) - 1), NEW k \in 1..(Len(nd.kids) - 1),
                        kids[i].key = kids[k].key
                 PROVE  i = k
        BY <1>4 DEF KeysUnique
    <2> DEFINE old(m) == IF m < j THEN m ELSE m + 1
    <2>1. /\ old(i) \in DOMAIN nd.kids /\ kids[i] = nd.kids[old(i)]
          /\ old(k) \in DOMAIN nd.kids /\ kids[k] = nd.kids[old(k)]
        BY <1>1, <1>2
    <2>2. old(i) = old(k)
        <3> HIDE DEF old
        <3> QED
            BY <1>1, <1>5, <2>1 DEF KeysUnique
    <2>3. i \in Int /\ k \in Int /\ j \in Int
        BY <1>1
    <2> QED
        BY <2>2, <2>3
<1>6. Len(nd.kids) - 1 \in Nat
    BY <1>1
<1>7. \A i \in DOMAIN kids : \E k \in DOMAIN nd.kids : kids[i] = nd.kids[k]
    <2> SUFFICES ASSUME NEW i \in DOMAIN kids
                 PROVE  \E k \in DOMAIN nd.kids : kids[i] = nd.kids[k]
        OBVIOUS
    <2>1. i \in DOMAIN nd.kids /\ i + 1 \in DOMAIN nd.kids
        BY <1>1, <1>4
    <2> QED
        BY <1>2, <1>4, <2>1
<1>8. SliceKeys(Erased(nd, j))
    BY <1>1, <1>3, <1>7 DEF SliceKeys
<1> QED
    BY <1>1, <1>2, <1>3, <1>5, <1>6, <1>8 DEF SoundNode, IsTerminal

\* A node of the copy: the keys of the source in the order of the by_key view.
LEMMA CopiedSound ==
    ASSUME NEW D, NEW E, D \subseteq E,
           NEW nd \in SoundNode(D), NEW from \in SoundNode(D), nd.type = from.type,
           NEW order \in Injection(1..Len(from.kids), 1..Len(from.kids)),
           NEW first \in Nat, first..(first + Len(from.kids) - 1) \subseteq E
    PROVE  [nd EXCEPT !.kids = CopiedKids(from.kids, order, first), !.len = from.len]
                \in SoundNode(E)
<1> DEFINE R == [key : Selector, addr : E]
           n == Len(from.kids)
           kids == CopiedKids(from.kids, order, first)
<1>1. /\ from.kids \in Seq([key : Selector, addr : D])
      /\ from.len = n /\ n \in Nat /\ DOMAIN from.kids = 1..n
      /\ IsTerminal(from) => from.kids = <<>>
      /\ from.type = "STRUCT" => KeysUnique(from.kids)
      /\ SliceKeys(from)
    BY SoundNodeParts
<1>2. /\ \A i \in 1..n : order[i] \in 1..n
      /\ \A i, j \in 1..n : order[i] = order[j] => i = j
    BY DEF Injection, IsInjective
<1>3. ASSUME NEW i \in 1..n
      PROVE  /\ kids[i] \in R
             /\ kids[i].key = from.kids[order[i]].key
    <2>1. kids[i] = [key |-> from.kids[order[i]].key, addr |-> first + i - 1]
        BY DEF CopiedKids
    <2>2. from.kids[order[i]] \in [key : Selector, addr : D]
        BY <1>1, <1>2, ElementOfSeq
    <2>3. first + i - 1 \in first..(first + n - 1)
        BY <1>1
    <2> QED
        BY <2>1, <2>2, <2>3
<1>4. DOMAIN kids = 1..n
    BY DEF CopiedKids
<1>5. kids \in Seq(R) /\ Len(kids) = n
    <2>1. kids \in [1..n -> R]
        <3>1. kids = [i \in 1..n |-> kids[i]]
            BY DEF CopiedKids
        <3> HIDE DEF kids, R
        <3> QED
            BY <1>3, <3>1
    <2> HIDE DEF kids, R, n
    <2> QED
        BY <1>1, <2>1
<1>6. ASSUME nd.type = "STRUCT" PROVE KeysUnique(kids)
    <2> HIDE DEF kids
    <2> QED
        BY <1>1, <1>2, <1>3, <1>4, <1>6 DEF KeysUnique
<1>7. IsTerminal(nd) => kids = <<>>
    <2>1. IsTerminal(nd) => n = 0
        BY <1>1, EmptySeq DEF IsTerminal
    <2> HIDE DEF kids, n, R
    <2> QED
        BY <1>5, <2>1
<1>8. nd \in [type : Type, len : Nat, kids : Seq([key : Selector, addr : D])]
    BY SoundNodeParts
<1> HIDE DEF kids
<1>9. nd.type = "LIST" => \A i \in DOMAIN kids : kids[i].key \in Nat
    BY <1>1, <1>2, <1>3, <1>4 DEF SliceKeys
<1> HIDE DEF n
<1> QED
    BY <1>1, <1>5, <1>6, <1>7, <1>8, <1>9 DEF SoundNode, IsTerminal, SliceKeys, kids

----------------------------------------------------------------------------
(* The invariant. *)

\* n uuids are drawn: they are new, and within the bound.
LEMMA Draw ==
    ASSUME TreeInv, NEW n \in Nat, CanDraw(n), next' = next + n
    PROVE  /\ next' \in 1..(MaxUuid + 1)
           /\ Drawn \subseteq Drawn'
           /\ next..(next + n - 1) \subseteq Drawn'
           /\ Drawn \subseteq Uuid /\ Drawn' \subseteq Uuid
           /\ Drawn \cap next..(next + n - 1) = {}
           /\ \A u \in Uuid : store[u] \in SoundNode(Drawn')
<1>1. next \in 1..(MaxUuid + 1) /\ MaxUuid \in Nat
    BY BoundAssumption DEF TreeInv
<1>2. Drawn \subseteq Drawn'
    BY <1>1 DEF Drawn
<1>3. \A u \in Uuid : store[u] \in SoundNode(Drawn')
    BY <1>2, SoundNodeMonotonic DEF TreeInv
<1> QED
    BY <1>1, <1>3 DEF CanDraw, Drawn, Uuid

\* Between calls nothing is asked of the call variable.
LEMMA IdleSound == call' = Idle => CallSound'
BY DEF CallSound, Idle

\* The kind of the call in progress.
LEMMA CallKinds ==
    ASSUME CallSound
    PROVE  /\ call.op = "add" => call \in AddCall
           /\ call.op = "prune" => call \in PruneCall
           /\ call.op = "copy" => call \in CopyCall
BY DEF CallSound, Idle, AddCall, PruneCall, CopyCall

LEMMA InitInv == Init => TreeInv
<1> SUFFICES ASSUME Init PROVE TreeInv
    OBVIOUS
<1>1. next \in 1..(MaxUuid + 1)
    BY BoundAssumption DEF Init
<1>2. store \in [Uuid -> SoundNode(Drawn)]
    BY LeafSound DEF Init
<1> QED
    BY <1>1, <1>2 DEF Init, TreeInv, CallSound, Idle

LEMMA NewStep == ASSUME TreeInv, New PROVE TreeInv'
<1> USE DEF New
<1>1. /\ next' = next + 1 /\ CanDraw(1)
      /\ next..(next + 1 - 1) = {next}
    BY DEF TreeInv
<1>2. /\ next' \in 1..(MaxUuid + 1)
      /\ Drawn \subseteq Drawn' /\ next \in Drawn' /\ Drawn' \subseteq Uuid
      /\ \A u \in Uuid : store[u] \in SoundNode(Drawn')
    BY <1>1, Draw
<1>3. store' \in [Uuid -> SoundNode(Drawn')]
    BY <1>2 DEF TreeInv
<1>4. CallSound'
    BY IdleSound
<1> QED
    BY <1>2, <1>3, <1>4 DEF TreeInv

\* A step that changes one node, and perhaps adds it to the storage.
LEMMA OneNodeStep ==
    ASSUME TreeInv, NEW u \in Uuid, u \in live', live \subseteq live', live' \subseteq Drawn,
           NEW nd \in SoundNode(Drawn), store' = [store EXCEPT ![u] = nd],
           UNCHANGED next, CallSound'
    PROVE  TreeInv'
<1>1. Drawn' = Drawn
    BY DEF Drawn
<1>2. store' \in [Uuid -> SoundNode(Drawn)]
    BY DEF TreeInv
<1>3. \A v \in Uuid \ live' : store'[v] = EmptyNode
    BY DEF TreeInv
<1> QED
    BY <1>1, <1>2, <1>3 DEF TreeInv

\* What a step may use of a uuid that was drawn.
LEMMA DrawnNode ==
    ASSUME TreeInv, NEW u \in Drawn
    PROVE  u \in Uuid /\ store[u] \in SoundNode(Drawn)
<1>1. u \in Uuid
    BY BoundAssumption DEF TreeInv, Drawn, Uuid
<1> QED
    BY <1>1 DEF TreeInv

LEMMA SetDataStep ==
    ASSUME TreeInv, NEW u \in Drawn, SetArray(u) \/ SetScalar(u)
    PROVE  TreeInv'
<1>1. u \in Uuid /\ DataNode \in SoundNode(Drawn)
    BY DrawnNode, LeafSound
<1>2. call' = Idle /\ UNCHANGED next /\ store' = [store EXCEPT ![u] = DataNode]
    BY DEF SetArray, SetScalar
<1>3. u \in live' /\ live \subseteq live' /\ live' \subseteq Drawn
    BY DEF SetArray, SetScalar, TreeInv
<1> QED
    BY <1>1, <1>2, <1>3, IdleSound, OneNodeStep

LEMMA SetTypeStep ==
    ASSUME TreeInv, NEW u \in Drawn, NEW type \in {"STRUCT", "LIST"}, SetType(u, type)
    PROVE  TreeInv'
<1>1. u \in Uuid /\ store[u] \in SoundNode(Drawn)
    BY DrawnNode
<1>2. SetTypeOf(store[u], type) \in SoundNode(Drawn)
    BY <1>1, SetTypeOfSound DEF SetType
<1>3. /\ call' = Idle /\ UNCHANGED next
      /\ store' = [store EXCEPT ![u] = SetTypeOf(store[u], type)]
    BY DEF SetType
<1>4. u \in live' /\ live \subseteq live' /\ live' \subseteq Drawn
    BY DEF SetType, TreeInv
<1> QED
    BY <1>1, <1>2, <1>3, <1>4, IdleSound, OneNodeStep

LEMMA AssignStep ==
    ASSUME TreeInv, NEW u \in Drawn, NEW v \in Drawn, Assign(u, v)
    PROVE  TreeInv'
<1>1. u \in Uuid /\ store[v] \in SoundNode(Drawn)
    BY DrawnNode
<1>2. call' = Idle /\ UNCHANGED next /\ store' = [store EXCEPT ![u] = store[v]]
    BY DEF Assign
<1>3. u \in live' /\ live \subseteq live' /\ live' \subseteq Drawn
    BY DEF Assign, TreeInv
<1> QED
    BY <1>1, <1>2, <1>3, IdleSound, OneNodeStep

LEMMA SetChildStep ==
    ASSUME TreeInv, NEW u \in Drawn, NEW path \in Paths, NEW n \in Drawn,
           SetChild(u, path, n)
    PROVE  TreeInv'
<1>1. PICK v \in live :
        /\ ExistsSingle(store[v], Last(path))
        /\ store' = [store EXCEPT ![v] = Relinked(store[v], Last(path), n)]
    BY DEF SetChild
<1>2. v \in Drawn
    BY DEF TreeInv
<1>3. v \in Uuid /\ store[v] \in SoundNode(Drawn)
    BY <1>2, DrawnNode
<1>4. Last(path) \in Selector
    BY PathsAssumption, ElementOfSeq, EmptySeq, LenProperties DEF Last
<1>5. Relinked(store[v], Last(path), n) \in SoundNode(Drawn)
    BY <1>1, <1>3, <1>4, RelinkedSound
<1>6. call' = Idle /\ UNCHANGED next /\ live' = live
    BY DEF SetChild
<1> QED
    BY <1>1, <1>3, <1>5, <1>6, IdleSound, OneNodeStep DEF TreeInv

\* A step that changes one node and draws n uuids for new EMPTY nodes.
LEMMA DrawStep ==
    ASSUME TreeInv, NEW n \in Nat, CanDraw(n), next' = next + n,
           live' = live \cup next..(next + n - 1),
           NEW u \in live, NEW nd \in SoundNode(Drawn'), store' = [store EXCEPT ![u] = nd],
           CallSound'
    PROVE  TreeInv'
<1>1. /\ next' \in 1..(MaxUuid + 1)
      /\ live \subseteq Drawn' /\ next..(next + n - 1) \subseteq Drawn'
      /\ Drawn' \subseteq Uuid
      /\ \A v \in Uuid : store[v] \in SoundNode(Drawn')
    BY Draw DEF TreeInv
<1>2. store' \in [Uuid -> SoundNode(Drawn')]
    BY <1>1 DEF TreeInv
<1>3. \A v \in Uuid \ live' : store'[v] = EmptyNode
    BY DEF TreeInv
<1> QED
    BY <1>1, <1>2, <1>3 DEF TreeInv

LEMMA PaddingNat ==
    ASSUME NEW D, NEW nd \in SoundNode(D), NEW sel \in Nat
    PROVE  Padding(nd, sel) \in Nat
<1>1. nd.len \in Nat
    BY SoundNodeParts
<1> QED
    BY <1>1 DEF Padding

LEMMA InsertStep ==
    ASSUME TreeInv, NEW u \in Drawn, NEW index \in Slots, NEW x \in Drawn,
           Insert(u, index, x)
    PROVE  TreeInv'
<1> DEFINE n == Padding(store[u], index)
<1>1. store[u] \in SoundNode(Drawn) /\ index \in Nat
    BY DrawnNode, SlotsAssumption
<1>2. /\ n \in Nat
      /\ CanDraw(n) /\ next' = next + n
      /\ live' = live \cup next..(next + n - 1)
    BY <1>1, PaddingNat DEF Insert
<1>3. /\ u \in live
      /\ store[u].type \in {"EMPTY", "LIST"}
      /\ store' = [store EXCEPT ![u] = Inserted(store[u], index, x, next)]
      /\ call' = Idle
    BY DEF Insert
<1>4. next \in Nat
    BY DEF TreeInv
<1> HIDE DEF n
<1>5. Drawn \subseteq Drawn' /\ next..(next + n - 1) \subseteq Drawn'
    BY <1>2, Draw
<1>6. Inserted(store[u], index, x, next) \in SoundNode(Drawn')
    BY <1>1, <1>3, <1>4, <1>5, InsertedSound DEF n
<1> QED
    BY <1>2, <1>3, <1>6, IdleSound, DrawStep

\* The call record of a new add_child() or get_or_create().
LEMMA NewAddCallSound ==
    ASSUME NEW u \in Uuid, NEW path \in Paths, NEW n \in Uuid
    PROVE  /\ NewAddCall(u, path, n) \in AddCall
           /\ NewAddCall(u, path, n).op = "add"
           /\ NewAddCall(u, path, n).at = u
           /\ NewAddCall(u, path, n).child = n
<1> DEFINE was == IF Exists(u, path) THEN Get(u, path) ELSE Null
<1>1. was \in Uuid \cup {Null}
    BY DEF Exists
<1>2. path \in Seq(Selector) \ {<<>>}
    BY PathsAssumption
<1>3. NewAddCall(u, path, n) =
        [op |-> "add", at |-> u, path |-> path, child |-> n,
         root |-> u, full |-> path, was |-> was]
    BY DEF NewAddCall
<1> HIDE DEF was
<1> QED
    BY <1>1, <1>2, <1>3 DEF AddCall

LEMMA AddChildStep ==
    ASSUME TreeInv, NEW u \in Drawn, NEW path \in Paths, NEW n \in Drawn,
           AddChild(u, path, n)
    PROVE  TreeInv'
<1>1. u \in Uuid /\ n \in Uuid
    BY DrawnNode
<1>2. call' = NewAddCall(u, path, n) /\ UNCHANGED <<store, live, next>>
    BY DEF AddChild
<1>3. Drawn' = Drawn
    BY <1>2 DEF Drawn
<1>4. CallSound'
    BY <1>1, <1>2, <1>3, NewAddCallSound DEF CallSound
<1> QED
    BY <1>2, <1>3, <1>4 DEF TreeInv

LEMMA GetOrCreateStep ==
    ASSUME TreeInv, NEW u \in Drawn, NEW path \in Paths, GetOrCreate(u, path)
    PROVE  TreeInv'
<1>1. /\ CanDraw(1) /\ next' = next + 1
      /\ live' = live \cup {next}
      /\ call' = NewAddCall(u, path, next)
      /\ UNCHANGED store
    BY DEF GetOrCreate
<1>2. next..(next + 1 - 1) = {next}
    BY DEF TreeInv
<1>3. /\ next' \in 1..(MaxUuid + 1)
      /\ Drawn \subseteq Drawn' /\ next \in Drawn' /\ Drawn' \subseteq Uuid
      /\ \A v \in Uuid : store[v] \in SoundNode(Drawn')
    BY <1>1, <1>2, Draw
<1>4. CallSound'
    <2>1. u \in Uuid /\ next \in Uuid /\ u \in Drawn'
        BY <1>3
    <2>2. /\ NewAddCall(u, path, next) \in AddCall
          /\ NewAddCall(u, path, next).op = "add"
          /\ NewAddCall(u, path, next).at = u
          /\ NewAddCall(u, path, next).child = next
        BY <2>1, NewAddCallSound
    <2> QED
        BY <1>1, <1>3, <2>1, <2>2 DEF CallSound
<1> QED
    BY <1>1, <1>3, <1>4 DEF TreeInv

LEMMA AddLevelStep == ASSUME TreeInv, AddLevel PROVE TreeInv'
<1> DEFINE at == call.at
           sel == Head(call.path)
           last == Len(call.path) = 1
           made == IF last THEN 0 ELSE 1
           pads == LevelPadding(store[at], sel)
           n == made + pads
           node == Attached(store[at], sel, Linked, next + made)
<1>1. /\ call.op = "add" /\ at \in live /\ Accepts(store[at], sel)
      /\ CanDraw(n) /\ next' = next + n
      /\ store' = [store EXCEPT ![at] = node]
      /\ live' = live \cup next..(next + n - 1)
      /\ call' = IF last THEN Idle
                 ELSE [call EXCEPT !.at = GetSingle(node, sel), !.path = Tail(call.path)]
    BY DEF AddLevel
<1>2. /\ call \in AddCall /\ at \in Drawn /\ call.child \in Drawn
      /\ next \in Nat
    BY <1>1, CallKinds DEF TreeInv, CallSound
<1>3. /\ call.path \in Seq(Selector) /\ call.path # <<>>
      /\ sel \in Selector
      /\ Len(call.path) \in Nat \ {0}
    BY <1>2, HeadTailProperties, EmptySeq DEF AddCall
<1>4. store[at] \in SoundNode(Drawn)
    BY <1>2, DrawnNode
<1>5. pads \in Nat /\ made \in Nat /\ n \in Nat
    BY <1>4, PaddingNat DEF LevelPadding
<1> HIDE DEF at, sel, pads
<1>6. Drawn \subseteq Drawn' /\ next..(next + n - 1) \subseteq Drawn' /\ Drawn' \subseteq Uuid
    BY <1>1, <1>5, Draw
<1>7. Linked \in Drawn'
    BY <1>2, <1>5, <1>6 DEF Linked
<1>8. next + made \in Nat /\ (next + made)..(next + made + pads - 1) \subseteq Drawn'
    BY <1>2, <1>5, <1>6
<1> HIDE DEF made, n
<1>9. node \in SoundNode(Drawn') /\ ExistsSingle(node, sel)
    BY <1>1, <1>3, <1>4, <1>6, <1>7, <1>8, AttachedSound DEF pads
<1>10. GetSingle(node, sel) \in Drawn'
    BY <1>3, <1>9, GetSingleSound
<1> HIDE DEF node
<1>11. CASE last
    BY <1>1, <1>5, <1>9, <1>11, IdleSound, DrawStep
<1>12. CASE ~last
    <2>1. Tail(call.path) \in Seq(Selector) \ {<<>>}
        <3>1. Tail(call.path) \in Seq(Selector) /\ Len(Tail(call.path)) = Len(call.path) - 1
            BY <1>3, HeadTailProperties
        <3>2. Len(Tail(call.path)) # 0
            BY <1>3, <1>12, <3>1
        <3> QED
            BY <3>1, <3>2, EmptySeq
    <2>2. call' = [call EXCEPT !.at = GetSingle(node, sel), !.path = Tail(call.path)]
        BY <1>1, <1>12
    <2>3. /\ call' \in AddCall /\ call'.op = "add"
          /\ call'.at = GetSingle(node, sel) /\ call'.child = call.child
        BY <1>2, <1>6, <1>10, <2>1, <2>2 DEF AddCall
    <2>4. CallSound'
        BY <1>2, <1>6, <1>10, <2>3 DEF CallSound
    <2> QED
        BY <1>1, <1>5, <1>9, <2>4, DrawStep
<1> QED
    BY <1>11, <1>12

LEMMA AddThrowStep == ASSUME TreeInv, AddThrow PROVE TreeInv'
<1> DEFINE at == call.at
           sel == Head(call.path)
           made == IF Len(call.path) = 1 THEN 0 ELSE 1
<1>1. /\ call.op = "add"
      /\ CanDraw(made) /\ next' = next + made
      /\ store' = IF at \in live THEN [store EXCEPT ![at] = Refused(store[at], sel)]
                  ELSE store
      /\ live' = live \cup next..(next + made - 1)
      /\ call' = Idle
    BY DEF AddThrow
<1>2. call \in AddCall /\ at \in Drawn
    BY <1>1, CallKinds DEF TreeInv, CallSound
<1>3. sel \in Selector
    BY <1>2, HeadTailProperties DEF AddCall
<1>4. made \in Nat
    OBVIOUS
<1>5. store[at] \in SoundNode(Drawn)
    BY <1>2, DrawnNode
<1> HIDE DEF at, sel, made
<1>6. /\ next' \in 1..(MaxUuid + 1)
      /\ Drawn \subseteq Drawn' /\ next..(next + made - 1) \subseteq Drawn'
      /\ \A u \in Uuid : store[u] \in SoundNode(Drawn')
    BY <1>1, <1>4, Draw
<1>7. CASE at \in live
    <2>1. Refused(store[at], sel) \in SoundNode(Drawn')
        BY <1>3, <1>5, <1>6, RefusedSound, SoundNodeMonotonic
    <2>2. store' = [store EXCEPT ![at] = Refused(store[at], sel)]
        BY <1>1, <1>7
    <2> QED
        BY <1>1, <1>4, <1>7, <2>1, <2>2, IdleSound, DrawStep
<1>8. CASE at \notin live
    <2>1. store' = store
        BY <1>1, <1>8
    <2>2. store' \in [Uuid -> SoundNode(Drawn')]
        BY <1>6, <2>1 DEF TreeInv
    <2>3. \A u \in Uuid \ live' : store'[u] = EmptyNode
        BY <1>1, <2>1 DEF TreeInv
    <2>4. live' \subseteq Drawn'
        BY <1>1, <1>6 DEF TreeInv
    <2> QED
        BY <1>1, <1>6, <2>2, <2>3, <2>4, IdleSound DEF TreeInv
<1> QED
    BY <1>7, <1>8

\* The last level of delete_child(), for whatever comes after it.
LEMMA EraseRecordStep ==
    ASSUME TreeInv, NEW v \in live, NEW sel \in Selector, EraseRecord(v, sel),
           UNCHANGED next, CallSound'
    PROVE  TreeInv'
<1> DEFINE addr == GetSingle(store[v], sel)
<1>1. PICK j \in Erasable(store[v], sel) :
        store' = [store EXCEPT ![v] = Erased(store[v], j), ![addr] = EmptyNode]
    BY DEF EraseRecord
<1>2. ExistsSingle(store[v], sel) /\ live' = live \ {addr}
    BY DEF EraseRecord
<1>3. Drawn' = Drawn
    BY DEF Drawn
<1>4. v \in Drawn
    BY DEF TreeInv
<1>5. v \in Uuid /\ store[v] \in SoundNode(Drawn)
    BY <1>4, DrawnNode
<1>6. addr \in Drawn
    BY <1>2, <1>5, GetSingleSound
<1>7. addr \in Uuid
    BY <1>6, DrawnNode
<1> HIDE DEF addr
<1>8. ~IsTerminal(store[v]) /\ j \in DOMAIN store[v].kids
    BY <1>1, <1>2 DEF ExistsSingle, Erasable
<1>9. Erased(store[v], j) \in SoundNode(Drawn) /\ EmptyNode \in SoundNode(Drawn)
    BY <1>5, <1>8, ErasedSound, LeafSound
<1>10. store' \in [Uuid -> SoundNode(Drawn)]
    BY <1>1, <1>5, <1>7, <1>9 DEF TreeInv
<1>11. \A u \in Uuid \ live' : store'[u] = EmptyNode
    BY <1>1, <1>2, <1>5, <1>7 DEF TreeInv
<1> QED
    BY <1>2, <1>3, <1>10, <1>11 DEF TreeInv

\* The elements of the paths the client uses.
LEMMA PathElements ==
    ASSUME NEW path \in Paths
    PROVE  /\ path \in Seq(Selector) /\ path # <<>>
           /\ Len(path) \in Nat \ {0}
           /\ \A i \in 1..Len(path) : path[i] \in Selector
           /\ Last(path) \in Selector
<1>1. path \in Seq(Selector) /\ path # <<>>
    BY PathsAssumption
<1>2. Len(path) \in Nat \ {0}
    BY <1>1, EmptySeq
<1> QED
    BY <1>1, <1>2, ElementOfSeq DEF Last

LEMMA DeleteChildStep ==
    ASSUME TreeInv, NEW u \in Drawn, NEW path \in Paths, NEW prune \in BOOLEAN,
           DeleteChild(u, path, prune)
    PROVE  TreeInv'
<1> DEFINE frame(i) == [at |-> Get(u, SubSeq(path, 1, i - 1)), sel |-> path[i],
                        child |-> Get(u, SubSeq(path, 1, i))]
           frames == [i \in 1..(Len(path) - 1) |-> frame(i)]
<1>1. PICK v \in live : EraseRecord(v, Last(path))
    BY DEF DeleteChild
<1>2. /\ UNCHANGED next
      /\ Exists(u, path)
      /\ call' = IF prune /\ Len(path) > 1
                 THEN [op |-> "prune", root |-> u, full |-> path, frames |-> frames]
                 ELSE Idle
    BY DEF DeleteChild
<1>3. /\ path \in Seq(Selector) /\ path # <<>> /\ Len(path) \in Nat \ {0}
      /\ \A i \in 1..Len(path) : path[i] \in Selector
      /\ Last(path) \in Selector
    BY PathElements
<1>4. CallSound'
    <2>1. CASE prune /\ Len(path) > 1
        <3>1. \A i \in 0..(Len(path) - 1) : Get(u, SubSeq(path, 1, i)) \in Uuid
            BY <1>2, DrawnNode DEF Exists, TreeInv
        <3>2. ASSUME NEW i \in 1..(Len(path) - 1) PROVE frame(i) \in Frame
            <4>1. i - 1 \in 0..(Len(path) - 1) /\ i \in 0..(Len(path) - 1)
                BY <1>3
            <4>2. i \in 1..Len(path)
                BY <1>3
            <4> QED
                BY <1>3, <3>1, <4>1, <4>2 DEF Frame
        <3> HIDE DEF frame
        <3>3. frames \in [1..(Len(path) - 1) -> Frame]
            BY <3>2
        <3>4. frames \in Seq(Frame) /\ Len(frames) = Len(path) - 1
            <4> HIDE DEF frames
            <4> QED
                BY <1>3, <2>1, <3>3
        <3>5. frames # <<>>
            <4> HIDE DEF frames
            <4>1. Len(frames) # 0
                BY <1>3, <2>1, <3>4
            <4> QED
                BY <4>1, EmptySeq
        <3>6. u \in Uuid
            BY DrawnNode
        <3> HIDE DEF frames
        <3>7. call' \in PruneCall /\ call'.op = "prune"
            BY <1>2, <1>3, <2>1, <3>4, <3>5, <3>6 DEF PruneCall
        <3> QED
            BY <3>7 DEF CallSound
    <2>2. CASE ~(prune /\ Len(path) > 1)
        BY <1>2, <2>2, IdleSound
    <2> QED
        BY <2>1, <2>2
<1> QED
    BY <1>1, <1>2, <1>3, <1>4, EraseRecordStep

\* A frame is left: the calls of the other frames stay as they were.
LEMMA ReturnedSound ==
    ASSUME TreeInv, call.op = "prune", call' = Returned
    PROVE  CallSound'
<1>1. call \in PruneCall
    BY CallKinds DEF TreeInv
<1>2. CASE Len(call.frames) = 1
    BY <1>2, IdleSound DEF Returned
<1>3. CASE Len(call.frames) # 1
    <2>1. call.frames \in Seq(Frame) /\ call.frames # <<>>
        BY <1>1 DEF PruneCall
    <2>2. Len(call.frames) \in Nat \ {0}
        BY <2>1, EmptySeq
    <2>3. Front(call.frames) \in Seq(Frame) /\ Len(Front(call.frames)) = Len(call.frames) - 1
        BY <2>1, <2>2, SubSeqProperties, ElementOfSeq DEF Front
    <2>4. Len(Front(call.frames)) # 0
        BY <1>3, <2>2, <2>3
    <2>5. Front(call.frames) # <<>>
        BY <2>4, EmptySeq
    <2>6. call' = [call EXCEPT !.frames = Front(call.frames)]
        BY <1>3 DEF Returned
    <2>7. call' \in PruneCall /\ call'.op = "prune"
        BY <1>1, <2>3, <2>5, <2>6 DEF PruneCall
    <2> QED
        BY <2>7 DEF CallSound
<1> QED
    BY <1>2, <1>3

LEMMA PruneStep == ASSUME TreeInv, Prune PROVE TreeInv'
<1> DEFINE f == Last(call.frames)
<1>1. /\ call.op = "prune" /\ call' = Returned /\ UNCHANGED next
      /\ PruneSound(f)
    BY DEF Prune
<1>2. CallSound'
    BY <1>1, ReturnedSound
<1>3. CASE ~HasChildren(store[f.child]) /\ ExistsSingle(store[f.at], f.sel)
    <2>1. f.at \in live
        BY <1>1, <1>3 DEF PruneSound
    <2>2. EraseRecord(f.at, f.sel)
        BY <1>3 DEF Prune
    <2>3. call.frames \in Seq(Frame) /\ call.frames # <<>>
        BY <1>1, CallKinds DEF TreeInv, PruneCall
    <2>4. Len(call.frames) \in Nat \ {0}
        BY <2>3, EmptySeq
    <2>5. f \in Frame
        BY <2>3, <2>4, ElementOfSeq DEF Last
    <2>6. f.sel \in Selector
        BY <2>5 DEF Frame
    <2> HIDE DEF f
    <2> QED
        BY <1>1, <1>2, <2>1, <2>2, <2>6, EraseRecordStep
<1>4. CASE ~(~HasChildren(store[f.child]) /\ ExistsSingle(store[f.at], f.sel))
    <2>1. UNCHANGED <<store, live>>
        BY <1>4 DEF Prune
    <2>2. Drawn' = Drawn
        BY <1>1 DEF Drawn
    <2> QED
        BY <1>1, <1>2, <2>1, <2>2 DEF TreeInv
<1> QED
    BY <1>3, <1>4

LEMMA PruneThrowStep == ASSUME TreeInv, PruneThrow PROVE TreeInv'
<1>1. call' = Idle /\ UNCHANGED <<store, live, next>>
    BY DEF PruneThrow
<1>2. Drawn' = Drawn
    BY <1>1 DEF Drawn
<1> QED
    BY <1>1, <1>2, IdleSound DEF TreeInv

LEMMA CleanStep == ASSUME TreeInv, NEW u \in Drawn, Clean(u) PROVE TreeInv'
<1> DEFINE gone == Children(u) \cup {u}
<1>1. /\ live' = live \ gone
      /\ store' = [v \in Uuid |-> IF v \in gone THEN EmptyNode ELSE store[v]]
      /\ call' = Idle /\ UNCHANGED next
    BY DEF Clean
<1> HIDE DEF gone
<1>2. Drawn' = Drawn
    BY <1>1 DEF Drawn
<1>3. store' \in [Uuid -> SoundNode(Drawn)]
    BY <1>1, LeafSound DEF TreeInv
<1>4. \A v \in Uuid \ live' : store'[v] = EmptyNode
    BY <1>1 DEF TreeInv
<1> QED
    BY <1>1, <1>2, <1>3, <1>4, IdleSound DEF TreeInv

\* A step that draws one uuid for a node with given contents.
LEMMA FreshNodeStep ==
    ASSUME TreeInv, CanDraw(1), next' = next + 1, live' = live \cup {next},
           NEW nd \in SoundNode(Drawn), store' = [store EXCEPT ![next] = nd],
           CallSound'
    PROVE  TreeInv'
<1>1. next..(next + 1 - 1) = {next}
    BY DEF TreeInv
<1>2. /\ next' \in 1..(MaxUuid + 1)
      /\ Drawn \subseteq Drawn' /\ next \in Drawn' /\ Drawn' \subseteq Uuid
      /\ \A u \in Uuid : store[u] \in SoundNode(Drawn')
    BY <1>1, Draw
<1>3. nd \in SoundNode(Drawn')
    BY <1>2, SoundNodeMonotonic
<1>4. store' \in [Uuid -> SoundNode(Drawn')]
    BY <1>2, <1>3 DEF TreeInv
<1>5. \A u \in Uuid \ live' : store'[u] = EmptyNode
    BY DEF TreeInv
<1> QED
    BY <1>2, <1>4, <1>5 DEF TreeInv

LEMMA CopyBufferStep == ASSUME TreeInv, NEW u \in Drawn, CopyBuffer(u) PROVE TreeInv'
<1>1. /\ CanDraw(1) /\ next' = next + 1 /\ live' = live \cup {next}
      /\ store' = [store EXCEPT ![next] = store[u]]
      /\ call' = Idle
    BY DEF CopyBuffer
<1> QED
    BY <1>1, DrawnNode, IdleSound, FreshNodeStep

\* A node of the copy before its children are copied.
LEMMA TypedNodeSound ==
    ASSUME NEW D, NEW type \in Type
    PROVE  /\ [EmptyNode EXCEPT !.type = type] \in SoundNode(D)
           /\ [EmptyNode EXCEPT !.type = type].type = type
<1>1. [EmptyNode EXCEPT !.type = type] = [type |-> type, len |-> 0, kids |-> <<>>]
    BY DEF EmptyNode
<1>2. [type |-> type, len |-> 0, kids |-> <<>>] \in SoundNode(D)
    BY EmptySeq DEF SoundNode, IsTerminal, KeysUnique, SliceKeys
<1> QED
    BY <1>1, <1>2

LEMMA CopyTreeStep == ASSUME TreeInv, NEW u \in Drawn, CopyTree(u) PROVE TreeInv'
<1> DEFINE nd == [EmptyNode EXCEPT !.type = store[u].type]
           job == [src |-> u, dst |-> next]
<1>1. /\ CanDraw(1) /\ next' = next + 1 /\ live' = live \cup {next}
      /\ store' = [store EXCEPT ![next] = nd]
      /\ call' = [op |-> "copy", from |-> u, to |-> next, todo |-> <<job>>]
    BY DEF CopyTree
<1>2. store[u] \in SoundNode(Drawn) /\ u \in Uuid
    BY DrawnNode
<1>3. store[u].type \in Type
    BY <1>2, SoundNodeParts
<1>4. nd \in SoundNode(Drawn) /\ nd.type = store[u].type
    BY <1>3, TypedNodeSound
<1> HIDE DEF nd
<1>5. next..(next + 1 - 1) = {next}
    BY DEF TreeInv
<1>6. /\ Drawn \subseteq Drawn' /\ next \in Drawn' /\ Drawn' \subseteq Uuid
      /\ u # next
    BY <1>1, <1>5, Draw
<1>7. CallSound'
    <2>1. job \in [src : Uuid, dst : Uuid]
        BY <1>2, <1>6
    <2>2. /\ <<job>> \in Seq([src : Uuid, dst : Uuid]) \ {<<>>}
          /\ DOMAIN <<job>> = {1} /\ <<job>>[1] = job
        <3> HIDE DEF job
        <3> QED
            BY <2>1
    <2>3. /\ call' \in CopyCall /\ call'.op = "copy" /\ call'.todo = <<job>>
        BY <1>1, <1>2, <1>6, <2>2 DEF CopyCall
    <2>4. store'[next].type = store'[u].type
        BY <1>1, <1>2, <1>4, <1>6 DEF TreeInv
    <2>5. /\ job.src \in Drawn' /\ job.dst \in live'
          /\ store'[job.dst].type = store'[job.src].type
        BY <1>1, <1>6, <2>4
    <2> HIDE DEF job
    <2> QED
        BY <2>2, <2>3, <2>5 DEF CallSound
<1> QED
    BY <1>1, <1>4, <1>7, FreshNodeStep

LEMMA CopyChildrenStep == ASSUME TreeInv, CopyChildren PROVE TreeInv'
<1> DEFINE job == Head(call.todo)
           from == store[job.src]
           n == Len(from.kids)
           IsNew(v) == v \in next..(next + n - 1)
           src(i, order) == from.kids[order[i]].addr
           jobs(order) == [i \in 1..n |-> [src |-> src(i, order), dst |-> next + i - 1]]
           copied(order) == [store[job.dst] EXCEPT !.kids = CopiedKids(from.kids, order, next),
                                                   !.len = from.len]
           fresh(v, order) == [EmptyNode EXCEPT !.type = store[src(v - next + 1, order)].type]
           todo(order) == Tail(call.todo) \o jobs(order)
<1>1. PICK order \in Injection(1..n, 1..n) :
        /\ store' = [v \in Uuid |-> IF v = job.dst THEN copied(order)
                                    ELSE IF IsNew(v) THEN fresh(v, order) ELSE store[v]]
        /\ call' = IF todo(order) = <<>> THEN Idle ELSE [call EXCEPT !.todo = todo(order)]
    BY DEF CopyChildren
<1>2. /\ call.op = "copy"
      /\ CanDraw(n) /\ next' = next + n
      /\ live' = live \cup next..(next + n - 1)
    BY DEF CopyChildren
<1>3. call \in CopyCall /\ CallSound
    BY <1>2, CallKinds DEF TreeInv
<1>4. /\ call.todo \in Seq([src : Uuid, dst : Uuid]) /\ call.todo # <<>>
      /\ Len(call.todo) \in Nat \ {0} /\ DOMAIN call.todo = 1..Len(call.todo)
    BY <1>3, EmptySeq, LenProperties DEF CopyCall
<1>5. /\ job = call.todo[1] /\ 1 \in DOMAIN call.todo
    BY <1>4
<1>6. /\ job.src \in Drawn /\ job.dst \in live
      /\ store[job.dst].type = from.type
    BY <1>2, <1>3, <1>5 DEF CallSound
<1>7. job.dst \in Drawn
    BY <1>6 DEF TreeInv
<1>8. /\ job.src \in Uuid /\ job.dst \in Uuid
      /\ from \in SoundNode(Drawn) /\ store[job.dst] \in SoundNode(Drawn)
    BY <1>6, <1>7, DrawnNode
<1> HIDE DEF job
<1>9. /\ n \in Nat /\ next \in Nat
      /\ from.kids \in Seq([key : Selector, addr : Drawn])
    <2>1. next \in Nat
        BY DEF TreeInv
    <2> QED
        BY <1>8, <2>1, SoundNodeParts
<1> HIDE DEF from
<1>10. /\ next' \in 1..(MaxUuid + 1)
       /\ Drawn \subseteq Drawn' /\ next..(next + n - 1) \subseteq Drawn'
       /\ Drawn' \subseteq Uuid
       /\ Drawn \cap next..(next + n - 1) = {}
       /\ \A u \in Uuid : store[u] \in SoundNode(Drawn')
    BY <1>2, <1>9, Draw
<1>11. ASSUME NEW i \in 1..n PROVE src(i, order) \in Drawn
    <2>1. order[i] \in 1..n
        BY DEF Injection
    <2>2. from.kids[order[i]] \in [key : Selector, addr : Drawn]
        BY <1>9, <2>1, ElementOfSeq
    <2> QED
        BY <2>2
<1> HIDE DEF src
<1>12. copied(order) \in SoundNode(Drawn') /\ copied(order).type = from.type
    <2>1. copied(order) \in SoundNode(Drawn')
        BY <1>6, <1>8, <1>9, <1>10, CopiedSound
    <2>2. store[job.dst] = [type |-> store[job.dst].type, len |-> store[job.dst].len,
                            kids |-> store[job.dst].kids]
        BY <1>8, SoundNodeParts
    <2>3. copied(order).type = store[job.dst].type
        BY <2>2
    <2> QED
        BY <1>6, <2>1, <2>3
<1> HIDE DEF copied
<1>13. ASSUME NEW v, IsNew(v)
       PROVE  /\ fresh(v, order) \in SoundNode(Drawn')
              /\ fresh(v, order).type = store[src(v - next + 1, order)].type
    <2>1. v - next + 1 \in 1..n
        BY <1>9, <1>13
    <2>2. store[src(v - next + 1, order)] \in SoundNode(Drawn)
        BY <1>11, <2>1, DrawnNode
    <2>3. store[src(v - next + 1, order)].type \in Type
        BY <2>2, SoundNodeParts
    <2> QED
        BY <2>3, TypedNodeSound
<1> HIDE DEF fresh
<1>14. store' \in [Uuid -> SoundNode(Drawn')]
    BY <1>1, <1>10, <1>12, <1>13
<1>15. \A u \in Uuid \ live' : store'[u] = EmptyNode
    BY <1>1, <1>2, <1>6 DEF TreeInv
<1>16. live' \subseteq Drawn'
    BY <1>2, <1>10 DEF TreeInv
\* The types of the nodes there were stay as they were.
<1>17. \A u \in Drawn : store'[u].type = store[u].type
    BY <1>1, <1>6, <1>10, <1>12
<1>18. ASSUME NEW i \in 1..n
       PROVE  /\ src(i, order) \in Drawn' /\ next + i - 1 \in live'
              /\ src(i, order) \in Uuid /\ next + i - 1 \in Uuid
              /\ store'[next + i - 1].type = store'[src(i, order)].type
    <2> DEFINE v == next + i - 1
    <2>1. IsNew(v) /\ v - next + 1 = i
        BY <1>9
    <2> HIDE DEF v
    <2>2. v \in live' /\ v \in Uuid /\ v # job.dst
        BY <1>2, <1>7, <1>10, <2>1
    <2>3. src(i, order) \in Drawn /\ src(i, order) \in Drawn' /\ src(i, order) \in Uuid
        BY <1>10, <1>11
    <2>4. store'[v] = fresh(v, order)
        BY <1>1, <2>1, <2>2
    <2>5. store'[v].type = store[src(i, order)].type
        BY <1>13, <2>1, <2>4
    <2> QED
        BY <1>17, <2>2, <2>3, <2>5 DEF v
<1> HIDE DEF IsNew
<1>19. /\ Tail(call.todo) \in Seq([src : Uuid, dst : Uuid])
       /\ Len(Tail(call.todo)) = Len(call.todo) - 1
       /\ \A i \in 1..Len(Tail(call.todo)) : Tail(call.todo)[i] = call.todo[i + 1]
    BY <1>4, HeadTailProperties
<1>20. /\ jobs(order) \in Seq([src : Uuid, dst : Uuid]) /\ Len(jobs(order)) = n
       /\ \A i \in 1..n : jobs(order)[i] = [src |-> src(i, order), dst |-> next + i - 1]
    <2>1. jobs(order) \in [1..n -> [src : Uuid, dst : Uuid]]
        BY <1>18
    <2>2. \A i \in 1..n : jobs(order)[i] = [src |-> src(i, order), dst |-> next + i - 1]
        OBVIOUS
    <2> HIDE DEF jobs, n
    <2>3. jobs(order) \in Seq([src : Uuid, dst : Uuid]) /\ Len(jobs(order)) = n
        BY <1>9, <2>1, FunctionIsSeq
    <2> QED
        BY <2>2, <2>3
<1> HIDE DEF jobs, n
<1>21. /\ todo(order) \in Seq([src : Uuid, dst : Uuid])
       /\ Len(todo(order)) = Len(Tail(call.todo)) + n
       /\ \A i \in 1..(Len(Tail(call.todo)) + n) :
            todo(order)[i] = IF i <= Len(Tail(call.todo)) THEN Tail(call.todo)[i]
                             ELSE jobs(order)[i - Len(Tail(call.todo))]
    BY <1>19, <1>20, ConcatProperties
<1> HIDE DEF todo
<1>22. ASSUME NEW i \in DOMAIN todo(order)
       PROVE  /\ todo(order)[i].src \in Drawn'
              /\ todo(order)[i].dst \in live'
              /\ store'[todo(order)[i].dst].type = store'[todo(order)[i].src].type
    <2>0. DOMAIN todo(order) = 1..(Len(Tail(call.todo)) + n)
        BY <1>21, LenProperties
    <2>1. i \in 1..(Len(Tail(call.todo)) + n) /\ Len(Tail(call.todo)) \in Nat
        BY <1>4, <1>19, <2>0
    <2>2. CASE i <= Len(Tail(call.todo))
        <3>1. i + 1 \in DOMAIN call.todo /\ todo(order)[i] = call.todo[i + 1]
            BY <1>4, <1>19, <1>21, <2>1, <2>2
        <3>2. /\ call.todo[i + 1].src \in Drawn /\ call.todo[i + 1].dst \in live
              /\ store[call.todo[i + 1].dst].type = store[call.todo[i + 1].src].type
            BY <1>2, <1>3, <3>1 DEF CallSound
        <3>3. call.todo[i + 1].dst \in Drawn
            BY <3>2 DEF TreeInv
        <3> QED
            BY <1>2, <1>10, <1>17, <3>1, <3>2, <3>3
    <2>3. CASE ~(i <= Len(Tail(call.todo)))
        <3> DEFINE k == i - Len(Tail(call.todo))
        <3>1. k \in 1..n
            BY <1>9, <2>1, <2>3
        <3>2. todo(order)[i] = jobs(order)[k]
            BY <1>21, <2>1, <2>3
        <3> HIDE DEF k
        <3>3. todo(order)[i] = [src |-> src(k, order), dst |-> next + k - 1]
            BY <1>20, <3>1, <3>2
        <3> QED
            BY <1>18, <3>1, <3>3
    <2> QED
        BY <2>2, <2>3
<1>23. CallSound'
    <2>1. CASE todo(order) = <<>>
        BY <1>1, <2>1, IdleSound
    <2>2. CASE todo(order) # <<>>
        <3>1. call' = [call EXCEPT !.todo = todo(order)]
            BY <1>1, <2>2
        <3>2. call' \in CopyCall /\ call'.op = "copy" /\ call'.todo = todo(order)
            BY <1>3, <1>21, <2>2, <3>1 DEF CopyCall
        <3> QED
            BY <1>22, <3>2 DEF CallSound
    <2> QED
        BY <2>1, <2>2
<1> QED
    BY <1>10, <1>14, <1>15, <1>16, <1>23 DEF TreeInv

LEMMA NextInv == TreeInv /\ [Next]_vars => TreeInv'
<1> SUFFICES ASSUME TreeInv, [Next]_vars PROVE TreeInv'
    OBVIOUS
<1>1. CASE New
    BY <1>1, NewStep
<1>2. CASE AddLevel
    BY <1>2, AddLevelStep
<1>3. CASE AddThrow
    BY <1>3, AddThrowStep
<1>4. CASE Prune
    BY <1>4, PruneStep
<1>5. CASE PruneThrow
    BY <1>5, PruneThrowStep
<1>6. CASE CopyChildren
    BY <1>6, CopyChildrenStep
<1>7. ASSUME NEW u \in Drawn, SetArray(u) \/ SetScalar(u) PROVE TreeInv'
    BY <1>7, SetDataStep
<1>8. ASSUME NEW u \in Drawn, NEW type \in {"STRUCT", "LIST"}, SetType(u, type)
      PROVE  TreeInv'
    BY <1>8, SetTypeStep
<1>9. ASSUME NEW u \in Drawn, NEW path \in Paths, GetOrCreate(u, path) PROVE TreeInv'
    BY <1>9, GetOrCreateStep
<1>10. ASSUME NEW u \in Drawn, NEW path \in Paths, NEW n \in Drawn, AddChild(u, path, n)
       PROVE  TreeInv'
    BY <1>10, AddChildStep
<1>11. ASSUME NEW u \in Drawn, NEW path \in Paths, NEW n \in Drawn, SetChild(u, path, n)
       PROVE  TreeInv'
    BY <1>11, SetChildStep
<1>12. ASSUME NEW u \in Drawn, NEW index \in Slots, NEW n \in Drawn, Insert(u, index, n)
       PROVE  TreeInv'
    BY <1>12, InsertStep
<1>13. ASSUME NEW u \in Drawn, NEW path \in Paths, NEW prune \in BOOLEAN,
              DeleteChild(u, path, prune)
       PROVE  TreeInv'
    BY <1>13, DeleteChildStep
<1>14. ASSUME NEW u \in Drawn, Clean(u) PROVE TreeInv'
    BY <1>14, CleanStep
<1>15. ASSUME NEW u \in Drawn, NEW v \in Drawn, Assign(u, v) PROVE TreeInv'
    BY <1>15, AssignStep
<1>16. ASSUME NEW u \in Drawn, CopyBuffer(u) PROVE TreeInv'
    BY <1>16, CopyBufferStep
<1>17. ASSUME NEW u \in Drawn, CopyTree(u) PROVE TreeInv'
    BY <1>17, CopyTreeStep
<1>18. CASE UNCHANGED vars
    BY <1>18 DEF vars, TreeInv, CallSound, Drawn
<1> QED
    BY <1>1, <1>2, <1>3, <1>4, <1>5, <1>6, <1>7, <1>8, <1>9, <1>10, <1>11, <1>12,
       <1>13, <1>14, <1>15, <1>16, <1>17, <1>18 DEF Next

\* The inductive invariant holds in every state of every behaviour.
THEOREM Invariance == Spec => []TreeInv
BY InitInv, NextInv, PTL DEF Spec

----------------------------------------------------------------------------
(* What follows from it. *)

\* Every variable has its type, and no record, call or entry of the storage names a
\* uuid that was never drawn (hdc.cpp: every operation that changes the tree).
THEOREM TypeCorrect == Spec => []TypeOK
<1>1. TreeInv => TypeOK
    <2> SUFFICES ASSUME TreeInv PROVE TypeOK
        OBVIOUS
    <2>1. Drawn \subseteq Uuid
        BY BoundAssumption DEF TreeInv, Drawn, Uuid
    <2>2. ASSUME NEW u \in Uuid PROVE store[u] \in Node
        <3>1. store[u] \in SoundNode(Uuid)
            BY <2>1, SoundNodeMonotonic DEF TreeInv
        <3> QED
            BY <3>1 DEF SoundNode, Node, Record
    <2>3. store \in [Uuid -> Node]
        BY <2>2 DEF TreeInv
    <2>4. ASSUME NEW u \in live PROVE Children(u) \subseteq Drawn
        <3>1. store[u] \in SoundNode(Drawn)
            BY DrawnNode DEF TreeInv
        <3>2. /\ store[u].kids \in Seq([key : Selector, addr : Drawn])
              /\ DOMAIN store[u].kids = 1..Len(store[u].kids)
            BY <3>1, SoundNodeParts
        <3>3. ASSUME NEW i \in DOMAIN store[u].kids PROVE store[u].kids[i].addr \in Drawn
            <4>1. store[u].kids[i] \in [key : Selector, addr : Drawn]
                BY <3>2, ElementOfSeq
            <4> QED
                BY <4>1
        <3> QED
            BY <3>3 DEF Children, Names
    <2> QED
        BY <2>3, <2>4 DEF TreeInv, CallSound, TypeOK
<1> QED
    BY Invariance, <1>1, PTL

\* shape[0] is the number of records of every STRUCT and LIST: insert() and append(),
\* which take their position from shape[0] (hdc.cpp:1094-1116, 1142), stay within
\* the container, whatever calls came before, half-done ones included.
THEOREM HeaderCorrect == Spec => []HeaderMatchesChildren
<1>1. TreeInv => HeaderMatchesChildren
    BY DrawnNode, SoundNodeParts DEF HeaderMatchesChildren, TreeInv
<1> QED
    BY Invariance, <1>1, PTL

\* No STRUCT holds a key twice (hdc_map.h:133-151), in shared and cyclic graphs too.
THEOREM KeysCorrect == Spec => []StructKeysUnique
<1>1. TreeInv => StructKeysUnique
    <2> SUFFICES ASSUME TreeInv, NEW u \in live, store[u].type = "STRUCT"
                 PROVE  KeysUnique(store[u].kids)
        BY DEF StructKeysUnique, KeysUnique
    <2>1. store[u] \in SoundNode(Drawn)
        BY DrawnNode DEF TreeInv
    <2> QED
        BY <2>1, SoundNodeParts
<1> QED
    BY Invariance, <1>1, PTL

----------------------------------------------------------------------------
(* The walk along a path. *)

\* A storage whose records lead to uuids, whatever has an entry in it.
Stores == [Uuid -> SoundNode(Uuid)]

\* One step of get_single() on the way: where the selector leads from x.
Hop(st, lv, x, sel) ==
    IF x \in lv /\ ExistsSingle(st[x], sel) THEN GetSingle(st[x], sel) ELSE Null

LEMMA HopType ==
    ASSUME NEW st \in Stores, NEW lv \in SUBSET Uuid, NEW x, NEW sel \in Selector
    PROVE  Hop(st, lv, x, sel) \in Uuid \cup {Null}
BY GetSingleSound DEF Hop, Stores

\* The walk starts at u and takes one hop for each selector.
Follows(at, st, lv, u, path) ==
    /\ at \in [0..Len(path) -> Uuid \cup {Null}]
    /\ at[0] = u
    /\ \A i \in 1..Len(path) : at[i] = Hop(st, lv, at[i-1], path[i])

LEMMA WalkSteps ==
    ASSUME NEW st \in Stores, NEW lv \in SUBSET Uuid, NEW u \in Uuid,
           NEW path \in Seq(Selector)
    PROVE  Follows(Walk(st, lv, u, path), st, lv, u, path)
<1> DEFINE n == Len(path)
           T == Uuid \cup {Null}
           F == [i \in 1..n |-> [x \in T |-> Hop(st, lv, x, path[i])]]
           Body(f) == [i \in 0..n |-> IF i = 0 THEN u ELSE Hop(st, lv, f[i-1], path[i])]
           at == Walk(st, lv, u, path)
<1>1. n \in Nat /\ u \in T
    BY LenProperties
<1>2. F \in [1..n -> [T -> T]]
    <2>1. \A i \in 1..n : path[i] \in Selector
        BY ElementOfSeq
    <2> QED
        BY <2>1, HopType
<1>3. PICK f \in [0..n -> T] : f[0] = u /\ \A i \in 1..n : f[i] = F[i][f[i-1]]
    <2> HIDE DEF F, n, T
    <2>1. Recurs(n, T, u, F)
        BY <1>1, <1>2, BoundedRecursion
    <2> QED
        BY <2>1 DEF Recurs
<1>4. ASSUME NEW i \in 1..n PROVE f[i] = Hop(st, lv, f[i-1], path[i])
    <2>1. i - 1 \in 0..n
        BY <1>1
    <2>2. f[i-1] \in T
        BY <2>1
    <2>3. F[i] = [x \in T |-> Hop(st, lv, x, path[i])]
        OBVIOUS
    <2> HIDE DEF F, n, T
    <2> QED
        BY <1>3, <2>2, <2>3
<1>5. f = Body(f)
    <2>1. \A i \in 0..n : i = 0 \/ i \in 1..n
        BY <1>1
    <2>2. \A i \in 0..n : f[i] = Body(f)[i]
        <3> HIDE DEF n
        <3> QED
            BY <1>3, <1>4, <2>1
    <2>3. DOMAIN f = 0..n /\ f = [i \in 0..n |-> f[i]]
        OBVIOUS
    <2> QED
        BY <2>2, <2>3
<1>6. at = CHOOSE g : g = Body(g)
    BY DEF Walk, Hop
<1>7. at = Body(at)
    <2> HIDE DEF Body
    <2> QED
        BY <1>5, <1>6
<1>8. at[0] = u
    <2>1. 0 \in 0..n
        BY <1>1
    <2> HIDE DEF n, at
    <2> QED
        BY <1>7, <2>1
<1>9. ASSUME NEW i \in 1..n PROVE at[i] = Hop(st, lv, at[i-1], path[i])
    <2>1. i \in 0..n /\ i # 0
        BY <1>1
    <2> HIDE DEF n, at
    <2> QED
        BY <1>7, <2>1
<1>10. at \in [0..n -> T]
    <2>1. \A i \in 1..n : path[i] \in Selector
        BY ElementOfSeq
    <2>2. ASSUME NEW i \in 0..n PROVE at[i] \in T
        <3>1. i = 0 \/ i \in 1..n
            BY <1>1
        <3> HIDE DEF n, at
        <3> QED
            BY <1>8, <1>9, <2>1, <3>1, HopType
    <2>3. at = [i \in 0..n |-> at[i]]
        <3> DEFINE e(i) == IF i = 0 THEN u ELSE Hop(st, lv, at[i-1], path[i])
        <3>1. at = [i \in 0..n |-> e(i)]
            BY <1>7
        <3> HIDE DEF e, n, at
        <3> QED
            BY <3>1
    <2> HIDE DEF n, T, at
    <2> QED
        BY <2>2, <2>3
<1> QED
    BY <1>8, <1>9, <1>10 DEF Follows

\* Two sequences of nodes that start alike and go on alike are equal.
LEMMA SameSteps ==
    ASSUME NEW n \in Nat, NEW f, NEW g, f[0] = g[0],
           \A i \in 1..n : f[i-1] = g[i-1] => f[i] = g[i]
    PROVE  \A i \in 0..n : f[i] = g[i]
<1> DEFINE S == {i \in 0..n : f[i] = g[i]}
<1>1. 0 \in S
    OBVIOUS
<1>2. ASSUME NEW i \in 0..(n - 1), i \in S PROVE i + 1 \in S
    <2>1. i + 1 \in 1..n /\ i + 1 \in 0..n /\ (i + 1) - 1 = i
        OBVIOUS
    <2> QED
        BY <1>2, <2>1
<1>3. 0..n \subseteq S
    <2> HIDE DEF S
    <2> QED
        BY <1>1, <1>2, BoundedInduction
<1> QED
    BY <1>3

\* A storage of the invariant is one of these, and only uuids have an entry.
LEMMA TreeStores ==
    ASSUME TreeInv
    PROVE  store \in Stores /\ live \in SUBSET Uuid
<1>1. Drawn \subseteq Uuid
    BY BoundAssumption DEF TreeInv, Drawn, Uuid
<1> QED
    BY <1>1, SoundNodeMonotonic DEF TreeInv, Stores

LEMMA NextStores ==
    ASSUME TreeInv'
    PROVE  store' \in Stores /\ live' \in SUBSET Uuid
<1>1. /\ store' \in [Uuid -> SoundNode(Drawn')]
      /\ live' \subseteq Drawn' /\ next' \in 1..(MaxUuid + 1)
    BY DEF TreeInv
<1>2. Drawn' \subseteq Uuid
    <2>1. \A m \in 1..(MaxUuid + 1) : 1..(m - 1) \subseteq Uuid
        BY BoundAssumption DEF Uuid
    <2>2. Drawn' = 1..(next' - 1)
        BY DEF Drawn
    <2> QED
        BY <1>1, <2>1, <2>2
<1>3. \A nd \in SoundNode(Drawn') : nd \in SoundNode(Uuid)
    BY <1>2, SoundNodeMonotonic
<1> QED
    BY <1>1, <1>2, <1>3 DEF Stores

\* Where the walk stopped it does not go on.
LEMMA NullStays ==
    ASSUME NEW st \in Stores, NEW lv \in SUBSET Uuid, NEW u \in Uuid,
           NEW path \in Seq(Selector),
           NEW i \in 0..Len(path), Walk(st, lv, u, path)[i] = Null
    PROVE  \A j \in i..Len(path) : Walk(st, lv, u, path)[j] = Null
<1> DEFINE at == Walk(st, lv, u, path)
           n == Len(path)
           S == {d \in 0..(n - i) : at[i + d] = Null}
<1>1. n \in Nat /\ \A j \in 1..n : at[j] = Hop(st, lv, at[j-1], path[j])
    <2>1. Follows(at, st, lv, u, path)
        BY WalkSteps
    <2> HIDE DEF at
    <2> QED
        BY <2>1, LenProperties DEF Follows
<1>2. Null \notin lv
    BY DEF Null, Uuid
<1> HIDE DEF at, n
<1>3. i \in 0..n /\ at[i] = Null
    BY DEF at, n
<1>4. 0 \in S
    BY <1>1, <1>3
<1>5. ASSUME NEW d \in 0..((n - i) - 1), d \in S PROVE d + 1 \in S
    <2> DEFINE j == i + (d + 1)
    <2>1. j \in 1..n /\ j - 1 = i + d /\ d + 1 \in 0..(n - i)
        BY <1>1, <1>3
    <2>2. j = i + (d + 1)
        OBVIOUS
    <2> HIDE DEF j
    <2>3. at[j - 1] = Null
        BY <1>5, <2>1
    <2>4. at[j] = Null
        BY <1>1, <1>2, <2>1, <2>3 DEF Hop
    <2> QED
        BY <2>1, <2>2, <2>4
<1>6. 0..(n - i) \subseteq S
    <2>1. n - i \in Nat
        BY <1>1, <1>3
    <2> HIDE DEF S
    <2> QED
        BY <1>4, <1>5, <2>1, BoundedInduction
<1> SUFFICES ASSUME NEW j \in i..n PROVE at[j] = Null
    BY DEF at, n
<1>7. j - i \in 0..(n - i) /\ i + (j - i) = j
    BY <1>1, <1>3
<1> QED
    BY <1>6, <1>7

\* Along the first part of a path get() comes through the same nodes.
LEMMA WalkPrefix ==
    ASSUME NEW st \in Stores, NEW lv \in SUBSET Uuid, NEW u \in Uuid,
           NEW path \in Seq(Selector), NEW i \in 0..Len(path)
    PROVE  Resolve(st, lv, u, SubSeq(path, 1, i)) = Walk(st, lv, u, path)[i]
<1> DEFINE part == SubSeq(path, 1, i)
           f == Walk(st, lv, u, path)
           g == Walk(st, lv, u, part)
<1>0. Len(path) \in Nat /\ i \in Nat /\ i <= Len(path)
    BY LenProperties
<1>1. /\ part \in Seq(Selector) /\ Len(part) = i
      /\ \A j \in 1..i : part[j] = path[j]
    BY <1>0, SubSeqProperties
<1> HIDE DEF part
<1>2. Follows(f, st, lv, u, path) /\ Follows(g, st, lv, u, part)
    BY <1>1, WalkSteps
<1> HIDE DEF f, g
<1>3. 1..i \subseteq 1..Len(path) /\ f[0] = g[0]
    BY <1>0, <1>2 DEF Follows
<1>4. \A j \in 1..i : f[j-1] = g[j-1] => f[j] = g[j]
    BY <1>1, <1>2, <1>3 DEF Follows
<1>5. i \in Nat /\ f[0] = g[0]
    BY <1>0, <1>3
<1>6. \A j \in 0..i : f[j] = g[j]
    BY <1>4, <1>5, SameSteps, SMTT(30)
<1>7. i \in 0..i
    BY <1>0
<1>8. f[i] = g[i]
    BY <1>6, <1>7
<1> QED
    BY <1>1, <1>8 DEF f, g, part, Resolve

\* get() returns a uuid along the paths that exist, and along no other.
LEMMA FoundAll ==
    ASSUME NEW st \in Stores, NEW lv \in SUBSET Uuid, NEW u \in Uuid,
           NEW path \in Seq(Selector) \ {<<>>}
    PROVE  /\ Resolve(st, lv, u, path) \in Uuid \cup {Null}
           /\ (/\ \A i \in 0..(Len(path) - 1) : Resolve(st, lv, u, SubSeq(path, 1, i)) \in lv
               /\ Resolve(st, lv, u, path) \in Uuid) <=> Resolve(st, lv, u, path) # Null
<1> DEFINE at == Walk(st, lv, u, path)
           n == Len(path)
<1>1. path \in Seq(Selector)
    OBVIOUS
<1>2. n \in Nat \ {0}
    BY <1>1, EmptySeq, LenProperties
<1>3. Follows(at, st, lv, u, path)
    BY <1>1, WalkSteps
<1>4. Resolve(st, lv, u, path) = at[n] /\ n \in 0..n
    BY <1>2 DEF Resolve
<1>5. ASSUME NEW i \in 0..n PROVE Resolve(st, lv, u, SubSeq(path, 1, i)) = at[i]
    BY <1>1, WalkPrefix
<1> HIDE DEF at, n
<1>6. ASSUME at[n] # Null, NEW i \in 0..(n - 1) PROVE at[i] \in lv
    <2> DEFINE j == i + 1
    <2>1. j \in 1..n /\ j \in 0..n /\ j - 1 = i /\ n \in j..n
        BY <1>2
    <2> HIDE DEF j
    <2>2. at[j] # Null
        BY <1>1, <1>6, <2>1, NullStays DEF at, n
    <2> QED
        BY <1>3, <2>1, <2>2 DEF Hop, Follows, n
<1>7. \A i \in 0..(n - 1) : i \in 0..n
    BY <1>2
<1>8. (/\ \A i \in 0..(n - 1) : Resolve(st, lv, u, SubSeq(path, 1, i)) \in lv
       /\ Resolve(st, lv, u, path) \in Uuid) <=>
            (\A i \in 0..(n - 1) : at[i] \in lv) /\ at[n] \in Uuid
    BY <1>4, <1>5, <1>7
<1>9. Null \notin Uuid
    BY DEF Null, Uuid
<1>10. at[n] \in Uuid \cup {Null}
    BY <1>3, <1>4 DEF Follows, n
<1> QED
    BY <1>4, <1>6, <1>8, <1>9, <1>10 DEF n

LEMMA ExistsIsFound ==
    ASSUME TreeInv, NEW u \in Uuid, NEW path \in Seq(Selector) \ {<<>>}
    PROVE  /\ Get(u, path) \in Uuid \cup {Null}
           /\ Exists(u, path) <=> Get(u, path) # Null
BY TreeStores, FoundAll DEF Get, Exists

----------------------------------------------------------------------------
(* What can be reached from a node. *)

\* No link leads out of S.
Closed(st, S) == \A v \in S : Names(st[v]) \subseteq S

LEMMA NamesSound ==
    ASSUME NEW D, NEW nd \in SoundNode(D)
    PROVE  Names(nd) \subseteq D
<1>1. /\ nd.kids \in Seq([key : Selector, addr : D])
      /\ DOMAIN nd.kids = 1..Len(nd.kids)
    BY SoundNodeParts
<1>2. \A i \in DOMAIN nd.kids : nd.kids[i] \in [key : Selector, addr : D]
    BY <1>1, ElementOfSeq
<1> QED
    BY <1>2 DEF Names

\* Each round adds what the nodes found so far link to.
Spreads(near, st, u) ==
    /\ near \in [0..MaxUuid -> SUBSET Uuid]
    /\ near[0] = {u}
    /\ \A d \in 1..MaxUuid : near[d] = near[d-1] \cup UNION {Names(st[v]) : v \in near[d-1]}

LEMMA NearSpreads ==
    ASSUME NEW st \in Stores, NEW u \in Uuid
    PROVE  Spreads(Near(st, u), st, u)
<1> DEFINE n == MaxUuid
           T == SUBSET Uuid
           Step(S) == S \cup UNION {Names(st[v]) : v \in S}
           F == [d \in 1..n |-> [S \in T |-> Step(S)]]
           Body(f) == [d \in 0..n |-> IF d = 0 THEN {u} ELSE Step(f[d-1])]
           near == Near(st, u)
<1>1. n \in Nat /\ {u} \in T
    BY BoundAssumption
<1>2. \A S \in T : Step(S) \in T
    BY NamesSound DEF Stores
<1> HIDE DEF Step, n
<1>3. F \in [1..n -> [T -> T]]
    BY <1>2
<1>4. PICK f \in [0..n -> T] : f[0] = {u} /\ \A i \in 1..n : f[i] = F[i][f[i-1]]
    <2> HIDE DEF F, T
    <2>1. Recurs(n, T, {u}, F)
        BY <1>1, <1>3, BoundedRecursion
    <2> QED
        BY <2>1 DEF Recurs
<1>5. ASSUME NEW i \in 1..n PROVE f[i] = Step(f[i-1])
    <2>1. f[i-1] \in T
        <3>1. i - 1 \in 0..n
            BY <1>1
        <3> QED
            BY <3>1
    <2>2. F[i] = [S \in T |-> Step(S)]
        OBVIOUS
    <2> HIDE DEF F, T
    <2> QED
        BY <1>4, <2>1, <2>2
<1>6. f = Body(f)
    <2>1. \A i \in 0..n : i = 0 \/ i \in 1..n
        BY <1>1
    <2>2. \A i \in 0..n : f[i] = Body(f)[i]
        BY <1>1, <1>4, <1>5, <2>1
    <2>3. DOMAIN f = 0..n /\ f = [i \in 0..n |-> f[i]]
        OBVIOUS
    <2> QED
        BY <2>2, <2>3
<1>7. near = CHOOSE g : g = Body(g)
    BY DEF Near, Step, n
<1>8. near = Body(near)
    <2> HIDE DEF Body
    <2> QED
        BY <1>6, <1>7
<1>9. near[0] = {u}
    <2>1. 0 \in 0..n
        BY <1>1
    <2> HIDE DEF near
    <2> QED
        BY <1>8, <2>1
<1>10. ASSUME NEW i \in 1..n PROVE near[i] = Step(near[i-1])
    <2>1. i \in 0..n /\ i # 0
        BY <1>1
    <2> HIDE DEF near
    <2> QED
        BY <1>8, <2>1
<1>11. near \in [0..n -> T]
    <2> DEFINE S == {i \in 0..n : near[i] \in T}
    <2>1. 0 \in S
        BY <1>1, <1>9
    <2>2. ASSUME NEW i \in 0..(n - 1), i \in S PROVE i + 1 \in S
        <3> DEFINE j == i + 1
        <3>1. j \in 1..n /\ j \in 0..n /\ j - 1 = i
            BY <1>1
        <3> HIDE DEF j, near
        <3>2. near[j] = Step(near[i])
            BY <1>10, <3>1
        <3>3. near[j] \in T
            BY <1>2, <2>2, <3>2
        <3> QED
            BY <3>1, <3>3 DEF j
    <2>3. 0..n \subseteq S
        <3> HIDE DEF S
        <3> QED
            BY <1>1, <2>1, <2>2, BoundedInduction
    <2>4. near = [i \in 0..n |-> near[i]]
        <3> DEFINE e(i) == IF i = 0 THEN {u} ELSE Step(near[i-1])
        <3>1. near = [i \in 0..n |-> e(i)]
            BY <1>8
        <3> HIDE DEF e, near
        <3> QED
            BY <3>1
    <2> HIDE DEF near
    <2> QED
        BY <2>3, <2>4
<1> QED
    BY <1>9, <1>10, <1>11 DEF Spreads, Step, n

\* Nothing outside a set that no link leaves is reached from within it.
LEMMA NearWithin ==
    ASSUME NEW st \in Stores, NEW S \in SUBSET Uuid, NEW u \in S, Closed(st, S)
    PROVE  Near(st, u)[MaxUuid] \subseteq S
<1> DEFINE n == MaxUuid
           near == Near(st, u)
           I == {d \in 0..n : near[d] \subseteq S}
<1>1. n \in Nat /\ u \in Uuid
    BY BoundAssumption
<1>2. Spreads(near, st, u)
    BY <1>1, NearSpreads
<1> HIDE DEF near
<1>3. 0 \in I
    BY <1>1, <1>2 DEF Spreads
<1>4. ASSUME NEW d \in 0..(n - 1), d \in I PROVE d + 1 \in I
    <2> DEFINE e == d + 1
    <2>1. e \in 1..n /\ e \in 0..n /\ e - 1 = d
        BY <1>1
    <2> HIDE DEF e
    <2>2. near[e] = near[d] \cup UNION {Names(st[v]) : v \in near[d]}
        BY <1>2, <2>1 DEF Spreads
    <2>3. near[e] \subseteq S
        BY <1>4, <2>2 DEF Closed
    <2> QED
        BY <2>1, <2>3 DEF e
<1>5. 0..n \subseteq I
    <2> HIDE DEF I, n
    <2> QED
        BY <1>1, <1>3, <1>4, BoundedInduction
<1>6. n \in 0..n
    BY <1>1
<1> QED
    BY <1>5, <1>6 DEF near

\* No more rounds are needed than there are uuids: no link leaves what is reached.
LEMMA NearCloses ==
    ASSUME NEW st \in Stores, NEW u \in Uuid
    PROVE  LET S == Near(st, u)[MaxUuid]
           IN  u \in S /\ S \in SUBSET Uuid /\ Closed(st, S)
<1> DEFINE n == MaxUuid
           near == Near(st, u)
<1>1. n \in Nat
    BY BoundAssumption
<1>2. Spreads(near, st, u)
    BY NearSpreads
<1> HIDE DEF near
<1>3. near \in [0..n -> SUBSET Uuid] /\ near[0] = {u}
    BY <1>2 DEF Spreads
<1>4. \A d \in 1..n : near[d] = near[d-1] \cup UNION {Names(st[v]) : v \in near[d-1]}
    BY <1>2 DEF Spreads
<1>5. IsFiniteSet(Uuid) /\ Cardinality(Uuid) <= n
    <2>1. IsFiniteSet(1..n) /\ Cardinality(1..n) = IF 1 > n THEN 0 ELSE n - 1 + 1
        BY <1>1, FS_Interval
    <2> QED
        BY <1>1, <2>1 DEF Uuid
<1>6. PICK d \in 1..n : near[d] = near[d-1]
    <2>1. \A d \in 1..n : near[d-1] \subseteq near[d]
        BY <1>4
    <2>2. near[0] # {}
        BY <1>3
    <2> HIDE DEF n
    <2> QED
        BY <1>1, <1>3, <1>5, <2>1, <2>2, ChainStops, SMTT(30)
<1> DEFINE c == near[d]
<1>7. Closed(st, c)
    <2>1. near[d] = near[d] \cup UNION {Names(st[v]) : v \in near[d]}
        BY <1>4, <1>6
    <2> QED
        BY <2>1 DEF Closed
<1> DEFINE I == {k \in 0..(n - d) : near[d + k] = c}
<1>8. 0 \in I /\ n - d \in Nat
    BY <1>1
<1> HIDE DEF c
<1>9. ASSUME NEW k \in 0..((n - d) - 1), k \in I PROVE k + 1 \in I
    <2> DEFINE e == d + (k + 1)
    <2>1. e \in 1..n /\ e - 1 = d + k /\ k + 1 \in 0..(n - d)
        BY <1>1
    <2> HIDE DEF e
    <2>2. near[e] = near[e-1] \cup UNION {Names(st[v]) : v \in near[e-1]}
        BY <1>4, <2>1
    <2>3. near[e-1] = c
        BY <1>9, <2>1
    <2>4. near[e] = c
        BY <1>7, <2>2, <2>3 DEF Closed
    <2> QED
        BY <2>1, <2>4 DEF e
<1>10. 0..(n - d) \subseteq I
    <2> DEFINE m == n - d
    <2> HIDE DEF I, m
    <2>1. m \in Nat /\ 0 \in I /\ \A k \in 0..(m - 1) : k \in I => k + 1 \in I
        BY <1>8, <1>9 DEF m
    <2>2. 0..m \subseteq I
        BY <2>1, BoundedInduction
    <2> QED
        BY <2>2 DEF m
<1>11. near[n] = c
    <2>1. n - d \in 0..(n - d) /\ d + (n - d) = n
        BY <1>1
    <2> QED
        BY <1>10, <2>1
<1>12. near[n] \in SUBSET Uuid
    <2>1. n \in 0..n
        BY <1>1
    <2> QED
        BY <1>3, <2>1
<1>13. u \in near[n]
    <2> DEFINE J == {k \in 0..n : u \in near[k]}
    <2>1. 0 \in J
        BY <1>1, <1>3
    <2>2. ASSUME NEW k \in 0..(n - 1), k \in J PROVE k + 1 \in J
        <3> DEFINE e == k + 1
        <3>1. e \in 1..n /\ e \in 0..n /\ e - 1 = k
            BY <1>1
        <3> HIDE DEF e
        <3>2. u \in near[e]
            BY <1>4, <2>2, <3>1
        <3> QED
            BY <3>1, <3>2 DEF e
    <2>3. 0..n \subseteq J
        <3> HIDE DEF J, n
        <3> QED
            BY <1>1, <2>1, <2>2, BoundedInduction
    <2>4. n \in 0..n
        BY <1>1
    <2> QED
        BY <2>3, <2>4
<1> QED
    BY <1>7, <1>11, <1>12, <1>13 DEF near

----------------------------------------------------------------------------
(* Nodes: which selectors still lead where they led after a change. *)

\* Whatever a selector leads to in nd, it leads there in new.
Extends(nd, new) ==
    \A sel \in Selector :
        ExistsSingle(nd, sel) =>
            ExistsSingle(new, sel) /\ GetSingle(new, sel) = GetSingle(nd, sel)

\* Only a STRUCT has records with keys, and a key leads to the one record that has it.
LEMMA KeyAt ==
    ASSUME NEW D, NEW nd \in SoundNode(D), NEW i \in 1..Len(nd.kids),
           nd.kids[i].key \notin Nat
    PROVE  nd.type = "STRUCT" /\ Position(nd, nd.kids[i].key) = i
<1>1. /\ nd.type \in Type
      /\ Len(nd.kids) \in Nat /\ DOMAIN nd.kids = 1..Len(nd.kids)
      /\ IsTerminal(nd) => nd.kids = <<>>
      /\ nd.type = "STRUCT" => KeysUnique(nd.kids)
      /\ SliceKeys(nd)
    BY SoundNodeParts
<1>2. nd.type = "STRUCT"
    BY <1>1, EmptySeq DEF SliceKeys, IsTerminal, Type
<1> QED
    BY <1>1, <1>2 DEF Position, KeysUnique

\* A node that gets more records behind those it has.
LEMMA Grown ==
    ASSUME NEW D, NEW nd \in SoundNode(D), NEW E, NEW new \in SoundNode(E),
           IsTerminal(nd) \/ ~IsTerminal(new),
           Len(nd.kids) <= Len(new.kids),
           \A i \in 1..Len(nd.kids) : new.kids[i] = nd.kids[i]
    PROVE  Extends(nd, new)
<1> SUFFICES ASSUME NEW sel \in Selector, ExistsSingle(nd, sel)
             PROVE  /\ ExistsSingle(new, sel)
                    /\ GetSingle(new, sel) = GetSingle(nd, sel)
    BY DEF Extends
<1> DEFINE p == Position(nd, sel)
<1>1. /\ Len(nd.kids) \in Nat /\ DOMAIN nd.kids = 1..Len(nd.kids)
      /\ Len(new.kids) \in Nat /\ DOMAIN new.kids = 1..Len(new.kids)
    BY SoundNodeParts
<1>2. ~IsTerminal(nd) /\ ~IsTerminal(new) /\ p \in 1..Len(nd.kids)
    BY GetSingleSound DEF ExistsSingle
<1>3. p \in 1..Len(new.kids) /\ new.kids[p] = nd.kids[p]
    BY <1>1, <1>2
<1>4. CASE sel \in Nat
    <2>1. ExistsSingle(new, sel)
        BY <1>1, <1>2, <1>4 DEF ExistsSingle
    <2>2. Position(new, sel) = p
        BY <1>4 DEF Position
    <2> QED
        BY <1>3, <2>1, <2>2 DEF GetSingle
<1>5. CASE sel \notin Nat
    <2>1. nd.kids[p].key = sel
        BY <1>1, <1>5 DEF ExistsSingle, Position
    <2> HIDE DEF p
    <2>2. new.kids[p].key = sel
        BY <1>3, <2>1
    <2>3. Position(new, sel) = p
        BY <1>3, <1>5, <2>2, KeyAt
    <2>4. ExistsSingle(new, sel)
        BY <1>1, <1>2, <1>3, <1>5, <2>2 DEF ExistsSingle
    <2> QED
        BY <1>3, <2>3, <2>4 DEF GetSingle, p
<1> QED
    BY <1>4, <1>5

\* A node without records extends to any node.
LEMMA EmptyExtends ==
    ASSUME NEW nd, nd.kids = <<>>, NEW new
    PROVE  Extends(nd, new)
<1>1. Len(nd.kids) = 0 /\ DOMAIN nd.kids = {}
    BY EmptySeq
<1> QED
    BY <1>1 DEF Extends, ExistsSingle

\* insert() behind the records of a node.
LEMMA InsertedBehind ==
    ASSUME NEW D, NEW nd \in SoundNode(D), nd.type \in {"EMPTY", "LIST"},
           NEW index \in Nat, index >= Len(nd.kids), NEW x, NEW pad \in Nat
    PROVE  LET kids == Inserted(nd, index, x, pad).kids
           IN  /\ Len(kids) = index + 1
               /\ \A i \in 1..Len(nd.kids) : kids[i] = nd.kids[i]
               /\ kids[index + 1].addr = x
<1> DEFINE n == Padding(nd, index)
           pads == [i \in 1..n |-> [key |-> nd.len + i - 1, addr |-> pad + i - 1]]
           padded == nd.kids \o pads
           rec == [key |-> index, addr |-> x]
           pos == index + 1
           kids == InsertAt(padded, pos, rec)
           R == [key : Selector \cup Nat, addr : D \cup Nat \cup {x}]
<1>1. /\ nd.kids \in Seq([key : Selector, addr : D])
      /\ nd.len \in Nat /\ nd.len = Len(nd.kids)
    BY SoundNodeParts
<1>2. n = index - nd.len /\ n \in Nat
    <2>1. CASE index > nd.len
        <3>1. n = index - nd.len
            BY <2>1 DEF Padding
        <3> HIDE DEF n
        <3> QED
            BY <1>1, <2>1, <3>1
    <2>2. CASE ~(index > nd.len)
        <3>1. n = 0
            BY <2>2 DEF Padding
        <3> HIDE DEF n
        <3> QED
            BY <1>1, <2>2, <3>1
    <2> QED
        BY <2>1, <2>2
<1>3. nd.kids \in Seq(R)
    <2>1. [key : Selector, addr : D] \subseteq R
        OBVIOUS
    <2> HIDE DEF R
    <2> QED
        BY <1>1, <2>1, SeqMonotonic
<1>4. rec \in R
    BY DEF Selector
<1> HIDE DEF n
<1>5. pads \in Seq(R) /\ Len(pads) = n
    <2>1. ASSUME NEW i \in 1..n PROVE pads[i] \in R
        <3>1. nd.len + i - 1 \in Nat /\ pad + i - 1 \in Nat
            BY <1>1, <1>2
        <3> QED
            BY <3>1
    <2>2. pads \in [1..n -> R]
        BY <2>1
    <2> HIDE DEF pads, R
    <2> QED
        BY <1>2, <2>2, FunctionIsSeq
<1> HIDE DEF pads, R
<1>6. /\ padded \in Seq(R) /\ Len(padded) = index
      /\ \A i \in 1..Len(nd.kids) : padded[i] = nd.kids[i]
    <2>1. /\ padded \in Seq(R) /\ Len(padded) = Len(nd.kids) + Len(pads)
          /\ \A i \in 1..(Len(nd.kids) + Len(pads)) :
                padded[i] = IF i <= Len(nd.kids) THEN nd.kids[i]
                            ELSE pads[i - Len(nd.kids)]
        BY <1>3, <1>5, ConcatProperties
    <2> HIDE DEF padded
    <2> QED
        BY <1>1, <1>2, <1>5, <2>1
<1>7. Inserted(nd, index, x, pad).kids = kids
    BY DEF Inserted, n, pads
<1>8. rec.addr = x
    OBVIOUS
<1> HIDE DEF padded, rec
<1>9. pos \in 1..(Len(padded) + 1) /\ pos = Len(padded) + 1 /\ pos = index + 1
    BY <1>6
<1> HIDE DEF pos
<1>10. /\ kids \in Seq(R) /\ DOMAIN kids = 1..(Len(padded) + 1)
       /\ \A j \in 1..(Len(padded) + 1) :
            kids[j] = IF j < pos THEN padded[j] ELSE IF j = pos THEN rec ELSE padded[j - 1]
    <2>1. padded \in Seq(R) /\ rec \in R /\ pos \in 1..(Len(padded) + 1)
        BY <1>4, <1>6, <1>9
    <2>2. InsertAt(padded, pos, rec) \in Seq(R)
        BY <2>1, InsertAtElements
    <2>3. /\ DOMAIN InsertAt(padded, pos, rec) = 1..(Len(padded) + 1)
          /\ \A j \in 1..(Len(padded) + 1) :
                InsertAt(padded, pos, rec)[j] = IF j < pos THEN padded[j]
                                                ELSE IF j = pos THEN rec ELSE padded[j - 1]
        BY <2>1, InsertAtElements
    <2> QED
        BY <2>2, <2>3
<1> HIDE DEF kids
<1>11. Len(kids) = index + 1
    BY <1>6, <1>10, LenProperties
<1>12. kids[pos] = rec
    BY <1>9, <1>10
<1>13. ASSUME NEW i \in 1..Len(nd.kids) PROVE kids[i] = nd.kids[i]
    <2>1. i \in 1..(Len(padded) + 1) /\ i < pos
        BY <1>1, <1>6, <1>9
    <2> QED
        BY <1>6, <1>10, <2>1
<1> QED
    BY <1>7, <1>8, <1>9, <1>11, <1>12, <1>13

\* A level of add_child() leaves what is there and gives a new selector the new node.
LEMMA AttachedExtends ==
    ASSUME NEW D, NEW E, D \subseteq E,
           NEW nd \in SoundNode(D), NEW sel \in Selector, Accepts(nd, sel),
           NEW x \in E, NEW pad \in Nat,
           pad..(pad + LevelPadding(nd, sel) - 1) \subseteq E
    PROVE  /\ Extends(nd, Attached(nd, sel, x, pad))
           /\ ExistsSingle(nd, sel) => Attached(nd, sel, x, pad) = nd
           /\ ~ExistsSingle(nd, sel) => GetSingle(Attached(nd, sel, x, pad), sel) = x
<1> DEFINE new == Attached(nd, sel, x, pad)
<1>1. new \in SoundNode(E) /\ ExistsSingle(new, sel)
    BY AttachedSound
<1>2. ~IsTerminal(new)
    BY <1>1 DEF ExistsSingle
<1>3. /\ nd \in [type : Type, len : Nat, kids : Seq([key : Selector, addr : D])]
      /\ nd.len \in Nat /\ nd.len = Len(nd.kids)
      /\ Len(nd.kids) \in Nat /\ DOMAIN nd.kids = 1..Len(nd.kids)
      /\ IsTerminal(nd) => nd.kids = <<>>
    BY SoundNodeParts
<1>4. CASE sel \in Nat /\ ExistsSingle(nd, sel)
    BY <1>4 DEF Attached, Extends
<1>5. CASE sel \in Nat /\ ~ExistsSingle(nd, sel)
    <2>1. nd.type \in {"EMPTY", "LIST"} /\ new = Inserted(nd, sel, x, pad)
        BY <1>5 DEF Accepts, Attached
    <2>2. sel >= Len(nd.kids)
        BY <1>3, <1>5, <2>1, EmptySeq DEF ExistsSingle, IsTerminal
    <2>3. /\ Len(new.kids) = sel + 1
          /\ \A i \in 1..Len(nd.kids) : new.kids[i] = nd.kids[i]
          /\ new.kids[sel + 1].addr = x
        BY <1>5, <2>1, <2>2, InsertedBehind
    <2> HIDE DEF new
    <2>4. Len(nd.kids) <= Len(new.kids)
        BY <1>3, <1>5, <2>2, <2>3
    <2>5. Extends(nd, new)
        BY <1>1, <1>2, <2>3, <2>4, Grown
    <2> QED
        BY <1>5, <2>3, <2>5 DEF GetSingle, Position, new
<1>6. CASE sel \notin Nat
    <2> DEFINE st == SetTypeOf(nd, "STRUCT")
               rec == [key |-> sel, addr |-> x]
               added == Append(st.kids, rec)
    <2>1. /\ nd.type \in {"EMPTY", "STRUCT"}
          /\ new = [st EXCEPT !.kids = IF ExistsSingle(st, sel) THEN st.kids ELSE added,
                              !.len = Len(IF ExistsSingle(st, sel) THEN st.kids ELSE added)]
        BY <1>6 DEF Accepts, Attached, AddedSingle
    <2>2. /\ st \in SoundNode(D) /\ st.type = "STRUCT"
          /\ nd.type = "STRUCT" => st = nd
          /\ nd.type = "EMPTY" => nd.kids = <<>> /\ st.kids = <<>>
        BY <1>3, <2>1, SetTypeOfSound DEF SetTypeOf, IsTerminal
    <2> HIDE DEF st
    <2>3. /\ st \in [type : Type, len : Nat, kids : Seq([key : Selector, addr : D])]
          /\ st = [type |-> st.type, len |-> st.len, kids |-> st.kids]
          /\ st.len = Len(st.kids) /\ Len(st.kids) \in Nat
          /\ st.kids \in Seq([key : Selector, addr : D])
          /\ DOMAIN st.kids = 1..Len(st.kids)
        BY <2>2, SoundNodeParts
    <2>4. ExistsSingle(st, sel) <=> ExistsSingle(nd, sel)
        <3>1. CASE nd.type = "STRUCT"
            BY <2>2, <3>1
        <3>2. CASE nd.type # "STRUCT"
            <4>1. nd.type = "EMPTY" /\ st.kids = <<>>
                BY <2>1, <2>2, <3>2
            <4>2. DOMAIN st.kids = {}
                BY <4>1
            <4> QED
                BY <1>6, <4>1, <4>2 DEF ExistsSingle, IsTerminal
        <3> QED
            BY <3>1, <3>2
    <2>5. CASE ExistsSingle(nd, sel)
        <3>1. new = [st EXCEPT !.kids = st.kids, !.len = Len(st.kids)]
            BY <2>1, <2>4, <2>5
        <3>2. new = st
            BY <2>3, <3>1
        <3>3. nd.type = "STRUCT"
            BY <2>1, <2>5 DEF ExistsSingle, IsTerminal
        <3> HIDE DEF new
        <3>4. new = nd
            BY <2>2, <3>2, <3>3
        <3> QED
            BY <2>5, <3>4 DEF Extends, new
    <2>6. CASE ~ExistsSingle(nd, sel)
        <3>1. new = [st EXCEPT !.kids = added, !.len = Len(added)]
            BY <2>1, <2>4, <2>6
        <3>2. new.kids = added
            <4> HIDE DEF added, new
            <4> QED
                BY <2>3, <3>1
        <3>3. /\ Len(added) = Len(st.kids) + 1
              /\ \A i \in 1..Len(st.kids) : added[i] = st.kids[i]
              /\ added[Len(st.kids) + 1] = rec
            BY <2>3
        <3> HIDE DEF added, new
        <3>4. rec.addr = x /\ rec.key = sel
            OBVIOUS
        <3> HIDE DEF rec
        <3>5. Len(st.kids) + 1 \in 1..Len(new.kids)
            BY <2>3, <3>2, <3>3
        <3>6. Position(new, sel) = Len(st.kids) + 1
            BY <1>1, <1>6, <3>2, <3>3, <3>4, <3>5, KeyAt
        <3>7. GetSingle(new, sel) = x
            BY <3>2, <3>3, <3>4, <3>6 DEF GetSingle
        <3>8. Extends(nd, new)
            <4>1. CASE nd.type = "STRUCT"
                <5>1. st = nd
                    BY <2>2, <4>1
                <5>2. Len(nd.kids) <= Len(new.kids)
                    BY <1>3, <3>2, <3>3, <5>1
                <5>3. \A i \in 1..Len(nd.kids) : new.kids[i] = nd.kids[i]
                    BY <3>2, <3>3, <5>1
                <5> QED
                    BY <1>1, <1>2, <5>2, <5>3, Grown DEF new
            <4>2. CASE nd.type # "STRUCT"
                BY <2>1, <2>2, <4>2, EmptyExtends
            <4> QED
                BY <4>1, <4>2
        <3> QED
            BY <2>6, <3>7, <3>8 DEF new
    <2> QED
        BY <2>5, <2>6
<1> QED
    BY <1>4, <1>5, <1>6

----------------------------------------------------------------------------
(* From one storage to the next. *)

\* The paths that are found are found as before when every node with an entry keeps it
\* and what its selectors lead to.
LEMMA WalkKept ==
    ASSUME NEW st \in Stores, NEW lv \in SUBSET Uuid,
           NEW st2 \in Stores, NEW lv2 \in SUBSET Uuid, lv \subseteq lv2,
           \A x \in lv : Extends(st[x], st2[x]),
           NEW u \in Uuid, NEW path \in Seq(Selector)
    PROVE  \A i \in 0..Len(path) :
                Walk(st, lv, u, path)[i] # Null =>
                    Walk(st2, lv2, u, path)[i] = Walk(st, lv, u, path)[i]
<1> DEFINE f == Walk(st, lv, u, path)
           g == Walk(st2, lv2, u, path)
           n == Len(path)
           S == {i \in 0..n : f[i] # Null => g[i] = f[i]}
<1>1. Follows(f, st, lv, u, path) /\ Follows(g, st2, lv2, u, path)
    BY WalkSteps
<1>2. n \in Nat /\ \A i \in 1..n : path[i] \in Selector
    BY LenProperties, ElementOfSeq
<1> HIDE DEF f, g
<1>3. 0 \in S
    BY <1>1, <1>2 DEF Follows
<1>4. ASSUME NEW i \in 0..(n - 1), i \in S PROVE i + 1 \in S
    <2> DEFINE j == i + 1
    <2>1. j = i + 1 /\ j \in 0..n /\ j \in 1..n /\ j - 1 = i
        BY <1>2
    <2> HIDE DEF j
    <2>2. f[j] = Hop(st, lv, f[i], path[j]) /\ g[j] = Hop(st2, lv2, g[i], path[j])
        BY <1>1, <2>1 DEF Follows
    <2>3. ASSUME f[j] # Null PROVE g[j] = f[j]
        <3>1. /\ f[i] \in lv /\ ExistsSingle(st[f[i]], path[j])
              /\ f[j] = GetSingle(st[f[i]], path[j])
            BY <2>2, <2>3 DEF Hop
        <3>2. g[i] = f[i]
            BY <1>4, <3>1 DEF Null, Uuid
        <3>3. Extends(st[f[i]], st2[f[i]]) /\ f[i] \in lv2 /\ path[j] \in Selector
            BY <1>2, <2>1, <3>1
        <3> QED
            BY <2>2, <3>1, <3>2, <3>3 DEF Hop, Extends
    <2> QED
        BY <2>1, <2>3
<1>5. 0..n \subseteq S
    <2> HIDE DEF S, n
    <2> QED
        BY <1>2, <1>3, <1>4, BoundedInduction
<1> QED
    BY <1>5 DEF f, g

\* A new entry without records changes no path.
LEMMA WalkSame ==
    ASSUME NEW st \in Stores, NEW lv \in SUBSET Uuid, NEW lv2 \in SUBSET Uuid,
           lv \subseteq lv2, \A x \in lv2 \ lv : IsTerminal(st[x]),
           NEW u \in Uuid, NEW path \in Seq(Selector)
    PROVE  Walk(st, lv2, u, path) = Walk(st, lv, u, path)
<1> DEFINE f == Walk(st, lv, u, path)
           g == Walk(st, lv2, u, path)
           n == Len(path)
<1>1. Follows(f, st, lv, u, path) /\ Follows(g, st, lv2, u, path)
    BY WalkSteps
<1> HIDE DEF f, g
<1>2. /\ n \in Nat /\ f[0] = g[0]
      /\ f \in [0..n -> Uuid \cup {Null}] /\ g \in [0..n -> Uuid \cup {Null}]
    BY <1>1, LenProperties DEF Follows
<1>3. \A i \in 1..n : f[i-1] = g[i-1] => f[i] = g[i]
    <2>1. \A x, sel : Hop(st, lv2, x, sel) = Hop(st, lv, x, sel)
        BY DEF Hop, ExistsSingle
    <2>2. \A i \in 1..n : f[i] = Hop(st, lv, f[i-1], path[i])
        BY <1>1 DEF Follows
    <2>3. \A i \in 1..n : g[i] = Hop(st, lv2, g[i-1], path[i])
        BY <1>1 DEF Follows
    <2> HIDE DEF n
    <2> SUFFICES ASSUME NEW i \in 1..n, f[i-1] = g[i-1] PROVE f[i] = g[i]
        OBVIOUS
    <2>4. g[i] = Hop(st, lv2, f[i-1], path[i])
        BY <2>3
    <2>5. Hop(st, lv2, f[i-1], path[i]) = Hop(st, lv, f[i-1], path[i])
        BY <2>1, Zenon
    <2> QED
        BY <2>2, <2>4, <2>5
<1> DEFINE S == {i \in 0..n : f[i] = g[i]}
<1> HIDE DEF n
<1>4. 0 \in S
    BY <1>2
<1>5. ASSUME NEW i \in 0..(n - 1), i \in S PROVE i + 1 \in S
    <2>1. i + 1 \in 1..n /\ i + 1 \in 0..n /\ (i + 1) - 1 = i
        BY <1>2
    <2> QED
        BY <1>3, <1>5, <2>1
<1>6. \A i \in 0..n : f[i] = g[i]
    <2>1. 0..n \subseteq S
        <3> HIDE DEF S
        <3> QED
            BY <1>2, <1>4, <1>5, BoundedInduction
    <2> QED
        BY <2>1
<1>7. f = g
    BY <1>2, <1>6
<1> QED
    BY <1>7 DEF f, g

----------------------------------------------------------------------------
(* add_child() *)

\* What a level of add_child() does to the node it was called on, and to no other.
LEMMA AddLevelNode ==
    ASSUME TreeInv, AddLevel
    PROVE  LET at == call.at
               sel == Head(call.path)
           IN  /\ at \in live /\ at \in Uuid /\ sel \in Selector
               /\ \A u \in Uuid \ {at} : store'[u] = store[u]
               /\ Extends(store[at], store'[at])
               /\ ExistsSingle(store'[at], sel)
               /\ ExistsSingle(store[at], sel) => store'[at] = store[at]
               /\ ~ExistsSingle(store[at], sel) => GetSingle(store'[at], sel) = Linked
               /\ live' = live \cup next..(next' - 1)
<1> DEFINE at == call.at
           sel == Head(call.path)
           made == IF Len(call.path) = 1 THEN 0 ELSE 1
           pads == LevelPadding(store[at], sel)
           n == made + pads
           node == Attached(store[at], sel, Linked, next + made)
<1>1. /\ call.op = "add" /\ at \in live /\ Accepts(store[at], sel)
      /\ CanDraw(n) /\ next' = next + n
      /\ store' = [store EXCEPT ![at] = node]
      /\ live' = live \cup next..(next + n - 1)
    BY DEF AddLevel
<1>2. call \in AddCall /\ at \in Drawn /\ call.child \in Drawn
    BY <1>1, CallKinds DEF TreeInv, CallSound
<1>3. sel \in Selector
    <2>1. call.path \in Seq(Selector) /\ call.path # <<>>
        BY <1>2 DEF AddCall
    <2> QED
        BY <2>1, HeadTailProperties
<1>4. at \in Uuid /\ store[at] \in SoundNode(Drawn)
    BY <1>2, DrawnNode
<1>5. next \in Nat /\ made \in {0, 1}
    BY DEF TreeInv
<1>6. pads \in Nat
    BY <1>4, PaddingNat DEF LevelPadding
<1> HIDE DEF at, sel, made, pads
<1>7. n \in Nat
    BY <1>5, <1>6
<1>8. Drawn \subseteq Drawn' /\ next..(next + n - 1) \subseteq Drawn'
    BY <1>1, <1>7, Draw
<1>9. Linked \in Drawn'
    <2>1. CASE Len(call.path) = 1
        BY <1>2, <1>8, <2>1 DEF Linked
    <2>2. CASE Len(call.path) # 1
        <3>1. made = 1
            BY <2>2 DEF made
        <3> QED
            BY <1>5, <1>6, <1>8, <2>2, <3>1 DEF Linked
    <2> QED
        BY <2>1, <2>2
<1>10. /\ (next + made)..((next + made) + pads - 1) \subseteq Drawn'
       /\ next + made \in Nat
    BY <1>5, <1>6, <1>8
<1>11. /\ Extends(store[at], node)
       /\ ExistsSingle(node, sel)
       /\ ExistsSingle(store[at], sel) => node = store[at]
       /\ ~ExistsSingle(store[at], sel) => GetSingle(node, sel) = Linked
    <2> DEFINE pad == next + made
    <2>1. pad \in Nat /\ pad..(pad + LevelPadding(store[at], sel) - 1) \subseteq Drawn'
        BY <1>10 DEF pads
    <2> HIDE DEF pad
    <2>2. /\ Extends(store[at], Attached(store[at], sel, Linked, pad))
          /\ ExistsSingle(store[at], sel) => Attached(store[at], sel, Linked, pad) = store[at]
          /\ ~ExistsSingle(store[at], sel) =>
                GetSingle(Attached(store[at], sel, Linked, pad), sel) = Linked
        BY <1>1, <1>3, <1>4, <1>8, <1>9, <2>1, AttachedExtends
    <2>3. ExistsSingle(Attached(store[at], sel, Linked, pad), sel)
        BY <1>1, <1>3, <1>4, <1>8, <1>9, <2>1, AttachedSound
    <2> QED
        BY <2>2, <2>3 DEF pad
<1> HIDE DEF node
<1>12. store'[at] = node /\ \A u \in Uuid \ {at} : store'[u] = store[u]
    <2>1. store \in [Uuid -> SoundNode(Drawn)]
        BY DEF TreeInv
    <2>2. store' = [store EXCEPT ![at] = node]
        BY <1>1
    <2> HIDE DEF n
    <2> QED
        BY <1>4, <2>1, <2>2
<1>13. live' = live \cup next..(next' - 1)
    <2> HIDE DEF n
    <2>1. next' - 1 = next + n - 1
        BY <1>1, <1>5, <1>7
    <2> QED
        BY <1>1, <2>1
<1> QED
    BY <1>1, <1>3, <1>4, <1>11, <1>12, <1>13 DEF at, sel

\* A call that has begun goes on before the next one is made.
LEMMA AddActs ==
    ASSUME call.op = "add", [Next]_vars
    PROVE  AddLevel \/ AddThrow \/ UNCHANGED vars
<1>1. call # Idle
    BY DEF Idle
<1> QED
    BY <1>1 DEF Next, New, Prune, PruneThrow, CopyChildren, SetArray, SetScalar,
                SetType, GetOrCreate, AddChild, SetChild, Insert, DeleteChild, Clean,
                Assign, CopyBuffer, CopyTree

\* It begins with add_child() or get_or_create().
LEMMA AddBegins ==
    ASSUME TreeInv, call.op # "add", call'.op = "add", [Next]_vars
    PROVE  \/ \E u \in Drawn, path \in Paths : GetOrCreate(u, path)
           \/ \E u \in Drawn, path \in Paths, n \in Drawn : AddChild(u, path, n)
<1>1. call' # call /\ call' # Idle
    BY DEF Idle
<1>2. ~AddLevel /\ ~AddThrow
    BY DEF AddLevel, AddThrow
<1>3. ~Prune
    <2> SUFFICES ASSUME Prune PROVE FALSE
        OBVIOUS
    <2>1. call \in PruneCall
        BY CallKinds DEF TreeInv, Prune
    <2> QED
        BY <1>1, <2>1 DEF Prune, Returned, PruneCall
<1>4. ~CopyChildren
    <2> SUFFICES ASSUME CopyChildren PROVE FALSE
        OBVIOUS
    <2>1. call \in CopyCall /\ call.op = "copy"
        BY CallKinds DEF TreeInv, CopyChildren
    <2>2. PICK todo : call' = [call EXCEPT !.todo = todo]
        BY <1>1 DEF CopyChildren
    <2> QED
        BY <2>1, <2>2 DEF CopyCall
<1> QED
    BY <1>1, <1>2, <1>3, <1>4
       DEF Next, vars, New, PruneThrow, SetArray, SetScalar, SetType, SetChild, Insert,
           DeleteChild, Clean, Assign, CopyBuffer, CopyTree

\* While add_child() runs, every node keeps its entry and what its selectors lead to.
LEMMA AddExtends ==
    ASSUME TreeInv, call.op = "add", [Next]_vars
    PROVE  live \subseteq live' /\ \A x \in live : Extends(store[x], store'[x])
<1>1. live \subseteq Uuid
    BY TreeStores
<1>2. \A nd : Extends(nd, nd)
    BY DEF Extends
<1>3. CASE AddLevel
    BY <1>1, <1>2, <1>3, AddLevelNode
<1>4. CASE AddThrow
    <2> DEFINE at == call.at
               sel == Head(call.path)
    <2>1. /\ live \subseteq live'
          /\ store' = IF at \in live THEN [store EXCEPT ![at] = Refused(store[at], sel)]
                      ELSE store
        BY <1>4 DEF AddThrow
    <2>2. ASSUME NEW x \in live PROVE Extends(store[x], Refused(store[x], sel))
        <3>1. store[x] \in SoundNode(Drawn)
            BY DrawnNode DEF TreeInv
        <3>2. CASE store[x].type = "EMPTY"
            <4>1. store[x].kids = <<>>
                BY <3>1, <3>2, SoundNodeParts DEF IsTerminal
            <4> QED
                BY <4>1, EmptyExtends
        <3>3. CASE store[x].type # "EMPTY"
            BY <1>2, <3>3 DEF Refused, SetTypeOf
        <3> QED
            BY <3>2, <3>3
    <2> HIDE DEF at, sel
    <2>3. \A x \in live : store'[x] = store[x] \/ store'[x] = Refused(store[x], sel)
        BY <1>1, <2>1 DEF TreeInv
    <2> QED
        BY <1>2, <2>1, <2>2, <2>3
<1>5. CASE UNCHANGED vars
    BY <1>2, <1>5 DEF vars
<1>6. AddLevel \/ AddThrow \/ UNCHANGED vars
    BY AddActs
<1> QED
    BY <1>3, <1>4, <1>5, <1>6

\* The paths that are found are found as before.
LEMMA AddWalks ==
    ASSUME TreeInv, TreeInv', call.op = "add", [Next]_vars,
           NEW u \in Uuid, NEW path \in Seq(Selector)
    PROVE  \A i \in 0..Len(path) :
                Walk(store, live, u, path)[i] # Null =>
                    Walk(store', live', u, path)[i] = Walk(store, live, u, path)[i]
<1>1. /\ store \in Stores /\ live \in SUBSET Uuid
      /\ store' \in Stores /\ live' \in SUBSET Uuid
    BY TreeStores, NextStores
<1>2. live \subseteq live' /\ \A x \in live : Extends(store[x], store'[x])
    BY AddExtends
<1> QED
    <2>1. \A st2 \in Stores, lv2 \in SUBSET Uuid :
            live \subseteq lv2 /\ (\A x \in live : Extends(store[x], st2[x])) =>
                \A i \in 0..Len(path) :
                    Walk(store, live, u, path)[i] # Null =>
                        Walk(st2, lv2, u, path)[i] = Walk(store, live, u, path)[i]
        BY <1>1, WalkKept, SMTT(30)
    <2> QED
        BY <1>1, <1>2, <2>1

\* add_child() and get_or_create() leave every path of every node leading where it led,
\* half-done calls, shared nodes and cycles included (hdc.cpp:451-533).
THEOREM AddKeeps == Spec => AddKeepsPaths
<1> DEFINE Kept == call.op = "add" =>
                        \A u \in live, p \in Paths : Exists(u, p) => Get(u, p)' = Get(u, p)
<1>1. TreeInv /\ TreeInv' /\ [Next]_vars => Kept
    <2> SUFFICES ASSUME TreeInv, TreeInv', [Next]_vars, call.op = "add",
                        NEW u \in live, NEW p \in Paths, Exists(u, p)
                 PROVE  Get(u, p)' = Get(u, p)
        OBVIOUS
    <2>1. u \in Uuid /\ p \in Seq(Selector) \ {<<>>}
        BY TreeStores, PathsAssumption
    <2>2. Get(u, p) # Null
        BY <2>1, ExistsIsFound
    <2>3. Len(p) \in 0..Len(p)
        BY <2>1, LenProperties
    <2>4. Walk(store, live, u, p)[Len(p)] # Null
        BY <2>2 DEF Get, Resolve
    <2>5. \A i \in 0..Len(p) :
            Walk(store, live, u, p)[i] # Null =>
                Walk(store', live', u, p)[i] = Walk(store, live, u, p)[i]
        BY <2>1, AddWalks
    <2>6. Walk(store', live', u, p)[Len(p)] = Walk(store, live, u, p)[Len(p)]
        BY <2>3, <2>4, <2>5
    <2> QED
        BY <2>6 DEF Get, Resolve
<1>2. TreeInv /\ TreeInv' /\ [Next]_vars => [Kept]_vars
    BY <1>1
<1> QED
    BY Invariance, <1>2, PTL DEF AddKeepsPaths, Spec

\* How far add_child() has come: the call is at the node to which the part of the path
\* that is done leads, and the whole path still leads where it led when it was called.
OnWay(st, lv, c) ==
    LET at == Walk(st, lv, c.root, c.full)
        done == Len(c.full) - Len(c.path)
    IN  /\ done >= 0
        /\ \A i \in 1..Len(c.path) : c.path[i] = c.full[done + i]
        /\ at[done] = c.at
        /\ at[Len(c.full)] = c.was

AddWay == call.op = "add" => OnWay(store, live, call)

LEMMA StartsOnWay ==
    ASSUME TreeInv, NEW u \in Uuid, NEW path \in Paths, NEW n,
           NEW new \in SUBSET (Uuid \ live)
    PROVE  OnWay(store, live \cup new, NewAddCall(u, path, n))
<1> DEFINE c == NewAddCall(u, path, n)
           lv == live \cup new
           f == Walk(store, live, u, path)
           g == Walk(store, lv, u, path)
           was == IF Exists(u, path) THEN Get(u, path) ELSE Null
<1>1. /\ c.root = u /\ c.full = path /\ c.path = path /\ c.at = u
      /\ c.was = was
    BY DEF NewAddCall
<1>2. path \in Seq(Selector) \ {<<>>} /\ Len(path) \in Nat
    BY PathsAssumption, LenProperties
<1>3. was = f[Len(path)]
    BY <1>2, ExistsIsFound DEF Get, Resolve
<1>4. \A x \in new : IsTerminal(store[x])
    BY DEF TreeInv, IsTerminal, EmptyNode
<1>5. store \in Stores /\ live \in SUBSET Uuid /\ new \in SUBSET Uuid /\ lv \in SUBSET Uuid
    BY TreeStores
<1>6. \A i \in 0..Len(path) : g[i] = f[i]
    <2>1. live \subseteq lv /\ \A x \in lv \ live : IsTerminal(store[x])
        BY <1>4
    <2> HIDE DEF c, was, lv
    <2>2. path \in Seq(Selector)
        BY <1>2
    <2>3. Walk(store, lv, u, path) = Walk(store, live, u, path)
        BY <1>5, <2>1, <2>2, WalkSame
    <2> QED
        BY <2>3
<1>7. Follows(g, store, lv, u, path)
    <2> HIDE DEF lv
    <2> QED
        BY <1>2, <1>5, WalkSteps
<1> HIDE DEF f, g, was, lv
<1>8. g[0] = u /\ g[Len(path)] = was
    BY <1>2, <1>3, <1>6, <1>7 DEF Follows
<1> HIDE DEF c
<1>9. Len(path) - Len(path) = 0 /\ \A i \in 1..Len(path) : 0 + i = i
    BY <1>2
<1> QED
    BY <1>1, <1>8, <1>9 DEF OnWay, c, g, lv

\* Where the path leads when a level of add_child() is done.
LEMMA AddLevelWay ==
    ASSUME TreeInv, TreeInv', AddWay, AddLevel
    PROVE  LET at == Walk(store', live', call.root, call.full)
               n == Len(call.full)
               done == n - Len(call.path)
           IN  /\ at[done + 1] = GetSingle(store'[call.at], Head(call.path))
               /\ Len(call.path) > 1 => at[n] = call.was
               /\ Len(call.path) = 1 =>
                    at[n] = IF call.was # Null THEN call.was ELSE call.child
<1> DEFINE full == call.full
           n == Len(full)
           left == Len(call.path)
           k == n - left
           j == k + 1
           x == call.at
           sel == Head(call.path)
           f == Walk(store, live, call.root, full)
           g == Walk(store', live', call.root, full)
           new == next..(next' - 1)
<1>1. call.op = "add" /\ call \in AddCall /\ call.child \in Drawn
    BY CallKinds DEF TreeInv, CallSound, AddLevel
<1>2. /\ call.root \in Uuid /\ call.child \in Uuid
      /\ full \in Seq(Selector) /\ call.path \in Seq(Selector) /\ call.path # <<>>
    BY <1>1 DEF AddCall
<1>3. /\ n \in Nat /\ left \in Nat \ {0} /\ sel = call.path[1]
    BY <1>2, EmptySeq, LenProperties, HeadTailProperties
<1>4. /\ k >= 0 /\ f[k] = x /\ f[n] = call.was
      /\ \A i \in 1..left : call.path[i] = full[k + i]
    BY <1>1 DEF AddWay, OnWay
<1>5. /\ store \in Stores /\ live \in SUBSET Uuid
      /\ store' \in Stores /\ live' \in SUBSET Uuid
    BY TreeStores, NextStores
<1>6. Follows(f, store, live, call.root, full) /\ Follows(g, store', live', call.root, full)
    BY <1>2, <1>5, WalkSteps
<1>7. /\ x \in live /\ x \in Uuid /\ sel \in Selector
      /\ \A u \in Uuid \ {x} : store'[u] = store[u]
      /\ Extends(store[x], store'[x])
      /\ ExistsSingle(store'[x], sel)
      /\ ExistsSingle(store[x], sel) => store'[x] = store[x]
      /\ ~ExistsSingle(store[x], sel) => GetSingle(store'[x], sel) = Linked
      /\ live' = live \cup new
    BY AddLevelNode
<1>8. \A i \in 0..n : f[i] # Null => g[i] = f[i]
    <2> DEFINE root == call.root
    <2>1. root \in Uuid /\ full \in Seq(Selector) /\ call.op = "add" /\ [Next]_vars
        BY <1>1, <1>2 DEF Next
    <2> HIDE DEF full, root
    <2>2. \A i \in 0..Len(full) :
            Walk(store, live, root, full)[i] # Null =>
                Walk(store', live', root, full)[i] = Walk(store, live, root, full)[i]
        BY <2>1, AddWalks
    <2> QED
        BY <2>2 DEF root
<1>9. new \subseteq Uuid \ live /\ \A y \in new : IsTerminal(store[y])
    <2>1. next \in Nat /\ live \subseteq 1..(next - 1)
        BY DEF TreeInv, Drawn
    <2>2. next' \in 1..(MaxUuid + 1)
        BY DEF TreeInv
    <2>3. ASSUME NEW y \in new PROVE y \in Uuid /\ y \notin live
        <3>1. next' \in Int /\ next \in Nat \ {0} /\ next' <= MaxUuid + 1
            BY <2>2, BoundAssumption DEF TreeInv
        <3> DEFINE last == next' - 1
        <3>4. y \in next..last /\ last \in Int /\ last <= MaxUuid
            <4>1. y \in next..last
                OBVIOUS
            <4>2. \A m \in Int : m <= MaxUuid + 1 => m - 1 \in Int /\ m - 1 <= MaxUuid
                BY BoundAssumption
            <4> QED
                BY <3>1, <4>1, <4>2
        <3> HIDE DEF last, new
        <3>2. y \in 1..MaxUuid
            BY <3>1, <3>4, BoundAssumption
        <3>3. y \notin 1..(next - 1)
            BY <3>1, <3>4
        <3> QED
            BY <2>1, <3>2, <3>3 DEF Uuid
    <2> HIDE DEF new
    <2> QED
        BY <2>3 DEF TreeInv, IsTerminal, EmptyNode
<1> HIDE DEF full, n, left, k, x, sel, f, g, new
<1>10. /\ j \in 1..n /\ j - 1 = k /\ k \in 0..n /\ j \in 0..n /\ full[j] = sel
    BY <1>3, <1>4 DEF k
<1>11. x # Null /\ Null \notin live'
    BY <1>5, <1>7 DEF Null, Uuid
<1>12. j = k + 1
    OBVIOUS
<1> HIDE DEF j
<1>13. g[k] = x
    BY <1>4, <1>8, <1>10, <1>11
<1>14. g[j] = GetSingle(store'[x], sel)
    <2>1. g[j] = Hop(store', live', x, sel)
        BY <1>6, <1>10, <1>13 DEF Follows, n
    <2> QED
        BY <1>7, <2>1 DEF Hop
<1>15. f[j] = IF ExistsSingle(store[x], sel) THEN GetSingle(store[x], sel) ELSE Null
    <2>1. f[j] = Hop(store, live, x, sel)
        BY <1>4, <1>6, <1>10 DEF Follows, n
    <2> QED
        BY <1>7, <2>1 DEF Hop
<1>16. n \in j..n /\ (left = 1 => j = n) /\ (left > 1 => j + 1 \in 1..n /\ j + 1 \in 0..n
                                                         /\ n \in (j + 1)..n)
    BY <1>3, <1>4, <1>12 DEF k
<1>17. CASE ExistsSingle(store[x], sel)
    <2>1. store' = store
        <3>1. \A u \in Uuid : store'[u] = store[u]
            BY <1>7, <1>17
        <3> QED
            BY <1>5, <3>1 DEF Stores
    <2>2. g[n] = f[n]
        <3>1. new \in SUBSET Uuid
            BY <1>9
        <3> DEFINE root == call.root
        <3>4. root \in Uuid /\ full \in Seq(Selector) /\ store \in Stores /\ live \in SUBSET Uuid
            BY <1>2, <1>5
        <3>5. \A y \in new : IsTerminal(store[y])
            BY <1>9
        <3> HIDE DEF root
        <3> DEFINE lv == live \cup new
        <3>2. /\ lv \in SUBSET Uuid /\ live \subseteq lv
              /\ \A y \in lv \ live : IsTerminal(store[y])
            BY <3>1, <3>4, <3>5
        <3> HIDE DEF lv
        <3>3. Walk(store, lv, root, full) = Walk(store, live, root, full)
            BY <3>2, <3>4, WalkSame
        <3> QED
            BY <1>7, <2>1, <3>3 DEF f, g, root, lv
    <2>3. left = 1 => call.was # Null
        <3>1. store[x] \in SoundNode(Uuid)
            BY <1>5, <1>7 DEF Stores
        <3>2. GetSingle(store[x], sel) \in Uuid
            BY <1>7, <1>17, <3>1, GetSingleSound
        <3> QED
            BY <1>4, <1>15, <1>16, <1>17, <3>2 DEF Null, Uuid
    <2> QED
        BY <1>4, <1>12, <1>14, <2>2, <2>3 DEF full, n, left, k, x, sel, f, g
<1>18. CASE ~ExistsSingle(store[x], sel)
    <2>1. call.was = Null
        <3>1. f[j] = Null
            BY <1>15, <1>18
        <3>2. \A i \in j..n : f[i] = Null
            BY <1>2, <1>5, <1>10, <3>1, NullStays DEF f, n
        <3> QED
            BY <1>4, <1>16, <3>2
    <2>2. g[j] = Linked
        BY <1>7, <1>14, <1>18
    <2>3. CASE left = 1
        <3>1. Linked = call.child
            BY <2>3 DEF Linked, left
        <3>2. g[n] = call.child
            BY <1>16, <2>2, <2>3, <3>1
        <3>3. g[k + 1] = GetSingle(store'[x], sel)
            BY <1>12, <1>14
        <3>4. ~(left > 1)
            BY <2>3
        <3> QED
            BY <2>1, <3>2, <3>3, <3>4 DEF full, n, left, k, x, sel, g
    <2>4. CASE left # 1
        <3>1. Linked = next /\ left > 1
            <4>1. left > 1
                BY <1>3, <2>4
            <4>2. Len(call.path) # 1
                BY <2>4 DEF left
            <4> QED
                BY <4>1, <4>2 DEF Linked
        <3>2. next \in new
            <4> DEFINE pads == LevelPadding(store[x], sel)
            <4>1. store[x] \in SoundNode(Drawn)
                BY <1>7 DEF TreeInv
            <4>2. pads \in Nat
                BY <1>7, <4>1, PaddingNat DEF LevelPadding
            <4>3. next' = next + (1 + pads)
                BY <2>4 DEF AddLevel, left, x, sel
            <4>4. next \in Nat
                BY DEF TreeInv
            <4> HIDE DEF pads
            <4>5. next \in next..(next' - 1)
                BY <4>2, <4>3, <4>4
            <4> QED
                BY <4>5 DEF new
        <3>3. store'[next] = store[next] /\ IsTerminal(store[next])
            BY <1>7, <1>9, <3>2
        <3> DEFINE i == j + 1
        <3>4. i \in 1..n /\ i - 1 = j /\ i \in 0..n /\ n \in i..n
            BY <1>10, <1>16, <3>1
        <3> HIDE DEF i
        <3>5. g[i] = Hop(store', live', next, full[i])
            BY <1>6, <2>2, <3>1, <3>4 DEF Follows, n
        <3>6. g[i] = Null
            BY <3>3, <3>5 DEF Hop, ExistsSingle
        <3>7. \A y \in i..n : g[y] = Null
            BY <1>2, <1>5, <3>4, <3>6, NullStays DEF g, n
        <3>8. g[n] = Null
            BY <3>4, <3>7
        <3> QED
            BY <1>12, <1>14, <2>1, <2>4, <3>8 DEF full, n, left, k, x, sel, g
    <2> QED
        BY <2>3, <2>4
<1> QED
    BY <1>17, <1>18

\* A level of add_child() ends the call, or goes on in the child it found or made.
LEMMA AddLevelCall ==
    ASSUME TreeInv, AddLevel
    PROVE  IF Len(call.path) = 1 THEN call' = Idle
           ELSE call' = [call EXCEPT !.at = GetSingle(store'[call.at], Head(call.path)),
                                     !.path = Tail(@)]
<1>1. store'[call.at] =
        Attached(store[call.at], Head(call.path), Linked,
                 next + (IF Len(call.path) = 1 THEN 0 ELSE 1))
    <2>1. store \in [Uuid -> SoundNode(Drawn)] /\ call.at \in Uuid
        BY AddLevelNode DEF TreeInv
    <2> QED
        BY <2>1 DEF AddLevel
<1> QED
    BY <1>1 DEF AddLevel

LEMMA AddWayStep ==
    ASSUME TreeInv, TreeInv', AddWay, [Next]_vars
    PROVE  AddWay'
<1> SUFFICES ASSUME call'.op = "add" PROVE OnWay(store', live', call')
    BY DEF AddWay
<1>1. ASSUME NEW u \in Drawn, NEW path \in Paths, GetOrCreate(u, path)
      PROVE  OnWay(store', live', call')
    <2>1. /\ store' = store /\ live' = live \cup {next}
          /\ call' = NewAddCall(u, path, next)
          /\ CanDraw(1)
        BY <1>1 DEF GetOrCreate
    <2>2. u \in Uuid
        BY DrawnNode
    <2>3. next \in Uuid \ live
        BY <2>1, BoundAssumption DEF TreeInv, Drawn, CanDraw, Uuid
    <2>4. {next} \in SUBSET (Uuid \ live)
        BY <2>3
    <2> QED
        BY <2>1, <2>2, <2>4, StartsOnWay
<1>2. ASSUME NEW u \in Drawn, NEW path \in Paths, NEW n \in Drawn, AddChild(u, path, n)
      PROVE  OnWay(store', live', call')
    <2>1. /\ store' = store /\ live' = live \cup {}
          /\ call' = NewAddCall(u, path, n)
        BY <1>2 DEF AddChild
    <2>2. u \in Uuid
        BY DrawnNode
    <2>3. {} \in SUBSET (Uuid \ live)
        OBVIOUS
    <2> QED
        BY <2>1, <2>2, <2>3, StartsOnWay
<1>3. CASE AddLevel
    <2> DEFINE next_at == GetSingle(store'[call.at], Head(call.path))
               at == Walk(store', live', call.root, call.full)
               n == Len(call.full)
               left == Len(call.path)
    <2>1. call.op = "add" /\ call \in AddCall
        BY <1>3, CallKinds DEF TreeInv, AddLevel
    <2>2. left # 1 /\ call' = [call EXCEPT !.at = next_at, !.path = Tail(call.path)]
        <3>1. left # 1
            BY <1>3, AddLevelCall DEF Idle
        <3> QED
            BY <1>3, <3>1, AddLevelCall
    <2>3. /\ call'.root = call.root /\ call'.full = call.full /\ call'.was = call.was
          /\ call'.at = next_at /\ call'.path = Tail(call.path)
        <3> HIDE DEF next_at
        <3> QED
            BY <2>1, <2>2 DEF AddCall
    <2>4. /\ call.path \in Seq(Selector) /\ call.path # <<>>
          /\ call.full \in Seq(Selector)
        BY <2>1 DEF AddCall
    <2>5. left \in Nat /\ left > 1 /\ n \in Nat
        <3>1. left \in Nat \ {0} /\ n \in Nat
            BY <2>4, EmptySeq, LenProperties
        <3>2. left # 1
            BY <2>2
        <3> HIDE DEF left, n
        <3> QED
            BY <3>1, <3>2
    <2>6. /\ Len(Tail(call.path)) = left - 1
          /\ \A i \in 1..(left - 1) : Tail(call.path)[i] = call.path[i + 1]
        BY <2>4, HeadTailProperties
    <2>7. /\ n - left >= 0
          /\ \A i \in 1..left : call.path[i] = call.full[(n - left) + i]
        BY <2>1 DEF AddWay, OnWay
    <2>8. at[(n - left) + 1] = next_at /\ at[n] = call.was
        BY <1>3, <2>5, AddLevelWay
    <2> HIDE DEF next_at, at, n, left
    <2>9. n - (left - 1) = (n - left) + 1 /\ n - (left - 1) >= 0
        BY <2>5, <2>7
    <2>10. ASSUME NEW i \in 1..(left - 1)
           PROVE  Tail(call.path)[i] = call.full[(n - (left - 1)) + i]
        <3>1. i + 1 \in 1..left /\ (n - left) + (i + 1) = (n - (left - 1)) + i
            BY <2>5
        <3>2. call.path[i + 1] = call.full[(n - left) + (i + 1)]
            BY <2>7, <3>1
        <3> QED
            BY <2>6, <3>1, <3>2
    <2> QED
        BY <2>3, <2>6, <2>8, <2>9, <2>10 DEF OnWay, at, n
<1>4. CASE UNCHANGED vars
    BY <1>4 DEF vars, AddWay
<1>5. \/ AddLevel \/ UNCHANGED vars
      \/ \E u \in Drawn, path \in Paths : GetOrCreate(u, path)
      \/ \E u \in Drawn, path \in Paths, n \in Drawn : AddChild(u, path, n)
    <2>1. CASE call.op = "add"
        <3>1. AddLevel \/ AddThrow \/ UNCHANGED vars
            BY <2>1, AddActs
        <3>2. ~AddThrow
            BY DEF AddThrow, Idle
        <3> QED
            BY <3>1, <3>2
    <2>2. CASE call.op # "add"
        BY <2>2, AddBegins
    <2> QED
        BY <2>1, <2>2
<1> QED
    BY <1>1, <1>2, <1>3, <1>4, <1>5

LEMMA AddWayInvariance == Spec => []AddWay
<1>1. Init => AddWay
    BY DEF Init, Idle, AddWay
<1> QED
    BY <1>1, AddWayStep, Invariance, PTL DEF Spec

\* When add_child(path, n) has returned, the path leads to n, or to what it led to
\* before if it existed, through whatever nodes it shares (hdc.cpp:451-533).
THEOREM AddReturns == Spec => AddResolves
<1> DEFINE Done == (/\ call.op = "add" /\ call' = Idle
                    /\ call.at \in live /\ Accepts(store[call.at], Head(call.path))) =>
                        Resolve(store', live', call.root, call.full) =
                            IF call.was # Null THEN call.was ELSE call.child
<1>1. TreeInv /\ TreeInv' /\ AddWay /\ [Next]_vars => Done
    <2> SUFFICES ASSUME TreeInv, TreeInv', AddWay, [Next]_vars,
                        call.op = "add", call' = Idle,
                        call.at \in live, Accepts(store[call.at], Head(call.path))
                 PROVE  Resolve(store', live', call.root, call.full) =
                            IF call.was # Null THEN call.was ELSE call.child
        OBVIOUS
    <2>1. AddLevel
        BY AddActs DEF AddThrow, vars, Idle
    <2>2. Len(call.path) = 1
        <3>1. call \in AddCall
            BY CallKinds DEF TreeInv
        <3>2. ASSUME Len(call.path) # 1 PROVE call'.op = "add"
            BY <2>1, <3>1, <3>2, AddLevelCall DEF AddCall
        <3> QED
            BY <3>2 DEF Idle
    <2> QED
        BY <2>1, <2>2, AddLevelWay DEF Resolve
<1>2. TreeInv /\ TreeInv' /\ AddWay /\ [Next]_vars => [Done]_vars
    BY <1>1
<1> QED
    BY Invariance, AddWayInvariance, <1>2, PTL DEF AddResolves, Spec

----------------------------------------------------------------------------
(* copy() *)

\* The records of v lead into "made", and its keys lead to copies of the nodes to which
\* the same keys lead in the node that v is a copy of.
Mirrors(st, m, v, made) ==
    /\ Names(st[v]) \subseteq made
    /\ \A key \in Key :
        /\ ExistsSingle(st[v], key) <=> ExistsSingle(st[m[v]], key)
        /\ ExistsSingle(st[v], key) =>
                m[GetSingle(st[v], key)] = GetSingle(st[m[v]], key)

\* How far a copy has come: S holds the nodes of the source, m says which of them each
\* new node is a copy of, and the nodes that are not in "todo" have their children.
Copying(st, lv, nx, from, to, todo, S, m) ==
    LET made == to..(nx - 1)
    IN  /\ S \subseteq lv /\ S \cap made = {}
        /\ from \in S /\ Closed(st, S)
        /\ made \subseteq lv
        /\ m \in [made -> S] /\ to \in made /\ m[to] = from
        /\ \A v \in made : st[v].type = st[m[v]].type
        /\ \A i \in DOMAIN todo : todo[i].dst \in made /\ m[todo[i].dst] = todo[i].src
        /\ \A v \in made : (\E i \in DOMAIN todo : todo[i].dst = v) \/ Mirrors(st, m, v, made)

CopyWay ==
    call.op = "copy" =>
        \E S, m : Copying(store, live, next, call.from, call.to, call.todo, S, m)

\* The paths of keys lead to a copy of the node to which they lead in the source.
LEMMA CopiedPaths ==
    ASSUME NEW st \in Stores, NEW lv \in SUBSET Uuid, NEW nx,
           NEW from \in Uuid, NEW to \in Uuid, NEW S, NEW m,
           Copying(st, lv, nx, from, to, <<>>, S, m),
           NEW path \in Seq(Key)
    PROVE  LET x == Resolve(st, lv, from, path)
               y == Resolve(st, lv, to, path)
           IN  /\ x = Null <=> y = Null
               /\ y # Null => st[x].type = st[y].type
<1> DEFINE made == to..(nx - 1)
           n == Len(path)
           f == Walk(st, lv, from, path)
           g == Walk(st, lv, to, path)
           Pair(x, y) == (x = Null /\ y = Null) \/ (y \in made /\ x = m[y])
           I == {i \in 0..n : Pair(f[i], g[i])}
<1>1. /\ S \subseteq lv /\ made \subseteq lv
      /\ m \in [made -> S] /\ to \in made /\ m[to] = from
      /\ \A v \in made : st[v].type = st[m[v]].type
    BY DEF Copying
<1>2. \A v \in made : Mirrors(st, m, v, made)
    BY DEF Copying
<1>3. path \in Seq(Selector) /\ n \in Nat /\ \A i \in 1..n : path[i] \in Key
    <2>1. Key \subseteq Selector
        BY DEF Selector
    <2> QED
        BY <2>1, SeqMonotonic, LenProperties, ElementOfSeq
<1>4. Follows(f, st, lv, from, path) /\ Follows(g, st, lv, to, path)
    BY <1>3, WalkSteps
<1> HIDE DEF f, g, made
<1>5. 0 \in I
    BY <1>1, <1>3, <1>4 DEF Follows
<1>6. Null \notin lv
    BY DEF Null, Uuid
<1>7. ASSUME NEW i \in 0..(n - 1), i \in I PROVE i + 1 \in I
    <2> DEFINE j == i + 1
    <2>1. j \in 1..n /\ j \in 0..n /\ j - 1 = i
        BY <1>3
    <2> HIDE DEF j
    <2>2. f[j] = Hop(st, lv, f[i], path[j]) /\ g[j] = Hop(st, lv, g[i], path[j])
        BY <1>4, <2>1 DEF Follows
    <2>3. Pair(f[i], g[i]) /\ path[j] \in Key
        BY <1>3, <1>7, <2>1
    <2>4. Pair(f[j], g[j])
        <3>1. CASE f[i] = Null /\ g[i] = Null
            BY <1>6, <2>2, <3>1 DEF Hop
        <3>2. CASE g[i] \in made /\ f[i] = m[g[i]]
            <4> DEFINE key == path[j]
                       y == g[i]
            <4>1. y \in made /\ y \in lv /\ m[y] \in lv /\ f[i] = m[y] /\ key \in Key
                BY <1>1, <2>3, <3>2
            <4>2. Mirrors(st, m, y, made)
                BY <1>2, <4>1
            <4>3. /\ f[j] = IF ExistsSingle(st[m[y]], key) THEN GetSingle(st[m[y]], key) ELSE Null
                  /\ g[j] = IF ExistsSingle(st[y], key) THEN GetSingle(st[y], key) ELSE Null
                BY <2>2, <4>1 DEF Hop
            <4> HIDE DEF key, y
            <4>4. CASE ExistsSingle(st[y], key)
                <5>1. /\ ExistsSingle(st[m[y]], key)
                      /\ m[GetSingle(st[y], key)] = GetSingle(st[m[y]], key)
                    BY <4>1, <4>2, <4>4 DEF Mirrors
                <5>2. GetSingle(st[y], key) \in made
                    <6>1. st[y] \in SoundNode(Uuid)
                        BY <4>1 DEF Stores
                    <6>2. /\ Position(st[y], key) \in 1..Len(st[y].kids)
                          /\ DOMAIN st[y].kids = 1..Len(st[y].kids)
                        BY <4>1, <4>4, <6>1, GetSingleSound, SoundNodeParts DEF Selector
                    <6>3. GetSingle(st[y], key) \in Names(st[y])
                        BY <6>2 DEF GetSingle, Names
                    <6> QED
                        BY <4>2, <6>3 DEF Mirrors
                <5> QED
                    BY <4>3, <4>4, <5>1, <5>2
            <4>5. CASE ~ExistsSingle(st[y], key)
                <5>1. ~ExistsSingle(st[m[y]], key)
                    BY <4>1, <4>2, <4>5 DEF Mirrors
                <5> QED
                    BY <4>3, <4>5, <5>1
            <4> QED
                BY <4>4, <4>5
        <3> QED
            BY <2>3, <3>1, <3>2
    <2> HIDE DEF Pair
    <2> QED
        BY <2>1, <2>4 DEF j
<1>8. 0..n \subseteq I
    <2> HIDE DEF I, n
    <2> QED
        BY <1>3, <1>5, <1>7, BoundedInduction
<1>9. Pair(f[n], g[n])
    <2>1. n \in 0..n
        BY <1>3
    <2> HIDE DEF Pair
    <2> QED
        BY <1>8, <2>1
<1> QED
    BY <1>1, <1>6, <1>9 DEF Resolve, f, g

\* A permutation of positions: each position is at one place.
LEMMA Permutation ==
    ASSUME NEW n \in Nat, NEW order \in Injection(1..n, 1..n)
    PROVE  /\ order \in [1..n -> 1..n]
           /\ \A j \in 1..n : \E i \in 1..n : order[i] = j
<1>1. IsFiniteSet(1..n)
    BY FS_Interval
<1>2. order \in Surjection(1..n, 1..n)
    BY <1>1, FS_Injection
<1> QED
    BY <1>2 DEF Surjection

\* The node that gets copies of the children of "src" mirrors it.
LEMMA CopiedMirrors ==
    ASSUME NEW D, NEW src \in SoundNode(D), NEW E, NEW new \in SoundNode(E),
           NEW n \in Nat, n = Len(src.kids),
           NEW order \in Injection(1..n, 1..n), NEW first \in Nat,
           new.type = src.type, new.kids = CopiedKids(src.kids, order, first),
           NEW m, \A i \in 1..n : m[first + i - 1] = src.kids[order[i]].addr,
           NEW key \in Key
    PROVE  /\ ExistsSingle(new, key) <=> ExistsSingle(src, key)
           /\ ExistsSingle(new, key) => m[GetSingle(new, key)] = GetSingle(src, key)
<1>1. key \notin Nat
    BY KeyAssumption
<1>2. order \in [1..n -> 1..n] /\ \A j \in 1..n : \E i \in 1..n : order[i] = j
    BY Permutation
<1>3. DOMAIN src.kids = 1..n
    BY SoundNodeParts
<1>4. /\ DOMAIN new.kids = 1..n /\ Len(new.kids) = n
      /\ \A i \in 1..n : new.kids[i] = [key |-> src.kids[order[i]].key, addr |-> first + i - 1]
    BY DEF CopiedKids
<1>5. ASSUME NEW i \in 1..n
      PROVE  new.kids[i].key = src.kids[order[i]].key /\ new.kids[i].addr = first + i - 1
    <2> DEFINE k == src.kids[order[i]].key
               a == first + i - 1
    <2>1. new.kids[i] = [key |-> k, addr |-> a]
        BY <1>4
    <2> HIDE DEF k, a
    <2>2. new.kids[i].key = k /\ new.kids[i].addr = a
        BY <2>1
    <2> QED
        BY <2>2 DEF k, a
<1>6. ExistsSingle(new, key) <=> ExistsSingle(src, key)
    <2>1. IsTerminal(new) <=> IsTerminal(src)
        BY DEF IsTerminal
    <2>2. ASSUME NEW i \in 1..n, new.kids[i].key = key
          PROVE  \E j \in 1..n : src.kids[j].key = key
        <3>1. order[i] \in 1..n
            BY <1>2, <2>2
        <3>2. src.kids[order[i]].key = key
            BY <1>5, <2>2
        <3> QED
            BY <3>1, <3>2
    <2>3. ASSUME NEW j \in 1..n, src.kids[j].key = key
          PROVE  \E i \in 1..n : new.kids[i].key = key
        <3>1. PICK i \in 1..n : order[i] = j
            BY <1>2
        <3> QED
            BY <1>5, <2>3, <3>1
    <2> QED
        BY <1>1, <1>3, <1>4, <2>1, <2>2, <2>3 DEF ExistsSingle
<1>7. ASSUME ExistsSingle(new, key) PROVE m[GetSingle(new, key)] = GetSingle(src, key)
    <2>1. PICK i \in 1..n : new.kids[i].key = key
        BY <1>1, <1>4, <1>7 DEF ExistsSingle
    <2>2. Position(new, key) = i
        BY <1>1, <1>4, <2>1, KeyAt
    <2>3. order[i] \in 1..n /\ src.kids[order[i]].key = key
        BY <1>2, <1>5, <2>1
    <2>4. Position(src, key) = order[i]
        BY <1>1, <2>3, KeyAt
    <2> QED
        BY <1>5, <2>2, <2>4 DEF GetSingle
<1> QED
    BY <1>6, <1>7

\* copy(true) begins: nothing is missing below the source, and nothing of it is new.
LEMMA CopyStarts ==
    ASSUME TreeInv, NEW u \in Drawn, CopyTree(u)
    PROVE  \E S, m : Copying(store', live', next', call'.from, call'.to, call'.todo, S, m)
<1> DEFINE S == Reach(u)
           m == [v \in next..(next' - 1) |-> u]
           made == next..(next' - 1)
           job == [src |-> u, dst |-> next]
           nd == [EmptyNode EXCEPT !.type = store[u].type]
<1>1. /\ CanDraw(1) /\ next' = next + 1 /\ live' = live \cup {next}
      /\ store' = [store EXCEPT ![next] = nd]
      /\ call'.from = u /\ call'.to = next /\ call'.todo = <<job>>
      /\ S \subseteq live
    BY DEF CopyTree
<1>2. u \in Uuid /\ store[u] \in SoundNode(Drawn)
    BY DrawnNode
<1>3. next \in Nat /\ made = {next} /\ next \in Uuid /\ next \notin live
    BY <1>1, BoundAssumption DEF TreeInv, CanDraw, Uuid, Drawn
<1>4. store \in Stores
    BY TreeStores
<1>5. u \in S /\ Closed(store, S)
    BY <1>2, <1>4, NearCloses DEF Reach
<1>6. nd.type = store[u].type
    BY <1>2, SoundNodeParts, TypedNodeSound
<1> HIDE DEF S, made, nd
<1>7. m \in [made -> S] /\ m[next] = u
    BY <1>3, <1>5 DEF made
<1> HIDE DEF m
<1>8. store'[next] = nd /\ \A v \in S : store'[v] = store[v]
    BY <1>1, <1>3, <1>4 DEF Stores
<1>9. Closed(store', S)
    BY <1>5, <1>8 DEF Closed
<1>10. /\ job.src = u /\ job.dst = next
       /\ DOMAIN <<job>> = {1} /\ <<job>>[1] = job
    OBVIOUS
<1> HIDE DEF job
<1>11. store'[u].type = store[u].type
    BY <1>5, <1>8
<1>12. Copying(store', live', next', u, next, <<job>>, S, m)
    BY <1>1, <1>3, <1>5, <1>6, <1>7, <1>8, <1>9, <1>10, <1>11 DEF Copying, made
<1> QED
    BY <1>1, <1>12

\* The children of one node are copied.
LEMMA CopyGoesOn ==
    ASSUME TreeInv, TreeInv', CopyChildren, NEW S, NEW m,
           Copying(store, live, next, call.from, call.to, call.todo, S, m)
    PROVE  \E todo2, m2 :
            /\ Copying(store', live', next', call.from, call.to, todo2, S, m2)
            /\ call' = IF todo2 = <<>> THEN Idle ELSE [call EXCEPT !.todo = todo2]
            /\ \A v \in S : store'[v] = store[v]
<1> DEFINE job == Head(call.todo)
           src == job.src
           dst == job.dst
           kids == store[src].kids
           n == Len(kids)
           from == call.from
           to == call.to
           fresh == next..(next + n - 1)
           made == to..(next - 1)
           made2 == to..(next' - 1)
           source(i, order) == kids[order[i]].addr
           jobs(order) == [i \in 1..n |-> [src |-> source(i, order), dst |-> next + i - 1]]
           copied(order) == [store[dst] EXCEPT !.kids = CopiedKids(kids, order, next),
                                               !.len = store[src].len]
           bare(v, order) == [EmptyNode EXCEPT !.type = store[source(v - next + 1, order)].type]
           todo(order) == Tail(call.todo) \o jobs(order)
<1>1. PICK order \in Injection(1..n, 1..n) :
        /\ store' = [v \in Uuid |-> IF v = dst THEN copied(order)
                                    ELSE IF v \in fresh THEN bare(v, order) ELSE store[v]]
        /\ call' = IF todo(order) = <<>> THEN Idle ELSE [call EXCEPT !.todo = todo(order)]
    BY DEF CopyChildren
<1>2. /\ call.op = "copy" /\ CanDraw(n) /\ next' = next + n /\ live' = live \cup fresh
    BY DEF CopyChildren
<1>3. call \in CopyCall
    BY <1>2, CallKinds DEF TreeInv
<1>4. /\ call.todo \in Seq([src : Uuid, dst : Uuid]) /\ call.todo # <<>>
      /\ Len(call.todo) \in Nat \ {0} /\ DOMAIN call.todo = 1..Len(call.todo)
    BY <1>3, EmptySeq, LenProperties DEF CopyCall
<1>5. job = call.todo[1] /\ 1 \in DOMAIN call.todo
    BY <1>4, HeadTailProperties
<1>6. /\ S \subseteq live /\ S \cap made = {}
      /\ from \in S /\ Closed(store, S)
      /\ made \subseteq live
      /\ m \in [made -> S] /\ to \in made /\ m[to] = from
      /\ \A v \in made : store[v].type = store[m[v]].type
      /\ \A i \in DOMAIN call.todo :
            call.todo[i].dst \in made /\ m[call.todo[i].dst] = call.todo[i].src
      /\ \A v \in made : (\E i \in DOMAIN call.todo : call.todo[i].dst = v)
                         \/ Mirrors(store, m, v, made)
    BY DEF Copying
<1>7. dst \in made /\ m[dst] = src /\ src \in S
    BY <1>5, <1>6
<1>8. /\ next \in Nat /\ live \subseteq Uuid /\ live \subseteq 1..(next - 1) /\ store \in Stores
      /\ store' \in Stores
    <2>1. next \in Nat /\ live \subseteq 1..(next - 1)
        BY DEF TreeInv, Drawn
    <2>2. live \subseteq Uuid /\ store \in Stores /\ store' \in Stores
        BY TreeStores, NextStores
    <2> QED
        BY <2>1, <2>2
<1>9. /\ src \in Uuid /\ dst \in Uuid /\ to \in Nat
      /\ store[src] \in SoundNode(Uuid) /\ store[dst] \in SoundNode(Uuid)
    <2>1. src \in Uuid /\ dst \in Uuid /\ to \in Uuid
        BY <1>6, <1>7, <1>8
    <2>2. to \in Nat
        BY <2>1 DEF Uuid
    <2> HIDE DEF src, dst, to
    <2> QED
        BY <1>8, <2>1, <2>2 DEF Stores
<1> HIDE DEF job, src, dst, from, to, made
<1>10. n \in Nat /\ DOMAIN kids = 1..n
    BY <1>9, SoundNodeParts
<1>11. /\ order \in [1..n -> 1..n]
    BY <1>10, Permutation
<1>12. ASSUME NEW i \in 1..n PROVE source(i, order) \in S
    <2>1. order[i] \in DOMAIN kids
        BY <1>10, <1>11
    <2>2. source(i, order) \in Names(store[src])
        BY <2>1 DEF Names
    <2> QED
        BY <1>6, <1>7, <2>2 DEF Closed
<1>13. copied(order).type = store[dst].type /\ copied(order).kids = CopiedKids(kids, order, next)
    BY <1>9, SoundNodeParts
<1> HIDE DEF kids, copied
<1>14. ASSUME NEW v \in fresh
       PROVE  /\ v - next + 1 \in 1..n
              /\ bare(v, order).type = store[source(v - next + 1, order)].type
    <2>1. v - next + 1 \in 1..n
        BY <1>8, <1>10
    <2>2. source(v - next + 1, order) \in Uuid
        BY <1>6, <1>8, <1>12, <2>1
    <2> HIDE DEF source
    <2>3. store[source(v - next + 1, order)].type \in Type
        BY <1>8, <2>2, SoundNodeParts DEF Stores
    <2> QED
        BY <2>1, <2>3, TypedNodeSound
<1> HIDE DEF source, bare, n
<1>15. fresh \cap live = {} /\ fresh \subseteq live' /\ live' \subseteq Uuid
    <2>1. \A v \in fresh : v \notin 1..(next - 1)
        BY <1>8, <1>10
    <2> QED
        BY <1>2, <1>8, <2>1, NextStores
<1>16. /\ made2 = made \cup fresh
    <2>1. to <= next - 1 /\ to \in Nat /\ next' = next + n
        BY <1>2, <1>6, <1>8, <1>9 DEF made
    <2>2. next' - 1 = next + n - 1 /\ next + n - 1 \in Int /\ next - 1 \in Int
        BY <1>8, <1>10, <2>1
    <2>3. \A v \in Int : v \in to..(next + n - 1) <=> v \in to..(next - 1) \/ v \in next..(next + n - 1)
        BY <1>8, <1>10, <2>1
    <2>4. to..(next + n - 1) = to..(next - 1) \cup next..(next + n - 1)
        BY <2>3
    <2> QED
        BY <2>2, <2>4 DEF made
<1> HIDE DEF fresh, made2
<1>17. /\ store'[dst] = copied(order)
       /\ \A v \in fresh : store'[v] = bare(v, order)
       /\ \A v \in live \ {dst} : store'[v] = store[v]
    BY <1>1, <1>6, <1>7, <1>8, <1>9, <1>15
<1>18. \A v \in S : store'[v] = store[v]
    BY <1>6, <1>7, <1>17
<1> DEFINE m2 == [v \in made2 |-> IF v \in made THEN m[v] ELSE source(v - next + 1, order)]
<1>19. /\ m2 \in [made2 -> S]
       /\ \A v \in made : m2[v] = m[v]
       /\ \A v \in fresh : m2[v] = source(v - next + 1, order)
    <2>1. made \cap fresh = {}
        BY <1>6, <1>15
    <2> QED
        BY <1>6, <1>12, <1>14, <1>16, <2>1
<1> HIDE DEF m2
<1>20. /\ Tail(call.todo) \in Seq([src : Uuid, dst : Uuid])
       /\ Len(Tail(call.todo)) = Len(call.todo) - 1
       /\ \A i \in 1..Len(Tail(call.todo)) : Tail(call.todo)[i] = call.todo[i + 1]
    BY <1>4, HeadTailProperties
<1>21. /\ jobs(order) \in Seq([src : Uuid, dst : Uuid]) /\ Len(jobs(order)) = n
       /\ \A i \in 1..n : jobs(order)[i].src = source(i, order) /\ jobs(order)[i].dst = next + i - 1
    <2>1. ASSUME NEW i \in 1..n
          PROVE  /\ [src |-> source(i, order), dst |-> next + i - 1] \in [src : Uuid, dst : Uuid]
                 /\ next + i - 1 \in fresh
        <3>1. next + i - 1 \in fresh
            BY <1>8, <1>10 DEF fresh
        <3>2. source(i, order) \in Uuid /\ next + i - 1 \in Uuid
            BY <1>6, <1>8, <1>12, <1>15, <3>1
        <3> QED
            BY <3>1, <3>2
    <2>2. jobs(order) \in [1..n -> [src : Uuid, dst : Uuid]]
        BY <2>1
    <2>3. \A i \in 1..n : jobs(order)[i] = [src |-> source(i, order), dst |-> next + i - 1]
        OBVIOUS
    <2> HIDE DEF jobs
    <2>4. jobs(order) \in Seq([src : Uuid, dst : Uuid]) /\ Len(jobs(order)) = n
        BY <1>10, <2>2, FunctionIsSeq
    <2> QED
        BY <2>3, <2>4
<1> HIDE DEF jobs
<1>22. /\ todo(order) \in Seq([src : Uuid, dst : Uuid])
       /\ Len(todo(order)) = Len(Tail(call.todo)) + n
       /\ \A i \in 1..(Len(Tail(call.todo)) + n) :
            todo(order)[i] = IF i <= Len(Tail(call.todo)) THEN Tail(call.todo)[i]
                             ELSE jobs(order)[i - Len(Tail(call.todo))]
    BY <1>20, <1>21, ConcatProperties
<1> HIDE DEF todo
<1> DEFINE l == Len(Tail(call.todo))
<1>23. DOMAIN todo(order) = 1..(l + n) /\ l \in Nat /\ Len(call.todo) = l + 1
    BY <1>4, <1>20, <1>22, LenProperties
\* The jobs that are left, and the new ones.
<1>24. \A i \in 1..l : i \in DOMAIN todo(order) /\ i + 1 \in DOMAIN call.todo
                       /\ todo(order)[i] = call.todo[i + 1]
    BY <1>4, <1>10, <1>20, <1>22, <1>23
<1>25. \A i \in 1..n : l + i \in DOMAIN todo(order) /\ todo(order)[l + i] = jobs(order)[i]
    <2> SUFFICES ASSUME NEW i \in 1..n
                 PROVE  l + i \in DOMAIN todo(order) /\ todo(order)[l + i] = jobs(order)[i]
        OBVIOUS
    <2>1. l + i \in 1..(l + n) /\ ~(l + i <= l) /\ (l + i) - l = i
        BY <1>10, <1>23
    <2> QED
        BY <1>22, <1>23, <2>1
<1>26. \A i \in DOMAIN todo(order) : i \in 1..l \/ \E j \in 1..n : i = l + j
    <2> SUFFICES ASSUME NEW i \in 1..(l + n), i \notin 1..l PROVE \E j \in 1..n : i = l + j
        BY <1>23
    <2>1. i - l \in 1..n /\ i = l + (i - l)
        BY <1>10, <1>23
    <2> QED
        BY <2>1
<1> HIDE DEF l
<1>27. ASSUME NEW i \in DOMAIN todo(order)
       PROVE  todo(order)[i].dst \in made2 /\ m2[todo(order)[i].dst] = todo(order)[i].src
    <2>1. CASE i \in 1..l
        BY <1>6, <1>16, <1>19, <1>24, <2>1
    <2>2. ASSUME NEW j \in 1..n, i = l + j
          PROVE  todo(order)[i].dst \in made2 /\ m2[todo(order)[i].dst] = todo(order)[i].src
        <3>1. todo(order)[i].src = source(j, order) /\ todo(order)[i].dst = next + j - 1
            BY <1>21, <1>25, <2>2
        <3>2. next + j - 1 \in fresh /\ (next + j - 1) - next + 1 = j
            BY <1>8, <1>10 DEF fresh
        <3> QED
            BY <1>16, <1>19, <3>1, <3>2
    <2> QED
        BY <1>26, <2>1, <2>2
<1>28. ASSUME NEW v \in made2
       PROVE  (\E i \in DOMAIN todo(order) : todo(order)[i].dst = v) \/ Mirrors(store', m2, v, made2)
    <2>1. CASE v \in fresh
        <3> DEFINE j == v - next + 1
        <3>1. j \in 1..n /\ next + j - 1 = v
            BY <1>8, <1>14, <2>1 DEF fresh
        <3> HIDE DEF j
        <3>2. todo(order)[l + j].dst = v /\ l + j \in DOMAIN todo(order)
            BY <1>21, <1>25, <3>1
        <3> QED
            BY <3>2
    <2>2. CASE v = dst
        <3>1. m2[dst] = src /\ store'[src] = store[src]
            BY <1>7, <1>18, <1>19
        <3>2. store'[dst].type = store[src].type /\ store'[dst].kids = CopiedKids(kids, order, next)
            BY <1>6, <1>7, <1>13, <1>17
        <3>3. \A i \in 1..n : m2[next + i - 1] = kids[order[i]].addr
            <4> SUFFICES ASSUME NEW i \in 1..n PROVE m2[next + i - 1] = kids[order[i]].addr
                OBVIOUS
            <4>1. next + i - 1 \in fresh /\ (next + i - 1) - next + 1 = i
                BY <1>8, <1>10 DEF fresh
            <4>2. m2[next + i - 1] = source(i, order)
                BY <1>19, <4>1
            <4> QED
                BY <4>2 DEF source
        <3>4. store'[dst] \in SoundNode(Uuid)
            BY <1>8, <1>9 DEF Stores
        <3>5. Names(store'[dst]) \subseteq made2
            <4>1. /\ DOMAIN store'[dst].kids = 1..n
                  /\ \A i \in 1..n : store'[dst].kids[i].addr = next + i - 1
                <5>1. DOMAIN CopiedKids(kids, order, next) = 1..n
                    BY DEF CopiedKids, n
                <5>2. ASSUME NEW i \in 1..n
                      PROVE  CopiedKids(kids, order, next)[i].addr = next + i - 1
                    <6> DEFINE key == kids[order[i]].key
                               addr == next + i - 1
                    <6>1. CopiedKids(kids, order, next)[i] = [key |-> key, addr |-> addr]
                        BY DEF CopiedKids, n
                    <6> HIDE DEF key, addr
                    <6>2. CopiedKids(kids, order, next)[i].addr = addr
                        BY <6>1
                    <6> QED
                        BY <6>2 DEF addr
                <5> QED
                    BY <3>2, <5>1, <5>2
            <4>2. \A i \in 1..n : next + i - 1 \in fresh
                BY <1>8, <1>10 DEF fresh
            <4> QED
                BY <1>16, <4>1, <4>2 DEF Names
        <3>6. ASSUME NEW key \in Key
              PROVE  /\ ExistsSingle(store'[dst], key) <=> ExistsSingle(store[src], key)
                     /\ ExistsSingle(store'[dst], key) =>
                            m2[GetSingle(store'[dst], key)] = GetSingle(store[src], key)
            <4>1. n = Len(store[src].kids) /\ kids = store[src].kids
                BY DEF n, kids
            <4> DEFINE was == store[src]
                       new == store'[dst]
            <4>2. was \in SoundNode(Uuid) /\ new \in SoundNode(Uuid) /\ next \in Nat /\ n \in Nat
                BY <1>8, <1>9, <1>10, <3>4
            <4>3. n = Len(was.kids) /\ new.type = was.type
                  /\ new.kids = CopiedKids(was.kids, order, next)
                BY <3>2, <4>1
            <4>4. \A i \in 1..n : m2[next + i - 1] = was.kids[order[i]].addr
                BY <3>3, <4>1
            <4> HIDE DEF was, new
            <4>5. /\ ExistsSingle(new, key) <=> ExistsSingle(was, key)
                  /\ ExistsSingle(new, key) => m2[GetSingle(new, key)] = GetSingle(was, key)
                BY <4>2, <4>3, <4>4, CopiedMirrors
            <4> QED
                BY <4>5 DEF was, new
        <3> QED
            BY <2>2, <3>1, <3>5, <3>6 DEF Mirrors
    <2>3. CASE v \in made /\ v # dst
        <3>1. CASE \E i \in DOMAIN call.todo : call.todo[i].dst = v
            <4>1. PICK i \in 1..(l + 1) : call.todo[i].dst = v
                BY <1>4, <1>23, <3>1 DEF l
            <4>2. i # 1
                BY <1>5, <2>3, <4>1 DEF dst
            <4> DEFINE j == i - 1
            <4>3. j \in 1..l /\ j + 1 = i
                BY <1>23, <4>2 DEF l
            <4> HIDE DEF j
            <4> QED
                BY <1>24, <4>1, <4>3
        <3>2. CASE Mirrors(store, m, v, made)
            <4>1. v \in live /\ store'[v] = store[v] /\ m2[v] = m[v] /\ m[v] \in S
                BY <1>6, <1>17, <1>19, <2>3
            <4>2. store'[m[v]] = store[m[v]]
                BY <1>18, <4>1
            <4>3. \A x \in Names(store[v]) : m2[x] = m[x]
                BY <1>19, <3>2 DEF Mirrors
            <4>4. \A key \in Key : ExistsSingle(store[v], key) => GetSingle(store[v], key) \in Names(store[v])
                <5> SUFFICES ASSUME NEW key \in Key, ExistsSingle(store[v], key)
                             PROVE  GetSingle(store[v], key) \in Names(store[v])
                    OBVIOUS
                <5>1. store[v] \in SoundNode(Uuid)
                    BY <1>8, <4>1 DEF Stores
                <5>2. /\ Position(store[v], key) \in 1..Len(store[v].kids)
                      /\ DOMAIN store[v].kids = 1..Len(store[v].kids)
                    BY <5>1, GetSingleSound, SoundNodeParts DEF Selector
                <5> QED
                    BY <5>2 DEF GetSingle, Names
            <4> QED
                BY <1>16, <3>2, <4>1, <4>2, <4>3, <4>4 DEF Mirrors
        <3> QED
            BY <1>6, <2>3, <3>1, <3>2
    <2> QED
        BY <1>16, <2>1, <2>2, <2>3
<1>29. ASSUME NEW v \in made2 PROVE store'[v].type = store'[m2[v]].type
    <2>1. m2[v] \in S /\ store'[m2[v]] = store[m2[v]]
        BY <1>18, <1>19
    <2>2. CASE v \in fresh
        BY <1>14, <1>17, <1>19, <2>1, <2>2
    <2>3. CASE v = dst
        BY <1>6, <1>7, <1>13, <1>17, <1>19, <2>1, <2>3
    <2>4. CASE v \in made /\ v # dst
        BY <1>6, <1>17, <1>19, <2>1, <2>4
    <2> QED
        BY <1>16, <2>2, <2>3, <2>4
<1>30. S \subseteq live' /\ S \cap made2 = {} /\ made2 \subseteq live' /\ to \in made2 /\ m2[to] = from
    BY <1>2, <1>6, <1>15, <1>16, <1>19
<1>31. Closed(store', S)
    BY <1>6, <1>18 DEF Closed
<1>32. Copying(store', live', next', from, to, todo(order), S, m2)
    BY <1>6, <1>19, <1>27, <1>28, <1>29, <1>30, <1>31 DEF Copying, made2
<1> QED
    BY <1>1, <1>18, <1>32 DEF from, to

\* A copy goes on until it is done.
LEMMA CopyActs ==
    ASSUME call.op = "copy", [Next]_vars
    PROVE  CopyChildren \/ UNCHANGED vars
<1>1. call # Idle
    BY DEF Idle
<1> QED
    BY <1>1 DEF Next, New, AddLevel, AddThrow, Prune, PruneThrow, SetArray, SetScalar,
                SetType, GetOrCreate, AddChild, SetChild, Insert, DeleteChild, Clean,
                Assign, CopyBuffer, CopyTree

\* It begins with copy(true) of a node that has children.
LEMMA CopyBegins ==
    ASSUME TreeInv, call.op # "copy", call'.op = "copy", [Next]_vars
    PROVE  \E u \in Drawn : CopyTree(u)
<1>1. call' # call /\ call' # Idle
    BY DEF Idle
<1>2. ~CopyChildren
    BY DEF CopyChildren
<1>3. ~Prune
    <2> SUFFICES ASSUME Prune PROVE FALSE
        OBVIOUS
    <2>1. call \in PruneCall
        BY CallKinds DEF TreeInv, Prune
    <2> QED
        BY <1>1, <2>1 DEF Prune, Returned, PruneCall
<1>4. ~AddLevel
    <2> SUFFICES ASSUME AddLevel PROVE FALSE
        OBVIOUS
    <2>1. call \in AddCall
        BY CallKinds DEF TreeInv, AddLevel
    <2> QED
        BY <1>1, <2>1, AddLevelCall DEF AddCall
<1> QED
    BY <1>1, <1>2, <1>3, <1>4
       DEF Next, vars, New, AddThrow, PruneThrow, SetArray, SetScalar, SetType, SetChild,
           GetOrCreate, AddChild, NewAddCall, Insert, DeleteChild, Clean, Assign, CopyBuffer

LEMMA CopyWayStep ==
    ASSUME TreeInv, TreeInv', CopyWay, [Next]_vars
    PROVE  CopyWay'
<1> SUFFICES ASSUME call'.op = "copy"
             PROVE  \E S, m : Copying(store', live', next', call'.from, call'.to, call'.todo, S, m)
    BY DEF CopyWay
<1>1. CASE call.op # "copy"
    BY <1>1, CopyBegins, CopyStarts
<1>2. CASE call.op = "copy" /\ UNCHANGED vars
    BY <1>2 DEF vars, CopyWay
<1>3. CASE call.op = "copy" /\ CopyChildren
    <2>1. PICK S, m : Copying(store, live, next, call.from, call.to, call.todo, S, m)
        BY <1>3 DEF CopyWay
    <2>2. PICK todo2, m2 :
            /\ Copying(store', live', next', call.from, call.to, todo2, S, m2)
            /\ call' = IF todo2 = <<>> THEN Idle ELSE [call EXCEPT !.todo = todo2]
        BY <1>3, <2>1, CopyGoesOn
    <2>3. call \in CopyCall
        BY <1>3, CallKinds DEF TreeInv
    <2>4. call' = [call EXCEPT !.todo = todo2]
        BY <2>2 DEF Idle
    <2>5. call'.from = call.from /\ call'.to = call.to /\ call'.todo = todo2
        BY <2>3, <2>4 DEF CopyCall
    <2> QED
        BY <2>2, <2>5
<1> QED
    BY <1>1, <1>2, <1>3, CopyActs

LEMMA CopyWayInvariance == Spec => []CopyWay
<1>1. Init => CopyWay
    BY DEF Init, Idle, CopyWay
<1> QED
    BY <1>1, CopyWayStep, Invariance, PTL DEF Spec

\* When copy(true) has returned, the source is as it was, shares no node with the copy,
\* and the same paths lead to nodes of the same types in both, shared nodes and cycles
\* in the source included (hdc.cpp:1691-1735).
THEOREM CopyCorrect == Spec => CopyFaithful
<1> DEFINE Faithful ==
        call.op = "copy" /\ call' = Idle =>
            \A from \in {call.from}, to \in {call.to} :
                /\ Reach(from)' \cap Reach(to)' = {}
                /\ \A v \in Reach(from) : store'[v] = store[v]
                /\ \A p \in Paths \cap Seq(Key) :
                    /\ Exists(from, p)' = Exists(to, p)'
                    /\ Exists(from, p)' =>
                        store'[Get(from, p)'].type = store'[Get(to, p)'].type
<1>1. TreeInv /\ TreeInv' /\ CopyWay /\ [Next]_vars => Faithful
    <2> SUFFICES ASSUME TreeInv, TreeInv', CopyWay, [Next]_vars,
                        call.op = "copy", call' = Idle,
                        NEW from \in {call.from}, NEW to \in {call.to}
                 PROVE  /\ Reach(from)' \cap Reach(to)' = {}
                        /\ \A v \in Reach(from) : store'[v] = store[v]
                        /\ \A p \in Paths \cap Seq(Key) :
                            /\ Exists(from, p)' = Exists(to, p)'
                            /\ Exists(from, p)' =>
                                store'[Get(from, p)'].type = store'[Get(to, p)'].type
        OBVIOUS
    <2> DEFINE made == to..(next' - 1)
    <2>0. from = call.from /\ to = call.to
        OBVIOUS
    <2>1. CopyChildren /\ call \in CopyCall
        BY CallKinds, CopyActs DEF TreeInv, vars, Idle
    <2>2. from \in Uuid /\ to \in Uuid
        BY <2>0, <2>1 DEF CopyCall
    <2>3. PICK S, m : Copying(store, live, next, from, to, call.todo, S, m)
        BY <2>0 DEF CopyWay
    <2>4. PICK todo2, m2 :
            /\ Copying(store', live', next', from, to, todo2, S, m2)
            /\ call' = IF todo2 = <<>> THEN Idle ELSE [call EXCEPT !.todo = todo2]
            /\ \A v \in S : store'[v] = store[v]
        BY <2>0, <2>1, <2>3, CopyGoesOn
    <2>5. todo2 = <<>>
        <3>1. Idle # [call EXCEPT !.todo = todo2]
            BY <2>1 DEF CopyCall, Idle
        <3> QED
            BY <2>4, <3>1
    <2>6. Copying(store', live', next', from, to, <<>>, S, m2)
        BY <2>4, <2>5
    <2>7. /\ store \in Stores /\ live \in SUBSET Uuid
          /\ store' \in Stores /\ live' \in SUBSET Uuid
        BY TreeStores, NextStores
    <2>8. /\ from \in S /\ S \in SUBSET Uuid /\ Closed(store, S)
        BY <2>3, <2>7 DEF Copying
    <2>9. /\ S \cap made = {} /\ to \in made /\ made \in SUBSET Uuid
          /\ Closed(store', S) /\ \A v \in made : Mirrors(store', m2, v, made)
        BY <2>6, <2>7 DEF Copying
    <2> HIDE DEF made
    <2>10. Closed(store', made)
        BY <2>9 DEF Closed, Mirrors
    <2>11. Near(store, from)[MaxUuid] \subseteq S
        BY <2>7, <2>8, NearWithin
    <2>12. Near(store', from)[MaxUuid] \subseteq S
        BY <2>7, <2>8, <2>9, NearWithin
    <2>13. Near(store', to)[MaxUuid] \subseteq made
        BY <2>7, <2>9, <2>10, NearWithin
    <2>14. Reach(from)' \cap Reach(to)' = {} /\ \A v \in Reach(from) : store'[v] = store[v]
        BY <2>4, <2>9, <2>11, <2>12, <2>13 DEF Reach
    <2>15. ASSUME NEW p \in Paths \cap Seq(Key)
           PROVE  /\ Exists(from, p)' = Exists(to, p)'
                  /\ Exists(from, p)' =>
                        store'[Get(from, p)'].type = store'[Get(to, p)'].type
        <3> DEFINE x == Resolve(store', live', from, p)
                   y == Resolve(store', live', to, p)
        <3>1. p \in Seq(Selector) \ {<<>>} /\ p \in Seq(Key)
            BY PathsAssumption
        <3>2. (x = Null <=> y = Null) /\ (y # Null => store'[x].type = store'[y].type)
            BY <2>2, <2>6, <2>7, <3>1, CopiedPaths
        <3>3. Exists(from, p)' <=> x # Null
            BY <2>2, <2>7, <3>1, FoundAll DEF Exists, Get
        <3>4. Exists(to, p)' <=> y # Null
            BY <2>2, <2>7, <3>1, FoundAll DEF Exists, Get
        <3> QED
            BY <3>2, <3>3, <3>4 DEF Get, Exists
    <2> QED
        BY <2>14, <2>15
<1>2. TreeInv /\ TreeInv' /\ CopyWay /\ [Next]_vars => [Faithful]_vars
    BY <1>1
<1> QED
    BY Invariance, CopyWayInvariance, <1>2, PTL DEF CopyFaithful, Spec
-----------------------------------------------------------------------------
(***************************************************************************)
(* The shape of the tree: every record names a node that is there          *)
(* (RecordsResolve), no node has two parents or is below itself            *)
(* (TreeShaped), and delete_child() erases no more than it says            *)
(* (DeleteErasesOnlyTheDeleted, PruneExact); for a client that uses paths  *)
(* of keys, does not call clean() and links no node twice; for every set   *)
(* of keys and every bound on the uuids.                                   *)
(*                                                                         *)
(* The invariant LinkInv adds to TreeInv what makes it last: no two        *)
(* records of the tree lead to one node, so that delete_child() takes out  *)
(* the only record of the node it removes; and the node that add_child()   *)
(* is about to link has no parent.  AcyclicInv adds that links lead down   *)
(* only, PruneWay where the pruning stands.                                *)
(***************************************************************************)

\* The client of which this is true: delete_child() with an index, clean() and a node
\* that is linked twice leave records that lead nowhere.
KeyClient == ~Sharing /\ Paths \subseteq Seq(Key) /\ "clean" \notin Calls

Apart(nd) == \A i, j \in DOMAIN nd.kids : nd.kids[i].addr = nd.kids[j].addr => i = j

Links ==
    /\ RecordsResolve
    /\ \A u \in live : Apart(store[u])
    /\ \A u, v \in live : u # v => Children(u) \cap Children(v) = {}

CallLinks ==
    /\ call.op = "add" => call.child \in live \ Referenced /\ call.path \in Seq(Key)
    /\ call.op = "prune" => \A i \in DOMAIN call.frames : call.frames[i].sel \in Key

LinkInv == Links /\ CallLinks

----------------------------------------------------------------------------
(* Nodes: which nodes the records of a node lead to after a change.         *)

\* A node without records.
LEMMA LeafLinks ==
    ASSUME NEW nd, nd.kids = <<>>
    PROVE  Names(nd) = {} /\ Apart(nd)
<1>1. DOMAIN nd.kids = {}
    OBVIOUS
<1> QED
    BY <1>1 DEF Names, Apart

\* SetTypeOf() keeps the records, or there are none.
LEMMA SetTypeOfLinks ==
    ASSUME NEW D, NEW nd \in SoundNode(D), Apart(nd),
           NEW type \in {"STRUCT", "LIST"}
    PROVE  LET st == SetTypeOf(nd, type)
           IN  Names(st) \subseteq Names(nd) /\ Apart(st)
<1>1. CASE nd.type = type
    BY <1>1 DEF SetTypeOf
<1>2. CASE nd.type # type
    <2>1. SetTypeOf(nd, type) = [nd EXCEPT !.type = type, !.kids = <<>>]
        BY <1>2 DEF SetTypeOf
    <2>2. SetTypeOf(nd, type).kids = <<>>
        BY <2>1, SoundNodeParts
    <2> QED
        BY <2>2, LeafLinks
<1> QED
    BY <1>1, <1>2

\* A key that a level of add_child() refuses.
LEMMA RefusedLinks ==
    ASSUME NEW D, NEW nd \in SoundNode(D), Apart(nd), NEW sel
    PROVE  LET st == Refused(nd, sel)
           IN  Names(st) \subseteq Names(nd) /\ Apart(st)
BY SetTypeOfLinks DEF Refused

\* A level of add_child() with a key adds one record at most, with the node it links.
LEMMA AttachedLinks ==
    ASSUME NEW D, NEW nd \in SoundNode(D), Apart(nd),
           NEW key \in Key, Accepts(nd, key), NEW x, x \notin Names(nd), NEW pad
    PROVE  LET st == Attached(nd, key, x, pad)
           IN  Names(st) \subseteq Names(nd) \cup {x} /\ Apart(st)
<1> DEFINE st == SetTypeOf(nd, "STRUCT")
           rec == [key |-> key, addr |-> x]
           added == Append(st.kids, rec)
           new == Attached(nd, key, x, pad)
<1>1. key \notin Nat /\ new = AddedSingle(nd, key, x)
    BY KeyAssumption DEF Attached
<1>2. nd.type \in {"EMPTY", "STRUCT"}
    BY <1>1 DEF Accepts
<1>3. /\ st \in SoundNode(D) /\ st.type = "STRUCT"
      /\ Names(st) \subseteq Names(nd) /\ Apart(st)
    BY <1>2, SetTypeOfSound, SetTypeOfLinks
<1>4. new = IF ExistsSingle(st, key) THEN [st EXCEPT !.kids = st.kids, !.len = Len(st.kids)]
            ELSE [st EXCEPT !.kids = added, !.len = Len(added)]
    BY <1>1 DEF AddedSingle
<1> HIDE DEF st, new
<1>5. /\ st \in [type : Type, len : Nat, kids : Seq([key : Selector, addr : D])]
      /\ st.kids \in Seq([key : Selector, addr : D])
      /\ Len(st.kids) \in Nat /\ DOMAIN st.kids = 1..Len(st.kids)
    BY <1>3, SoundNodeParts
<1>6. CASE ExistsSingle(st, key)
    <2>1. new.kids = st.kids /\ new.type = "STRUCT"
        BY <1>3, <1>4, <1>5, <1>6
    <2> QED
        BY <1>3, <2>1 DEF Names, Apart, new
<1>7. CASE ~ExistsSingle(st, key)
    <2>1. new.kids = added /\ new.type = "STRUCT"
        <3> HIDE DEF added
        <3> QED
            BY <1>3, <1>4, <1>5, <1>7
    <2>2. /\ DOMAIN added = 1..(Len(st.kids) + 1)
          /\ \A i \in 1..Len(st.kids) : added[i] = st.kids[i]
          /\ added[Len(st.kids) + 1].addr = x
        BY <1>5
    <2> HIDE DEF added
    <2>3. \A i \in DOMAIN added : i \in DOMAIN st.kids \/ i = Len(st.kids) + 1
        BY <1>5, <2>2
    <2>4. \A i \in DOMAIN st.kids : st.kids[i].addr \in Names(nd)
        BY <1>3 DEF Names
    <2>5. Names(new) \subseteq Names(nd) \cup {x}
        BY <1>5, <2>1, <2>2, <2>3, <2>4 DEF Names
    <2>6. Apart(new)
        <3> SUFFICES ASSUME NEW i \in DOMAIN added, NEW j \in DOMAIN added,
                            added[i].addr = added[j].addr
                     PROVE  i = j
            BY <2>1 DEF Apart
        <3>1. CASE i \in DOMAIN st.kids /\ j \in DOMAIN st.kids
            BY <1>3, <1>5, <2>2, <3>1 DEF Apart
        <3>2. CASE i \notin DOMAIN st.kids \/ j \notin DOMAIN st.kids
            BY <1>5, <2>2, <2>3, <2>4, <3>2
        <3> QED
            BY <3>1, <3>2
    <2> QED
        BY <2>5, <2>6 DEF new
<1> QED
    BY <1>6, <1>7

\* set_child() makes the record lead to the new child.
LEMMA RelinkedLinks ==
    ASSUME NEW D, NEW nd \in SoundNode(D), Apart(nd),
           NEW sel \in Selector, ExistsSingle(nd, sel), NEW x, x \notin Names(nd)
    PROVE  LET st == Relinked(nd, sel, x)
           IN  Names(st) \subseteq Names(nd) \cup {x} /\ Apart(st)
<1> DEFINE p == Position(nd, sel)
           rec == [nd.kids[p] EXCEPT !.addr = x]
           kids == [nd.kids EXCEPT ![p] = rec]
           new == Relinked(nd, sel, x)
<1>1. p \in 1..Len(nd.kids) /\ p \in DOMAIN nd.kids
    BY GetSingleSound, SoundNodeParts
<1>2. /\ nd \in [type : Type, len : Nat, kids : Seq([key : Selector, addr : D])]
      /\ nd.kids \in Seq([key : Selector, addr : D])
    BY SoundNodeParts
<1>3. new = [nd EXCEPT !.kids = kids]
    BY DEF Relinked
<1> HIDE DEF p
<1>4. nd.kids[p] \in [key : Selector, addr : D]
    BY <1>1, <1>2, ElementOfSeq
<1>5. rec.addr = x /\ rec.key = nd.kids[p].key
    BY <1>4
<1> HIDE DEF rec
<1>6. DOMAIN kids = DOMAIN nd.kids
      /\ \A i \in DOMAIN nd.kids : kids[i] = IF i = p THEN rec ELSE nd.kids[i]
    BY <1>1, <1>2
<1> HIDE DEF kids, new
<1>7. new.kids = kids /\ new.type = nd.type
    BY <1>2, <1>3
<1>8. \A i \in DOMAIN nd.kids : nd.kids[i].addr \in Names(nd)
    BY DEF Names
<1>9. Names(new) \subseteq Names(nd) \cup {x}
    BY <1>5, <1>6, <1>7, <1>8 DEF Names
<1>10. Apart(new)
    BY <1>5, <1>6, <1>7, <1>8 DEF Apart
<1> QED
    BY <1>9, <1>10 DEF new

\* delete_child() takes out the only record that leads to the node.
LEMMA ErasedLinks ==
    ASSUME NEW D, NEW nd \in SoundNode(D), Apart(nd), NEW j \in DOMAIN nd.kids
    PROVE  LET st == Erased(nd, j)
           IN  Names(st) \subseteq Names(nd) \ {nd.kids[j].addr} /\ Apart(st)
<1> DEFINE kids == RemoveAt(nd.kids, j)
           new == Erased(nd, j)
           from(i) == IF i < j THEN i ELSE i + 1
<1>1. /\ nd \in [type : Type, len : Nat, kids : Seq([key : Selector, addr : D])]
      /\ nd.kids \in Seq([key : Selector, addr : D])
      /\ Len(nd.kids) \in Nat /\ DOMAIN nd.kids = 1..Len(nd.kids)
    BY SoundNodeParts
<1>2. /\ DOMAIN kids = 1..(Len(nd.kids) - 1)
      /\ \A i \in 1..(Len(nd.kids) - 1) :
            kids[i] = IF i < j THEN nd.kids[i] ELSE nd.kids[i + 1]
    BY <1>1, RemoveAtSeq
<1>3. new = [nd EXCEPT !.kids = kids, !.len = Len(nd.kids) - 1]
    BY DEF Erased
<1> HIDE DEF kids, new
<1>4. new.kids = kids /\ new.type = nd.type
    BY <1>1, <1>3
<1>5. ASSUME NEW i \in DOMAIN kids
      PROVE  from(i) \in DOMAIN nd.kids /\ from(i) # j /\ kids[i] = nd.kids[from(i)]
    BY <1>1, <1>2, <1>5
<1>6. ASSUME NEW i \in DOMAIN kids, NEW k \in DOMAIN kids, from(i) = from(k)
      PROVE  i = k
    BY <1>1, <1>2, <1>6
<1> HIDE DEF from
<1>7. Names(new) \subseteq Names(nd) \ {nd.kids[j].addr}
    BY <1>4, <1>5 DEF Names, Apart
<1>8. Apart(new)
    BY <1>4, <1>5, <1>6 DEF Apart
<1> QED
    BY <1>7, <1>8 DEF new

\* Of a key there is one record, and it is in a STRUCT.
LEMMA KeyFindsOne ==
    ASSUME NEW D, NEW nd \in SoundNode(D), NEW key \in Key, ExistsSingle(nd, key)
    PROVE  Erasable(nd, key) = {Position(nd, key)}
<1> DEFINE p == Position(nd, key)
<1>1. key \notin Nat /\ key \in Selector
    BY KeyAssumption DEF Selector
<1>2. /\ nd.type \in {"STRUCT", "LIST"}
      /\ \E i \in DOMAIN nd.kids : nd.kids[i].key = key
    BY <1>1 DEF ExistsSingle, IsTerminal
<1>3. p \in DOMAIN nd.kids /\ nd.kids[p].key = key
    BY <1>1, <1>2 DEF Position
<1>4. nd.type = "STRUCT"
    <2>1. SliceKeys(nd)
        BY SoundNodeParts
    <2> QED
        BY <1>1, <1>2, <2>1 DEF SliceKeys
<1>5. KeysUnique(nd.kids)
    BY <1>4, SoundNodeParts
<1> HIDE DEF p
<1> QED
    BY <1>3, <1>5 DEF Erasable, KeysUnique, p

\* insert() adds a record of the new child and those of the nodes it pads with.
LEMMA InsertedLinks ==
    ASSUME NEW D, NEW nd \in SoundNode(D), nd.type \in {"EMPTY", "LIST"},
           Apart(nd), NEW index \in Nat, NEW pad \in Nat,
           NEW x, x \notin Names(nd), x \notin pad..(pad + Padding(nd, index) - 1),
           Names(nd) \cap pad..(pad + Padding(nd, index) - 1) = {}
    PROVE  LET st == Inserted(nd, index, x, pad)
           IN  /\ Names(st) \subseteq Names(nd) \cup {x} \cup pad..(pad + Padding(nd, index) - 1)
               /\ Apart(st)
<1> DEFINE n == Padding(nd, index)
           new == pad..(pad + n - 1)
           pads == [i \in 1..n |-> [key |-> nd.len + i - 1, addr |-> pad + i - 1]]
           padded == nd.kids \o pads
           rec == [key |-> index, addr |-> x]
           R == [key : Selector, addr : D \cup new \cup {x}]
           kids == InsertAt(padded, index + 1, rec)
           size == Len(nd.kids)
           from(i) == IF i < index + 1 THEN i ELSE i - 1
<1>1. /\ nd.kids \in Seq([key : Selector, addr : D])
      /\ nd.len \in Nat /\ nd.len = size /\ DOMAIN nd.kids = 1..size
      /\ nd.type = "EMPTY" => nd.kids = <<>>
    BY SoundNodeParts DEF IsTerminal
<1>2. n \in Nat /\ index <= size + n
    <2>1. CASE index > size
        <3>1. n = index - nd.len
            BY <1>1, <2>1 DEF Padding
        <3> HIDE DEF n
        <3> QED
            BY <1>1, <2>1, <3>1
    <2>2. CASE ~(index > size)
        <3>1. n = 0
            BY <1>1, <2>2 DEF Padding
        <3> HIDE DEF n
        <3> QED
            BY <1>1, <2>2, <3>1
    <2> QED
        BY <2>1, <2>2
<1> HIDE DEF n
<1>4. ASSUME NEW i \in 1..n
      PROVE  pads[i].addr = pad + i - 1 /\ pads[i].addr \in new /\ pads[i] \in R
    <2>1. nd.len + i - 1 \in Nat /\ pad + i - 1 \in new
        BY <1>1, <1>2
    <2> QED
        BY <2>1 DEF Selector
<1>5. DOMAIN pads = 1..n /\ pads \in Seq(R) /\ Len(pads) = n
    <2>1. pads \in [1..n -> R]
        BY <1>4
    <2> HIDE DEF pads, R
    <2> QED
        BY <1>2, <2>1, FunctionIsSeq
<1> HIDE DEF pads
<1>6. nd.kids \in Seq(R)
    <2>1. [key : Selector, addr : D] \subseteq R
        OBVIOUS
    <2> QED
        BY <1>1, <2>1, SeqMonotonic
<1>7. /\ padded \in Seq(R) /\ Len(padded) = size + n
      /\ \A i \in 1..(size + n) : padded[i] = IF i <= size THEN nd.kids[i] ELSE pads[i - size]
    <2> HIDE DEF R
    <2> DEFINE s == nd.kids
    <2> HIDE DEF s
    <2>1. s \in Seq(R) /\ Len(s) = size
        BY <1>6 DEF s
    <2>2. /\ s \o pads \in Seq(R) /\ Len(s \o pads) = Len(s) + Len(pads)
          /\ \A i \in 1..(Len(s) + Len(pads)) :
                (s \o pads)[i] = IF i <= Len(s) THEN s[i] ELSE pads[i - Len(s)]
        <3>1. pads \in Seq(R) /\ s \in Seq(R)
            BY <1>5, <2>1
        <3> QED
            BY <3>1, ConcatProperties
    <2>3. padded = s \o pads
        BY DEF s
    <2> HIDE DEF size, padded
    <2> QED
        BY <1>5, <2>1, <2>2, <2>3 DEF s
<1> HIDE DEF padded
<1>8. ASSUME NEW i \in 1..(size + n)
      PROVE  padded[i].addr \in Names(nd) \cup new
    <2>1. CASE i <= size
        <3>1. i \in DOMAIN nd.kids /\ padded[i] = nd.kids[i]
            BY <1>1, <1>2, <1>7, <2>1
        <3> QED
            BY <3>1 DEF Names
    <2>2. CASE ~(i <= size)
        <3>1. i - size \in 1..n
            BY <1>1, <1>2, <2>2
        <3> QED
            BY <1>4, <1>7, <2>2, <3>1
    <2> QED
        BY <2>1, <2>2
<1>9. ASSUME NEW i \in 1..(size + n), NEW j \in 1..(size + n), padded[i].addr = padded[j].addr
      PROVE  i = j
    <2>1. \A k \in 1..(size + n) :
            /\ k <= size => padded[k] = nd.kids[k] /\ k \in DOMAIN nd.kids
                            /\ padded[k].addr \in Names(nd)
            /\ k > size => padded[k].addr = pad + (k - size) - 1 /\ padded[k].addr \in new
        <3> TAKE k \in 1..(size + n)
        <3>1. CASE k <= size
            <4>1. k \in DOMAIN nd.kids /\ padded[k] = nd.kids[k]
                BY <1>1, <1>7, <3>1
            <4> QED
                BY <1>1, <3>1, <4>1 DEF Names
        <3>2. CASE k > size
            <4>1. k - size \in 1..n /\ ~(k <= size)
                BY <1>1, <1>2, <3>2
            <4> QED
                BY <1>4, <1>7, <3>2, <4>1
        <3> QED
            BY <1>1, <1>2, <3>1, <3>2
    <2>2. CASE i <= size /\ j <= size
        BY <1>9, <2>1, <2>2 DEF Apart
    <2>3. CASE i > size /\ j > size
        <3>1. pad + (i - size) - 1 = pad + (j - size) - 1
            BY <1>9, <2>1, <2>3
        <3>2. i \in Int /\ j \in Int /\ size \in Int
            BY <1>1, <1>2
        <3> QED
            BY <3>1, <3>2
    <2>4. Names(nd) \cap new = {}
        BY DEF n
    <2>5. CASE i <= size /\ j > size
        <3> HIDE DEF new
        <3> QED
            BY <1>9, <2>1, <2>4, <2>5
    <2>6. CASE i > size /\ j <= size
        <3> HIDE DEF new
        <3> QED
            BY <1>9, <2>1, <2>4, <2>6
    <2>7. i \in Int /\ j \in Int /\ size \in Int
        BY <1>1, <1>2
    <2> QED
        BY <2>2, <2>3, <2>5, <2>6, <2>7
<1>10. rec \in R /\ rec.addr = x /\ index + 1 \in 1..(Len(padded) + 1)
    BY <1>1, <1>2, <1>7 DEF Selector
<1> HIDE DEF rec
<1>11. /\ DOMAIN kids = 1..(size + n + 1)
       /\ \A i \in 1..(size + n + 1) :
            kids[i] = IF i < index + 1 THEN padded[i]
                      ELSE IF i = index + 1 THEN rec ELSE padded[i - 1]
    <2> DEFINE pos == index + 1
    <2> HIDE DEF R, size
    <2>1. padded \in Seq(R) /\ rec \in R /\ pos \in 1..(Len(padded) + 1)
        BY <1>7, <1>10
    <2> HIDE DEF pos
    <2>2. /\ DOMAIN InsertAt(padded, pos, rec) = 1..(Len(padded) + 1)
          /\ \A i \in 1..(Len(padded) + 1) :
                InsertAt(padded, pos, rec)[i] = IF i < pos THEN padded[i]
                                                ELSE IF i = pos THEN rec ELSE padded[i - 1]
        BY <2>1, InsertAtElements
    <2>3. Len(padded) + 1 = size + n + 1
        BY <1>7
    <2>4. kids = InsertAt(padded, pos, rec)
        BY DEF pos
    <2> HIDE DEF kids
    <2> QED
        BY <2>2, <2>3, <2>4 DEF pos
<1>12. Inserted(nd, index, x, pad) = [type |-> "LIST", len |-> Len(kids), kids |-> kids]
    BY DEF Inserted, pads, padded, n, rec
<1> HIDE DEF kids
<1>13. ASSUME NEW i \in DOMAIN kids, i # index + 1
       PROVE  from(i) \in 1..(size + n) /\ kids[i] = padded[from(i)]
    <2>1. i \in 1..(size + n + 1) /\ index \in Nat /\ size \in Nat
        BY <1>1, <1>11
    <2>2. CASE i < index + 1
        BY <1>2, <1>11, <2>1, <2>2
    <2>3. CASE ~(i < index + 1)
        BY <1>2, <1>11, <1>13, <2>1, <2>3
    <2> QED
        BY <2>2, <2>3
<1>14. ASSUME NEW i \in DOMAIN kids, i # index + 1, NEW j \in DOMAIN kids, j # index + 1,
              from(i) = from(j)
       PROVE  i = j
    <2>1. i \in Int /\ j \in Int
        BY <1>1, <1>2, <1>11
    <2> QED
        BY <1>14, <2>1
<1> HIDE DEF from
<1>15. kids[index + 1] = rec
    BY <1>1, <1>2, <1>11
<1>16. ASSUME NEW i \in DOMAIN kids
       PROVE  /\ kids[i].addr \in Names(nd) \cup {x} \cup new
              /\ i # index + 1 => kids[i].addr # x
    <2>1. CASE i = index + 1
        BY <1>10, <1>15, <2>1
    <2>2. CASE i # index + 1
        <3>1. kids[i].addr \in Names(nd) \cup new
            <4> HIDE DEF new
            <4> QED
                BY <1>8, <1>13, <2>2
        <3>2. x \notin Names(nd) \cup new
            BY DEF n
        <3> HIDE DEF new
        <3> QED
            BY <3>1, <3>2
    <2> QED
        BY <2>1, <2>2
<1>17. ASSUME NEW i \in DOMAIN kids, NEW j \in DOMAIN kids, kids[i].addr = kids[j].addr
       PROVE  i = j
    <2>1. CASE i # index + 1 /\ j # index + 1
        BY <1>9, <1>13, <1>14, <1>17, <2>1
    <2>2. CASE i = index + 1 \/ j = index + 1
        BY <1>10, <1>15, <1>16, <1>17, <2>2
    <2> QED
        BY <2>1, <2>2
<1> HIDE DEF new
<1> QED
    BY <1>12, <1>16, <1>17 DEF Names, Apart, new, n

\* The records of a copy lead to the copies of the children.
LEMMA CopiedLinks ==
    ASSUME NEW D, NEW nd \in SoundNode(D), NEW from \in SoundNode(D), nd.type = from.type,
           NEW first \in Nat,
           NEW order \in Injection(1..Len(from.kids), 1..Len(from.kids))
    PROVE  LET st == [nd EXCEPT !.kids = CopiedKids(from.kids, order, first), !.len = from.len]
           IN  /\ Names(st) \subseteq first..(first + Len(from.kids) - 1)
               /\ Apart(st)
<1> DEFINE n == Len(from.kids)
           kids == CopiedKids(from.kids, order, first)
           new == [nd EXCEPT !.kids = kids, !.len = from.len]
<1>1. /\ n \in Nat /\ DOMAIN from.kids = 1..n
      /\ \A i \in 1..n : order[i] \in 1..n
    BY SoundNodeParts DEF Injection
<1>2. DOMAIN kids = 1..n
      /\ \A i \in 1..n : kids[i].key = from.kids[order[i]].key /\ kids[i].addr = first + i - 1
    BY DEF CopiedKids
<1> HIDE DEF kids, n
<1>3. new.kids = kids /\ new.type = nd.type
    BY SoundNodeParts
<1> HIDE DEF new
<1>4. Names(new) \subseteq first..(first + n - 1)
    BY <1>1, <1>2, <1>3 DEF Names
<1>5. Apart(new)
    BY <1>1, <1>2, <1>3 DEF Apart
<1> QED
    BY <1>4, <1>5 DEF new, kids, n

----------------------------------------------------------------------------
(* The tree: a step changes the records of one node u at most, and the nodes *)
(* it makes have none.                                                       *)

LEMMA ReferencedDrawn ==
    ASSUME TreeInv
    PROVE  Referenced \subseteq Drawn
<1> SUFFICES ASSUME NEW u \in live, NEW i \in DOMAIN store[u].kids
             PROVE  store[u].kids[i].addr \in Drawn
    BY DEF Referenced, Children, Names
<1>1. store[u] \in SoundNode(Drawn)
    BY DrawnNode DEF TreeInv
<1>2. /\ store[u].kids \in Seq([key : Selector, addr : Drawn])
      /\ i \in 1..Len(store[u].kids)
    BY <1>1, SoundNodeParts
<1>3. store[u].kids[i] \in [key : Selector, addr : Drawn]
    BY <1>2, ElementOfSeq
<1> QED
    BY <1>3

LEMMA LinksKept ==
    ASSUME Links, NEW u,
           \A v \in live' : v # u =>
                \/ v \in live /\ store'[v] = store[v]
                \/ store'[v].kids = <<>>,
           u \in live' =>
                /\ Apart(store'[u])
                /\ \A a \in Names(store'[u]) :
                        (u \in live /\ a \in Children(u)) \/ a \notin Referenced,
           \A v \in live' : Names(store'[v]) \subseteq live'
    PROVE  Links'
<1>1. \A v \in live' : Children(v)' = Names(store'[v])
    BY DEF Children, Names
<1>2. \A v \in live : Children(v) = Names(store[v]) /\ Children(v) \subseteq Referenced
    BY DEF Children, Names, Referenced
<1>3. RecordsResolve'
    BY <1>1 DEF RecordsResolve
<1>4. ASSUME NEW v \in live' PROVE Apart(store'[v])
    BY LeafLinks DEF Links
<1>5. ASSUME NEW v \in live', v # u
      PROVE  \/ Names(store'[v]) = {}
             \/ v \in live /\ Names(store'[v]) = Children(v)
    <2>1. CASE v \in live /\ store'[v] = store[v]
        BY <1>2, <2>1
    <2>2. CASE store'[v].kids = <<>>
        <3>1. Names(store'[v]) = {}
            BY <2>2, LeafLinks
        <3> QED
            BY <3>1
    <2> QED
        BY <1>5, <2>1, <2>2
<1>6. ASSUME NEW v \in live', NEW w \in live', v # w
      PROVE  Names(store'[v]) \cap Names(store'[w]) = {}
    <2>1. CASE v # u /\ w # u
        BY <1>5, <1>6, <2>1 DEF Links
    <2>2. CASE v = u
        BY <1>2, <1>5, <1>6, <2>2 DEF Links
    <2>3. CASE w = u
        BY <1>2, <1>5, <1>6, <2>3 DEF Links
    <2> QED
        BY <2>1, <2>2, <2>3
<1> QED
    BY <1>1, <1>3, <1>4, <1>6 DEF Links

\* The same for a step that removes no node.
LEMMA LinksGrow ==
    ASSUME Links, NEW u, live \subseteq live',
           \A v \in live' : v # u =>
                \/ v \in live /\ store'[v] = store[v]
                \/ store'[v].kids = <<>>,
           u \in live' =>
                /\ Apart(store'[u])
                /\ Names(store'[u]) \subseteq live'
                /\ \A a \in Names(store'[u]) :
                        (u \in live /\ a \in Children(u)) \/ a \notin Referenced
    PROVE  Links'
<1>1. ASSUME NEW v \in live', v # u PROVE Names(store'[v]) \subseteq live'
    <2>1. CASE v \in live /\ store'[v] = store[v]
        BY <2>1 DEF Links, RecordsResolve, Children, Names
    <2>2. CASE store'[v].kids = <<>>
        BY <2>2, LeafLinks
    <2> QED
        BY <1>1, <2>1, <2>2
<1>2. \A v \in live' : Names(store'[v]) \subseteq live'
    BY <1>1
<1> QED
    BY <1>2, LinksKept

\* The same for a step that changes one entry, and leaves no new link in it.
LEMMA OneNodeLinks ==
    ASSUME TreeInv, Links, NEW u \in Uuid, live \subseteq live', live' \subseteq Uuid,
           NEW nd, store' = [store EXCEPT ![u] = nd],
           Apart(nd), Names(nd) \subseteq live',
           \A a \in Names(nd) : (u \in live /\ a \in Children(u)) \/ a \notin Referenced
    PROVE  Links'
<1>1. store'[u] = nd /\ \A v \in Uuid : v # u => store'[v] = store[v]
    BY DEF TreeInv
<1>2. \A v \in live' : v \notin live => store[v].kids = <<>>
    BY DEF TreeInv, EmptyNode
<1>3. \A v \in live' : v # u => (v \in live /\ store'[v] = store[v]) \/ store'[v].kids = <<>>
    BY <1>1, <1>2
<1> QED
    BY <1>1, <1>3, LinksGrow

LEMMA LeafNodeLinks ==
    ASSUME TreeInv, Links, NEW u \in Uuid, live \subseteq live', live' \subseteq Uuid,
           NEW nd, nd.kids = <<>>, store' = [store EXCEPT ![u] = nd]
    PROVE  Links'
BY LeafLinks, OneNodeLinks

\* A step that makes nodes and changes no entry.
LEMMA NewNodeLinks ==
    ASSUME TreeInv, Links, live \subseteq live', live' \subseteq Uuid, UNCHANGED store
    PROVE  Links' /\ Referenced' = Referenced
<1>1. \A v \in live' : v \notin live => store[v].kids = <<>>
    BY DEF TreeInv, EmptyNode
<1>2. ASSUME NEW u, u \notin live' PROVE Links'
    BY <1>1, <1>2, LinksGrow
<1>3. Links'
    <2>1. 0 \notin live'
        BY BoundAssumption DEF Uuid
    <2> QED
        BY <1>2, <2>1
<1>4. \A v \in live' : v \notin live => Children(v) = {}
    BY <1>1, LeafLinks DEF Children
<1>5. Referenced' = Referenced
    <2>1. Referenced' = UNION {Children(v) : v \in live'}
        BY DEF Referenced, Children
    <2> QED
        BY <1>4, <2>1 DEF Referenced
<1> QED
    BY <1>3, <1>5

LEMMA IdleLinks == call' = Idle => CallLinks'
BY DEF CallLinks, Idle

\* What a node may be linked to.
LEMMA NodeLinks ==
    ASSUME TreeInv, Links, NEW u \in live
    PROVE  /\ u \in Uuid /\ store[u] \in SoundNode(Drawn)
           /\ Apart(store[u])
           /\ Children(u) = Names(store[u])
           /\ Children(u) \subseteq Referenced /\ Children(u) \subseteq live
           /\ live \subseteq Uuid
<1>1. live \subseteq Drawn /\ Drawn \subseteq Uuid
    BY BoundAssumption DEF TreeInv, Drawn, Uuid
<1> QED
    BY <1>1, DrawnNode DEF Links, RecordsResolve, Referenced, Children, Names

----------------------------------------------------------------------------
(* The steps. *)

LEMMA InitLinks == Init => LinkInv
<1> SUFFICES ASSUME Init PROVE LinkInv
    OBVIOUS
<1>1. live = {} /\ call = Idle
    BY DEF Init
<1> QED
    BY <1>1 DEF LinkInv, Links, RecordsResolve, CallLinks, Idle

LEMMA NewLinks == ASSUME TreeInv, LinkInv, New PROVE LinkInv'
<1>1. live' \subseteq Uuid /\ live \subseteq live' /\ UNCHANGED store
    BY NewStep, BoundAssumption DEF New, TreeInv, Drawn, Uuid
<1>2. CallLinks'
    BY IdleLinks DEF New
<1> QED
    BY <1>1, <1>2, NewNodeLinks DEF LinkInv

\* The entries that a step leaves are of uuids.
LEMMA LiveUuids == ASSUME TreeInv' PROVE live' \subseteq Uuid
<1>1. live' \subseteq Drawn' /\ next' \in 1..(MaxUuid + 1)
    BY DEF TreeInv
<1>2. Drawn' \subseteq Uuid
    <2>1. \A m \in 1..(MaxUuid + 1) : 1..(m - 1) \subseteq Uuid
        BY BoundAssumption DEF Uuid
    <2>2. Drawn' = 1..(next' - 1)
        BY DEF Drawn
    <2> QED
        BY <1>1, <2>1, <2>2
<1> QED
    BY <1>1, <1>2

LEMMA SetDataLinks ==
    ASSUME TreeInv, LinkInv, NEW u \in Drawn, SetArray(u) \/ SetScalar(u)
    PROVE  LinkInv'
<1>1. /\ u \in Uuid /\ live' \subseteq Uuid /\ live \subseteq live'
      /\ store' = [store EXCEPT ![u] = DataNode] /\ call' = Idle
    BY DrawnNode, SetDataStep, LiveUuids DEF SetArray, SetScalar
<1>2. DataNode.kids = <<>>
    BY DEF DataNode
<1> QED
    BY <1>1, <1>2, IdleLinks, LeafNodeLinks DEF LinkInv

LEMMA SetTypeLinks ==
    ASSUME TreeInv, LinkInv, NEW u \in Drawn, NEW type \in {"STRUCT", "LIST"}, SetType(u, type)
    PROVE  LinkInv'
<1> DEFINE nd == SetTypeOf(store[u], type)
<1>1. /\ u \in live /\ live' = live /\ store' = [store EXCEPT ![u] = nd] /\ call' = Idle
    BY DEF SetType
<1>2. Names(nd) \subseteq Names(store[u]) /\ Apart(nd)
    BY <1>1, NodeLinks, SetTypeOfLinks DEF LinkInv
<1> HIDE DEF nd
<1> QED
    BY <1>1, <1>2, NodeLinks, IdleLinks, OneNodeLinks DEF LinkInv

LEMMA AssignLinks ==
    ASSUME TreeInv, LinkInv, ~Sharing, NEW u \in Drawn, NEW v \in Drawn, Assign(u, v)
    PROVE  LinkInv'
<1>1. /\ u \in live /\ live' = live /\ store' = [store EXCEPT ![u] = store[v]] /\ call' = Idle
      /\ store[v].kids = <<>>
    BY DEF Assign, HasChildren
<1> QED
    BY <1>1, NodeLinks, IdleLinks, LeafNodeLinks DEF LinkInv

LEMMA CopyBufferLinks ==
    ASSUME TreeInv, LinkInv, ~Sharing, NEW u \in Drawn, CopyBuffer(u)
    PROVE  LinkInv'
<1>1. /\ live' = live \cup {next} /\ store' = [store EXCEPT ![next] = store[u]] /\ call' = Idle
      /\ store[u].kids = <<>>
    BY DEF CopyBuffer, HasChildren
<1>2. live' \subseteq Uuid /\ next \in Uuid
    BY <1>1, CopyBufferStep, LiveUuids
<1> QED
    BY <1>1, <1>2, IdleLinks, LeafNodeLinks DEF LinkInv

LEMMA CopyTreeLinks ==
    ASSUME TreeInv, LinkInv, NEW u \in Drawn, CopyTree(u)
    PROVE  LinkInv'
<1> DEFINE nd == [EmptyNode EXCEPT !.type = store[u].type]
<1>1. /\ live' = live \cup {next} /\ store' = [store EXCEPT ![next] = nd]
      /\ call'.op = "copy" /\ nd.kids = <<>>
    BY DEF CopyTree, EmptyNode
<1>2. live' \subseteq Uuid /\ next \in Uuid
    BY <1>1, CopyTreeStep, LiveUuids
<1>3. CallLinks'
    BY <1>1 DEF CallLinks
<1> HIDE DEF nd
<1> QED
    BY <1>1, <1>2, <1>3, LeafNodeLinks DEF LinkInv

\* The client attaches only nodes that are there and have no parent.
LEMMA AttachedNode ==
    ASSUME ~Sharing, NEW root, NEW n, MayAttach(root, n)
    PROVE  n \in live \ Referenced
BY DEF MayAttach

\* The elements of a path are keys.
LEMMA KeyPath ==
    ASSUME KeyClient, NEW path \in Paths
    PROVE  /\ path \in Seq(Key) /\ Len(path) \in Nat \ {0}
           /\ \A i \in 1..Len(path) : path[i] \in Key
           /\ Last(path) \in Key
<1>1. path \in Seq(Key) /\ path # <<>>
    BY PathsAssumption DEF KeyClient
<1>2. Len(path) \in Nat \ {0}
    BY <1>1, LenProperties, EmptySeq
<1>3. \A i \in 1..Len(path) : path[i] \in Key
    BY <1>1, ElementOfSeq
<1> QED
    BY <1>1, <1>2, <1>3 DEF Last

LEMMA SetChildLinks ==
    ASSUME TreeInv, LinkInv, KeyClient, NEW u \in Drawn, NEW path \in Paths, NEW n \in Drawn,
           SetChild(u, path, n)
    PROVE  LinkInv'
<1>1. PICK v \in live :
        /\ ExistsSingle(store[v], Last(path))
        /\ store' = [store EXCEPT ![v] = Relinked(store[v], Last(path), n)]
    BY DEF SetChild
<1> DEFINE nd == Relinked(store[v], Last(path), n)
<1>2. n \in live \ Referenced /\ live' = live /\ call' = Idle
    BY AttachedNode DEF SetChild, KeyClient
<1>3. Last(path) \in Selector
    BY PathElements
<1>4. Names(nd) \subseteq Names(store[v]) \cup {n} /\ Apart(nd)
    BY <1>1, <1>2, <1>3, NodeLinks, RelinkedLinks DEF LinkInv
<1> HIDE DEF nd
<1>5. store' = [store EXCEPT ![v] = nd]
    BY <1>1 DEF nd
<1>6. Names(nd) \subseteq live' /\ live' \subseteq Uuid /\ v \in Uuid
    BY <1>2, <1>4, NodeLinks DEF LinkInv
<1>7. \A a \in Names(nd) : (v \in live /\ a \in Children(v)) \/ a \notin Referenced
    BY <1>2, <1>4, NodeLinks DEF LinkInv
<1> QED
    BY <1>2, <1>4, <1>5, <1>6, <1>7, IdleLinks, OneNodeLinks DEF LinkInv

LEMMA InsertLinks ==
    ASSUME TreeInv, LinkInv, ~Sharing, NEW u \in Drawn, NEW index \in Slots, NEW x \in Drawn,
           Insert(u, index, x)
    PROVE  LinkInv'
<1> DEFINE n == Padding(store[u], index)
           nd == Inserted(store[u], index, x, next)
           new == next..(next + n - 1)
<1>1. /\ u \in live /\ store[u].type \in {"EMPTY", "LIST"}
      /\ CanDraw(n) /\ next' = next + n /\ live' = live \cup new
      /\ store' = [store EXCEPT ![u] = nd] /\ call' = Idle
    BY DEF Insert
<1>2. x \in live \ Referenced
    BY AttachedNode DEF Insert
<1>3. index \in Nat /\ n \in Nat /\ next \in Nat
    BY <1>1, NodeLinks, SlotsAssumption, PaddingNat DEF LinkInv, TreeInv
<1> HIDE DEF n
<1>4. Drawn \cap new = {} /\ live' \subseteq Uuid
    BY <1>1, <1>3, Draw, InsertStep, LiveUuids
<1>5. x \notin Names(store[u]) /\ x \notin new /\ Names(store[u]) \cap new = {}
    BY <1>1, <1>2, <1>4, NodeLinks, ReferencedDrawn DEF LinkInv
<1>6. /\ Names(nd) \subseteq Names(store[u]) \cup {x} \cup new
      /\ Apart(nd)
    BY <1>1, <1>3, <1>5, NodeLinks, InsertedLinks DEF LinkInv, n
<1> HIDE DEF nd, new
<1>7. Names(nd) \subseteq live' /\ live \subseteq live' /\ u \in Uuid
    BY <1>1, <1>2, <1>6, NodeLinks DEF LinkInv
<1>8. \A a \in Names(nd) : (u \in live /\ a \in Children(u)) \/ a \notin Referenced
    BY <1>1, <1>2, <1>4, <1>6, NodeLinks, ReferencedDrawn DEF LinkInv
<1> QED
    BY <1>1, <1>4, <1>6, <1>7, <1>8, IdleLinks, OneNodeLinks DEF LinkInv

LEMMA AddChildLinks ==
    ASSUME TreeInv, LinkInv, KeyClient, NEW u \in Drawn, NEW path \in Paths, NEW n \in Drawn,
           AddChild(u, path, n)
    PROVE  LinkInv'
<1>1. call' = NewAddCall(u, path, n) /\ UNCHANGED <<store, live, next>>
    BY DEF AddChild
<1>2. n \in live \ Referenced
    BY AttachedNode DEF AddChild, KeyClient
<1>3. call'.op = "add" /\ call'.child = n /\ call'.path \in Seq(Key)
    BY <1>1, KeyPath DEF NewAddCall
<1>4. Links' /\ Referenced' = Referenced
    <2>1. live' \subseteq Uuid
        BY AddChildStep, LiveUuids
    <2> QED
        BY <1>1, <2>1, NewNodeLinks DEF LinkInv
<1> QED
    BY <1>1, <1>2, <1>3, <1>4 DEF LinkInv, CallLinks

LEMMA GetOrCreateLinks ==
    ASSUME TreeInv, LinkInv, KeyClient, NEW u \in Drawn, NEW path \in Paths,
           GetOrCreate(u, path)
    PROVE  LinkInv'
<1>1. /\ live' = live \cup {next} /\ call' = NewAddCall(u, path, next) /\ UNCHANGED store
    BY DEF GetOrCreate
<1>2. live' \subseteq Uuid
    BY GetOrCreateStep, LiveUuids
<1>3. call'.op = "add" /\ call'.child = next /\ call'.path \in Seq(Key)
    BY <1>1, KeyPath DEF NewAddCall
<1>4. Links' /\ Referenced' = Referenced
    BY <1>1, <1>2, NewNodeLinks DEF LinkInv
<1>5. next \notin Drawn
    BY DEF TreeInv, Drawn
<1> QED
    BY <1>1, <1>3, <1>4, <1>5, ReferencedDrawn DEF LinkInv, CallLinks

LEMMA AddLevelLinks == ASSUME TreeInv, LinkInv, AddLevel PROVE LinkInv'
<1> DEFINE at == call.at
           key == Head(call.path)
           made == IF Len(call.path) = 1 THEN 0 ELSE 1
           nd == Attached(store[at], key, Linked, next + made)
           new == next..(next + made - 1)
<1>1. /\ call.op = "add" /\ call \in AddCall
      /\ call.path \in Seq(Key) /\ call.path # <<>> /\ call.child \in live \ Referenced
    BY CallKinds DEF AddLevel, TreeInv, LinkInv, CallLinks, AddCall
<1>2. key \in Key /\ key \notin Nat /\ Tail(call.path) \in Seq(Key)
    BY <1>1, KeyAssumption
<1>3. made + LevelPadding(store[at], key) = made
    BY <1>2 DEF LevelPadding
<1>4. /\ at \in live /\ Accepts(store[at], key)
      /\ CanDraw(made) /\ next' = next + made /\ live' = live \cup new
      /\ store' = [store EXCEPT ![at] = nd]
      /\ call' = IF Len(call.path) = 1 THEN Idle
                 ELSE [call EXCEPT !.at = GetSingle(nd, key), !.path = Tail(@)]
    BY <1>3 DEF AddLevel
<1> HIDE DEF at, key
<1>5. Linked \in live' /\ Linked \notin Referenced
    <2>1. CASE Len(call.path) = 1
        BY <1>1, <1>4, <2>1 DEF Linked
    <2>2. CASE Len(call.path) # 1
        <3>1. next \in new /\ next \notin Drawn
            BY <2>2 DEF TreeInv, Drawn
        <3> HIDE DEF new
        <3> QED
            BY <1>4, <2>2, <3>1, ReferencedDrawn DEF Linked
    <2> QED
        BY <2>1, <2>2
<1>6. Names(nd) \subseteq Names(store[at]) \cup {Linked} /\ Apart(nd)
    BY <1>2, <1>4, <1>5, NodeLinks, AttachedLinks DEF LinkInv
<1>7. live' \subseteq Uuid /\ live \subseteq live' /\ at \in Uuid
    BY <1>4, AddLevelStep, LiveUuids, NodeLinks DEF LinkInv
<1> HIDE DEF nd, new
<1>8. Names(nd) \subseteq live'
    BY <1>4, <1>5, <1>6, <1>7, NodeLinks DEF LinkInv
<1>9. \A a \in Names(nd) : (at \in live /\ a \in Children(at)) \/ a \notin Referenced
    BY <1>4, <1>5, <1>6, NodeLinks DEF LinkInv
<1>10. Links'
    BY <1>4, <1>6, <1>7, <1>8, <1>9, OneNodeLinks DEF LinkInv
<1>11. CASE Len(call.path) = 1
    BY <1>4, <1>10, <1>11, IdleLinks DEF LinkInv
<1>12. CASE Len(call.path) # 1
    <2>1. call' = [call EXCEPT !.at = GetSingle(nd, key), !.path = Tail(call.path)]
        BY <1>4, <1>12
    <2>2. call'.op = "add" /\ call'.child = call.child /\ call'.path = Tail(call.path)
        BY <1>1, <2>1 DEF AddCall
    <2>3. Linked # call.child
        <3>1. next \notin live
            BY DEF TreeInv, Drawn
        <3> QED
            BY <1>1, <1>12, <3>1 DEF Linked
    <2>4. ASSUME NEW u \in live' PROVE call.child \notin Children(u)'
        <3>1. Children(u)' = Names(store'[u])
            BY DEF Children, Names
        <3>2. CASE u = at
            <4>1. store'[u] = nd
                BY <1>4, <1>7, <3>2 DEF TreeInv
            <4> QED
                BY <1>1, <1>4, <1>6, <2>3, <3>1, <4>1, NodeLinks DEF LinkInv
        <3>3. CASE u # at
            <4>1. store'[u] = store[u]
                BY <1>4, <1>7, <3>3 DEF TreeInv
            <4>2. CASE u \in live
                BY <1>1, <3>1, <4>1, <4>2, NodeLinks DEF LinkInv
            <4>3. CASE u \notin live
                BY <1>7, <3>1, <4>1, <4>3, LeafLinks DEF TreeInv, EmptyNode
            <4> QED
                BY <4>2, <4>3
        <3> QED
            BY <3>2, <3>3
    <2>5. call.child \notin Referenced'
        BY <2>4 DEF Referenced
    <2>6. CallLinks'
        BY <1>1, <1>2, <1>7, <2>2, <2>5 DEF CallLinks
    <2> QED
        BY <1>10, <2>6 DEF LinkInv
<1> QED
    BY <1>11, <1>12

LEMMA AddThrowLinks == ASSUME TreeInv, LinkInv, AddThrow PROVE LinkInv'
<1> DEFINE at == call.at
           sel == Head(call.path)
           nd == Refused(store[at], sel)
<1>1. /\ call' = Idle /\ live \subseteq live'
      /\ store' = IF at \in live THEN [store EXCEPT ![at] = nd] ELSE store
    BY DEF AddThrow
<1>2. live' \subseteq Uuid
    BY AddThrowStep, LiveUuids
<1> HIDE DEF sel
<1>3. CASE at \in live
    <2>1. Names(nd) \subseteq Names(store[at]) /\ Apart(nd)
        BY <1>3, NodeLinks, RefusedLinks DEF LinkInv
    <2> HIDE DEF nd
    <2>2. Names(nd) \subseteq Children(at) /\ Names(nd) \subseteq live' /\ at \in Uuid
        BY <1>1, <1>3, <2>1, NodeLinks DEF LinkInv
    <2> QED
        BY <1>1, <1>2, <1>3, <2>1, <2>2, IdleLinks, OneNodeLinks DEF LinkInv
<1>4. CASE at \notin live
    BY <1>1, <1>2, <1>4, IdleLinks, NewNodeLinks DEF LinkInv
<1> QED
    BY <1>3, <1>4

\* delete_child() erases the one record of the key, and the entry that it leads to.
LEMMA ErasedRecord ==
    ASSUME TreeInv, LinkInv, NEW v \in live, NEW key \in Key, EraseRecord(v, key),
           NEW p, p = Position(store[v], key), NEW addr, addr = GetSingle(store[v], key)
    PROVE  /\ p \in DOMAIN store[v].kids /\ addr = store[v].kids[p].addr /\ addr \in Drawn
           /\ live' = live \ {addr}
           /\ store' = [store EXCEPT ![v] = Erased(store[v], p), ![addr] = EmptyNode]
<1>1. /\ ExistsSingle(store[v], key) /\ live' = live \ {addr}
      /\ \E j \in Erasable(store[v], key) :
            store' = [store EXCEPT ![v] = Erased(store[v], j), ![addr] = EmptyNode]
    BY DEF EraseRecord
<1>2. Erasable(store[v], key) = {p}
    BY <1>1, NodeLinks, KeyFindsOne DEF LinkInv
<1>3. p \in DOMAIN store[v].kids /\ addr = store[v].kids[p].addr /\ addr \in Drawn
    <2>1. key \in Selector /\ store[v] \in SoundNode(Drawn)
        BY NodeLinks DEF Selector, LinkInv
    <2>2. p \in 1..Len(store[v].kids) /\ addr \in Drawn
        BY <1>1, <2>1, GetSingleSound
    <2> QED
        BY <2>1, <2>2, SoundNodeParts DEF GetSingle
<1> QED
    BY <1>1, <1>2, <1>3

\* delete_child() takes out the record of the node that it removes.
LEMMA EraseRecordLinks ==
    ASSUME TreeInv, LinkInv, NEW v \in live, NEW key \in Key, EraseRecord(v, key)
    PROVE  Links'
<1> DEFINE p == Position(store[v], key)
           addr == GetSingle(store[v], key)
           nd == Erased(store[v], p)
<1>1. /\ p \in DOMAIN store[v].kids /\ addr = store[v].kids[p].addr /\ addr \in Drawn
      /\ live' = live \ {addr}
      /\ store' = [store EXCEPT ![v] = nd, ![addr] = EmptyNode]
    BY ErasedRecord
<1> HIDE DEF p, addr
<1>2. Names(nd) \subseteq Names(store[v]) \ {addr} /\ Apart(nd)
    BY <1>1, NodeLinks, ErasedLinks DEF LinkInv
<1> HIDE DEF nd
<1>3. v \in Uuid /\ addr \in Uuid /\ live \subseteq Uuid
    BY <1>1, DrawnNode, NodeLinks DEF LinkInv
<1>4. /\ \A u \in Uuid : u # v /\ u # addr => store'[u] = store[u]
      /\ v # addr => store'[v] = nd
    BY <1>1, <1>3 DEF TreeInv
<1>5. addr \in Children(v)
    BY <1>1 DEF Children, Names
<1>6. ASSUME NEW u \in live' PROVE Names(store'[u]) \subseteq live'
    <2>1. u \in live /\ u # addr /\ u \in Uuid
        BY <1>1, <1>3
    <2>2. CASE u = v
        BY <1>1, <1>2, <1>4, <2>1, <2>2, NodeLinks DEF LinkInv
    <2>3. CASE u # v
        <3>1. Names(store'[u]) = Children(u)
            BY <1>4, <2>1, <2>3, NodeLinks DEF LinkInv
        <3>2. addr \notin Children(u) /\ Children(u) \subseteq live
            BY <1>5, <2>1, <2>3, NodeLinks DEF LinkInv, Links
        <3> QED
            BY <1>1, <3>1, <3>2
    <2> QED
        BY <2>2, <2>3
<1>7. \A u \in live' : u # v => u \in live /\ store'[u] = store[u]
    BY <1>1, <1>3, <1>4
<1>8. v \in live' =>
            /\ Apart(store'[v])
            /\ \A a \in Names(store'[v]) : v \in live /\ a \in Children(v)
    BY <1>1, <1>2, <1>4, NodeLinks DEF LinkInv
<1> QED
    BY <1>6, <1>7, <1>8, LinksKept DEF LinkInv

LEMMA DeleteChildLinks ==
    ASSUME TreeInv, LinkInv, KeyClient, NEW u \in Drawn, NEW path \in Paths,
           NEW prune \in BOOLEAN, DeleteChild(u, path, prune)
    PROVE  LinkInv'
<1>1. PICK v \in live : EraseRecord(v, Last(path))
    BY DEF DeleteChild
<1>2. Links'
    BY <1>1, KeyPath, EraseRecordLinks
<1>3. CallLinks'
    <2>1. CASE ~(prune /\ Len(path) > 1)
        BY <2>1, IdleLinks DEF DeleteChild
    <2>2. CASE prune /\ Len(path) > 1
        <3>1. /\ call'.op = "prune" /\ DOMAIN call'.frames = 1..(Len(path) - 1)
              /\ \A i \in 1..(Len(path) - 1) : call'.frames[i].sel = path[i]
            BY <2>2 DEF DeleteChild
        <3>2. \A i \in 1..(Len(path) - 1) : path[i] \in Key
            BY KeyPath
        <3> QED
            BY <3>1, <3>2 DEF CallLinks
    <2> QED
        BY <2>1, <2>2
<1> QED
    BY <1>2, <1>3 DEF LinkInv

LEMMA ReturnedLinks ==
    ASSUME TreeInv, LinkInv, call.op = "prune", call' = Returned
    PROVE  CallLinks'
<1>1. call \in PruneCall
    BY CallKinds DEF TreeInv
<1>2. CASE Len(call.frames) = 1
    BY <1>2, IdleLinks DEF Returned
<1>3. CASE Len(call.frames) # 1
    <2>1. call.frames \in Seq(Frame) /\ call.frames # <<>>
        BY <1>1 DEF PruneCall
    <2>2. call' = [call EXCEPT !.frames = Front(call.frames)]
        BY <1>3 DEF Returned
    <2>3. call'.op = "prune" /\ call'.frames = Front(call.frames)
        BY <1>1, <2>2 DEF PruneCall
    <2>4. /\ DOMAIN Front(call.frames) \subseteq DOMAIN call.frames
          /\ \A i \in DOMAIN Front(call.frames) : Front(call.frames)[i] = call.frames[i]
        BY <2>1 DEF Front
    <2> QED
        BY <2>3, <2>4 DEF CallLinks, LinkInv
<1> QED
    BY <1>2, <1>3

LEMMA PruneLinks == ASSUME TreeInv, LinkInv, Prune PROVE LinkInv'
<1> DEFINE f == Last(call.frames)
<1>1. call.op = "prune" /\ call' = Returned /\ PruneSound(f)
    BY DEF Prune
<1>2. CallLinks'
    BY <1>1, ReturnedLinks
<1>3. CASE ~HasChildren(store[f.child]) /\ ExistsSingle(store[f.at], f.sel)
    <2>1. f.at \in live /\ EraseRecord(f.at, f.sel)
        BY <1>1, <1>3 DEF Prune, PruneSound
    <2>2. f.sel \in Key
        <3>1. call.frames \in Seq(Frame) /\ call.frames # <<>>
            BY <1>1, CallKinds DEF TreeInv, PruneCall
        <3>2. Len(call.frames) \in DOMAIN call.frames /\ f = call.frames[Len(call.frames)]
            BY <3>1, LenProperties, EmptySeq DEF Last
        <3> QED
            BY <1>1, <3>2 DEF LinkInv, CallLinks
    <2> HIDE DEF f
    <2> QED
        BY <1>2, <2>1, <2>2, EraseRecordLinks DEF LinkInv
<1>4. CASE ~(~HasChildren(store[f.child]) /\ ExistsSingle(store[f.at], f.sel))
    <2>1. UNCHANGED <<store, live>>
        BY <1>4 DEF Prune
    <2> QED
        BY <1>2, <2>1, PruneStep, LiveUuids, NewNodeLinks DEF LinkInv
<1> QED
    BY <1>3, <1>4

LEMMA PruneThrowLinks == ASSUME TreeInv, LinkInv, PruneThrow PROVE LinkInv'
BY PruneThrowStep, LiveUuids, NewNodeLinks, IdleLinks DEF PruneThrow, LinkInv

LEMMA CopyChildrenLinks == ASSUME TreeInv, LinkInv, CopyChildren PROVE LinkInv'
<1> DEFINE job == Head(call.todo)
           from == store[job.src]
           n == Len(from.kids)
           new == next..(next + n - 1)
           src(i, order) == from.kids[order[i]].addr
           jobs(order) == [i \in 1..n |-> [src |-> src(i, order), dst |-> next + i - 1]]
           copied(order) == [store[job.dst] EXCEPT !.kids = CopiedKids(from.kids, order, next),
                                                   !.len = from.len]
           fresh(v, order) == [EmptyNode EXCEPT !.type = store[src(v - next + 1, order)].type]
           todo(order) == Tail(call.todo) \o jobs(order)
<1>1. PICK order \in Injection(1..n, 1..n) :
        /\ store' = [v \in Uuid |-> IF v = job.dst THEN copied(order)
                                    ELSE IF v \in new THEN fresh(v, order) ELSE store[v]]
        /\ call' = IF todo(order) = <<>> THEN Idle ELSE [call EXCEPT !.todo = todo(order)]
    BY DEF CopyChildren
<1>2. /\ call.op = "copy"
      /\ CanDraw(n) /\ next' = next + n /\ live' = live \cup new
    BY DEF CopyChildren
<1>3. call \in CopyCall /\ CallSound
    BY <1>2, CallKinds DEF TreeInv
<1>4. job = call.todo[1] /\ 1 \in DOMAIN call.todo
    <2>1. call.todo \in Seq([src : Uuid, dst : Uuid]) /\ call.todo # <<>>
        BY <1>3 DEF CopyCall
    <2> QED
        BY <2>1, EmptySeq, LenProperties
<1>5. /\ job.src \in Drawn /\ job.dst \in live
      /\ store[job.dst].type = from.type
    BY <1>2, <1>3, <1>4 DEF CallSound
<1>6. CallLinks'
    <2>1. call' = Idle \/ call'.op = "copy"
        <3> HIDE DEF todo
        <3> QED
            BY <1>1, <1>2, <1>3 DEF CopyCall
    <2> QED
        BY <2>1, IdleLinks DEF CallLinks
<1> HIDE DEF job, todo
<1>7. /\ from \in SoundNode(Drawn) /\ store[job.dst] \in SoundNode(Drawn) /\ job.dst \in Uuid
      /\ n \in Nat /\ next \in Nat
    BY <1>5, DrawnNode, SoundNodeParts, NodeLinks DEF LinkInv, TreeInv
<1> HIDE DEF from
<1>9. Names(copied(order)) \subseteq new /\ Apart(copied(order))
    BY <1>5, <1>7, CopiedLinks
<1>10. Drawn \cap new = {} /\ live' \subseteq Uuid /\ live \subseteq live'
    BY <1>2, <1>7, Draw, CopyChildrenStep, LiveUuids
<1>11. \A v : fresh(v, order).kids = <<>>
    BY DEF EmptyNode
<1> HIDE DEF copied, fresh, new
<1>12. store'[job.dst] = copied(order)
    BY <1>1, <1>7
<1>13. ASSUME NEW v \in live', v # job.dst
       PROVE  (v \in live /\ store'[v] = store[v]) \/ store'[v].kids = <<>>
    BY <1>1, <1>2, <1>10, <1>11, <1>13
<1>14. \A a \in Names(store'[job.dst]) : a \in live' /\ a \notin Referenced
    BY <1>2, <1>9, <1>10, <1>12, ReferencedDrawn
<1>15. Links'
    BY <1>9, <1>10, <1>12, <1>13, <1>14, LinksGrow DEF LinkInv
<1> QED
    BY <1>6, <1>15 DEF LinkInv

LEMMA NextLinks == KeyClient /\ TreeInv /\ LinkInv /\ [Next]_vars => LinkInv'
<1> SUFFICES ASSUME KeyClient, TreeInv, LinkInv, [Next]_vars PROVE LinkInv'
    OBVIOUS
<1>1. ~Sharing /\ "clean" \notin Calls
    BY DEF KeyClient
<1>2. CASE New \/ AddLevel \/ AddThrow \/ Prune \/ PruneThrow \/ CopyChildren
    BY <1>2, NewLinks, AddLevelLinks, AddThrowLinks, PruneLinks, PruneThrowLinks,
       CopyChildrenLinks
<1>3. ASSUME NEW u \in Drawn, SetArray(u) \/ SetScalar(u)
      PROVE  LinkInv'
    BY <1>3, SetDataLinks
<1>4. ASSUME NEW u \in Drawn, NEW type \in {"STRUCT", "LIST"}, SetType(u, type)
      PROVE  LinkInv'
    BY <1>4, SetTypeLinks
<1>5. ASSUME NEW u \in Drawn, NEW path \in Paths, GetOrCreate(u, path)
      PROVE  LinkInv'
    BY <1>5, GetOrCreateLinks
<1>6. ASSUME NEW u \in Drawn, NEW path \in Paths, NEW n \in Drawn, AddChild(u, path, n)
      PROVE  LinkInv'
    BY <1>6, AddChildLinks
<1>7. ASSUME NEW u \in Drawn, NEW path \in Paths, NEW n \in Drawn, SetChild(u, path, n)
      PROVE  LinkInv'
    BY <1>7, SetChildLinks
<1>8. ASSUME NEW u \in Drawn, NEW index \in Slots, NEW n \in Drawn, Insert(u, index, n)
      PROVE  LinkInv'
    BY <1>1, <1>8, InsertLinks
<1>9. ASSUME NEW u \in Drawn, NEW path \in Paths, NEW prune \in BOOLEAN,
             DeleteChild(u, path, prune)
      PROVE  LinkInv'
    BY <1>9, DeleteChildLinks
<1>10. ASSUME NEW u \in Drawn, Clean(u)
       PROVE  LinkInv'
    BY <1>1, <1>10 DEF Clean
<1>11. ASSUME NEW u \in Drawn, NEW v \in Drawn, Assign(u, v)
       PROVE  LinkInv'
    BY <1>1, <1>11, AssignLinks
<1>12. ASSUME NEW u \in Drawn, CopyBuffer(u) \/ CopyTree(u)
       PROVE  LinkInv'
    BY <1>1, <1>12, CopyBufferLinks, CopyTreeLinks
<1>13. CASE UNCHANGED vars
    <2>1. live' \subseteq Uuid /\ UNCHANGED <<store, live, call>>
        BY <1>13, NextInv, LiveUuids DEF vars
    <2>2. Links' /\ Referenced' = Referenced
        BY <2>1, NewNodeLinks DEF LinkInv
    <2> QED
        BY <2>1, <2>2 DEF LinkInv, CallLinks
<1> QED
    BY <1>2, <1>3, <1>4, <1>5, <1>6, <1>7, <1>8, <1>9, <1>10, <1>11, <1>12, <1>13 DEF Next

\* No record of the tree leads to a node that is gone, and no two records lead to one
\* node: of a client that uses paths of keys and links no node twice
\* (hdc.cpp:400-618, add_child(), set_child(), insert(), delete_child() and copy()).
THEOREM LinksInvariance == ASSUME KeyClient PROVE Spec => []LinkInv
<1>1. TreeInv /\ LinkInv /\ [Next]_vars => LinkInv'
    BY NextLinks
<1> QED
    BY <1>1, InitLinks, Invariance, PTL DEF Spec

\* Every record names a node that is in the storage, so that a path for which
\* exists() returns true can be used (hdc.cpp:400-449).
THEOREM RecordsCorrect == ASSUME KeyClient PROVE Spec => []RecordsResolve
<1>1. LinkInv => RecordsResolve
    BY DEF LinkInv, Links
<1> QED
    BY <1>1, LinksInvariance, PTL

----------------------------------------------------------------------------
(* What delete_child() leaves alone. *)

\* The other records stay.
LEMMA ErasedKeeps ==
    ASSUME NEW D, NEW nd \in SoundNode(D), NEW j \in DOMAIN nd.kids
    PROVE  Names(nd) \ {nd.kids[j].addr} \subseteq Names(Erased(nd, j))
<1> DEFINE kids == RemoveAt(nd.kids, j)
           new == Erased(nd, j)
<1>1. /\ nd \in [type : Type, len : Nat, kids : Seq([key : Selector, addr : D])]
      /\ nd.kids \in Seq([key : Selector, addr : D])
      /\ Len(nd.kids) \in Nat /\ DOMAIN nd.kids = 1..Len(nd.kids)
    BY SoundNodeParts
<1>2. /\ DOMAIN kids = 1..(Len(nd.kids) - 1)
      /\ \A i \in 1..(Len(nd.kids) - 1) :
            kids[i] = IF i < j THEN nd.kids[i] ELSE nd.kids[i + 1]
    BY <1>1, RemoveAtSeq
<1>3. new = [nd EXCEPT !.kids = kids, !.len = Len(nd.kids) - 1]
    BY DEF Erased
<1> HIDE DEF kids, new
<1>4. new.kids = kids
    BY <1>1, <1>3
<1>5. ASSUME NEW i \in DOMAIN nd.kids, i # j
      PROVE  \E k \in DOMAIN kids : kids[k] = nd.kids[i]
    <2>1. i \in Int /\ j \in Int
        BY <1>1
    <2>2. CASE i < j
        <3>1. i \in DOMAIN kids /\ kids[i] = nd.kids[i]
            BY <1>1, <1>2, <2>2
        <3> QED
            BY <3>1
    <2>3. CASE ~(i < j)
        <3>1. i - 1 \in 1..(Len(nd.kids) - 1) /\ ~(i - 1 < j) /\ (i - 1) + 1 = i
            BY <1>1, <1>5, <2>1, <2>3
        <3>2. kids[i - 1] = nd.kids[i]
            BY <1>2, <3>1
        <3> QED
            BY <1>2, <3>1, <3>2
    <2> QED
        BY <2>2, <2>3
<1> QED
    BY <1>4, <1>5 DEF Names, new

\* The part of the property about one node.
KeepsRecords(u) ==
    \A i \in DOMAIN store[u].kids :
        store[u].kids[i].addr \in live' => store[u].kids[i].addr \in Children(u)'

LEMMA UntouchedKeeps == ASSUME NEW u, store'[u] = store[u] PROVE KeepsRecords(u)
BY DEF KeepsRecords, Children, Names

LEMMA EraseRecordKeeps ==
    ASSUME TreeInv, LinkInv, NEW v \in live, NEW key \in Key, EraseRecord(v, key),
           NEW u \in live'
    PROVE  KeepsRecords(u)
<1> DEFINE p == Position(store[v], key)
           addr == GetSingle(store[v], key)
           nd == Erased(store[v], p)
<1>1. /\ p \in DOMAIN store[v].kids /\ addr = store[v].kids[p].addr
      /\ live' = live \ {addr}
      /\ store' = [store EXCEPT ![v] = nd, ![addr] = EmptyNode]
    BY ErasedRecord
<1> HIDE DEF p, addr
<1>2. Names(store[v]) \ {addr} \subseteq Names(nd)
    BY <1>1, NodeLinks, ErasedKeeps DEF LinkInv
<1> HIDE DEF nd
<1>3. u \in Uuid /\ u # addr
    BY <1>1, NodeLinks DEF LinkInv
<1>4. CASE u = v
    <2>1. Children(u)' = Names(nd)
        <3>1. store'[u] = nd
            BY <1>1, <1>3, <1>4 DEF TreeInv
        <3> QED
            BY <3>1 DEF Children, Names
    <2>2. \A i \in DOMAIN store[u].kids : store[u].kids[i].addr \in Names(store[u])
        BY DEF Names
    <2> QED
        BY <1>1, <1>2, <1>4, <2>1, <2>2 DEF KeepsRecords
<1>5. CASE u # v
    <2>1. store'[u] = store[u]
        BY <1>1, <1>3, <1>5 DEF TreeInv
    <2> QED
        BY <2>1, UntouchedKeeps
<1> QED
    BY <1>4, <1>5

\* A step that makes n nodes and removes none.
LEMMA Draws ==
    ASSUME TreeInv, NEW n \in Nat, next' = next + n, live' = live \cup next..(next + n - 1),
           next' = next
    PROVE  live' = live
<1>1. next \in Nat
    BY DEF TreeInv
<1>2. n = 0
    BY <1>1
<1>3. next..(next + n - 1) = {}
    BY <1>1, <1>2
<1> QED
    BY <1>3

LEMMA NextKeeps ==
    ASSUME KeyClient, TreeInv, LinkInv, [Next]_vars, live' # live, next' = next,
           NEW u \in live \cap live'
    PROVE  KeepsRecords(u)
<1>0. ~Sharing /\ "clean" \notin Calls
    BY DEF KeyClient
<1>1. next \in Nat
    BY DEF TreeInv
<1>2. New => FALSE
    BY <1>1 DEF New
<1>3. AddLevel => FALSE
    <2> SUFFICES ASSUME AddLevel PROVE FALSE
        OBVIOUS
    <2> DEFINE made == IF Len(call.path) = 1 THEN 0 ELSE 1
               n == made + LevelPadding(store[call.at], Head(call.path))
    <2>1. Head(call.path) \in Key
        <3>1. call.path \in Seq(Key) /\ call.path # <<>>
            BY CallKinds DEF AddLevel, TreeInv, LinkInv, CallLinks, AddCall
        <3> QED
            BY <3>1
    <2>2. n = made /\ made \in Nat
        BY <2>1, KeyAssumption DEF LevelPadding
    <2>3. next' = next + n /\ live' = live \cup next..(next + n - 1)
        BY DEF AddLevel
    <2> HIDE DEF n
    <2> QED
        BY <2>2, <2>3, Draws
<1>4. AddThrow => FALSE
    <2> SUFFICES ASSUME AddThrow PROVE FALSE
        OBVIOUS
    <2> DEFINE made == IF Len(call.path) = 1 THEN 0 ELSE 1
    <2>1. /\ made \in Nat /\ next' = next + made
          /\ live' = live \cup next..(next + made - 1)
        BY DEF AddThrow
    <2> HIDE DEF made
    <2> QED
        BY <2>1, Draws
<1>5. ASSUME Prune PROVE KeepsRecords(u)
    <2> DEFINE f == Last(call.frames)
    <2>1. f.at \in live /\ EraseRecord(f.at, f.sel)
        BY <1>5 DEF Prune, PruneSound
    <2>2. f.sel \in Key
        <3>1. call.op = "prune" /\ call.frames \in Seq(Frame) /\ call.frames # <<>>
            BY <1>5, CallKinds DEF Prune, TreeInv, PruneCall
        <3>2. Len(call.frames) \in DOMAIN call.frames /\ f = call.frames[Len(call.frames)]
            BY <3>1, LenProperties, EmptySeq DEF Last
        <3> QED
            BY <3>1, <3>2 DEF LinkInv, CallLinks
    <2> HIDE DEF f
    <2> QED
        BY <2>1, <2>2, EraseRecordKeeps
<1>6. PruneThrow => FALSE
    BY DEF PruneThrow
<1>7. CopyChildren => FALSE
    <2> SUFFICES ASSUME CopyChildren PROVE FALSE
        OBVIOUS
    <2> DEFINE n == Len(store[Head(call.todo).src].kids)
    <2>1. next' = next + n /\ live' = live \cup next..(next + n - 1)
        BY DEF CopyChildren
    <2>2. n \in Nat
        <3>1. call.todo \in Seq([src : Uuid, dst : Uuid]) /\ call.todo # <<>> /\ CallSound
            BY CallKinds DEF CopyChildren, TreeInv, CopyCall
        <3>2. Head(call.todo) = call.todo[1] /\ 1 \in DOMAIN call.todo
            BY <3>1, EmptySeq, LenProperties
        <3>3. call.todo[1].src \in Drawn
            BY <3>1, <3>2 DEF CallSound, CopyChildren
        <3> QED
            BY <3>2, <3>3, DrawnNode, SoundNodeParts
    <2> HIDE DEF n
    <2> QED
        BY <2>1, <2>2, Draws
<1>8. ASSUME NEW w \in Drawn, SetArray(w) \/ SetScalar(w) PROVE KeepsRecords(u)
    <2>1. u # w /\ w \in Uuid /\ u \in Uuid /\ store' = [store EXCEPT ![w] = DataNode]
        BY <1>8, DrawnNode, NodeLinks DEF SetArray, SetScalar, LinkInv
    <2>2. store'[u] = store[u]
        BY <2>1 DEF TreeInv
    <2> QED
        BY <2>2, UntouchedKeeps
<1>9. ASSUME NEW w \in Drawn, NEW path \in Paths, NEW prune \in BOOLEAN,
             DeleteChild(w, path, prune)
      PROVE  KeepsRecords(u)
    <2>1. PICK v \in live : EraseRecord(v, Last(path))
        BY <1>9 DEF DeleteChild
    <2> QED
        BY <2>1, KeyPath, EraseRecordKeeps
<1>10. ASSUME NEW w \in Drawn, NEW index \in Slots, NEW x \in Drawn, Insert(w, index, x)
       PROVE  FALSE
    <2> DEFINE n == Padding(store[w], index)
    <2>1. next' = next + n /\ live' = live \cup next..(next + n - 1)
        BY <1>10 DEF Insert
    <2>2. n \in Nat
        BY DrawnNode, SlotsAssumption, PaddingNat
    <2> HIDE DEF n
    <2> QED
        BY <2>1, <2>2, Draws
<1>11. ASSUME NEW w \in Drawn,
              \/ \E type \in {"STRUCT", "LIST"} : SetType(w, type)
              \/ \E path \in Paths : GetOrCreate(w, path)
              \/ \E path \in Paths, n \in Drawn : AddChild(w, path, n) \/ SetChild(w, path, n)
              \/ Clean(w)
              \/ \E v \in Drawn : Assign(w, v)
              \/ CopyBuffer(w) \/ CopyTree(w)
       PROVE  FALSE
    BY <1>0, <1>1, <1>11
       DEF SetType, GetOrCreate, AddChild, SetChild, Clean, Assign, CopyBuffer, CopyTree
<1>12. UNCHANGED vars => FALSE
    BY DEF vars
<1> QED
    BY <1>2, <1>3, <1>4, <1>5, <1>6, <1>7, <1>8, <1>9, <1>10, <1>11, <1>12 DEF Next

\* delete_child() and its pruning take out no record of a node that stays (hdc.cpp:570-618):
\* of a client that uses paths of keys and links no node twice.
THEOREM DeleteCorrect == ASSUME KeyClient PROVE Spec => DeleteErasesOnlyTheDeleted
<1> DEFINE A == \A u \in live \cap live' : live' # live /\ next' = next => KeepsRecords(u)
<1>1. TreeInv /\ LinkInv /\ [Next]_vars => [A]_vars
    BY NextKeeps
<1>2. A <=> \A u \in live \cap live' :
                live' # live /\ next' = next =>
                    \A i \in DOMAIN store[u].kids :
                        store[u].kids[i].addr \in live' =>
                            store[u].kids[i].addr \in Children(u)'
    BY DEF KeepsRecords
<1> QED
    BY <1>1, <1>2, Invariance, LinksInvariance, PTL DEF Spec, DeleteErasesOnlyTheDeleted

----------------------------------------------------------------------------
(* No node is below itself. *)

\* What is below u is within a set that no link leaves and u is not in.
Above(st, u, S) ==
    S \in SUBSET Uuid /\ Closed(st, S) /\ Names(st[u]) \subseteq S /\ u \notin S

Acyclic(st) == \A u \in Uuid : \E S : Above(st, u, S)

\* The node that add_child() is about to link is not above the node it has come to.
CallAcyclic ==
    call.op = "add" =>
        \E S \in SUBSET Uuid : Closed(store, S) /\ call.child \in S /\ call.at \notin S

AcyclicInv == Acyclic(store) /\ CallAcyclic

\* The new links are of the node "at", to nodes of S.
Attaches(st, st2, at, S) ==
    /\ S \in SUBSET Uuid /\ Closed(st, S) /\ at \notin S
    /\ \A v \in Uuid : v # at => Names(st2[v]) \subseteq Names(st[v])
    /\ at \in Uuid => Names(st2[at]) \subseteq Names(st[at]) \cup S

LEMMA AttachesAcyclic ==
    ASSUME NEW st, NEW st2, Acyclic(st), NEW at, NEW S, Attaches(st, st2, at, S)
    PROVE  Acyclic(st2)
<1> SUFFICES ASSUME NEW u \in Uuid PROVE \E T : Above(st2, u, T)
    BY DEF Acyclic
<1>1. PICK R : Above(st, u, R)
    BY DEF Acyclic
<1>2. CASE u \in S
    <2>1. Closed(st2, R \cap S)
        BY <1>1 DEF Above, Closed, Attaches
    <2>2. Above(st2, u, R \cap S)
        BY <1>1, <1>2, <2>1 DEF Above, Closed, Attaches
    <2> QED
        BY <2>2
<1>3. CASE u \notin S
    <2>1. Closed(st2, R \cup S)
        BY <1>1 DEF Above, Closed, Attaches
    <2>2. Above(st2, u, R \cup S)
        BY <1>1, <1>3, <2>1 DEF Above, Closed, Attaches
    <2> QED
        BY <2>2
<1> QED
    BY <1>2, <1>3

\* A step that makes no link.
LEMMA FewerLinks ==
    ASSUME Acyclic(store), \A v \in Uuid : Names(store'[v]) \subseteq Names(store[v])
    PROVE  Acyclic(store')
<1>1. Attaches(store, store', Null, {})
    BY DEF Attaches, Closed, Null, Uuid
<1> QED
    BY <1>1, AttachesAcyclic

\* A step that changes one node, and links it to nodes of S.
LEMMA OneNodeAttaches ==
    ASSUME TreeInv, Acyclic(store), NEW u \in Uuid, NEW nd, store' = [store EXCEPT ![u] = nd],
           NEW S \in SUBSET Uuid, Closed(store, S), u \notin S,
           Names(nd) \subseteq Names(store[u]) \cup S
    PROVE  Acyclic(store')
<1>1. store'[u] = nd /\ \A v \in Uuid : v # u => store'[v] = store[v]
    BY DEF TreeInv
<1>2. Attaches(store, store', u, S)
    BY <1>1 DEF Attaches
<1> QED
    BY <1>2, AttachesAcyclic

LEMMA OneNodeFewer ==
    ASSUME TreeInv, Acyclic(store), NEW u \in Uuid, NEW nd, store' = [store EXCEPT ![u] = nd],
           Names(nd) \subseteq Names(store[u])
    PROVE  Acyclic(store')
<1>1. Closed(store, {})
    BY DEF Closed
<1> QED
    BY <1>1, OneNodeAttaches

LEMMA LeafNodeAcyclic ==
    ASSUME TreeInv, Acyclic(store), NEW u \in Uuid, NEW nd, nd.kids = <<>>,
           store' = [store EXCEPT ![u] = nd]
    PROVE  Acyclic(store')
BY LeafLinks, OneNodeFewer

\* No link leaves nodes that have none.
LEMMA NewClosed ==
    ASSUME TreeInv, NEW S \in SUBSET Uuid, S \cap live = {}
    PROVE  Closed(store, S)
<1>1. EmptyNode.kids = <<>>
    BY DEF EmptyNode
<1>2. \A v \in S : Names(store[v]) = {}
    BY <1>1, LeafLinks DEF TreeInv
<1> QED
    BY <1>2 DEF Closed

\* A node with one parent, which is not in S, can be left out of S.
LEMMA ClosedWithout ==
    ASSUME TreeInv, Links, NEW S \in SUBSET Uuid, Closed(store, S),
           NEW x \in live, x \notin S, NEW y \in Children(x)
    PROVE  Closed(store, S \ {y})
<1> SUFFICES ASSUME NEW v \in S PROVE y \notin Names(store[v])
    BY DEF Closed
<1>1. CASE v \in live
    BY <1>1 DEF Links, Children
<1>2. CASE v \notin live
    <2>1. store[v].kids = <<>>
        BY <1>2 DEF TreeInv, EmptyNode
    <2> QED
        BY <2>1, LeafLinks
<1> QED
    BY <1>1, <1>2

\* The client attaches no node below itself.
LEMMA AttachedApart ==
    ASSUME TreeInv, ~Sharing, NEW root, NEW n \in Drawn, MayAttach(root, n)
    PROVE  /\ Reach(n) \in SUBSET Uuid /\ Closed(store, Reach(n))
           /\ n \in Reach(n) /\ root \notin Reach(n)
<1>1. store \in Stores /\ n \in Uuid
    BY TreeStores, DrawnNode
<1> QED
    BY <1>1, NearCloses DEF MayAttach, Reach

\* ... nor do the nodes on the way down from the root lead to it.
LEMMA WayApart ==
    ASSUME TreeInv, Links, NEW u \in Uuid, NEW path \in Seq(Selector), NEW n \in live \ Referenced,
           NEW S \in SUBSET Uuid, Closed(store, S), n \in S, u \notin S,
           Get(u, path) \in live
    PROVE  \E T \in SUBSET Uuid : Closed(store, T) /\ n \in T /\ Get(u, path) \notin T
<1> DEFINE f == Walk(store, live, u, path)
           k == Len(path)
           Off(x) == \E T \in SUBSET Uuid : Closed(store, T) /\ n \in T /\ x \notin T
           I == {i \in 0..k : f[i] # Null => Off(f[i])}
<1>1. store \in Stores /\ live \in SUBSET Uuid
    BY TreeStores
<1>2. Follows(f, store, live, u, path) /\ k \in Nat
    BY <1>1, WalkSteps, LenProperties
<1> HIDE DEF f
<1>3. 0 \in I
    BY <1>2 DEF Follows
<1>4. ASSUME NEW i \in 0..(k - 1), i \in I PROVE i + 1 \in I
    <2> DEFINE j == i + 1
    <2>1. j \in 1..k /\ j \in 0..k /\ j - 1 = i
        BY <1>2
    <2> HIDE DEF j, k
    <2>2. ASSUME f[j] # Null PROVE Off(f[j])
        <3> DEFINE x == f[i]
                   y == f[j]
        <3>1. y = Hop(store, live, x, path[j])
            BY <1>2, <2>1 DEF Follows, k
        <3>2. x \in live /\ ExistsSingle(store[x], path[j]) /\ y = GetSingle(store[x], path[j])
            BY <2>2, <3>1 DEF Hop
        <3>3. x # Null
            BY <1>1, <3>2 DEF Null, Uuid
        <3>4. PICK T \in SUBSET Uuid : Closed(store, T) /\ n \in T /\ x \notin T
            BY <1>4, <3>3
        <3>5. y \in Children(x)
            <4>1. path[j] \in Selector
                BY <2>1, ElementOfSeq DEF k
            <4> HIDE DEF x, y
            <4>2. /\ Position(store[x], path[j]) \in 1..Len(store[x].kids)
                  /\ DOMAIN store[x].kids = 1..Len(store[x].kids)
                BY <1>1, <3>2, <4>1, GetSingleSound, SoundNodeParts DEF Stores
            <4> QED
                BY <3>2, <4>2 DEF GetSingle, Names, Children
        <3> HIDE DEF x, y
        <3>6. Closed(store, T \ {y})
            BY <3>2, <3>4, <3>5, ClosedWithout
        <3>7. n # y
            BY <3>2, <3>5 DEF Referenced
        <3> QED
            BY <3>4, <3>6, <3>7 DEF y
    <2> QED
        BY <2>1, <2>2 DEF j
<1>5. 0..k \subseteq I
    <2> HIDE DEF I, k
    <2> QED
        BY <1>2, <1>3, <1>4, BoundedInduction
<1>6. f[k] = Get(u, path) /\ k \in 0..k /\ f[k] # Null
    BY <1>1, <1>2 DEF Get, Resolve, f, Null, Uuid
<1> QED
    BY <1>5, <1>6

LEMMA AddLevelNames ==
    ASSUME TreeInv, LinkInv, AddLevel
    PROVE  /\ call.at \in live /\ call.at \in Uuid
           /\ Names(store'[call.at]) \subseteq Names(store[call.at]) \cup {Linked}
           /\ \A v \in Uuid : v # call.at => store'[v] = store[v]
           /\ Len(call.path) # 1 => next \in Uuid
<1> DEFINE at == call.at
           key == Head(call.path)
           made == IF Len(call.path) = 1 THEN 0 ELSE 1
           nd == Attached(store[at], key, Linked, next + made)
<1>1. /\ call.op = "add"
      /\ call.path \in Seq(Key) /\ call.path # <<>> /\ call.child \in live \ Referenced
    BY CallKinds DEF AddLevel, TreeInv, LinkInv, CallLinks, AddCall
<1>2. key \in Key /\ key \notin Nat
    BY <1>1, KeyAssumption
<1>3. made + LevelPadding(store[at], key) = made
    BY <1>2 DEF LevelPadding
<1>4. at \in live /\ Accepts(store[at], key) /\ CanDraw(made) /\ store' = [store EXCEPT ![at] = nd]
    BY <1>3 DEF AddLevel
<1> HIDE DEF at, key
<1>5. Linked \notin Names(store[at])
    <2>1. next \notin Drawn
        BY DEF TreeInv, Drawn
    <2>2. Linked \notin Referenced
        BY <1>1, <2>1, ReferencedDrawn DEF Linked
    <2> QED
        BY <1>4, <2>2, NodeLinks DEF LinkInv
<1>6. Names(nd) \subseteq Names(store[at]) \cup {Linked}
    BY <1>2, <1>4, <1>5, NodeLinks, AttachedLinks DEF LinkInv
<1>7. at \in Uuid
    BY <1>4, NodeLinks DEF LinkInv
<1>8. Len(call.path) # 1 => next \in Uuid
    BY <1>4, BoundAssumption DEF CanDraw, Uuid, TreeInv
<1> HIDE DEF nd
<1>9. store'[at] = nd /\ \A v \in Uuid : v # at => store'[v] = store[v]
    BY <1>4, <1>7 DEF TreeInv
<1> QED
    BY <1>4, <1>6, <1>7, <1>8, <1>9 DEF at

LEMMA AddLevelAcyclic ==
    ASSUME TreeInv, LinkInv, AcyclicInv, AddLevel
    PROVE  Acyclic(store')
<1>1. /\ call.at \in live /\ call.at \in Uuid
      /\ Names(store'[call.at]) \subseteq Names(store[call.at]) \cup {Linked}
      /\ \A v \in Uuid : v # call.at => store'[v] = store[v]
      /\ Len(call.path) # 1 => next \in Uuid
    BY AddLevelNames
<1>2. PICK S \in SUBSET Uuid : Closed(store, S) /\ Linked \in S /\ call.at \notin S
    <2>1. CASE Len(call.path) = 1
        BY <2>1 DEF AcyclicInv, CallAcyclic, AddLevel, Linked
    <2>2. CASE Len(call.path) # 1
        <3>1. {next} \cap live = {} /\ {next} \in SUBSET Uuid
            BY <1>1, <2>2 DEF TreeInv, Drawn
        <3>2. Closed(store, {next}) /\ call.at \notin {next}
            BY <1>1, <3>1, NewClosed
        <3> QED
            BY <2>2, <3>1, <3>2 DEF Linked
    <2> QED
        BY <2>1, <2>2
<1>3. Attaches(store, store', call.at, S)
    BY <1>1, <1>2 DEF Attaches
<1> QED
    BY <1>3, AttachesAcyclic DEF AcyclicInv

LEMMA AddThrowAcyclic ==
    ASSUME TreeInv, LinkInv, Acyclic(store), AddThrow
    PROVE  Acyclic(store')
<1> DEFINE at == call.at
           sel == Head(call.path)
           nd == Refused(store[at], sel)
<1>1. store' = IF at \in live THEN [store EXCEPT ![at] = nd] ELSE store
    BY DEF AddThrow
<1> HIDE DEF sel
<1>2. CASE at \in live
    <2>1. Names(nd) \subseteq Names(store[at]) /\ at \in Uuid
        BY <1>2, NodeLinks, RefusedLinks DEF LinkInv
    <2> HIDE DEF nd
    <2> QED
        BY <1>1, <1>2, <2>1, OneNodeFewer
<1>3. CASE at \notin live
    BY <1>1, <1>3
<1> QED
    BY <1>2, <1>3

LEMMA EraseRecordAcyclic ==
    ASSUME TreeInv, LinkInv, Acyclic(store), NEW v \in live, NEW key \in Key, EraseRecord(v, key)
    PROVE  Acyclic(store')
<1> DEFINE p == Position(store[v], key)
           addr == GetSingle(store[v], key)
           nd == Erased(store[v], p)
<1>1. /\ p \in DOMAIN store[v].kids /\ addr = store[v].kids[p].addr /\ addr \in Drawn
      /\ store' = [store EXCEPT ![v] = nd, ![addr] = EmptyNode]
    BY ErasedRecord
<1> HIDE DEF p, addr
<1>2. Names(nd) \subseteq Names(store[v])
    BY <1>1, NodeLinks, ErasedLinks DEF LinkInv
<1> HIDE DEF nd
<1>3. v \in Uuid /\ addr \in Uuid
    BY <1>1, DrawnNode, NodeLinks DEF LinkInv
<1>4. /\ \A u \in Uuid : u # v /\ u # addr => store'[u] = store[u]
      /\ v # addr => store'[v] = nd
      /\ store'[addr] = EmptyNode
    BY <1>1, <1>3 DEF TreeInv
<1>5. Names(EmptyNode) = {}
    BY LeafLinks DEF EmptyNode
<1> QED
    BY <1>2, <1>4, <1>5, FewerLinks

LEMMA InsertAcyclic ==
    ASSUME TreeInv, LinkInv, Acyclic(store), ~Sharing,
           NEW u \in Drawn, NEW index \in Slots, NEW x \in Drawn, Insert(u, index, x)
    PROVE  Acyclic(store')
<1> DEFINE n == Padding(store[u], index)
           nd == Inserted(store[u], index, x, next)
           new == next..(next + n - 1)
           S == Reach(x) \cup new
<1>1. /\ u \in live /\ store[u].type \in {"EMPTY", "LIST"} /\ MayAttach(u, x)
      /\ CanDraw(n) /\ next' = next + n
      /\ store' = [store EXCEPT ![u] = nd]
    BY DEF Insert
<1>2. x \in live \ Referenced
    BY AttachedNode DEF Insert
<1>3. index \in Nat /\ n \in Nat /\ next \in Nat
    BY <1>1, NodeLinks, SlotsAssumption, PaddingNat DEF LinkInv, TreeInv
<1> HIDE DEF n
<1>4. Drawn \cap new = {} /\ new \in SUBSET Uuid
    BY <1>1, <1>3, Draw
<1>5. x \notin Names(store[u]) /\ x \notin new /\ Names(store[u]) \cap new = {}
    BY <1>1, <1>2, <1>4, NodeLinks, ReferencedDrawn DEF LinkInv
<1>6. Names(nd) \subseteq Names(store[u]) \cup {x} \cup new
    BY <1>1, <1>3, <1>5, NodeLinks, InsertedLinks DEF LinkInv, n
<1> HIDE DEF nd, new
<1>7. /\ Reach(x) \in SUBSET Uuid /\ Closed(store, Reach(x))
      /\ x \in Reach(x) /\ u \notin Reach(x)
    BY <1>1, AttachedApart
<1>8. new \cap live = {} /\ u \notin new /\ u \in Uuid
    BY <1>4, DrawnNode DEF TreeInv
<1>9. Closed(store, new)
    BY <1>4, <1>8, NewClosed
<1>10. S \in SUBSET Uuid /\ Closed(store, S) /\ u \notin S /\ Names(nd) \subseteq Names(store[u]) \cup S
    BY <1>4, <1>6, <1>7, <1>8, <1>9 DEF Closed
<1>11. store' = [store EXCEPT ![u] = nd] /\ u \in Uuid
    BY <1>1, <1>8
<1> HIDE DEF S
<1> QED
    BY <1>10, <1>11, OneNodeAttaches

LEMMA SetChildAcyclic ==
    ASSUME TreeInv, LinkInv, Acyclic(store), KeyClient,
           NEW u \in Drawn, NEW path \in Paths, NEW n \in Drawn, SetChild(u, path, n)
    PROVE  Acyclic(store')
<1>1. PICK v \in live :
        /\ v = Get(u, Front(path))
        /\ ExistsSingle(store[v], Last(path))
        /\ store' = [store EXCEPT ![v] = Relinked(store[v], Last(path), n)]
    BY DEF SetChild
<1> DEFINE nd == Relinked(store[v], Last(path), n)
<1>2. n \in live \ Referenced /\ ~Sharing /\ MayAttach(u, n) /\ u \in Uuid
    BY AttachedNode, DrawnNode DEF SetChild, KeyClient
<1>3. Last(path) \in Selector /\ Front(path) \in Seq(Selector)
    <2>1. path \in Seq(Selector) /\ path # <<>>
        BY PathsAssumption
    <2>2. Len(path) \in Nat \ {0} /\ \A i \in 1..Len(path) : path[i] \in Selector
        BY PathElements
    <2>3. /\ Front(path) = [i \in 1..(Len(path) - 1) |-> path[i]]
          /\ Len(path) - 1 \in Nat
        BY <2>1, <2>2 DEF Front
    <2>4. Front(path) \in Seq(Selector)
        BY <2>2, <2>3, FunctionIsSeq
    <2> QED
        BY <2>4, PathElements
<1>4. Names(nd) \subseteq Names(store[v]) \cup {n}
    BY <1>1, <1>2, <1>3, NodeLinks, RelinkedLinks DEF LinkInv
<1> HIDE DEF nd
<1>5. /\ Reach(n) \in SUBSET Uuid /\ Closed(store, Reach(n))
      /\ n \in Reach(n) /\ u \notin Reach(n)
    BY <1>2, AttachedApart
<1>6. PICK S \in SUBSET Uuid : Closed(store, S) /\ n \in S /\ v \notin S
    BY <1>1, <1>2, <1>3, <1>5, WayApart DEF LinkInv
<1>7. store' = [store EXCEPT ![v] = nd] /\ v \in Uuid
    BY <1>1, NodeLinks DEF nd, LinkInv
<1>8. Names(nd) \subseteq Names(store[v]) \cup S
    BY <1>4, <1>6
<1>9. Closed(store, S) /\ v \notin S
    BY <1>6
<1> QED
    BY <1>7, <1>8, <1>9, OneNodeAttaches

LEMMA CopyChildrenAcyclic ==
    ASSUME TreeInv, LinkInv, Acyclic(store), CopyChildren
    PROVE  Acyclic(store')
<1> DEFINE job == Head(call.todo)
           from == store[job.src]
           n == Len(from.kids)
           new == next..(next + n - 1)
           src(i, order) == from.kids[order[i]].addr
           copied(order) == [store[job.dst] EXCEPT !.kids = CopiedKids(from.kids, order, next),
                                                   !.len = from.len]
           fresh(v, order) == [EmptyNode EXCEPT !.type = store[src(v - next + 1, order)].type]
<1>1. PICK order \in Injection(1..n, 1..n) :
        store' = [v \in Uuid |-> IF v = job.dst THEN copied(order)
                                 ELSE IF v \in new THEN fresh(v, order) ELSE store[v]]
    BY DEF CopyChildren
<1>2. call.op = "copy" /\ CanDraw(n) /\ next' = next + n
    BY DEF CopyChildren
<1>3. call \in CopyCall /\ CallSound
    BY <1>2, CallKinds DEF TreeInv
<1>4. job = call.todo[1] /\ 1 \in DOMAIN call.todo
    <2>1. call.todo \in Seq([src : Uuid, dst : Uuid]) /\ call.todo # <<>>
        BY <1>3 DEF CopyCall
    <2> QED
        BY <2>1, EmptySeq, LenProperties
<1>5. job.src \in Drawn /\ job.dst \in live /\ store[job.dst].type = from.type
    BY <1>2, <1>3, <1>4 DEF CallSound
<1> HIDE DEF job
<1>6. /\ from \in SoundNode(Drawn) /\ store[job.dst] \in SoundNode(Drawn) /\ job.dst \in Uuid
      /\ n \in Nat /\ next \in Nat
    BY <1>5, DrawnNode, SoundNodeParts, NodeLinks DEF LinkInv, TreeInv
<1> HIDE DEF from
<1>7. Names(copied(order)) \subseteq new
    BY <1>5, <1>6, CopiedLinks
<1>8. Drawn \cap new = {} /\ new \in SUBSET Uuid
    BY <1>2, <1>6, Draw
<1>9. \A v : Names(fresh(v, order)) = {}
    <2>1. \A v : fresh(v, order).kids = <<>>
        BY DEF EmptyNode
    <2> HIDE DEF fresh
    <2> QED
        BY <2>1, LeafLinks
<1> HIDE DEF copied, fresh, new
<1>10. new \cap live = {} /\ job.dst \notin new
    BY <1>5, <1>8 DEF TreeInv
<1>11. Closed(store, new)
    BY <1>8, <1>10, NewClosed
<1>12. /\ Names(store'[job.dst]) \subseteq new
       /\ \A v \in Uuid : v # job.dst => store'[v] = store[v] \/ Names(store'[v]) = {}
    BY <1>1, <1>6, <1>7, <1>9
<1>13. Attaches(store, store', job.dst, new)
    BY <1>8, <1>10, <1>11, <1>12 DEF Attaches
<1> QED
    BY <1>13, AttachesAcyclic

LEMMA NextAcyclic ==
    ASSUME KeyClient, TreeInv, LinkInv, TreeInv', AcyclicInv, [Next]_vars
    PROVE  Acyclic(store')
<1>1. Acyclic(store) /\ ~Sharing /\ "clean" \notin Calls
    BY DEF KeyClient, AcyclicInv
<1>2. ASSUME UNCHANGED store PROVE Acyclic(store')
    BY <1>1, <1>2
<1>3. CASE Prune
    <2> DEFINE f == Last(call.frames)
    <2>1. CASE f.at \in live /\ EraseRecord(f.at, f.sel)
        <3>1. f.sel \in Key
            <4>1. call.op = "prune" /\ call.frames \in Seq(Frame) /\ call.frames # <<>>
                BY <1>3, CallKinds DEF Prune, TreeInv, PruneCall
            <4>2. Len(call.frames) \in DOMAIN call.frames /\ f = call.frames[Len(call.frames)]
                BY <4>1, LenProperties, EmptySeq DEF Last
            <4> QED
                BY <4>1, <4>2 DEF LinkInv, CallLinks
        <3> HIDE DEF f
        <3> QED
            BY <1>1, <2>1, <3>1, EraseRecordAcyclic
    <2>2. CASE UNCHANGED <<store, live>>
        BY <1>2, <2>2
    <2> QED
        BY <1>3, <2>1, <2>2 DEF Prune, PruneSound
<1>4. CASE New \/ PruneThrow \/ UNCHANGED vars
    BY <1>2, <1>4 DEF New, PruneThrow, vars
<1>5. CASE AddLevel \/ AddThrow \/ CopyChildren
    BY <1>1, <1>5, AddLevelAcyclic, AddThrowAcyclic, CopyChildrenAcyclic
<1>6. ASSUME NEW u \in Drawn, SetArray(u) \/ SetScalar(u) PROVE Acyclic(store')
    <2>1. u \in Uuid /\ store' = [store EXCEPT ![u] = DataNode] /\ DataNode.kids = <<>>
        BY <1>6, DrawnNode DEF SetArray, SetScalar, DataNode
    <2> QED
        BY <1>1, <2>1, LeafNodeAcyclic
<1>7. ASSUME NEW u \in Drawn, NEW type \in {"STRUCT", "LIST"}, SetType(u, type)
      PROVE  Acyclic(store')
    <2> DEFINE nd == SetTypeOf(store[u], type)
    <2>1. u \in live /\ store' = [store EXCEPT ![u] = nd]
        BY <1>7 DEF SetType
    <2>2. Names(nd) \subseteq Names(store[u]) /\ u \in Uuid
        BY <2>1, NodeLinks, SetTypeOfLinks DEF LinkInv
    <2> HIDE DEF nd
    <2> QED
        BY <1>1, <2>1, <2>2, OneNodeFewer
<1>8. ASSUME NEW u \in Drawn, NEW path \in Paths, NEW n \in Drawn,
             GetOrCreate(u, path) \/ AddChild(u, path, n)
      PROVE  Acyclic(store')
    BY <1>2, <1>8 DEF GetOrCreate, AddChild
<1>9. ASSUME NEW u \in Drawn, NEW path \in Paths, NEW n \in Drawn, SetChild(u, path, n)
      PROVE  Acyclic(store')
    BY <1>1, <1>9, SetChildAcyclic
<1>10. ASSUME NEW u \in Drawn, NEW index \in Slots, NEW n \in Drawn, Insert(u, index, n)
       PROVE  Acyclic(store')
    BY <1>1, <1>10, InsertAcyclic
<1>11. ASSUME NEW u \in Drawn, NEW path \in Paths, NEW prune \in BOOLEAN,
              DeleteChild(u, path, prune)
       PROVE  Acyclic(store')
    <2>1. PICK v \in live : EraseRecord(v, Last(path))
        BY <1>11 DEF DeleteChild
    <2> QED
        BY <1>1, <2>1, KeyPath, EraseRecordAcyclic
<1>12. ASSUME NEW u \in Drawn, Clean(u)
       PROVE  Acyclic(store')
    BY <1>1, <1>12 DEF Clean
<1>13. ASSUME NEW u \in Drawn, NEW v \in Drawn, Assign(u, v)
       PROVE  Acyclic(store')
    <2>1. u \in Uuid /\ store' = [store EXCEPT ![u] = store[v]] /\ store[v].kids = <<>>
        BY <1>1, <1>13, DrawnNode DEF Assign, HasChildren
    <2> QED
        BY <1>1, <2>1, LeafNodeAcyclic
<1>14. ASSUME NEW u \in Drawn, CopyBuffer(u)
       PROVE  Acyclic(store')
    <2>1. CanDraw(1) /\ store' = [store EXCEPT ![next] = store[u]] /\ store[u].kids = <<>>
        BY <1>1, <1>14 DEF CopyBuffer, HasChildren
    <2>2. next \in Uuid
        BY <2>1, BoundAssumption DEF CanDraw, Uuid, TreeInv
    <2> QED
        BY <1>1, <2>1, <2>2, LeafNodeAcyclic
<1>15. ASSUME NEW u \in Drawn, CopyTree(u)
       PROVE  Acyclic(store')
    <2> DEFINE nd == [EmptyNode EXCEPT !.type = store[u].type]
    <2>1. CanDraw(1) /\ store' = [store EXCEPT ![next] = nd] /\ nd.kids = <<>>
        BY <1>15 DEF CopyTree, EmptyNode
    <2>2. next \in Uuid
        BY <2>1, BoundAssumption DEF CanDraw, Uuid, TreeInv
    <2> HIDE DEF nd
    <2> QED
        BY <1>1, <2>1, <2>2, LeafNodeAcyclic
<1>16. \A u \in Drawn, path \in Paths : ~GetOrCreate(u, path) \/ Acyclic(store')
    BY <1>2 DEF GetOrCreate
<1> QED
    BY <1>3, <1>4, <1>5, <1>6, <1>7, <1>8, <1>9, <1>10, <1>11, <1>12, <1>13, <1>14, <1>15,
       <1>16 DEF Next

LEMMA NextCallAcyclic ==
    ASSUME KeyClient, TreeInv, LinkInv, TreeInv', LinkInv', AcyclicInv, [Next]_vars
    PROVE  CallAcyclic'
<1> SUFFICES ASSUME call'.op = "add"
             PROVE  \E S \in SUBSET Uuid :
                        Closed(store', S) /\ call'.child \in S /\ call'.at \notin S
    BY DEF CallAcyclic
<1>1. CASE call.op # "add"
    <2>1. ASSUME NEW u \in Drawn, NEW path \in Paths, GetOrCreate(u, path)
          PROVE  \E S \in SUBSET Uuid :
                    Closed(store', S) /\ call'.child \in S /\ call'.at \notin S
        <3>1. /\ u \in live /\ CanDraw(1) /\ UNCHANGED store
              /\ call' = NewAddCall(u, path, next)
            BY <2>1 DEF GetOrCreate
        <3>2. call'.child = next /\ call'.at = u
            BY <3>1 DEF NewAddCall
        <3>3. {next} \in SUBSET Uuid /\ {next} \cap live = {} /\ u \notin {next}
            BY <3>1, BoundAssumption DEF CanDraw, Uuid, TreeInv, Drawn
        <3> QED
            BY <3>1, <3>2, <3>3, NewClosed
    <2>2. ASSUME NEW u \in Drawn, NEW path \in Paths, NEW n \in Drawn, AddChild(u, path, n)
          PROVE  \E S \in SUBSET Uuid :
                    Closed(store', S) /\ call'.child \in S /\ call'.at \notin S
        <3>1. /\ MayAttach(u, n) /\ UNCHANGED store /\ call' = NewAddCall(u, path, n)
            BY <2>2 DEF AddChild
        <3>2. call'.child = n /\ call'.at = u
            BY <3>1 DEF NewAddCall
        <3> QED
            BY <3>1, <3>2, AttachedApart DEF KeyClient
    <2> QED
        BY <1>1, <2>1, <2>2, AddBegins
<1>2. CASE call.op = "add" /\ UNCHANGED vars
    BY <1>2 DEF vars, AcyclicInv, CallAcyclic
<1>3. CASE AddLevel
    <2>0. PICK x : x = call.at
        OBVIOUS
    <2> DEFINE y == GetSingle(store'[x], Head(call.path))
    <2>1. /\ x \in live /\ x \in Uuid /\ Head(call.path) \in Selector
          /\ \A v \in Uuid : v # x => store'[v] = store[v]
          /\ ExistsSingle(store'[x], Head(call.path))
          /\ live \subseteq live'
        BY <1>3, <2>0, AddLevelNode
    <2>2. call' = [call EXCEPT !.at = y, !.path = Tail(@)] /\ call.op = "add" /\ call \in AddCall
        BY <1>3, <2>0, AddLevelCall, CallKinds DEF Idle, AddLevel, TreeInv
    <2> HIDE DEF y
    <2>3. call'.at = y /\ call'.child = call.child
        BY <2>2 DEF AddCall
    <2>4. PICK S \in SUBSET Uuid : Closed(store, S) /\ call.child \in S /\ x \notin S
        BY <2>0, <2>2 DEF AcyclicInv, CallAcyclic
    <2>5. store' \in Stores /\ live' \in SUBSET Uuid
        BY NextStores
    <2>6. y \in Children(x)'
        <3>1. store'[x] \in SoundNode(Uuid)
            BY <2>1, <2>5 DEF Stores
        <3>2. /\ Position(store'[x], Head(call.path)) \in 1..Len(store'[x].kids)
              /\ DOMAIN store'[x].kids = 1..Len(store'[x].kids)
            BY <2>1, <3>1, GetSingleSound, SoundNodeParts
        <3>3. y \in Names(store'[x])
            BY <3>2 DEF y, GetSingle, Names
        <3> QED
            BY <3>3 DEF Children
    <2>7. ASSUME NEW v \in S PROVE y \notin Names(store'[v]) /\ Names(store'[v]) \subseteq S
        <3>1. v \in Uuid /\ v # x /\ store'[v] = store[v]
            BY <2>1, <2>4
        <3>2. CASE v \in live'
            <4>1. x \in live' /\ Children(v)' \cap Children(x)' = {}
                BY <2>1, <3>1, <3>2 DEF LinkInv, Links
            <4>2. Children(v)' = Names(store'[v])
                BY DEF Children
            <4> QED
                BY <2>4, <2>6, <3>1, <4>1, <4>2 DEF Closed
        <3>3. CASE v \notin live'
            <4>1. store'[v].kids = <<>>
                BY <3>1, <3>3 DEF TreeInv, EmptyNode
            <4> QED
                BY <4>1, LeafLinks
        <3> QED
            BY <3>2, <3>3
    <2>8. Closed(store', S \ {y})
        BY <2>7 DEF Closed
    <2>9. call.child # y
        <3>1. call'.child \notin Referenced'
            BY DEF LinkInv, CallLinks
        <3>2. y \in Referenced'
            BY <2>1, <2>6 DEF Referenced
        <3> QED
            BY <2>3, <3>1, <3>2
    <2> QED
        BY <2>3, <2>4, <2>8, <2>9
<1>4. CASE AddThrow
    BY <1>4 DEF AddThrow, Idle
<1> QED
    BY <1>1, <1>2, <1>3, <1>4, AddActs

LEMMA AcyclicInvariance == ASSUME KeyClient PROVE Spec => []AcyclicInv
<1>1. Init => AcyclicInv
    <2> SUFFICES ASSUME Init PROVE AcyclicInv
        OBVIOUS
    <2>1. EmptyNode.kids = <<>>
        BY DEF EmptyNode
    <2>2. \A u \in Uuid : Names(store[u]) = {}
        BY <2>1, LeafLinks DEF Init
    <2>3. \A u \in Uuid : Above(store, u, {})
        BY <2>2 DEF Above, Closed
    <2>4. CallAcyclic
        BY DEF Init, Idle, CallAcyclic
    <2> QED
        BY <2>3, <2>4 DEF AcyclicInv, Acyclic
<1>2. TreeInv /\ LinkInv /\ TreeInv' /\ LinkInv' /\ AcyclicInv /\ [Next]_vars => AcyclicInv'
    BY NextAcyclic, NextCallAcyclic DEF AcyclicInv
<1> QED
    BY <1>1, <1>2, Invariance, LinksInvariance, PTL DEF Spec

\* Each node has at most one parent and is not below itself: of a client that uses paths
\* of keys and attaches detached nodes only (hdc.cpp:451-533, 570-618, 1691-1735).
THEOREM ShapeCorrect == ASSUME KeyClient PROVE Spec => []TreeShaped
<1>1. TreeInv /\ LinkInv /\ AcyclicInv => TreeShaped
    <2> SUFFICES ASSUME TreeInv, LinkInv, AcyclicInv PROVE TreeShaped
        OBVIOUS
    <2>1. ASSUME NEW u \in live, NEW v \in live,
                 NEW i \in DOMAIN store[u].kids, NEW j \in DOMAIN store[v].kids,
                 store[u].kids[i].addr = store[v].kids[j].addr
          PROVE  u = v /\ i = j
        <3>1. store[u].kids[i].addr \in Children(u) /\ store[v].kids[j].addr \in Children(v)
            BY DEF Children, Names
        <3>2. u = v
            BY <2>1, <3>1 DEF LinkInv, Links
        <3> QED
            BY <2>1, <3>2 DEF LinkInv, Links, Apart
    <2>2. ASSUME NEW u \in live, NEW v \in Children(u) PROVE u \notin Reach(v)
        <3>1. store \in Stores /\ u \in Uuid
            BY TreeStores
        <3>2. PICK S : Above(store, u, S)
            BY <3>1 DEF AcyclicInv, Acyclic
        <3>3. v \in S /\ S \in SUBSET Uuid /\ Closed(store, S) /\ u \notin S
            BY <3>2 DEF Above, Children
        <3>4. Near(store, v)[MaxUuid] \subseteq S
            BY <3>1, <3>3, NearWithin
        <3> QED
            BY <3>3, <3>4 DEF Reach
    <2> QED
        BY <2>1, <2>2 DEF TreeShaped
<1> QED
    BY <1>1, Invariance, LinksInvariance, AcyclicInvariance, PTL

----------------------------------------------------------------------------
(* What delete_child() prunes. *)

\* The one record of a key is gone.
LEMMA ErasedGone ==
    ASSUME NEW D, NEW nd \in SoundNode(D), NEW key \in Key, ExistsSingle(nd, key)
    PROVE  ~ExistsSingle(Erased(nd, Position(nd, key)), key)
<1> DEFINE p == Position(nd, key)
           kids == RemoveAt(nd.kids, p)
           new == Erased(nd, p)
<1>1. /\ nd \in [type : Type, len : Nat, kids : Seq([key : Selector, addr : D])]
      /\ nd.kids \in Seq([key : Selector, addr : D])
      /\ Len(nd.kids) \in Nat /\ DOMAIN nd.kids = 1..Len(nd.kids)
      /\ p \in 1..Len(nd.kids)
    BY GetSingleSound, SoundNodeParts DEF Selector
<1>2. key \notin Nat
    BY KeyAssumption
<1>3. \A i \in 1..Len(nd.kids) : nd.kids[i].key = key => i = p
    BY <1>2, KeyAt
<1> HIDE DEF p
<1>4. /\ DOMAIN kids = 1..(Len(nd.kids) - 1)
      /\ \A i \in 1..(Len(nd.kids) - 1) :
            kids[i] = IF i < p THEN nd.kids[i] ELSE nd.kids[i + 1]
    BY <1>1, RemoveAtSeq
<1>5. new = [nd EXCEPT !.kids = kids, !.len = Len(nd.kids) - 1]
    BY DEF Erased
<1> HIDE DEF kids, new
<1>6. new.kids = kids
    BY <1>1, <1>5
<1>7. ASSUME NEW i \in DOMAIN kids PROVE kids[i].key # key
    <2>1. i \in 1..(Len(nd.kids) - 1) /\ i \in 1..Len(nd.kids) /\ i + 1 \in 1..Len(nd.kids)
        BY <1>1, <1>4
    <2>2. CASE i < p
        BY <1>1, <1>3, <1>4, <2>1, <2>2
    <2>3. CASE ~(i < p)
        <3>1. kids[i] = nd.kids[i + 1] /\ i + 1 # p
            BY <1>1, <1>4, <2>1, <2>3
        <3> QED
            BY <1>3, <2>1, <3>1
    <2> QED
        BY <2>2, <2>3
<1>8. ~ExistsSingle(new, key)
    BY <1>2, <1>6, <1>7 DEF ExistsSingle
<1> QED
    BY <1>8 DEF new, p

\* A way down comes to no node twice.
LEMMA WalkDistinct ==
    ASSUME TreeInv, Acyclic(store), NEW u \in Uuid, NEW path \in Seq(Selector),
           NEW i \in 0..Len(path), NEW j \in 0..Len(path), i < j,
           Walk(store, live, u, path)[j] # Null
    PROVE  Walk(store, live, u, path)[i] # Walk(store, live, u, path)[j]
<1> DEFINE f == Walk(store, live, u, path)
           n == Len(path)
<1>1. store \in Stores /\ live \in SUBSET Uuid
    BY TreeStores
<1>2. Follows(f, store, live, u, path) /\ n \in Nat
    BY <1>1, WalkSteps, LenProperties
<1>3. f[i] # Null
    <2>1. ASSUME Walk(store, live, u, path)[i] = Null PROVE FALSE
        <3>1. \A k \in i..Len(path) : Walk(store, live, u, path)[k] = Null
            BY <1>1, <2>1, NullStays
        <3>2. j \in i..Len(path)
            BY <1>2
        <3> QED
            BY <3>1, <3>2
    <2> QED
        BY <2>1
<1> HIDE DEF f, n
<1>4. f[i] \in Uuid
    BY <1>2, <1>3 DEF Follows, n
<1>5. PICK S : Above(store, f[i], S)
    BY <1>4 DEF Acyclic
<1>6. ASSUME NEW k \in 1..n, f[k] # Null, f[k-1] = f[i] \/ f[k-1] \in S
      PROVE  f[k] \in S
    <2> DEFINE x == f[k-1]
    <2>1. f[k] = Hop(store, live, x, path[k])
        BY <1>2 DEF Follows, n
    <2>2. x \in live /\ ExistsSingle(store[x], path[k]) /\ f[k] = GetSingle(store[x], path[k])
        BY <1>6, <2>1 DEF Hop
    <2>3. x = f[i] \/ x \in S
        BY <1>6
    <2>4. path[k] \in Selector
        BY ElementOfSeq DEF n
    <2> HIDE DEF x
    <2>5. /\ Position(store[x], path[k]) \in 1..Len(store[x].kids)
          /\ DOMAIN store[x].kids = 1..Len(store[x].kids)
        BY <1>1, <2>2, <2>4, GetSingleSound, SoundNodeParts DEF Stores
    <2>6. f[k] \in Names(store[x])
        BY <2>2, <2>5 DEF GetSingle, Names
    <2> QED
        BY <1>5, <2>3, <2>6 DEF Above, Closed
<1> DEFINE rest == n - (i + 1)
           I == {d \in 0..rest : f[i + 1 + d] # Null => f[i + 1 + d] \in S}
<1>7. rest \in Nat /\ i \in Nat /\ j \in Nat /\ j - (i + 1) \in 0..rest /\ i + 1 + (j - (i + 1)) = j
    BY <1>2 DEF n
<1>8. 0 \in I
    <2>1. i + 1 \in 1..n /\ (i + 1) - 1 = i /\ i + 1 + 0 = i + 1
        BY <1>2, <1>7
    <2> QED
        BY <1>6, <1>7, <2>1
<1>9. ASSUME NEW d \in 0..(rest - 1), d \in I PROVE d + 1 \in I
    <2> DEFINE k == i + 1 + d
    <2>1. k + 1 \in 1..n /\ (k + 1) - 1 = k /\ i + 1 + (d + 1) = k + 1 /\ d + 1 \in 0..rest
        BY <1>2, <1>7
    <2>2. f[k] # Null => f[k] \in S
        BY <1>9
    <2> HIDE DEF k, rest
    <2>3. f[k + 1] # Null => f[k] # Null
        <3>1. f[k + 1] = Hop(store, live, f[k], path[k + 1])
            BY <1>2, <2>1 DEF Follows, n
        <3>2. Null \notin live
            BY <1>1 DEF Null, Uuid
        <3> QED
            BY <3>1, <3>2 DEF Hop
    <2>4. f[k + 1] # Null => f[k + 1] \in S
        BY <1>6, <2>1, <2>2, <2>3
    <2> QED
        BY <2>1, <2>4
<1>10. 0..rest \subseteq I
    <2> HIDE DEF I, rest
    <2> QED
        BY <1>7, <1>8, <1>9, BoundedInduction
<1>11. f[j] \in S
    <2>1. j - (i + 1) \in I
        BY <1>7, <1>10
    <2> QED
        BY <1>7, <2>1 DEF f
<1> QED
    BY <1>5, <1>11 DEF Above, f

LEMMA NullFrom ==
    ASSUME NEW u \in Uuid, NEW path \in Seq(Selector), NEW k \in 0..Len(path)
    PROVE  \A st \in Stores, lv \in SUBSET Uuid :
                Walk(st, lv, u, path)[k] = Null =>
                    \A i \in k..Len(path) : Walk(st, lv, u, path)[i] = Null
BY NullStays

\* After the k-th node of a way is taken out of the node before it, the way ends there.
LEMMA ErasedWay ==
    ASSUME TreeInv, TreeInv', LinkInv, NEW root \in Uuid, NEW path \in Seq(Key),
           NEW k \in 1..Len(path),
           \A i \in 0..(k - 1) : Walk(store, live, root, path)[i] \in live,
           Walk(store, live, root, path)[k] # Null,
           \A i, j \in 0..k :
                Walk(store, live, root, path)[i] = Walk(store, live, root, path)[j] => i = j,
           EraseRecord(Walk(store, live, root, path)[k-1], path[k])
    PROVE  /\ \A i \in 0..(k - 1) :
                /\ Walk(store', live', root, path)[i] = Walk(store, live, root, path)[i]
                /\ Walk(store, live, root, path)[i] \in live'
           /\ \A i \in k..Len(path) : Walk(store', live', root, path)[i] = Null
           /\ live' = live \ {Walk(store, live, root, path)[k]}
<1> DEFINE f == Walk(store, live, root, path)
           g == Walk(store', live', root, path)
           n == Len(path)
           v == f[k-1]
           key == path[k]
           addr == GetSingle(store[v], key)
           nd == Erased(store[v], Position(store[v], key))
<1>1. /\ store \in Stores /\ live \in SUBSET Uuid
      /\ store' \in Stores /\ live' \in SUBSET Uuid
    BY TreeStores, NextStores
<1>2. path \in Seq(Selector) /\ n \in Nat /\ key \in Key
    <2>1. Key \subseteq Selector
        BY DEF Selector
    <2> QED
        BY <2>1, SeqMonotonic, LenProperties, ElementOfSeq
<1>3. Follows(f, store, live, root, path) /\ Follows(g, store', live', root, path)
    BY <1>1, <1>2, WalkSteps
<1>4. k \in Nat /\ k \in 0..k /\ k - 1 \in 0..(k - 1) /\ k - 1 \in 0..k /\ k - 1 # k
    BY <1>2
<1>5. v \in live /\ v \in Uuid /\ f[k] # Null /\ EraseRecord(v, key)
    BY <1>1, <1>4
<1>6. /\ live' = live \ {addr} /\ addr \in Drawn
      /\ store' = [store EXCEPT ![v] = nd, ![addr] = EmptyNode]
    BY <1>2, <1>5, ErasedRecord
<1>7. f[k] = addr
    BY <1>3, <1>5 DEF Follows, Hop
<1> HIDE DEF f, g, n, nd, addr, key
<1>8. addr \in Uuid /\ v # addr
    <2>1. f[k - 1] # f[k]
        BY <1>4 DEF f
    <2> QED
        BY <1>3, <1>5, <1>7, <2>1 DEF Follows, n
<1> HIDE DEF v
<1>9. /\ store'[v] = nd
      /\ \A x \in Uuid : x # v /\ x # addr => store'[x] = store[x]
    BY <1>5, <1>6, <1>8 DEF TreeInv
<1>10. \A i \in 0..(k - 1) : f[i] # addr /\ f[i] \in live /\ (i # k - 1 => f[i] # v)
    <2> SUFFICES ASSUME NEW i \in 0..(k - 1)
                 PROVE  f[i] # addr /\ f[i] \in live /\ (i # k - 1 => f[i] # v)
        OBVIOUS
    <2>1. i \in 0..k /\ i # k
        BY <1>4
    <2> QED
        BY <1>4, <1>7, <2>1 DEF f, v
<1> DEFINE I == {i \in 0..(k - 1) : g[i] = f[i]}
<1>11. 0 \in I
    BY <1>3, <1>4 DEF Follows, I
<1>12. ASSUME NEW i \in 0..((k - 1) - 1), i \in I PROVE i + 1 \in I
    <2> DEFINE j == i + 1
    <2>1. j \in 1..n /\ j - 1 = i /\ j \in 0..(k - 1) /\ i \in 0..(k - 1) /\ i # k - 1
        BY <1>2, <1>4 DEF n
    <2> HIDE DEF j
    <2>2. f[j] = Hop(store, live, f[i], path[j]) /\ g[j] = Hop(store', live', g[i], path[j])
        BY <1>3, <2>1 DEF Follows, n
    <2>3. g[i] = f[i] /\ f[i] \in live /\ f[i] \in live' /\ store'[f[i]] = store[f[i]]
        BY <1>1, <1>6, <1>9, <1>10, <1>12, <2>1
    <2>4. g[j] = f[j]
        BY <2>2, <2>3 DEF Hop
    <2> QED
        BY <2>1, <2>4 DEF j
<1>13. 0..(k - 1) \subseteq I
    <2>1. k - 1 \in Nat
        BY <1>4
    <2> DEFINE l == k - 1
    <2> HIDE DEF I
    <2>2. l \in Nat /\ \A i \in 0..(l - 1) : i \in I => i + 1 \in I
        BY <1>12, <2>1
    <2> HIDE DEF l
    <2>3. 0..l \subseteq I
        BY <1>11, <2>2, BoundedInduction
    <2> QED
        BY <2>3 DEF l
<1>14. \A i \in 0..(k - 1) : g[i] = f[i] /\ f[i] \in live'
    BY <1>6, <1>10, <1>13
<1>15. g[k] = Null
    <2>1. g[k] = Hop(store', live', g[k-1], key)
        BY <1>3 DEF Follows, n, key
    <2>2. g[k-1] = v
        BY <1>4, <1>14 DEF v
    <2>3. ~ExistsSingle(nd, key)
        <3>1. ExistsSingle(store[v], key) /\ store[v] \in SoundNode(Uuid)
            BY <1>1, <1>5 DEF EraseRecord, v, Stores
        <3> QED
            BY <1>2, <3>1, ErasedGone DEF nd
    <2> QED
        BY <1>9, <2>1, <2>2, <2>3 DEF Hop
<1>16. \A i \in k..n : g[i] = Null
    <2>1. k \in 0..Len(path)
        BY <1>2, <1>4 DEF n
    <2>2. Walk(store', live', root, path)[k] = Null
        BY <1>15 DEF g
    <2>3. \A st \in Stores, lv \in SUBSET Uuid :
                Walk(st, lv, root, path)[k] = Null =>
                    \A i \in k..Len(path) : Walk(st, lv, root, path)[i] = Null
        BY <1>2, <2>1, NullFrom
    <2>4. \A i \in k..Len(path) : Walk(store', live', root, path)[i] = Null
        BY <1>1, <2>2, <2>3
    <2> QED
        BY <2>4 DEF g, n
<1> QED
    BY <1>6, <1>7, <1>14, <1>16 DEF f, g, n

\* Where delete_child() stands after the level of m was looked at: the nodes of the way
\* down to m are there and differ, each below has children or is gone.
PruneOn(st, lv, root, path, m) ==
    LET w == Walk(st, lv, root, path)
    IN  /\ m \in 0..(Len(path) - 1)
        /\ \A i \in 0..m : w[i] \in lv
        /\ \A i, j \in 0..m : w[i] = w[j] => i = j
        /\ \A i \in (m + 1)..(Len(path) - 1) : w[i] # Null => HasChildren(st[w[i]])

\* The frames of delete_child() are the way to the last node that it has not looked at.
Framed(st, lv, c) ==
    LET w == Walk(st, lv, c.root, c.full)
    IN  /\ c.full \in Seq(Key)
        /\ PruneOn(st, lv, c.root, c.full, Len(c.frames))
        /\ \A i \in 1..Len(c.frames) :
                c.frames[i].at = w[i-1] /\ c.frames[i].sel = c.full[i] /\ c.frames[i].child = w[i]

PruneWay == call.op = "prune" => Framed(store, live, call)

\* The deletion of the last node of the path leaves the way to it.
LEMMA PruneStarts ==
    ASSUME TreeInv, TreeInv', LinkInv, Acyclic(store), KeyClient,
           NEW u \in Drawn, NEW path \in Paths, NEW prune \in BOOLEAN,
           DeleteChild(u, path, prune), call'.op = "prune"
    PROVE  Framed(store', live', call')
<1> DEFINE f == Walk(store, live, u, path)
           g == Walk(store', live', u, path)
           n == Len(path)
           frames == [i \in 1..(n - 1) |->
                        [at |-> Get(u, SubSeq(path, 1, i - 1)), sel |-> path[i],
                         child |-> Get(u, SubSeq(path, 1, i))]]
<1>1. /\ store \in Stores /\ live \in SUBSET Uuid /\ u \in Uuid
    BY TreeStores, DrawnNode
<1>2. path \in Seq(Key) /\ path \in Seq(Selector) /\ n \in Nat \ {0}
    BY KeyPath, PathsAssumption
<1>3. prune /\ n > 1
    BY DEF DeleteChild, Idle
<1>4. call' = [op |-> "prune", root |-> u, full |-> path, frames |-> frames]
    BY <1>3 DEF DeleteChild
<1> HIDE DEF frames
<1>5. call'.root = u /\ call'.full = path /\ call'.frames = frames
    BY <1>4
<1> DEFINE m == n - 1
<1>6. m \in Nat /\ m \in 0..n /\ n \in 1..n /\ n \in 0..n /\ m < n /\ 0..m = 0..(n - 1)
    BY <1>2
<1>7. \A i \in 0..n : Get(u, SubSeq(path, 1, i)) = f[i]
    BY <1>1, <1>2, WalkPrefix DEF Get
<1>8. Get(u, path) = f[n]
    BY DEF Get, Resolve
<1> HIDE DEF f, g, n
<1>9. /\ \A i \in 0..(n - 1) : f[i] \in live
      /\ f[n] # Null
    <2>1. \A i \in 0..(n - 1) : i \in 0..n
        BY <1>2
    <2>2. Null \notin Uuid
        BY DEF Null, Uuid
    <2>3. Exists(u, path)
        BY DEF DeleteChild
    <2> QED
        BY <1>7, <1>8, <2>1, <2>2, <2>3 DEF Exists, n
<1>10. EraseRecord(f[n - 1], path[n])
    <2>1. Front(path) = SubSeq(path, 1, m) /\ Last(path) = path[n]
        BY DEF Front, Last, n
    <2>2. Get(u, Front(path)) = f[m]
        BY <1>6, <1>7, <2>1
    <2>3. EraseRecord(Get(u, Front(path)), Last(path))
        BY DEF DeleteChild
    <2> QED
        BY <2>1, <2>2, <2>3
<1>11. \A i, j \in 0..n : f[i] = f[j] => i = j
    <2>1. \A i, j \in 0..n : i < j => f[i] # f[j]
        <3> SUFFICES ASSUME NEW i \in 0..n, NEW j \in 0..n, i < j PROVE f[i] # f[j]
            OBVIOUS
        <3>1. f[j] # Null
            <4>1. j = n \/ j \in 0..(n - 1)
                BY <1>2
            <4>2. Null \notin live
                BY <1>1 DEF Null, Uuid
            <4> QED
                BY <1>9, <4>1, <4>2
        <3> QED
            BY <1>1, <1>2, <3>1, WalkDistinct DEF f, n
    <2>2. \A i, j \in 0..n : i = j \/ i < j \/ j < i
        BY <1>2
    <2> QED
        BY <2>1, <2>2
<1>12. \A i \in 0..(n - 1) : g[i] = f[i] /\ f[i] \in live'
    BY <1>1, <1>2, <1>6, <1>9, <1>10, <1>11, ErasedWay DEF f, g, n
<1>13. Len(frames) = m
    <2>1. frames \in Seq(Frame)
        <3>1. call' \in PruneCall
            <4>1. CallSound'
                BY DEF TreeInv
            <4> QED
                BY <4>1 DEF CallSound, Idle, AddCall, PruneCall, CopyCall
        <3> QED
            BY <1>5, <3>1 DEF PruneCall
    <2>2. DOMAIN frames = 1..Len(frames) /\ Len(frames) \in Nat
        BY <2>1, LenProperties
    <2>3. DOMAIN frames = 1..m
        BY DEF frames
    <2> QED
        BY <1>6, <2>2, <2>3
<1>14. \A i \in 1..m : frames[i].at = g[i-1] /\ frames[i].sel = path[i] /\ frames[i].child = g[i]
    <2> SUFFICES ASSUME NEW i \in 1..m
                 PROVE  frames[i].at = g[i-1] /\ frames[i].sel = path[i] /\ frames[i].child = g[i]
        OBVIOUS
    <2>1. i \in 0..n /\ i - 1 \in 0..n /\ i \in 0..(n - 1) /\ i - 1 \in 0..(n - 1) /\ i \in 1..(n - 1)
        BY <1>2
    <2>2. frames[i] = [at |-> Get(u, SubSeq(path, 1, i - 1)), sel |-> path[i],
                       child |-> Get(u, SubSeq(path, 1, i))]
        BY <2>1 DEF frames
    <2> QED
        BY <1>7, <1>12, <2>1, <2>2
<1>15. PruneOn(store', live', u, path, m)
    <2>1. \A i \in 0..m : g[i] \in live'
        BY <1>6, <1>12
    <2>2. \A i, j \in 0..m : g[i] = g[j] => i = j
        <3>1. \A i \in 0..m : i \in 0..n /\ g[i] = f[i]
            BY <1>6, <1>12
        <3> QED
            BY <1>11, <3>1
    <2>3. (m + 1)..(n - 1) = {} /\ m \in 0..(n - 1)
        BY <1>6
    <2> QED
        BY <2>1, <2>2, <2>3 DEF PruneOn, g, n
<1> QED
    BY <1>2, <1>5, <1>13, <1>14, <1>15 DEF Framed, g

\* One level of the pruning, whose frame is the m-th.
LEMMA PruneLevel ==
    ASSUME TreeInv, TreeInv', LinkInv, Prune,
           NEW root \in Uuid, NEW path \in Seq(Key), NEW m \in 1..(Len(path) - 1),
           PruneOn(store, live, root, path, m),
           Last(call.frames).at = Walk(store, live, root, path)[m-1],
           Last(call.frames).sel = path[m],
           Last(call.frames).child = Walk(store, live, root, path)[m]
    PROVE  /\ \A i \in 0..(m - 1) :
                /\ Walk(store', live', root, path)[i] = Walk(store, live, root, path)[i]
                /\ Walk(store, live, root, path)[i] \in live'
           /\ \A i \in m..(Len(path) - 1) : Walk(store', live', root, path)[i] # Null =>
                HasChildren(store'[Walk(store', live', root, path)[i]])
           /\ \A v \in live \ live' : ~HasChildren(store[v])
<1> DEFINE f == Walk(store, live, root, path)
           g == Walk(store', live', root, path)
           n == Len(path)
           last == Last(call.frames)
<1>1. /\ store \in Stores /\ live \in SUBSET Uuid
      /\ path \in Seq(Selector) /\ n \in Nat /\ m \in 1..n /\ path[m] \in Key
    <2>1. Key \subseteq Selector
        BY DEF Selector
    <2>2. n \in Nat /\ m \in 1..n
        BY LenProperties
    <2> QED
        BY <2>1, <2>2, TreeStores, SeqMonotonic, ElementOfSeq
<1>2. Follows(f, store, live, root, path)
    BY <1>1, WalkSteps
<1> HIDE DEF f, g, n, last
<1>3. /\ \A i \in 0..m : f[i] \in live
      /\ \A i, j \in 0..m : f[i] = f[j] => i = j
      /\ \A i \in (m + 1)..(n - 1) : f[i] # Null => HasChildren(store[f[i]])
    BY DEF PruneOn, f, n
<1>4. last.at = f[m-1] /\ last.sel = path[m] /\ last.child = f[m]
    BY DEF f, last
<1>5. m \in 0..m /\ m - 1 \in 0..m /\ m \in Nat
    BY <1>1
<1>6. Null \notin live
    BY <1>1 DEF Null, Uuid
<1>7. f[m] \in live /\ f[m-1] \in live /\ f[m] # Null
    BY <1>3, <1>5, <1>6
<1>8. ExistsSingle(store[last.at], last.sel)
    <2>1. f[m] = Hop(store, live, f[m-1], path[m])
        BY <1>1, <1>2 DEF Follows, n
    <2> QED
        BY <1>4, <1>7, <2>1 DEF Hop
<1>9. CASE ~HasChildren(store[last.child])
    <2>1. EraseRecord(last.at, last.sel)
        BY <1>8, <1>9 DEF Prune, last
    <2>2. EraseRecord(f[m-1], path[m])
        BY <1>4, <2>1
    <2>3. \A i \in 0..(m - 1) : f[i] \in live
        BY <1>3, <1>5
    <2>4. m \in 1..Len(path)
        BY <1>1 DEF n
    <2>5. /\ \A i \in 0..(m - 1) : f[i] \in live
          /\ f[m] # Null
          /\ \A i, j \in 0..m : f[i] = f[j] => i = j
        BY <1>3, <1>7, <2>3
    <2>6. /\ \A i \in 0..(m - 1) : g[i] = f[i] /\ f[i] \in live'
          /\ \A i \in m..n : g[i] = Null
          /\ live' = live \ {f[m]}
        BY <2>2, <2>4, <2>5, ErasedWay DEF f, g, n
    <2>7. \A i \in m..(n - 1) : g[i] = Null
        BY <1>1, <2>6
    <2>8. \A v \in live \ live' : ~HasChildren(store[v])
        BY <1>4, <1>9, <2>6
    <2> QED
        BY <2>6, <2>7, <2>8 DEF f, g, n
<1>10. CASE HasChildren(store[last.child])
    <2>1. store' = store /\ live' = live
        BY <1>10 DEF Prune, last
    <2>2. g = f
        BY <2>1 DEF f, g
    <2>3. \A i \in m..(n - 1) : g[i] # Null => HasChildren(store'[g[i]])
        <3>1. \A i \in m..(n - 1) : i = m \/ i \in (m + 1)..(n - 1)
            BY <1>1
        <3> QED
            BY <1>3, <1>4, <1>10, <2>1, <2>2, <3>1
    <2>4. \A i \in 0..(m - 1) : g[i] = f[i] /\ f[i] \in live'
        BY <1>3, <1>5, <2>1, <2>2
    <2>5. live \ live' = {}
        BY <2>1
    <2> QED
        BY <2>3, <2>4, <2>5 DEF f, g, n
<1> QED
    BY <1>9, <1>10

\* The frame that a level of the pruning looks at.
LEMMA PruneFrame ==
    ASSUME TreeInv, call.op = "prune", Framed(store, live, call)
    PROVE  LET m == Len(call.frames)
               w == Walk(store, live, call.root, call.full)
           IN  /\ call \in PruneCall
               /\ call.root \in Uuid /\ call.full \in Seq(Key)
               /\ m \in 1..(Len(call.full) - 1)
               /\ PruneOn(store, live, call.root, call.full, m)
               /\ Last(call.frames).at = w[m-1]
               /\ Last(call.frames).sel = call.full[m]
               /\ Last(call.frames).child = w[m]
<1> DEFINE m == Len(call.frames)
<1>1. call \in PruneCall
    BY CallKinds DEF TreeInv
<1>2. call.frames \in Seq(Frame) /\ call.frames # <<>> /\ call.root \in Uuid
    BY <1>1 DEF PruneCall
<1>3. m \in Nat /\ m # 0 /\ Last(call.frames) = call.frames[m]
    BY <1>2, LenProperties, EmptySeq DEF Last
<1>4. /\ call.full \in Seq(Key)
      /\ PruneOn(store, live, call.root, call.full, m)
      /\ m \in 0..(Len(call.full) - 1)
    BY DEF Framed, PruneOn
<1>5. Len(call.full) \in Nat
    BY <1>4, LenProperties
<1>6. m \in 1..m /\ m \in 1..(Len(call.full) - 1)
    BY <1>3, <1>4, <1>5
<1>7. /\ call.frames[m].at = Walk(store, live, call.root, call.full)[m-1]
      /\ call.frames[m].sel = call.full[m]
      /\ call.frames[m].child = Walk(store, live, call.root, call.full)[m]
    BY <1>6 DEF Framed
<1> QED
    BY <1>1, <1>2, <1>3, <1>4, <1>6, <1>7

\* The frames that are left lead to the level above.
LEMMA PruneGoesOn ==
    ASSUME TreeInv, TreeInv', LinkInv, Prune, Framed(store, live, call), call'.op = "prune"
    PROVE  Framed(store', live', call')
<1> DEFINE root == call.root
           path == call.full
           frames == call.frames
           m == Len(frames)
           f == Walk(store, live, root, path)
           g == Walk(store', live', root, path)
           n == Len(path)
<1>1. call.op = "prune" /\ call' = Returned
    BY DEF Prune
<1>2. /\ call \in PruneCall /\ root \in Uuid /\ path \in Seq(Key) /\ m \in 1..(n - 1)
      /\ PruneOn(store, live, root, path, m)
      /\ Last(frames).at = f[m-1] /\ Last(frames).sel = path[m] /\ Last(frames).child = f[m]
    BY <1>1, PruneFrame
<1>3. /\ \A i \in 0..(m - 1) : g[i] = f[i] /\ f[i] \in live'
      /\ \A i \in m..(n - 1) : g[i] # Null => HasChildren(store'[g[i]])
    BY <1>2, PruneLevel
<1>4. n \in Nat
    BY <1>2, LenProperties
<1>5. /\ \A i, j \in 0..m : f[i] = f[j] => i = j
      /\ \A i \in 1..m : frames[i].at = f[i-1] /\ frames[i].sel = path[i] /\ frames[i].child = f[i]
    BY <1>2 DEF PruneOn, Framed
<1>6. m # 1 /\ call' = [call EXCEPT !.frames = Front(frames)]
    BY <1>1 DEF Returned, Idle
<1>7. call'.root = root /\ call'.full = path /\ call'.frames = Front(frames)
    BY <1>2, <1>6 DEF PruneCall
<1> DEFINE l == m - 1
<1>8. /\ Len(Front(frames)) = l
      /\ \A i \in 1..l : Front(frames)[i] = frames[i]
    <2>1. frames \in Seq(Frame)
        BY <1>2 DEF PruneCall
    <2> QED
        BY <1>2, <1>4, <2>1 DEF Front
<1> HIDE DEF root, path, f, g, n, m, frames
<1>9. PruneOn(store', live', root, path, l)
    <2>1. l \in 0..(n - 1) /\ l + 1 = m
        BY <1>2, <1>4
    <2>2. \A i \in 0..l : g[i] \in live'
        BY <1>3
    <2>3. \A i, j \in 0..l : g[i] = g[j] => i = j
        <3>1. \A i \in 0..l : i \in 0..m
            BY <1>2, <1>4
        <3> QED
            BY <1>3, <1>5, <3>1
    <2>4. \A i \in (l + 1)..(n - 1) : g[i] # Null => HasChildren(store'[g[i]])
        BY <1>3, <2>1
    <2> HIDE DEF l
    <2> QED
        BY <2>1, <2>2, <2>3, <2>4 DEF PruneOn, g, n
<1>10. \A i \in 1..l : /\ Front(frames)[i].at = g[i-1]
                       /\ Front(frames)[i].sel = path[i]
                       /\ Front(frames)[i].child = g[i]
    <2>1. \A i \in 1..l : i \in 1..m /\ i \in 0..(m - 1) /\ i - 1 \in 0..(m - 1)
        BY <1>2, <1>4
    <2> QED
        BY <1>3, <1>5, <1>8, <2>1
<1> HIDE DEF l
<1> QED
    BY <1>2, <1>7, <1>8, <1>9, <1>10 DEF Framed, g

LEMMA PruneActs ==
    ASSUME call.op = "prune", [Next]_vars
    PROVE  Prune \/ PruneThrow \/ UNCHANGED vars
<1>1. call # Idle /\ call.op # "add" /\ call.op # "copy"
    BY DEF Idle
<1> QED
    BY <1>1 DEF Next, New, AddLevel, AddThrow, CopyChildren, SetArray, SetScalar,
                SetType, GetOrCreate, AddChild, SetChild, Insert, DeleteChild, Clean,
                Assign, CopyBuffer, CopyTree

\* It begins with the deletion of the last node.
LEMMA PruneBegins ==
    ASSUME TreeInv, call.op # "prune", call'.op = "prune", [Next]_vars
    PROVE  \E u \in Drawn, path \in Paths, prune \in BOOLEAN : DeleteChild(u, path, prune)
<1>1. call' # call /\ call' # Idle
    BY DEF Idle
<1>2. ~Prune /\ ~PruneThrow
    BY DEF Prune, PruneThrow
<1>3. ~AddLevel
    <2> SUFFICES ASSUME AddLevel PROVE FALSE
        OBVIOUS
    <2>1. call \in AddCall
        BY CallKinds DEF TreeInv, AddLevel
    <2> QED
        BY <1>1, <2>1, AddLevelCall DEF AddCall
<1>4. ~CopyChildren
    <2> SUFFICES ASSUME CopyChildren PROVE FALSE
        OBVIOUS
    <2>1. call \in CopyCall /\ call.op = "copy"
        BY CallKinds DEF TreeInv, CopyChildren
    <2>2. PICK todo : call' = [call EXCEPT !.todo = todo]
        BY <1>1 DEF CopyChildren
    <2> QED
        BY <2>1, <2>2 DEF CopyCall
<1>5. \A u, path, n : ~GetOrCreate(u, path) /\ ~AddChild(u, path, n)
    BY DEF GetOrCreate, AddChild, NewAddCall
<1>6. ~AddThrow
    BY <1>1 DEF AddThrow
<1> QED
    BY <1>1, <1>2, <1>3, <1>4, <1>5, <1>6
       DEF Next, vars, New, SetArray, SetScalar, SetType, SetChild, Insert,
           Clean, Assign, CopyBuffer, CopyTree

LEMMA PruneWayStep ==
    ASSUME TreeInv, TreeInv', LinkInv, AcyclicInv, KeyClient, PruneWay, [Next]_vars
    PROVE  PruneWay'
<1> SUFFICES ASSUME call'.op = "prune" PROVE Framed(store', live', call')
    BY DEF PruneWay
<1>1. CASE call.op = "prune"
    <2>1. Framed(store, live, call)
        BY <1>1 DEF PruneWay
    <2>2. CASE Prune
        BY <2>1, <2>2, PruneGoesOn
    <2>3. CASE PruneThrow
        BY <2>3 DEF PruneThrow, Idle
    <2>4. CASE UNCHANGED vars
        <3>1. store' = store /\ live' = live /\ call' = call
            BY <2>4 DEF vars
        <3> QED
            BY <2>1, <3>1
    <2> QED
        BY <1>1, <2>2, <2>3, <2>4, PruneActs
<1>2. CASE call.op # "prune"
    <2>1. PICK u \in Drawn, path \in Paths, prune \in BOOLEAN : DeleteChild(u, path, prune)
        BY <1>2, PruneBegins
    <2> QED
        BY <2>1, PruneStarts DEF AcyclicInv
<1> QED
    BY <1>1, <1>2

LEMMA PruneWayInvariance == ASSUME KeyClient PROVE Spec => []PruneWay
<1>1. Init => PruneWay
    BY DEF Init, Idle, PruneWay
<1>2. TreeInv /\ TreeInv' /\ LinkInv /\ AcyclicInv /\ PruneWay /\ [Next]_vars => PruneWay'
    BY PruneWayStep
<1> QED
    BY <1>1, <1>2, Invariance, LinksInvariance, AcyclicInvariance, PTL DEF Spec

\* delete_child(path, true) removes nodes without children only, and leaves none of them
\* on the path when it returns: of a client that uses paths of keys and attaches detached
\* nodes only (hdc.cpp:570-618).
THEOREM PruneCorrect == ASSUME KeyClient PROVE Spec => PruneExact
<1> DEFINE Done == (call.op = "prune" /\ PruneSound(Last(call.frames))) =>
        /\ \A v \in live \ live' : ~HasChildren(store[v])
        /\ (call' = Idle /\ call.full \in Seq(Key)) =>
            \A i \in 1..(Len(call.full) - 1) :
                LET v == Resolve(store', live', call.root, SubSeq(call.full, 1, i))
                IN  v # Null => HasChildren(store'[v])
<1>1. ASSUME TreeInv, TreeInv', LinkInv, PruneWay, Next PROVE Done \/ UNCHANGED vars
    <2> SUFFICES ASSUME call.op = "prune", PruneSound(Last(call.frames)), ~UNCHANGED vars
                 PROVE  Done
        OBVIOUS
    <2> DEFINE root == call.root
               path == call.full
               m == Len(call.frames)
               n == Len(path)
               g == Walk(store', live', root, path)
    <2>1. Prune
        BY <1>1, PruneActs DEF PruneThrow
    <2>2. Framed(store, live, call)
        BY <1>1 DEF PruneWay
    <2>3. /\ call \in PruneCall /\ root \in Uuid /\ path \in Seq(Key) /\ m \in 1..(n - 1)
          /\ PruneOn(store, live, root, path, m)
          /\ Last(call.frames).at = Walk(store, live, root, path)[m-1]
          /\ Last(call.frames).sel = path[m]
          /\ Last(call.frames).child = Walk(store, live, root, path)[m]
        BY <1>1, <2>2, PruneFrame
    <2>4. /\ \A i \in m..(n - 1) : g[i] # Null => HasChildren(store'[g[i]])
          /\ \A v \in live \ live' : ~HasChildren(store[v])
        BY <1>1, <2>1, <2>3, PruneLevel
    <2>5. ASSUME call' = Idle, NEW i \in 1..(n - 1)
          PROVE  LET v == Resolve(store', live', root, SubSeq(path, 1, i))
                 IN  v # Null => HasChildren(store'[v])
        <3>1. m = 1
            <4>1. call' = Returned
                BY <2>1 DEF Prune
            <4>2. ASSUME m # 1 PROVE call'.op = "prune"
                BY <2>3, <4>1, <4>2 DEF Returned, PruneCall
            <4> QED
                BY <2>5, <4>2 DEF Idle
        <3>2. store' \in Stores /\ live' \in SUBSET Uuid
            BY <1>1, NextStores
        <3>3. path \in Seq(Selector) /\ i \in 0..n
            <4>1. Key \subseteq Selector
                BY DEF Selector
            <4> QED
                BY <2>3, <4>1, SeqMonotonic, LenProperties
        <3>4. \A st \in Stores, lv \in SUBSET Uuid :
                    Resolve(st, lv, root, SubSeq(path, 1, i)) = Walk(st, lv, root, path)[i]
            BY <2>3, <3>3, WalkPrefix
        <3>5. Resolve(store', live', root, SubSeq(path, 1, i)) = g[i]
            BY <3>2, <3>4
        <3>6. g[i] # Null => HasChildren(store'[g[i]])
            BY <2>4, <3>1
        <3> QED
            BY <3>5, <3>6
    <2> QED
        BY <2>4, <2>5
<1>2. TreeInv /\ TreeInv' /\ LinkInv /\ PruneWay /\ [Next]_vars => [Done]_vars
    BY <1>1
<1> QED
    BY <1>2, Invariance, LinksInvariance, PruneWayInvariance, PTL DEF PruneExact, Spec
=============================================================================
