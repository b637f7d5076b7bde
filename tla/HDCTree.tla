------------------------------ MODULE HDCTree ------------------------------
(***************************************************************************)
(* The tree that the HDC class keeps in one storage (src/src/hdc.cpp).     *)
(*                                                                         *)
(* A node is a buffer of the storage, found by its uuid: a header (type,   *)
(* shape, ...) and, in a STRUCT or a LIST, a container of records          *)
(* (key, address) where an address is the uuid of a child.  Every link of  *)
(* the tree is therefore a name looked up in the storage at each use: it   *)
(* may name a node that was removed, and two records may name the same     *)
(* node.  An HDC object is a handle, a uuid, and has no other state.       *)
(*                                                                         *)
(* The module models the calls that change the tree, made by one thread.   *)
(* A recursive call is a call record in the variable "call": one step of   *)
(* the model is one level of the recursion, so that what an exception in   *)
(* the middle leaves behind is a state of the model.                       *)
(***************************************************************************)
EXTENDS Integers, FiniteSets, SequencesExt

CONSTANTS
    Key,        \* the keys a path may hold
    LongKey,    \* those that are longer than 1024 characters
    MaxUuid,    \* bound: how many uuids a behaviour may generate
    Paths,      \* the paths the client uses: non-empty sequences of Selectors
    Slots,      \* the indexes the client passes to insert()
    Calls,      \* the calls the client makes
    Sharing     \* may the client attach a node twice, or below itself?

\* An element of a path: a key, or an index written [i].
Selector == Key \cup Nat

ASSUME KeyAssumption == \A k \in Key : k \notin Nat
ASSUME LongKeyAssumption == LongKey \subseteq Key
ASSUME BoundAssumption == MaxUuid \in Nat
ASSUME PathsAssumption == Paths \subseteq Seq(Selector) \ {<<>>}
ASSUME SlotsAssumption == Slots \subseteq Nat
ASSUME SharingAssumption == Sharing \in BOOLEAN

VARIABLES
    store,      \* store[u]: the node that the storage holds under u
    live,       \* the uuids that have an entry in the storage
    next,       \* the next uuid to generate: uuids are numbered as they are drawn
    call        \* the recursive call in progress

vars == <<store, live, next, call>>

----------------------------------------------------------------------------
(* Nodes.  The data types (INT8, ..., BOOL, STRING) are one type, "DATA".  *)

Uuid == 1..MaxUuid
Null == 0
Drawn == 1..(next - 1)

Type == {"EMPTY", "STRUCT", "LIST", "DATA"}

\* hdc_map.h: a record of the children container.  The key of a list slice is
\* the index it was inserted at, as a string.
Record == [key : Selector, addr : Uuid]

\* "len" is header->shape[0]; the container is in the order of its by_index view.
Node == [type : Type, len : Nat, kids : Seq(Record)]

EmptyNode == [type |-> "EMPTY", len |-> 0, kids |-> <<>>]
DataNode == [type |-> "DATA", len |-> 0, kids |-> <<>>]

IsTerminal(nd) == nd.type \notin {"STRUCT", "LIST"}
HasChildren(nd) == nd.kids # <<>>
Names(nd) == {nd.kids[i].addr : i \in DOMAIN nd.kids}
Children(u) == Names(store[u])

\* exists_single(): an index only asks for the size, in a STRUCT too.
ExistsSingle(nd, sel) ==
    /\ ~IsTerminal(nd)
    /\ IF sel \in Nat THEN sel < Len(nd.kids)
       ELSE \E i \in DOMAIN nd.kids : nd.kids[i].key = sel

\* Where get_single() finds the record of a selector that exists.
Position(nd, sel) ==
    IF sel \in Nat THEN sel + 1
    ELSE CHOOSE i \in DOMAIN nd.kids : nd.kids[i].key = sel

GetSingle(nd, sel) == nd.kids[Position(nd, sel)].addr

\* The nodes that get(path) comes through in a given storage, Null where it throws.
\* The entry of the last one is not looked up.
Walk(st, lv, u, path) ==
    LET at[i \in 0..Len(path)] ==
            IF i = 0 THEN u
            ELSE IF at[i-1] \in lv /\ ExistsSingle(st[at[i-1]], path[i])
                 THEN GetSingle(st[at[i-1]], path[i])
                 ELSE Null
    IN  at

Resolve(st, lv, u, path) == Walk(st, lv, u, path)[Len(path)]

Get(u, path) == Resolve(store, live, u, path)

\* exists(path) looks at the entry of every node but the last.
Exists(u, path) ==
    /\ path # <<>>
    /\ \A i \in 0..(Len(path) - 1) : Get(u, SubSeq(path, 1, i)) \in live
    /\ Get(u, path) \in Uuid

\* The uuids within d links of u in a given storage, u included.
Near(st, u) ==
    LET near[d \in 0..MaxUuid] ==
            IF d = 0 THEN {u}
            ELSE LET nearer == near[d-1]
                 IN  nearer \cup UNION {Names(st[v]) : v \in nearer}
    IN  near

\* Every uuid that can be reached from u, u included.
Reach(u) == Near(store, u)[MaxUuid]

Referenced == UNION {Children(u) : u \in live}

----------------------------------------------------------------------------
(* Changes of one node. *)

\* Mutant: the container is built anew whatever the type was.
SetTypeOfAlways(nd, type) == [nd EXCEPT !.type = type, !.kids = <<>>]

\* set_type() on an EMPTY node builds an empty container and keeps the shape;
\* on a node of that type already it does nothing.
SetTypeOf(nd, type) ==
    IF nd.type = type THEN nd ELSE [nd EXCEPT !.type = type, !.kids = <<>>]

\* insert(index, h) adds EMPTY nodes up to the index first, each by append().
Padding(nd, index) == IF index > nd.len THEN index - nd.len ELSE 0

\* Mutant: the addresses of the padding nodes are off by one.
InsertedSkewed(nd, index, x, pad) ==
    LET pads == [i \in 1..Padding(nd, index) |->
                    [key |-> nd.len + i - 1, addr |-> pad + i]]
        kids == InsertAt(nd.kids \o pads, index + 1, [key |-> index, addr |-> x])
    IN  [type |-> "LIST", len |-> Len(kids), kids |-> kids]

\* The node after insert(index, x), the padding nodes being pad, pad+1, ...
Inserted(nd, index, x, pad) ==
    LET pads == [i \in 1..Padding(nd, index) |->
                    [key |-> nd.len + i - 1, addr |-> pad + i - 1]]
        kids == InsertAt(nd.kids \o pads, index + 1, [key |-> index, addr |-> x])
    IN  [type |-> "LIST", len |-> Len(kids), kids |-> kids]

\* Mutants of add_child_single(): the count of the key is not looked at; a key that
\* is there gets the new address; shape[0] is set before the record is inserted.
AddedSingleTwice(nd, key, x) ==
    LET kids == Append(SetTypeOf(nd, "STRUCT").kids, [key |-> key, addr |-> x])
    IN  [type |-> "STRUCT", len |-> Len(kids), kids |-> kids]

AddedSingleRebinds(nd, key, x) ==
    LET kept == SelectSeq(SetTypeOf(nd, "STRUCT").kids, LAMBDA r : r.key # key)
        kids == Append(kept, [key |-> key, addr |-> x])
    IN  [type |-> "STRUCT", len |-> Len(kids), kids |-> kids]

\* The node after add_child_single(key, x): a key that is there stays as it is.
AddedSingle(nd, key, x) ==
    LET st == SetTypeOf(nd, "STRUCT")
        kids == IF ExistsSingle(st, key) THEN st.kids
                ELSE Append(st.kids, [key |-> key, addr |-> x])
    IN  [st EXCEPT !.kids = kids, !.len = Len(kids)]

\* One level of add_child(): which nodes take the selector, how many padding
\* nodes it needs and what the node becomes.
Accepts(nd, sel) ==
    IF sel \in Nat THEN ExistsSingle(nd, sel) \/ nd.type \in {"EMPTY", "LIST"}
    ELSE nd.type \in {"EMPTY", "STRUCT"} /\ sel \notin LongKey

LevelPadding(nd, sel) ==
    IF sel \in Nat /\ ~ExistsSingle(nd, sel) THEN Padding(nd, sel) ELSE 0

Attached(nd, sel, x, pad) ==
    IF sel \notin Nat THEN AddedSingle(nd, sel, x)
    ELSE IF ExistsSingle(nd, sel) THEN nd
    ELSE Inserted(nd, sel, x, pad)

\* A key of more than 1024 characters is refused after the node became a STRUCT.
Refused(nd, sel) ==
    IF sel \in LongKey /\ nd.type \in {"EMPTY", "STRUCT"}
    THEN SetTypeOf(nd, "STRUCT") ELSE nd

\* set_child_single(): the record that is there gets the new address.
Relinked(nd, sel, x) == [nd EXCEPT !.kids[Position(nd, sel)].addr = x]

\* Mutant: any record.
ErasableAny(nd, sel) == DOMAIN nd.kids

\* The records that erase(find(record.key)) may erase for a selector: of equal
\* keys the container may hold, find() returns any.
Erasable(nd, sel) ==
    {j \in DOMAIN nd.kids : nd.kids[j].key = nd.kids[Position(nd, sel)].key}

\* Mutants: shape[0] is not updated; the record after the found one is erased.
ErasedKeepsShape(nd, j) == [nd EXCEPT !.kids = RemoveAt(nd.kids, j)]

ErasedNext(nd, j) ==
    [nd EXCEPT !.kids = RemoveAt(nd.kids, IF j < Len(nd.kids) THEN j + 1 ELSE 1),
               !.len = Len(nd.kids) - 1]

\* children->erase(it) and the update of shape[0].
Erased(nd, j) ==
    [nd EXCEPT !.kids = RemoveAt(nd.kids, j), !.len = Len(nd.kids) - 1]

----------------------------------------------------------------------------
(* Calls. *)

Idle == [op |-> "idle"]

\* add_child() on the node "at" with the path "path" left; the caller asked for
\* "child" at path "full" of "root", which led to "was" before the call.
AddCall == [op : {"add"}, at : Uuid, path : Seq(Selector) \ {<<>>}, child : Uuid,
            root : Uuid, full : Seq(Selector) \ {<<>>}, was : Uuid \cup {Null}]

\* delete_child(full, prune = true) of "root" on its way back: each frame remembers
\* the node it was called on, the first selector of its path and the child there.
Frame == [at : Uuid, sel : Selector, child : Uuid]
PruneCall == [op : {"prune"}, root : Uuid, full : Seq(Selector) \ {<<>>},
              frames : Seq(Frame) \ {<<>>}]

\* copy() of "from" to "to": the nodes whose children are still to be copied.
CopyCall == [op : {"copy"}, from : Uuid, to : Uuid,
             todo : Seq([src : Uuid, dst : Uuid]) \ {<<>>}]

\* n more uuids can be drawn.
CanDraw(n) == next + n <= MaxUuid + 1

\* The client of the runs with ~Sharing attaches only nodes that have no parent,
\* and never below themselves.
MayAttach(root, n) ==
    /\ n \in live
    /\ Sharing \/ (n \notin Referenced /\ root \notin Reach(n))

Init ==
    /\ store = [u \in Uuid |-> EmptyNode]
    /\ live = {}
    /\ next = 1
    /\ call = Idle

\* HDC()
New ==
    /\ call = Idle /\ "new" \in Calls
    /\ CanDraw(1)
    /\ live' = live \cup {next}
    /\ next' = next + 1
    /\ UNCHANGED <<store, call>>

\* set_data(shape, T*): the old buffer is read first.
SetArray(u) ==
    /\ call = Idle /\ "data" \in Calls
    /\ u \in live
    /\ store' = [store EXCEPT ![u] = DataNode]
    /\ UNCHANGED <<live, next, call>>

\* set_string(), set_data(T): nothing of the old entry is read, so a handle
\* whose node was removed gives it an entry again.
SetScalar(u) ==
    /\ call = Idle /\ "scalar" \in Calls
    /\ u \in Drawn
    /\ store' = [store EXCEPT ![u] = DataNode]
    /\ live' = live \cup {u}
    /\ UNCHANGED <<next, call>>

\* set_type().  That the node is EMPTY is a rule for the client, which every call in
\* the repository keeps and set_type() does not ask for.
SetType(u, type) ==
    /\ call = Idle /\ "type" \in Calls
    /\ u \in live /\ store[u].type = "EMPTY"
    /\ store' = [store EXCEPT ![u] = SetTypeOf(@, type)]
    /\ UNCHANGED <<live, next, call>>

NewAddCall(u, path, child) ==
    [op |-> "add", at |-> u, path |-> path, child |-> child,
     root |-> u, full |-> path,
     was |-> IF Exists(u, path) THEN Get(u, path) ELSE Null]

\* add_child(path, n)
AddChild(u, path, n) ==
    /\ call = Idle /\ "add" \in Calls
    /\ u \in live /\ MayAttach(u, n)
    /\ call' = NewAddCall(u, path, n)
    /\ UNCHANGED <<store, live, next>>

\* get_or_create(path), which operator[] calls: add_child() with a new node.
GetOrCreate(u, path) ==
    /\ call = Idle /\ "create" \in Calls
    /\ u \in live /\ ~Exists(u, path)
    /\ CanDraw(1)
    /\ live' = live \cup {next}
    /\ next' = next + 1
    /\ call' = NewAddCall(u, path, next)
    /\ UNCHANGED store

\* Mutant: every level links the node the caller attaches.
LinkedAlways == call.child

\* The node that a level of add_child() links: "n" at the last level, above it a
\* new EMPTY node "h".
Linked == IF Len(call.path) = 1 THEN call.child ELSE next

\* One level of add_child(path, n): above the last level "h" is made first, used
\* or not, and the call goes on in the child found there.
AddLevel ==
    LET at == call.at
        sel == Head(call.path)
        last == Len(call.path) = 1
        made == IF last THEN 0 ELSE 1
        n == made + LevelPadding(store[at], sel)
        node == Attached(store[at], sel, Linked, next + made)
    IN  /\ call.op = "add"
        /\ at \in live /\ Accepts(store[at], sel)
        /\ CanDraw(n)
        /\ store' = [store EXCEPT ![at] = node]
        /\ live' = live \cup next..(next + n - 1)
        /\ next' = next + n
        /\ call' = IF last THEN Idle
                   ELSE [call EXCEPT !.at = GetSingle(node, sel), !.path = Tail(@)]

\* A level that throws: the node is gone, or it cannot take the selector.
AddThrow ==
    LET at == call.at
        made == IF Len(call.path) = 1 THEN 0 ELSE 1
    IN  /\ call.op = "add"
        /\ at \notin live \/ ~Accepts(store[at], Head(call.path))
        /\ CanDraw(made)
        /\ store' = IF at \in live
                    THEN [store EXCEPT ![at] = Refused(@, Head(call.path))] ELSE store
        /\ live' = live \cup next..(next + made - 1)
        /\ next' = next + made
        /\ call' = Idle

\* insert(index, n); append(n) is an insert at shape[0].
Insert(u, index, n) ==
    LET pads == Padding(store[u], index)
    IN  /\ call = Idle /\ "insert" \in Calls
        /\ u \in live /\ store[u].type \in {"EMPTY", "LIST"}
        /\ MayAttach(u, n)
        /\ CanDraw(pads)
        /\ store' = [store EXCEPT ![u] = Inserted(@, index, n, next)]
        /\ live' = live \cup next..(next + pads - 1)
        /\ next' = next + pads
        /\ UNCHANGED call

\* set_child(path, n)
SetChild(u, path, n) ==
    /\ call = Idle /\ "set" \in Calls
    /\ u \in live /\ Exists(u, path)
    /\ MayAttach(u, n)
    /\ \E v \in live :
        /\ v = Get(u, Front(path))
        /\ ExistsSingle(store[v], Last(path))
        /\ store' = [store EXCEPT ![v] = Relinked(@, Last(path), n)]
    /\ UNCHANGED <<live, next, call>>

\* The last level of delete_child(): storage->remove() of the child, then the
\* erasure of a record and the update of shape[0].
EraseRecord(v, sel) ==
    LET addr == GetSingle(store[v], sel)
    IN  /\ ExistsSingle(store[v], sel)
        /\ \E j \in Erasable(store[v], sel) :
            store' = [store EXCEPT ![v] = Erased(@, j), ![addr] = EmptyNode]
        /\ live' = live \ {addr}

\* delete_child(path, prune) down to the last level.
DeleteChild(u, path, prune) ==
    /\ call = Idle /\ "delete" \in Calls
    /\ u \in live /\ Exists(u, path)
    /\ \E v \in live :
        /\ v = Get(u, Front(path))
        /\ EraseRecord(v, Last(path))
    /\ call' = IF prune /\ Len(path) > 1
               THEN [op |-> "prune", root |-> u, full |-> path,
                     frames |-> [i \in 1..(Len(path) - 1) |->
                        [at |-> Get(u, SubSeq(path, 1, i - 1)), sel |-> path[i],
                         child |-> Get(u, SubSeq(path, 1, i))]]]
               ELSE Idle
    /\ UNCHANGED next

\* Mutant: only the level above the deleted node is pruned.
ReturnedEarly == Idle

\* The frame is left.
Returned == IF Len(call.frames) = 1 THEN Idle ELSE [call EXCEPT !.frames = Front(@)]

\* The entries that a frame looks at are in the storage.
PruneSound(f) == f.child \in live /\ (HasChildren(store[f.child]) \/ f.at \in live)

\* A level of delete_child() to which the level below returned true: the child
\* is deleted as well when nothing is left in it.
Prune ==
    LET f == Last(call.frames)
    IN  /\ call.op = "prune"
        /\ PruneSound(f)
        /\ IF ~HasChildren(store[f.child]) /\ ExistsSingle(store[f.at], f.sel)
           THEN EraseRecord(f.at, f.sel)
           ELSE UNCHANGED <<store, live>>
        /\ call' = Returned
        /\ UNCHANGED next

\* In a shared tree the entry of the child or of the node may be gone by then.
PruneThrow ==
    /\ call.op = "prune"
    /\ ~PruneSound(Last(call.frames))
    /\ call' = Idle
    /\ UNCHANGED <<store, live, next>>

\* clean(): the entries of the children, then that of the node.
Clean(u) ==
    LET gone == Children(u) \cup {u}
    IN  /\ call = Idle /\ "clean" \in Calls
        /\ u \in live
        /\ live' = live \ gone
        /\ store' = [v \in Uuid |-> IF v \in gone THEN EmptyNode ELSE store[v]]
        /\ UNCHANGED <<next, call>>

\* operator=(const HDC&): the whole buffer, addresses of the children included.
Assign(u, v) ==
    /\ call = Idle /\ "assign" \in Calls
    /\ {u, v} \subseteq live /\ u # v
    /\ Sharing \/ ~HasChildren(store[v])
    /\ store' = [store EXCEPT ![u] = store[v]]
    /\ UNCHANGED <<live, next, call>>

\* copy(false), and copy(true) of a node without children: a new entry with the
\* same contents.
CopyBuffer(u) ==
    /\ call = Idle /\ "copy" \in Calls
    /\ u \in live
    /\ Sharing \/ ~HasChildren(store[u])
    /\ CanDraw(1)
    /\ store' = [store EXCEPT ![next] = store[u]]
    /\ live' = live \cup {next}
    /\ next' = next + 1
    /\ UNCHANGED call

\* copy(true) of a STRUCT or LIST, below which nothing is missing.
CopyTree(u) ==
    /\ call = Idle /\ "copy" \in Calls
    /\ u \in live /\ HasChildren(store[u])
    /\ Reach(u) \subseteq live
    /\ CanDraw(1)
    /\ store' = [store EXCEPT ![next] = [EmptyNode EXCEPT !.type = store[u].type]]
    /\ live' = live \cup {next}
    /\ next' = next + 1
    /\ call' = [op |-> "copy", from |-> u, to |-> next,
                todo |-> <<[src |-> u, dst |-> next]>>]

\* Mutant: the keys are taken in the order of the by_index view.
CopiedKidsMixed(kids, order, first) ==
    [i \in 1..Len(kids) |-> [key |-> kids[i].key, addr |-> first + i - 1]]

\* The records of a copy whose children have the uuids first, first+1, ...
CopiedKids(kids, order, first) ==
    [i \in 1..Len(kids) |-> [key |-> kids[order[i]].key, addr |-> first + i - 1]]

\* The children of one node are copied, in the order of the by_key view: any
\* order here.  Nobody holds the new uuids before copy() returns.
CopyChildren ==
    LET job == Head(call.todo)
        kids == store[job.src].kids
        n == Len(kids)
    IN  /\ call.op = "copy"
        /\ CanDraw(n)
        /\ \E order \in Injection(1..n, 1..n) :
            LET jobs == [i \in 1..n |-> [src |-> kids[order[i]].addr, dst |-> next + i - 1]]
            IN  /\ store' = [v \in Uuid |->
                        IF v = job.dst
                        THEN [store[v] EXCEPT !.kids = CopiedKids(kids, order, next),
                                              !.len = store[job.src].len]
                        ELSE IF v \in next..(next + n - 1)
                        THEN [EmptyNode EXCEPT
                                !.type = store[kids[order[v - next + 1]].addr].type]
                        ELSE store[v]]
                /\ call' = IF Tail(call.todo) \o jobs = <<>> THEN Idle
                           ELSE [call EXCEPT !.todo = Tail(@) \o jobs]
        /\ live' = live \cup next..(next + n - 1)
        /\ next' = next + n

Next ==
    \/ New
    \/ AddLevel
    \/ AddThrow
    \/ Prune
    \/ PruneThrow
    \/ CopyChildren
    \/ \E u \in Drawn :
        \/ SetArray(u)
        \/ SetScalar(u)
        \/ \E type \in {"STRUCT", "LIST"} : SetType(u, type)
        \/ \E path \in Paths : GetOrCreate(u, path)
        \/ \E path \in Paths, n \in Drawn : AddChild(u, path, n)
        \/ \E path \in Paths, n \in Drawn : SetChild(u, path, n)
        \/ \E index \in Slots, n \in Drawn : Insert(u, index, n)
        \/ \E path \in Paths, prune \in BOOLEAN : DeleteChild(u, path, prune)
        \/ Clean(u)
        \/ \E v \in Drawn : Assign(u, v)
        \/ CopyBuffer(u)
        \/ CopyTree(u)

Spec == Init /\ [][Next]_vars

----------------------------------------------------------------------------
(* Properties. *)

\* Every variable has its type; a uuid that has no entry in the storage has no
\* contents, and no record or call names a uuid that was never drawn.
TypeOK ==
    /\ store \in [Uuid -> Node]
    /\ next \in 1..(MaxUuid + 1)
    /\ live \subseteq Drawn
    /\ call \in {Idle} \cup AddCall \cup PruneCall \cup CopyCall
    /\ \A u \in Uuid \ live : store[u] = EmptyNode
    /\ \A u \in live : Children(u) \subseteq Drawn

\* The shape[0] of the header is the number of records of the container.  Every
\* insert() and append() takes its position from shape[0] (hdc.cpp:1094-1116,
\* 1142) and applies it to the container unchecked.
HeaderMatchesChildren ==
    \A u \in live : ~IsTerminal(store[u]) => store[u].len = Len(store[u].kids)

\* No STRUCT holds a key twice, whatever way it was made: the by_key view is
\* hashed_non_unique and would accept a second record (hdc_map.h:133-151).
StructKeysUnique ==
    \A u \in live : store[u].type = "STRUCT" =>
        \A i, j \in DOMAIN store[u].kids :
            store[u].kids[i].key = store[u].kids[j].key => i = j

\* Every record of a node names a node that is in the storage, so that a path for
\* which exists() returns true can be used (hdc.cpp:400-449).
RecordsResolve == \A u \in live : Children(u) \subseteq live

\* Each node has at most one parent and is not below itself, as long as the client
\* attaches detached nodes only: no call of the tree makes a second link.
TreeShaped ==
    /\ \A u, v \in live :
        \A i \in DOMAIN store[u].kids, j \in DOMAIN store[v].kids :
            store[u].kids[i].addr = store[v].kids[j].addr => u = v /\ i = j
    /\ \A u \in live : u \notin UNION {Reach(v) : v \in Children(u)}

\* add_child() and get_or_create(), those that throw half way too, leave every
\* path of every node leading where it led.
AddKeepsPaths ==
    [][call.op = "add" =>
        \A u \in live, p \in Paths :
            Exists(u, p) => Get(u, p)' = Get(u, p)]_vars

\* When add_child(path, n) has returned, get(path) is n, or what it was before if
\* the path existed (hdc.cpp:451-533).
AddResolves ==
    [][(/\ call.op = "add" /\ call' = Idle
        /\ call.at \in live /\ Accepts(store[call.at], Head(call.path))) =>
            Resolve(store', live', call.root, call.full) =
                IF call.was # Null THEN call.was ELSE call.child]_vars

\* delete_child() erases no record of a node that stays in the storage: what it
\* removes from the containers is what it removes from the storage.
DeleteErasesOnlyTheDeleted ==
    [][\A u \in live \cap live' :
        live' # live /\ next' = next =>
            \A i \in DOMAIN store[u].kids :
                store[u].kids[i].addr \in live' =>
                    store[u].kids[i].addr \in Children(u)']_vars

\* When delete_child(path, true) has returned, the path leads through no container
\* that is empty, and no node was pruned that was not empty (hdc.cpp:611-618).
PruneExact ==
    [][call.op = "prune" /\ PruneSound(Last(call.frames)) =>
        /\ \A v \in live \ live' : ~HasChildren(store[v])
        /\ (call' = Idle /\ call.full \in Seq(Key)) =>
            \A i \in 1..(Len(call.full) - 1) :
                LET v == Resolve(store', live', call.root, SubSeq(call.full, 1, i))
                IN  v # Null => HasChildren(store'[v])]_vars

\* When copy(true) has returned, the copy has the same paths of keys as the source,
\* leading to nodes of the same types, shares no node with it, and left it as it was.
CopyFaithful ==
    [][call.op = "copy" /\ call' = Idle =>
        \A from \in {call.from}, to \in {call.to} :
            /\ Reach(from)' \cap Reach(to)' = {}
            /\ \A v \in Reach(from) : store'[v] = store[v]
            /\ \A p \in Paths \cap Seq(Key) :
                /\ Exists(from, p)' = Exists(to, p)'
                /\ Exists(from, p)' =>
                    store'[Get(from, p)'].type = store'[Get(to, p)'].type]_vars
=============================================================================
