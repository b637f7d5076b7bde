--------------------------- MODULE HDCNodeBuffer ---------------------------
(***************************************************************************)
(* The container of one node in a buffer of limited size, and the calls    *)
(* that change it (add_child_single(), insert(), delete_child() and        *)
(* set_child_single() in src/src/hdc.cpp), step by step as the storage     *)
(* sees them.                                                              *)
(*                                                                         *)
(* Header and container are one buffer.  A memory mapped storage (umap,    *)
(* mdbm) hands out the address of the buffer, so that the changes are in   *)
(* the storage as they are made; redis hands out a copy, which is written  *)
(* back as a whole by DEL and SET.  When the container runs out of memory  *)
(* the entry is removed from the storage, and the call goes on in a larger *)
(* buffer of its own that it has to store at the end.  That buffer is      *)
(* freed before the call is through, as is a copy of redis that the call   *)
(* has read the node again after: what the call finds there, and stores,   *)
(* may be anything.  The process may die at any of these steps, and a      *)
(* persistent storage is then what it was.                                 *)
(***************************************************************************)
EXTENDS Integers, SequencesExt

CONSTANTS
    Key,        \* keys of children
    Length,     \* Length[k]: the number of characters of a key
    Address,    \* uuids of children
    Gone,       \* no node
    HeaderSize, \* sizeof(hdc_header_t)
    NodeSize,   \* HDC_NODE_SIZE_DEFAULT
    Overhead,   \* what an empty container takes of its heap
    RecordSize, \* what a record takes
    Local,      \* the longest key that a record keeps in itself
    Enough,     \* free memory with which no allocation fails
    Attempts,   \* HDC_MAX_RESIZE_ATTEMPTS
    MaxLen,     \* bound: records in a container
    MaxSize,    \* bound: no call starts in a larger buffer
    Calls       \* the calls the client makes

\* A heap with little free memory may have none in one piece: an allocation may fail
\* before the memory is used up.
ASSUME SizesAssumption ==
    /\ {HeaderSize, NodeSize, Overhead, RecordSize, Local, Enough, Attempts, MaxLen,
        MaxSize} \subseteq Nat
    /\ HeaderSize + Overhead <= NodeSize
    /\ Attempts > 2
ASSUME KeysAssumption == Length \in [Key -> 0..1024] /\ Key \cap Nat = {}
\* A buffer that was doubled has room for a record.
ASSUME EnoughAssumption ==
    /\ Enough <= NodeSize
    /\ RecordSize + 1025 <= Enough

VARIABLES
    mapped,     \* storage->memory_mapped()
    has,        \* does the storage have an entry for the node?
    entry,      \* the buffer in the entry; the last one when there is none
    spoiled,    \* is the entry, if it is there, what somebody left in freed memory?
    live,       \* the children that have an entry of their own
    call,       \* the call in progress
    crashed     \* has a call on this node died?

vars == <<mapped, has, entry, spoiled, live, call, crashed>>

----------------------------------------------------------------------------
(* Buffers. *)

Selector == Key \cup 0..MaxLen
Record == [key : Selector, addr : Address]

ASSUME GoneAssumption == Gone \notin Seq(Record)

\* "len" is header->shape[0], "size" header->buffer_size and "free" what
\* get_free_memory() of the segment returns.
Buffer == [type : {"EMPTY", "STRUCT", "LIST"}, len : Nat, kids : Seq(Record),
           size : Nat, free : Nat]

\* HDC()
EmptyNode ==
    [type |-> "EMPTY", len |-> 0, kids |-> <<>>, size |-> HeaderSize, free |-> 0]

\* set_type() of an EMPTY node.
Typed(type) ==
    [type |-> type, len |-> 0, kids |-> <<>>, size |-> NodeSize,
     free |-> NodeSize - HeaderSize - Overhead]

LengthOf(key) == IF key \in Nat THEN 0 ELSE Length[key]
CostOf(key) == RecordSize + (IF LengthOf(key) > Local THEN LengthOf(key) + 1 ELSE 0)

\* Mutant: nothing is looked at.
FitsAny(b, key) == TRUE

Fits(b, key) == CostOf(key) <= b.free

Placed(b, i, r) ==
    [b EXCEPT !.kids = InsertAt(@, i, r), !.free = @ - CostOf(r.key)]

\* Mutant: the record at the front.
ErasedFirst(b, i) ==
    [b EXCEPT !.kids = Tail(@), !.free = @ + CostOf(b.kids[1].key)]

Erased(b, i) ==
    [b EXCEPT !.kids = RemoveAt(@, i), !.free = @ + CostOf(b.kids[i].key)]

Relinked(b, i, a) == [b EXCEPT !.kids[i].addr = a]

\* Mutant: shape[0] is counted up.
CountedUp(b) == [b EXCEPT !.len = @ + 1]

\* header->shape[0] = children->size()
Counted(b) == [b EXCEPT !.len = Len(b.kids)]

\* Mutant: the records are taken in the order of the by_key view.
GrownByKey(b, extra) ==
    [b EXCEPT !.size = @ + extra, !.free = @ + extra, !.kids = Reverse(@)]

\* buffer_grow(): the records one by one into a container with more memory.
Grown(b, extra) == [b EXCEPT !.size = @ + extra, !.free = @ + extra]

----------------------------------------------------------------------------
(* The call in progress: "buffer" is what set() will store, "target" the   *)
(* buffer with the container that is worked on.  On a mapped storage the   *)
(* target is the entry until the buffer grows.  "freed" says that one of   *)
(* them is in memory that the call has given back.                         *)

Ended(how) == [step |-> "idle", how |-> how]
Idle == call.step = "idle"

CallRecord ==
    [step : {"typed", "try", "erase", "write", "set"},
     op : {"add", "insert", "delete", "link"},
     at : Nat, rec : Record, buffer : Buffer, target : Buffer, tries : Nat,
     freed : BOOLEAN]

NewCall(step, op, at, rec, b, freed) ==
    [step |-> step, op |-> op, at |-> at, rec |-> rec, buffer |-> b, target |-> b,
     tries |-> 0, freed |-> freed]

InEntry == mapped /\ call.tries = 0

\* The target becomes b, and the entry with it if it is the entry.
Change(b, step) ==
    /\ call' = [call EXCEPT !.target = b, !.step = step]
    /\ entry' = IF InEntry THEN b ELSE entry

Init ==
    /\ mapped \in BOOLEAN
    /\ has = TRUE /\ entry = EmptyNode /\ spoiled = FALSE
    /\ live = {}
    /\ call = Ended("returned")
    /\ crashed = FALSE

\* No call begins on a spoiled entry: what it would do there is not modelled.
Begin(op) ==
    /\ Idle /\ op \in Calls
    /\ has /\ ~spoiled /\ entry.size <= MaxSize

\* get() of redis frees the copy that it handed out before.  A call that keeps the
\* address of the first copy and looks at the node once more is in freed memory:
\* delete_child() by exists(), insert() by get_type(), set_child_single() by
\* get_children_ptr().
CopyFreed == ~mapped

\* add_child_single() and insert() on an EMPTY node begin with set_type(), which ends
\* in set(), and read the node after it; add_child_single() does in any case.
BeginIn(type, op, at, rec) ==
    /\ Begin(op)
    /\ entry.type \in {"EMPTY", type}
    /\ Len(entry.kids) < MaxLen
    /\ rec.addr \notin {entry.kids[i].addr : i \in DOMAIN entry.kids}
    /\ live' = live \cup {rec.addr}
    /\ IF entry.type = type
       THEN /\ call' = NewCall("try", op, at, rec, entry, op = "insert" /\ CopyFreed)
            /\ UNCHANGED <<has, entry>>
       ELSE IF mapped
       THEN /\ call' = NewCall("try", op, at, rec, Typed(type), FALSE)
            /\ entry' = Typed(type)
            /\ UNCHANGED has
       ELSE /\ call' = NewCall("typed", op, at, rec, Typed(type), FALSE)
            /\ has' = FALSE
            /\ UNCHANGED entry
    /\ UNCHANGED <<mapped, spoiled, crashed>>

\* add_child_single(key, n) with a node made for it; a key that is there already
\* changes nothing.
BeginAdd(key, a) ==
    /\ key \notin {entry.kids[i].key : i \in DOMAIN entry.kids}
    /\ BeginIn("STRUCT", "add", Len(entry.kids) + 1, [key |-> key, addr |-> a])

\* insert(index, n): what is missing up to the index is put there by append() first,
\* a call of its own.  Nothing checks that the container has shape[0] records.
BeginInsert(index, a) ==
    /\ index <= entry.len /\ index <= Len(entry.kids)
    /\ BeginIn("LIST", "insert", index + 1, [key |-> index, addr |-> a])

\* The second half of the set() in set_type().
SetTyped ==
    /\ call.step = "typed"
    /\ has' = TRUE
    /\ entry' = call.buffer
    /\ call' = [call EXCEPT !.step = "try"]
    /\ UNCHANGED <<mapped, spoiled, live, crashed>>

\* add_child_single() looks at the free memory before it makes a record.
Tight == call.op = "add" /\ call.target.free < 4 * LengthOf(call.rec.key)

\* The loop has Attempts - 1 turns.  That they are never used up is GrowsOnce.
TurnsLeft == call.tries < Attempts - 1

\* The record goes in.
Place ==
    /\ call.step = "try" /\ ~Tight /\ TurnsLeft
    /\ Fits(call.target, call.rec.key)
    /\ Change(Placed(call.target, call.at, call.rec), "write")
    /\ UNCHANGED <<mapped, has, spoiled, live, crashed>>

\* Mutant: a buffer grows by what the key takes.
ExtraForKey == 4 * LengthOf(call.rec.key)

\* How much add_child_single() and insert() add to the buffer.
Extra ==
    LET size == call.target.size
        room == 4 * LengthOf(call.rec.key)
    IN  IF call.op = "add" /\ room > size THEN room ELSE size

\* Mutant: add_child_single() stores the buffer that it had, as insert() does.
WrittenOld == call.buffer

\* What set() stores: add_child_single() goes over to the new buffer, insert() keeps
\* the old one.  set_child_single() leaves shape[0] alone.
Written ==
    IF call.op = "insert" /\ call.tries > 0 THEN call.buffer
    ELSE IF call.op = "link" THEN call.target
    ELSE Counted(call.target)

\* Mutant: only storages that are not mapped are written.
StoredUnmapped == FALSE

\* header->buffer_size != old_size: a mapped storage is written if the buffer grew.
Stored == call.tries > 0

\* The record does not fit: the entry is removed, and the call goes on in a larger
\* buffer, which is freed at the end of the handler that has made it.
Grow ==
    /\ call.step = "try"
    /\ Tight \/ call.target.free < Enough
    /\ TurnsLeft
    /\ has' = FALSE
    /\ call' = [call EXCEPT !.target = Grown(@, Extra), !.tries = @ + 1, !.freed = TRUE]
    /\ UNCHANGED <<mapped, entry, spoiled, live, crashed>>

\* The key of the record is allocated outside of the try block: the exception leaves
\* add_child_single().  So does that of the string in set_child_single().
Escape ==
    /\ \/ call.step = "try" /\ call.op = "add" /\ LengthOf(call.rec.key) > Local /\ ~Tight
       \/ call.step = "erase" /\ call.op = "link"
    /\ call.target.free < Enough
    /\ call' = Ended("threw")
    /\ UNCHANGED <<mapped, has, entry, spoiled, live, crashed>>

\* delete_child(): the entry of the child is removed first.  Of several slices with
\* one key find() may return any.
BeginDelete(i, j) ==
    /\ Begin("delete")
    /\ {i, j} \subseteq DOMAIN entry.kids /\ entry.kids[i].key = entry.kids[j].key
    /\ live' = live \ {entry.kids[i].addr}
    /\ call' = NewCall("erase", "delete", j, entry.kids[j], entry, CopyFreed)
    /\ UNCHANGED <<mapped, has, entry, spoiled, crashed>>

\* children->erase(it)
Erase ==
    /\ call.step = "erase" /\ call.op = "delete"
    /\ Change(Erased(call.target, call.at), "write")
    /\ UNCHANGED <<mapped, has, spoiled, live, crashed>>

\* set_child_single() of a record that is there.
BeginLink(i, a) ==
    /\ Begin("link")
    /\ i \in DOMAIN entry.kids
    /\ a \notin {entry.kids[j].addr : j \in DOMAIN entry.kids}
    /\ live' = live \cup {a}
    /\ call' = NewCall("erase", "link", i, [entry.kids[i] EXCEPT !.addr = a], entry,
                       CopyFreed)
    /\ UNCHANGED <<mapped, has, entry, spoiled, crashed>>

\* children->modify(), in a copy that redis may have made after the one that is
\* written back: "buffer" is read before get_children_ptr() and get_segment() read
\* the node again.
Link ==
    /\ call.step = "erase" /\ call.op = "link"
    /\ \/ Change(Relinked(call.target, call.at, call.rec.addr), "write")
       \/ ~mapped /\ Change(call.target, "write")
    /\ UNCHANGED <<mapped, has, spoiled, live, crashed>>

\* The end of a call: shape[0] is set, and the buffer stored unless the entry is it.
Write ==
    /\ call.step = "write"
    /\ IF mapped
       THEN /\ entry' = Written /\ has' = (has \/ Stored)
            /\ call' = Ended("returned")
       ELSE /\ has' = FALSE
            /\ call' = [call EXCEPT !.buffer = Written, !.step = "set"]
            /\ UNCHANGED entry
    /\ UNCHANGED <<mapped, spoiled, live, crashed>>

\* The second half of set() in redis: SET after DEL.
Set ==
    /\ call.step = "set"
    /\ entry' = call.buffer /\ has' = TRUE
    /\ call' = Ended("returned")
    /\ UNCHANGED <<mapped, spoiled, live, crashed>>

\* The memory that a call has given back turns out to be overwritten.  The call does
\* not see that: it reads a container, a size and a number of records from there,
\* stores what it gets, or throws.  Nobody else looks at the node before it ends.
UseFreed ==
    /\ ~Idle /\ call.freed
    /\ \E how \in {"returned", "threw"} : call' = Ended(how)
    /\ has' \in BOOLEAN
    /\ spoiled' = TRUE
    /\ UNCHANGED <<mapped, entry, live, crashed>>

\* The process dies.
Crash ==
    /\ ~Idle
    /\ call' = Ended("crashed")
    /\ crashed' = TRUE
    /\ UNCHANGED <<mapped, has, entry, spoiled, live>>

\* The node is gone, and the client makes another one.
NewNode ==
    /\ Idle /\ (~has \/ spoiled)
    /\ has' = TRUE /\ entry' = EmptyNode /\ spoiled' = FALSE
    /\ live' = {} /\ crashed' = FALSE
    /\ UNCHANGED <<mapped, call>>

Next ==
    \/ \E a \in Address :
        \/ \E key \in Key : BeginAdd(key, a)
        \/ \E index \in 0..MaxLen : BeginInsert(index, a)
        \/ \E i \in 1..MaxLen : BeginLink(i, a)
    \/ \E i, j \in 1..MaxLen : BeginDelete(i, j)
    \/ SetTyped
    \/ Place
    \/ Grow
    \/ Escape
    \/ Erase
    \/ Link
    \/ Write
    \/ Set
    \/ UseFreed
    \/ Crash
    \/ NewNode

Spec == Init /\ [][Next]_vars

----------------------------------------------------------------------------
(* Properties. *)

\* The types of the variables.
TypeOK ==
    /\ mapped \in BOOLEAN /\ has \in BOOLEAN /\ crashed \in BOOLEAN /\ spoiled \in BOOLEAN
    /\ entry \in Buffer
    /\ live \subseteq Address
    /\ call \in CallRecord \cup {Ended(how) : how \in {"returned", "threw", "crashed"}}

\* One growth is enough for any key: the turns of the loop, whose test for the last
\* one can not be reached (hdc.cpp:526), are never used up.
GrowsOnce == ~Idle => call.tries <= 1

\* The node is missing from the storage only while a call rewrites it: no call that
\* has returned or thrown leaves it missing (hdc.cpp:518, 1123), unless what it had
\* freed was overwritten.
MissingOnlyInRewrite ==
    ~has => \/ crashed \/ spoiled
            \/ ~Idle /\ (call.tries > 0 \/ call.step \in {"typed", "set"})

\* What is in a storage that is not mapped is consistent at every step and after every
\* crash; in a mapped one shape[0] is behind only while a call is at work, or after a
\* crash.  An entry that comes from overwritten memory is not spoken of.
HeaderFollowsContainer ==
    ~spoiled => entry.len = Len(entry.kids) \/ (mapped /\ (call.step = "write" \/ crashed))

\* The records of a STRUCT name children that are there, but for the one that is
\* being deleted, whose entry goes first (hdc.cpp:598).
RecordsName ==
    entry.type = "STRUCT" /\ ~crashed /\ ~spoiled =>
        \A i \in DOMAIN entry.kids :
            \/ entry.kids[i].addr \in live
            \/ ~Idle /\ call.op = "delete" /\ call.rec = entry.kids[i]

\* The call in progress returns without an exception.
Returns == ~Idle /\ call' = Ended("returned")

\* The record of the call is in the storage.
RecordStored ==
    /\ has' /\ ~spoiled'
    /\ \E i \in DOMAIN entry'.kids : entry'.kids[i] = call.rec

\* When add_child_single() returns, the record is in the storage; only a call that had
\* to grow the buffer may have stored something else, what was left in freed memory.
AddStored ==
    [][Returns /\ call.op = "add" => RecordStored \/ (call.tries > 0 /\ spoiled')]_vars

\* "Inserts node to i-th slice of current node" (hdc.hpp:1030), freed memory apart.
InsertStored ==
    [][Returns /\ call.op = "insert" => RecordStored \/ spoiled']_vars

\* Seen from the storage each call puts in, takes out or relinks one record and
\* leaves the others as they are, in their order, and a growth changes none of them.
\* A crash leaves the container as it was before or after the call, or takes the node,
\* and so does a call whose freed memory is overwritten: its node is given up.
Container == INSTANCE NodeContainer WITH
    Rec <- Record,
    list <- IF (has \/ ~Idle) /\ ~spoiled THEN entry.kids ELSE Gone
ImplementsContainer == Container!Spec
=============================================================================
