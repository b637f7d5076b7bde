----------------------------- MODULE HDCClients -----------------------------
(***************************************************************************)
(* Processes that work on the nodes of one storage at the same time: the   *)
(* setters and readers of the class over the MDBM and the Redis plugin     *)
(* (src/include/plugins/mdbm_plugin.hpp, redis_plugin.hpp).                *)
(*                                                                         *)
(* In mdbm get() returns a pointer into the mapped file without a lock,    *)
(* and what the caller does there comes later.  The lock is one for the    *)
(* file; the plugin takes it for a store and set_data() takes it for a     *)
(* change in place.  In redis get() brings a copy into the cache of the    *)
(* process, and set() is two commands, DEL and SET, without a lock.        *)
(*                                                                         *)
(* Nothing protects the pointers, so the clients follow a rule, MayCall.   *)
(* A process may die at any step, and a command to the server may fail.    *)
(***************************************************************************)
EXTENDS Integers

CONSTANTS
    Process,
    Node,
    Container,  \* the nodes that have children; the others hold a value
    Owner,      \* Owner[n]: the process that changes n, or Nobody if all do
    Nobody,
    NoEntry,    \* the storage has no entry of the node
    Value,      \* what set_data() and set_string() store
    First,      \* what the nodes hold at the beginning, and none is given again
    Item,       \* what is added to a container
    SizeOf,     \* SizeOf[v]: the size of a value
    MaxCalls    \* bound: calls of all processes

ASSUME NamesAssumption ==
    /\ Owner \in [Node -> Process \cup {Nobody}] /\ Nobody \notin Process
    /\ Container \subseteq Node /\ \A n \in Container : Owner[n] # Nobody
    /\ First \in Value /\ Value \cap Item = {}
ASSUME SizeAssumption == SizeOf \in [Value -> Nat] /\ MaxCalls \in Nat

VARIABLES
    mapped,     \* TRUE: mdbm, FALSE: redis
    entry,      \* entry[n]: the buffer that the storage keeps for n
    cache,      \* cache[p][n]: the copy that get() of redis made
    lock,       \* the process that has locked the file
    calls,      \* how many calls may still be made
    act,        \* act[p]: the call of p in progress
    may,        \* may[n]: what n may hold, by the calls that were made
    hurt        \* nodes that a call left, when it was cut off, as they were

vars == <<mapped, entry, cache, lock, calls, act, may, hurt>>

----------------------------------------------------------------------------
(* A buffer is a header and data, which are written and read one after the *)
(* other.  Both stand for the contents they belong to: one value, or the   *)
(* records of a container.                                                 *)

Content == (SUBSET Item) \cup {{v} : v \in Value}
Buffer == [head : Content, data : Content]

ASSUME NoEntryAssumption == NoEntry \notin Buffer

Filled(c) == [head |-> c, data |-> c]
Size(b) == SizeOf[CHOOSE v \in Value : b.head = {v}]

Present(n) == entry[n] # NoEntry

Operation == {"read", "set", "string", "add"}
Step == {"get", "lock", "whead", "wdata", "unlock", "insert", "remove", "store", "new",
         "del", "writeback", "head", "data"}
Idle == [step |-> "idle"]
Dead == [step |-> "dead"]

Busy(p) == act[p].step \notin {"idle", "dead"}
Calls(p, n, ops) == Busy(p) /\ act[p].op \in ops /\ act[p].node = n
Writers(n) == {p \in Process : Calls(p, n, {"set", "string", "add"})}
Readers(n) == {p \in Process : Calls(p, n, {"read"})}

\* What a node holds after a call, if it held one of cs before.
After(op, x, cs) == IF op = "add" THEN {c \cup {x} : c \in cs} ELSE {{x}}

\* The nodes are there, and every process has opened the storage.
Init ==
    LET first(n) == IF n \in Container THEN {} ELSE {First}
    IN  /\ mapped \in BOOLEAN
        /\ entry = [n \in Node |-> Filled(first(n))]
        /\ may = [n \in Node |-> {first(n)}]
        /\ cache = [p \in Process |-> [n \in Node |-> NoEntry]]
        /\ lock = Nobody
        /\ calls = MaxCalls
        /\ act = [p \in Process |-> Idle]
        /\ hurt = {}

----------------------------------------------------------------------------
(* Steps of a call. *)

\* Mutant: a child can be added to a node that holds data.
TakesAnyway(n) == TRUE

\* add_child_single() throws if the node holds data.
TakesChildren(n) == n \in Container

\* The rule of the clients.  Where buffers are mapped, a node of one process is left
\* alone by the others, and one of all keeps the size it has, so that pointers stay good.
MayCall(p, op, n, x) ==
    LET owned == Owner[n] = p
        common == Owner[n] = Nobody
    IN  \/ op = "read" /\ x = First /\ (mapped => owned \/ common)
        \/ op = "add" /\ TakesChildren(n) /\ owned /\ x \in Item
        \/ /\ op \in {"set", "string"} /\ n \notin Container /\ x \in Value \ {First}
           /\ owned \/ common
           /\ mapped /\ common => op = "set" /\ SizeOf[x] = SizeOf[First]

Begin(p, op, n, x) ==
    LET wider == may[n] \cup After(op, x, may[n])
        reads == op = "read"
        new == [step |-> IF op = "string" THEN "remove" ELSE "get",
                op |-> op, node |-> n, x |-> x, head |-> {},
                alone |-> Writers(n) = {},           \* no other call changes n
                may |-> may[n]]                      \* what a reader may find
    IN  /\ act[p] = Idle /\ calls > 0 /\ MayCall(p, op, n, x)
        /\ calls' = calls - 1
        /\ may' = IF reads THEN may ELSE [may EXCEPT ![n] = wider]
        /\ act' = [q \in Process |->
                    IF q = p THEN new
                    ELSE IF reads THEN act[q]
                    ELSE IF q \in Writers(n) THEN [act[q] EXCEPT !.alone = FALSE]
                    ELSE IF q \in Readers(n) THEN [act[q] EXCEPT !.may = @ \cup wider]
                    ELSE act[q]]
        /\ UNCHANGED <<mapped, entry, cache, lock, hurt>>

\* p is at a step of its call, on node n.
At(p, step, n) == act[p].step = step /\ act[p].node = n

Goto(p, step) == act' = [act EXCEPT ![p].step = step] /\ UNCHANGED <<may, hurt>>

Throw(p) == act' = [act EXCEPT ![p] = Idle] /\ UNCHANGED <<may, hurt>>

\* A call that changes n is done.  If no other was under way, n holds what this one stored.
Return(p, n) ==
    LET c == act[p]
    IN  /\ act' = [act EXCEPT ![p] = Idle]
        /\ may' = IF c.alone THEN [may EXCEPT ![n] = After(c.op, c.x, c.may)] ELSE may
        /\ hurt' = hurt \ {n}

\* Mutant: a copy that is in the cache will do.
CachedOnce(p, n) == IF cache[p][n] # NoEntry THEN cache[p][n] ELSE entry[n]

\* GET brings the whole entry.
Cached(p, n) == entry[n]

\* The step that follows get(), when the node holds b: a setter changes a buffer of the
\* right size in place, and makes another one otherwise.
AfterGet(p, b, read, add, set) ==
    CASE act[p].op = "read" -> read
      [] act[p].op = "add" -> add
      [] OTHER -> IF Size(b) = SizeOf[act[p].x] THEN set ELSE "store"

\* get() of mdbm.
GetPointer(p, n) ==
    /\ At(p, "get", n) /\ mapped
    /\ IF Present(n) THEN Goto(p, AfterGet(p, entry[n], "head", "insert", "lock")) ELSE Throw(p)
    /\ UNCHANGED <<mapped, entry, cache, lock, calls>>

\* get() of redis, with the change of the copy, which is seen by nobody.
GetCopy(p, n) ==
    LET b == Cached(p, n)
        next == AfterGet(p, b, "data", "del", "del")
        changed == IF next # "del" THEN b
                   ELSE Filled(IF act[p].op = "add" THEN b.data \cup {act[p].x}
                               ELSE {act[p].x})
    IN  /\ At(p, "get", n) /\ ~mapped
        /\ IF Present(n)
           THEN Goto(p, next) /\ cache' = [cache EXCEPT ![p][n] = changed]
           ELSE Throw(p) /\ UNCHANGED cache
        /\ UNCHANGED <<mapped, entry, lock, calls>>

\* Mutant: nobody is waited for.
MayLockAlways == TRUE

\* mdbm_lock_smart() waits for the lock.
MayLock == lock = Nobody

\* storage->lock()
Lock(p, n) ==
    /\ At(p, "lock", n) /\ MayLock
    /\ lock' = p
    /\ Goto(p, "whead")
    /\ UNCHANGED <<mapped, entry, cache, calls>>

WriteHead(p, n) ==
    /\ At(p, "whead", n)
    /\ entry' = [entry EXCEPT ![n].head = {act[p].x}]
    /\ Goto(p, "wdata")
    /\ UNCHANGED <<mapped, cache, lock, calls>>

WriteData(p, n) ==
    /\ At(p, "wdata", n)
    /\ entry' = [entry EXCEPT ![n].data = {act[p].x}]
    /\ Goto(p, "unlock")
    /\ UNCHANGED <<mapped, cache, lock, calls>>

\* Mutant: the lock is kept.
UnlockedNever == lock

Unlocked == Nobody

\* storage->unlock()
Unlock(p, n) ==
    /\ At(p, "unlock", n)
    /\ lock' = Unlocked
    /\ Return(p, n)
    /\ UNCHANGED <<mapped, entry, cache, calls>>

\* add_child_single() when the buffer has room; it takes no lock.
Insert(p, n) ==
    /\ At(p, "insert", n)
    /\ entry' = [entry EXCEPT ![n] = Filled(@.data \cup {act[p].x})]
    /\ Return(p, n)
    /\ UNCHANGED <<mapped, cache, lock, calls>>

\* set_string() removes the entry; mdbm_delete() waits for the lock.
Remove(p, n) ==
    /\ At(p, "remove", n)
    /\ mapped => MayLock
    /\ entry' = [entry EXCEPT ![n] = NoEntry]
    /\ Goto(p, "store")
    /\ UNCHANGED <<mapped, cache, lock, calls>>

\* Mutant: the buffer that get() returned is stored instead of the new one.
GivenOld(p, n) == IF cache[p][n] # NoEntry THEN cache[p][n] ELSE Filled({act[p].x})

\* The buffer that set() is given.
Given(p, n) ==
    IF act[p].step = "writeback" THEN cache[p][n] ELSE Filled({act[p].x})

\* Mutant: only an entry that is there is stored (MDBM_MODIFY).
StoredThere(p, n) == IF Present(n) THEN Given(p, n) ELSE NoEntry

\* MDBM_REPLACE, and SET.
Stored(p, n) == Given(p, n)

\* set() of mdbm.
Store(p, n) ==
    /\ At(p, "store", n)
    /\ mapped /\ MayLock
    /\ entry' = [entry EXCEPT ![n] = Stored(p, n)]
    /\ Return(p, n)
    /\ UNCHANGED <<mapped, cache, lock, calls>>

\* set() of redis: DEL, and then SET.
Del(p, n) ==
    /\ At(p, "store", n) \/ At(p, "del", n)
    /\ ~mapped
    /\ entry' = [entry EXCEPT ![n] = NoEntry]
    /\ Goto(p, IF act[p].step = "del" THEN "writeback" ELSE "new")
    /\ UNCHANGED <<mapped, cache, lock, calls>>

Set(p, n) ==
    /\ At(p, "new", n) \/ At(p, "writeback", n)
    /\ entry' = [entry EXCEPT ![n] = Stored(p, n)]
    /\ Return(p, n)
    /\ UNCHANGED <<mapped, cache, lock, calls>>

InHand(p, n) == IF mapped THEN entry[n] ELSE cache[p][n]

\* as(): the header is read through the pointer, and then the data.
ReadHead(p, n) ==
    /\ At(p, "head", n)
    /\ act' = [act EXCEPT ![p].head = entry[n].head, ![p].step = "data"]
    /\ UNCHANGED <<mapped, entry, cache, lock, calls, may, hurt>>

ReadData(p, n) ==
    /\ At(p, "data", n)
    /\ act' = [act EXCEPT ![p] = Idle]
    /\ UNCHANGED <<mapped, entry, cache, lock, calls, may, hurt>>

\* The steps in which the entry of the node is not what the call will leave.
Half == {"whead", "wdata", "unlock", "insert", "remove", "store", "del", "new", "writeback"}

\* A command to the server has no reply, whether or not it was carried out: the call throws.
Fail(p, n) ==
    /\ ~mapped
    /\ \E step \in {"get", "remove", "store", "del", "new", "writeback"} : At(p, step, n)
    /\ entry' \in {entry} \cup
        CASE act[p].step \in {"remove", "store", "del"} -> {[entry EXCEPT ![n] = NoEntry]}
          [] act[p].step \in {"new", "writeback"} -> {[entry EXCEPT ![n] = Stored(p, n)]}
          [] OTHER -> {}
    /\ act' = [act EXCEPT ![p] = Idle]
    /\ hurt' = IF act[p].step \in Half THEN hurt \cup {n} ELSE hurt
    /\ UNCHANGED <<mapped, cache, lock, calls, may>>

\* A process dies in a call.  The lock of a process that died can be taken by others.
Die(p) ==
    /\ Busy(p)
    /\ act' = [act EXCEPT ![p] = Dead]
    /\ lock' = IF lock = p THEN Nobody ELSE lock
    /\ hurt' = IF act[p].step \in Half THEN hurt \cup {act[p].node} ELSE hurt
    /\ UNCHANGED <<mapped, entry, cache, calls, may>>

Proceed(p) ==
    \E n \in Node :
        \/ GetPointer(p, n)
        \/ GetCopy(p, n)
        \/ Lock(p, n)
        \/ WriteHead(p, n)
        \/ WriteData(p, n)
        \/ Unlock(p, n)
        \/ Insert(p, n)
        \/ Remove(p, n)
        \/ Store(p, n)
        \/ Del(p, n)
        \/ Set(p, n)
        \/ ReadHead(p, n)
        \/ ReadData(p, n)

Next ==
    \E p \in Process :
        \/ \E op \in Operation, n \in Node, x \in Value \cup Item : Begin(p, op, n, x)
        \/ Proceed(p)
        \/ \E n \in Node : Fail(p, n)
        \/ Die(p)

\* A process that is in a call goes on with it.
Spec == Init /\ [][Next]_vars /\ \A p \in Process : WF_vars(Proceed(p))

----------------------------------------------------------------------------
(* Properties. *)

\* Entries are whole buffers, a copy has been made of one, and calls are at their steps.
TypeOK ==
    /\ mapped \in BOOLEAN
    /\ entry \in [Node -> Buffer \cup {NoEntry}]
    /\ cache \in [Process -> [Node -> Buffer \cup {NoEntry}]]
    /\ lock \in Process \cup {Nobody}
    /\ calls \in 0 .. MaxCalls
    /\ act \in [Process -> {Idle, Dead} \cup
                [step : Step, op : Operation, node : Node, x : Value \cup Item,
                 head : Content, alone : BOOLEAN, may : SUBSET Content]]
    /\ may \in [Node -> SUBSET Content]
    /\ hurt \subseteq Node

\* The header and the data of an entry belong together, unless the process that holds the
\* lock is writing them or one was cut off while it did.
EntriesWhole ==
    \A n \in Node :
        Present(n) /\ entry[n].head # entry[n].data =>
            n \in hurt \/ (lock # Nobody /\ lock \in Writers(n))

\* While no call changes a node, it holds what the last call stored, with everything that
\* was added before.  Calls on other nodes, and calls that fail, do not change it.
HoldsLastStored ==
    \A n \in Node : Present(n) /\ Writers(n) = {} => entry[n].data \in may[n]

\* The entry of a node is missing while a call replaces it, or after one was cut off.
MissingOnlyInRewrite ==
    \A n \in Node :
        ~Present(n) =>
            \/ n \in hurt
            \/ \E p \in Writers(n) : act[p].step \in {"store", "new", "writeback"}

\* A reader finds what the node held when the call began or what was stored since, and
\* from redis a header that belongs to the data.
ReadsRecent ==
    [][\A p \in Process, n \in Node :
        LET b == InHand(p, n)
        IN  ReadData(p, n) =>
                /\ b.data \in act[p].may
                /\ IF mapped THEN act[p].head \in act[p].may ELSE b.head = b.data]_vars

\* Every call comes to an end: the lock is given back, whatever others do or die of.
CallsEnd == \A p \in Process : Busy(p) ~> ~Busy(p)
=============================================================================
