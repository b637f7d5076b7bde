--------------------------- MODULE HDCClients_proofs ---------------------------
(***************************************************************************)
(* What holds of HDCClients for any number of processes, nodes and calls.  *)
(*                                                                         *)
(* The invariant follows a call from its beginning to its end.  StaticInv  *)
(* is about what the clients may do: each call keeps to the rule, and what *)
(* it may leave is among what its node may hold.  StepSound, PointerSound, *)
(* CopySound and FoundSound are about what the call has in hand, NodeSound *)
(* about the entries, LockSound about the file.                            *)
(*                                                                         *)
(* Two calls meet in mapped storage only on a node that all change: there  *)
(* they write in place, under the lock, and CommonSound keeps the size.    *)
(***************************************************************************)
EXTENDS HDCClients, TLAPS

\* The calls in progress.
Call ==
    [step : Step, op : Operation, node : Node, x : Value \cup Item, head : Content,
     alone : BOOLEAN, may : SUBSET Content]

Writes == {"set", "string", "add"}

\* A call keeps to the rule of the clients.  What a setter may leave is among what the
\* node may hold, and what the node may hold is among what a reader may find.
CallerSound(p) ==
    Busy(p) =>
        LET c == act[p]
        IN  /\ MayCall(p, c.op, c.node, c.x)
            /\ c.op \in Writes => c.may \cup After(c.op, c.x, c.may) \subseteq may[c.node]
            /\ c.op = "read" => may[c.node] \subseteq c.may
            /\ c.op = "add" => c.may \subseteq SUBSET Item
            /\ c.op \in Writes /\ c.alone =>
                \A q \in Process : Calls(q, c.node, Writes) => q = p

\* A container holds items.
KindSound == \A n \in Container : may[n] \subseteq SUBSET Item

\* The steps of each call on each kind of storage.
StepSound(p) ==
    Busy(p) =>
        LET c == act[p]
        IN  /\ c.op = "read" => c.step \in {"get", "head", "data"}
            /\ c.op = "set" => c.step \in {"get", "lock", "whead", "wdata", "unlock",
                                           "store", "new", "del", "writeback"}
            /\ c.op = "string" => c.step \in {"remove", "store", "new"}
            /\ c.op = "add" => c.step \in {"get", "insert", "del", "writeback"}
            /\ c.step \in {"lock", "whead", "wdata", "unlock", "insert", "head"} => mapped
            /\ c.step \in {"new", "del", "writeback"} => ~mapped
            /\ mapped /\ Owner[c.node] = Nobody => c.step # "store"

\* The lock is held by the one that writes in place.
LockSound ==
    \A p \in Process : lock = p <=> act[p].step \in {"whead", "wdata", "unlock"}

\* What a pointer into the file leads to.
PointerSound(p) ==
    Busy(p) =>
        LET c == act[p]
        IN  /\ \/ c.step \in {"lock", "whead", "wdata", "unlock", "insert", "head"}
               \/ mapped /\ c.step = "data"
               => Present(c.node)
            /\ c.step \in {"wdata", "unlock"} => entry[c.node].head = {c.x}
            /\ c.step = "unlock" => entry[c.node].data = {c.x}

\* What is in the copy that a call to redis works on.
CopySound(p) ==
    Busy(p) =>
        LET c == act[p]
            b == cache[p][c.node]
        IN  /\ c.step \in {"del", "writeback"} =>
                b # NoEntry /\ b.head = b.data /\ b.data \in After(c.op, c.x, c.may)
            /\ ~mapped /\ c.step = "data" =>
                b # NoEntry /\ b.head = b.data /\ b.data \in c.may

\* What a call has read, or will read, is what it may find.
FoundSound(p) ==
    Busy(p) =>
        LET c == act[p]
        IN  /\ mapped /\ c.step = "data" => c.head \in c.may
            /\ c.op = "add" /\ c.step \in {"get", "insert"} /\ Present(c.node) =>
                entry[c.node].data \in c.may

\* An entry is what its node may hold, in two halves only where there are pointers.
EntrySound(n) ==
    Present(n) =>
        /\ entry[n].head \in may[n] /\ entry[n].data \in may[n]
        /\ ~mapped => entry[n].head = entry[n].data

\* A node of all is there, in its size, if the storage is mapped.
CommonSound(n) ==
    mapped /\ Owner[n] = Nobody =>
        /\ Present(n)
        /\ \E v \in Value : entry[n].head = {v} /\ SizeOf[v] = SizeOf[First]

\* The two halves of an entry, and the gap, for one node.
WholeAt(n) ==
    Present(n) /\ entry[n].head # entry[n].data =>
        n \in hurt \/ (lock # Nobody /\ lock \in Writers(n))
MissingAt(n) ==
    ~Present(n) =>
        \/ n \in hurt
        \/ \E p \in Writers(n) : act[p].step \in {"store", "new", "writeback"}

\* The inductive invariant.
StaticInv == TypeOK /\ KindSound /\ \A p \in Process : CallerSound(p)
CallSound(p) == StepSound(p) /\ PointerSound(p) /\ CopySound(p) /\ FoundSound(p)
NodeSound(n) == EntrySound(n) /\ CommonSound(n) /\ WholeAt(n) /\ MissingAt(n)
ClientInv ==
    /\ StaticInv
    /\ LockSound
    /\ \A p \in Process : CallSound(p)
    /\ \A n \in Node : NodeSound(n)

----------------------------------------------------------------------------
(* Calls that move on and calls that end.                                  *)

\* p goes on with its call, at another step.
Moved(p, s) ==
    /\ \A q \in Process : q # p => act'[q] = act[q]
    /\ act'[p] \in Call /\ act'[p].step = s
    /\ act'[p].op = act[p].op /\ act'[p].node = act[p].node /\ act'[p].x = act[p].x
    /\ act'[p].alone = act[p].alone /\ act'[p].may = act[p].may

\* The call of p is over.
Over(p) ==
    /\ \A q \in Process : q # p => act'[q] = act[q]
    /\ act'[p] \in {Idle, Dead}

Acts == [Process -> {Idle, Dead} \cup Call]

\* A process is in a call or is not.
LEMMA BusyTyped ==
    ASSUME TypeOK, NEW p \in Process
    PROVE  /\ Busy(p) <=> act[p] \in Call
           /\ Busy(p) \/ act[p] \in {Idle, Dead}
           /\ act \in Acts
BY DEF TypeOK, Busy, Call, Acts, Idle, Dead, Step

\* A process at a step is in a call.
LEMMA AtTyped ==
    ASSUME TypeOK, NEW p \in Process, NEW s \in Step, NEW n, At(p, s, n)
    PROVE  /\ Busy(p) /\ act[p] \in Call /\ act[p].step = s /\ act[p].node = n
           /\ act[p].op \in Operation /\ act[p].x \in Value \cup Item
           /\ act[p].may \subseteq Content /\ n \in Node
<1>1. Busy(p)
  BY DEF At, Busy, Step
<1>2. act[p] \in Call
  BY <1>1, BusyTyped
<1> QED BY <1>1, <1>2 DEF At, Call

\* A call that goes on.
LEMMA StepMoves ==
    ASSUME TypeOK, NEW p \in Process, Busy(p), NEW s \in Step,
           act' = [act EXCEPT ![p].step = s]
    PROVE  Moved(p, s) /\ act' \in Acts /\ act'[p].head = act[p].head
<1>1. act \in Acts /\ act[p] \in Call
  BY BusyTyped
<1>2. [act[p] EXCEPT !.step = s] \in Call
  BY <1>1 DEF Call
<1>3. act' = [act EXCEPT ![p] = [act[p] EXCEPT !.step = s]]
  BY <1>1 DEF Acts
<1>4. act'[p] = [act[p] EXCEPT !.step = s] /\ \A q \in Process : q # p => act'[q] = act[q]
  BY <1>1, <1>3 DEF Acts
<1>5. act' \in Acts
  BY <1>1, <1>2, <1>3 DEF Acts
<1> QED BY <1>1, <1>2, <1>4, <1>5 DEF Moved, Call

\* A reader keeps the header it has read and goes on to the data.
LEMMA HeadMoves ==
    ASSUME TypeOK, NEW p \in Process, Busy(p), NEW h \in Content,
           act' = [act EXCEPT ![p].head = h, ![p].step = "data"]
    PROVE  Moved(p, "data") /\ act' \in Acts /\ act'[p].head = h
<1>1. act \in Acts /\ act[p] \in Call
  BY BusyTyped
<1>2. [act[p] EXCEPT !.head = h, !.step = "data"] \in Call
  BY <1>1 DEF Call, Step
<1>3. act'[p] = [act[p] EXCEPT !.head = h, !.step = "data"] /\ \A q \in Process : q # p => act'[q] = act[q]
  BY <1>1 DEF Acts
<1>4. act' = [act EXCEPT ![p] = [act[p] EXCEPT !.head = h, !.step = "data"]]
  BY <1>1 DEF Acts
<1>5. act' \in Acts
  BY <1>1, <1>2, <1>4 DEF Acts
<1>6. /\ act'[p].step = "data" /\ act'[p].head = h
      /\ act'[p].op = act[p].op /\ act'[p].node = act[p].node /\ act'[p].x = act[p].x
      /\ act'[p].alone = act[p].alone /\ act'[p].may = act[p].may
  <2> DEFINE c == act[p]
             d == act'[p]
  <2>1. c \in Call /\ d = [c EXCEPT !.head = h, !.step = "data"]
    BY <1>1, <1>3
  <2> HIDE DEF c, d
  <2>2. /\ d.step = "data" /\ d.head = h /\ d.op = c.op /\ d.node = c.node /\ d.x = c.x
        /\ d.alone = c.alone /\ d.may = c.may
    BY <2>1 DEF Call
  <2> QED BY <2>2 DEF c, d
<1> QED BY <1>2, <1>3, <1>5, <1>6 DEF Moved

\* A call that ends.
LEMMA EndsOver ==
    ASSUME TypeOK, NEW p \in Process, NEW w \in {Idle, Dead},
           act' = [act EXCEPT ![p] = w]
    PROVE  Over(p) /\ act' \in Acts
<1>1. act \in Acts
  BY BusyTyped
<1> QED BY <1>1 DEF Acts, Over

\* Who writes a node after a step.
LEMMA MovedWriters ==
    ASSUME TypeOK, NEW p \in Process, Busy(p), NEW s \in Step, Moved(p, s), NEW n
    PROVE  Writers(n)' = Writers(n)
<1>1. act[p] \in Call
  BY BusyTyped
<1>2. \A q \in Process : Calls(q, n, Writes)' <=> Calls(q, n, Writes)
  <2> SUFFICES ASSUME NEW q \in Process
               PROVE  Calls(q, n, Writes)' <=> Calls(q, n, Writes)
    OBVIOUS
  <2>1. CASE q = p
    BY <1>1, <2>1 DEF Moved, Calls, Busy, Call, Step
  <2>2. CASE q # p
    BY <2>2 DEF Moved, Calls, Busy
  <2> QED BY <2>1, <2>2
<1> QED BY <1>2 DEF Writers, Writes

\* A call that is over writes no node any more.
LEMMA OverWriters ==
    ASSUME TypeOK, NEW p \in Process, Over(p), NEW n
    PROVE  Writers(n)' = Writers(n) \ {p}
<1>1. \A q \in Process : Calls(q, n, Writes)' <=> q # p /\ Calls(q, n, Writes)
  <2> SUFFICES ASSUME NEW q \in Process
               PROVE  Calls(q, n, Writes)' <=> q # p /\ Calls(q, n, Writes)
    OBVIOUS
  <2>1. CASE q = p
    BY <2>1 DEF Over, Calls, Busy, Idle, Dead
  <2>2. CASE q # p
    BY <2>2 DEF Over, Calls, Busy
  <2> QED BY <2>1, <2>2
<1> QED BY <1>1 DEF Writers, Writes

----------------------------------------------------------------------------
(* What the calls of different processes have to do with each other.       *)

\* Names, from the assumptions.
LEMMA Names ==
    /\ \A n \in Node : Owner[n] \in Process \cup {Nobody}
    /\ Nobody \notin Process
    /\ \A n \in Container : n \in Node /\ Owner[n] # Nobody
    /\ First \in Value
    /\ \A x \in Item : x \notin Value
    /\ NoEntry \notin Buffer
BY NamesAssumption, NoEntryAssumption

\* A call is of an operation on a node, and only adds to containers.
LEMMA CallerFacts ==
    ASSUME StaticInv, NEW p \in Process, Busy(p)
    PROVE  /\ act[p] \in Call /\ act[p].node \in Node
           /\ act[p].op \in {"read", "set", "string", "add"}
           /\ MayCall(p, act[p].op, act[p].node, act[p].x)
           /\ act[p].op = "add" =>
                /\ act[p].node \in Container /\ Owner[act[p].node] = p /\ act[p].x \in Item
                /\ act[p].may \subseteq SUBSET Item
           /\ act[p].op \in {"set", "string"} =>
                act[p].node \notin Container /\ act[p].x \in Value
           /\ mapped => \/ Owner[act[p].node] = p
                        \/ Owner[act[p].node] = Nobody /\ act[p].op \in {"read", "set"}
           /\ mapped /\ Owner[act[p].node] = Nobody /\ act[p].op = "set" =>
                SizeOf[act[p].x] = SizeOf[First]
<1>1. act[p] \in Call
  BY BusyTyped DEF StaticInv
<1>2. act[p].node \in Node /\ act[p].op \in Operation /\ act[p].x \in Value \cup Item
  BY <1>1 DEF Call
<1>3. CallerSound(p)
  BY DEF StaticInv
<1>4. MayCall(p, act[p].op, act[p].node, act[p].x) /\ (act[p].op = "add" => act[p].may \subseteq SUBSET Item)
  BY <1>3 DEF CallerSound
<1>5. act[p].op = "add" =>
        act[p].node \in Container /\ Owner[act[p].node] = p /\ act[p].x \in Item
  BY <1>4 DEF MayCall, TakesChildren
<1>6. act[p].op \in {"set", "string"} => act[p].node \notin Container /\ act[p].x \in Value
  BY <1>4 DEF MayCall
<1>7. mapped => \/ Owner[act[p].node] = p
                \/ Owner[act[p].node] = Nobody /\ act[p].op \in {"read", "set"}
  <2>1. CASE act[p].op = "read"
    BY <1>4, <2>1 DEF MayCall
  <2>2. CASE act[p].op = "add"
    BY <1>5, <2>2
  <2>3. CASE act[p].op \in {"set", "string"}
    BY <1>4, <2>3 DEF MayCall
  <2> QED BY <1>2, <2>1, <2>2, <2>3 DEF Operation
<1>8. mapped /\ Owner[act[p].node] = Nobody /\ act[p].op = "set" =>
        SizeOf[act[p].x] = SizeOf[First]
  BY <1>4 DEF MayCall
<1> QED
  BY <1>1, <1>2, <1>4, <1>5, <1>6, <1>7, <1>8 DEF Operation

\* Where buffers are mapped two calls meet only on a node that all may set.
LEMMA MetInFile ==
    ASSUME StaticInv, mapped, NEW p \in Process, NEW q \in Process, p # q,
           Busy(p), Busy(q), act[p].node = act[q].node
    PROVE  /\ Owner[act[p].node] = Nobody /\ act[p].node \notin Container
           /\ act[p].op \in {"read", "set"} /\ act[q].op \in {"read", "set"}
BY CallerFacts, Names

\* A container is changed by its owner.
LEMMA MetInContainer ==
    ASSUME StaticInv, NEW p \in Process, NEW q \in Process,
           Busy(p), Busy(q), act[p].node = act[q].node,
           act[p].op = "add", act[q].op \in Writes
    PROVE  p = q
BY CallerFacts DEF Writes

\* The steps of a call that changes an entry leave the other calls as sound as they were.
LEMMA OtherCalls ==
    ASSUME StaticInv, LockSound, NEW p \in Process, Busy(p), CallSound(p),
           NEW q \in Process, q # p, CallSound(q),
           act'[q] = act[q], mapped' = mapped, cache'[q] = cache[q],
           act[p].op \in Writes,
           \A m \in Node : m # act[p].node => entry'[m] = entry[m],
           mapped => act[p].step \in {"whead", "wdata", "insert", "remove", "store"},
           mapped /\ Owner[act[p].node] = Nobody => entry'[act[p].node] # NoEntry
    PROVE  CallSound(q)'
<1>1. CASE ~Busy(q)
  BY <1>1 DEF CallSound, StepSound, PointerSound, CopySound, FoundSound, Busy
<1>2. CASE Busy(q) /\ act[q].node # act[p].node
  <2>1. act[q].node \in Node
    BY <1>2, CallerFacts
  <2>2. entry'[act[q].node] = entry[act[q].node]
    BY <1>2, <2>1
  <2> QED BY <1>2, <2>2, SMTT(30)
          DEF CallSound, StepSound, PointerSound, CopySound, FoundSound, Busy, Present
<1>3. CASE Busy(q) /\ act[q].node = act[p].node
  <2>1. StepSound(q)' /\ CopySound(q)'
    BY <1>3 DEF CallSound, StepSound, CopySound, Busy
  <2>2. CASE mapped
    <3>1. Owner[act[p].node] = Nobody /\ act[p].op \in {"read", "set"} /\ act[q].op \in {"read", "set"}
      BY <1>3, <2>2, MetInFile
    <3>2. act[p].step \in {"whead", "wdata"}
      BY <2>2, <3>1 DEF CallSound, StepSound, Writes
    <3>3. act[q].step \notin {"whead", "wdata", "unlock"}
      BY <3>2 DEF LockSound
    <3>4. entry'[act[q].node] # NoEntry
      BY <1>3, <2>2, <3>1
    <3>5. PointerSound(q)'
      BY <3>3, <3>4 DEF PointerSound, Busy, Present
    <3>6. FoundSound(q)'
      BY <2>2, <1>3, <3>1 DEF CallSound, FoundSound, Busy
    <3> QED BY <2>1, <3>5, <3>6 DEF CallSound
  <2>3. CASE ~mapped
    <3>1. act[q].op # "add"
      BY <1>3, MetInContainer
    <3>2. PointerSound(q)'
      BY <2>3, <1>3 DEF CallSound, StepSound, PointerSound, Busy
    <3>3. FoundSound(q)'
      BY <2>3, <3>1 DEF FoundSound
    <3> QED BY <2>1, <3>2, <3>3 DEF CallSound
  <2> QED BY <2>2, <2>3
<1> QED BY <1>1, <1>2, <1>3

\* So do steps that change no entry.
LEMMA StillCalls ==
    ASSUME NEW q \in Process, CallSound(q),
           act'[q] = act[q], mapped' = mapped, cache'[q] = cache[q], entry' = entry
    PROVE  CallSound(q)'
BY DEF CallSound, StepSound, PointerSound, CopySound, FoundSound, Busy, Present

\* The nodes that a call does not work on stay as sound as they were.
LEMMA OtherNodes ==
    ASSUME TypeOK, NEW p \in Process, Busy(p),
           \/ \E s \in Step : Moved(p, s)
           \/ Over(p),
           NEW m \in Node, m # act[p].node, NodeSound(m),
           mapped' = mapped, entry'[m] = entry[m], may'[m] = may[m],
           m \in hurt => m \in hurt', lock' = lock \/ lock \in {p, Nobody}
    PROVE  NodeSound(m)'
<1>1. p \notin Writers(m)
  BY DEF Writers, Calls
<1>2. Writers(m)' = Writers(m)
  BY <1>1, MovedWriters, OverWriters
<1>3. \A q \in Writers(m) : act'[q] = act[q]
  BY <1>1 DEF Writers, Moved, Over
<1>4. EntrySound(m)' /\ CommonSound(m)'
  BY DEF NodeSound, EntrySound, CommonSound, Present
<1>5. WholeAt(m)'
  BY <1>1, <1>2 DEF NodeSound, WholeAt, Present
<1>6. MissingAt(m)'
  BY <1>2, <1>3 DEF NodeSound, MissingAt, Present
<1> QED BY <1>4, <1>5, <1>6 DEF NodeSound

----------------------------------------------------------------------------
(* The rule and the records of what happened.                              *)

\* Everything but the steps is kept by a call that goes on.
LEMMA MovedStatic ==
    ASSUME StaticInv, NEW p \in Process, Busy(p), NEW s \in Step, Moved(p, s),
           TypeOK', mapped' = mapped, may' = may
    PROVE  StaticInv'
<1>1. \A r \in Process :
        /\ act'[r].op = act[r].op /\ act'[r].node = act[r].node /\ act'[r].x = act[r].x
        /\ act'[r].alone = act[r].alone /\ act'[r].may = act[r].may
  BY DEF Moved
<1>2. \A r \in Process : Busy(r)' <=> Busy(r)
  BY DEF Moved, Busy, Step
<1>3. ASSUME NEW q \in Process
      PROVE  CallerSound(q)'
  <2>1. CallerSound(q)
    BY DEF StaticInv
  <2>2. \A r \in Process, n \in Node : Calls(r, n, Writes)' <=> Calls(r, n, Writes)
    BY <1>1, <1>2 DEF Calls
  <2>3. CASE Busy(q)
    <3>1. act[q].node \in Node
      BY <2>3, CallerFacts
    <3> QED
      BY <1>1, <1>2, <2>1, <2>3 DEF CallerSound, After, MayCall, TakesChildren, Calls
  <2>4. CASE ~Busy(q)
    BY <1>2, <2>4 DEF CallerSound
  <2> QED BY <2>3, <2>4
<1>4. KindSound'
  BY DEF StaticInv, KindSound
<1> QED BY <1>3, <1>4 DEF StaticInv

\* So it is by a call that ends.
LEMMA OverStatic ==
    ASSUME StaticInv, NEW p \in Process, Over(p),
           TypeOK', mapped' = mapped, may' = may
    PROVE  StaticInv'
<1>1. ~Busy(p)' /\ \A r \in Process : r # p => act'[r] = act[r]
  BY DEF Over, Busy, Idle, Dead
<1>2. ASSUME NEW q \in Process, Busy(q)'
      PROVE  CallerSound(q)'
  <2>1. q # p /\ act'[q] = act[q] /\ Busy(q) /\ CallerSound(q)
    BY <1>1, <1>2 DEF StaticInv, Busy
  <2>2. act[q].node \in Node
    BY <2>1, CallerFacts
  <2>3. \A r \in Process, n \in Node : Calls(r, n, Writes)' => Calls(r, n, Writes)
    BY <1>1 DEF Calls, Busy
  <2> QED
    BY <2>1, <2>2, <2>3 DEF CallerSound, After, MayCall, TakesChildren, Calls
<1>3. \A q \in Process : CallerSound(q)'
  BY <1>2 DEF CallerSound
<1>4. KindSound'
  BY DEF StaticInv, KindSound
<1> QED BY <1>3, <1>4 DEF StaticInv

\* What a setter leaves is among what its node may hold.
LEMMA WrittenFits ==
    ASSUME StaticInv, NEW p \in Process, Busy(p), act[p].op \in Writes
    PROVE  /\ act[p].may \subseteq may[act[p].node]
           /\ After(act[p].op, act[p].x, act[p].may) \subseteq may[act[p].node]
           /\ may[act[p].node] \subseteq Content
           /\ act[p].op # "add" =>
                {act[p].x} \in After(act[p].op, act[p].x, act[p].may)
           /\ act[p].op = "add" => \A c \in act[p].may :
                c \cup {act[p].x} \in After(act[p].op, act[p].x, act[p].may)
<1>1. act[p].node \in Node
  BY CallerFacts
<1>2. may[act[p].node] \subseteq Content
  BY <1>1 DEF StaticInv, TypeOK
<1>3. CallerSound(p)
  BY DEF StaticInv
<1>4. /\ act[p].may \subseteq may[act[p].node]
      /\ After(act[p].op, act[p].x, act[p].may) \subseteq may[act[p].node]
  BY <1>3 DEF CallerSound
<1>5. act[p].op # "add" => {act[p].x} \in After(act[p].op, act[p].x, act[p].may)
  BY DEF After
<1>6. act[p].op = "add" => \A c \in act[p].may :
        c \cup {act[p].x} \in After(act[p].op, act[p].x, act[p].may)
  BY DEF After
<1> QED BY <1>2, <1>4, <1>5, <1>6

\* After a call that nothing disturbed its node may only hold what it stored.
LEMMA ReturnStatic ==
    ASSUME StaticInv, NEW p \in Process, Busy(p), act[p].op \in Writes,
           NEW n \in Node, act[p].node = n, Return(p, n), mapped' = mapped
    PROVE  /\ Over(p) /\ act' \in Acts
           /\ may' \in [Node -> SUBSET Content]
           /\ \A m \in Node : m # n => may'[m] = may[m]
           /\ may'[n] = (IF act[p].alone THEN After(act[p].op, act[p].x, act[p].may) ELSE may[n])
           /\ hurt' = hurt \ {n}
           /\ TypeOK' => StaticInv'
<1>1. Over(p) /\ act' \in Acts
  BY EndsOver DEF Return, StaticInv
<1>2. may \in [Node -> SUBSET Content]
  BY DEF StaticInv, TypeOK
<1>3. hurt' = hurt \ {n}
  BY DEF Return
<1>4. CASE ~act[p].alone
  <2>1. may' = may
    BY <1>4 DEF Return
  <2> QED BY <1>1, <1>2, <1>3, <1>4, <2>1, OverStatic
<1>5. CASE act[p].alone
  <2> DEFINE left == After(act[p].op, act[p].x, act[p].may)
  <2>1. may' = [may EXCEPT ![n] = left]
    BY <1>5 DEF Return
  <2>2. left \subseteq may[n] /\ may[n] \subseteq Content
    BY WrittenFits
  <2> HIDE DEF left
  <2>3. /\ may' \in [Node -> SUBSET Content] /\ may'[n] = left
        /\ \A m \in Node : m # n => may'[m] = may[m]
    BY <1>2, <2>1, <2>2
  <2>4. \A m \in Node : may'[m] \subseteq may[m]
    BY <2>2, <2>3
  <2>5. ASSUME NEW q \in Process, Busy(q)'
        PROVE  CallerSound(q)'
    <3>1. ~Busy(p)' /\ \A r \in Process : r # p => act'[r] = act[r]
      BY <1>1 DEF Over, Busy, Idle, Dead
    <3>2. q # p /\ act'[q] = act[q] /\ Busy(q) /\ CallerSound(q)
      BY <2>5, <3>1 DEF StaticInv, Busy
    <3>3. act[q].node \in Node
      BY <3>2, CallerFacts
    <3>4. \A r \in Process, m \in Node : Calls(r, m, Writes)' => Calls(r, m, Writes)
      BY <3>1 DEF Calls, Busy
    <3>5. act[q].op \in Writes => act[q].node # n
      <4>1. CallerSound(p)
        BY DEF StaticInv
      <4>2. \A r \in Process : Calls(r, n, Writes) => r = p
        BY <1>5, <4>1 DEF CallerSound
      <4> QED BY <3>2, <4>2 DEF Calls
    <3>6. act[q].op \in Writes => may'[act[q].node] = may[act[q].node]
      BY <2>3, <3>3, <3>5
    <3>7. MayCall(q, act[q].op, act[q].node, act[q].x)' <=> MayCall(q, act[q].op, act[q].node, act[q].x)
      BY <3>2 DEF MayCall, TakesChildren
    <3>8. /\ act[q].op = "read" => may'[act[q].node] \subseteq act[q].may
      BY <2>4, <3>2, <3>3 DEF CallerSound
    <3>9. act[q].op \in Writes =>
            act[q].may \cup After(act[q].op, act[q].x, act[q].may) \subseteq may'[act[q].node]
      BY <3>2, <3>6 DEF CallerSound
    <3> QED
      BY <3>2, <3>3, <3>4, <3>8, <3>9 DEF CallerSound, After, MayCall, TakesChildren, Calls
  <2>6. \A q \in Process : CallerSound(q)'
    BY <2>5 DEF CallerSound
  <2>7. KindSound'
    BY <2>4, Names DEF StaticInv, KindSound
  <2> QED
    BY <1>1, <1>3, <1>5, <2>3, <2>6, <2>7 DEF StaticInv, left
<1> QED BY <1>4, <1>5

----------------------------------------------------------------------------
(* The beginning of a call.                                                *)

Wider(op, n, x) == may[n] \cup After(op, x, may[n])

\* What the beginning of a call does, to the calls of the others too.
BeginEffect(p, op, n, x) ==
    /\ act' \in Acts /\ may' \in [Node -> SUBSET Content]
    /\ Wider(op, n, x) \subseteq Content /\ ~Busy(p)
    /\ op = "add" => Wider(op, n, x) \subseteq SUBSET Item
    /\ \A m \in Node : may'[m] = (IF op # "read" /\ m = n THEN Wider(op, n, x) ELSE may[m])
    /\ act'[p] \in Call
    /\ act'[p].step = (IF op = "string" THEN "remove" ELSE "get")
    /\ act'[p].op = op /\ act'[p].node = n /\ act'[p].x = x
    /\ act'[p].alone = (Writers(n) = {}) /\ act'[p].may = may[n]
    /\ \A q \in Process : q # p => Busy(q)' = Busy(q)
    /\ \A q \in Process : q # p /\ ~Busy(q) => act'[q] = act[q]
    /\ \A q \in Process : q # p /\ Busy(q) =>
         /\ act'[q].step = act[q].step /\ act'[q].op = act[q].op
         /\ act'[q].node = act[q].node /\ act'[q].x = act[q].x
         /\ act'[q].head = act[q].head
         /\ act[q].op \in Writes => act'[q].may = act[q].may
         /\ act[q].may \subseteq act'[q].may
         /\ op # "read" /\ act[q].node = n /\ act[q].op \in Writes => act'[q].alone = FALSE
         /\ op # "read" /\ act[q].node = n /\ act[q].op = "read" =>
             Wider(op, n, x) \subseteq act'[q].may
         /\ op = "read" \/ act[q].node # n => act'[q] = act[q]

\* What Begin does to the calls in progress.
LEMMA BeginActs ==
    ASSUME StaticInv, NEW p \in Process, NEW op \in Operation, NEW n \in Node,
           NEW x \in Value \cup Item, Begin(p, op, n, x)
    PROVE  BeginEffect(p, op, n, x)
<1> DEFINE wider == Wider(op, n, x)
           new == [step |-> IF op = "string" THEN "remove" ELSE "get",
                   op |-> op, node |-> n, x |-> x, head |-> {},
                   alone |-> Writers(n) = {}, may |-> may[n]]
<1>1. act \in Acts /\ may \in [Node -> SUBSET Content] /\ KindSound
  BY BusyTyped DEF StaticInv, TypeOK, Acts
<1>2. act[p] = Idle /\ MayCall(p, op, n, x)
  BY DEF Begin
<1>3. op = "add" => n \in Container /\ x \in Item
  BY <1>2 DEF MayCall, TakesChildren
<1>4. op # "add" => x \in Value
  BY <1>2, Names DEF MayCall, Operation
<1>5. may[n] \subseteq Content
  BY <1>1
<1>6. op = "add" => wider \subseteq SUBSET Item
  <2> SUFFICES ASSUME op = "add" PROVE wider \subseteq SUBSET Item
    OBVIOUS
  <2>1. may[n] \subseteq SUBSET Item /\ x \in Item
    BY <1>1, <1>3 DEF KindSound
  <2> QED BY <2>1 DEF Wider, After
<1>7. wider \subseteq Content
  <2>1. CASE op = "add"
    BY <1>6, <2>1 DEF Content
  <2>2. CASE op # "add"
    <3>1. {x} \in Content
      BY <1>4, <2>2 DEF Content
    <3> QED BY <1>5, <2>2, <3>1 DEF Wider, After
  <2> QED BY <2>1, <2>2
<1>8. new \in Call
  <2>1. {} \in Content
    BY DEF Content
  <2> QED BY <1>5, <2>1 DEF Call, Step
<1>9. act' = [q \in Process |->
                    IF q = p THEN new
                    ELSE IF op = "read" THEN act[q]
                    ELSE IF q \in Writers(n) THEN [act[q] EXCEPT !.alone = FALSE]
                    ELSE IF q \in Readers(n) THEN [act[q] EXCEPT !.may = @ \cup wider]
                    ELSE act[q]]
  BY DEF Begin, Wider
<1>10. may' = IF op = "read" THEN may ELSE [may EXCEPT ![n] = wider]
  BY DEF Begin, Wider
<1> HIDE DEF wider, new
<1>11. ASSUME NEW q \in Process, q # p
       PROVE  /\ act'[q] \in {Idle, Dead} \cup Call
              /\ Busy(q)' = Busy(q)
              /\ ~Busy(q) => act'[q] = act[q]
              /\ Busy(q) =>
                   /\ act'[q].step = act[q].step /\ act'[q].op = act[q].op
                   /\ act'[q].node = act[q].node /\ act'[q].x = act[q].x
                   /\ act'[q].head = act[q].head
                   /\ act[q].op \in Writes => act'[q].may = act[q].may
                   /\ act[q].may \subseteq act'[q].may
                   /\ op # "read" /\ act[q].node = n /\ act[q].op \in Writes => act'[q].alone = FALSE
                   /\ op # "read" /\ act[q].node = n /\ act[q].op = "read" =>
                       wider \subseteq act'[q].may
                   /\ op = "read" \/ act[q].node # n => act'[q] = act[q]
  <2>1. act[q] \in {Idle, Dead} \cup Call /\ (Busy(q) <=> act[q] \in Call)
    BY <1>1, BusyTyped DEF Acts, StaticInv
  <2>2. CASE op # "read" /\ q \in Writers(n)
    <3>1. act'[q] = [act[q] EXCEPT !.alone = FALSE] /\ Busy(q) /\ act[q].op \in Writes /\ act[q].node = n
      BY <1>9, <1>11, <2>2 DEF Writers, Writes, Calls
    <3>2. act[q] \in Call
      BY <2>1, <3>1
    <3>3. act'[q] \in Call
      BY <3>1, <3>2 DEF Call
    <3>4. /\ act'[q].step = act[q].step /\ act'[q].op = act[q].op
          /\ act'[q].node = act[q].node /\ act'[q].x = act[q].x
          /\ act'[q].head = act[q].head /\ act'[q].may = act[q].may /\ act'[q].alone = FALSE
      BY <3>1, <3>2 DEF Call
    <3>5. Busy(q)'
      BY <3>1, <3>4 DEF Busy
    <3> QED BY <2>2, <3>1, <3>3, <3>4, <3>5 DEF Writes
  <2>3. CASE op # "read" /\ q \notin Writers(n) /\ q \in Readers(n)
    <3>1. act'[q] = [act[q] EXCEPT !.may = @ \cup wider] /\ Busy(q) /\ act[q].op = "read" /\ act[q].node = n
      BY <1>9, <1>11, <2>3 DEF Readers, Calls
    <3>2. act[q] \in Call
      BY <2>1, <3>1
    <3>3. act[q].may \cup wider \subseteq Content
      BY <1>7, <3>2 DEF Call
    <3>4. act'[q] \in Call
      BY <3>1, <3>2, <3>3 DEF Call
    <3>5. /\ act'[q].step = act[q].step /\ act'[q].op = act[q].op
          /\ act'[q].node = act[q].node /\ act'[q].x = act[q].x
          /\ act'[q].head = act[q].head /\ act'[q].may = act[q].may \cup wider
      BY <3>1, <3>2 DEF Call
    <3>6. Busy(q)'
      BY <3>1, <3>5 DEF Busy
    <3> QED BY <2>3, <3>1, <3>4, <3>5, <3>6 DEF Writes
  <2>4. CASE op = "read" \/ (q \notin Writers(n) /\ q \notin Readers(n))
    <3>1. act'[q] = act[q]
      BY <1>9, <1>11, <2>4
    <3>2. Busy(q)' = Busy(q)
      BY <3>1 DEF Busy
    <3>3. Busy(q) => op = "read" \/ act[q].node # n \/ act[q].op \notin Writes \cup {"read"}
      BY <2>4 DEF Writers, Readers, Calls, Writes
    <3> QED BY <2>1, <3>1, <3>2, <3>3 DEF Writes
  <2> QED BY <2>2, <2>3, <2>4
<1>12. act'[p] = new
  BY <1>9
<1>13. act' \in Acts
  <2>1. act' = [q \in Process |-> act'[q]]
    BY <1>9
  <2>2. \A q \in Process : act'[q] \in {Idle, Dead} \cup Call
    BY <1>8, <1>11, <1>12
  <2> QED BY <2>1, <2>2 DEF Acts
<1>14. may' \in [Node -> SUBSET Content]
       /\ \A m \in Node : may'[m] = (IF op # "read" /\ m = n THEN wider ELSE may[m])
  BY <1>1, <1>7, <1>10
<1>15. ~Busy(p)
  BY <1>2 DEF Busy, Idle
<1>16. /\ new.step = (IF op = "string" THEN "remove" ELSE "get")
       /\ new.op = op /\ new.node = n /\ new.x = x
       /\ new.alone = (Writers(n) = {}) /\ new.may = may[n]
  BY DEF new
<1> QED BY <1>6, <1>7, <1>8, <1>11, <1>12, <1>13, <1>14, <1>15, <1>16 DEF wider, BeginEffect

\* A new call keeps to the rule, and those under way learn what it may store.
LEMMA BeginStatic ==
    ASSUME StaticInv, NEW p \in Process, NEW op \in Operation, NEW n \in Node,
           NEW x \in Value \cup Item, Begin(p, op, n, x)
    PROVE  StaticInv'
<1>0. BeginEffect(p, op, n, x)
  BY BeginActs
<1>1. MayCall(p, op, n, x) /\ mapped' = mapped
  BY DEF Begin
<1>2. \A m \in Node : may'[m] = (IF op # "read" /\ m = n THEN Wider(op, n, x) ELSE may[m])
  BY <1>0 DEF BeginEffect
<1>3. TypeOK'
  <2>1. act' \in Acts /\ may' \in [Node -> SUBSET Content]
    BY <1>0 DEF BeginEffect
  <2>2. calls' \in 0 .. MaxCalls
    BY SizeAssumption DEF Begin, StaticInv, TypeOK
  <2> QED BY <2>1, <2>2 DEF StaticInv, TypeOK, Begin, Acts, Call
<1>4. KindSound'
  <2> SUFFICES ASSUME NEW m \in Container PROVE may'[m] \subseteq SUBSET Item
    BY DEF KindSound
  <2>1. m \in Node /\ may[m] \subseteq SUBSET Item
    BY Names DEF StaticInv, KindSound
  <2>2. op # "read" /\ m = n => op = "add"
    BY <1>1 DEF MayCall, Operation
  <2>3. op = "add" => Wider(op, n, x) \subseteq SUBSET Item
    BY <1>0 DEF BeginEffect
  <2> QED BY <1>2, <2>1, <2>2, <2>3
<1>5. CallerSound(p)'
  <2>1. /\ act'[p].op = op /\ act'[p].node = n /\ act'[p].x = x
        /\ act'[p].alone = (Writers(n) = {}) /\ act'[p].may = may[n]
    BY <1>0 DEF BeginEffect
  <2>2. op \in Writes => may[n] \cup After(op, x, may[n]) \subseteq may'[n]
    BY <1>2 DEF Wider, Writes
  <2>3. op = "read" => may'[n] \subseteq may[n]
    BY <1>2
  <2>4. op = "add" => may[n] \subseteq SUBSET Item
    BY <1>0 DEF Wider, BeginEffect
  <2>5. ASSUME Writers(n) = {}, NEW r \in Process, r # p
        PROVE  ~(Busy(r)' /\ act'[r].op \in Writes /\ act'[r].node = n)
    <3>1. ~Calls(r, n, Writes)
      BY <2>5 DEF Writers, Writes
    <3>2. Busy(r)' = Busy(r)
      BY <2>5, <1>0 DEF BeginEffect
    <3>3. Busy(r) => act'[r].op = act[r].op /\ act'[r].node = act[r].node
      BY <2>5, <1>0 DEF BeginEffect
    <3> QED BY <3>1, <3>2, <3>3 DEF Calls
  <2>6. MayCall(p, op, n, x)'
    BY <1>1 DEF MayCall, TakesChildren
  <2> QED BY <2>1, <2>2, <2>3, <2>4, <2>5, <1>1 DEF CallerSound, MayCall, TakesChildren, After, Calls
<1>6. ASSUME NEW q \in Process, q # p, Busy(q)
      PROVE  CallerSound(q)'
  <2> DEFINE m == act[q].node
  <2>1. CallerSound(q) /\ m \in Node
    BY <1>6, CallerFacts DEF StaticInv
  <2>2. /\ act'[q].op = act[q].op /\ act'[q].node = m /\ act'[q].x = act[q].x
        /\ act[q].op \in Writes => act'[q].may = act[q].may
        /\ act[q].may \subseteq act'[q].may
    BY <1>6, <1>0 DEF BeginEffect
  <2>3. act[q].op \in Writes => may[m] \subseteq may'[m]
    BY <1>2, <2>1 DEF Wider
  <2>4. act[q].op = "read" => may'[m] \subseteq act'[q].may
    <3>1. CASE op # "read" /\ m = n
      BY <1>2, <1>6, <3>1, <1>0 DEF BeginEffect
    <3>2. CASE ~(op # "read" /\ m = n)
      BY <1>2, <1>6, <2>1, <2>2, <3>2 DEF CallerSound
    <3> QED BY <3>1, <3>2
  <2>5. ASSUME act[q].op \in Writes, act'[q].alone,
               NEW r \in Process, Busy(r)', act'[r].op \in Writes, act'[r].node = m
        PROVE  r = q
    <3>1. op = "read" \/ m # n
      BY <1>6, <2>5, <1>0 DEF BeginEffect
    <3>2. act'[q] = act[q]
      BY <1>6, <3>1, <1>0 DEF BeginEffect
    <3>3. r # p
      BY <2>5, <3>1, <1>0 DEF Writes, BeginEffect
    <3>4. Calls(r, m, Writes)
      <4>1. Busy(r)
        BY <2>5, <3>3, <1>0 DEF BeginEffect
      <4>2. act'[r].op = act[r].op /\ act'[r].node = act[r].node
        BY <3>3, <4>1, <1>0 DEF BeginEffect
      <4> QED BY <2>5, <4>1, <4>2 DEF Calls
    <3> QED BY <1>6, <2>1, <2>5, <3>2, <3>4 DEF CallerSound
  <2>6. act[q].op = "add" => act'[q].may \subseteq SUBSET Item
    BY <1>6, <2>1, <2>2 DEF CallerSound, Writes
  <2>7. act[q].op \in Writes =>
          act'[q].may \cup After(act[q].op, act[q].x, act'[q].may) \subseteq may'[m]
    BY <1>6, <2>1, <2>2, <2>3 DEF CallerSound, After
  <2> QED
    BY <1>1, <1>6, <2>1, <2>2, <2>4, <2>5, <2>6, <2>7
    DEF CallerSound, MayCall, TakesChildren, After, Calls
<1>7. \A q \in Process : q # p /\ ~Busy(q) => CallerSound(q)'
  <2> SUFFICES ASSUME NEW q \in Process, q # p, ~Busy(q) PROVE CallerSound(q)'
    OBVIOUS
  <2>1. act'[q] = act[q]
    BY <1>0 DEF BeginEffect
  <2> QED BY <2>1 DEF CallerSound, Busy
<1> QED BY <1>3, <1>4, <1>5, <1>6, <1>7 DEF StaticInv

\* Begin: a new call has no pointer and no copy yet.
LEMMA BeginKeeps ==
    ASSUME ClientInv, NEW p \in Process, NEW op \in Operation, NEW n \in Node,
           NEW x \in Value \cup Item, Begin(p, op, n, x)
    PROVE  ClientInv'
<1> USE DEF ClientInv
<1>0. BeginEffect(p, op, n, x)
  BY BeginActs
<1>1. StaticInv'
  BY BeginStatic
<1>2. UNCHANGED <<mapped, entry, cache, lock, hurt>> /\ ~Busy(p)
  BY <1>0 DEF Begin, BeginEffect
<1>3. /\ act'[p].step = (IF op = "string" THEN "remove" ELSE "get")
      /\ act'[p].op = op /\ act'[p].node = n /\ act'[p].x = x /\ act'[p].may = may[n]
  BY <1>0 DEF BeginEffect
<1>4. \A m \in Node : may[m] \subseteq may'[m]
  BY <1>0 DEF Wider, BeginEffect
<1>5. LockSound'
  <2> SUFFICES ASSUME NEW q \in Process
               PROVE  lock = q <=> act'[q].step \in {"whead", "wdata", "unlock"}
    BY <1>2 DEF LockSound
  <2>1. CASE q = p
    BY <1>2, <1>3, <2>1 DEF LockSound, Busy
  <2>2. CASE q # p
    <3>1. act'[q].step = act[q].step
      BY <2>2, <1>0 DEF BeginEffect
    <3> QED BY <3>1 DEF LockSound
  <2> QED BY <2>1, <2>2
<1>6. CallSound(p)'
  <2>1. StepSound(p)'
    BY <1>3, <1>2 DEF StepSound, Operation
  <2>2. PointerSound(p)' /\ CopySound(p)'
    BY <1>3 DEF PointerSound, CopySound
  <2>3. FoundSound(p)'
    BY <1>2, <1>3 DEF FoundSound, NodeSound, EntrySound, Present
  <2> QED BY <2>1, <2>2, <2>3 DEF CallSound
<1>7. ASSUME NEW q \in Process, q # p, ~Busy(q)
      PROVE  CallSound(q)'
  <2>1. act'[q] = act[q]
    BY <1>7, <1>0 DEF BeginEffect
  <2> QED BY <1>7, <2>1 DEF CallSound, StepSound, PointerSound, CopySound, FoundSound, Busy
<1>8. ASSUME NEW q \in Process, q # p, Busy(q)
      PROVE  CallSound(q)'
  <2>1. /\ act'[q].step = act[q].step /\ act'[q].op = act[q].op
        /\ act'[q].node = act[q].node /\ act'[q].x = act[q].x /\ act'[q].head = act[q].head
        /\ act[q].op \in Writes => act'[q].may = act[q].may
        /\ act[q].may \subseteq act'[q].may
    BY <1>8, <1>0 DEF BeginEffect
  <2>2. StepSound(q) /\ PointerSound(q) /\ CopySound(q) /\ FoundSound(q)
    BY DEF CallSound
  <2>3. StepSound(q)'
    BY <1>2, <1>8, <2>1, <2>2 DEF StepSound
  <2>4. PointerSound(q)'
    BY <1>2, <1>8, <2>1, <2>2 DEF PointerSound, Present
  <2>5. act[q].op \in Writes \cup {"read"}
    BY <1>8, CallerFacts DEF Writes
  <2>6. CopySound(q)'
    BY <1>2, <1>8, <2>1, <2>2, <2>5 DEF CopySound, StepSound, After, Writes
  <2>7. FoundSound(q)'
    BY <1>2, <1>8, <2>1, <2>2 DEF FoundSound, Present, Writes
  <2> QED BY <2>3, <2>4, <2>6, <2>7 DEF CallSound
<1>9. ASSUME NEW m \in Node
      PROVE  NodeSound(m)'
  <2>1. \A q \in Writers(m) : q \in Writers(m)' /\ act'[q].step = act[q].step
    <3> SUFFICES ASSUME NEW q \in Process, Calls(q, m, Writes)
                 PROVE  Calls(q, m, Writes)' /\ act'[q].step = act[q].step
      BY DEF Writers, Writes
    <3>1. q # p /\ Busy(q)
      BY <1>2 DEF Calls
    <3>2. Busy(q)' /\ act'[q].op = act[q].op /\ act'[q].node = act[q].node /\ act'[q].step = act[q].step
      BY <3>1, <1>0 DEF BeginEffect
    <3> QED BY <3>2 DEF Calls
  <2>2. EntrySound(m)' /\ CommonSound(m)'
    BY <1>2, <1>4 DEF NodeSound, EntrySound, CommonSound, Present
  <2>3. WholeAt(m)' /\ MissingAt(m)'
    BY <1>2, <2>1 DEF NodeSound, WholeAt, MissingAt, Present
  <2> QED BY <2>2, <2>3 DEF NodeSound
<1> QED BY <1>1, <1>5, <1>6, <1>7, <1>8, <1>9

----------------------------------------------------------------------------
(* Steps that change no entry.                                             *)

\* What is known of a call at a step.
LEMMA AtSound ==
    ASSUME ClientInv, NEW p \in Process, NEW s \in Step, NEW n \in Node, At(p, s, n)
    PROVE  /\ Busy(p) /\ act[p] \in Call /\ act[p].step = s /\ act[p].node = n
           /\ act[p].op \in Operation /\ act[p].x \in Value \cup Item
           /\ StaticInv /\ TypeOK /\ LockSound /\ NodeSound(n)
           /\ CallSound(p) /\ StepSound(p) /\ PointerSound(p) /\ CopySound(p) /\ FoundSound(p)
BY AtTyped DEF ClientInv, StaticInv, CallSound

\* A step that changes no entry and goes on with its call keeps every node sound.
LEMMA StillNodes ==
    ASSUME ClientInv, NEW p \in Process, Busy(p), NEW s \in Step, Moved(p, s),
           UNCHANGED <<mapped, entry, may, hurt>>, lock' = lock \/ lock = Nobody,
           act[p].step \in {"store", "new", "writeback"} => s \in {"store", "new", "writeback"},
           NEW m \in Node
    PROVE  NodeSound(m)'
<1>1. TypeOK /\ NodeSound(m)
  BY DEF ClientInv, StaticInv
<1>2. Writers(m)' = Writers(m)
  BY <1>1, MovedWriters
<1>3. \A q \in Writers(m) : act[q].step \in {"store", "new", "writeback"} =>
        act'[q].step \in {"store", "new", "writeback"}
  BY DEF Writers, Moved
<1>4. EntrySound(m)' /\ CommonSound(m)'
  BY <1>1 DEF NodeSound, EntrySound, CommonSound, Present
<1>5. WholeAt(m)' /\ MissingAt(m)'
  BY <1>1, <1>2, <1>3 DEF NodeSound, WholeAt, MissingAt, Present
<1> QED BY <1>4, <1>5 DEF NodeSound

\* A call that ends before it changes anything keeps every node sound.
LEMMA StillNodesOver ==
    ASSUME ClientInv, NEW p \in Process, Busy(p), Over(p),
           UNCHANGED <<mapped, entry, may>>, lock' = lock,
           act[p].step \in {"get", "lock", "head", "data"}, hurt' = hurt,
           NEW m \in Node
    PROVE  NodeSound(m)'
<1>1. TypeOK /\ NodeSound(m) /\ lock # p
  BY DEF ClientInv, StaticInv, LockSound
<1>2. Writers(m)' = Writers(m) \ {p}
  BY <1>1, OverWriters
<1>3. \A q \in Process : q # p => act'[q] = act[q]
  BY DEF Over
<1>4. EntrySound(m)' /\ CommonSound(m)'
  BY <1>1 DEF NodeSound, EntrySound, CommonSound, Present
<1>5. WholeAt(m)'
  BY <1>1, <1>2 DEF NodeSound, WholeAt, Present
<1>6. MissingAt(m)'
  BY <1>1, <1>2, <1>3 DEF NodeSound, MissingAt, Present, Writers
<1> QED BY <1>4, <1>5, <1>6 DEF NodeSound

\* A call that throws, or a reader that is done.
LEMMA StillOver ==
    ASSUME ClientInv, NEW p \in Process, Busy(p), Over(p), act' \in Acts,
           UNCHANGED <<mapped, entry, cache, lock, calls, may, hurt>>,
           act[p].step \in {"get", "lock", "head", "data"}
    PROVE  ClientInv'
<1> USE DEF ClientInv
<1>1. TypeOK'
  BY DEF StaticInv, TypeOK, Acts, Call
<1>2. StaticInv'
  BY <1>1, OverStatic
<1>3. act'[p].step \in {"idle", "dead"}
  BY DEF Over, Idle, Dead
<1>4. LockSound'
  BY <1>3 DEF LockSound, Over
<1>5. CallSound(p)'
  BY <1>3 DEF CallSound, StepSound, PointerSound, CopySound, FoundSound, Busy
<1>6. \A q \in Process : q # p => CallSound(q)'
  BY StillCalls DEF Over
<1>7. \A m \in Node : NodeSound(m)'
  BY StillNodesOver
<1> QED BY <1>2, <1>4, <1>5, <1>6, <1>7

\* A call that goes on, to a step that does not hold the lock.
LEMMA StillMoved ==
    ASSUME ClientInv, NEW p \in Process, Busy(p), NEW s \in Step, Moved(p, s), act' \in Acts,
           UNCHANGED <<mapped, entry, lock, calls, may, hurt>>,
           cache' \in [Process -> [Node -> Buffer \cup {NoEntry}]],
           \A q \in Process : q # p => cache'[q] = cache[q],
           {act[p].step, s} \cap {"whead", "wdata", "unlock"} = {},
           act[p].step \notin {"store", "new", "writeback"},
           CallSound(p)'
    PROVE  ClientInv'
<1> USE DEF ClientInv
<1>1. TypeOK'
  BY DEF StaticInv, TypeOK, Acts, Call
<1>2. StaticInv'
  BY <1>1, MovedStatic
<1>3. LockSound'
  BY DEF LockSound, Moved
<1>4. \A q \in Process : q # p => CallSound(q)'
  BY StillCalls DEF Moved
<1>5. \A m \in Node : NodeSound(m)'
  BY StillNodes
<1> QED BY <1>2, <1>3, <1>4, <1>5

\* get() of mdbm: the pointer leads to the entry, or the call throws.
LEMMA GetPointerKeeps ==
    ASSUME ClientInv, NEW p \in Process, NEW n \in Node, GetPointer(p, n)
    PROVE  ClientInv'
<1>1. At(p, "get", n) /\ mapped /\ UNCHANGED <<mapped, entry, cache, lock, calls>>
  BY DEF GetPointer
<1>2. /\ Busy(p) /\ act[p] \in Call /\ act[p].step = "get" /\ act[p].node = n
      /\ act[p].op \in Operation /\ StaticInv /\ TypeOK /\ NodeSound(n)
      /\ StepSound(p) /\ FoundSound(p)
  BY <1>1, AtSound DEF Step
<1>3. CASE Present(n)
  <2> DEFINE s == AfterGet(p, entry[n], "head", "insert", "lock")
  <2>1. act' = [act EXCEPT ![p].step = s] /\ UNCHANGED <<may, hurt>>
    BY <1>3 DEF GetPointer, Goto
  <2>2. /\ act[p].op = "read" => s = "head"
        /\ act[p].op = "add" => s = "insert"
        /\ act[p].op \notin {"read", "add"} =>
            s = IF Size(entry[n]) = SizeOf[act[p].x] THEN "lock" ELSE "store"
    BY DEF AfterGet
  <2>3. act[p].op = "set" /\ Owner[n] = Nobody => s = "lock"
    <3> SUFFICES ASSUME act[p].op = "set", Owner[n] = Nobody PROVE s = "lock"
      OBVIOUS
    <3>1. SizeOf[act[p].x] = SizeOf[First]
      BY <1>1, <1>2, CallerFacts
    <3>2. PICK v \in Value : entry[n].head = {v} /\ SizeOf[v] = SizeOf[First]
      BY <1>1, <1>2 DEF NodeSound, CommonSound
    <3>3. (CHOOSE w \in Value : entry[n].head = {w}) = v
      BY <3>2
    <3> QED BY <2>2, <3>1, <3>2, <3>3 DEF Size
  <2>4. act[p].op \in {"read", "set", "add"}
    BY <1>2 DEF StepSound, Operation
  <2> HIDE DEF s
  <2>5. s \in Step /\ s \notin {"whead", "wdata", "unlock"}
    BY <2>2, <2>4 DEF Step
  <2>6. Moved(p, s) /\ act' \in Acts
    BY <1>2, <2>1, <2>5, StepMoves
  <2>7. CallSound(p)'
    <3>1. StepSound(p)'
      BY <1>1, <1>2, <2>2, <2>3, <2>4, <2>6 DEF StepSound, Moved
    <3>2. PointerSound(p)'
      BY <1>1, <1>2, <1>3, <2>2, <2>4, <2>6 DEF PointerSound, Moved, Present
    <3>3. CopySound(p)'
      BY <1>1, <2>2, <2>4, <2>6 DEF CopySound, Moved
    <3>4. FoundSound(p)'
      BY <1>1, <1>2, <2>2, <2>4, <2>6 DEF FoundSound, Moved, Present
    <3> QED BY <3>1, <3>2, <3>3, <3>4 DEF CallSound
  <2> QED BY <1>1, <1>2, <2>1, <2>5, <2>6, <2>7, StillMoved DEF TypeOK
<1>4. CASE ~Present(n)
  <2>1. act' = [act EXCEPT ![p] = Idle] /\ UNCHANGED <<may, hurt>>
    BY <1>4 DEF GetPointer, Throw
  <2>2. Over(p) /\ act' \in Acts
    BY <1>2, <2>1, EndsOver
  <2> QED BY <1>1, <1>2, <2>1, <2>2, StillOver
<1> QED BY <1>3, <1>4

\* get() of redis: the copy is whole, and so is its change.
LEMMA GetCopyKeeps ==
    ASSUME ClientInv, NEW p \in Process, NEW n \in Node, GetCopy(p, n)
    PROVE  ClientInv'
<1>1. At(p, "get", n) /\ ~mapped /\ UNCHANGED <<mapped, entry, lock, calls>>
  BY DEF GetCopy
<1>2. /\ Busy(p) /\ act[p] \in Call /\ act[p].step = "get" /\ act[p].node = n
      /\ act[p].op \in Operation /\ StaticInv /\ TypeOK /\ NodeSound(n)
      /\ StepSound(p) /\ FoundSound(p)
  BY <1>1, AtSound DEF Step
<1>3. CASE Present(n)
  <2> DEFINE b == Cached(p, n)
             s == AfterGet(p, b, "data", "del", "del")
             changed == IF s # "del" THEN b
                        ELSE Filled(IF act[p].op = "add" THEN b.data \cup {act[p].x}
                                    ELSE {act[p].x})
  <2>1. /\ act' = [act EXCEPT ![p].step = s] /\ UNCHANGED <<may, hurt>>
        /\ cache' = [cache EXCEPT ![p][n] = changed]
    BY <1>3 DEF GetCopy, Goto
  <2>2. act[p].op \in {"read", "set", "add"}
    BY <1>2 DEF StepSound, Operation
  <2>3. /\ act[p].op = "read" => s = "data"
        /\ act[p].op = "add" => s = "del"
        /\ act[p].op = "set" => s \in {"del", "store"}
    BY DEF AfterGet
  <2> HIDE DEF s
  <2>4. /\ b = entry[n] /\ b \in Buffer /\ b # NoEntry
        /\ b.data \in may[n] /\ b.head = b.data /\ b.data \in Content
    <3>1. b = entry[n] /\ b # NoEntry
      BY <1>3 DEF Cached, Present
    <3>2. b \in Buffer
      BY <1>2, <3>1 DEF TypeOK
    <3>3. b.data \in may[n] /\ b.head = b.data
      BY <1>1, <1>2, <1>3, <3>1 DEF NodeSound, EntrySound
    <3> QED BY <3>1, <3>2, <3>3 DEF Buffer
  <2> HIDE DEF b
  <2>5. /\ act[p].op = "add" => changed = Filled(b.data \cup {act[p].x})
        /\ act[p].op = "set" /\ s = "del" => changed = Filled({act[p].x})
        /\ s # "del" => changed = b
    BY <2>3
  <2>6. act[p].op = "add" =>
            /\ b.data \cup {act[p].x} \in Content
            /\ b.data \cup {act[p].x} \in After(act[p].op, act[p].x, act[p].may)
    <3> SUFFICES ASSUME act[p].op = "add"
                 PROVE  /\ b.data \cup {act[p].x} \in Content
                        /\ b.data \cup {act[p].x} \in After(act[p].op, act[p].x, act[p].may)
      OBVIOUS
    <3>1. b.data \in act[p].may
      BY <1>2, <1>3, <2>4 DEF FoundSound
    <3>2. act[p].may \subseteq SUBSET Item /\ act[p].x \in Item
      BY <1>2, CallerFacts
    <3> QED BY <3>1, <3>2 DEF After, Content
  <2>7. act[p].op = "set" => {act[p].x} \in Content /\ {act[p].x} \in After(act[p].op, act[p].x, act[p].may)
    <3>1. act[p].op = "set" => act[p].x \in Value
      BY <1>2, CallerFacts
    <3> QED BY <3>1 DEF After, Content
  <2>8. act[p].op = "read" => b.data \in act[p].may
    <3>1. CallerSound(p)
      BY <1>2 DEF StaticInv
    <3> QED BY <1>2, <2>4, <3>1 DEF CallerSound
  <2> HIDE DEF changed
  <2>9. changed \in Buffer
    BY <2>2, <2>3, <2>4, <2>5, <2>6, <2>7 DEF Filled, Buffer
  <2>10. /\ cache' \in [Process -> [Node -> Buffer \cup {NoEntry}]]
         /\ \A q \in Process : q # p => cache'[q] = cache[q]
         /\ cache'[p][n] = changed
    BY <1>2, <2>1, <2>9 DEF TypeOK
  <2>11. s \in Step /\ s \notin {"whead", "wdata", "unlock"}
    BY <2>2, <2>3 DEF Step
  <2>12. Moved(p, s) /\ act' \in Acts
    BY <1>2, <2>1, <2>11, StepMoves
  <2>13. CallSound(p)'
    <3>1. StepSound(p)'
      BY <1>1, <1>2, <2>2, <2>3, <2>12 DEF StepSound, Moved
    <3>2. PointerSound(p)'
      BY <1>1, <2>2, <2>3, <2>12 DEF PointerSound, Moved
    <3>3. s = "del" => changed # NoEntry /\ changed.head = changed.data
                       /\ changed.data \in After(act[p].op, act[p].x, act[p].may)
      BY <2>2, <2>3, <2>5, <2>6, <2>7, <2>9, Names DEF Filled
    <3>4. s = "data" => act[p].op = "read" /\ changed = b
      BY <2>2, <2>3, <2>5
    <3>5. CopySound(p)'
      BY <1>2, <2>2, <2>3, <2>4, <2>8, <2>10, <2>12, <3>3, <3>4 DEF CopySound, Moved, After
    <3>6. FoundSound(p)'
      BY <1>1, <2>2, <2>3, <2>12 DEF FoundSound, Moved
    <3> QED BY <3>1, <3>2, <3>5, <3>6 DEF CallSound
  <2>14. UNCHANGED <<may, hurt>>
    BY <2>1
  <2> QED BY <1>1, <1>2, <2>10, <2>11, <2>12, <2>13, <2>14, StillMoved
<1>4. CASE ~Present(n)
  <2>1. act' = [act EXCEPT ![p] = Idle] /\ UNCHANGED <<may, hurt, cache>>
    BY <1>4 DEF GetCopy, Throw
  <2>2. Over(p) /\ act' \in Acts
    BY <1>2, <2>1, EndsOver
  <2> QED BY <1>1, <1>2, <2>1, <2>2, StillOver
<1> QED BY <1>3, <1>4

\* A header read through the pointer belongs to what the node may hold.
LEMMA ReadHeadKeeps ==
    ASSUME ClientInv, NEW p \in Process, NEW n \in Node, ReadHead(p, n)
    PROVE  ClientInv'
<1>1. /\ At(p, "head", n) /\ UNCHANGED <<mapped, entry, cache, lock, calls, may, hurt>>
      /\ act' = [act EXCEPT ![p].head = entry[n].head, ![p].step = "data"]
  BY DEF ReadHead
<1>2. /\ Busy(p) /\ act[p] \in Call /\ act[p].step = "head" /\ act[p].node = n
      /\ act[p].op \in Operation /\ StaticInv /\ TypeOK /\ NodeSound(n)
      /\ StepSound(p) /\ PointerSound(p)
  BY <1>1, AtSound DEF Step
<1>3. mapped /\ act[p].op = "read" /\ Present(n)
  BY <1>2 DEF StepSound, PointerSound, Operation
<1>4. entry[n].head \in may[n] /\ entry[n].head \in Content
  <2>1. entry[n] \in Buffer
    BY <1>2, <1>3 DEF TypeOK, Present
  <2> QED BY <1>2, <1>3, <2>1 DEF NodeSound, EntrySound, Buffer
<1>5. Moved(p, "data") /\ act' \in Acts /\ act'[p].head = entry[n].head
  BY <1>1, <1>2, <1>4, HeadMoves
<1>6. entry[n].head \in act[p].may
  <2>1. CallerSound(p)
    BY <1>2 DEF StaticInv
  <2> QED BY <1>2, <1>3, <1>4, <2>1 DEF CallerSound
<1>7. CallSound(p)'
  <2>1. StepSound(p)'
    BY <1>1, <1>2, <1>3, <1>5 DEF StepSound, Moved
  <2>2. PointerSound(p)' /\ CopySound(p)'
    BY <1>1, <1>2, <1>3, <1>5 DEF PointerSound, CopySound, Moved, Present
  <2>3. FoundSound(p)'
    BY <1>3, <1>5, <1>6 DEF FoundSound, Moved
  <2> QED BY <2>1, <2>2, <2>3 DEF CallSound
<1>8. "data" \in Step
  BY DEF Step
<1> QED BY <1>1, <1>2, <1>5, <1>7, <1>8, StillMoved DEF TypeOK

\* The end of a read.
LEMMA ReadDataKeeps ==
    ASSUME ClientInv, NEW p \in Process, NEW n \in Node, ReadData(p, n)
    PROVE  ClientInv'
<1>1. /\ At(p, "data", n) /\ UNCHANGED <<mapped, entry, cache, lock, calls, may, hurt>>
      /\ act' = [act EXCEPT ![p] = Idle]
  BY DEF ReadData
<1>2. Busy(p) /\ act[p].step = "data" /\ TypeOK
  BY <1>1, AtSound DEF Step
<1>3. Over(p) /\ act' \in Acts
  BY <1>1, <1>2, EndsOver
<1> QED BY <1>1, <1>2, <1>3, StillOver

\* lock(): the next steps are those of the holder.
LEMMA LockKeeps ==
    ASSUME ClientInv, NEW p \in Process, NEW n \in Node, Lock(p, n)
    PROVE  ClientInv'
<1>1. /\ At(p, "lock", n) /\ lock = Nobody /\ lock' = p
      /\ act' = [act EXCEPT ![p].step = "whead"]
      /\ UNCHANGED <<mapped, entry, cache, calls, may, hurt>>
  BY DEF Lock, MayLock, Goto
<1>2. /\ Busy(p) /\ act[p] \in Call /\ act[p].step = "lock" /\ act[p].node = n
      /\ act[p].op \in Operation /\ StaticInv /\ TypeOK /\ LockSound
      /\ StepSound(p) /\ PointerSound(p)
  BY <1>1, AtSound DEF Step
<1>3. Moved(p, "whead") /\ act' \in Acts
  BY <1>1, <1>2, StepMoves DEF Step
<1>4. StaticInv'
  <2>1. TypeOK'
    BY <1>1, <1>2, <1>3 DEF TypeOK, Acts, Call
  <2> QED BY <1>1, <1>2, <1>3, <2>1, MovedStatic DEF Step
<1>5. LockSound'
  BY <1>1, <1>2, <1>3, Names DEF LockSound, Moved
<1>6. CallSound(p)'
  <2>1. StepSound(p)' /\ PointerSound(p)'
    BY <1>1, <1>2, <1>3 DEF StepSound, PointerSound, Moved, Present
  <2>2. CopySound(p)' /\ FoundSound(p)'
    BY <1>2, <1>3 DEF CopySound, FoundSound, Moved
  <2> QED BY <2>1, <2>2 DEF CallSound
<1>7. \A q \in Process : q # p => CallSound(q)'
  BY <1>1, <1>3, StillCalls DEF ClientInv, Moved
<1>8. ASSUME NEW m \in Node
      PROVE  NodeSound(m)'
  <2>1. NodeSound(m) /\ Writers(m)' = Writers(m)
    BY <1>2, <1>3, MovedWriters DEF ClientInv, Step
  <2>2. \A q \in Writers(m) : act[q].step \in {"store", "new", "writeback"} => act'[q] = act[q]
    BY <1>2, <1>3 DEF Writers, Moved
  <2>3. EntrySound(m)' /\ CommonSound(m)'
    BY <1>1, <2>1 DEF NodeSound, EntrySound, CommonSound, Present
  <2>4. WholeAt(m)' /\ MissingAt(m)'
    BY <1>1, <2>1, <2>2 DEF NodeSound, WholeAt, MissingAt, Present
  <2> QED BY <2>3, <2>4 DEF NodeSound
<1> QED BY <1>4, <1>5, <1>6, <1>7, <1>8 DEF ClientInv

----------------------------------------------------------------------------
(* Steps that change an entry.                                             *)

\* A call that goes on after it changed the entry of its node.
LEMMA MovedKeeps ==
    ASSUME ClientInv, NEW p \in Process, Busy(p), NEW s \in Step, Moved(p, s), act' \in Acts,
           act[p].op \in Writes, NEW n \in Node, act[p].node = n,
           UNCHANGED <<mapped, cache, lock, calls, may, hurt>>,
           entry' \in [Node -> Buffer \cup {NoEntry}],
           \A m \in Node : m # n => entry'[m] = entry[m],
           mapped => act[p].step \in {"whead", "wdata", "insert", "remove", "store"},
           mapped /\ Owner[n] = Nobody => entry'[n] # NoEntry,
           act[p].step \in {"whead", "wdata", "unlock"} <=> s \in {"whead", "wdata", "unlock"},
           CallSound(p)', NodeSound(n)'
    PROVE  ClientInv'
<1> USE DEF ClientInv
<1>1. TypeOK'
  BY DEF StaticInv, TypeOK, Acts, Call
<1>2. StaticInv'
  BY <1>1, MovedStatic
<1>3. LockSound'
  BY DEF LockSound, Moved
<1>4. ASSUME NEW q \in Process, q # p
      PROVE  CallSound(q)'
  <2>1. act'[q] = act[q] /\ cache'[q] = cache[q] /\ CallSound(p) /\ CallSound(q)
    BY <1>4 DEF Moved
  <2> QED BY <1>4, <2>1, OtherCalls
<1>5. ASSUME NEW m \in Node, m # n
      PROVE  NodeSound(m)'
  <2>1. NodeSound(m) /\ entry'[m] = entry[m] /\ TypeOK
    BY <1>5 DEF StaticInv
  <2> QED BY <1>5, <2>1, OtherNodes
<1> QED BY <1>2, <1>3, <1>4, <1>5

\* A call that returns with what it had to store in the entry.
LEMMA ReturnKeeps ==
    ASSUME ClientInv, NEW p \in Process, Busy(p), act[p].op \in Writes,
           NEW n \in Node, act[p].node = n, Return(p, n),
           UNCHANGED <<mapped, cache, calls>>,
           lock' = (IF act[p].step = "unlock" THEN Nobody ELSE lock),
           entry' \in [Node -> Buffer \cup {NoEntry}],
           \A m \in Node : m # n => entry'[m] = entry[m],
           \/ mapped => act[p].step \in {"insert", "store"}
           \/ entry' = entry,
           act[p].step \notin {"whead", "wdata"},
           entry'[n] # NoEntry, entry'[n].head = entry'[n].data,
           entry'[n].data \in After(act[p].op, act[p].x, act[p].may),
           CommonSound(n)'
    PROVE  ClientInv'
<1> USE DEF ClientInv
<1>1. /\ Over(p) /\ act' \in Acts /\ may' \in [Node -> SUBSET Content]
      /\ \A m \in Node : m # n => may'[m] = may[m]
      /\ may'[n] = (IF act[p].alone THEN After(act[p].op, act[p].x, act[p].may) ELSE may[n])
      /\ hurt' = hurt \ {n}
      /\ TypeOK' => StaticInv'
  BY ReturnStatic
<1>2. TypeOK'
  BY <1>1, Names DEF StaticInv, TypeOK, Acts, Call
<1>3. LockSound'
  <2>1. act'[p].step \in {"idle", "dead"}
    BY <1>1 DEF Over, Idle, Dead
  <2> QED BY <1>1, <2>1, Names DEF LockSound, Over
<1>4. CallSound(p)'
  <2>1. ~Busy(p)'
    BY <1>1 DEF Over, Idle, Dead, Busy
  <2> QED BY <2>1 DEF CallSound, StepSound, PointerSound, CopySound, FoundSound
<1>5. ASSUME NEW q \in Process, q # p
      PROVE  CallSound(q)'
  <2>1. act'[q] = act[q] /\ cache'[q] = cache[q] /\ CallSound(p) /\ CallSound(q) /\ LockSound
    BY <1>1, <1>5 DEF Over
  <2>2. CASE entry' = entry
    BY <2>1, <2>2, StillCalls
  <2>3. CASE mapped => act[p].step \in {"insert", "store"}
    BY <1>5, <2>1, <2>3, OtherCalls
  <2> QED BY <2>2, <2>3
<1>6. ASSUME NEW m \in Node, m # n
      PROVE  NodeSound(m)'
  <2>1. NodeSound(m) /\ entry'[m] = entry[m] /\ TypeOK /\ may'[m] = may[m] /\ (m \in hurt => m \in hurt')
    BY <1>1, <1>6 DEF StaticInv
  <2>2. lock' = lock \/ lock \in {p, Nobody}
    BY DEF LockSound
  <2> QED BY <1>1, <1>6, <2>1, <2>2, OtherNodes
<1>7. NodeSound(n)'
  <2>1. entry'[n].data \in may'[n]
    BY <1>1, WrittenFits
  <2>2. EntrySound(n)' /\ WholeAt(n)' /\ MissingAt(n)'
    BY <2>1 DEF EntrySound, WholeAt, MissingAt, Present
  <2> QED BY <2>2 DEF NodeSound
<1> QED BY <1>1, <1>2, <1>3, <1>4, <1>5, <1>6, <1>7

\* The header is written in place, while the lock is held.
LEMMA WriteHeadKeeps ==
    ASSUME ClientInv, NEW p \in Process, NEW n \in Node, WriteHead(p, n)
    PROVE  ClientInv'
<1>1. /\ At(p, "whead", n) /\ UNCHANGED <<mapped, cache, lock, calls, may, hurt>>
      /\ entry' = [entry EXCEPT ![n].head = {act[p].x}]
      /\ act' = [act EXCEPT ![p].step = "wdata"]
  BY DEF WriteHead, Goto
<1>2. /\ Busy(p) /\ act[p] \in Call /\ act[p].step = "whead" /\ act[p].node = n
      /\ act[p].op \in Operation /\ StaticInv /\ TypeOK /\ LockSound /\ NodeSound(n)
      /\ StepSound(p) /\ PointerSound(p)
  BY <1>1, AtSound DEF Step
<1>3. mapped /\ act[p].op = "set" /\ Present(n) /\ lock = p
  BY <1>2 DEF StepSound, PointerSound, Operation, LockSound
<1>4. Moved(p, "wdata") /\ act' \in Acts
  BY <1>1, <1>2, StepMoves DEF Step
<1>5. act[p].x \in Value /\ {act[p].x} \in Content /\ {act[p].x} \in may[n]
  <2>1. act[p].x \in Value
    BY <1>2, <1>3, CallerFacts
  <2>2. {act[p].x} \in may[n]
    BY <1>2, <1>3, WrittenFits DEF Writes
  <2> QED BY <2>1, <2>2 DEF Content
<1>6. /\ entry' \in [Node -> Buffer \cup {NoEntry}]
      /\ \A m \in Node : m # n => entry'[m] = entry[m]
      /\ entry'[n] \in Buffer /\ entry'[n].head = {act[p].x} /\ entry'[n].data = entry[n].data
  <2>1. entry \in [Node -> Buffer \cup {NoEntry}] /\ entry[n] \in Buffer
    BY <1>2, <1>3 DEF TypeOK, Present
  <2>2. [entry[n] EXCEPT !.head = {act[p].x}] \in Buffer
    BY <1>5, <2>1 DEF Buffer
  <2>3. entry' = [entry EXCEPT ![n] = [entry[n] EXCEPT !.head = {act[p].x}]]
    BY <1>1, <2>1
  <2>4. entry'[n] = [entry[n] EXCEPT !.head = {act[p].x}]
    BY <2>1, <2>3
  <2>5. entry'[n].head = {act[p].x} /\ entry'[n].data = entry[n].data
    BY <2>1, <2>4 DEF Buffer
  <2> QED BY <2>1, <2>2, <2>3, <2>4, <2>5
<1>7. entry'[n] # NoEntry
  BY <1>6, Names
<1>8. CallSound(p)'
  <2>1. StepSound(p)'
    BY <1>1, <1>2, <1>3, <1>4 DEF StepSound, Moved
  <2>2. PointerSound(p)'
    BY <1>2, <1>4, <1>6, <1>7 DEF PointerSound, Moved, Present
  <2>3. CopySound(p)' /\ FoundSound(p)'
    BY <1>2, <1>3, <1>4 DEF CopySound, FoundSound, Moved
  <2> QED BY <2>1, <2>2, <2>3 DEF CallSound
<1>9. NodeSound(n)'
  <2>1. EntrySound(n)'
    BY <1>1, <1>2, <1>3, <1>5, <1>6 DEF NodeSound, EntrySound, Present
  <2>2. CommonSound(n)'
    <3>1. Owner[n] = Nobody => SizeOf[act[p].x] = SizeOf[First]
      BY <1>2, <1>3, CallerFacts
    <3> QED BY <1>5, <1>6, <1>7, <3>1 DEF CommonSound, Present
  <2>3. p \in Writers(n)'
    BY <1>2, <1>3, MovedWriters, <1>4 DEF Writers, Calls, Step
  <2>4. WholeAt(n)' /\ MissingAt(n)'
    BY <1>1, <1>3, <1>7, <2>3, Names DEF WholeAt, MissingAt, Present
  <2> QED BY <2>1, <2>2, <2>4 DEF NodeSound
<1> QED
  BY <1>1, <1>2, <1>3, <1>4, <1>6, <1>7, <1>8, <1>9, MovedKeeps DEF Step, Writes

\* The data is written in place, and the entry is whole again.
LEMMA WriteDataKeeps ==
    ASSUME ClientInv, NEW p \in Process, NEW n \in Node, WriteData(p, n)
    PROVE  ClientInv'
<1>1. /\ At(p, "wdata", n) /\ UNCHANGED <<mapped, cache, lock, calls, may, hurt>>
      /\ entry' = [entry EXCEPT ![n].data = {act[p].x}]
      /\ act' = [act EXCEPT ![p].step = "unlock"]
  BY DEF WriteData, Goto
<1>2. /\ Busy(p) /\ act[p] \in Call /\ act[p].step = "wdata" /\ act[p].node = n
      /\ act[p].op \in Operation /\ StaticInv /\ TypeOK /\ LockSound /\ NodeSound(n)
      /\ StepSound(p) /\ PointerSound(p)
  BY <1>1, AtSound DEF Step
<1>3. /\ mapped /\ act[p].op = "set" /\ Present(n)
      /\ entry[n].head = {act[p].x}
  BY <1>2 DEF StepSound, PointerSound, Operation
<1>4. Moved(p, "unlock") /\ act' \in Acts
  BY <1>1, <1>2, StepMoves DEF Step
<1>5. {act[p].x} \in Content /\ {act[p].x} \in may[n]
  <2>1. act[p].x \in Value
    BY <1>2, <1>3, CallerFacts
  <2>2. {act[p].x} \in may[n]
    BY <1>2, <1>3, WrittenFits DEF Writes
  <2> QED BY <2>1, <2>2 DEF Content
<1>6. /\ entry' \in [Node -> Buffer \cup {NoEntry}]
      /\ \A m \in Node : m # n => entry'[m] = entry[m]
      /\ entry'[n] \in Buffer /\ entry'[n].data = {act[p].x} /\ entry'[n].head = {act[p].x}
  <2>1. entry \in [Node -> Buffer \cup {NoEntry}] /\ entry[n] \in Buffer
    BY <1>2, <1>3 DEF TypeOK, Present
  <2>2. [entry[n] EXCEPT !.data = {act[p].x}] \in Buffer
    BY <1>5, <2>1 DEF Buffer
  <2>3. entry' = [entry EXCEPT ![n] = [entry[n] EXCEPT !.data = {act[p].x}]]
    BY <1>1, <2>1
  <2>4. entry'[n] = [entry[n] EXCEPT !.data = {act[p].x}]
    BY <2>1, <2>3
  <2>5. entry'[n].data = {act[p].x} /\ entry'[n].head = {act[p].x}
    BY <1>3, <2>1, <2>4 DEF Buffer
  <2> QED BY <2>1, <2>2, <2>3, <2>4, <2>5
<1>7. entry'[n] # NoEntry
  BY <1>6, Names
<1>8. CallSound(p)'
  <2>1. StepSound(p)'
    BY <1>1, <1>2, <1>3, <1>4 DEF StepSound, Moved
  <2>2. PointerSound(p)'
    BY <1>2, <1>4, <1>6, <1>7 DEF PointerSound, Moved, Present
  <2>3. CopySound(p)' /\ FoundSound(p)'
    BY <1>2, <1>3, <1>4 DEF CopySound, FoundSound, Moved
  <2> QED BY <2>1, <2>2, <2>3 DEF CallSound
<1>9. NodeSound(n)'
  <2>1. EntrySound(n)'
    BY <1>1, <1>5, <1>6 DEF EntrySound
  <2>2. CommonSound(n)'
    BY <1>1, <1>2, <1>3, <1>6, <1>7 DEF NodeSound, CommonSound, Present
  <2>3. WholeAt(n)' /\ MissingAt(n)'
    BY <1>6, <1>7 DEF WholeAt, MissingAt, Present
  <2> QED BY <2>1, <2>2, <2>3 DEF NodeSound
<1> QED
  BY <1>1, <1>2, <1>3, <1>4, <1>6, <1>7, <1>8, <1>9, MovedKeeps DEF Step, Writes

\* unlock(): the node holds what was written.
LEMMA UnlockKeeps ==
    ASSUME ClientInv, NEW p \in Process, NEW n \in Node, Unlock(p, n)
    PROVE  ClientInv'
<1>1. /\ At(p, "unlock", n) /\ UNCHANGED <<mapped, entry, cache, calls>>
      /\ lock' = Nobody /\ Return(p, n)
  BY DEF Unlock, Unlocked
<1>2. /\ Busy(p) /\ act[p] \in Call /\ act[p].step = "unlock" /\ act[p].node = n
      /\ act[p].op \in Operation /\ StaticInv /\ TypeOK /\ NodeSound(n)
      /\ StepSound(p) /\ PointerSound(p)
  BY <1>1, AtSound DEF Step
<1>3. /\ act[p].op = "set" /\ Present(n)
      /\ entry[n].head = {act[p].x} /\ entry[n].data = {act[p].x}
  BY <1>2 DEF StepSound, PointerSound, Operation
<1>4. {act[p].x} \in After(act[p].op, act[p].x, act[p].may)
  BY <1>2, <1>3, WrittenFits DEF Writes
<1>5. CommonSound(n)'
  BY <1>1, <1>2 DEF NodeSound, CommonSound, Present
<1> QED
  BY <1>1, <1>2, <1>3, <1>4, <1>5, ReturnKeeps DEF Writes, TypeOK, Present

\* A record is added in place: the container has one process that changes it.
LEMMA InsertKeeps ==
    ASSUME ClientInv, NEW p \in Process, NEW n \in Node, Insert(p, n)
    PROVE  ClientInv'
<1> DEFINE c == entry[n].data \cup {act[p].x}
<1>1. /\ At(p, "insert", n) /\ UNCHANGED <<mapped, cache, lock, calls>>
      /\ entry' = [entry EXCEPT ![n] = Filled(@.data \cup {act[p].x})]
      /\ Return(p, n)
  BY DEF Insert
<1>2. /\ Busy(p) /\ act[p] \in Call /\ act[p].step = "insert" /\ act[p].node = n
      /\ act[p].op \in Operation /\ StaticInv /\ TypeOK
      /\ StepSound(p) /\ PointerSound(p) /\ FoundSound(p)
  BY <1>1, AtSound DEF Step
<1>3. /\ act[p].op = "add" /\ Present(n) /\ entry[n].data \in act[p].may
  BY <1>2 DEF StepSound, PointerSound, FoundSound, Operation
<1>4. n \in Container /\ act[p].x \in Item /\ act[p].may \subseteq SUBSET Item
  BY <1>2, <1>3, CallerFacts
<1>5. c \in Content /\ c \in After(act[p].op, act[p].x, act[p].may)
  <2>1. c \in Content
    BY <1>3, <1>4 DEF Content
  <2>2. c \in After(act[p].op, act[p].x, act[p].may)
    BY <1>2, <1>3, WrittenFits DEF Writes
  <2> QED BY <2>1, <2>2
<1>6. entry \in [Node -> Buffer \cup {NoEntry}] /\ entry' = [entry EXCEPT ![n] = Filled(c)]
  BY <1>1, <1>2 DEF TypeOK
<1> HIDE DEF c
<1>7. Filled(c) \in Buffer /\ Filled(c) # NoEntry /\ Filled(c).head = c /\ Filled(c).data = c
  BY <1>5, Names DEF Filled, Buffer
<1>8. /\ entry' \in [Node -> Buffer \cup {NoEntry}] /\ entry'[n] = Filled(c)
      /\ \A m \in Node : m # n => entry'[m] = entry[m]
  BY <1>6, <1>7
<1>9. CommonSound(n)'
  BY <1>4, Names DEF CommonSound
<1>10. /\ entry'[n] # NoEntry /\ entry'[n].head = entry'[n].data
       /\ entry'[n].data \in After(act[p].op, act[p].x, act[p].may)
  BY <1>5, <1>7, <1>8
<1>11. /\ act[p].op \in Writes /\ act[p].step \notin {"unlock", "whead", "wdata"}
       /\ lock' = (IF act[p].step = "unlock" THEN Nobody ELSE lock)
  BY <1>1, <1>2, <1>3 DEF Writes
<1>12. UNCHANGED <<mapped, cache, calls>> /\ Return(p, n)
  BY <1>1
<1> QED
  BY <1>2, <1>8, <1>9, <1>10, <1>11, <1>12, ReturnKeeps

\* The two ways in which an entry is taken away by a call that goes on.
LEMMA RemovedKeeps ==
    ASSUME ClientInv, NEW p \in Process, NEW n \in Node, NEW s \in {"store", "new", "writeback"},
           Busy(p), act[p].node = n, act[p].op \in Writes,
           act[p].step \in {"remove", "store", "del"},
           act[p].step = "del" <=> s = "writeback",
           IF mapped THEN act[p].step = "remove" /\ s = "store" ELSE TRUE,
           act[p].step = "remove" <=> s = "store",
           UNCHANGED <<mapped, cache, lock, calls, may, hurt>>,
           entry' = [entry EXCEPT ![n] = NoEntry],
           act' = [act EXCEPT ![p].step = s]
    PROVE  ClientInv'
<1>1. /\ StaticInv /\ TypeOK /\ LockSound /\ StepSound(p) /\ PointerSound(p) /\ CopySound(p)
      /\ act[p].op \in Operation /\ s \in Step
  <2>1. act[p] \in Call
    BY BusyTyped DEF ClientInv, StaticInv
  <2> QED BY <2>1 DEF ClientInv, CallSound, StaticInv, Step, Call
<1>2. Moved(p, s) /\ act' \in Acts
  BY <1>1, StepMoves
<1>3. /\ entry' \in [Node -> Buffer \cup {NoEntry}] /\ entry'[n] = NoEntry
      /\ \A m \in Node : m # n => entry'[m] = entry[m]
  BY <1>1 DEF TypeOK
<1>4. mapped => Owner[n] # Nobody
  <2> SUFFICES ASSUME mapped PROVE Owner[n] # Nobody
    OBVIOUS
  <2>1. act[p].op = "string"
    BY <1>1 DEF StepSound, Operation
  <2> QED BY <1>1, <2>1, CallerFacts, Names
<1>5. CallSound(p)'
  <2>1. StepSound(p)'
    BY <1>1, <1>2, <1>4 DEF StepSound, Moved, Operation
  <2>2. PointerSound(p)'
    BY <1>2 DEF PointerSound, Moved
  <2>3. CopySound(p)'
    BY <1>1, <1>2 DEF CopySound, Moved, After
  <2>4. FoundSound(p)'
    BY <1>2 DEF FoundSound, Moved
  <2> QED BY <2>1, <2>2, <2>3, <2>4 DEF CallSound
<1>6. NodeSound(n)'
  <2>1. p \in Writers(n)'
    BY <1>1, <1>2, MovedWriters DEF Writers, Calls, Writes
  <2>2. MissingAt(n)'
    BY <1>2, <2>1 DEF MissingAt, Moved
  <2>3. EntrySound(n)' /\ CommonSound(n)' /\ WholeAt(n)'
    BY <1>3, <1>4 DEF EntrySound, CommonSound, WholeAt, Present
  <2> QED BY <2>2, <2>3 DEF NodeSound
<1> QED BY <1>1, <1>2, <1>3, <1>4, <1>5, <1>6, MovedKeeps

\* set_string() opens the gap.
LEMMA RemoveKeeps ==
    ASSUME ClientInv, NEW p \in Process, NEW n \in Node, Remove(p, n)
    PROVE  ClientInv'
<1>1. /\ At(p, "remove", n) /\ UNCHANGED <<mapped, cache, lock, calls, may, hurt>>
      /\ entry' = [entry EXCEPT ![n] = NoEntry]
      /\ act' = [act EXCEPT ![p].step = "store"]
  BY DEF Remove, Goto
<1>2. /\ Busy(p) /\ act[p].step = "remove" /\ act[p].node = n
      /\ act[p].op \in Operation /\ StepSound(p)
  BY <1>1, AtSound DEF Step
<1>3. act[p].op \in Writes
  BY <1>2 DEF StepSound, Operation, Writes
<1> QED BY <1>1, <1>2, <1>3, RemovedKeeps

\* DEL opens the gap of set() of redis.
LEMMA DelKeeps ==
    ASSUME ClientInv, NEW p \in Process, NEW n \in Node, Del(p, n)
    PROVE  ClientInv'
<1> DEFINE s == IF act[p].step = "del" THEN "writeback" ELSE "new"
<1>1. /\ At(p, "store", n) \/ At(p, "del", n)
      /\ ~mapped /\ UNCHANGED <<mapped, cache, lock, calls, may, hurt>>
      /\ entry' = [entry EXCEPT ![n] = NoEntry]
      /\ act' = [act EXCEPT ![p].step = s]
  BY DEF Del, Goto
<1>2. /\ Busy(p) /\ act[p].step \in {"store", "del"} /\ act[p].node = n
      /\ act[p].op \in Operation /\ StepSound(p)
  BY <1>1, AtSound DEF Step
<1>3. act[p].op \in Writes
  BY <1>2 DEF StepSound, Operation, Writes
<1> QED BY <1>1, <1>2, <1>3, RemovedKeeps

\* What set() is given is what the call leaves.
LEMMA GivenSound ==
    ASSUME ClientInv, NEW p \in Process, Busy(p), NEW n \in Node, act[p].node = n,
           act[p].step \in {"store", "new", "writeback"}
    PROVE  /\ act[p].op \in Writes
           /\ Given(p, n) \in Buffer /\ Given(p, n).head = Given(p, n).data
           /\ Given(p, n).data \in After(act[p].op, act[p].x, act[p].may)
<1>1. /\ StaticInv /\ TypeOK /\ StepSound(p) /\ CopySound(p) /\ act[p] \in Call
  BY BusyTyped DEF ClientInv, CallSound, StaticInv
<1>2. act[p].op \in Writes
  BY <1>1 DEF StepSound, Writes, Call, Operation
<1>3. CASE act[p].step = "writeback"
  <2>1. Given(p, n) = cache[p][n]
    BY <1>3 DEF Given
  <2>2. cache[p][n] \in Buffer
    BY <1>1, <1>3 DEF CopySound, TypeOK
  <2> QED BY <1>1, <1>2, <1>3, <2>1, <2>2 DEF CopySound
<1>4. CASE act[p].step # "writeback"
  <2>1. Given(p, n) = Filled({act[p].x})
    BY <1>4 DEF Given
  <2>2. act[p].op \in {"set", "string"}
    BY <1>1, <1>4 DEF StepSound, Call, Operation
  <2>3. {act[p].x} \in Content
    BY <1>1, <2>2, CallerFacts DEF Content
  <2>4. {act[p].x} \in After(act[p].op, act[p].x, act[p].may)
    BY <2>2 DEF After
  <2> QED BY <1>2, <2>1, <2>3, <2>4 DEF Filled, Buffer
<1> QED BY <1>3, <1>4

\* Storing a whole buffer closes the gap and ends the call.
LEMMA StoredKeeps ==
    ASSUME ClientInv, NEW p \in Process, Busy(p), NEW n \in Node, act[p].node = n,
           act[p].step \in {"store", "new", "writeback"}, mapped => act[p].step = "store",
           UNCHANGED <<mapped, cache, lock, calls>>,
           entry' = [entry EXCEPT ![n] = Given(p, n)], Return(p, n)
    PROVE  ClientInv'
<1>1. StaticInv /\ TypeOK /\ StepSound(p)
  BY DEF ClientInv, CallSound, StaticInv
<1>2. /\ act[p].op \in Writes
      /\ Given(p, n) \in Buffer /\ Given(p, n).head = Given(p, n).data
      /\ Given(p, n).data \in After(act[p].op, act[p].x, act[p].may)
  BY GivenSound
<1>3. /\ entry' \in [Node -> Buffer \cup {NoEntry}] /\ entry'[n] = Given(p, n)
      /\ \A m \in Node : m # n => entry'[m] = entry[m]
  BY <1>1, <1>2 DEF TypeOK
<1>4. entry'[n] # NoEntry
  BY <1>2, <1>3, Names
<1>5. CommonSound(n)'
  BY <1>1 DEF StepSound, CommonSound
<1> QED BY <1>2, <1>3, <1>4, <1>5, ReturnKeeps

\* set() of mdbm closes the gap.
LEMMA StoreKeeps ==
    ASSUME ClientInv, NEW p \in Process, NEW n \in Node, Store(p, n)
    PROVE  ClientInv'
<1>1. /\ At(p, "store", n) /\ mapped /\ UNCHANGED <<mapped, cache, lock, calls>>
      /\ entry' = [entry EXCEPT ![n] = Given(p, n)] /\ Return(p, n)
  BY DEF Store, Stored
<1>2. Busy(p) /\ act[p].step = "store" /\ act[p].node = n
  BY <1>1, AtSound DEF Step
<1> QED BY <1>1, <1>2, StoredKeeps

\* SET closes the gap.
LEMMA SetKeeps ==
    ASSUME ClientInv, NEW p \in Process, NEW n \in Node, Set(p, n)
    PROVE  ClientInv'
<1>1. /\ At(p, "new", n) \/ At(p, "writeback", n)
      /\ UNCHANGED <<mapped, cache, lock, calls>>
      /\ entry' = [entry EXCEPT ![n] = Given(p, n)] /\ Return(p, n)
  BY DEF Set, Stored
<1>2. Busy(p) /\ act[p].step \in {"new", "writeback"} /\ act[p].node = n /\ StepSound(p)
  BY <1>1, AtSound DEF Step
<1>3. ~mapped
  BY <1>2 DEF StepSound
<1> QED BY <1>1, <1>2, <1>3, StoredKeeps

----------------------------------------------------------------------------
(* Calls that are cut off.                                                 *)

\* A call is cut off at a step at which the entry is not what it will leave.
LEMMA CutKeeps ==
    ASSUME ClientInv, NEW p \in Process, Busy(p), NEW n \in Node, act[p].node = n,
           act[p].op \in Writes, Over(p), act' \in Acts,
           UNCHANGED <<mapped, cache, calls, may>>,
           lock' = (IF lock = p THEN Nobody ELSE lock), hurt' = hurt \cup {n},
           entry' \in [Node -> Buffer \cup {NoEntry}],
           \A m \in Node : m # n => entry'[m] = entry[m],
           entry' = entry \/ ~mapped, EntrySound(n)'
    PROVE  ClientInv'
<1> USE DEF ClientInv
<1>1. TypeOK'
  BY Names DEF StaticInv, TypeOK, Acts, Call
<1>2. StaticInv'
  BY <1>1, OverStatic
<1>3. LockSound'
  <2>1. act'[p].step \in {"idle", "dead"}
    BY DEF Over, Idle, Dead
  <2> QED BY <2>1, Names DEF LockSound, Over
<1>4. CallSound(p)'
  <2>1. ~Busy(p)'
    BY DEF Over, Idle, Dead, Busy
  <2> QED BY <2>1 DEF CallSound, StepSound, PointerSound, CopySound, FoundSound
<1>5. ASSUME NEW q \in Process, q # p
      PROVE  CallSound(q)'
  <2>1. act'[q] = act[q] /\ cache'[q] = cache[q] /\ CallSound(p) /\ CallSound(q) /\ LockSound
    BY <1>5 DEF Over
  <2>2. CASE entry' = entry
    BY <2>1, <2>2, StillCalls
  <2>3. CASE ~mapped
    BY <1>5, <2>1, <2>3, OtherCalls
  <2> QED BY <2>2, <2>3
<1>6. ASSUME NEW m \in Node, m # n
      PROVE  NodeSound(m)'
  <2>1. NodeSound(m) /\ entry'[m] = entry[m] /\ TypeOK /\ may'[m] = may[m] /\ (m \in hurt => m \in hurt')
    BY <1>6 DEF StaticInv
  <2>2. lock' = lock \/ lock \in {p, Nobody}
    OBVIOUS
  <2> QED BY <1>6, <2>1, <2>2, OtherNodes
<1>7. NodeSound(n)'
  <2>1. CommonSound(n)'
    <3>1. NodeSound(n)
      OBVIOUS
    <3> QED BY <3>1 DEF NodeSound, CommonSound, Present
  <2>2. WholeAt(n)' /\ MissingAt(n)'
    BY DEF WholeAt, MissingAt
  <2> QED BY <2>1, <2>2 DEF NodeSound
<1> QED BY <1>2, <1>3, <1>4, <1>5, <1>6, <1>7

\* A command without a reply: the gap may stay open, and the node is marked.
LEMMA FailKeeps ==
    ASSUME ClientInv, NEW p \in Process, NEW n \in Node, Fail(p, n)
    PROVE  ClientInv'
<1>1. PICK s \in {"get", "remove", "store", "del", "new", "writeback"} : At(p, s, n)
  BY DEF Fail
<1>2. /\ ~mapped /\ act' = [act EXCEPT ![p] = Idle]
      /\ hurt' = (IF act[p].step \in Half THEN hurt \cup {n} ELSE hurt)
      /\ UNCHANGED <<mapped, cache, lock, calls, may>>
  BY DEF Fail
<1>3. /\ Busy(p) /\ act[p].step = s /\ act[p].node = n /\ TypeOK /\ StepSound(p) /\ NodeSound(n)
      /\ act[p].op \in Operation /\ LockSound /\ StaticInv
  BY <1>1, AtSound DEF Step
<1>4. Over(p) /\ act' \in Acts
  BY <1>2, <1>3, EndsOver
<1>5. CASE s = "get"
  <2>1. entry' = entry /\ hurt' = hurt
    BY <1>2, <1>3, <1>5 DEF Fail, Half
  <2> QED BY <1>2, <1>3, <1>4, <1>5, <2>1, StillOver
<1>6. CASE s # "get"
  <2>1. act[p].op \in Writes
    BY <1>1, <1>3, <1>6 DEF StepSound, Operation, Writes
  <2>2. hurt' = hurt \cup {n}
    BY <1>1, <1>2, <1>3, <1>6 DEF Half
  <2>3. \/ entry' = entry
        \/ entry' = [entry EXCEPT ![n] = NoEntry]
        \/ s \in {"new", "writeback"} /\ entry' = [entry EXCEPT ![n] = Given(p, n)]
    <3>1. CASE s \in {"remove", "store", "del"}
      <4>1. entry' \in {entry} \cup {[entry EXCEPT ![n] = NoEntry]}
        BY <1>3, <3>1 DEF Fail
      <4> QED BY <4>1
    <3>2. CASE s \in {"new", "writeback"}
      <4>1. entry' \in {entry} \cup {[entry EXCEPT ![n] = Given(p, n)]}
        BY <1>3, <3>2 DEF Fail, Stored
      <4> QED BY <3>2, <4>1
    <3> QED BY <1>1, <1>6, <3>1, <3>2
  <2>4. /\ entry' \in [Node -> Buffer \cup {NoEntry}]
        /\ \A m \in Node : m # n => entry'[m] = entry[m]
        /\ EntrySound(n)'
    <3>1. entry \in [Node -> Buffer \cup {NoEntry}]
      BY <1>3 DEF TypeOK
    <3>2. CASE entry' = entry
      BY <1>2, <1>3, <3>1, <3>2 DEF NodeSound, EntrySound, Present
    <3>3. CASE entry' = [entry EXCEPT ![n] = NoEntry]
      BY <3>1, <3>3 DEF EntrySound, Present
    <3>4. CASE s \in {"new", "writeback"} /\ entry' = [entry EXCEPT ![n] = Given(p, n)]
      <4>1. /\ Given(p, n) \in Buffer /\ Given(p, n).head = Given(p, n).data
            /\ Given(p, n).data \in After(act[p].op, act[p].x, act[p].may)
        BY <1>3, <3>4, GivenSound
      <4>2. Given(p, n).data \in may[n]
        BY <1>3, <2>1, <4>1, WrittenFits
      <4> QED BY <1>2, <3>1, <3>4, <4>1, <4>2 DEF EntrySound
    <3> QED BY <2>3, <3>2, <3>3, <3>4
  <2>5. lock' = (IF lock = p THEN Nobody ELSE lock)
    BY <1>1, <1>2, <1>3 DEF LockSound
  <2> QED BY <1>2, <1>3, <1>4, <2>1, <2>2, <2>4, <2>5, CutKeeps
<1> QED BY <1>5, <1>6

\* A process dies: what it was writing is marked, and its lock is free again.
LEMMA DieKeeps ==
    ASSUME ClientInv, NEW p \in Process, Die(p)
    PROVE  ClientInv'
<1>1. /\ Busy(p) /\ act' = [act EXCEPT ![p] = Dead]
      /\ lock' = (IF lock = p THEN Nobody ELSE lock)
      /\ hurt' = (IF act[p].step \in Half THEN hurt \cup {act[p].node} ELSE hurt)
      /\ UNCHANGED <<mapped, entry, cache, calls, may>>
  BY DEF Die
<1>2. /\ TypeOK /\ StaticInv /\ LockSound /\ StepSound(p) /\ act[p] \in Call
      /\ act[p].node \in Node /\ act[p].op \in Operation /\ act[p].step \in Step
  <2>1. act[p] \in Call
    BY <1>1, BusyTyped DEF ClientInv, StaticInv
  <2> QED BY <2>1 DEF ClientInv, StaticInv, CallSound, Call
<1>3. Over(p) /\ act' \in Acts
  BY <1>1, <1>2, EndsOver
<1>4. CASE act[p].step \in Half
  <2>1. act[p].op \in Writes
    BY <1>1, <1>2, <1>4 DEF StepSound, Half, Operation, Writes
  <2>2. PICK n \in Node : act[p].node = n
    BY <1>2
  <2>3. hurt' = hurt \cup {n}
    BY <1>1, <1>4, <2>2
  <2>4. EntrySound(n)'
    <3>1. EntrySound(n)
      BY DEF ClientInv, NodeSound
    <3> QED BY <1>1, <3>1 DEF EntrySound, Present
  <2>5. entry \in [Node -> Buffer \cup {NoEntry}]
    BY <1>2 DEF TypeOK
  <2> QED BY <1>1, <1>3, <2>1, <2>2, <2>3, <2>4, <2>5, CutKeeps
<1>5. CASE act[p].step \notin Half
  <2>1. act[p].step \in {"get", "lock", "head", "data"}
    BY <1>2, <1>5 DEF Half, Step
  <2>2. lock' = lock /\ hurt' = hurt
    BY <1>1, <1>2, <1>5, <2>1 DEF LockSound
  <2> QED BY <1>1, <1>3, <2>1, <2>2, StillOver
<1> QED BY <1>4, <1>5

----------------------------------------------------------------------------
(* The theorems.                                                           *)

\* The initial states are sound.
LEMMA InitSound ==
    ASSUME Init
    PROVE  ClientInv
<1> DEFINE first(n) == IF n \in Container THEN {} ELSE {First}
<1>1. /\ mapped \in BOOLEAN /\ lock = Nobody /\ calls = MaxCalls /\ hurt = {}
      /\ entry = [n \in Node |-> Filled(first(n))]
      /\ may = [n \in Node |-> {first(n)}]
      /\ cache = [p \in Process |-> [n \in Node |-> NoEntry]]
      /\ act = [p \in Process |-> Idle]
  BY DEF Init
<1>2. ASSUME NEW n \in Node PROVE first(n) \in Content /\ Filled(first(n)) \in Buffer
  BY Names DEF Content, Filled, Buffer
<1>3. \A n \in Container : n \in Node /\ first(n) = {}
  BY Names
<1>4. \A n \in Node : n \notin Container => first(n) = {First}
  OBVIOUS
<1> HIDE DEF first
<1>5. TypeOK
  <2>1. entry \in [Node -> Buffer \cup {NoEntry}] /\ may \in [Node -> SUBSET Content]
    BY <1>1, <1>2
  <2>2. calls \in 0 .. MaxCalls
    BY <1>1, SizeAssumption
  <2>3. act \in Acts
    BY <1>1 DEF Acts
  <2> QED BY <1>1, <2>1, <2>2, <2>3 DEF TypeOK, Acts, Call
<1>6. \A p \in Process : ~Busy(p)
  BY <1>1 DEF Busy, Idle
<1>7. StaticInv
  BY <1>1, <1>3, <1>5, <1>6 DEF StaticInv, KindSound, CallerSound
<1>8. LockSound
  BY <1>1, Names DEF LockSound, Idle
<1>9. \A p \in Process : CallSound(p)
  BY <1>6 DEF CallSound, StepSound, PointerSound, CopySound, FoundSound
<1>10. ASSUME NEW n \in Node PROVE NodeSound(n)
  <2>1. entry[n] = Filled(first(n)) /\ entry[n] # NoEntry /\ may[n] = {first(n)}
    BY <1>1, <1>2, Names
  <2>2. entry[n].head = first(n) /\ entry[n].data = first(n)
    BY <2>1 DEF Filled
  <2>3. Owner[n] = Nobody => first(n) = {First} /\ First \in Value
    BY <1>4, Names
  <2> QED
    BY <2>1, <2>2, <2>3 DEF NodeSound, EntrySound, CommonSound, WholeAt, MissingAt, Present
<1> QED BY <1>7, <1>8, <1>9, <1>10 DEF ClientInv

\* Nothing changes.
LEMMA StutterKeeps ==
    ASSUME ClientInv, UNCHANGED vars
    PROVE  ClientInv'
<1>1. UNCHANGED <<mapped, entry, cache, lock, calls, act, may, hurt>>
  BY DEF vars
<1>2. \A p \in Process : Busy(p)' <=> Busy(p)
  BY <1>1 DEF Busy
<1>3. StaticInv'
  <2>1. TypeOK' /\ KindSound'
    BY <1>1 DEF ClientInv, StaticInv, TypeOK, KindSound
  <2>2. ASSUME NEW p \in Process PROVE CallerSound(p)'
    <3>1. CallerSound(p)
      BY DEF ClientInv, StaticInv
    <3> QED BY <1>1, <3>1 DEF CallerSound, Busy, Calls, MayCall
  <2> QED BY <2>1, <2>2 DEF StaticInv
<1>4. LockSound'
  BY <1>1 DEF ClientInv, LockSound
<1>5. ASSUME NEW p \in Process PROVE CallSound(p)'
  <2>1. CallSound(p)
    BY DEF ClientInv
  <2>2. StepSound(p)' /\ PointerSound(p)'
    BY <1>1, <2>1 DEF CallSound, StepSound, PointerSound, Busy, Present
  <2>3. CopySound(p)' /\ FoundSound(p)'
    BY <1>1, <2>1 DEF CallSound, CopySound, FoundSound, Busy, Present
  <2> QED BY <2>2, <2>3 DEF CallSound
<1>6. ASSUME NEW n \in Node PROVE NodeSound(n)'
  <2>1. NodeSound(n)
    BY DEF ClientInv
  <2>2. Writers(n)' = Writers(n)
    BY <1>1 DEF Writers, Calls, Busy
  <2>3. EntrySound(n)' /\ CommonSound(n)'
    BY <1>1, <2>1 DEF NodeSound, EntrySound, CommonSound, Present
  <2>4. WholeAt(n)' /\ MissingAt(n)'
    BY <1>1, <2>1, <2>2 DEF NodeSound, WholeAt, MissingAt, Present
  <2> QED BY <2>3, <2>4 DEF NodeSound
<1> QED BY <1>3, <1>4, <1>5, <1>6 DEF ClientInv

\* Every step keeps the invariant.
LEMMA NextSound ==
    ASSUME ClientInv, [Next]_vars
    PROVE  ClientInv'
<1>1. CASE UNCHANGED vars
  BY <1>1, StutterKeeps
<1>2. ASSUME NEW p \in Process, NEW op \in Operation, NEW n \in Node, NEW x \in Value \cup Item,
             Begin(p, op, n, x)
      PROVE  ClientInv'
  BY <1>2, BeginKeeps
<1>3. ASSUME NEW p \in Process, Proceed(p)
      PROVE  ClientInv'
  <2>1. PICK n \in Node :
            \/ GetPointer(p, n)
            \/ GetCopy(p, n)
            \/ Lock(p, n)
            \/ WriteHead(p, n)
            \/ WriteData(p, n)
            \/ Unlock(p, n)
            \/ Insert(p, n)
            \/ Remove(p, n)
            \/ Store(p, n)
            \/ Del(p, n)
            \/ Set(p, n)
            \/ ReadHead(p, n)
            \/ ReadData(p, n)
    BY <1>3 DEF Proceed
  <2>2. CASE GetPointer(p, n)
    BY <2>2, GetPointerKeeps
  <2>3. CASE GetCopy(p, n)
    BY <2>3, GetCopyKeeps
  <2>4. CASE Lock(p, n)
    BY <2>4, LockKeeps
  <2>5. CASE WriteHead(p, n)
    BY <2>5, WriteHeadKeeps
  <2>6. CASE WriteData(p, n)
    BY <2>6, WriteDataKeeps
  <2>7. CASE Unlock(p, n)
    BY <2>7, UnlockKeeps
  <2>8. CASE Insert(p, n)
    BY <2>8, InsertKeeps
  <2>9. CASE Remove(p, n)
    BY <2>9, RemoveKeeps
  <2>10. CASE Store(p, n)
    BY <2>10, StoreKeeps
  <2>11. CASE Del(p, n)
    BY <2>11, DelKeeps
  <2>12. CASE Set(p, n)
    BY <2>12, SetKeeps
  <2>13. CASE ReadHead(p, n)
    BY <2>13, ReadHeadKeeps
  <2>14. CASE ReadData(p, n)
    BY <2>14, ReadDataKeeps
  <2> QED
    BY <2>1, <2>2, <2>3, <2>4, <2>5, <2>6, <2>7, <2>8, <2>9, <2>10, <2>11, <2>12, <2>13, <2>14
<1>4. ASSUME NEW p \in Process, NEW n \in Node, Fail(p, n)
      PROVE  ClientInv'
  BY <1>4, FailKeeps
<1>5. ASSUME NEW p \in Process, Die(p)
      PROVE  ClientInv'
  BY <1>5, DieKeeps
<1>6. CASE Next
  BY <1>2, <1>3, <1>4, <1>5, <1>6 DEF Next
<1> QED BY <1>1, <1>6

\* The inductive invariant: where each call can be on each kind of storage, who holds the
\* lock, what a pointer or a copy leads to, and what a node may hold by the calls made.
THEOREM Invariance == Spec => []ClientInv
<1>1. Init => ClientInv
  BY InitSound
<1>2. ClientInv /\ [Next]_vars => ClientInv'
  BY NextSound
<1> QED BY <1>1, <1>2, PTL DEF Spec

\* Entries are whole buffers and calls are at their steps, with any number of processes.
THEOREM TypeCorrect == Spec => []TypeOK
<1>1. ClientInv => TypeOK
  BY DEF ClientInv, StaticInv
<1> QED BY <1>1, Invariance, PTL

\* Nobody but the process that holds the lock, or one that was cut off, leaves the header
\* and the data of an entry apart (set_data(), hdc.hpp:580).
THEOREM WholeCorrect == Spec => []EntriesWhole
<1>1. ClientInv => EntriesWhole
  BY DEF ClientInv, NodeSound, WholeAt, EntriesWhole
<1> QED BY <1>1, Invariance, PTL

\* No update of a node is lost under the rule for the clients.
THEOREM StoredCorrect == Spec => []HoldsLastStored
<1>1. ClientInv => HoldsLastStored
  BY DEF ClientInv, NodeSound, EntrySound, HoldsLastStored
<1> QED BY <1>1, Invariance, PTL

\* The entry of a node is missing only in the gap of set_string() and of the set() of
\* redis, or after a call was cut off.
THEOREM MissingCorrect == Spec => []MissingOnlyInRewrite
<1>1. ClientInv => MissingOnlyInRewrite
  BY DEF ClientInv, NodeSound, MissingAt, MissingOnlyInRewrite
<1> QED BY <1>1, Invariance, PTL

\* What a reader finds is never older than its call, nor half of it from redis.
THEOREM ReadCorrect == Spec => ReadsRecent
<1>1. ASSUME ClientInv, NEW p \in Process, NEW n \in Node, ReadData(p, n)
      PROVE  LET b == InHand(p, n)
             IN  /\ b.data \in act[p].may
                 /\ IF mapped THEN act[p].head \in act[p].may ELSE b.head = b.data
  <2>1. At(p, "data", n)
    BY <1>1 DEF ReadData
  <2>2. /\ Busy(p) /\ act[p].step = "data" /\ act[p].node = n /\ act[p].op \in Operation
        /\ NodeSound(n) /\ StaticInv
        /\ StepSound(p) /\ PointerSound(p) /\ CopySound(p) /\ FoundSound(p)
    BY <1>1, <2>1, AtSound DEF Step
  <2>3. CASE mapped
    <3>1. act[p].op = "read" /\ Present(n)
      BY <2>2, <2>3 DEF StepSound, PointerSound, Operation
    <3>2. CallerSound(p)
      BY <2>2 DEF StaticInv
    <3>3. entry[n].data \in act[p].may
      BY <2>2, <3>1, <3>2 DEF NodeSound, EntrySound, CallerSound
    <3> QED BY <2>2, <2>3, <3>3 DEF FoundSound, InHand
  <2>4. CASE ~mapped
    BY <2>2, <2>4 DEF CopySound, InHand
  <2> QED BY <2>3, <2>4
<1>2. ClientInv /\ [Next]_vars =>
        [\A p \in Process, n \in Node :
            LET b == InHand(p, n)
            IN  ReadData(p, n) =>
                    /\ b.data \in act[p].may
                    /\ IF mapped THEN act[p].head \in act[p].may ELSE b.head = b.data]_vars
  BY <1>1
<1> QED BY <1>2, Invariance, PTL DEF Spec, ReadsRecent
=============================================================================
