------------------------ MODULE HDCNodeBuffer_proofs ------------------------
(***************************************************************************)
(* Proofs about the container of a node in its buffer, for every set of    *)
(* keys and addresses, every size of nodes, records and heaps that the     *)
(* assumptions allow, and every bound.                                     *)
(*                                                                         *)
(* The inductive invariant BufferInv says of the entry that a node with    *)
(* children has a buffer of the default size at least, and of the call in  *)
(* progress at which step it may be in which storage, that it has grown    *)
(* the buffer once at most and has room after that, and how the records it *)
(* is working on differ from those of the entry.  From it follows that the *)
(* buffer implements the container of NodeContainer, and with NameInv that *)
(* the records of a STRUCT name nodes that are there.                      *)
(***************************************************************************)
EXTENDS HDCNodeBuffer, SequenceLemmas

\* A node with children has a buffer of some size, and one without has no records.
Sized(b) == b.type # "EMPTY" /\ b.size >= NodeSize
EntrySound == Sized(entry) \/ (entry.type = "EMPTY" /\ entry.kids = <<>>)

Adds == call.op \in {"add", "insert"}

\* Where a call can be.
StepSound ==
    /\ call.step \in {"typed", "try"} => Adds /\ call.at \in 1..(Len(call.target.kids) + 1)
    /\ call.step = "erase" => ~Adds /\ call.at \in 1..Len(call.target.kids)
    /\ call.step \in {"typed", "set"} => ~mapped

\* The buffers of a call have room, and at once after the buffer has grown.
RoomSound ==
    /\ Sized(call.buffer) /\ Sized(call.target)
    /\ call.tries \in {0, 1}
    /\ call.tries = 1 => Adds /\ call.step \in {"try", "write", "set"}
    /\ call.op = "add" /\ call.freed => call.tries = 1
    /\ call.tries = 1 /\ call.step = "try" => call.target.free >= Enough /\ ~Tight

\* The entry is there until the call removes it.
EntryThere == has <=> call.tries = 0 /\ call.step \notin {"typed", "set"}

\* The records that a call can make of those it finds.
Result(kids) ==
    IF Adds THEN {InsertAt(kids, i, call.rec) : i \in 1..(Len(kids) + 1)}
    ELSE IF call.op = "delete" THEN {RemoveAt(kids, i) : i \in 1..Len(kids)}
    ELSE {kids} \cup {[kids EXCEPT ![i].addr = call.rec.addr] : i \in 1..Len(kids)}

\* In which of the buffers the records are those of the entry, and in which they are
\* the new ones.
KidsSound ==
    /\ InEntry => call.target = entry
    /\ call.step \in {"typed", "try", "erase"} =>
        call.buffer.kids = entry.kids /\ call.target.kids = entry.kids
    /\ call.step = "write" /\ ~InEntry =>
        call.buffer.kids = entry.kids /\ call.target.kids \in Result(entry.kids)
    /\ call.step = "set" => call.buffer.kids \in Result(entry.kids) \cup {entry.kids}

\* The record that add_child_single() adds is in what it will store.
Holds(b) == \E i \in DOMAIN b.kids : b.kids[i] = call.rec
RecordSound ==
    call.op = "add" =>
        /\ call.step = "write" => Holds(call.target)
        /\ call.step = "set" => Holds(call.buffer)

\* Which of the buffers have their number of records in shape[0].
Even(b) == b.len = Len(b.kids)
LengthSound ==
    ~(mapped /\ crashed) =>
        /\ Even(call.buffer)
        /\ call.step # "set" /\ (call.step = "write" => call.op = "link") => Even(call.target)

CallSound ==
    /\ StepSound /\ RoomSound /\ EntryThere
    /\ KidsSound /\ RecordSound /\ LengthSound

BufferInv ==
    /\ TypeOK /\ EntrySound /\ HeaderFollowsContainer
    /\ Idle => has \/ crashed \/ spoiled
    /\ ~Idle => ~spoiled /\ CallSound

----------------------------------------------------------------------------
(* Buffers: what each change leaves alone.                                  *)

LEMMA LengthBound == \A k \in Selector : LengthOf(k) \in 0..1024
BY KeysAssumption, SizesAssumption DEF Selector, LengthOf

LEMMA RoomIsNat == \A k \in Selector : 4 * LengthOf(k) \in Nat
<1> SUFFICES ASSUME NEW k \in Selector PROVE 4 * LengthOf(k) \in Nat
    OBVIOUS
<1>1. LengthOf(k) \in 0..1024
    BY LengthBound
<1> DEFINE x == LengthOf(k)
<1> HIDE DEF x
<1>2. x \in 0..1024
    BY <1>1 DEF x
<1>3. 4 * x \in Nat
    BY <1>2
<1> QED
    BY <1>3 DEF x

\* What a record costs is bounded, and covered by Enough.
LEMMA CostBound ==
    ASSUME NEW k \in Selector
    PROVE  LengthOf(k) \in 0..1024 /\ CostOf(k) \in Nat /\ CostOf(k) <= Enough
<1>1. LengthOf(k) \in 0..1024
    BY LengthBound
<1> QED
    BY <1>1, SizesAssumption, EnoughAssumption, SMTT(30) DEF CostOf

LEMMA BufferFields ==
    ASSUME NEW b \in Buffer
    PROVE  /\ b.type \in {"EMPTY", "STRUCT", "LIST"} /\ b.len \in Nat
           /\ b.kids \in Seq(Record) /\ b.size \in Nat /\ b.free \in Nat
BY DEF Buffer

\* A node that set_type() has made is sound and has no records.
LEMMA TypedSound ==
    ASSUME NEW type \in {"STRUCT", "LIST"}
    PROVE  /\ Typed(type) \in Buffer /\ Sized(Typed(type)) /\ Even(Typed(type))
           /\ Typed(type).kids = <<>> /\ Typed(type).type = type
<1>1. NodeSize \in Nat /\ NodeSize - HeaderSize - Overhead \in Nat
    BY SizesAssumption
<1>2. Typed(type) \in Buffer
    BY <1>1 DEF Typed, Buffer
<1>3. Typed(type).kids = <<>> /\ Typed(type).type = type /\ Typed(type).size = NodeSize
      /\ Typed(type).len = 0
    BY DEF Typed
<1> QED
    BY <1>1, <1>2, <1>3 DEF Sized, Even

LEMMA PlacedFields ==
    ASSUME NEW b \in Buffer, NEW r \in Record, NEW i \in 1..(Len(b.kids) + 1),
           Fits(b, r.key)
    PROVE  /\ Placed(b, i, r) \in Buffer
           /\ Placed(b, i, r).kids = InsertAt(b.kids, i, r)
           /\ Placed(b, i, r).type = b.type /\ Placed(b, i, r).size = b.size
<1> DEFINE k == InsertAt(b.kids, i, r)
           f == b.free - CostOf(r.key)
<1>1. k \in Seq(Record)
    BY InsertAtElements, BufferFields
<1>2. f \in Nat
    BY CostBound, BufferFields DEF Fits, Record
<1>3. Placed(b, i, r) = [b EXCEPT !.kids = k, !.free = f]
    BY DEF Placed
<1> HIDE DEF k, f
<1>4. /\ [b EXCEPT !.kids = k, !.free = f] \in Buffer
      /\ [b EXCEPT !.kids = k, !.free = f].kids = k
      /\ [b EXCEPT !.kids = k, !.free = f].type = b.type
      /\ [b EXCEPT !.kids = k, !.free = f].size = b.size
    BY <1>1, <1>2 DEF Buffer
<1>5. k = InsertAt(b.kids, i, r)
    BY DEF k
<1> QED
    BY <1>3, <1>4, <1>5

LEMMA ErasedFields ==
    ASSUME NEW b \in Buffer, NEW i \in 1..Len(b.kids)
    PROVE  /\ Erased(b, i) \in Buffer
           /\ Erased(b, i).kids = RemoveAt(b.kids, i)
           /\ Erased(b, i).type = b.type /\ Erased(b, i).size = b.size
<1> DEFINE k == RemoveAt(b.kids, i)
           f == b.free + CostOf(b.kids[i].key)
<1>1. k \in Seq(Record)
    BY RemoveAtSeq, BufferFields
<1>2. b.kids[i].key \in Selector
  <2>1. b.kids \in Seq(Record) BY BufferFields
  <2>2. b.kids[i] \in Record BY <2>1, ElementOfSeq
  <2> QED BY <2>2 DEF Record
<1>3. f \in Nat
    BY <1>2, CostBound, BufferFields
<1>4. Erased(b, i) = [b EXCEPT !.kids = k, !.free = f]
    BY DEF Erased
<1> HIDE DEF k, f
<1>5. /\ [b EXCEPT !.kids = k, !.free = f] \in Buffer
      /\ [b EXCEPT !.kids = k, !.free = f].kids = k
      /\ [b EXCEPT !.kids = k, !.free = f].type = b.type
      /\ [b EXCEPT !.kids = k, !.free = f].size = b.size
    BY <1>1, <1>3 DEF Buffer
<1>6. k = RemoveAt(b.kids, i)
    BY DEF k
<1> QED
    BY <1>4, <1>5, <1>6

LEMMA RelinkedFields ==
    ASSUME NEW b \in Buffer, NEW i \in 1..Len(b.kids), NEW a \in Address
    PROVE  /\ Relinked(b, i, a) \in Buffer
           /\ Relinked(b, i, a).kids = [b.kids EXCEPT ![i].addr = a]
           /\ Relinked(b, i, a).type = b.type /\ Relinked(b, i, a).size = b.size
           /\ Relinked(b, i, a).len = b.len
           /\ Len(Relinked(b, i, a).kids) = Len(b.kids)
<1> DEFINE r == [b.kids[i] EXCEPT !.addr = a]
           k == [b.kids EXCEPT ![i] = r]
<1>1. b.kids \in Seq(Record) /\ b.kids[i] \in Record
    BY BufferFields, ElementOfSeq
<1>2. r \in Record
    BY <1>1 DEF Record
<1>3. Relinked(b, i, a) = [b EXCEPT !.kids = k] /\ k = [b.kids EXCEPT ![i].addr = a]
    BY DEF Relinked
<1> HIDE DEF r
<1>4. k \in Seq(Record) /\ Len(k) = Len(b.kids)
    BY <1>1, <1>2, ExceptSeq
<1> HIDE DEF k
<1>5. [b EXCEPT !.kids = k] \in Buffer
    BY <1>4 DEF Buffer
<1>6. LET d == [b EXCEPT !.kids = k]
      IN  d.kids = k /\ d.type = b.type /\ d.size = b.size /\ d.len = b.len
    BY DEF Buffer
<1> QED
    BY <1>3, <1>4, <1>5, <1>6

LEMMA CountedFields ==
    ASSUME NEW b \in Buffer
    PROVE  /\ Counted(b) \in Buffer /\ Even(Counted(b))
           /\ Counted(b).kids = b.kids /\ Counted(b).type = b.type
           /\ Counted(b).size = b.size
<1>1. Len(b.kids) \in Nat
    BY BufferFields, LenProperties
<1> QED
    BY <1>1 DEF Counted, Even, Buffer

LEMMA GrownFields ==
    ASSUME NEW b \in Buffer, NEW extra \in Nat
    PROVE  /\ Grown(b, extra) \in Buffer
           /\ Grown(b, extra).kids = b.kids /\ Grown(b, extra).type = b.type
           /\ Grown(b, extra).len = b.len
           /\ Grown(b, extra).size = b.size + extra
           /\ Grown(b, extra).free = b.free + extra
<1>1. b.size + extra \in Nat /\ b.free + extra \in Nat
    BY BufferFields
<1> QED
    BY <1>1 DEF Grown, Buffer

----------------------------------------------------------------------------
(* Calls: how they begin, change and end.                                   *)

LEMMA BusyCall ==
    ASSUME TypeOK, ~Idle
    PROVE  /\ call \in CallRecord
           /\ call.step \in {"typed", "try", "erase", "write", "set"}
           /\ call.op \in {"add", "insert", "delete", "link"}
           /\ call.at \in Nat /\ call.rec \in Record /\ call.tries \in Nat
           /\ call.buffer \in Buffer /\ call.target \in Buffer /\ call.freed \in BOOLEAN
<1>1. \A how : Ended(how).step = "idle"
    BY DEF Ended
<1>2. call \in CallRecord
    BY <1>1 DEF TypeOK, Idle
<1> QED
    BY <1>2 DEF CallRecord

LEMMA CallEnds ==
    ASSUME NEW how \in {"returned", "threw", "crashed"}, call' = Ended(how)
    PROVE  Idle' /\ call' \in {Ended(h) : h \in {"returned", "threw", "crashed"}}
BY DEF Idle, Ended

\* A call that begins with the buffer b is sound if that holds the records of the entry.
LEMMA CallBegins ==
    ASSUME NEW s \in {"typed", "try", "erase"}, NEW op \in {"add", "insert", "delete", "link"},
           NEW at \in Nat, NEW rec \in Record, NEW b \in Buffer, NEW freed \in BOOLEAN,
           call' = NewCall(s, op, at, rec, b, freed), op = "add" => ~freed,
           IF s = "erase" THEN op \in {"delete", "link"} /\ at \in 1..Len(b.kids)
                          ELSE op \in {"add", "insert"} /\ at \in 1..(Len(b.kids) + 1),
           s = "typed" => ~mapped',
           Sized(b), b.kids = entry'.kids, mapped' => b = entry',
           has' <=> s # "typed",
           ~(mapped' /\ crashed') => Even(b)
    PROVE  ~Idle' /\ call' \in CallRecord /\ CallSound'
<1>1. /\ call' \in CallRecord
      /\ call'.step = s /\ call'.op = op /\ call'.at = at /\ call'.rec = rec
      /\ call'.buffer = b /\ call'.target = b /\ call'.tries = 0 /\ call'.freed = freed
    BY DEF NewCall, CallRecord
<1>2. ~Idle'
    BY <1>1 DEF Idle
<1>3. StepSound'
    BY <1>1 DEF StepSound, Adds
<1>4. RoomSound'
    BY <1>1 DEF RoomSound, Sized
<1>5. EntryThere'
    BY <1>1 DEF EntryThere
<1>6. KidsSound'
    BY <1>1 DEF KidsSound, InEntry
<1>7. RecordSound'
    BY <1>1 DEF RecordSound
<1>8. LengthSound'
    BY <1>1 DEF LengthSound, Even
<1> QED
    BY <1>1, <1>2, <1>3, <1>4, <1>5, <1>6, <1>7, <1>8 DEF CallSound

\* The container of the target is changed.
LEMMA CallChanges ==
    ASSUME BufferInv, ~Idle, NEW b \in Buffer, Change(b, "write"),
           UNCHANGED <<mapped, has, spoiled, live, crashed>>,
           call.step \in {"try", "erase"},
           Sized(b), b.kids \in Result(entry.kids),
           call.op = "add" => Holds(b),
           call.op = "link" /\ Even(call.target) => Even(b)
    PROVE  BufferInv'
<1>1. /\ call \in CallRecord /\ call.rec \in Record /\ call.buffer \in Buffer
      /\ call.target \in Buffer
    BY BusyCall DEF BufferInv
<1>2. call' = [call EXCEPT !.target = b, !.step = "write"]
    BY DEF Change
<1>3. /\ call' \in CallRecord
      /\ call'.step = "write" /\ call'.op = call.op /\ call'.at = call.at
      /\ call'.rec = call.rec /\ call'.buffer = call.buffer /\ call'.target = b
      /\ call'.tries = call.tries /\ call'.freed = call.freed
    BY <1>1, <1>2 DEF CallRecord
<1>4. entry' = IF InEntry THEN b ELSE entry
    BY DEF Change
<1>5. mapped' = mapped /\ has' = has /\ live' = live /\ crashed' = crashed /\ spoiled' = spoiled
    OBVIOUS
<1>6. StepSound /\ RoomSound /\ EntryThere /\ KidsSound /\ LengthSound
    BY DEF BufferInv, CallSound
<1>7. ~Idle'
    BY <1>3 DEF Idle
<1>8. TypeOK'
    BY <1>3, <1>4, <1>5 DEF BufferInv, TypeOK
<1>9. EntrySound'
    BY <1>4 DEF BufferInv, EntrySound, Sized
<1>10. InEntry' = InEntry
    BY <1>3, <1>5 DEF InEntry
<1>11. HeaderFollowsContainer'
  <2>1. CASE InEntry
    BY <2>1, <1>3, <1>5 DEF InEntry, HeaderFollowsContainer
  <2>2. CASE ~InEntry
    BY <2>2, <1>3, <1>4, <1>5 DEF BufferInv, HeaderFollowsContainer
  <2> QED BY <2>1, <2>2
<1>12. StepSound'
    BY <1>3 DEF StepSound
<1>13. RoomSound'
    BY <1>3, <1>6 DEF RoomSound, Adds, Sized
<1>14. EntryThere'
    BY <1>3, <1>5, <1>6 DEF EntryThere
<1>15. KidsSound'
  <2>1. CASE InEntry
    BY <2>1, <1>3, <1>4, <1>10 DEF KidsSound
  <2>2. CASE ~InEntry
    <3>1. entry' = entry /\ call.buffer.kids = entry.kids
      BY <2>2, <1>4, <1>6 DEF KidsSound
    <3>2. Result(entry.kids)' = Result(entry.kids)
      BY <3>1, <1>3 DEF Result, Adds
    <3> QED BY <2>2, <3>1, <3>2, <1>3, <1>10 DEF KidsSound
  <2> QED BY <2>1, <2>2
<1>16. RecordSound'
    BY <1>3 DEF RecordSound, Holds
<1>17. LengthSound'
    BY <1>3, <1>5, <1>6 DEF LengthSound, Even
<1>18. CallSound'
    BY <1>12, <1>13, <1>14, <1>15, <1>16, <1>17 DEF CallSound
<1> QED
    BY <1>7, <1>8, <1>9, <1>11, <1>18 DEF BufferInv

----------------------------------------------------------------------------
(* The invariant, step by step.                                             *)

LEMMA EmptySound ==
    EmptyNode \in Buffer /\ Even(EmptyNode) /\ EmptyNode.type = "EMPTY" /\ EmptyNode.kids = <<>>
<1>1. HeaderSize \in Nat
    BY SizesAssumption
<1> QED
    BY <1>1 DEF EmptyNode, Buffer, Even

LEMMA InitInv == ASSUME Init PROVE BufferInv
<1>1. Idle /\ call \in {Ended(h) : h \in {"returned", "threw", "crashed"}}
    BY DEF Init, Idle, Ended
<1>2. TypeOK
    BY <1>1, EmptySound DEF Init, TypeOK
<1>3. EntrySound
    BY EmptySound DEF Init, EntrySound
<1>4. HeaderFollowsContainer
    BY EmptySound DEF Init, HeaderFollowsContainer, Even
<1> QED
    BY <1>1, <1>2, <1>3, <1>4 DEF Init, BufferInv

LEMMA BeginInStep ==
    ASSUME BufferInv, NEW type \in {"STRUCT", "LIST"}, NEW op \in {"add", "insert"},
           NEW at \in 1..(Len(entry.kids) + 1), NEW rec \in Record,
           BeginIn(type, op, at, rec)
    PROVE  BufferInv'
<1> DEFINE again == op = "insert" /\ CopyFreed
<1>1. /\ Idle /\ has /\ ~spoiled /\ entry.type \in {"EMPTY", type}
      /\ live' = live \cup {rec.addr} /\ again \in BOOLEAN /\ (op = "add" => ~again)
      /\ mapped' = mapped /\ crashed' = crashed /\ spoiled' = spoiled
    BY DEF BeginIn, Begin, CopyFreed
<1>2. TypeOK /\ EntrySound /\ HeaderFollowsContainer /\ entry \in Buffer
    BY DEF BufferInv, TypeOK
<1>3. ~(mapped /\ crashed) => Even(entry)
    BY <1>1, <1>2 DEF HeaderFollowsContainer, Idle, Even
<1>4. live' \subseteq Address
    BY <1>1, <1>2 DEF TypeOK, Record
<1>5. Len(entry.kids) \in Nat /\ at \in Nat
    BY <1>2, BufferFields, LenProperties
<1>6. CASE entry.type = type
  <2>1. call' = NewCall("try", op, at, rec, entry, again) /\ has' = has /\ entry' = entry
    BY <1>6 DEF BeginIn
  <2> HIDE DEF again
  <2>2. Sized(entry)
    BY <1>2, <1>6 DEF EntrySound
  <2>3. ~Idle' /\ call' \in CallRecord /\ CallSound'
    BY <2>1, <2>2, <1>1, <1>2, <1>3, <1>5, CallBegins
  <2>4. TypeOK'
    BY <2>1, <2>3, <1>1, <1>2, <1>4 DEF TypeOK
  <2>5. EntrySound'
    BY <2>1, <1>2 DEF EntrySound, Sized
  <2>6. HeaderFollowsContainer'
    BY <2>1, <1>1, <1>3 DEF HeaderFollowsContainer, Even
  <2> QED
    BY <1>1, <2>3, <2>4, <2>5, <2>6 DEF BufferInv
<1>7. CASE entry.type # type
  <2> DEFINE b == Typed(type)
  <2>1. /\ b \in Buffer /\ Sized(b) /\ Even(b) /\ b.kids = <<>>
    BY TypedSound
  <2> HIDE DEF b
  <2>2. entry.type = "EMPTY" /\ entry.kids = <<>>
    BY <1>1, <1>2, <1>7 DEF EntrySound, Sized
  <2>3. CASE mapped
    <3>1. call' = NewCall("try", op, at, rec, b, FALSE) /\ has' = has /\ entry' = b
      BY <1>7, <2>3 DEF BeginIn, b
    <3>2. at \in 1..(Len(b.kids) + 1)
      BY <2>1, <2>2
    <3>3. ~Idle' /\ call' \in CallRecord /\ CallSound'
      BY <3>1, <3>2, <2>1, <1>1, <1>5, CallBegins
    <3>4. TypeOK'
      BY <3>1, <3>3, <2>1, <1>1, <1>2, <1>4 DEF TypeOK
    <3>5. EntrySound'
      BY <3>1, <2>1 DEF EntrySound, Sized
    <3>6. HeaderFollowsContainer'
      BY <3>1, <2>1 DEF HeaderFollowsContainer, Even
    <3> QED
      BY <1>1, <3>3, <3>4, <3>5, <3>6 DEF BufferInv
  <2>4. CASE ~mapped
    <3>1. call' = NewCall("typed", op, at, rec, b, FALSE) /\ has' = FALSE /\ entry' = entry
      BY <1>7, <2>4 DEF BeginIn, b
    <3>2. at \in 1..(Len(b.kids) + 1) /\ b.kids = entry.kids
      BY <2>1, <2>2
    <3>3. ~Idle' /\ call' \in CallRecord /\ CallSound'
      BY <3>1, <3>2, <2>1, <2>4, <1>1, <1>5, CallBegins
    <3>4. TypeOK'
      BY <3>1, <3>3, <1>1, <1>2, <1>4 DEF TypeOK
    <3>5. EntrySound'
      BY <3>1, <1>2 DEF EntrySound, Sized
    <3>6. HeaderFollowsContainer'
      BY <3>1, <2>4, <1>1, <1>3 DEF HeaderFollowsContainer, Even
    <3> QED
      BY <1>1, <3>3, <3>4, <3>5, <3>6 DEF BufferInv
  <2> QED BY <2>3, <2>4
<1> QED BY <1>6, <1>7

LEMMA BeginAddStep ==
    ASSUME BufferInv, NEW key \in Key, NEW a \in Address, BeginAdd(key, a)
    PROVE  BufferInv'
<1>1. Len(entry.kids) \in Nat
    BY BufferFields, LenProperties DEF BufferInv, TypeOK
<1>2. [key |-> key, addr |-> a] \in Record
    BY DEF Record, Selector
<1>3. BeginIn("STRUCT", "add", Len(entry.kids) + 1, [key |-> key, addr |-> a])
    BY DEF BeginAdd
<1> QED BY <1>1, <1>2, <1>3, BeginInStep

LEMMA BeginInsertStep ==
    ASSUME BufferInv, NEW index \in 0..MaxLen, NEW a \in Address, BeginInsert(index, a)
    PROVE  BufferInv'
<1>1. Len(entry.kids) \in Nat /\ MaxLen \in Nat
    BY BufferFields, LenProperties, SizesAssumption DEF BufferInv, TypeOK
<1>2. [key |-> index, addr |-> a] \in Record
    BY DEF Record, Selector
<1>3. /\ BeginIn("LIST", "insert", index + 1, [key |-> index, addr |-> a])
      /\ index <= Len(entry.kids)
    BY DEF BeginInsert
<1>4. index + 1 \in 1..(Len(entry.kids) + 1)
    BY <1>1, <1>3
<1> QED BY <1>2, <1>3, <1>4, BeginInStep

LEMMA SetTypedStep == ASSUME BufferInv, SetTyped PROVE BufferInv'
<1>1. /\ call.step = "typed" /\ has' = TRUE /\ entry' = call.buffer
      /\ call' = [call EXCEPT !.step = "try"]
      /\ mapped' = mapped /\ live' = live /\ crashed' = crashed /\ spoiled' = spoiled
    BY DEF SetTyped
<1>2. ~Idle
    BY <1>1 DEF Idle
<1>3. /\ call \in CallRecord /\ call.buffer \in Buffer
      /\ TypeOK /\ StepSound /\ RoomSound /\ EntryThere /\ KidsSound /\ LengthSound
    BY <1>2, BusyCall DEF BufferInv, CallSound
<1>4. /\ call' \in CallRecord
      /\ call'.step = "try" /\ call'.op = call.op /\ call'.at = call.at
      /\ call'.rec = call.rec /\ call'.buffer = call.buffer /\ call'.target = call.target
      /\ call'.tries = call.tries /\ call'.freed = call.freed
    BY <1>1, <1>3 DEF CallRecord
<1>5. ~mapped /\ call.tries = 0
    BY <1>1, <1>3 DEF StepSound, RoomSound
<1>6. TypeOK'
    BY <1>1, <1>3, <1>4 DEF TypeOK
<1>7. EntrySound'
    BY <1>1, <1>3 DEF EntrySound, RoomSound, Sized
<1>8. HeaderFollowsContainer'
    BY <1>1, <1>3, <1>5 DEF HeaderFollowsContainer, LengthSound, Even
<1>9. ~Idle'
    BY <1>4 DEF Idle
<1>10. StepSound'
    BY <1>1, <1>3, <1>4 DEF StepSound, Adds
<1>11. RoomSound'
    BY <1>3, <1>4, <1>5 DEF RoomSound, Sized
<1>12. EntryThere'
    BY <1>1, <1>4, <1>5 DEF EntryThere
<1>13. KidsSound'
    BY <1>1, <1>3, <1>4, <1>5 DEF KidsSound, InEntry
<1>14. RecordSound'
    BY <1>4 DEF RecordSound
<1>15. LengthSound'
    BY <1>1, <1>3, <1>4 DEF LengthSound, Even
<1> QED
    BY <1>1, <1>2, <1>6, <1>7, <1>8, <1>9, <1>10, <1>11, <1>12, <1>13, <1>14, <1>15
    DEF BufferInv, CallSound

\* The call has what its step says; used for each step of a call.
LEMMA CallParts ==
    ASSUME BufferInv, ~Idle
    PROVE  /\ TypeOK /\ EntrySound /\ HeaderFollowsContainer
           /\ StepSound /\ RoomSound /\ EntryThere
           /\ KidsSound /\ RecordSound /\ LengthSound
BY DEF BufferInv, CallSound

\* A call changes the container of the target as it should.
Changes ==
    \E b \in Buffer :
        /\ ~Idle /\ call.step \in {"try", "erase"}
        /\ Change(b, "write") /\ UNCHANGED <<mapped, has, spoiled, live, crashed>>
        /\ Sized(b) /\ b.kids \in Result(entry.kids)
        /\ call.op = "add" => Holds(b)
        /\ call.op = "link" /\ Even(call.target) => Even(b)

LEMMA ChangesStep == ASSUME BufferInv, Changes PROVE BufferInv'
<1>1. PICK b \in Buffer :
        /\ ~Idle /\ call.step \in {"try", "erase"}
        /\ Change(b, "write") /\ UNCHANGED <<mapped, has, spoiled, live, crashed>>
        /\ Sized(b) /\ b.kids \in Result(entry.kids)
        /\ call.op = "add" => Holds(b)
        /\ call.op = "link" /\ Even(call.target) => Even(b)
    BY DEF Changes
<1> QED BY <1>1, CallChanges

LEMMA PlaceChanges == ASSUME BufferInv, Place PROVE Changes
<1> DEFINE b == Placed(call.target, call.at, call.rec)
<1>1. /\ call.step = "try" /\ Fits(call.target, call.rec.key) /\ Change(b, "write")
      /\ UNCHANGED <<mapped, has, spoiled, live, crashed>>
    BY DEF Place
<1>2. ~Idle
    BY <1>1 DEF Idle
<1>3. call.rec \in Record /\ call.target \in Buffer
    BY <1>2, BusyCall DEF BufferInv
<1>4. Adds /\ call.at \in 1..(Len(call.target.kids) + 1)
    BY <1>1, <1>2, CallParts DEF StepSound
<1>5. call.target.kids = entry.kids /\ Sized(call.target)
    BY <1>1, <1>2, CallParts DEF KidsSound, RoomSound
<1>6. /\ b \in Buffer /\ b.kids = InsertAt(call.target.kids, call.at, call.rec)
      /\ b.type = call.target.type /\ b.size = call.target.size
    BY <1>1, <1>3, <1>4, PlacedFields
<1> HIDE DEF b
<1>7. Sized(b)
    BY <1>5, <1>6 DEF Sized
<1>8. b.kids \in Result(entry.kids)
    BY <1>4, <1>5, <1>6 DEF Result
<1>9. Holds(b)
  <2>1. call.target.kids \in Seq(Record)
    BY <1>3, BufferFields
  <2>2. /\ b.kids \in Seq(Record) /\ Len(b.kids) = Len(call.target.kids) + 1
        /\ b.kids[call.at] = call.rec
    BY <2>1, <1>3, <1>4, <1>6, InsertAtElements
  <2>3. call.at \in DOMAIN b.kids
    BY <2>2, <1>4
  <2> QED BY <2>2, <2>3 DEF Holds
<1>10. call.op # "link"
    BY <1>4 DEF Adds
<1> QED
    BY <1>1, <1>2, <1>6, <1>7, <1>8, <1>9, <1>10 DEF Changes

\* A call that grows the buffer has not done so before, and need not do so again.
LEMMA GrowStep == ASSUME BufferInv, Grow PROVE BufferInv'
<1> DEFINE b == Grown(call.target, Extra)
           room == 4 * LengthOf(call.rec.key)
<1>1. /\ call.step = "try" /\ (Tight \/ call.target.free < Enough)
      /\ has' = FALSE /\ call' = [call EXCEPT !.target = b, !.tries = @ + 1, !.freed = TRUE]
      /\ mapped' = mapped /\ entry' = entry /\ live' = live /\ crashed' = crashed /\ spoiled' = spoiled
    BY DEF Grow
<1>2. ~Idle
    BY <1>1 DEF Idle
<1>3. /\ call \in CallRecord /\ call.rec \in Record /\ call.buffer \in Buffer
      /\ call.target \in Buffer
    BY <1>2, BusyCall DEF BufferInv
<1>4. /\ TypeOK /\ EntrySound /\ HeaderFollowsContainer /\ StepSound
      /\ RoomSound /\ KidsSound /\ LengthSound
    BY <1>2, CallParts
<1>5. call.tries = 0
  <2>1. call.target.free \in Nat /\ Enough \in Nat
    BY <1>3, BufferFields, SizesAssumption
  <2> QED BY <1>1, <1>4, <2>1 DEF RoomSound
<1>6. /\ call.target.size \in Nat /\ call.target.free \in Nat /\ call.target.size >= NodeSize
      /\ room \in Nat /\ Enough \in Nat /\ NodeSize \in Nat /\ Enough <= NodeSize
  <2>1. call.rec.key \in Selector
    BY <1>3 DEF Record
  <2>2. room \in Nat
    BY <2>1, RoomIsNat, Zenon
  <2>3. call.target.size \in Nat /\ call.target.free \in Nat
    BY <1>3, BufferFields
  <2>4. call.target.size >= NodeSize
    BY <1>4 DEF RoomSound, Sized
  <2>5. Enough \in Nat /\ NodeSize \in Nat /\ Enough <= NodeSize
    BY SizesAssumption, EnoughAssumption
  <2> QED
    BY <2>2, <2>3, <2>4, <2>5
<1>7. Extra \in Nat /\ Extra >= call.target.size /\ (call.op = "add" => Extra >= room)
  <2>1. Extra = IF call.op = "add" /\ room > call.target.size THEN room ELSE call.target.size
    BY DEF Extra
  <2> HIDE DEF room
  <2>2. CASE call.op = "add" /\ room > call.target.size
    BY <2>1, <2>2, <1>6
  <2>3. CASE ~(call.op = "add" /\ room > call.target.size)
    BY <2>1, <2>3, <1>6
  <2> QED BY <2>2, <2>3
<1>8. /\ b \in Buffer /\ b.kids = call.target.kids /\ b.type = call.target.type
      /\ b.len = call.target.len /\ b.size = call.target.size + Extra
      /\ b.free = call.target.free + Extra
    BY <1>3, <1>7, GrownFields
<1> HIDE DEF b
<1>9. b.size >= NodeSize /\ b.free >= Enough /\ (call.op = "add" => ~(b.free < room))
    BY <1>6, <1>7, <1>8
<1>10. /\ call' \in CallRecord
       /\ call'.step = "try" /\ call'.op = call.op /\ call'.at = call.at
       /\ call'.rec = call.rec /\ call'.buffer = call.buffer /\ call'.target = b
       /\ call'.tries = 1 /\ call'.freed = TRUE
  <2>1. call' = [call EXCEPT !.target = b, !.tries = call.tries + 1, !.freed = TRUE]
    BY <1>1
  <2>2. call.tries + 1 = 1
    BY <1>5
  <2>3. call' = [call EXCEPT !.target = b, !.tries = 1, !.freed = TRUE]
    BY <2>1, <2>2
  <2>4. 1 \in Nat /\ b \in Buffer
    BY <1>8
  <2> QED BY <2>3, <2>4, <1>1, <1>3 DEF CallRecord
<1>11. TypeOK'
    BY <1>1, <1>4, <1>10 DEF TypeOK
<1>12. EntrySound'
    BY <1>1, <1>4 DEF EntrySound, Sized
<1>13. HeaderFollowsContainer'
    BY <1>1, <1>4, <1>10 DEF HeaderFollowsContainer
<1>14. ~Idle'
    BY <1>10 DEF Idle
<1>15. StepSound'
    BY <1>1, <1>4, <1>8, <1>10 DEF StepSound, Adds
<1>16. ~Tight'
    BY <1>9, <1>10 DEF Tight
<1>17. RoomSound'
    BY <1>1, <1>4, <1>8, <1>9, <1>10, <1>16 DEF RoomSound, StepSound, Sized, Adds
<1>18. EntryThere'
    BY <1>1, <1>10 DEF EntryThere
<1>19. KidsSound'
    BY <1>1, <1>4, <1>8, <1>10 DEF KidsSound, InEntry
<1>20. RecordSound'
    BY <1>10 DEF RecordSound
<1>21. LengthSound'
    BY <1>1, <1>4, <1>8, <1>10 DEF LengthSound, Even
<1> QED
    BY <1>1, <1>2, <1>11, <1>12, <1>13, <1>14, <1>15, <1>17, <1>18, <1>19, <1>20, <1>21
    DEF BufferInv, CallSound

\* A call that ends without a change leaves the entry as it was.
LEMMA EndStep ==
    ASSUME BufferInv, NEW how \in {"returned", "threw", "crashed"}, call' = Ended(how),
           mapped' = mapped, entry' = entry, live' = live,
           has' = has, crashed' \in BOOLEAN, crashed => crashed', spoiled' = spoiled,
           has \/ crashed', call.step # "write" \/ crashed'
    PROVE  BufferInv'
<1>1. Idle' /\ call' \in {Ended(h) : h \in {"returned", "threw", "crashed"}}
    BY CallEnds
<1>2. TypeOK'
    BY <1>1 DEF BufferInv, TypeOK
<1>3. EntrySound'
    BY DEF BufferInv, EntrySound, Sized
<1>4. HeaderFollowsContainer'
    BY DEF BufferInv, HeaderFollowsContainer
<1> QED
    BY <1>1, <1>2, <1>3, <1>4 DEF BufferInv

LEMMA EscapeStep == ASSUME BufferInv, Escape PROVE BufferInv'
<1>1. /\ call.step \in {"try", "erase"} /\ call.target.free < Enough /\ call' = Ended("threw")
      /\ mapped' = mapped /\ has' = has /\ entry' = entry /\ live' = live
      /\ crashed' = crashed /\ spoiled' = spoiled
    BY DEF Escape
<1>2. ~Idle
    BY <1>1 DEF Idle
<1>3. call.target.free \in Nat /\ Enough \in Nat
    BY <1>2, BusyCall, BufferFields, SizesAssumption DEF BufferInv
<1>4. call.tries = 0
    BY <1>1, <1>2, <1>3, CallParts DEF RoomSound
<1>5. has
    BY <1>1, <1>2, <1>4, CallParts DEF EntryThere
<1>6. crashed' \in BOOLEAN
    BY <1>1 DEF BufferInv, TypeOK
<1> QED BY <1>1, <1>5, <1>6, EndStep

\* Of a spoiled entry the invariant says nothing.
LEMMA UseFreedStep == ASSUME BufferInv, UseFreed PROVE BufferInv'
<1>1. PICK how \in {"returned", "threw"} : call' = Ended(how)
    BY DEF UseFreed
<1>2. /\ has' \in BOOLEAN /\ spoiled' = TRUE
      /\ mapped' = mapped /\ entry' = entry /\ live' = live /\ crashed' = crashed
    BY DEF UseFreed
<1>3. Idle' /\ call' \in {Ended(h) : h \in {"returned", "threw", "crashed"}}
    BY <1>1, CallEnds
<1>4. TypeOK'
    BY <1>2, <1>3 DEF BufferInv, TypeOK
<1>5. EntrySound' /\ HeaderFollowsContainer'
    BY <1>2 DEF BufferInv, EntrySound, HeaderFollowsContainer, Sized
<1> QED
    BY <1>2, <1>3, <1>4, <1>5 DEF BufferInv

LEMMA CrashStep == ASSUME BufferInv, Crash PROVE BufferInv'
BY EndStep DEF Crash

LEMMA BeginDeleteStep ==
    ASSUME BufferInv, NEW i \in 1..MaxLen, NEW j \in 1..MaxLen, BeginDelete(i, j)
    PROVE  BufferInv'
<1>1. /\ Idle /\ has /\ ~spoiled /\ CopyFreed \in BOOLEAN /\ {i, j} \subseteq DOMAIN entry.kids
      /\ live' = live \ {entry.kids[i].addr}
      /\ call' = NewCall("erase", "delete", j, entry.kids[j], entry, CopyFreed)
      /\ mapped' = mapped /\ has' = has /\ entry' = entry /\ crashed' = crashed /\ spoiled' = spoiled
    BY DEF BeginDelete, Begin, CopyFreed
<1>2. TypeOK /\ EntrySound /\ HeaderFollowsContainer /\ entry \in Buffer
    BY DEF BufferInv, TypeOK
<1>3. entry.kids \in Seq(Record)
    BY <1>2, BufferFields
<1>4. j \in 1..Len(entry.kids) /\ entry.kids[j] \in Record /\ j \in Nat
    BY <1>1, <1>3, ElementOfSeq
<1>5. Sized(entry)
    BY <1>2, <1>3, <1>4 DEF EntrySound
<1>6. ~(mapped /\ crashed) => Even(entry)
    BY <1>1, <1>2 DEF HeaderFollowsContainer, Idle, Even
<1> DEFINE r == entry.kids[j]
<1> HIDE DEF r
<1>7. /\ call' = NewCall("erase", "delete", j, r, entry, CopyFreed) /\ r \in Record
    BY <1>1, <1>4 DEF r
<1>8. ~Idle' /\ call' \in CallRecord /\ CallSound'
    BY <1>1, <1>2, <1>4, <1>5, <1>6, <1>7, CallBegins
<1>9. TypeOK'
    BY <1>1, <1>2, <1>8 DEF TypeOK
<1>10. EntrySound'
    BY <1>1, <1>2 DEF EntrySound, Sized
<1>11. HeaderFollowsContainer'
    BY <1>1, <1>6 DEF HeaderFollowsContainer, Even
<1> QED BY <1>1, <1>8, <1>9, <1>10, <1>11 DEF BufferInv

LEMMA BeginLinkStep ==
    ASSUME BufferInv, NEW i \in 1..MaxLen, NEW a \in Address, BeginLink(i, a)
    PROVE  BufferInv'
<1>1. /\ Idle /\ has /\ ~spoiled /\ CopyFreed \in BOOLEAN
      /\ i \in DOMAIN entry.kids /\ live' = live \cup {a}
      /\ call' = NewCall("erase", "link", i, [entry.kids[i] EXCEPT !.addr = a], entry, CopyFreed)
      /\ mapped' = mapped /\ has' = has /\ entry' = entry /\ crashed' = crashed /\ spoiled' = spoiled
    BY DEF BeginLink, Begin, CopyFreed
<1>2. TypeOK /\ EntrySound /\ HeaderFollowsContainer /\ entry \in Buffer
    BY DEF BufferInv, TypeOK
<1>3. entry.kids \in Seq(Record)
    BY <1>2, BufferFields
<1>4. i \in 1..Len(entry.kids) /\ entry.kids[i] \in Record /\ i \in Nat
    BY <1>1, <1>3, ElementOfSeq
<1>5. Sized(entry)
    BY <1>2, <1>3, <1>4 DEF EntrySound
<1>6. ~(mapped /\ crashed) => Even(entry)
    BY <1>1, <1>2 DEF HeaderFollowsContainer, Idle, Even
<1> DEFINE r == [entry.kids[i] EXCEPT !.addr = a]
<1>7. /\ call' = NewCall("erase", "link", i, r, entry, CopyFreed) /\ r \in Record
    BY <1>1, <1>4 DEF Record
<1> HIDE DEF r
<1>8. ~Idle' /\ call' \in CallRecord /\ CallSound'
    BY <1>1, <1>2, <1>4, <1>5, <1>6, <1>7, CallBegins
<1>9. TypeOK'
    BY <1>1, <1>2, <1>8 DEF TypeOK
<1>10. EntrySound'
    BY <1>1, <1>2 DEF EntrySound, Sized
<1>11. HeaderFollowsContainer'
    BY <1>1, <1>6 DEF HeaderFollowsContainer, Even
<1> QED BY <1>1, <1>8, <1>9, <1>10, <1>11 DEF BufferInv

LEMMA EraseChanges == ASSUME BufferInv, Erase PROVE Changes
<1> DEFINE b == Erased(call.target, call.at)
<1>1. /\ call.step = "erase" /\ call.op = "delete" /\ Change(b, "write")
      /\ UNCHANGED <<mapped, has, spoiled, live, crashed>>
    BY DEF Erase
<1>2. ~Idle
    BY <1>1 DEF Idle
<1>3. call.target \in Buffer
    BY <1>2, BusyCall DEF BufferInv
<1>4. ~Adds /\ call.at \in 1..Len(call.target.kids)
    BY <1>1, <1>2, CallParts DEF StepSound
<1>5. call.target.kids = entry.kids /\ Sized(call.target)
    BY <1>1, <1>2, CallParts DEF KidsSound, RoomSound
<1>6. /\ b \in Buffer /\ b.kids = RemoveAt(call.target.kids, call.at)
      /\ b.type = call.target.type /\ b.size = call.target.size
    BY <1>3, <1>4, ErasedFields
<1> HIDE DEF b
<1>7. Sized(b)
    BY <1>5, <1>6 DEF Sized
<1>8. b.kids \in Result(entry.kids)
    BY <1>1, <1>4, <1>5, <1>6 DEF Result
<1> QED
    BY <1>1, <1>2, <1>6, <1>7, <1>8 DEF Changes

LEMMA LinkChanges == ASSUME BufferInv, Link PROVE Changes
<1> DEFINE b == Relinked(call.target, call.at, call.rec.addr)
<1>1. /\ call.step = "erase" /\ call.op = "link"
      /\ Change(b, "write") \/ Change(call.target, "write")
      /\ UNCHANGED <<mapped, has, spoiled, live, crashed>>
    BY DEF Link
<1>2. ~Idle
    BY <1>1 DEF Idle
<1>3. call.target \in Buffer /\ call.rec.addr \in Address
    BY <1>2, BusyCall DEF BufferInv, Record
<1>4. ~Adds /\ call.at \in 1..Len(call.target.kids)
    BY <1>1, <1>2, CallParts DEF StepSound
<1>5. call.target.kids = entry.kids /\ Sized(call.target)
    BY <1>1, <1>2, CallParts DEF KidsSound, RoomSound
<1>6. /\ b \in Buffer /\ b.kids = [call.target.kids EXCEPT ![call.at].addr = call.rec.addr]
      /\ b.type = call.target.type /\ b.size = call.target.size
      /\ b.len = call.target.len /\ Len(b.kids) = Len(call.target.kids)
    BY <1>3, <1>4, RelinkedFields
<1> HIDE DEF b
<1>7. {entry.kids, [entry.kids EXCEPT ![call.at].addr = call.rec.addr]}
        \subseteq Result(entry.kids)
    BY <1>1, <1>4, <1>5 DEF Result
<1>8. CASE Change(b, "write")
  <2>1. Sized(b)
    BY <1>5, <1>6 DEF Sized
  <2>2. b.kids \in Result(entry.kids)
    BY <1>5, <1>6, <1>7
  <2>3. Even(call.target) => Even(b)
    BY <1>6 DEF Even
  <2> QED
    BY <1>1, <1>2, <1>6, <1>8, <2>1, <2>2, <2>3 DEF Changes
<1>9. CASE Change(call.target, "write")
    BY <1>1, <1>2, <1>3, <1>5, <1>7, <1>9 DEF Changes
<1> QED BY <1>1, <1>8, <1>9

\* What a call is to store is a buffer with the records that it made, or with those it
\* found, and with their number, unless a crash has left a wrong one.
LEMMA WrittenSound ==
    ASSUME BufferInv, call.step = "write"
    PROVE  /\ Written \in Buffer /\ Sized(Written)
           /\ ~(mapped /\ crashed) => Even(Written)
           /\ InEntry => Written.kids = entry.kids
           /\ ~InEntry => Written.kids \in Result(entry.kids) \cup {entry.kids}
           /\ call.op = "add" => Written.kids = call.target.kids
<1>1. ~Idle
    BY DEF Idle
<1>2. call.target \in Buffer /\ call.buffer \in Buffer /\ call.tries \in Nat
    BY <1>1, BusyCall DEF BufferInv
<1>3. RoomSound /\ KidsSound /\ LengthSound
    BY <1>1, CallParts
<1>4. Sized(call.buffer) /\ Sized(call.target)
    BY <1>3 DEF RoomSound
<1>5. InEntry => call.target = entry /\ call.tries = 0
    BY <1>3 DEF KidsSound, InEntry
<1>6. ~InEntry => call.buffer.kids = entry.kids /\ call.target.kids \in Result(entry.kids)
    BY <1>3 DEF KidsSound
<1>7. CASE call.op = "insert" /\ call.tries > 0
  <2>1. Written = call.buffer
    BY <1>7 DEF Written
  <2>2. ~InEntry /\ call.op # "add"
    BY <1>7, <1>2 DEF InEntry
  <2>3. ~(mapped /\ crashed) => Even(call.buffer)
    BY <1>3 DEF LengthSound
  <2> QED BY <1>2, <1>4, <1>6, <2>1, <2>2, <2>3
<1>8. CASE call.op = "link"
  <2>1. Written = call.target
    BY <1>8 DEF Written
  <2>2. ~(mapped /\ crashed) => Even(call.target)
    BY <1>3, <1>8 DEF LengthSound
  <2> QED BY <1>2, <1>4, <1>5, <1>6, <2>1, <2>2
<1>9. CASE ~(call.op = "insert" /\ call.tries > 0) /\ call.op # "link"
  <2>1. Written = Counted(call.target)
    BY <1>9 DEF Written
  <2>2. /\ Written \in Buffer /\ Even(Written) /\ Written.kids = call.target.kids
        /\ Written.type = call.target.type /\ Written.size = call.target.size
    BY <1>2, <2>1, CountedFields
  <2>3. Sized(Written)
    BY <1>4, <2>2 DEF Sized
  <2> QED BY <1>5, <1>6, <2>2, <2>3
<1> QED BY <1>7, <1>8, <1>9

LEMMA WriteStep == ASSUME BufferInv, Write PROVE BufferInv'
<1>1. /\ call.step = "write"
      /\ mapped' = mapped /\ live' = live /\ crashed' = crashed /\ spoiled' = spoiled
    BY DEF Write
<1>2. ~Idle
    BY <1>1 DEF Idle
<1>3. call \in CallRecord /\ TypeOK /\ EntrySound
    BY <1>2, BusyCall DEF BufferInv
<1>4. /\ StepSound /\ RoomSound /\ EntryThere /\ RecordSound /\ HeaderFollowsContainer
    BY <1>2, CallParts
<1> DEFINE b == Written
<1>5. /\ b \in Buffer /\ Sized(b) /\ (~(mapped /\ crashed) => Even(b))
      /\ ~InEntry => b.kids \in Result(entry.kids) \cup {entry.kids}
      /\ call.op = "add" => b.kids = call.target.kids
    BY <1>1, WrittenSound
<1>6. CASE mapped
  <2>1. entry' = b /\ has' = (has \/ Stored) /\ call' = Ended("returned")
    BY <1>6 DEF Write
  <2> HIDE DEF b
  <2>2. has'
    <3>1. CASE call.tries = 0
      BY <3>1, <2>1, <1>1, <1>4 DEF EntryThere
    <3>2. CASE call.tries = 1
      <4>1. Stored
        BY <3>2 DEF Stored
      <4> QED BY <4>1, <2>1
    <3> QED BY <3>1, <3>2, <1>4 DEF RoomSound
  <2>3. has' \in BOOLEAN
    BY <2>1
  <2>4. Idle' /\ call' \in {Ended(h) : h \in {"returned", "threw", "crashed"}}
    BY <2>1, CallEnds
  <2>5. TypeOK'
    BY <1>1, <1>3, <1>5, <2>1, <2>3, <2>4 DEF TypeOK
  <2>6. EntrySound'
    BY <1>5, <2>1 DEF EntrySound, Sized
  <2>7. HeaderFollowsContainer'
    BY <1>1, <1>5, <2>1 DEF HeaderFollowsContainer, Even
  <2> QED BY <2>2, <2>4, <2>5, <2>6, <2>7 DEF BufferInv
<1>7. CASE ~mapped
  <2>1. /\ has' = FALSE /\ entry' = entry
        /\ call' = [call EXCEPT !.buffer = b, !.step = "set"]
    BY <1>7 DEF Write
  <2> HIDE DEF b
  <2>2. /\ call' \in CallRecord
        /\ call'.step = "set" /\ call'.op = call.op /\ call'.at = call.at
        /\ call'.rec = call.rec /\ call'.buffer = b /\ call'.target = call.target
        /\ call'.tries = call.tries /\ call'.freed = call.freed
    BY <1>3, <1>5, <2>1 DEF CallRecord
  <2>3. TypeOK'
    BY <1>1, <1>3, <2>1, <2>2 DEF TypeOK
  <2>4. EntrySound'
    BY <1>3, <2>1 DEF EntrySound, Sized
  <2>5. HeaderFollowsContainer'
    BY <1>1, <1>4, <1>7, <2>1 DEF HeaderFollowsContainer
  <2>6. ~Idle'
    BY <2>2 DEF Idle
  <2>7. StepSound'
    BY <1>1, <1>7, <2>2 DEF StepSound
  <2>8. RoomSound'
    BY <1>1, <1>4, <1>5, <2>2 DEF RoomSound, Adds, Sized
  <2>9. EntryThere'
    BY <2>1, <2>2 DEF EntryThere
  <2>10. KidsSound'
    <3>1. Result(entry.kids)' = Result(entry.kids)
      BY <2>1, <2>2 DEF Result, Adds
    <3>2. ~InEntry /\ ~InEntry'
      BY <1>1, <1>7 DEF InEntry
    <3> QED BY <1>5, <2>1, <2>2, <3>1, <3>2 DEF KidsSound
  <2>11. RecordSound'
    BY <1>1, <1>4, <1>5, <2>2 DEF RecordSound, Holds
  <2>12. LengthSound'
    BY <1>1, <1>5, <1>7, <2>2 DEF LengthSound, Even
  <2> QED
    BY <1>1, <1>2, <2>3, <2>4, <2>5, <2>6, <2>7, <2>8, <2>9, <2>10, <2>11, <2>12
    DEF BufferInv, CallSound
<1> QED BY <1>6, <1>7

LEMMA SetStep == ASSUME BufferInv, Set PROVE BufferInv'
<1>1. /\ call.step = "set" /\ entry' = call.buffer /\ has' = TRUE
      /\ call' = Ended("returned")
      /\ mapped' = mapped /\ live' = live /\ crashed' = crashed /\ spoiled' = spoiled
    BY DEF Set
<1>2. ~Idle
    BY <1>1 DEF Idle
<1>3. call.buffer \in Buffer /\ TypeOK
    BY <1>2, BusyCall DEF BufferInv
<1>4. Sized(call.buffer) /\ ~mapped /\ Even(call.buffer)
    BY <1>1, <1>2, CallParts DEF StepSound, RoomSound, LengthSound
<1>5. Idle' /\ call' \in {Ended(h) : h \in {"returned", "threw", "crashed"}}
    BY <1>1, CallEnds
<1>6. TypeOK'
    BY <1>1, <1>3, <1>5 DEF TypeOK
<1>7. EntrySound'
    BY <1>1, <1>4 DEF EntrySound, Sized
<1>8. HeaderFollowsContainer'
    BY <1>1, <1>4 DEF HeaderFollowsContainer, Even
<1> QED BY <1>1, <1>5, <1>6, <1>7, <1>8 DEF BufferInv

LEMMA NewNodeStep == ASSUME BufferInv, NewNode PROVE BufferInv'
<1>1. /\ Idle /\ has' = TRUE /\ entry' = EmptyNode /\ live' = {} /\ crashed' = FALSE
      /\ spoiled' = FALSE /\ mapped' = mapped /\ call' = call
    BY DEF NewNode
<1>2. Idle'
    BY <1>1 DEF Idle
<1>3. TypeOK'
    BY <1>1, EmptySound DEF BufferInv, TypeOK
<1>4. EntrySound'
    BY <1>1, EmptySound DEF EntrySound
<1>5. HeaderFollowsContainer'
    BY <1>1, EmptySound DEF HeaderFollowsContainer, Even
<1> QED BY <1>1, <1>2, <1>3, <1>4, <1>5 DEF BufferInv

LEMMA StutterStep == ASSUME BufferInv, UNCHANGED vars PROVE BufferInv'
BY DEF vars, BufferInv, TypeOK, EntrySound, HeaderFollowsContainer, Idle, CallSound, StepSound,
       RoomSound, EntryThere, KidsSound, RecordSound, LengthSound, Adds, Tight, InEntry, Result,
       Holds, Sized, Even

LEMMA NextInv == BufferInv /\ [Next]_vars => BufferInv'
<1> SUFFICES ASSUME BufferInv, [Next]_vars PROVE BufferInv'
    OBVIOUS
<1>1. ASSUME NEW a \in Address, NEW key \in Key, BeginAdd(key, a) PROVE BufferInv'
    BY <1>1, BeginAddStep
<1>2. ASSUME NEW a \in Address, NEW index \in 0..MaxLen, BeginInsert(index, a) PROVE BufferInv'
    BY <1>2, BeginInsertStep
<1>3. ASSUME NEW a \in Address, NEW i \in 1..MaxLen, BeginLink(i, a) PROVE BufferInv'
    BY <1>3, BeginLinkStep
<1>4. ASSUME NEW i \in 1..MaxLen, NEW j \in 1..MaxLen, BeginDelete(i, j) PROVE BufferInv'
    BY <1>4, BeginDeleteStep
<1>5. CASE SetTyped BY <1>5, SetTypedStep
<1>6. CASE Place BY <1>6, PlaceChanges, ChangesStep
<1>7. CASE Grow BY <1>7, GrowStep
<1>8. CASE Escape BY <1>8, EscapeStep
<1>9. CASE Erase BY <1>9, EraseChanges, ChangesStep
<1>10. CASE Link BY <1>10, LinkChanges, ChangesStep
<1>11. CASE Write BY <1>11, WriteStep
<1>12. CASE Set BY <1>12, SetStep
<1>13. CASE Crash BY <1>13, CrashStep
<1>16. CASE UseFreed BY <1>16, UseFreedStep
<1>14. CASE NewNode BY <1>14, NewNodeStep
<1>15. CASE UNCHANGED vars BY <1>15, StutterStep
<1> QED
    BY <1>1, <1>2, <1>3, <1>4, <1>5, <1>6, <1>7, <1>8, <1>9, <1>10, <1>11, <1>12, <1>13,
       <1>14, <1>15, <1>16 DEF Next

\* The inductive invariant.
THEOREM Invariance == Spec => []BufferInv
<1>1. Init => BufferInv
    BY InitInv
<1> QED BY <1>1, NextInv, PTL DEF Spec

\* Every variable has its type: positions are in the container, no free memory is
\* negative, and a call keeps to records and addresses that there are.
THEOREM TypeCorrect == Spec => []TypeOK
<1>1. BufferInv => TypeOK
    BY DEF BufferInv
<1> QED BY <1>1, Invariance, PTL

\* The turns of the loops in add_child_single() and insert() are never used up,
\* whatever a record takes, as long as a node has room for one.
THEOREM GrowthBounded == Spec => []GrowsOnce
<1>1. BufferInv => GrowsOnce
  <2>1. ASSUME BufferInv, ~Idle PROVE call.tries <= 1
    BY <2>1, CallParts DEF RoomSound
  <2> QED BY <2>1 DEF GrowsOnce
<1> QED BY <1>1, Invariance, PTL

\* No call that has returned or thrown leaves the node missing from the storage, unless
\* it worked on in memory that it had freed and that was overwritten.
THEOREM MissingCorrect == Spec => []MissingOnlyInRewrite
<1>1. BufferInv => MissingOnlyInRewrite
  <2> SUFFICES ASSUME BufferInv, ~has, ~crashed, ~spoiled
               PROVE  ~Idle /\ (call.tries > 0 \/ call.step \in {"typed", "set"})
    BY DEF MissingOnlyInRewrite
  <2>1. ~Idle
    BY DEF BufferInv
  <2>2. EntryThere /\ RoomSound
    BY <2>1, CallParts
  <2> QED BY <2>1, <2>2 DEF EntryThere, RoomSound
<1> QED BY <1>1, Invariance, PTL

\* shape[0] is the number of records at every step in a storage that is not mapped,
\* and between calls in a mapped one unless a process died.
THEOREM HeaderCorrect == Spec => []HeaderFollowsContainer
<1>1. BufferInv => HeaderFollowsContainer
    BY DEF BufferInv
<1> QED BY <1>1, Invariance, PTL

----------------------------------------------------------------------------
(* Which records are in the storage when a call returns.                    *)

\* Only the last step of a call returns, and one that works on in freed memory.
LEMMA ReturnCases ==
    ASSUME BufferInv, [Next]_vars, Returns
    PROVE  (Write /\ mapped) \/ Set \/ UseFreed
<1>1. ~Idle /\ call' = Ended("returned") /\ call \in CallRecord
    BY BusyCall DEF Returns, BufferInv
<1>2. call'.step = "idle"
    BY <1>1 DEF Ended
<1>3. ~(\E s \in {"try", "write", "set"} : call'.step = s)
    BY <1>2
<1>4. \A b : Change(b, "write") => call'.step = "write"
    BY <1>1 DEF Change, CallRecord
<1>5. CASE SetTyped
    BY <1>1, <1>3, <1>5 DEF SetTyped, CallRecord
<1>6. CASE Place
    BY <1>3, <1>4, <1>6 DEF Place
<1>7. CASE Grow
  <2>1. call'.step = call.step /\ call.step = "try"
    BY <1>1, <1>7 DEF Grow, CallRecord
  <2> QED BY <1>3, <2>1
<1>8. CASE Escape
    BY <1>1, <1>8 DEF Escape, Ended
<1>9. CASE Erase
    BY <1>3, <1>4, <1>9 DEF Erase
<1>10. CASE Link
    BY <1>3, <1>4, <1>10 DEF Link
<1>11. CASE Write
  <2>1. CASE ~mapped
    <3>1. call' = [call EXCEPT !.buffer = Written, !.step = "set"]
      BY <1>11, <2>1 DEF Write
    <3>2. call'.step = "set"
      BY <1>1, <3>1 DEF CallRecord
    <3> QED BY <1>3, <3>2
  <2> QED BY <1>11, <2>1
<1>12. CASE Set
    BY <1>12
<1>13. CASE Crash
    BY <1>1, <1>13 DEF Crash, Ended
<1>14. CASE UNCHANGED vars
    BY <1>1, <1>2, <1>14 DEF vars, Idle
<1>15. \A a, key : ~BeginAdd(key, a)
    BY <1>1 DEF BeginAdd, BeginIn, Begin
<1>16. \A a, index : ~BeginInsert(index, a)
    BY <1>1 DEF BeginInsert, BeginIn, Begin
<1>17. \A i, a : ~BeginLink(i, a)
    BY <1>1 DEF BeginLink, Begin
<1>18. \A i, j : ~BeginDelete(i, j)
    BY <1>1 DEF BeginDelete, Begin
<1>19. ~NewNode
    BY <1>1 DEF NewNode
<1>20. CASE UseFreed
    BY <1>20
<1> QED
    BY <1>20, <1>5, <1>6, <1>7, <1>8, <1>9, <1>10, <1>11, <1>12, <1>13, <1>14, <1>15, <1>16, <1>17,
       <1>18, <1>19 DEF Next

\* The last step of a call: the entry is there, with what the call has made.
LEMMA LastStep ==
    ASSUME BufferInv, (Write /\ mapped) \/ Set
    PROVE  /\ ~Idle /\ has' /\ Idle' /\ mapped' = mapped /\ spoiled' = spoiled /\ ~spoiled
           /\ entry'.kids \in Result(entry.kids) \cup {entry.kids}
           /\ call.op = "add" => Holds(entry')
<1>1. CASE Write /\ mapped
  <2>1. /\ call.step = "write" /\ entry' = Written /\ has' = (has \/ Stored)
        /\ call' = Ended("returned") /\ mapped' = mapped /\ spoiled' = spoiled
    BY <1>1 DEF Write
  <2>2. ~Idle
    BY <2>1 DEF Idle
  <2>3. Idle'
    BY <2>1, CallEnds
  <2>4. RoomSound /\ EntryThere /\ RecordSound
    BY <2>2, CallParts
  <2>5. has'
    <3>1. CASE call.tries = 0
      BY <3>1, <2>1, <2>4 DEF EntryThere
    <3>2. CASE call.tries = 1
      <4>1. Stored
        BY <3>2 DEF Stored
      <4> QED BY <4>1, <2>1
    <3> QED BY <3>1, <3>2, <2>4 DEF RoomSound
  <2>6. Written.kids \in Result(entry.kids) \cup {entry.kids}
    BY <2>1, WrittenSound
  <2>7. call.op = "add" => Written.kids = call.target.kids /\ Holds(call.target)
    BY <2>1, <2>4, WrittenSound DEF RecordSound
  <2>8. ~spoiled
    BY <2>2 DEF BufferInv
  <2> QED BY <2>1, <2>2, <2>3, <2>5, <2>6, <2>7, <2>8 DEF Holds
<1>2. CASE Set
  <2>1. /\ call.step = "set" /\ entry' = call.buffer /\ has' = TRUE
        /\ call' = Ended("returned") /\ mapped' = mapped /\ spoiled' = spoiled
    BY <1>2 DEF Set
  <2>2. ~Idle
    BY <2>1 DEF Idle
  <2>3. Idle'
    BY <2>1, CallEnds
  <2>4. KidsSound /\ RecordSound
    BY <2>2, CallParts
  <2>5. ~spoiled
    BY <2>2 DEF BufferInv
  <2> QED BY <2>1, <2>2, <2>3, <2>4, <2>5 DEF KidsSound, RecordSound, Holds
<1> QED BY <1>1, <1>2

\* When add_child_single() returns, the record is in the storage, mapped or not, unless
\* the call had to grow the buffer: then what it stores may come from freed memory.
THEOREM AddCorrect == Spec => AddStored
<1>1. BufferInv /\ [Next]_vars =>
        [Returns /\ call.op = "add" => RecordStored \/ (call.tries > 0 /\ spoiled')]_vars
  <2> SUFFICES ASSUME BufferInv, [Next]_vars, Returns, call.op = "add"
               PROVE  RecordStored \/ (call.tries > 0 /\ spoiled')
    OBVIOUS
  <2>1. CASE (Write /\ mapped) \/ Set
    <3>1. has' /\ ~spoiled' /\ Holds(entry')
      BY <2>1, LastStep
    <3> QED BY <3>1 DEF Holds, RecordStored
  <2>2. CASE UseFreed
    <3>1. ~Idle /\ call.freed /\ spoiled'
      BY <2>2 DEF UseFreed
    <3>2. call.tries = 1
      BY <3>1, CallParts DEF RoomSound
    <3> QED BY <3>1, <3>2
  <2> QED BY <2>1, <2>2, ReturnCases
<1> QED BY <1>1, Invariance, PTL DEF Spec, AddStored

----------------------------------------------------------------------------
(* The implementation of NodeContainer.                                     *)

\* What a client of the storage sees of the node.
View == IF (has \/ ~Idle) /\ ~spoiled THEN entry.kids ELSE Gone

\* A step that a client sees as one of NodeContainer, or not at all.
Simulated == Container!Next \/ View' = View

\* The operators on sequences are those that NodeContainer takes.
LEMMA SameOperators ==
    /\ \A s, i, e : Container!InsertAt(s, i, e) = InsertAt(s, i, e)
    /\ \A s, i : Container!RemoveAt(s, i) = RemoveAt(s, i)
BY DEF Container!InsertAt, InsertAt, Container!RemoveAt, RemoveAt

\* Records change in one place, or the node goes.
LEMMA ResultSimulated ==
    ASSUME BufferInv, ~Idle, NEW k \in Result(entry.kids) \cup {entry.kids}, View' = k
    PROVE  Simulated
<1>1. View = entry.kids
    BY DEF View, BufferInv
<1>2. entry.kids \in Seq(Record) /\ call.rec \in Record
    BY BusyCall, BufferFields DEF BufferInv, TypeOK
<1>3. View # Gone
    BY <1>1, <1>2, GoneAssumption
<1>4. CASE k = entry.kids
    BY <1>1, <1>4 DEF Simulated
<1>5. CASE Adds /\ k # entry.kids
  <2>1. PICK i \in 1..(Len(entry.kids) + 1) : k = InsertAt(entry.kids, i, call.rec)
    BY <1>5 DEF Result
  <2>2. Container!Insert
    BY <1>1, <1>2, <1>3, <2>1, SameOperators DEF Container!Insert, View
  <2> QED BY <2>2 DEF Simulated, Container!Next
<1>6. CASE ~Adds /\ call.op = "delete" /\ k # entry.kids
  <2>1. PICK i \in 1..Len(entry.kids) : k = RemoveAt(entry.kids, i)
    BY <1>6 DEF Result
  <2>2. i \in DOMAIN entry.kids
    BY <1>2
  <2>3. Container!Delete
    BY <1>1, <1>3, <2>1, <2>2, SameOperators DEF Container!Delete, View
  <2> QED BY <2>3 DEF Simulated, Container!Next
<1>7. CASE ~Adds /\ call.op # "delete" /\ k # entry.kids
  <2>1. PICK i \in 1..Len(entry.kids) : k = [entry.kids EXCEPT ![i].addr = call.rec.addr]
    BY <1>7 DEF Result
  <2> DEFINE r == [entry.kids[i] EXCEPT !.addr = call.rec.addr]
  <2>2. i \in DOMAIN entry.kids /\ entry.kids[i] \in Record
    BY <1>2, ElementOfSeq
  <2>3. r \in Record /\ r.key = entry.kids[i].key
    BY <1>2, <2>2 DEF Record
  <2>4. k = [entry.kids EXCEPT ![i] = r]
    BY <2>1
  <2> HIDE DEF r
  <2>5. Container!Relink
    BY <1>1, <1>3, <2>2, <2>3, <2>4 DEF Container!Relink, View
  <2> QED BY <2>5 DEF Simulated, Container!Next
<1> QED BY <1>4, <1>5, <1>6, <1>7

LEMMA GoneSimulated == ASSUME View' = Gone PROVE Simulated
BY DEF Simulated, Container!Next, Container!Lose, View

\* The records stay as they are.
LEMMA KeptSimulated ==
    ASSUME has \/ ~Idle, has' \/ ~Idle', entry'.kids = entry.kids, spoiled' = spoiled
    PROVE  Simulated
BY DEF Simulated, View

LEMMA ChangesSimulated == ASSUME BufferInv, Changes PROVE Simulated
<1>1. PICK b \in Buffer :
        /\ ~Idle /\ Change(b, "write") /\ b.kids \in Result(entry.kids)
        /\ spoiled' = spoiled /\ ~spoiled
    BY DEF Changes, BufferInv
<1>2. call' = [call EXCEPT !.target = b, !.step = "write"]
    BY <1>1 DEF Change
<1>3. ~Idle'
  <2>1. call \in CallRecord
    BY <1>1, BusyCall DEF BufferInv
  <2> QED BY <1>2, <2>1 DEF CallRecord, Idle
<1>4. View' = entry'.kids
    BY <1>1, <1>3 DEF View
<1>5. CASE InEntry
    BY <1>1, <1>4, <1>5, ResultSimulated DEF Change
<1>6. CASE ~InEntry
    BY <1>1, <1>3, <1>6, KeptSimulated DEF Change, BufferInv
<1> QED BY <1>5, <1>6

LEMMA BeginInSimulated ==
    ASSUME BufferInv, NEW type, NEW op, NEW at, NEW rec, type \in {"STRUCT", "LIST"},
           BeginIn(type, op, at, rec)
    PROVE  Simulated
<1>1. has /\ spoiled' = spoiled /\ entry.type \in {"EMPTY", type} /\ EntrySound
    BY DEF BeginIn, Begin, BufferInv
<1>2. ~Idle'
    BY DEF BeginIn, NewCall, Idle
<1>3. entry'.kids = entry.kids
  <2>1. CASE entry.type = type
    BY <2>1 DEF BeginIn
  <2>2. CASE entry.type # type
    <3>1. entry.kids = <<>>
      BY <1>1, <2>2 DEF EntrySound, Sized
    <3>2. entry' = entry \/ entry' = Typed(type)
      BY <2>2 DEF BeginIn
    <3> QED BY <3>1, <3>2, TypedSound
  <2> QED BY <2>1, <2>2
<1> QED BY <1>1, <1>2, <1>3, KeptSimulated

\* A call that dies, or throws, keeps the records or loses the node.
LEMMA EndSimulated ==
    ASSUME ~Idle, Idle', entry' = entry, spoiled' = spoiled PROVE Simulated
<1>1. CASE has'
    BY <1>1, KeptSimulated
<1>2. CASE ~has'
    BY <1>2, GoneSimulated DEF View
<1> QED BY <1>1, <1>2

LEMMA NextSimulated == ASSUME BufferInv, [Next]_vars PROVE Simulated
<1>1. ASSUME NEW a, NEW key, BeginAdd(key, a) PROVE Simulated
    BY <1>1, BeginInSimulated DEF BeginAdd
<1>2. ASSUME NEW a, NEW index, BeginInsert(index, a) PROVE Simulated
    BY <1>2, BeginInSimulated DEF BeginInsert
<1>3. ASSUME NEW i, NEW a, BeginLink(i, a) PROVE Simulated
  <2>1. has /\ has' = has /\ entry' = entry /\ spoiled' = spoiled
    BY <1>3 DEF BeginLink, Begin
  <2> QED BY <2>1, KeptSimulated
<1>4. ASSUME NEW i, NEW j, BeginDelete(i, j) PROVE Simulated
  <2>1. has /\ has' = has /\ entry' = entry /\ spoiled' = spoiled
    BY <1>4 DEF BeginDelete, Begin
  <2> QED BY <2>1, KeptSimulated
<1>5. CASE SetTyped
  <2>1. call.step = "typed" /\ has' = TRUE /\ entry' = call.buffer /\ spoiled' = spoiled
    BY <1>5 DEF SetTyped
  <2>2. ~Idle
    BY <2>1 DEF Idle
  <2>3. entry'.kids = entry.kids
    BY <2>1, <2>2, CallParts DEF KidsSound
  <2> QED BY <2>1, <2>2, <2>3, KeptSimulated
<1>6. CASE Place
    BY <1>6, PlaceChanges, ChangesSimulated
<1>7. CASE Grow
  <2>1. call.step = "try" /\ entry' = entry /\ spoiled' = spoiled
    BY <1>7 DEF Grow
  <2>2. ~Idle
    BY <2>1 DEF Idle
  <2>3. call'.step = "try"
    BY <1>7, <2>1, <2>2, BusyCall DEF Grow, CallRecord, BufferInv
  <2>4. ~Idle'
    BY <2>3 DEF Idle
  <2> QED BY <2>1, <2>2, <2>4, KeptSimulated
<1>8. CASE Escape
  <2>1. ~Idle /\ entry' = entry /\ spoiled' = spoiled /\ call' = Ended("threw")
    BY <1>8 DEF Escape, Idle
  <2> QED BY <2>1, CallEnds, EndSimulated
<1>9. CASE Erase
    BY <1>9, EraseChanges, ChangesSimulated
<1>10. CASE Link
    BY <1>10, LinkChanges, ChangesSimulated
<1>11. CASE Write /\ ~mapped
  <2>1. call.step = "write" /\ entry' = entry /\ spoiled' = spoiled
    BY <1>11 DEF Write
  <2>2. call' = [call EXCEPT !.buffer = Written, !.step = "set"]
    BY <1>11 DEF Write
  <2>3. ~Idle
    BY <2>1 DEF Idle
  <2>4. call'.step = "set"
    BY <2>2, <2>3, BusyCall DEF CallRecord, BufferInv
  <2>5. ~Idle'
    BY <2>4 DEF Idle
  <2> QED BY <2>1, <2>3, <2>5, KeptSimulated
<1>12. CASE (Write /\ mapped) \/ Set
  <2>1. /\ ~Idle /\ has' /\ ~spoiled'
        /\ entry'.kids \in Result(entry.kids) \cup {entry.kids}
    BY <1>12, LastStep
  <2>2. View' = entry'.kids
    BY <2>1 DEF View
  <2> QED BY <2>1, <2>2, ResultSimulated
<1>13. CASE Crash
  <2>1. ~Idle /\ entry' = entry /\ spoiled' = spoiled /\ call' = Ended("crashed")
    BY <1>13 DEF Crash
  <2> QED BY <2>1, CallEnds, EndSimulated
<1>14. CASE NewNode
  <2>1. Idle /\ (~has \/ spoiled) /\ has' = TRUE /\ entry' = EmptyNode /\ spoiled' = FALSE
    BY <1>14 DEF NewNode
  <2>2. View = Gone /\ View' = <<>>
    BY <2>1, EmptySound DEF View
  <2>3. Container!New
    BY <2>2 DEF Container!New, View
  <2> QED BY <2>3 DEF Simulated, Container!Next
<1>15. CASE UNCHANGED vars
    BY <1>15 DEF vars, Simulated, View, Idle
<1>16. CASE UseFreed
    BY <1>16, GoneSimulated DEF UseFreed, View
<1> QED
    BY <1>16, <1>1, <1>2, <1>3, <1>4, <1>5, <1>6, <1>7, <1>8, <1>9, <1>10, <1>11, <1>12, <1>13,
       <1>14, <1>15 DEF Next

LEMMA InitSimulated == ASSUME Init PROVE Container!Init
<1>1. View = <<>>
    BY EmptySound DEF Init, View
<1> QED BY <1>1 DEF Container!Init, View

\* Whatever the sizes, each call puts in, takes out or relinks one record in one step,
\* on both kinds of storage; a crash, or an overwritten buffer of those that a call has
\* freed, leaves the container of before or after the call, or takes the node.
THEOREM Implementation == Spec => ImplementsContainer
<1>1. Init => Container!Init
    BY InitSimulated
<1>2. BufferInv /\ [Next]_vars => [Container!Next]_View
    BY NextSimulated DEF Simulated
<1> QED BY <1>1, <1>2, Invariance, PTL DEF Spec, ImplementsContainer, Container!Spec, View

----------------------------------------------------------------------------
(* The records of a STRUCT name nodes that are there. *)

\* NameInv says this of the entry and of the two buffers of the call in progress, with
\* the record that delete_child() takes out as the only exception; that this is the only
\* one with its key and its address; and when it has left which buffer.

\* No two records have one key, or lead to one node.
Unique(kids) ==
    \A i, j \in DOMAIN kids :
        i # j => kids[i].key # kids[j].key /\ kids[i].addr # kids[j].addr

Deleting(r) == ~Idle /\ call.op = "delete" /\ call.rec = r

\* The records of a STRUCT lead to nodes, all or all but the one that is deleted.
Clean(b) == b.type = "STRUCT" => \A i \in DOMAIN b.kids : b.kids[i].addr \in live
Known(b) ==
    b.type = "STRUCT" =>
        /\ Unique(b.kids)
        /\ \A i \in DOMAIN b.kids : b.kids[i].addr \in live \/ Deleting(b.kids[i])

\* The record of the call against those that are in the container.
Fresh(kids, r) == \A i \in DOMAIN kids : kids[i].key # r.key /\ kids[i].addr # r.addr
RecordKnown ==
    /\ call.op # "delete" => call.rec.addr \in live
    /\ call.op = "insert" => call.target.type = "LIST"
    /\ call.op = "add" /\ call.step \in {"typed", "try"} => Fresh(call.target.kids, call.rec)
    /\ call.op = "delete" /\ call.step = "erase" => call.rec = call.target.kids[call.at]
    /\ call.op = "link" /\ call.step = "erase" =>
        /\ call.rec.key = call.target.kids[call.at].key
        /\ \A i \in DOMAIN call.target.kids : call.target.kids[i].addr # call.rec.addr

CallKnown ==
    /\ Known(call.buffer) /\ Known(call.target) /\ RecordKnown
    /\ call.op = "delete" /\ call.step = "write" => Clean(call.target)
    /\ call.op = "delete" /\ call.step = "set" => Clean(call.buffer)

\* After a crash, and of a spoiled entry, nothing is promised until the client makes
\* another node.
NameInv ==
    ~crashed /\ ~spoiled =>
        /\ Known(entry)
        /\ Idle => Clean(entry)
        /\ ~Idle => CallKnown

----------------------------------------------------------------------------
(* Sequences: where the elements are after a change.                        *)

LEMMA InsertedUnique ==
    ASSUME NEW s \in Seq(Record), NEW i \in 1..(Len(s) + 1), NEW e \in Record,
           Unique(s), Fresh(s, e)
    PROVE  /\ Unique(InsertAt(s, i, e))
           /\ \A j \in DOMAIN InsertAt(s, i, e) :
                InsertAt(s, i, e)[j] = e \/ \E k \in DOMAIN s : InsertAt(s, i, e)[j] = s[k]
<1> DEFINE t == InsertAt(s, i, e)
<1>1. /\ DOMAIN t = 1..(Len(s) + 1)
      /\ \A j \in 1..(Len(s) + 1) : t[j] = IF j < i THEN s[j] ELSE IF j = i THEN e ELSE s[j - 1]
    <2>1. /\ DOMAIN InsertAt(s, i, e) = 1..(Len(s) + 1)
          /\ \A j \in 1..(Len(s) + 1) :
                InsertAt(s, i, e)[j] = IF j < i THEN s[j] ELSE IF j = i THEN e ELSE s[j - 1]
        BY InsertAtValues, SMTT(30)
    <2> QED
        BY <2>1
<1>2. DOMAIN s = 1..Len(s) /\ Len(s) \in Nat /\ i \in Int
    BY LenProperties
<1> HIDE DEF t
<1> DEFINE from(j) == IF j < i THEN j ELSE j - 1
<1>3. ASSUME NEW j \in DOMAIN t, j # i
      PROVE  from(j) \in DOMAIN s /\ t[j] = s[from(j)]
    BY <1>1, <1>2, <1>3
<1>4. ASSUME NEW j \in DOMAIN t, NEW k \in DOMAIN t, j # i, k # i, j # k
      PROVE  from(j) # from(k)
    BY <1>1, <1>2, <1>4
<1>5. i \in DOMAIN t /\ t[i] = e
    BY <1>1, <1>2
<1> HIDE DEF from
<1>6. Unique(t)
  <2> SUFFICES ASSUME NEW j \in DOMAIN t, NEW k \in DOMAIN t, j # k
               PROVE  t[j].key # t[k].key /\ t[j].addr # t[k].addr
    BY DEF Unique
  <2>1. CASE j # i /\ k # i
    BY <2>1, <1>3, <1>4 DEF Unique
  <2>2. CASE j = i \/ k = i
    BY <2>2, <1>3, <1>5 DEF Fresh
  <2> QED BY <2>1, <2>2
<1>7. \A j \in DOMAIN t : t[j] = e \/ \E k \in DOMAIN s : t[j] = s[k]
    BY <1>3, <1>5
<1> QED BY <1>6, <1>7 DEF t

LEMMA RemovedUnique ==
    ASSUME NEW s \in Seq(Record), NEW i \in 1..Len(s), Unique(s)
    PROVE  /\ Unique(RemoveAt(s, i))
           /\ \A j \in DOMAIN RemoveAt(s, i) :
                \E k \in DOMAIN s : k # i /\ RemoveAt(s, i)[j] = s[k]
<1> DEFINE t == RemoveAt(s, i)
<1>1. /\ DOMAIN t = 1..(Len(s) - 1)
      /\ \A j \in 1..(Len(s) - 1) : t[j] = IF j < i THEN s[j] ELSE s[j + 1]
    BY RemoveAtSeq
<1>2. DOMAIN s = 1..Len(s) /\ Len(s) \in Nat /\ i \in Int
    BY LenProperties
<1> HIDE DEF t
<1> DEFINE from(j) == IF j < i THEN j ELSE j + 1
<1>3. ASSUME NEW j \in DOMAIN t
      PROVE  from(j) \in DOMAIN s /\ from(j) # i /\ t[j] = s[from(j)]
    BY <1>1, <1>2, <1>3
<1>4. ASSUME NEW j \in DOMAIN t, NEW k \in DOMAIN t, j # k
      PROVE  from(j) # from(k)
    BY <1>1, <1>2, <1>4
<1> HIDE DEF from
<1>5. Unique(t)
    BY <1>3, <1>4 DEF Unique
<1>6. \A j \in DOMAIN t : \E k \in DOMAIN s : k # i /\ t[j] = s[k]
    BY <1>3
<1> QED BY <1>5, <1>6 DEF t

LEMMA RelinkedUnique ==
    ASSUME NEW s \in Seq(Record), NEW i \in 1..Len(s), NEW a \in Address, Unique(s),
           \A j \in DOMAIN s : s[j].addr # a
    PROVE  /\ Unique([s EXCEPT ![i].addr = a])
           /\ \A j \in DOMAIN [s EXCEPT ![i].addr = a] :
                \/ [s EXCEPT ![i].addr = a][j].addr = a
                \/ j \in DOMAIN s /\ [s EXCEPT ![i].addr = a][j] = s[j]
<1> DEFINE r == [s[i] EXCEPT !.addr = a]
           t == [s EXCEPT ![i] = r]
<1>1. i \in DOMAIN s /\ s[i] \in Record
    BY ElementOfSeq
<1>2. r.key = s[i].key /\ r.addr = a
    BY <1>1 DEF Record
<1> HIDE DEF r
<1>3. DOMAIN t = DOMAIN s /\ t[i] = r /\ \A j \in DOMAIN s : j # i => t[j] = s[j]
    BY <1>1
<1>4. t = [s EXCEPT ![i].addr = a]
    BY DEF r
<1> HIDE DEF t
<1>5. Unique(t)
    BY <1>1, <1>2, <1>3 DEF Unique
<1> QED BY <1>2, <1>3, <1>4, <1>5

----------------------------------------------------------------------------
(* Calls.                                                                   *)

\* A call begins: its buffer is known, and its record as its kind says.
LEMMA NameBegins ==
    ASSUME NEW s \in {"typed", "try", "erase"}, NEW op \in {"add", "insert", "delete", "link"},
           NEW at, NEW rec, NEW b, NEW freed,
           call' = NewCall(s, op, at, rec, b, freed),
           \A d \in {b, entry'} : d.type = "STRUCT" =>
                /\ Unique(d.kids)
                /\ \A i \in DOMAIN d.kids :
                    d.kids[i].addr \in live' \/ (op = "delete" /\ rec = d.kids[i]),
           op # "delete" => rec.addr \in live',
           op = "insert" => b.type = "LIST",
           op = "add" => Fresh(b.kids, rec),
           op \in {"add", "insert"} => s # "erase",
           op = "delete" => rec = b.kids[at],
           op = "link" => /\ rec.key = b.kids[at].key
                          /\ \A i \in DOMAIN b.kids : b.kids[i].addr # rec.addr
    PROVE  NameInv'
<1>1. /\ call'.step = s /\ call'.op = op /\ call'.at = at /\ call'.rec = rec
      /\ call'.buffer = b /\ call'.target = b
    BY DEF NewCall
<1>2. ~Idle'
    BY <1>1 DEF Idle
<1>3. Known(call.buffer)' /\ Known(call.target)' /\ Known(entry)'
  <2>1. ASSUME NEW d \in {b, entry'}, d.type = "STRUCT", NEW i \in DOMAIN d.kids
        PROVE  /\ Unique(d.kids)
               /\ d.kids[i].addr \in live' \/ Deleting(d.kids[i])'
    BY <2>1, <1>1, <1>2 DEF Deleting
  <2> QED BY <2>1, <1>1, <1>2 DEF Known, Deleting
<1>4. RecordKnown'
    BY <1>1 DEF RecordKnown
<1> QED BY <1>1, <1>2, <1>3, <1>4 DEF NameInv, CallKnown

\* add_child_single() and insert() make a node before they begin.
LEMMA BeginInNames ==
    ASSUME BufferInv, NameInv, NEW type \in {"STRUCT", "LIST"}, NEW op \in {"add", "insert"},
           NEW at, NEW rec, BeginIn(type, op, at, rec),
           op = "insert" => type = "LIST",
           op = "add" => \A i \in DOMAIN entry.kids : entry.kids[i].key # rec.key
    PROVE  NameInv'
<1>1. /\ Idle /\ crashed' = crashed /\ spoiled' = spoiled /\ ~spoiled /\ live' = live \cup {rec.addr}
      /\ entry.type \in {"EMPTY", type}
      /\ rec.addr \notin {entry.kids[i].addr : i \in DOMAIN entry.kids}
    BY DEF BeginIn, Begin
<1>2. CASE crashed
    BY <1>1, <1>2 DEF NameInv
<1>3. CASE ~crashed
  <2>1. /\ entry.type = "STRUCT" => Unique(entry.kids)
        /\ entry.type = "STRUCT" => \A i \in DOMAIN entry.kids : entry.kids[i].addr \in live'
    BY <1>1, <1>3 DEF NameInv, Known, Clean
  <2>2. Typed(type).kids = <<>> /\ Typed(type).type = type /\ DOMAIN <<>> = {}
    BY TypedSound
  <2>3. PICK s \in {"typed", "try"}, b \in {entry, Typed(type)}, freed \in BOOLEAN :
            /\ call' = NewCall(s, op, at, rec, b, freed) /\ b.type = type
            /\ entry' \in {entry, Typed(type)}
    BY <1>1, <2>2 DEF BeginIn
  <2>4. op = "add" => Fresh(b.kids, rec)
    BY <1>1, <2>2, <2>3 DEF Fresh
  <2>5. \A d \in {b, entry'} : d.type = "STRUCT" =>
            /\ Unique(d.kids)
            /\ \A i \in DOMAIN d.kids : d.kids[i].addr \in live'
    BY <2>1, <2>2, <2>3 DEF Unique
  <2> QED BY <1>1, <2>3, <2>4, <2>5, NameBegins
<1> QED BY <1>2, <1>3

LEMMA BeginAddNames ==
    ASSUME BufferInv, NameInv, NEW key \in Key, NEW a \in Address, BeginAdd(key, a)
    PROVE  NameInv'
<1> DEFINE rec == [key |-> key, addr |-> a]
<1>1. rec.key = key
    OBVIOUS
<1>2. /\ BeginIn("STRUCT", "add", Len(entry.kids) + 1, rec)
      /\ \A i \in DOMAIN entry.kids : entry.kids[i].key # rec.key
    BY <1>1 DEF BeginAdd
<1> HIDE DEF rec
<1> QED BY <1>2, BeginInNames

LEMMA BeginInsertNames ==
    ASSUME BufferInv, NameInv, NEW index \in 0..MaxLen, NEW a \in Address, BeginInsert(index, a)
    PROVE  NameInv'
<1> DEFINE rec == [key |-> index, addr |-> a]
<1>1. BeginIn("LIST", "insert", index + 1, rec)
    BY DEF BeginInsert
<1> HIDE DEF rec
<1> QED BY <1>1, BeginInNames

\* delete_child(): in a STRUCT the record that is found is the one whose node is removed.
LEMMA BeginDeleteNames ==
    ASSUME BufferInv, NameInv, NEW i \in 1..MaxLen, NEW j \in 1..MaxLen, BeginDelete(i, j)
    PROVE  NameInv'
<1>1. /\ Idle /\ {i, j} \subseteq DOMAIN entry.kids /\ entry.kids[i].key = entry.kids[j].key
      /\ live' = live \ {entry.kids[i].addr}
      /\ call' = NewCall("erase", "delete", j, entry.kids[j], entry, CopyFreed)
      /\ entry' = entry /\ crashed' = crashed /\ spoiled' = spoiled /\ ~spoiled
    BY DEF BeginDelete, Begin
<1>2. CASE crashed
    BY <1>1, <1>2 DEF NameInv
<1>3. CASE ~crashed
  <2>1. ASSUME entry.type = "STRUCT"
        PROVE  /\ Unique(entry.kids)
               /\ \A k \in DOMAIN entry.kids :
                    entry.kids[k].addr \in live' \/ entry.kids[j] = entry.kids[k]
    <3>1. Unique(entry.kids) /\ \A k \in DOMAIN entry.kids : entry.kids[k].addr \in live
      BY <1>1, <1>3, <2>1 DEF NameInv, Known, Clean
    <3>2. i = j
      BY <1>1, <3>1 DEF Unique
    <3> QED BY <1>1, <3>1, <3>2 DEF Unique
  <2>2. \A d \in {entry, entry'} : d = entry
    BY <1>1
  <2>3. \A d \in {entry, entry'} : d.type = "STRUCT" =>
            /\ Unique(d.kids)
            /\ \A k \in DOMAIN d.kids : d.kids[k].addr \in live' \/ entry.kids[j] = d.kids[k]
    BY <2>1, <2>2
  <2>4. call' = NewCall("erase", "delete", j, entry.kids[j], entry, CopyFreed)
    BY <1>1
  <2> QED BY <2>3, <2>4, NameBegins, SMTT(30)
<1> QED BY <1>2, <1>3

LEMMA BeginLinkNames ==
    ASSUME BufferInv, NameInv, NEW i \in 1..MaxLen, NEW a \in Address, BeginLink(i, a)
    PROVE  NameInv'
<1> DEFINE rec == [entry.kids[i] EXCEPT !.addr = a]
<1>1. /\ Idle /\ i \in DOMAIN entry.kids /\ live' = live \cup {a}
      /\ a \notin {entry.kids[j].addr : j \in DOMAIN entry.kids}
      /\ call' = NewCall("erase", "link", i, rec, entry, CopyFreed)
      /\ entry' = entry /\ crashed' = crashed /\ spoiled' = spoiled /\ ~spoiled
    BY DEF BeginLink, Begin
<1>2. rec.key = entry.kids[i].key /\ rec.addr = a
  <2>1. entry.kids \in Seq(Record)
    BY BufferFields DEF BufferInv, TypeOK
  <2>2. entry.kids[i] \in Record
    BY <1>1, <2>1, ElementOfSeq
  <2> QED BY <2>2 DEF Record
<1> HIDE DEF rec
<1>3. CASE crashed
    BY <1>1, <1>3 DEF NameInv
<1>4. CASE ~crashed
  <2>1. entry.type = "STRUCT" =>
            /\ Unique(entry.kids)
            /\ \A k \in DOMAIN entry.kids : entry.kids[k].addr \in live'
    BY <1>1, <1>4 DEF NameInv, Known, Clean
  <2> QED BY <1>1, <1>2, <2>1, NameBegins
<1> QED BY <1>3, <1>4

\* The container of the target becomes that of b.
LEMMA NameChanges ==
    ASSUME BufferInv, NameInv, ~Idle, NEW b \in Buffer, Change(b, "write"),
           UNCHANGED <<mapped, has, spoiled, live, crashed>>,
           b.type = call.target.type,
           ~crashed /\ b.type = "STRUCT" =>
                Unique(b.kids) /\ \A i \in DOMAIN b.kids : b.kids[i].addr \in live
    PROVE  NameInv'
<1>1. call \in CallRecord
    BY BusyCall DEF BufferInv
<1>2. /\ call'.step = "write" /\ call'.op = call.op /\ call'.rec = call.rec
      /\ call'.buffer = call.buffer /\ call'.target = b /\ entry' \in {b, entry}
    BY <1>1 DEF Change, CallRecord
<1>3. ~Idle' /\ live' = live
    BY <1>2 DEF Idle
<1>4. CASE crashed
    BY <1>4 DEF NameInv
<1>5. CASE ~crashed
  <2>1. Known(entry) /\ Known(call.buffer) /\ RecordKnown
    BY <1>5 DEF BufferInv, NameInv, CallKnown
  <2>2. \A d \in {b, call.buffer, entry} : d.type = "STRUCT" =>
            /\ Unique(d.kids)
            /\ \A i \in DOMAIN d.kids : d.kids[i].addr \in live' \/ Deleting(d.kids[i])'
    BY <1>2, <1>3, <1>5, <2>1 DEF Known, Deleting
  <2>3. Known(entry)' /\ Known(call.buffer)' /\ Known(call.target)'
    BY <1>2, <2>2 DEF Known, Deleting
  <2>4. RecordKnown'
    BY <1>2, <1>3, <2>1 DEF RecordKnown
  <2>5. Clean(call.target)'
    BY <1>2, <1>3, <1>5 DEF Clean
  <2> QED BY <1>2, <1>3, <2>3, <2>4, <2>5 DEF NameInv, CallKnown
<1> QED BY <1>4, <1>5

\* What NameInv says of a call in progress.
LEMMA NameParts ==
    ASSUME BufferInv, NameInv, ~Idle, ~crashed
    PROVE  /\ ~spoiled /\ Known(entry) /\ CallKnown /\ Known(call.buffer) /\ Known(call.target)
           /\ RecordKnown
           /\ call.target.type = "STRUCT" =>
                /\ Unique(call.target.kids)
                /\ call.op # "delete" =>
                    \A i \in DOMAIN call.target.kids : call.target.kids[i].addr \in live
BY DEF BufferInv, NameInv, CallKnown, Known, Deleting

LEMMA PlaceNames == ASSUME BufferInv, NameInv, Place PROVE NameInv'
<1> DEFINE b == Placed(call.target, call.at, call.rec)
<1>1. /\ call.step = "try" /\ Fits(call.target, call.rec.key) /\ Change(b, "write")
      /\ UNCHANGED <<mapped, has, spoiled, live, crashed>>
    BY DEF Place
<1>2. ~Idle
    BY <1>1 DEF Idle
<1>3. call.rec \in Record /\ call.target \in Buffer /\ call.target.kids \in Seq(Record)
    BY <1>2, BusyCall, BufferFields DEF BufferInv
<1>4. Adds /\ call.at \in 1..(Len(call.target.kids) + 1)
    BY <1>1, <1>2, CallParts DEF StepSound
<1>5. /\ b \in Buffer /\ b.kids = InsertAt(call.target.kids, call.at, call.rec)
      /\ b.type = call.target.type
    BY <1>1, <1>3, <1>4, PlacedFields
<1> HIDE DEF b
<1>6. ASSUME ~crashed, b.type = "STRUCT"
      PROVE  Unique(b.kids) /\ \A i \in DOMAIN b.kids : b.kids[i].addr \in live
  <2>1. /\ Unique(call.target.kids) /\ RecordKnown
        /\ call.op # "delete" =>
            \A i \in DOMAIN call.target.kids : call.target.kids[i].addr \in live
    BY <1>2, <1>5, <1>6, NameParts
  <2>2. call.op = "add" /\ Fresh(call.target.kids, call.rec) /\ call.rec.addr \in live
    BY <1>1, <1>4, <1>5, <1>6, <2>1 DEF RecordKnown, Adds
  <2>3. /\ Unique(b.kids)
        /\ \A j \in DOMAIN b.kids :
            b.kids[j] = call.rec \/ \E k \in DOMAIN call.target.kids : b.kids[j] = call.target.kids[k]
    BY <1>3, <1>4, <1>5, <2>1, <2>2, InsertedUnique
  <2> QED BY <2>1, <2>2, <2>3
<1> QED BY <1>1, <1>2, <1>5, <1>6, NameChanges

LEMMA EraseNames == ASSUME BufferInv, NameInv, Erase PROVE NameInv'
<1> DEFINE b == Erased(call.target, call.at)
<1>1. /\ call.step = "erase" /\ call.op = "delete" /\ Change(b, "write")
      /\ UNCHANGED <<mapped, has, spoiled, live, crashed>>
    BY DEF Erase
<1>2. ~Idle
    BY <1>1 DEF Idle
<1>3. call.target \in Buffer /\ call.target.kids \in Seq(Record)
    BY <1>2, BusyCall, BufferFields DEF BufferInv
<1>4. call.at \in 1..Len(call.target.kids)
    BY <1>1, <1>2, CallParts DEF StepSound
<1>5. /\ b \in Buffer /\ b.kids = RemoveAt(call.target.kids, call.at)
      /\ b.type = call.target.type
    BY <1>3, <1>4, ErasedFields
<1> HIDE DEF b
<1>6. ASSUME ~crashed, b.type = "STRUCT"
      PROVE  Unique(b.kids) /\ \A i \in DOMAIN b.kids : b.kids[i].addr \in live
  <2>1. Unique(call.target.kids) /\ RecordKnown /\ Known(call.target)
    BY <1>2, <1>5, <1>6, NameParts
  <2>2. /\ Unique(b.kids)
        /\ \A j \in DOMAIN b.kids :
            \E k \in DOMAIN call.target.kids : k # call.at /\ b.kids[j] = call.target.kids[k]
    BY <1>3, <1>4, <1>5, <2>1, RemovedUnique
  <2>3. call.rec = call.target.kids[call.at] /\ call.at \in DOMAIN call.target.kids
    BY <1>1, <1>3, <1>4, <2>1 DEF RecordKnown
  <2>4. ASSUME NEW k \in DOMAIN call.target.kids, k # call.at
        PROVE  call.target.kids[k].addr \in live
    <3>1. call.target.kids[k] # call.rec
      BY <2>1, <2>3, <2>4 DEF Unique
    <3> QED BY <1>5, <1>6, <2>1, <3>1 DEF Known, Deleting
  <2> QED BY <2>2, <2>4
<1> QED BY <1>1, <1>2, <1>5, <1>6, NameChanges

LEMMA LinkNames == ASSUME BufferInv, NameInv, Link PROVE NameInv'
<1> DEFINE b == Relinked(call.target, call.at, call.rec.addr)
<1>1. /\ call.step = "erase" /\ call.op = "link"
      /\ UNCHANGED <<mapped, has, spoiled, live, crashed>>
      /\ Change(b, "write") \/ Change(call.target, "write")
    BY DEF Link
<1>2. ~Idle
    BY <1>1 DEF Idle
<1>3. /\ call.target \in Buffer /\ call.target.kids \in Seq(Record)
      /\ call.rec.addr \in Address
    BY <1>2, BusyCall, BufferFields DEF BufferInv, Record
<1>4. call.at \in 1..Len(call.target.kids)
    BY <1>1, <1>2, CallParts DEF StepSound
<1>5. /\ b \in Buffer /\ b.kids = [call.target.kids EXCEPT ![call.at].addr = call.rec.addr]
      /\ b.type = call.target.type
    BY <1>3, <1>4, RelinkedFields
<1> HIDE DEF b
<1>6. ASSUME ~crashed, call.target.type = "STRUCT"
      PROVE  /\ Unique(call.target.kids) /\ RecordKnown
             /\ \A i \in DOMAIN call.target.kids : call.target.kids[i].addr \in live
    BY <1>1, <1>2, <1>6, NameParts
<1>7. ASSUME ~crashed, b.type = "STRUCT"
      PROVE  Unique(b.kids) /\ \A i \in DOMAIN b.kids : b.kids[i].addr \in live
  <2>1. /\ \A i \in DOMAIN call.target.kids : call.target.kids[i].addr # call.rec.addr
        /\ call.rec.addr \in live
    BY <1>1, <1>5, <1>6, <1>7 DEF RecordKnown
  <2>2. /\ Unique(b.kids)
        /\ \A j \in DOMAIN b.kids :
            \/ b.kids[j].addr = call.rec.addr
            \/ j \in DOMAIN call.target.kids /\ b.kids[j] = call.target.kids[j]
    BY <1>3, <1>4, <1>5, <1>6, <1>7, <2>1, RelinkedUnique
  <2> QED BY <1>5, <1>6, <1>7, <2>1, <2>2
<1>8. CASE Change(b, "write")
    BY <1>1, <1>2, <1>5, <1>7, <1>8, NameChanges
<1>9. CASE Change(call.target, "write")
    BY <1>1, <1>2, <1>3, <1>6, <1>9, NameChanges
<1> QED BY <1>1, <1>8, <1>9

LEMMA SetTypedNames == ASSUME BufferInv, NameInv, SetTyped PROVE NameInv'
<1>1. /\ call.step = "typed" /\ entry' = call.buffer /\ live' = live /\ crashed' = crashed /\ spoiled' = spoiled
      /\ call' = [call EXCEPT !.step = "try"] /\ ~Idle
    BY DEF SetTyped, Idle
<1>2. call \in CallRecord
    BY <1>1, BusyCall DEF BufferInv
<1>3. /\ call'.step = "try" /\ call'.op = call.op /\ call'.rec = call.rec
      /\ call'.buffer = call.buffer /\ call'.target = call.target /\ call'.at = call.at
    BY <1>1, <1>2 DEF CallRecord
<1>4. ~Idle'
    BY <1>3 DEF Idle
<1>6. CASE crashed
    BY <1>1, <1>6 DEF NameInv
<1>7. CASE ~crashed
  <2>1. Known(call.buffer) /\ Known(call.target) /\ RecordKnown
    BY <1>1, <1>7, NameParts
  <2>2. Known(call.buffer)' /\ Known(call.target)' /\ Known(entry)'
    BY <1>1, <1>3, <1>4, <2>1 DEF Known, Deleting
  <2>3. RecordKnown'
    BY <1>1, <1>3, <2>1 DEF RecordKnown
  <2> QED BY <1>3, <1>4, <2>2, <2>3 DEF NameInv, CallKnown
<1> QED BY <1>6, <1>7

LEMMA GrowNames == ASSUME BufferInv, NameInv, Grow PROVE NameInv'
<1> DEFINE b == Grown(call.target, Extra)
<1>1. /\ call.step = "try" /\ entry' = entry /\ live' = live /\ crashed' = crashed /\ spoiled' = spoiled
      /\ call' = [call EXCEPT !.target = b, !.tries = @ + 1, !.freed = TRUE] /\ ~Idle
    BY DEF Grow, Idle
<1>2. call \in CallRecord /\ call.target \in Buffer /\ call.rec \in Record
    BY <1>1, BusyCall DEF BufferInv
<1>3. /\ call'.step = "try" /\ call'.op = call.op /\ call'.rec = call.rec
      /\ call'.buffer = call.buffer /\ call'.target = b /\ call'.at = call.at
    BY <1>1, <1>2 DEF CallRecord
<1>4. b.kids = call.target.kids /\ b.type = call.target.type
  <2> HIDE DEF b
  <2>1. call.target.size \in Nat
    BY <1>2, BufferFields, Zenon
  <2>4. call.rec.key \in Selector
    BY <1>2 DEF Record
  <2>2. 4 * LengthOf(call.rec.key) \in Nat
    BY <2>4, RoomIsNat, Zenon
  <2>3. Extra \in Nat
    BY <2>1, <2>2 DEF Extra
  <2> QED BY <1>2, <2>3, GrownFields DEF b
<1> HIDE DEF b
<1>5. ~Idle'
    BY <1>3 DEF Idle
<1>6. CASE crashed
    BY <1>1, <1>6 DEF NameInv
<1>7. CASE ~crashed
  <2>1. Known(call.buffer) /\ Known(call.target) /\ Known(entry) /\ RecordKnown
    BY <1>1, <1>7, NameParts
  <2>2. Known(call.buffer)' /\ Known(call.target)' /\ Known(entry)'
    BY <1>1, <1>3, <1>4, <1>5, <2>1 DEF Known, Deleting
  <2>3. RecordKnown'
    BY <1>1, <1>3, <1>4, <2>1 DEF RecordKnown
  <2> QED BY <1>3, <1>5, <2>2, <2>3 DEF NameInv, CallKnown
<1> QED BY <1>6, <1>7

\* delete_child() does not throw once it has begun.
LEMMA EscapeNames == ASSUME BufferInv, NameInv, Escape PROVE NameInv'
<1>1. /\ entry' = entry /\ live' = live /\ crashed' = crashed /\ spoiled' = spoiled /\ call' = Ended("threw") /\ ~Idle
      /\ call.op # "delete"
    BY DEF Escape, Idle
<1>2. Idle'
    BY <1>1, CallEnds
<1>3. CASE crashed
    BY <1>1, <1>3 DEF NameInv
<1>4. CASE ~crashed
  <2>1. Known(entry)
    BY <1>1, <1>4, NameParts
  <2> QED BY <1>1, <1>2, <2>1 DEF NameInv, Known, Clean, Deleting
<1> QED BY <1>3, <1>4

\* What is stored has no record of a node that was removed.
LEMMA WrittenNames ==
    ASSUME BufferInv, NameInv, ~crashed, call.step = "write"
    PROVE  Written.type = "STRUCT" =>
            /\ Unique(Written.kids)
            /\ \A i \in DOMAIN Written.kids : Written.kids[i].addr \in live
<1>1. ~Idle
    BY DEF Idle
<1>2. CallKnown /\ Known(call.buffer) /\ Known(call.target)
    BY <1>1, NameParts
<1>3. call.target \in Buffer
    BY <1>1, BusyCall DEF BufferInv
<1>4. CASE Written = call.buffer /\ call.op = "insert"
    BY <1>2, <1>4 DEF Known, Deleting
<1>5. CASE Written \in {call.target, Counted(call.target)}
  <2>1. Written.type = call.target.type /\ Written.kids = call.target.kids
    BY <1>3, <1>5, CountedFields
  <2> QED BY <1>2, <2>1 DEF Known, Deleting, CallKnown, Clean
<1> QED BY <1>4, <1>5 DEF Written

LEMMA WriteNames == ASSUME BufferInv, NameInv, Write PROVE NameInv'
<1>1. call.step = "write" /\ live' = live /\ crashed' = crashed /\ spoiled' = spoiled /\ ~Idle
    BY DEF Write, Idle
<1>2. CASE crashed
    BY <1>1, <1>2 DEF NameInv
<1>3. CASE ~crashed /\ mapped
  <2>1. entry' = Written /\ Idle'
    BY <1>3, CallEnds DEF Write
  <2> QED BY <1>1, <1>3, <2>1, WrittenNames DEF NameInv, Known, Clean
<1>4. CASE ~crashed /\ ~mapped
  <2>1. entry' = entry /\ call' = [call EXCEPT !.buffer = Written, !.step = "set"]
    BY <1>4 DEF Write
  <2>2. call \in CallRecord
    BY <1>1, BusyCall DEF BufferInv
  <2>3. /\ call'.step = "set" /\ call'.op = call.op /\ call'.rec = call.rec
        /\ call'.buffer = Written /\ call'.target = call.target /\ call'.at = call.at
    BY <2>1, <2>2 DEF CallRecord
  <2>4. ~Idle'
    BY <2>3 DEF Idle
  <2>5. Known(call.target) /\ Known(entry) /\ RecordKnown
    BY <1>1, <1>4, NameParts
  <2>6. Known(call.target)' /\ Known(entry)'
    BY <1>1, <2>1, <2>3, <2>4, <2>5 DEF Known, Deleting
  <2>7. Known(call.buffer)' /\ Clean(call.buffer)'
    BY <1>1, <1>4, <2>3, WrittenNames DEF Known, Clean
  <2>8. RecordKnown'
    BY <1>1, <2>3, <2>5 DEF RecordKnown
  <2> QED BY <2>3, <2>4, <2>6, <2>7, <2>8 DEF NameInv, CallKnown
<1> QED BY <1>2, <1>3, <1>4

LEMMA SetNames == ASSUME BufferInv, NameInv, Set PROVE NameInv'
<1>1. /\ call.step = "set" /\ entry' = call.buffer /\ live' = live /\ crashed' = crashed /\ spoiled' = spoiled
      /\ ~Idle /\ Idle'
    BY CallEnds DEF Set, Idle
<1>2. CASE crashed
    BY <1>1, <1>2 DEF NameInv
<1>3. CASE ~crashed
  <2>1. Known(call.buffer) /\ CallKnown
    BY <1>1, <1>3, NameParts
  <2> QED BY <1>1, <2>1 DEF NameInv, CallKnown, Known, Clean, Deleting
<1> QED BY <1>2, <1>3

LEMMA StutterNames == ASSUME NameInv, UNCHANGED vars PROVE NameInv'
BY DEF vars, NameInv, Known, Clean, CallKnown, RecordKnown, Fresh, Unique, Deleting, Idle

LEMMA NextNames == BufferInv /\ NameInv /\ [Next]_vars => NameInv'
<1> SUFFICES ASSUME BufferInv, NameInv, [Next]_vars PROVE NameInv'
    OBVIOUS
<1>1. ASSUME NEW a \in Address, NEW key \in Key, BeginAdd(key, a) PROVE NameInv'
    BY <1>1, BeginAddNames
<1>2. ASSUME NEW a \in Address, NEW index \in 0..MaxLen, BeginInsert(index, a) PROVE NameInv'
    BY <1>2, BeginInsertNames
<1>3. ASSUME NEW a \in Address, NEW i \in 1..MaxLen, BeginLink(i, a) PROVE NameInv'
    BY <1>3, BeginLinkNames
<1>4. ASSUME NEW i \in 1..MaxLen, NEW j \in 1..MaxLen, BeginDelete(i, j) PROVE NameInv'
    BY <1>4, BeginDeleteNames
<1>5. CASE SetTyped BY <1>5, SetTypedNames
<1>6. CASE Place BY <1>6, PlaceNames
<1>7. CASE Grow BY <1>7, GrowNames
<1>8. CASE Escape BY <1>8, EscapeNames
<1>9. CASE Erase BY <1>9, EraseNames
<1>10. CASE Link BY <1>10, LinkNames
<1>11. CASE Write BY <1>11, WriteNames
<1>12. CASE Set BY <1>12, SetNames
<1>13. CASE Crash BY <1>13 DEF Crash, NameInv
<1>16. CASE UseFreed BY <1>16 DEF UseFreed, NameInv
<1>14. CASE NewNode
  <2>1. entry'.type = "EMPTY" /\ call' = call /\ Idle
    BY <1>14, EmptySound DEF NewNode
  <2> QED BY <2>1 DEF NameInv, Known, Clean, Idle
<1>15. CASE UNCHANGED vars BY <1>15, StutterNames
<1> QED
    BY <1>1, <1>2, <1>3, <1>4, <1>5, <1>6, <1>7, <1>8, <1>9, <1>10, <1>11, <1>12, <1>13,
       <1>14, <1>15, <1>16 DEF Next

\* The records of a STRUCT name children that are there at every step, but for the one
\* that delete_child() is taking out (hdc.cpp:598), mapped or not, as long as nothing
\* was stored from freed memory.
THEOREM NamesCorrect == Spec => []RecordsName
<1>1. Init => NameInv
  <2>1. Init => Idle /\ entry.type = "EMPTY"
    BY EmptySound DEF Init, Idle, Ended
  <2> QED BY <2>1 DEF NameInv, Known, Clean
<1>2. NameInv => RecordsName
  <2>1. ASSUME NameInv, entry.type = "STRUCT", ~crashed, ~spoiled, NEW i \in DOMAIN entry.kids
        PROVE  \/ entry.kids[i].addr \in live
               \/ ~Idle /\ call.op = "delete" /\ call.rec = entry.kids[i]
    BY <2>1 DEF NameInv, Known, Deleting
  <2> QED BY <2>1 DEF RecordsName
<1> QED BY <1>1, <1>2, NextNames, Invariance, PTL DEF Spec
=============================================================================
