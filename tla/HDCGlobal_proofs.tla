--------------------------- MODULE HDCGlobal_proofs ---------------------------
(***************************************************************************)
(* What holds of HDCGlobal for any number of processes, files and servers. *)
(*                                                                         *)
(* The invariant says of each open storage what has been recorded of its   *)
(* place and to whom its volume belongs (StoreSound), in which order a     *)
(* process opened its storages (OrderSound), and that handles and strings  *)
(* carry uuids that their makers have drawn (HandleSound, StringSound).    *)
(***************************************************************************)
EXTENDS HDCGlobal, TLAPS

Mark(s) == IF s.keep THEN "kept" ELSE "dropped"

\* An open storage: what is known of its place, and where its volume is.
StoreSound(p) ==
    \A s \in Opened(p) :
        /\ s.vol \in DOMAIN vols
        /\ s.place = Private => ~s.keep
        /\ s.place # Private => Mark(s) \in ways[s.place]
        /\ s.place # Private /\ "dropped" \notin ways[s.place] => dir[s.place] = s.vol
        /\ \A l \in Place : dir[l] = s.vol => s.place = l

\* Two storages with one volume are at one place; the memory of a process is its own.
SameSound ==
    \A p, q \in Process : \A s \in Opened(p), r \in Opened(q) :
        s.vol = r.vol => s.place = r.place /\ (s.place = Private => p = q)

\* destroy() is registered for what only the library opened, which is the first.
OrderSound(p) ==
    /\ \A s \in lost[p] : s.explicit
    /\ \A i \in DOMAIN stores[p] : i # 1 => stores[p][i].explicit
    /\ stores[p] # <<>> /\ ~stores[p][1].explicit => p \in atexit

\* Handles are of the storage in use, and their uuids have been drawn.
HandleSound(p) ==
    \A h \in handles[p] :
        /\ stores[p] # <<>> /\ h.store = stores[p][1]
        /\ h.node \in DOMAIN made /\ h.uuid =< drawn[made[h.node].by]
        /\ h.store.place = Private => made[h.node].by = p
        /\ h.store.place = Private \/ "shared" \notin ways[h.store.place] =>
            vols[h.store.vol][h.uuid] = h.node

StringSound == \A t \in saved : t.node \in DOMAIN made /\ t.uuid =< drawn[made[t.node].by]

\* Every node has a uuid of its own among those of its process, and it is that of the
\* entry that leads to it.
MadeSound ==
    /\ \A n \in DOMAIN made : made[n].uuid =< drawn[made[n].by]
    /\ \A n, m \in DOMAIN made : made[n] = made[m] => n = m
    /\ \A v \in DOMAIN vols, u \in Uuid : vols[v][u] # Nothing => made[vols[v][u]].uuid = u

\* The places lead to different volumes.
DirSound ==
    /\ Len(vols) =< opened /\ Len(made) =< MaxNodes
    /\ \A l, m \in Place : dir[l] = dir[m] /\ dir[l] # Nothing => l = m

\* The inductive invariant.
GlobalInv ==
    /\ TypeOK /\ DirSound /\ SameSound /\ StringSound /\ MadeSound
    /\ \A p \in Process : StoreSound(p) /\ OrderSound(p) /\ HandleSound(p)
    /\ StringsResolve /\ FilesRemoved

----------------------------------------------------------------------------
(* The storages of a process.                                              *)

\* What is open is what is in use, the others of the list, and what was forgotten.
LEMMA OpenedParts ==
    ASSUME TypeOK, NEW p \in Process
    PROVE  /\ Opened(p) \subseteq Store
           /\ stores[p] # <<>> =>
                /\ InUse(p) = stores[p][1] /\ InUse(p) \in Opened(p)
                /\ Opened(p) = {InUse(p)} \cup Others(p) \cup lost[p]
           /\ stores[p] = <<>> => Opened(p) = lost[p]
           /\ stores[p] # <<>> /\ OrderSound(p) => \A s \in Others(p) : s.explicit
<1>1. stores[p] \in Seq(Store) /\ lost[p] \subseteq Store
  BY DEF TypeOK
<1>2. \A i \in DOMAIN stores[p] : stores[p][i] \in Store
  BY <1>1
<1>3. Opened(p) \subseteq Store
  BY <1>1, <1>2 DEF Opened
<1>4. ASSUME stores[p] # <<>>
      PROVE  /\ InUse(p) = stores[p][1] /\ InUse(p) \in Opened(p)
             /\ Opened(p) = {InUse(p)} \cup Others(p) \cup lost[p]
             /\ OrderSound(p) => \A s \in Others(p) : s.explicit
  <2>1. Head(stores[p]) = stores[p][1] /\ 1 \in DOMAIN stores[p]
    BY <1>1, <1>4
  <2>2. /\ DOMAIN Tail(stores[p]) = 1 .. (Len(stores[p]) - 1)
        /\ \A i \in DOMAIN Tail(stores[p]) : Tail(stores[p])[i] = stores[p][i + 1]
    BY <1>1, <1>4
  <2>3. DOMAIN stores[p] = 1 .. Len(stores[p]) /\ Len(stores[p]) \in Nat
    BY <1>1
  <2>4. Others(p) = {stores[p][i] : i \in DOMAIN stores[p] \ {1}}
    <3>1. ASSUME NEW s \in Others(p) PROVE s \in {stores[p][i] : i \in DOMAIN stores[p] \ {1}}
      <4>1. PICK i \in DOMAIN Tail(stores[p]) : s = Tail(stores[p])[i]
        BY <3>1 DEF Others
      <4>2. i + 1 \in DOMAIN stores[p] \ {1} /\ s = stores[p][i + 1]
        BY <4>1, <2>2, <2>3
      <4> QED BY <4>2
    <3>2. ASSUME NEW i \in DOMAIN stores[p] \ {1} PROVE stores[p][i] \in Others(p)
      <4>1. i - 1 \in DOMAIN Tail(stores[p]) /\ Tail(stores[p])[i - 1] = stores[p][(i - 1) + 1]
        BY <3>2, <2>2, <2>3
      <4>2. (i - 1) + 1 = i
        BY <2>3
      <4> QED BY <4>1, <4>2 DEF Others
    <3> QED BY <3>1, <3>2
  <2>5. Opened(p) = {InUse(p)} \cup Others(p) \cup lost[p]
    BY <2>1, <2>4 DEF Opened, InUse
  <2>6. InUse(p) = stores[p][1] /\ InUse(p) \in Opened(p)
    BY <2>1 DEF InUse, Opened
  <2>7. OrderSound(p) => \A s \in Others(p) : s.explicit
    BY <2>4 DEF OrderSound
  <2> QED BY <2>5, <2>6, <2>7
<1>5. stores[p] = <<>> => Opened(p) = lost[p]
  BY DEF Opened
<1> QED BY <1>3, <1>4, <1>5

\* Every node was made by a process, which had drawn its uuid.
LEMMA MadeBy ==
    ASSUME TypeOK, NEW x \in DOMAIN made
    PROVE  made[x].by \in Process /\ made[x].uuid \in Uuid /\ made[x] = [by |-> made[x].by, uuid |-> made[x].uuid]
<1> DEFINE Made == [by : Process, uuid : Uuid]
<1>1. made \in Seq(Made)
  BY DEF TypeOK
<1>2. made[x] \in Made
  <2> HIDE DEF Made
  <2> QED BY <1>1
<1> QED BY <1>2

\* Who opens nothing has the same storages after a step.
LEMMA OpenedSame ==
    ASSUME NEW p \in Process, stores'[p] = stores[p], lost'[p] = lost[p]
    PROVE  Opened(p)' = Opened(p)
BY DEF Opened

----------------------------------------------------------------------------
(* Closing.                                                                *)

\* What destroy() does to a place: a file that need not be kept is removed.
LEMMA DeleteRemoves ==
    ASSUME GlobalInv, NEW p \in Process, stores[p] # <<>>, DeleteInUse(p)
    PROVE  /\ dir' \in [Place -> {Nothing} \cup DOMAIN vols]
           /\ \A l \in Place : dir'[l] = dir[l] \/ (dir'[l] = Nothing /\ "dropped" \in ways[l])
           /\ InUse(p).place \in File /\ ~InUse(p).keep => dir'[InUse(p).place] = Nothing
<1> DEFINE s == InUse(p)
<1>1. s \in Opened(p) /\ s \in Store
  BY OpenedParts DEF GlobalInv
<1>2. s.place # Private => Mark(s) \in ways[s.place]
  BY <1>1 DEF GlobalInv, StoreSound
<1>3. dir \in [Place -> {Nothing} \cup DOMAIN vols]
  BY DEF GlobalInv, TypeOK
<1>4. dir' = IF s.place \in File /\ ~s.keep THEN [dir EXCEPT ![s.place] = Nothing] ELSE dir
  BY DEF DeleteInUse, Removed
<1>5. s.place \in File => s.place \in Place /\ s.place # Private
  BY PlaceAssumption DEF Place
<1>6. s.place \in File /\ ~s.keep => "dropped" \in ways[s.place]
  BY <1>2, <1>5 DEF Mark
<1> HIDE DEF s
<1>7. CASE s.place \in File /\ ~s.keep
  <2>1. dir' = [dir EXCEPT ![s.place] = Nothing]
    BY <1>4, <1>7
  <2>2. "dropped" \in ways[s.place] /\ s.place \in Place
    BY <1>5, <1>6, <1>7
  <2>3. dir'[s.place] = Nothing /\ \A l \in Place : l # s.place => dir'[l] = dir[l]
    BY <1>3, <2>1, <2>2
  <2>4. dir' \in [Place -> {Nothing} \cup DOMAIN vols]
    BY <1>3, <2>1, <2>2
  <2> QED BY <2>2, <2>3, <2>4 DEF s
<1>8. CASE ~(s.place \in File /\ ~s.keep)
  BY <1>3, <1>4, <1>8 DEF s
<1> QED BY <1>7, <1>8

\* A process closes storages, or forgets that they are open.
LEMMA CloseKeeps ==
    ASSUME GlobalInv, NEW p \in Process, up' \subseteq up,
           stores' = [stores EXCEPT ![p] = <<>>],
           NEW forgotten \in SUBSET Opened(p), lost' = [lost EXCEPT ![p] = forgotten],
           \A s \in forgotten : s.explicit,
           handles' = [handles EXCEPT ![p] = {}],
           UNCHANGED <<opened, atexit, drawn, vols, made, saved>>,
           ways' \in [Place -> SUBSET Way], \A l \in Place : ways[l] \subseteq ways'[l],
           \A l \in Place : ways'[l] \subseteq ways[l] \cup {"left"},
           dir' \in [Place -> {Nothing} \cup DOMAIN vols],
           \A l \in Place : dir'[l] = dir[l] \/ (dir'[l] = Nothing /\ "dropped" \in ways[l]),
           FilesRemoved'
    PROVE  GlobalInv'
<1> USE DEF GlobalInv
<1>1. Opened(p) \subseteq Store
  BY OpenedParts
<1>2. /\ stores'[p] = <<>> /\ lost'[p] = forgotten /\ handles'[p] = {}
      /\ \A q \in Process : q # p =>
            stores'[q] = stores[q] /\ lost'[q] = lost[q] /\ handles'[q] = handles[q]
  BY DEF TypeOK
<1>3. /\ Opened(p)' \subseteq Opened(p)
      /\ \A q \in Process : q # p => Opened(q)' = Opened(q)
  <2>1. Opened(p)' = forgotten
    BY <1>2 DEF Opened
  <2> QED BY <1>2, <2>1, OpenedSame
<1>4. TypeOK'
  <2>1. stores' \in [Process -> Seq(Store)] /\ lost' \in [Process -> SUBSET Store]
    BY <1>1 DEF TypeOK
  <2>2. handles' \in [Process -> SUBSET Handle]
    BY DEF TypeOK
  <2> QED BY <2>1, <2>2 DEF TypeOK
<1>5. DirSound'
  BY DEF DirSound
<1>6. SameSound'
  BY <1>3 DEF SameSound
<1>7. StringSound'
  BY DEF StringSound
<1>12. MadeSound'
  BY DEF MadeSound
<1>8. ASSUME NEW q \in Process PROVE StoreSound(q)'
  <2>1. StoreSound(q) /\ Opened(q)' \subseteq Opened(q)
    BY <1>3
  <2>2. ASSUME NEW s \in Opened(q)'
        PROVE  /\ s.vol \in DOMAIN vols'
               /\ s.place = Private => ~s.keep
               /\ s.place # Private => Mark(s) \in ways'[s.place]
               /\ s.place # Private /\ "dropped" \notin ways'[s.place] => dir'[s.place] = s.vol
               /\ \A l \in Place : dir'[l] = s.vol => s.place = l
    <3>1. s \in Opened(q) /\ s \in Store
      BY <2>1, <2>2, OpenedParts
    <3>2. s.place # Private => s.place \in Place
      BY <3>1 DEF Store
    <3>3. s.vol # Nothing
      BY <3>1 DEF Store, Volume, Nothing
    <3> QED BY <2>1, <3>1, <3>2, <3>3 DEF StoreSound
  <2> QED BY <2>2 DEF StoreSound, Mark
<1>9. ASSUME NEW q \in Process PROVE OrderSound(q)'
  BY <1>2 DEF OrderSound
<1>10. ASSUME NEW q \in Process PROVE HandleSound(q)'
  <2>1. CASE q = p
    BY <1>2, <2>1 DEF HandleSound
  <2>2. CASE q # p
    <3>1. HandleSound(q) /\ handles[q] \subseteq Handle
      BY DEF TypeOK
    <3>2. \A h \in Handle : h.store.place # Private => h.store.place \in Place
      BY DEF Handle, Store
    <3> QED BY <1>2, <2>2, <3>1, <3>2 DEF HandleSound
  <2> QED BY <2>1, <2>2
<1>11. StringsResolve'
  <2>1. ASSUME NEW t \in saved, ways'[t.place] \cap {"dropped", "shared"} = {}
        PROVE  Resolves(t)'
    <3>1. t.place \in Place
      BY <2>1 DEF TypeOK, String
    <3>2. Resolves(t) /\ dir'[t.place] = dir[t.place]
      BY <2>1, <3>1 DEF StringsResolve
    <3> QED BY <3>2 DEF Resolves
  <2> QED BY <2>1 DEF StringsResolve
<1> QED BY <1>4, <1>5, <1>6, <1>7, <1>8, <1>9, <1>10, <1>11, <1>12

\* A file that was in use by p alone is removed, or it has been kept or left.
LEMMA FilesClose ==
    ASSUME GlobalInv, NEW p \in Process, up \ {p} \subseteq up',
           \A q \in Process : q # p => Opened(q)' = Opened(q),
           \A l \in Place : ways[l] \subseteq ways'[l],
           \A l \in Place : dir'[l] \in {dir[l], Nothing},
           \A s \in Opened(p) : s.place \in File =>
                \/ dir'[s.place] = Nothing
                \/ ways'[s.place] \cap {"kept", "left"} # {}
                \/ p \in up' /\ s \in Opened(p)'
    PROVE  FilesRemoved'
<1> SUFFICES ASSUME NEW f \in File, dir'[f] # Nothing, Users(f)' = {}
             PROVE  ways'[f] \cap {"kept", "left"} # {}
  BY DEF FilesRemoved
<1>1. f \in Place /\ dir[f] # Nothing
  BY DEF Place
<1>2. CASE Users(f) = {}
  BY <1>1, <1>2 DEF GlobalInv, FilesRemoved
<1>3. CASE Users(f) # {}
  <2>1. PICK q \in up : \E s \in Opened(q) : s.place = f
    BY <1>3 DEF Users
  <2>2. q \in Process
    BY DEF GlobalInv, TypeOK
  <2>3. q = p
    BY <2>1, <2>2 DEF Users
  <2>4. PICK s \in Opened(p) : s.place = f
    BY <2>1, <2>3
  <2>5. ~(p \in up' /\ s \in Opened(p)')
    BY <2>4 DEF Users
  <2> QED BY <2>4, <2>5
<1> QED BY <1>2, <1>3

\* A storage that is to be kept, or not, has left its mark.
LEMMA Marked ==
    ASSUME GlobalInv, NEW p \in Process, NEW s \in Opened(p), s.place \in File
    PROVE  s.place \in Place /\ s.place # Private /\ (s.keep => "kept" \in ways[s.place])
<1>1. s.place \in Place /\ s.place # Private
  BY PlaceAssumption DEF Place
<1> QED BY <1>1 DEF GlobalInv, StoreSound, Mark

\* destroy(): the storage in use is deleted, and the others are forgotten.
LEMMA DestroyKeeps ==
    ASSUME GlobalInv, NEW p \in Process, Destroy(p)
    PROVE  GlobalInv'
<1>1. TypeOK /\ OrderSound(p)
  BY DEF GlobalInv
<1>2. /\ p \in up /\ stores[p] # <<>> /\ DeleteInUse(p)
      /\ stores' = [stores EXCEPT ![p] = <<>>]
      /\ lost' = [lost EXCEPT ![p] = lost[p] \cup Others(p)]
      /\ handles' = [handles EXCEPT ![p] = {}]
      /\ UNCHANGED <<up, opened, atexit, vols, made, saved, ways>>
      /\ drawn' = drawn
  BY <1>1 DEF Destroy, DrawnAfter, TypeOK
<1>3. /\ InUse(p) \in Opened(p) /\ Opened(p) = {InUse(p)} \cup Others(p) \cup lost[p]
      /\ \A s \in Others(p) \cup lost[p] : s.explicit
  BY <1>1, <1>2, OpenedParts DEF OrderSound
<1>4. /\ dir' \in [Place -> {Nothing} \cup DOMAIN vols]
      /\ \A l \in Place : dir'[l] = dir[l] \/ (dir'[l] = Nothing /\ "dropped" \in ways[l])
      /\ InUse(p).place \in File /\ ~InUse(p).keep => dir'[InUse(p).place] = Nothing
  BY <1>2, DeleteRemoves
<1>5. /\ ways' \in [Place -> SUBSET Way]
      /\ \A l \in Place : ways[l] \subseteq ways'[l] /\ ways'[l] \subseteq ways[l] \cup {"left"}
  BY <1>1, <1>2 DEF TypeOK
<1>6. Opened(p)' = lost[p] \cup Others(p)
  BY <1>1, <1>2 DEF Opened, TypeOK
<1>7. \A q \in Process : q # p => Opened(q)' = Opened(q)
  BY <1>1, <1>2, OpenedSame DEF TypeOK
<1>8. FilesRemoved'
  <2>1. ASSUME NEW s \in Opened(p), s.place \in File
        PROVE  \/ dir'[s.place] = Nothing
               \/ ways'[s.place] \cap {"kept", "left"} # {}
               \/ p \in up' /\ s \in Opened(p)'
    <3>1. CASE s = InUse(p)
      BY <1>2, <1>4, <2>1, <3>1, Marked
    <3>2. CASE s # InUse(p)
      BY <1>2, <1>3, <1>6, <3>2
    <3> QED BY <3>1, <3>2
  <2> QED BY <1>2, <1>4, <1>5, <1>7, <2>1, FilesClose
<1>9. Others(p) \cup lost[p] \in SUBSET Opened(p) /\ lost[p] \cup Others(p) = Others(p) \cup lost[p]
  BY <1>3
<1> QED BY <1>2, <1>3, <1>4, <1>5, <1>8, <1>9, CloseKeeps

\* A process has gone, and ss were open.
LEMMA LeaveKeeps ==
    ASSUME GlobalInv, NEW p \in Process, NEW ss \in SUBSET Opened(p), Leave(p, ss),
           dir' \in [Place -> {Nothing} \cup DOMAIN vols],
           \A l \in Place : dir'[l] = dir[l] \/ (dir'[l] = Nothing /\ "dropped" \in ways[l]),
           \A s \in Opened(p) : s.place \in File =>
                s \in ss \/ dir'[s.place] = Nothing \/ s.keep
    PROVE  GlobalInv'
<1>1. TypeOK
  BY DEF GlobalInv
<1>2. /\ up' = up \ {p}
      /\ stores' = [stores EXCEPT ![p] = <<>>]
      /\ lost' = [lost EXCEPT ![p] = {}]
      /\ handles' = [handles EXCEPT ![p] = {}]
      /\ UNCHANGED <<opened, atexit, drawn, vols, made, saved>>
  BY DEF Leave
<1>3. ways' = [l \in Place |->
                IF \E s \in ss : s.place = l THEN ways[l] \cup {"left"} ELSE ways[l]]
  BY DEF Leave
<1>4. /\ ways' \in [Place -> SUBSET Way]
      /\ \A l \in Place : ways[l] \subseteq ways'[l] /\ ways'[l] \subseteq ways[l] \cup {"left"}
  BY <1>1, <1>3 DEF TypeOK, Way
<1>5. \A q \in Process : q # p => Opened(q)' = Opened(q)
  BY <1>1, <1>2, OpenedSame DEF TypeOK
<1>6. FilesRemoved'
  <2>1. ASSUME NEW s \in Opened(p), s.place \in File
        PROVE  dir'[s.place] = Nothing \/ ways'[s.place] \cap {"kept", "left"} # {}
    <3>1. s.place \in Place /\ (s.keep => "kept" \in ways[s.place])
      BY <2>1, Marked
    <3>2. CASE s \in ss
      BY <1>3, <3>1, <3>2
    <3>3. CASE s.keep
      BY <1>4, <3>1, <3>3
    <3> QED BY <2>1, <3>2, <3>3
  <2> QED BY <1>2, <1>4, <1>5, <2>1, FilesClose
<1>7. {} \in SUBSET Opened(p) /\ up' \subseteq up
  BY <1>2
<1> QED BY <1>2, <1>4, <1>6, <1>7, CloseKeeps

\* The end of a process.
LEMMA ExitKeeps ==
    ASSUME GlobalInv, NEW p \in Process, Exit(p)
    PROVE  GlobalInv'
<1>1. TypeOK /\ OrderSound(p) /\ dir \in [Place -> {Nothing} \cup DOMAIN vols]
  BY DEF GlobalInv, TypeOK
<1>2. CASE p \in atexit /\ stores[p] # <<>>
  <2>1. DeleteInUse(p) /\ Leave(p, Others(p) \cup lost[p])
    BY <1>2 DEF Exit
  <2>2. Opened(p) = {InUse(p)} \cup Others(p) \cup lost[p]
    BY <1>1, <1>2, OpenedParts
  <2>3. /\ dir' \in [Place -> {Nothing} \cup DOMAIN vols]
        /\ \A l \in Place : dir'[l] = dir[l] \/ (dir'[l] = Nothing /\ "dropped" \in ways[l])
        /\ InUse(p).place \in File /\ ~InUse(p).keep => dir'[InUse(p).place] = Nothing
    BY <1>2, <2>1, DeleteRemoves
  <2>4. \A s \in Opened(p) : s.place \in File =>
            s \in Others(p) \cup lost[p] \/ dir'[s.place] = Nothing \/ s.keep
    BY <2>2, <2>3
  <2> QED BY <2>1, <2>2, <2>3, <2>4, LeaveKeeps
<1>3. CASE ~(p \in atexit /\ stores[p] # <<>>)
  <2> DEFINE ss == {s \in Opened(p) : s.explicit}
  <2>1. dir' = dir /\ Leave(p, ss)
    BY <1>3 DEF Exit
  <2>2. ASSUME NEW s \in Opened(p) PROVE s \in ss
    <3>1. CASE stores[p] = <<>>
      BY <1>1, <3>1, OpenedParts DEF OrderSound
    <3>2. CASE stores[p] # <<>>
      <4>1. stores[p][1].explicit
        BY <1>1, <1>3, <3>2 DEF OrderSound
      <4> QED BY <1>1, <3>2, <4>1, OpenedParts DEF OrderSound
    <3> QED BY <3>1, <3>2
  <2>3. ss \in SUBSET Opened(p)
    OBVIOUS
  <2> HIDE DEF ss
  <2> QED BY <1>1, <2>1, <2>2, <2>3, LeaveKeeps
<1> QED BY <1>2, <1>3

\* A process is killed.
LEMMA KillKeeps ==
    ASSUME GlobalInv, NEW p \in Process, Kill(p)
    PROVE  GlobalInv'
<1>1. dir' = dir /\ Leave(p, Opened(p)) /\ dir \in [Place -> {Nothing} \cup DOMAIN vols]
  BY DEF Kill, GlobalInv, TypeOK
<1> QED BY <1>1, LeaveKeeps

----------------------------------------------------------------------------
(* Opening.                                                                *)

\* The storage that is opened is at the end of the list of its process.
LEMMA OpenedOne ==
    ASSUME TypeOK, NEW p \in Process, NEW s \in Store,
           stores' = [stores EXCEPT ![p] = Append(@, s)], lost' = lost
    PROVE  /\ stores' \in [Process -> Seq(Store)]
           /\ stores'[p] # <<>> /\ s = stores'[p][Len(stores[p]) + 1]
           /\ stores'[p][1] = IF stores[p] = <<>> THEN s ELSE stores[p][1]
           /\ DOMAIN stores'[p] = DOMAIN stores[p] \cup {Len(stores[p]) + 1}
           /\ \A i \in DOMAIN stores[p] : stores'[p][i] = stores[p][i]
           /\ Opened(p)' = Opened(p) \cup {s}
           /\ \A q \in Process : q # p => stores'[q] = stores[q] /\ Opened(q)' = Opened(q)
<1>1. stores[p] \in Seq(Store) /\ stores'[p] = Append(stores[p], s)
  BY DEF TypeOK
<1>2. /\ stores'[p] \in Seq(Store) /\ stores'[p] # <<>>
      /\ Len(stores'[p]) = Len(stores[p]) + 1 /\ Len(stores[p]) \in Nat
      /\ s = stores'[p][Len(stores[p]) + 1]
      /\ \A i \in 1 .. Len(stores[p]) : stores'[p][i] = stores[p][i]
      /\ DOMAIN stores[p] = 1 .. Len(stores[p])
      /\ DOMAIN stores'[p] = 1 .. Len(stores'[p])
  BY <1>1
<1>3. DOMAIN stores'[p] = DOMAIN stores[p] \cup {Len(stores[p]) + 1}
  BY <1>2
<1>4. stores'[p][1] = IF stores[p] = <<>> THEN s ELSE stores[p][1]
  <2>1. CASE stores[p] = <<>>
    BY <1>2, <2>1
  <2>2. CASE stores[p] # <<>>
    <3>1. 1 \in 1 .. Len(stores[p])
      BY <1>1, <2>2
    <3> QED BY <1>2, <2>2, <3>1
  <2> QED BY <2>1, <2>2
<1>5. Opened(p)' = Opened(p) \cup {s}
  <2>1. Opened(p)' = {stores'[p][i] : i \in DOMAIN stores'[p]} \cup lost[p]
    BY DEF Opened
  <2>2. \A i \in DOMAIN stores[p] : stores'[p][i] = stores[p][i]
    BY <1>2
  <2> QED BY <1>2, <1>3, <2>1, <2>2 DEF Opened
<1>6. stores' \in [Process -> Seq(Store)]
  BY <1>2 DEF TypeOK
<1>7. \A q \in Process : q # p => stores'[q] = stores[q] /\ Opened(q)' = Opened(q)
  BY DEF TypeOK, Opened
<1> QED BY <1>2, <1>3, <1>4, <1>5, <1>6, <1>7

\* A new storage is in a new volume, or in the one that is found at its place.
Opens(p, l, keep, explicit, s) ==
    /\ s.place = l /\ s.keep = keep /\ s.explicit = explicit
    /\ stores' = [stores EXCEPT ![p] = Append(@, s)]
    /\ opened' \in 0 .. MaxStores /\ opened' = opened + 1
    /\ \/ /\ l \in Place /\ dir[l] # Nothing /\ s.vol = dir[l]
          /\ vols' = vols /\ dir' = dir
       \/ /\ s.vol = Len(vols) + 1
          /\ vols' = Append(vols, [u \in Uuid |-> Nothing])
          /\ IF l \in Place THEN dir[l] = Nothing /\ dir' = [dir EXCEPT ![l] = s.vol]
             ELSE dir' = dir

\* The step of Open in these terms.
LEMMA OpenEffect ==
    ASSUME GlobalInv, NEW p \in Process, NEW l \in Place \cup {Private}, NEW keep \in BOOLEAN,
           NEW explicit \in BOOLEAN, Open(p, l, keep, explicit)
    PROVE  \E s \in Store : Opens(p, l, keep, explicit, s)
<1>1. /\ opened \in 0 .. MaxStores /\ MaxStores \in Nat /\ Len(vols) =< opened
      /\ vols \in Seq([Uuid -> {Nothing} \cup DOMAIN made])
      /\ dir \in [Place -> {Nothing} \cup DOMAIN vols]
  BY BoundAssumption DEF GlobalInv, TypeOK, DirSound
<1>2. DOMAIN vols = 1 .. Len(vols) /\ Len(vols) \in Nat
  BY <1>1
<1> DEFINE fresh == l = Private \/ dir[l] = Nothing
           vol == IF fresh THEN Len(vols) + 1 ELSE dir[l]
           s == [place |-> l, vol |-> vol, keep |-> keep, explicit |-> explicit]
<1>3. /\ opened < MaxStores /\ opened' = opened + 1
      /\ vols' = IF fresh THEN Append(vols, [u \in Uuid |-> Nothing]) ELSE vols
      /\ dir' = IF fresh /\ l # Private THEN [dir EXCEPT ![l] = vol] ELSE dir
      /\ stores' = [stores EXCEPT ![p] = Append(@, s)]
  BY DEF Open
<1>4. l \in Place <=> l # Private
  BY PlaceAssumption DEF Place
<1>5. opened' \in 0 .. MaxStores
  BY <1>1, <1>3
<1>6. vol \in Volume
  <2>1. CASE fresh
    BY <1>1, <1>2, <1>3, <2>1 DEF Volume
  <2>2. CASE ~fresh
    <3>1. dir[l] \in DOMAIN vols
      BY <1>1, <1>4, <2>2
    <3> QED BY <1>1, <1>2, <2>2, <3>1 DEF Volume
  <2> QED BY <2>1, <2>2
<1>7. s \in Store /\ s.place = l /\ s.keep = keep /\ s.explicit = explicit /\ s.vol = vol
  BY <1>6 DEF Store
<1>8. fresh => vol = Len(vols) + 1 /\ vols' = Append(vols, [u \in Uuid |-> Nothing])
  BY <1>3
<1>9. ~fresh => vol = dir[l] /\ vols' = vols /\ dir' = dir
  BY <1>3
<1>10. fresh => IF l \in Place THEN dir[l] = Nothing /\ dir' = [dir EXCEPT ![l] = vol] ELSE dir' = dir
  BY <1>3, <1>4
<1> HIDE DEF s, vol
<1>11. Opens(p, l, keep, explicit, s)
  <2>1. CASE fresh
    BY <1>3, <1>5, <1>7, <1>8, <1>10, <2>1 DEF Opens
  <2>2. CASE ~fresh
    BY <1>3, <1>4, <1>5, <1>7, <1>9, <2>2 DEF Opens
  <2> QED BY <2>1, <2>2
<1> QED BY <1>7, <1>11

\* The volumes that were there keep their nodes.
LEMMA VolumesStay ==
    ASSUME GlobalInv, vols' = vols \/ vols' = Append(vols, [u \in Uuid |-> Nothing]), made' = made
    PROVE  /\ vols' \in Seq([Uuid -> {Nothing} \cup DOMAIN made])
           /\ DOMAIN vols \subseteq DOMAIN vols' /\ DOMAIN vols = 1 .. Len(vols) /\ Len(vols) \in Nat
           /\ \A v \in DOMAIN vols : vols'[v] = vols[v]
           /\ vols' # vols => Len(vols) + 1 \in DOMAIN vols' /\ Len(vols') = Len(vols) + 1
<1>1. vols \in Seq([Uuid -> {Nothing} \cup DOMAIN made])
  BY DEF GlobalInv, TypeOK
<1>2. [u \in Uuid |-> Nothing] \in [Uuid -> {Nothing} \cup DOMAIN made]
  OBVIOUS
<1>3. CASE vols' = vols
  BY <1>1, <1>3
<1>4. CASE vols' = Append(vols, [u \in Uuid |-> Nothing])
  BY <1>1, <1>2, <1>4
<1> QED BY <1>3, <1>4

\* A volume that was not there has no nodes.
LEMMA NewVolume ==
    ASSUME vols \in Seq([Uuid -> {Nothing} \cup DOMAIN made]),
           vols' = vols \/ vols' = Append(vols, [u \in Uuid |-> Nothing]),
           NEW v \in DOMAIN vols' \ DOMAIN vols, NEW w \in Uuid
    PROVE  vols'[v][w] = Nothing
<1>1. vols' = Append(vols, [u \in Uuid |-> Nothing])
  OBVIOUS
<1>2. [u \in Uuid |-> Nothing] \in [Uuid -> {Nothing} \cup DOMAIN made]
  OBVIOUS
<1>3. v = Len(vols) + 1 /\ vols'[v] = [u \in Uuid |-> Nothing]
  BY <1>1, <1>2
<1> QED BY <1>3

\* A process opens a storage, and may have a handle in it, if it is the first.
LEMMA OpenKeeps ==
    ASSUME GlobalInv, NEW p \in up, NEW l \in Place \cup {Private}, NEW keep \in BOOLEAN,
           NEW explicit \in BOOLEAN, Settings(l, keep), Open(p, l, keep, explicit),
           UNCHANGED <<up, lost, drawn, made, saved>>,
           atexit \subseteq atexit', atexit' \subseteq Process,
           explicit \/ (stores[p] = <<>> /\ p \in atexit'),
           handles' \in [Process -> SUBSET Handle],
           \A q \in Process : q # p => handles'[q] = handles[q],
           \A h \in handles'[p] : h \in handles[p] \/
                /\ stores[p] = <<>> /\ h.store = stores'[p][1] /\ l \in Place
                /\ h.node \in DOMAIN made /\ h.uuid =< drawn[made[h.node].by]
                /\ dir[l] # Nothing /\ vols[dir[l]][h.uuid] = h.node
    PROVE  GlobalInv'
<1> USE DEF GlobalInv
<1>1. p \in Process
  BY DEF TypeOK
<1>0. PICK s \in Store : Opens(p, l, keep, explicit, s)
  BY <1>1, OpenEffect
<1>2. /\ s.place = l /\ s.keep = keep /\ s.explicit = explicit
      /\ stores' = [stores EXCEPT ![p] = Append(@, s)]
      /\ opened' \in 0 .. MaxStores /\ opened' = opened + 1
      /\ \/ /\ l \in Place /\ dir[l] # Nothing /\ s.vol = dir[l]
            /\ vols' = vols /\ dir' = dir
         \/ /\ s.vol = Len(vols) + 1
            /\ vols' = Append(vols, [u \in Uuid |-> Nothing])
            /\ IF l \in Place THEN dir[l] = Nothing /\ dir' = [dir EXCEPT ![l] = s.vol]
               ELSE dir' = dir
  BY <1>0 DEF Opens
<1>3. /\ stores' \in [Process -> Seq(Store)]
      /\ stores'[p] # <<>> /\ s = stores'[p][Len(stores[p]) + 1]
      /\ stores'[p][1] = IF stores[p] = <<>> THEN s ELSE stores[p][1]
      /\ DOMAIN stores'[p] = DOMAIN stores[p] \cup {Len(stores[p]) + 1}
      /\ \A i \in DOMAIN stores[p] : stores'[p][i] = stores[p][i]
      /\ Opened(p)' = Opened(p) \cup {s}
      /\ \A q \in Process : q # p => stores'[q] = stores[q] /\ Opened(q)' = Opened(q)
  BY <1>1, <1>2, OpenedOne
<1>4. /\ vols' \in Seq([Uuid -> {Nothing} \cup DOMAIN made])
      /\ DOMAIN vols \subseteq DOMAIN vols' /\ DOMAIN vols = 1 .. Len(vols) /\ Len(vols) \in Nat
      /\ \A v \in DOMAIN vols : vols'[v] = vols[v]
      /\ vols' # vols => Len(vols) + 1 \in DOMAIN vols' /\ Len(vols') = Len(vols) + 1
  BY <1>2, VolumesStay
<1>5. l \in Place <=> l # Private
  BY PlaceAssumption DEF Place
<1>6. /\ ways' \in [Place -> SUBSET Way]
      /\ \A m \in Place : ways[m] \subseteq ways'[m]
      /\ l # Private => Mark(s) \in ways'[l]
      /\ \A m \in Place : "shared" \in ways'[m] => "shared" \in ways[m]
      /\ \A m \in Place : m # l => ways'[m] = ways[m]
  <2>1. ways' = IF l = Private THEN ways
                ELSE [ways EXCEPT ![l] = @ \cup {IF keep THEN "kept" ELSE "dropped"}]
    BY DEF Open
  <2> QED BY <1>2, <1>5, <2>1 DEF TypeOK, Mark, Way
<1>7. /\ dir \in [Place -> {Nothing} \cup DOMAIN vols]
      /\ dir' \in [Place -> {Nothing} \cup DOMAIN vols']
      /\ s.vol \in DOMAIN vols'
      /\ \A m \in Place : m # l => dir'[m] = dir[m]
      /\ l \in Place => dir'[l] = s.vol
      /\ \A m \in Place : dir[m] # Nothing => dir'[m] = dir[m]
  <2>1. dir \in [Place -> {Nothing} \cup DOMAIN vols]
    BY DEF TypeOK
  <2>2. CASE vols' = vols /\ dir' = dir /\ l \in Place /\ dir[l] # Nothing /\ s.vol = dir[l]
    BY <2>1, <2>2
  <2>3. CASE /\ s.vol = Len(vols) + 1
             /\ vols' = Append(vols, [u \in Uuid |-> Nothing])
             /\ IF l \in Place THEN dir[l] = Nothing /\ dir' = [dir EXCEPT ![l] = s.vol]
                ELSE dir' = dir
    <3>1. vols' # vols
      <4>1. vols \in Seq([Uuid -> {Nothing} \cup DOMAIN made])
        BY DEF TypeOK
      <4>2. \A g : Len(Append(vols, g)) = Len(vols) + 1
        BY <4>1
      <4>3. Len(vols') = Len(vols) + 1
        BY <2>3, <4>2
      <4> QED BY <1>4, <4>3
    <3>2. s.vol \in DOMAIN vols'
      BY <1>4, <2>3, <3>1
    <3> QED BY <1>4, <2>1, <2>3, <3>2
  <2> QED BY <1>2, <2>2, <2>3
<1>8. TypeOK'
  BY <1>2, <1>3, <1>4, <1>6, <1>7 DEF TypeOK
<1>9. DirSound'
  <2>1. Len(vols') =< opened'
    <3>1. opened \in Nat /\ Len(vols) =< opened
      BY DEF TypeOK, DirSound
    <3> QED BY <1>2, <1>4, <3>1
  <2>2. ASSUME NEW m \in Place, NEW k \in Place, dir'[m] = dir'[k], dir'[m] # Nothing
        PROVE  m = k
    <3>1. CASE dir' = dir
      BY <2>2, <3>1 DEF DirSound
    <3>2. CASE l \in Place /\ s.vol = Len(vols) + 1
      <4>1. \A x \in Place : dir[x] # Len(vols) + 1
        BY <1>4, <1>7 DEF Nothing
      <4> QED BY <1>7, <2>2, <3>2, <4>1 DEF DirSound
    <3> QED BY <1>2, <3>1, <3>2
  <2> QED BY <2>1, <2>2 DEF DirSound
<1>10. ASSUME NEW q \in Process, NEW r \in Opened(q), r.vol = s.vol
       PROVE  l \in Place /\ r.place = l
  <2>1. r.vol \in DOMAIN vols /\ \A m \in Place : dir[m] = r.vol => r.place = m
    BY <1>10 DEF StoreSound
  <2>2. s.vol # Len(vols) + 1
    BY <1>4, <1>10, <2>1
  <2> QED BY <1>2, <1>10, <2>1, <2>2
<1>11. SameSound'
  <2>1. SUFFICES ASSUME NEW q \in Process, NEW r \in Process, NEW x \in Opened(q)', NEW y \in Opened(r)',
                        x.vol = y.vol
                 PROVE  x.place = y.place /\ (x.place = Private => q = r)
    BY DEF SameSound
  <2>2. CASE x \in Opened(q) /\ y \in Opened(r)
    BY <2>1, <2>2 DEF SameSound
  <2>3. CASE x \notin Opened(q) /\ y \in Opened(r)
    <3>1. q = p /\ x = s
      BY <1>3, <2>1, <2>3
    <3> QED BY <1>2, <1>5, <1>10, <2>1, <2>3, <3>1
  <2>4. CASE x \in Opened(q) /\ y \notin Opened(r)
    <3>1. r = p /\ y = s
      BY <1>3, <2>1, <2>4
    <3> QED BY <1>2, <1>5, <1>10, <2>1, <2>4, <3>1
  <2>5. CASE x \notin Opened(q) /\ y \notin Opened(r)
    <3>1. q = p /\ x = s
      BY <1>3, <2>1, <2>5
    <3>2. r = p /\ y = s
      BY <1>3, <2>1, <2>5
    <3> QED BY <3>1, <3>2
  <2> QED BY <2>2, <2>3, <2>4, <2>5
<1>12. StringSound'
  BY DEF StringSound
<1>18. MadeSound'
  <2>1. ASSUME NEW v \in DOMAIN vols', NEW u \in Uuid, vols'[v][u] # Nothing
        PROVE  made[vols'[v][u]].uuid = u
    <3>1. CASE v \in DOMAIN vols
      BY <1>4, <2>1, <3>1 DEF MadeSound
    <3>2. CASE v \notin DOMAIN vols
      BY <1>2, <1>4, <2>1, <3>2, NewVolume DEF TypeOK
    <3> QED BY <3>1, <3>2
  <2> QED BY <2>1 DEF MadeSound
<1>13. ASSUME NEW q \in Process PROVE StoreSound(q)'
  <2>1. SUFFICES ASSUME NEW r \in Opened(q)'
        PROVE  /\ r.vol \in DOMAIN vols'
               /\ r.place = Private => ~r.keep
               /\ r.place # Private => Mark(r) \in ways'[r.place]
               /\ r.place # Private /\ "dropped" \notin ways'[r.place] => dir'[r.place] = r.vol
               /\ \A m \in Place : dir'[m] = r.vol => r.place = m
    BY DEF StoreSound, Mark
  <2>2. CASE r \in Opened(q)
    <3>1. /\ r.vol \in DOMAIN vols
          /\ r.place = Private => ~r.keep
          /\ r.place # Private => Mark(r) \in ways[r.place]
          /\ r.place # Private /\ "dropped" \notin ways[r.place] => dir[r.place] = r.vol
          /\ \A m \in Place : dir[m] = r.vol => r.place = m
      BY <2>2 DEF StoreSound
    <3>2. r \in Store /\ (r.place # Private => r.place \in Place) /\ r.vol # Nothing
      <4>1. r \in Store
        BY <2>2, OpenedParts
      <4> QED BY <4>1 DEF Store, Volume, Nothing
    <3>3. \A m \in Place : dir'[m] = r.vol => r.place = m
      <4>1. ASSUME NEW m \in Place, dir'[m] = r.vol PROVE r.place = m
        <5>1. CASE m # l
          BY <1>7, <3>1, <4>1, <5>1
        <5>2. CASE m = l
          BY <1>7, <1>10, <2>2, <4>1, <5>2
        <5> QED BY <5>1, <5>2
      <4> QED BY <4>1
    <3> QED BY <1>4, <1>6, <1>7, <3>1, <3>2, <3>3
  <2>3. CASE r \notin Opened(q)
    <3>1. q = p /\ r = s
      BY <1>3, <2>1, <2>3
    <3>2. \A m \in Place : dir'[m] = s.vol => s.place = m
      <4>1. ASSUME NEW m \in Place, dir'[m] = s.vol, m # l PROVE FALSE
        <5>1. dir[m] = s.vol
          BY <1>7, <4>1
        <5>2. s.vol # Len(vols) + 1
          BY <1>4, <1>7, <5>1 DEF Nothing
        <5>3. l \in Place /\ dir[l] = s.vol /\ dir[l] # Nothing
          BY <1>2, <5>2
        <5> QED BY <4>1, <5>1, <5>3 DEF DirSound
      <4> QED BY <1>2, <4>1
    <3>3. l = Private => ~keep
      BY DEF Settings
    <3> QED BY <1>2, <1>5, <1>6, <1>7, <3>1, <3>2, <3>3
  <2> QED BY <2>2, <2>3
<1>14. ASSUME NEW q \in Process PROVE OrderSound(q)'
  <2>1. OrderSound(q)
    OBVIOUS
  <2>2. CASE q # p
    BY <1>3, <2>1, <2>2 DEF OrderSound
  <2>3. CASE q = p
    <3>1. \A x \in lost'[p] : x.explicit
      BY <2>1, <2>3 DEF OrderSound
    <3>2. ASSUME NEW i \in DOMAIN stores'[p], i # 1 PROVE stores'[p][i].explicit
      <4>1. CASE i \in DOMAIN stores[p]
        BY <1>3, <2>1, <2>3, <3>2, <4>1 DEF OrderSound
      <4>2. CASE i = Len(stores[p]) + 1
        <5>1. stores[p] # <<>>
          BY <3>2, <4>2
        <5> QED BY <1>2, <1>3, <4>2, <5>1
      <4> QED BY <1>3, <3>2, <4>1, <4>2
    <3>3. ~stores'[p][1].explicit => p \in atexit'
      <4>1. CASE stores[p] = <<>>
        BY <1>2, <1>3, <4>1
      <4>2. CASE stores[p] # <<>>
        BY <1>3, <2>1, <2>3, <4>2 DEF OrderSound
      <4> QED BY <4>1, <4>2
    <3> QED BY <2>3, <3>1, <3>2, <3>3 DEF OrderSound
  <2> QED BY <2>2, <2>3
<1>15. ASSUME NEW q \in Process PROVE HandleSound(q)'
  <2>1. SUFFICES ASSUME NEW h \in handles'[q]
        PROVE  /\ stores'[q] # <<>> /\ h.store = stores'[q][1]
               /\ h.node \in DOMAIN made /\ h.uuid =< drawn[made[h.node].by]
               /\ h.store.place = Private => made[h.node].by = q
               /\ h.store.place = Private \/ "shared" \notin ways'[h.store.place] =>
                    vols'[h.store.vol][h.uuid] = h.node
    BY DEF HandleSound
  <2>2. CASE h \in handles[q]
    <3>1. /\ stores[q] # <<>> /\ h.store = stores[q][1]
          /\ h.node \in DOMAIN made /\ h.uuid =< drawn[made[h.node].by]
          /\ h.store.place = Private => made[h.node].by = q
          /\ h.store.place = Private \/ "shared" \notin ways[h.store.place] =>
                vols[h.store.vol][h.uuid] = h.node
      BY <2>2 DEF HandleSound
    <3>2. h.store \in Opened(q) /\ h.store \in Store
      BY <3>1, OpenedParts
    <3>3. h.store.vol \in DOMAIN vols /\ (h.store.place # Private => h.store.place \in Place)
      BY <3>2 DEF StoreSound, Store
    <3>4. stores'[q] # <<>> /\ h.store = stores'[q][1]
      BY <1>3, <3>1
    <3> QED BY <1>4, <1>6, <3>1, <3>3, <3>4
  <2>3. CASE h \notin handles[q]
    <3>1. /\ q = p /\ stores[p] = <<>> /\ h.store = stores'[p][1] /\ l \in Place
          /\ h.node \in DOMAIN made /\ h.uuid =< drawn[made[h.node].by]
          /\ dir[l] # Nothing /\ vols[dir[l]][h.uuid] = h.node
      BY <2>1, <2>3
    <3>2. h.store = s /\ s.vol = dir[l]
      BY <1>3, <1>7, <3>1
    <3>3. dir[l] \in DOMAIN vols
      BY <1>7, <3>1
    <3> QED BY <1>2, <1>3, <1>4, <1>5, <3>1, <3>2, <3>3
  <2> QED BY <2>2, <2>3
<1>16. StringsResolve'
  <2>1. ASSUME NEW t \in saved, ways'[t.place] \cap {"dropped", "shared"} = {}
        PROVE  Resolves(t)'
    <3>1. t.place \in Place
      BY <2>1 DEF TypeOK, String
    <3>2. Resolves(t)
      BY <1>6, <2>1, <3>1 DEF StringsResolve
    <3>3. dir'[t.place] = dir[t.place] /\ dir[t.place] # Nothing /\ dir[t.place] \in DOMAIN vols
      BY <1>7, <3>1, <3>2 DEF Resolves
    <3> QED BY <1>4, <3>2, <3>3 DEF Resolves
  <2> QED BY <2>1 DEF StringsResolve
<1>17. FilesRemoved'
  <2>1. ASSUME NEW f \in File, dir'[f] # Nothing, Users(f)' = {}
        PROVE  ways'[f] \cap {"kept", "left"} # {}
    <3>1. f \in Place
      BY DEF Place
    <3>2. f # l
      BY <1>2, <1>3, <2>1 DEF Users
    <3>3. Users(f) = {}
      <4>1. ASSUME NEW q \in up, NEW r \in Opened(q), r.place = f PROVE FALSE
        <5>1. q \in Process /\ r \in Opened(q)'
          BY <1>3, <4>1 DEF TypeOK
        <5> QED BY <2>1, <4>1, <5>1 DEF Users
      <4> QED BY <4>1 DEF Users
    <3> QED BY <1>6, <1>7, <2>1, <3>1, <3>2, <3>3 DEF FilesRemoved
  <2> QED BY <2>1 DEF FilesRemoved
<1> QED BY <1>8, <1>9, <1>11, <1>12, <1>13, <1>14, <1>15, <1>16, <1>17, <1>18

\* init() with arguments.
LEMMA ExplicitInitKeeps ==
    ASSUME GlobalInv, NEW p \in Process, NEW l \in Place \cup {Private}, NEW keep \in BOOLEAN,
           ExplicitInit(p, l, keep)
    PROVE  GlobalInv'
<1>1. /\ p \in up /\ Settings(l, keep) /\ Open(p, l, keep, TRUE)
      /\ UNCHANGED <<up, lost, atexit, drawn, made, handles, saved>>
  BY DEF ExplicitInit
<1>2. atexit' \subseteq Process /\ handles' \in [Process -> SUBSET Handle]
  BY <1>1 DEF GlobalInv, TypeOK
<1> QED BY <1>1, <1>2, OpenKeeps

\* The init() of a constructor.
LEMMA ImplicitInitKeeps ==
    ASSUME GlobalInv, NEW p \in Process, NEW l \in Place \cup {Private}, NEW keep \in BOOLEAN,
           ImplicitInit(p, l, keep)
    PROVE  GlobalInv'
<1>1. /\ p \in up /\ stores[p] = <<>> /\ Settings(l, keep) /\ Open(p, l, keep, FALSE)
      /\ UNCHANGED <<up, lost, drawn, made, handles, saved>> /\ atexit' = atexit \cup {p}
  BY DEF ImplicitInit, Registered
<1>2. atexit' \subseteq Process /\ handles' \in [Process -> SUBSET Handle]
  BY <1>1 DEF GlobalInv, TypeOK
<1> QED BY <1>1, <1>2, OpenKeeps

\* A string is read: the storage is opened, and the handle leads to the node or nowhere.
LEMMA DeserializeKeeps ==
    ASSUME GlobalInv, NEW p \in Process, NEW t \in saved, Deserialize(p, t)
    PROVE  GlobalInv'
<1>1. /\ p \in up /\ stores[p] = <<>> /\ Open(p, t.place, TRUE, TRUE)
      /\ handles' = IF Resolves(t)
                    THEN [handles EXCEPT ![p] =
                      @ \cup {[store |-> Head(stores'[p]), uuid |-> t.uuid, node |-> t.node]}]
                    ELSE handles
      /\ UNCHANGED <<up, lost, atexit, drawn, made, saved>>
  BY DEF Deserialize
<1>2. /\ t \in String /\ t.place \in Place /\ t.uuid \in Uuid /\ t.node \in Node
      /\ t.node \in DOMAIN made /\ t.uuid =< drawn[made[t.node].by]
  BY DEF GlobalInv, TypeOK, StringSound, String
<1>3. t.place # Private /\ Settings(t.place, TRUE)
  BY <1>2, PlaceAssumption DEF Settings, Place
<1>4. PICK s \in Store : Opens(p, t.place, TRUE, TRUE, s)
  <2>1. t.place \in Place \cup {Private} /\ TRUE \in BOOLEAN
    BY <1>2
  <2>2. Open(p, t.place, TRUE, TRUE)
    BY <1>1
  <2> QED BY <2>1, <2>2, OpenEffect
<1>5. stores'[p] # <<>> /\ stores'[p][1] = s /\ stores' \in [Process -> Seq(Store)]
  <2>1. stores' = [stores EXCEPT ![p] = Append(@, s)] /\ lost' = lost /\ TypeOK
    BY <1>1, <1>4 DEF GlobalInv, Opens
  <2> QED BY <1>1, <2>1, OpenedOne
<1>6. Head(stores'[p]) = s
  <2>1. stores'[p] \in Seq(Store)
    BY <1>5
  <2> QED BY <1>5, <2>1
<1> DEFINE h == [store |-> s, uuid |-> t.uuid, node |-> t.node]
<1>7. h \in Handle /\ h.store = s /\ h.uuid = t.uuid /\ h.node = t.node
  BY <1>2 DEF Handle
<1> HIDE DEF h
<1>8. /\ handles' \in [Process -> SUBSET Handle]
      /\ \A q \in Process : q # p => handles'[q] = handles[q]
      /\ \A x \in handles'[p] : x \in handles[p] \/ (x = h /\ Resolves(t))
  <2>1. handles' = IF Resolves(t) THEN [handles EXCEPT ![p] = @ \cup {h}] ELSE handles
    BY <1>1, <1>6 DEF h
  <2>2. handles \in [Process -> SUBSET Handle]
    BY DEF GlobalInv, TypeOK
  <2> QED BY <1>7, <2>1, <2>2
<1>9. Resolves(t) => dir[t.place] # Nothing /\ vols[dir[t.place]][t.uuid] = t.node
  BY DEF Resolves
<1>10. atexit' \subseteq Process
  BY <1>1 DEF GlobalInv, TypeOK
<1>11. \A x \in handles'[p] : x \in handles[p] \/
            /\ stores[p] = <<>> /\ x.store = stores'[p][1] /\ t.place \in Place
            /\ x.node \in DOMAIN made /\ x.uuid =< drawn[made[x.node].by]
            /\ dir[t.place] # Nothing /\ vols[dir[t.place]][x.uuid] = x.node
  BY <1>1, <1>2, <1>5, <1>7, <1>8, <1>9
<1>12. UNCHANGED <<up, lost, drawn, made, saved>> /\ atexit \subseteq atexit'
       /\ t.place \in Place \cup {Private} /\ TRUE \in BOOLEAN
  BY <1>1, <1>2
<1> QED BY <1>1, <1>3, <1>8, <1>10, <1>11, <1>12, OpenKeeps

----------------------------------------------------------------------------
(* Nodes.                                                                  *)

\* What New stores, and where.
News(p, n, s, u, node) ==
    /\ s = InUse(p) /\ u = drawn[p] + n /\ node = Len(made) + 1
    /\ stores[p] # <<>> /\ s = stores[p][1] /\ s \in Opened(p)
    /\ s.vol \in DOMAIN vols
    /\ u > drawn[p] /\ drawn[p] \in Int /\ drawn' = [drawn EXCEPT ![p] = u]
    /\ made' \in Seq([by : Process, uuid : Uuid]) /\ DOMAIN made' = DOMAIN made \cup {node}
    /\ made'[node] = [by |-> p, uuid |-> u] /\ \A x \in DOMAIN made : x # 0 /\ x # node /\ made'[x] = made[x]
    /\ vols' \in Seq([Uuid -> {Nothing} \cup DOMAIN made']) /\ Len(vols') = Len(vols)
    /\ DOMAIN vols' = DOMAIN vols
    /\ vols'[s.vol][u] = node
    /\ \A v \in DOMAIN vols : \A w \in Uuid :
        v # s.vol \/ w =< drawn[p] => vols'[v][w] = vols[v][w]
    /\ \A w \in Uuid : w # u => vols'[s.vol][w] \in {vols[s.vol][w], Nothing}

\* The step of New in these terms.
LEMMA NewEffect ==
    ASSUME GlobalInv, NEW p \in Process, NEW n \in 1 .. 2, New(p, n)
    PROVE  \E s \in Store, u \in Uuid, node \in Node : News(p, n, s, u, node)
<1> DEFINE s == InUse(p)
           u == drawn[p] + n
           node == Len(made) + 1
           cell == [v \in Uuid |-> IF v = u THEN node
                                   ELSE IF v \in (drawn[p] + 1) .. u THEN Nothing
                                   ELSE vols[s.vol][v]]
<1>1. /\ stores[p] # <<>> /\ node =< MaxNodes /\ u \in Uuid
      /\ drawn' = [drawn EXCEPT ![p] = u] /\ made' = Append(made, [by |-> p, uuid |-> u])
      /\ vols' = [vols EXCEPT ![s.vol] = cell]
  BY DEF New, Drawn
<1>2. /\ drawn \in [Process -> {0} \cup Uuid] /\ made \in Seq([by : Process, uuid : Uuid])
      /\ vols \in Seq([Uuid -> {Nothing} \cup DOMAIN made])
  BY DEF GlobalInv, TypeOK
<1>3. s = stores[p][1] /\ s \in Opened(p) /\ s \in Store /\ s.vol \in DOMAIN vols
  BY <1>1, OpenedParts DEF GlobalInv, StoreSound
<1>4. drawn[p] \in Int
  BY <1>2 DEF Uuid
<1>5. /\ made' \in Seq([by : Process, uuid : Uuid]) /\ DOMAIN made' = DOMAIN made \cup {node}
      /\ made'[node] = [by |-> p, uuid |-> u] /\ \A x \in DOMAIN made : x # 0 /\ x # node /\ made'[x] = made[x]
  BY <1>1, <1>2
<1>6. node \in Node
  BY <1>1, <1>2 DEF Node
<1>7. cell \in [Uuid -> {Nothing} \cup DOMAIN made']
  <2>1. vols[s.vol] \in [Uuid -> {Nothing} \cup DOMAIN made]
    BY <1>2, <1>3
  <2> QED BY <1>5, <2>1
<1>8. cell[u] = node /\ \A w \in Uuid : w =< drawn[p] => cell[w] = vols[s.vol][w]
  BY <1>1, <1>4
<1>13. \A w \in Uuid : w # u => cell[w] \in {vols[s.vol][w], Nothing}
  OBVIOUS
<1>14. u > drawn[p]
  BY <1>4
<1> HIDE DEF s, cell
<1>9. vols' \in Seq([Uuid -> {Nothing} \cup DOMAIN made']) /\ Len(vols') = Len(vols)
      /\ DOMAIN vols' = DOMAIN vols
  <2>1. vols \in Seq([Uuid -> {Nothing} \cup DOMAIN made'])
    <3>1. \A i \in 1 .. Len(vols) : vols[i] \in [Uuid -> {Nothing} \cup DOMAIN made']
      BY <1>2, <1>5
    <3>2. vols = [i \in 1 .. Len(vols) |-> vols[i]] /\ Len(vols) \in Nat
      BY <1>2
    <3> QED BY <3>1, <3>2
  <2> QED BY <1>1, <1>3, <1>7, <2>1
<1>10. vols'[s.vol] = cell /\ \A v \in DOMAIN vols : v # s.vol => vols'[v] = vols[v]
  BY <1>1, <1>2, <1>3
<1>11. s = InUse(p) /\ u = drawn[p] + n /\ node = Len(made) + 1
  BY DEF s
<1> HIDE DEF u, node
<1>12. News(p, n, s, u, node)
  BY <1>1, <1>3, <1>4, <1>5, <1>6, <1>8, <1>9, <1>10, <1>11, <1>13, <1>14 DEF News
<1> QED BY <1>1, <1>3, <1>6, <1>12

\* A new node may take the place of one of another process, and of no other.
LEMMA NewKeeps ==
    ASSUME GlobalInv, NEW p \in Process, NEW n \in 1 .. 2, New(p, n)
    PROVE  GlobalInv'
<1> USE DEF GlobalInv
<1>0. PICK s \in Store, u \in Uuid, node \in Node : News(p, n, s, u, node)
  BY NewEffect
<1>1. /\ s = InUse(p) /\ u = drawn[p] + n /\ node = Len(made) + 1
      /\ stores[p] # <<>> /\ s = stores[p][1] /\ s \in Opened(p)
      /\ s.vol \in DOMAIN vols
      /\ u > drawn[p] /\ drawn[p] \in Int /\ drawn' = [drawn EXCEPT ![p] = u]
      /\ made' \in Seq([by : Process, uuid : Uuid]) /\ DOMAIN made' = DOMAIN made \cup {node}
      /\ made'[node] = [by |-> p, uuid |-> u] /\ \A x \in DOMAIN made : x # 0 /\ x # node /\ made'[x] = made[x]
      /\ vols' \in Seq([Uuid -> {Nothing} \cup DOMAIN made']) /\ Len(vols') = Len(vols)
      /\ DOMAIN vols' = DOMAIN vols
      /\ vols'[s.vol][u] = node
      /\ \A v \in DOMAIN vols : \A w \in Uuid :
          v # s.vol \/ w =< drawn[p] => vols'[v][w] = vols[v][w]
      /\ \A w \in Uuid : w # u => vols'[s.vol][w] \in {vols[s.vol][w], Nothing}
      /\ s \in Store /\ u \in Uuid /\ node \in Node
  BY <1>0 DEF News
<1> DEFINE others == \E v \in Uuid : vols[s.vol][v] # Nothing /\ made[vols[s.vol][v]].by # p
<1>2. /\ handles' = [handles EXCEPT ![p] = @ \cup {[store |-> s, uuid |-> u, node |-> node]}]
      /\ ways' = IF others THEN [ways EXCEPT ![s.place] = @ \cup {"shared"}] ELSE ways
      /\ UNCHANGED <<up, stores, opened, lost, atexit, dir, saved>>
  <2>1. s = InUse(p) /\ u = Drawn(p, n) /\ node = Len(made) + 1
    BY <1>1 DEF Drawn
  <2>2. LET r == InUse(p)
            x == Drawn(p, n)
            m == Len(made) + 1
            o == \E v \in Uuid : vols[r.vol][v] # Nothing /\ made[vols[r.vol][v]].by # p
        IN  /\ handles' = [handles EXCEPT ![p] = @ \cup {[store |-> r, uuid |-> x, node |-> m]}]
            /\ ways' = IF o THEN [ways EXCEPT ![r.place] = @ \cup {"shared"}] ELSE ways
            /\ UNCHANGED <<up, stores, opened, lost, atexit, dir, saved>>
    BY DEF New
  <2> QED BY <2>1, <2>2
<1>3. /\ ways' \in [Place -> SUBSET Way] /\ \A l \in Place : ways[l] \subseteq ways'[l]
      /\ \A l \in Place : ways'[l] \subseteq ways[l] \cup {"shared"}
      /\ others /\ s.place \in Place => "shared" \in ways'[s.place]
  <2>1. ways \in [Place -> SUBSET Way]
    BY DEF TypeOK
  <2>2. CASE others
    BY <1>2, <2>1, <2>2 DEF Way
  <2>3. CASE ~others
    BY <1>2, <2>1, <2>3
  <2> QED BY <2>2, <2>3
<1>4. \A q \in Process : Opened(q)' = Opened(q)
  BY <1>2, OpenedSame
<1>5. /\ drawn \in [Process -> {0} \cup Uuid] /\ made \in Seq([by : Process, uuid : Uuid])
      /\ \A x \in DOMAIN made : made[x].by \in Process /\ made[x].uuid \in Uuid
  BY MadeBy DEF TypeOK
<1>6. /\ drawn' \in [Process -> {0} \cup Uuid] /\ drawn'[p] = u
      /\ \A q \in Process : drawn[q] \in Int /\ drawn'[q] \in Int /\ drawn[q] =< drawn'[q]
  BY <1>1, <1>5 DEF Uuid
<1>7. ASSUME NEW x \in DOMAIN made, NEW w \in Uuid, w =< drawn[made[x].by]
      PROVE  /\ x \in DOMAIN made' /\ w =< drawn'[made'[x].by]
             /\ \A v \in DOMAIN vols : vols[v][w] = x =>
                    vols'[v][w] = x \/ (v = s.vol /\ made[x].by # p /\ others)
  <2>1. x \in DOMAIN made' /\ w =< drawn'[made'[x].by]
    BY <1>1, <1>5, <1>6, <1>7 DEF Uuid
  <2>2. ASSUME NEW v \in DOMAIN vols, vols[v][w] = x, vols'[v][w] # x
        PROVE  v = s.vol /\ made[x].by # p /\ others
    <3>1. v = s.vol /\ ~(w =< drawn[p])
      BY <1>1, <2>2
    <3>2. made[x].by # p
      BY <1>7, <3>1
    <3>3. vols[s.vol][w] # Nothing /\ made[vols[s.vol][w]].by # p
      BY <1>1, <2>2, <3>1, <3>2 DEF Nothing
    <3> QED BY <3>1, <3>2, <3>3
  <2> QED BY <2>1, <2>2
<1> HIDE DEF others
<1> DEFINE new == [store |-> s, uuid |-> u, node |-> node]
<1>8. new \in Handle /\ new.store = s /\ new.uuid = u /\ new.node = node
  BY <1>1 DEF Handle
<1>9. handles' = [handles EXCEPT ![p] = @ \cup {new}]
  BY <1>2
<1> HIDE DEF new
<1>10. TypeOK'
  <2>1. handles' \in [Process -> SUBSET Handle]
    BY <1>8, <1>9 DEF TypeOK
  <2> QED BY <1>1, <1>2, <1>3, <1>6, <2>1 DEF TypeOK
<1>11. DirSound' /\ SameSound'
  <2>1. SameSound'
    BY <1>1, <1>2, <1>4 DEF SameSound
  <2>2. Len(made') =< MaxNodes
    <3>1. made' = Append(made, [by |-> p, uuid |-> u])
      BY <1>1 DEF New, Drawn
    <3>2. node =< MaxNodes /\ node = Len(made) + 1
      BY <1>1 DEF New
    <3>3. made \in Seq([by : Process, uuid : Uuid])
      BY DEF TypeOK
    <3>4. Len(made') = Len(made) + 1
      BY <3>1, <3>3
    <3> QED BY <3>2, <3>4
  <2> QED BY <1>1, <1>2, <2>1, <2>2 DEF DirSound
<1>12. StringSound'
  <2>1. ASSUME NEW t \in saved PROVE t.node \in DOMAIN made' /\ t.uuid =< drawn'[made'[t.node].by]
    <3>1. t.node \in DOMAIN made /\ t.uuid =< drawn[made[t.node].by] /\ t.uuid \in Uuid
      BY DEF StringSound, TypeOK, String
    <3> QED BY <1>7, <3>1
  <2> QED BY <1>2, <2>1 DEF StringSound
<1>18. MadeSound'
  <2>1. ASSUME NEW x \in DOMAIN made
        PROVE  /\ made'[x] = made[x] /\ made'[x].uuid =< drawn'[made'[x].by]
               /\ made'[x] # made'[node]
    <3>1. made'[x] = made[x] /\ made[x].uuid =< drawn[made[x].by]
      BY <1>1, <2>1 DEF MadeSound
    <3>2. made[x].by = p => made[x].uuid # u
      BY <1>1, <1>5, <3>1 DEF Uuid
    <3>3. made[x].uuid =< drawn'[made[x].by]
      BY <1>5, <1>6, <3>1, SMTT(30) DEF Uuid
    <3> QED BY <1>1, <3>1, <3>2, <3>3
  <2>2. made'[node].uuid =< drawn'[made'[node].by]
    BY <1>1, <1>6 DEF Uuid
  <2>3. ASSUME NEW v \in DOMAIN vols, NEW w \in Uuid, vols'[v][w] # Nothing
        PROVE  made'[vols'[v][w]].uuid = w
    <3>1. CASE v = s.vol /\ w = u
      BY <1>1, <3>1
    <3>2. CASE ~(v = s.vol /\ w = u)
      <4>1. vols'[v][w] = vols[v][w]
        BY <1>1, <2>3, <3>2
      <4>2. vols[v][w] \in DOMAIN made
        BY <2>3, <4>1 DEF TypeOK
      <4> QED BY <2>1, <2>3, <4>1, <4>2 DEF MadeSound
    <3> QED BY <3>1, <3>2
  <2>4. ASSUME NEW x \in DOMAIN made', NEW y \in DOMAIN made', made'[x] = made'[y]
        PROVE  x = y
    <3>1. CASE x \in DOMAIN made /\ y \in DOMAIN made
      BY <2>1, <2>4, <3>1 DEF MadeSound
    <3>2. CASE x = node \/ y = node
      BY <1>1, <2>1, <2>4, <3>2
    <3> QED BY <1>1, <3>1, <3>2
  <2> QED BY <1>1, <2>1, <2>2, <2>3, <2>4 DEF MadeSound
<1>13. ASSUME NEW q \in Process PROVE StoreSound(q)'
  <2>1. SUFFICES ASSUME NEW r \in Opened(q)'
        PROVE  /\ r.vol \in DOMAIN vols'
               /\ r.place = Private => ~r.keep
               /\ r.place # Private => Mark(r) \in ways'[r.place]
               /\ r.place # Private /\ "dropped" \notin ways'[r.place] => dir'[r.place] = r.vol
               /\ \A m \in Place : dir'[m] = r.vol => r.place = m
    BY DEF StoreSound, Mark
  <2>2. r \in Opened(q) /\ (r.place # Private => r.place \in Place)
    BY <1>4, <2>1, OpenedParts DEF Store
  <2>3. /\ r.vol \in DOMAIN vols
        /\ r.place = Private => ~r.keep
        /\ r.place # Private => Mark(r) \in ways[r.place]
        /\ r.place # Private /\ "dropped" \notin ways[r.place] => dir[r.place] = r.vol
        /\ \A m \in Place : dir[m] = r.vol => r.place = m
    BY <2>2 DEF StoreSound
  <2>4. DOMAIN vols' = DOMAIN vols /\ dir' = dir
    BY <1>1, <1>2
  <2>5. r.place # Private => ways[r.place] \subseteq ways'[r.place]
    BY <1>3, <2>2
  <2> QED BY <2>3, <2>4, <2>5
<1>14. ASSUME NEW q \in Process PROVE OrderSound(q)'
  BY <1>2 DEF OrderSound
<1>15. ASSUME NEW q \in Process PROVE HandleSound(q)'
  <2>1. SUFFICES ASSUME NEW h \in handles'[q]
        PROVE  /\ stores'[q] # <<>> /\ h.store = stores'[q][1]
               /\ h.node \in DOMAIN made' /\ h.uuid =< drawn'[made'[h.node].by]
               /\ h.store.place = Private => made'[h.node].by = q
               /\ h.store.place = Private \/ "shared" \notin ways'[h.store.place] =>
                    vols'[h.store.vol][h.uuid] = h.node
    BY DEF HandleSound
  <2>2. CASE h \in handles[q]
    <3>1. /\ stores[q] # <<>> /\ h.store = stores[q][1]
          /\ h.node \in DOMAIN made /\ h.uuid =< drawn[made[h.node].by]
          /\ h.store.place = Private => made[h.node].by = q
          /\ h.store.place = Private \/ "shared" \notin ways[h.store.place] =>
                vols[h.store.vol][h.uuid] = h.node
      BY <2>2 DEF HandleSound
    <3>2. h.store \in Opened(q) /\ h.store \in Store /\ h.uuid \in Uuid
      BY <2>2, <3>1, OpenedParts DEF TypeOK, Handle
    <3>3. h.store.vol \in DOMAIN vols /\ (h.store.place # Private => h.store.place \in Place)
      BY <3>2 DEF StoreSound, Store
    <3>4. h.node \in DOMAIN made' /\ h.uuid =< drawn'[made'[h.node].by] /\ made'[h.node] = made[h.node]
      BY <1>1, <1>7, <3>1, <3>2
    <3>5. ASSUME h.store.place = Private \/ "shared" \notin ways'[h.store.place],
                 vols'[h.store.vol][h.uuid] # h.node
          PROVE  FALSE
      <4>1. vols[h.store.vol][h.uuid] = h.node
        BY <1>3, <3>1, <3>3, <3>5
      <4>2. h.store.vol = s.vol /\ made[h.node].by # p /\ others
        BY <1>7, <3>1, <3>2, <3>3, <3>5, <4>1
      <4>3. h.store.place = s.place /\ (s.place = Private => q = p)
        BY <1>1, <3>2, <4>2 DEF SameSound
      <4> QED BY <1>3, <3>1, <3>3, <3>5, <4>2, <4>3
    <3> QED BY <1>2, <3>1, <3>4, <3>5
  <2>3. CASE h \notin handles[q]
    <3>1. q = p /\ h = new
      BY <1>9, <2>1, <2>3 DEF TypeOK
    <3> QED BY <1>1, <1>2, <1>6, <1>8, <3>1, SMTT(30) DEF Uuid
  <2> QED BY <2>2, <2>3
<1>16. StringsResolve'
  <2>1. ASSUME NEW t \in saved, ways'[t.place] \cap {"dropped", "shared"} = {}
        PROVE  Resolves(t)'
    <3>1. t.place \in Place /\ t.uuid \in Uuid /\ t.node \in DOMAIN made /\ t.uuid =< drawn[made[t.node].by]
      BY DEF StringSound, TypeOK, String
    <3>2. Resolves(t) /\ dir[t.place] \in DOMAIN vols
      BY <1>3, <2>1, <3>1 DEF StringsResolve, Resolves, TypeOK
    <3>3. ASSUME vols'[dir[t.place]][t.uuid] # t.node PROVE FALSE
      <4>1. dir[t.place] = s.vol /\ others
        BY <1>7, <3>1, <3>2, <3>3 DEF Resolves
      <4>2. s.place = t.place
        BY <1>1, <3>1, <4>1 DEF StoreSound
      <4> QED BY <1>3, <2>1, <3>1, <4>1, <4>2
    <3> QED BY <1>2, <3>2, <3>3 DEF Resolves
  <2> QED BY <1>2, <2>1 DEF StringsResolve
<1>17. FilesRemoved'
  <2>1. \A f \in File : Users(f)' = Users(f)
    BY <1>2, <1>4 DEF Users, TypeOK
  <2>2. \A f \in File : f \in Place
    BY DEF Place
  <2> QED BY <1>2, <1>3, <2>1, <2>2 DEF FilesRemoved
<1> QED BY <1>10, <1>11, <1>12, <1>13, <1>14, <1>15, <1>16, <1>17, <1>18

\* An object of the C API is used: its handle is like that of the node it leads to.
LEMMA FromObjectKeeps ==
    ASSUME GlobalInv, NEW p \in Process, NEW n \in DOMAIN made, FromObject(p, n)
    PROVE  GlobalInv'
<1> USE DEF GlobalInv
<1> DEFINE s == InUse(p)
           h == [store |-> s, uuid |-> made[n].uuid, node |-> n]
<1>1. /\ p \in up /\ stores[p] # <<>> /\ made[n].by = p /\ vols[s.vol][made[n].uuid] = n
      /\ handles' = [handles EXCEPT ![p] = @ \cup {h}]
      /\ UNCHANGED <<up, stores, opened, lost, atexit, drawn, dir, vols, made, saved, ways>>
  BY DEF FromObject, Found
<1>2. s = stores[p][1] /\ s \in Store /\ s.vol \in DOMAIN vols
  BY <1>1, OpenedParts DEF StoreSound
<1>3. made[n].uuid \in Uuid /\ made[n].uuid =< drawn[made[n].by]
  BY MadeBy DEF MadeSound
<1>4. n \in Node
  <2>1. made \in Seq([by : Process, uuid : Uuid]) /\ Len(made) =< MaxNodes /\ MaxNodes \in Nat
    BY BoundAssumption DEF TypeOK, DirSound
  <2>2. DOMAIN made = 1 .. Len(made) /\ Len(made) \in Nat
    BY <2>1
  <2> QED BY <2>1, <2>2 DEF Node
<1>5. h \in Handle /\ h.store = s /\ h.uuid = made[n].uuid /\ h.node = n
  BY <1>2, <1>3, <1>4 DEF Handle
<1> HIDE DEF s, h
<1>6. TypeOK'
  <2>1. handles' \in [Process -> SUBSET Handle]
    BY <1>1, <1>5 DEF TypeOK
  <2> QED BY <1>1, <2>1 DEF TypeOK
<1>7. DirSound' /\ SameSound' /\ StringSound' /\ MadeSound' /\ FilesRemoved'
  BY <1>1 DEF DirSound, SameSound, StringSound, MadeSound, FilesRemoved, Users, Opened
<1>8. StringsResolve'
  BY <1>1 DEF StringsResolve, Resolves
<1>9. ASSUME NEW q \in Process PROVE StoreSound(q)' /\ OrderSound(q)'
  BY <1>1 DEF StoreSound, OrderSound, Opened, Mark
<1>10. ASSUME NEW q \in Process PROVE HandleSound(q)'
  <2>1. ASSUME NEW x \in handles'[q]
        PROVE  /\ stores[q] # <<>> /\ x.store = stores[q][1]
               /\ x.node \in DOMAIN made /\ x.uuid =< drawn[made[x.node].by]
               /\ x.store.place = Private => made[x.node].by = q
               /\ x.store.place = Private \/ "shared" \notin ways[x.store.place] =>
                    vols[x.store.vol][x.uuid] = x.node
    <3>1. CASE x \in handles[q]
      BY <3>1 DEF HandleSound
    <3>2. CASE x \notin handles[q]
      <4>1. q = p /\ x = h
        BY <1>1, <2>1, <3>2 DEF TypeOK
      <4> QED BY <1>1, <1>2, <1>3, <1>5, <4>1
    <3> QED BY <3>1, <3>2
  <2> QED BY <1>1, <2>1 DEF HandleSound
<1> QED BY <1>6, <1>7, <1>8, <1>9, <1>10

\* serialize("hdc_string"): the storage keeps its nodes, so it is a file or a server.
LEMMA SerializeKeeps ==
    ASSUME GlobalInv, NEW p \in Process, NEW h \in handles[p], Serialize(p, h)
    PROVE  GlobalInv'
<1> USE DEF GlobalInv
<1> DEFINE t == [place |-> h.store.place, uuid |-> h.uuid, node |-> h.node]
<1>1. /\ p \in up /\ h.store.keep /\ saved' = saved \cup {t}
      /\ UNCHANGED <<up, stores, opened, lost, atexit, drawn, dir, vols, made, handles, ways>>
  BY DEF Serialize
<1>2. /\ h \in Handle /\ stores[p] # <<>> /\ h.store = stores[p][1]
      /\ h.node \in DOMAIN made /\ h.uuid =< drawn[made[h.node].by]
      /\ h.store.place = Private \/ "shared" \notin ways[h.store.place] =>
            vols[h.store.vol][h.uuid] = h.node
  BY DEF HandleSound, TypeOK
<1>3. h.store \in Opened(p) /\ h.store \in Store
  BY <1>2, OpenedParts
<1>4. /\ h.store.place \in Place /\ h.store.vol # Nothing
      /\ "dropped" \notin ways[h.store.place] => dir[h.store.place] = h.store.vol
  BY <1>1, <1>3 DEF StoreSound, Store, Volume, Nothing
<1>5. /\ t \in String /\ t.place = h.store.place /\ t.uuid = h.uuid /\ t.node = h.node
  BY <1>2, <1>4 DEF String, Handle
<1> HIDE DEF t
<1>6. TypeOK'
  BY <1>1, <1>5 DEF TypeOK
<1>7. DirSound' /\ SameSound' /\ MadeSound' /\ FilesRemoved'
  BY <1>1 DEF DirSound, SameSound, MadeSound, FilesRemoved, Users, Opened
<1>8. \A q \in Process : StoreSound(q)' /\ OrderSound(q)' /\ HandleSound(q)'
  BY <1>1 DEF StoreSound, OrderSound, HandleSound, Opened, Mark
<1>9. StringSound'
  BY <1>1, <1>2, <1>5 DEF StringSound
<1>10. StringsResolve'
  <2>1. ASSUME NEW x \in saved', ways[x.place] \cap {"dropped", "shared"} = {}
        PROVE  Resolves(x)
    <3>1. CASE x \in saved
      BY <2>1, <3>1 DEF StringsResolve
    <3>2. CASE x = t
      BY <1>2, <1>4, <1>5, <2>1, <3>2 DEF Resolves
    <3> QED BY <1>1, <3>1, <3>2
  <2> QED BY <1>1, <2>1 DEF StringsResolve, Resolves
<1> QED BY <1>6, <1>7, <1>8, <1>9, <1>10

----------------------------------------------------------------------------
(* The theorems.                                                           *)

\* Nothing is open, saved or made at the beginning.
LEMMA InitSound ==
    ASSUME Init
    PROVE  GlobalInv
<1>1. ASSUME NEW p \in Process
      PROVE  stores[p] = <<>> /\ lost[p] = {} /\ handles[p] = {} /\ Opened(p) = {}
  <2>1. stores[p] = <<>> /\ lost[p] = {} /\ handles[p] = {}
    BY DEF Init
  <2>2. DOMAIN stores[p] = {}
    BY <2>1
  <2> QED BY <2>1, <2>2 DEF Opened
<1>2. TypeOK
  <2>1. <<>> \in Seq(Store) /\ <<>> \in Seq([by : Process, uuid : Uuid])
        /\ <<>> \in Seq([Uuid -> {Nothing} \cup DOMAIN made]) /\ 0 \in 0 .. MaxStores
    BY BoundAssumption
  <2> QED BY <2>1 DEF Init, TypeOK
<1>3. DirSound /\ SameSound /\ StringSound /\ MadeSound /\ StringsResolve /\ FilesRemoved
  BY <1>1, BoundAssumption DEF Init, DirSound, SameSound, StringSound, MadeSound, StringsResolve, FilesRemoved, Place
<1>4. \A p \in Process : StoreSound(p) /\ OrderSound(p) /\ HandleSound(p)
  <2>1. ASSUME NEW p \in Process PROVE StoreSound(p) /\ HandleSound(p)
    BY <1>1 DEF StoreSound, HandleSound
  <2>2. ASSUME NEW p \in Process PROVE OrderSound(p)
    <3>1. DOMAIN stores[p] = {}
      BY <1>1
    <3> QED BY <1>1, <3>1 DEF OrderSound
  <2> QED BY <2>1, <2>2
<1> QED BY <1>2, <1>3, <1>4 DEF GlobalInv

\* Nothing changes.
LEMMA StutterKeeps ==
    ASSUME GlobalInv, UNCHANGED vars
    PROVE  GlobalInv'
<1>1. UNCHANGED <<up, stores, opened, lost, atexit, drawn, dir, vols, made, handles, saved, ways>>
  BY DEF vars
<1>2. TypeOK' /\ DirSound' /\ StringSound' /\ MadeSound' /\ StringsResolve'
  BY <1>1 DEF GlobalInv, TypeOK, DirSound, StringSound, MadeSound, StringsResolve, Resolves
<1>3. SameSound' /\ FilesRemoved'
  BY <1>1 DEF GlobalInv, SameSound, FilesRemoved, Users, Opened
<1>4. \A q \in Process : StoreSound(q)' /\ OrderSound(q)' /\ HandleSound(q)'
  BY <1>1 DEF GlobalInv, StoreSound, OrderSound, HandleSound, Opened, Mark
<1> QED BY <1>2, <1>3, <1>4 DEF GlobalInv

\* Every step keeps the invariant.
LEMMA NextSound ==
    ASSUME GlobalInv, [Next]_vars
    PROVE  GlobalInv'
<1>1. ASSUME NEW p \in Process, NEW l \in Place \cup {Private}, NEW keep \in BOOLEAN,
             ExplicitInit(p, l, keep) \/ ImplicitInit(p, l, keep)
      PROVE  GlobalInv'
  BY <1>1, ExplicitInitKeeps, ImplicitInitKeeps
<1>2. ASSUME NEW p \in Process, Destroy(p) PROVE GlobalInv'
  BY <1>2, DestroyKeeps
<1>3. ASSUME NEW p \in Process, Exit(p) PROVE GlobalInv'
  BY <1>3, ExitKeeps
<1>4. ASSUME NEW p \in Process, Kill(p) PROVE GlobalInv'
  BY <1>4, KillKeeps
<1>5. ASSUME NEW p \in Process, NEW n \in 1 .. 2, New(p, n) PROVE GlobalInv'
  BY <1>5, NewKeeps
<1>6. ASSUME NEW p \in Process, NEW h \in handles[p], Serialize(p, h) PROVE GlobalInv'
  BY <1>6, SerializeKeeps
<1>7. ASSUME NEW p \in Process, NEW t \in saved, Deserialize(p, t) PROVE GlobalInv'
  BY <1>7, DeserializeKeeps
<1>10. ASSUME NEW p \in Process, NEW n \in DOMAIN made, FromObject(p, n) PROVE GlobalInv'
  BY <1>10, FromObjectKeeps
<1>8. CASE Next
  BY <1>1, <1>2, <1>3, <1>4, <1>5, <1>6, <1>7, <1>8, <1>10 DEF Next
<1>9. CASE UNCHANGED vars
  BY <1>9, StutterKeeps
<1> QED BY <1>8, <1>9

\* The inductive invariant: what a storage that is open says of its place and its volume,
\* for any number of processes, files and servers.
THEOREM Invariance == Spec => []GlobalInv
<1>1. Init => GlobalInv
  BY InitSound
<1>2. GlobalInv /\ [Next]_vars => GlobalInv'
  BY NextSound
<1> QED BY <1>1, <1>2, PTL DEF Spec

\* Places lead to volumes that have been made, whoever opens, destroys, ends or is killed.
THEOREM TypeCorrect == Spec => []TypeOK
<1>1. GlobalInv => TypeOK
  BY DEF GlobalInv
<1> QED BY <1>1, Invariance, PTL

\* destroy() does not start the generator again (hdc_global.hpp:22), so that a handle
\* leads to its node until its storage is destroyed.
THEOREM HandlesCorrect == Spec => []HandlesResolve
<1>1. ASSUME GlobalInv PROVE HandlesResolve
  <2>1. \A p \in up : p \in Process
    BY <1>1 DEF GlobalInv, TypeOK
  <2> QED BY <1>1, <2>1 DEF GlobalInv, HandleSound, HandlesResolve
<1>2. GlobalInv => HandlesResolve
  BY <1>1
<1> QED BY <1>2, Invariance, PTL

\* A string of hdc_string finds its node, whatever became of the process that wrote it.
THEOREM StringsCorrect == Spec => []StringsResolve
<1>1. GlobalInv => StringsResolve
  BY DEF GlobalInv
<1> QED BY <1>1, Invariance, PTL

\* cleanup() removes the files nobody asked to keep (mdbm_plugin.hpp:136).
THEOREM FilesCorrect == Spec => []FilesRemoved
<1>1. GlobalInv => FilesRemoved
  BY DEF GlobalInv
<1> QED BY <1>1, Invariance, PTL

\* An object of the C API that outlived destroy() (hdc_types.h:45) leads to its node or to
\* none, as long as the node it leads to is of its own process.
THEOREM ObjectsCorrect == Spec => []ObjectsLead
<1>1. ASSUME GlobalInv PROVE ObjectsLead
  <2>1. SUFFICES ASSUME NEW p \in up, NEW n \in DOMAIN made, stores[p] # <<>>,
                        made[n].by = p, Found(p, n) # Nothing, made[Found(p, n)].by = p
                 PROVE  Found(p, n) = n
    BY DEF ObjectsLead
  <2>2. p \in Process /\ made \in Seq([by : Process, uuid : Uuid])
    BY <1>1 DEF GlobalInv, TypeOK
  <2>3. InUse(p).vol \in DOMAIN vols /\ made[n].uuid \in Uuid
    BY <1>1, <2>1, <2>2, OpenedParts, MadeBy DEF GlobalInv, StoreSound
  <2>4. Found(p, n) \in DOMAIN made /\ made[Found(p, n)].uuid = made[n].uuid
    BY <1>1, <2>1, <2>3 DEF GlobalInv, TypeOK, MadeSound, Found
  <2>5. made[Found(p, n)] = made[n]
    BY <1>1, <2>1, <2>4, MadeBy DEF GlobalInv
  <2> QED BY <1>1, <2>4, <2>5 DEF GlobalInv, MadeSound
<1>2. GlobalInv => ObjectsLead
  BY <1>1
<1> QED BY <1>2, Invariance, PTL
=============================================================================
