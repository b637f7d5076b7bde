----------------------------- MODULE HDCGlobal ------------------------------
(***************************************************************************)
(* The life of the library in the processes that use it: init(), destroy() *)
(* and the end of a process, the storages they open and remove, the nodes  *)
(* they make, and the strings ("hdc_string") that carry a node over to     *)
(* another process.                                                        *)
(*                                                                         *)
(* A storage is in the memory of its process (umap), in a file (mdbm), or  *)
(* in a server (redis).  Files and servers are places that processes       *)
(* share.  A file that is removed while it is open lives on for those that *)
(* have it open, so that a place leads to a volume.                        *)
(***************************************************************************)
EXTENDS Integers, Sequences

CONSTANTS
    Process,
    File,
    Server,
    Private,    \* the memory of a process
    MaxStores,  \* bound: storages that are opened
    MaxNodes    \* bound: nodes that are made

ASSUME PlaceAssumption == File \cap Server = {} /\ Private \notin File \cup Server
ASSUME BoundAssumption == MaxStores \in Nat /\ MaxNodes \in Nat

VARIABLES
    up,         \* the processes that have not ended
    stores,     \* stores[p]: hdc_global.stores; the first is hdc_global.storage
    opened,     \* how many storages have been opened
    lost,       \* lost[p]: storages that are open and that hdc_global has forgotten
    atexit,     \* the processes that will call destroy() at their end
    drawn,      \* drawn[p]: how many uuids hdc_global.ran has given
    dir,        \* dir[l]: the volume that is found at a place
    vols,       \* vols[v]: the node that each uuid has in a volume
    made,       \* made[n]: the process that made node n, and the uuid it has drawn
    handles,    \* handles[p]: the nodes that p has in hand
    saved,      \* the strings
    ways        \* ways[l]: how the place has been used

vars == <<up, stores, opened, lost, atexit, drawn, dir, vols, made, handles, saved, ways>>

Place == File \cup Server
Volume == 1 .. MaxStores
Nothing == 0
Uuid == 1 .. 2 * MaxNodes
Node == 1 .. MaxNodes

\* What has been done with a place: a storage that keeps it was opened, or one that does
\* not; it was open when a process ended; more than one process made nodes there.
Way == {"kept", "dropped", "left", "shared"}

Store == [place : Place \cup {Private}, vol : Volume, keep : BOOLEAN, explicit : BOOLEAN]
Handle == [store : Store, uuid : Uuid, node : Node]
String == [place : Place, uuid : Uuid, node : Node]

Opened(p) == {stores[p][i] : i \in DOMAIN stores[p]} \cup lost[p]
Users(l) == {p \in up : \E s \in Opened(p) : s.place = l}

Init ==
    /\ up = Process
    /\ stores = [p \in Process |-> <<>>]
    /\ opened = 0
    /\ lost = [p \in Process |-> {}]
    /\ atexit = {}
    /\ drawn = [p \in Process |-> 0]
    /\ dir = [l \in Place |-> Nothing]
    /\ vols = <<>>
    /\ made = <<>>
    /\ handles = [p \in Process |-> {}]
    /\ saved = {}
    /\ ways = [l \in Place |-> {}]

----------------------------------------------------------------------------
(* Opening. *)

\* init() opens a storage and appends it; the first one stays the one in use.
Open(p, l, keep, explicit) ==
    LET fresh == l = Private \/ dir[l] = Nothing
        vol == IF fresh THEN Len(vols) + 1 ELSE dir[l]
        s == [place |-> l, vol |-> vol, keep |-> keep, explicit |-> explicit]
    IN  /\ opened < MaxStores
        /\ opened' = opened + 1
        /\ vols' = IF fresh THEN Append(vols, [u \in Uuid |-> Nothing]) ELSE vols
        /\ dir' = IF fresh /\ l # Private THEN [dir EXCEPT ![l] = vol] ELSE dir
        /\ ways' = IF l = Private THEN ways
                   ELSE [ways EXCEPT ![l] = @ \cup {IF keep THEN "kept" ELSE "dropped"}]
        /\ stores' = [stores EXCEPT ![p] = Append(@, s)]

\* Mutant: umap says that it keeps its nodes.
SettingsAny(l, keep) == l \in Server => keep

\* What a storage can be: redis always keeps, umap never does.
Settings(l, keep) == (l \in Server => keep) /\ (l = Private => ~keep)

\* HDC::init() with arguments.
ExplicitInit(p, l, keep) ==
    /\ p \in up /\ Settings(l, keep)
    /\ Open(p, l, keep, TRUE)
    /\ UNCHANGED <<up, lost, atexit, drawn, made, handles, saved>>

\* Mutant: the storage is opened and destroy() is not registered.
RegisteredNever(p) == atexit

\* atexit(HDC::destroy)
Registered(p) == atexit \cup {p}

\* HDC_STORAGE_INIT(), with what the environment says.
ImplicitInit(p, l, keep) ==
    /\ p \in up /\ stores[p] = <<>> /\ Settings(l, keep)
    /\ Open(p, l, keep, FALSE)
    /\ atexit' = Registered(p)
    /\ UNCHANGED <<up, lost, drawn, made, handles, saved>>

----------------------------------------------------------------------------
(* Closing. *)

\* Mutant: the file is removed in any case.
RemovedAlways(s) == s.place \in File

\* cleanup() of mdbm removes the file that has the name, if it is not persistent.
Removed(s) == s.place \in File /\ ~s.keep

\* Mutant: the generator starts again with the next storage.
DrawnAgain(p) == 0

\* destroy() leaves hdc_global.ran as it is.
DrawnAfter(p) == drawn[p]

\* destroy() deletes the storage in use and forgets the others.
InUse(p) == Head(stores[p])
Others(p) == {Tail(stores[p])[i] : i \in DOMAIN Tail(stores[p])}
DeleteInUse(p) ==
    dir' = IF Removed(InUse(p)) THEN [dir EXCEPT ![InUse(p).place] = Nothing] ELSE dir

\* Handles of the storage are left, and must not be used.
Destroy(p) ==
    /\ p \in up /\ stores[p] # <<>>
    /\ DeleteInUse(p)
    /\ stores' = [stores EXCEPT ![p] = <<>>]
    /\ lost' = [lost EXCEPT ![p] = @ \cup Others(p)]
    /\ drawn' = [drawn EXCEPT ![p] = DrawnAfter(p)]
    /\ handles' = [handles EXCEPT ![p] = {}]
    /\ UNCHANGED <<up, opened, atexit, vols, made, saved, ways>>

\* The process is gone; ss are storages that nobody has closed.
Leave(p, ss) ==
    /\ up' = up \ {p}
    /\ stores' = [stores EXCEPT ![p] = <<>>]
    /\ lost' = [lost EXCEPT ![p] = {}]
    /\ handles' = [handles EXCEPT ![p] = {}]
    /\ ways' = [l \in Place |->
                 IF \E s \in ss : s.place = l THEN ways[l] \cup {"left"} ELSE ways[l]]
    /\ UNCHANGED <<opened, atexit, drawn, vols, made, saved>>

\* The end of a process.  destroy() is called if it has been registered; who calls init()
\* has to call destroy() too.
Exit(p) ==
    /\ p \in up
    /\ IF p \in atexit /\ stores[p] # <<>>
       THEN DeleteInUse(p) /\ Leave(p, Others(p) \cup lost[p])
       ELSE UNCHANGED dir /\ Leave(p, {s \in Opened(p) : s.explicit})

Kill(p) ==
    /\ p \in up
    /\ UNCHANGED dir
    /\ Leave(p, Opened(p))

----------------------------------------------------------------------------
(* Nodes. *)

\* The uuid after n others: the generator starts alike in every process.
Drawn(p, n) == drawn[p] + n

\* HDC() makes a node; HDC(string) makes one that nobody refers to, and then another one.
New(p, n) ==
    LET s == InUse(p)
        u == Drawn(p, n)
        node == Len(made) + 1
        others == \E v \in Uuid : vols[s.vol][v] # Nothing /\ made[vols[s.vol][v]].by # p
    IN  /\ p \in up /\ stores[p] # <<>>
        /\ node <= MaxNodes /\ u \in Uuid
        /\ drawn' = [drawn EXCEPT ![p] = u]
        /\ made' = Append(made, [by |-> p, uuid |-> u])
        /\ vols' = [vols EXCEPT ![s.vol] =
                    [v \in Uuid |-> IF v = u THEN node
                                    ELSE IF v \in Drawn(p, 1) .. u THEN Nothing ELSE @[v]]]
        /\ handles' = [handles EXCEPT ![p] = @ \cup {[store |-> s, uuid |-> u, node |-> node]}]
        /\ ways' = IF others THEN [ways EXCEPT ![s.place] = @ \cup {"shared"}] ELSE ways
        /\ UNCHANGED <<up, stores, opened, lost, atexit, dir, saved>>

\* What an object of the C API (hdc_t) leads to: it has the uuid and the number of the
\* storage, which is that of the first.
Found(p, n) == vols[InUse(p).vol][made[n].uuid]

\* HDC(hdc_t), made of an object that p has kept: a handle in the storage that is in
\* use now.  If the node is not there every use of it throws.
FromObject(p, n) ==
    /\ p \in up /\ stores[p] # <<>>
    /\ made[n].by = p /\ Found(p, n) = n
    /\ handles' = [handles EXCEPT ![p] =
                    @ \cup {[store |-> InUse(p), uuid |-> made[n].uuid, node |-> n]}]
    /\ UNCHANGED <<up, stores, opened, lost, atexit, drawn, dir, vols, made, saved, ways>>

\* serialize("hdc_string"): the settings of the storage and the uuid.  The string of a
\* storage that does not keep its nodes cannot be read.
Serialize(p, h) ==
    /\ p \in up /\ h \in handles[p] /\ h.store.keep
    /\ saved' = saved \cup {[place |-> h.store.place, uuid |-> h.uuid, node |-> h.node]}
    /\ UNCHANGED <<up, stores, opened, lost, atexit, drawn, dir, vols, made, handles, ways>>

\* The node of a string is there.
Resolves(t) == dir[t.place] # Nothing /\ vols[dir[t.place]][t.uuid] = t.node

\* deserialize("hdc_string"), which throws if there is a storage, and opens one.  It does
\* not look for the node: if that is not there, every use of the handle throws.
Deserialize(p, t) ==
    /\ p \in up /\ stores[p] = <<>>
    /\ Open(p, t.place, TRUE, TRUE)
    /\ handles' = IF Resolves(t)
                  THEN [handles EXCEPT ![p] =
                    @ \cup {[store |-> Head(stores'[p]), uuid |-> t.uuid, node |-> t.node]}]
                  ELSE handles
    /\ UNCHANGED <<up, lost, atexit, drawn, made, saved>>

Next ==
    \E p \in Process :
        \/ \E l \in Place \cup {Private}, keep \in BOOLEAN :
            \/ ExplicitInit(p, l, keep)
            \/ ImplicitInit(p, l, keep)
        \/ Destroy(p)
        \/ Exit(p)
        \/ Kill(p)
        \/ \E n \in 1 .. 2 : New(p, n)
        \/ \E n \in DOMAIN made : FromObject(p, n)
        \/ \E h \in handles[p] : Serialize(p, h)
        \/ \E t \in saved : Deserialize(p, t)

Spec == Init /\ [][Next]_vars

----------------------------------------------------------------------------
(* Properties. *)

\* Places lead to volumes that have been made, and the names have their types.
TypeOK ==
    /\ up \subseteq Process /\ atexit \subseteq Process
    /\ stores \in [Process -> Seq(Store)]
    /\ opened \in 0 .. MaxStores
    /\ lost \in [Process -> SUBSET Store]
    /\ drawn \in [Process -> {0} \cup Uuid]
    /\ vols \in Seq([Uuid -> {Nothing} \cup DOMAIN made])
    /\ dir \in [Place -> {Nothing} \cup DOMAIN vols]
    /\ made \in Seq([by : Process, uuid : Uuid])
    /\ handles \in [Process -> SUBSET Handle]
    /\ saved \in SUBSET String
    /\ ways \in [Place -> SUBSET Way]

\* A string finds its node whatever became of the process that wrote it, if only one
\* process made nodes in the file and nobody opened it as one that need not be kept.
StringsResolve ==
    \A t \in saved : ways[t.place] \cap {"dropped", "shared"} = {} => Resolves(t)

\* A handle leads to the node it was made for until its storage is destroyed, also when
\* the file has been removed under it: a uuid is never given twice in a process.
HandlesResolve ==
    \A p \in up : \A h \in handles[p] :
        h.store.place = Private \/ "shared" \notin ways[h.store.place] =>
            vols[h.store.vol][h.uuid] = h.node

\* An object that outlived its storage, and is used with another one, leads to its node, to
\* none, or to a node that another process made: never to another node of its own process.
ObjectsLead ==
    \A p \in up : \A n \in DOMAIN made :
        stores[p] # <<>> /\ made[n].by = p =>
            \/ Found(p, n) \in {Nothing, n}
            \/ made[Found(p, n)].by # p

\* A file that no process asked to keep is gone when nobody uses it, unless a process was
\* killed, called init() twice, or did not call destroy().
FilesRemoved ==
    \A f \in File :
        dir[f] # Nothing /\ Users(f) = {} => ways[f] \cap {"kept", "left"} # {}

\* mdbm_plugin.hpp:40, printed when the storage is closed: "Storage has been set
\* persistent. The data are stored in file".
StoredInFile ==
    \A t \in saved : "dropped" \notin ways[t.place] => Resolves(t)
=============================================================================
