--------------------------- MODULE NodeContainer ---------------------------
(***************************************************************************)
(* What the container of a node promises to a client of the storage: each  *)
(* call changes the list of records at once and in one place, or not at    *)
(* all.  A call that dies, or goes on in memory that it has freed, may     *)
(* take the whole node with it.  HDCNodeBuffer implements this in several  *)
(* steps on a buffer of limited size.                                      *)
(***************************************************************************)
EXTENDS Integers, SequencesExt

CONSTANTS
    Rec,        \* records with the fields key and addr
    Gone        \* what a node is whose entry is not there

VARIABLE list

Init == list = <<>>

\* A record is put in.
Insert ==
    /\ list # Gone
    /\ \E i \in 1..(Len(list) + 1), r \in Rec : list' = InsertAt(list, i, r)

Delete == list # Gone /\ \E i \in DOMAIN list : list' = RemoveAt(list, i)

\* A record gets another address.
Relink ==
    /\ list # Gone
    /\ \E i \in DOMAIN list, r \in Rec :
        r.key = list[i].key /\ list' = [list EXCEPT ![i] = r]

\* The entry is removed, or is no container any more.
Lose == list' = Gone

\* The client gives up the node and makes another one.
New == list = Gone /\ list' = <<>>

Next == Insert \/ Delete \/ Relink \/ Lose \/ New

Spec == Init /\ [][Next]_list
=============================================================================
