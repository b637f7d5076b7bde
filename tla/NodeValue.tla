----------------------------- MODULE NodeValue -----------------------------
(***************************************************************************)
(* What a node promises to those who store data in it: it is a register.   *)
(* A call that stores a value either replaces the value, whatever the node *)
(* held and whoever had stored that, or is refused and leaves it alone.    *)
(* Only two values may be protected in this way: data that the caller owns *)
(* and children.  HDCNodeData implements this with a header and bytes.     *)
(***************************************************************************)
CONSTANT Value  \* records with the fields external and type, among others

VARIABLES
    value,      \* what the node holds
    last        \* the last call: the value it stored, and whether it was accepted

Init ==
    \E v \in Value : value = v /\ last = [value |-> v, ok |-> TRUE]

Store(v) ==
    /\ value' = v
    /\ last' = [value |-> v, ok |-> TRUE]

Refuse(v) ==
    /\ value.external \/ value.type = "STRUCT"
    /\ last' = [value |-> v, ok |-> FALSE]
    /\ UNCHANGED value

Next == \E v \in Value : Store(v) \/ Refuse(v)

Spec == Init /\ [][Next]_<<value, last>>
=============================================================================
