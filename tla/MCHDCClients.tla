---------------------------- MODULE MCHDCClients ----------------------------
(* Two processes with a node of the one, a container of the other, and a   *)
(* node that both set.                                                     *)
EXTENDS HDCClients, TLC

CONSTANTS p, q, mine, box, ours, small, small2, large, item

MCOwner == mine :> p @@ box :> q @@ ours :> Nobody
MCSizeOf == small :> 1 @@ small2 :> 1 @@ large :> 2
=============================================================================
