---------------------------- MODULE MCHDCGlobal -----------------------------
(* Two processes, a file and a server. *)
EXTENDS HDCGlobal, TLC

CONSTANTS p, q

Processes == Permutations({p, q})
=============================================================================
