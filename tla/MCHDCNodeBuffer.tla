-------------------------- MODULE MCHDCNodeBuffer --------------------------
(* Keys for the runs of HDCNodeBuffer.  Their records are some ten times as *)
(* large as those of the code: two fill a node.                               *)
EXTENDS HDCNodeBuffer

CONSTANTS a, b, c

\* One that fits into a record, one that does not, and one for which a node of the
\* default size has to grow at once.
Lengths == a :> 1 @@ b :> 24 @@ c :> 1024

\* No call tells one address from another.
Addresses == Permutations(Address)
=============================================================================
