--------------------------- MODULE MCHDCNodeData ---------------------------
(* Types, shapes and sizes for the runs of HDCNodeData. *)
EXTENDS HDCNodeData

\* A small and a large type.
Bytes4and8 == [t \in {"INT32", "DOUBLE"} |-> IF t = "INT32" THEN 4 ELSE 8]

\* Equal sizes with different ranks and shapes, and an array as large as the heap of
\* a small STRUCT.
Shapes == {<<>>, <<2>>, <<1, 2>>, <<496>>}
=============================================================================
