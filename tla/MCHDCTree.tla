----------------------------- MODULE MCHDCTree -----------------------------
(* Paths and selectors for the runs of HDCTree. *)
EXTENDS HDCTree

CONSTANTS a, b

\* Paths of keys only: structs of structs.
StructPaths == {<<b>>, <<a, b>>, <<a, b, a>>}

\* Paths with indexes: the second slice can only be reached through padding.
MixedPaths == {<<a>>, <<a, 1>>, <<0>>, <<0, b>>}

\* The slices of one list.
SlicePaths == {<<0>>, <<1>>}

\* Short paths, for graphs with shared nodes and cycles.
SharedPaths == {<<a>>, <<a, b>>}

\* A deep copy draws as many uuids as its source has nodes.  The other calls draw
\* the first of them, and a tree with a copy in it is not worked on.
Made == 5
StructSpec ==
    Init /\ [][/\ Next
              /\ \/ call.op = "copy"
                 \/ next <= Made + 1 /\ (call'.op = "copy" \/ next' <= Made + 1)]_vars
=============================================================================
