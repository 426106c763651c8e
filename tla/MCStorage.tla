----------------------------- MODULE MCStorage -----------------------------
(* Small instances of Storage: a file on the search path and a file that    *)
(* only the application opens, which has the metadata for the first.        *)
EXTENDS Storage, TLC

CONSTANTS s1, s2, s3, s4, F, G, X, M, E, D1

\* D1 is an instance of the entity M, which is in the other file.  The entity
\* E cannot be parsed.  X is missing.
Metas == [id \in Ids |-> IF id = D1 THEN M ELSE NULL]
Files == F :> {D1, E} @@ G :> {M} @@ X :> NULL
XThenF == <<X, F>>
Openings == {<<F, "r">>, <<G, "a">>, <<G, "w">>}

Perms == Permutations(Slots)
=============================================================================
