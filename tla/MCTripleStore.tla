--------------------------- MODULE MCTripleStore ---------------------------
(* Small triple stores: three triples, one of them a literal, in single     *)
(* additions and in batches with duplicates and with an invalid triple.     *)
EXTENDS TripleStore, TLC

CONSTANTS a, b, p, x, xsd, i1, i2, id1, id2, id3

Triple(s1, o1, d1) == [s |-> s1, p |-> p, o |-> o1, d |-> d1]
T1 == Triple(a, x, NULL)
T2 == Triple(a, x, xsd)
T3 == Triple(b, x, NULL)

AllTriples == {T1, T2, T3}
DistinctIds == T1 :> id1 @@ T2 :> id2 @@ T3 :> id3
ClashingIds == T1 :> id1 @@ T2 :> id1 @@ T3 :> id3

Query(s1, d1) == [s |-> s1, p |-> NULL, o |-> NULL, d |-> d1]
SomeQueries == {Query(a, NULL), Query(NULL, EMPTY)}
SomeBatches == {<<T1>>, <<T2, T3>>, <<T3, NULL, T2>>}

Perms == Permutations(Iters)
=============================================================================
