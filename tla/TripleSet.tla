----------------------------- MODULE TripleSet -----------------------------
(***************************************************************************)
(* What a triple store promises its users: a set of triples with different *)
(* ids and iterators over the triples that match a pattern.  An iterator   *)
(* returns every matching triple once.  A triple removed meanwhile is not  *)
(* returned any more and a triple added meanwhile is returned, too, except *)
(* that an iterator which was running when the store was cleared may miss  *)
(* what is added afterwards.                                               *)
(***************************************************************************)
CONSTANTS
    Triples,      \* the triples that may be stored
    Ids, IdOf,    \* IdOf \in [Triples -> Ids]
    Queries,      \* what iterators may ask for
    Iters,        \* iterators (TripleState structures)
    NULL,
    Answers(_, _) \* does the triple answer the query?

VARIABLES
    contents,     \* SUBSET Triples
    query,        \* [Iters -> Queries \cup {NULL}], NULL when not running
    todo,         \* [Iters -> SUBSET Triples], what is still to be returned
    cleared,      \* iterators that were running when the store was cleared
    result        \* what the last call to an iterator returned

vars == <<contents, query, todo, cleared, result>>

Init ==
    /\ contents = {}
    /\ query = [i \in Iters |-> NULL]
    /\ todo = [i \in Iters |-> {}]
    /\ cleared = {}
    /\ result = NULL

Running == {i \in Iters : query[i] # NULL}
Asked(i) == {t \in contents : Answers(query[i], t)}

Insert(t) ==
    /\ \A u \in contents : IdOf[u] # IdOf[t]
    /\ contents' = contents \cup {t}
    /\ \E S \in SUBSET cleared :
          todo' = [i \in Iters |->
                     IF i \in Running \ S /\ Answers(query[i], t)
                     THEN todo[i] \cup {t} ELSE todo[i]]
    /\ UNCHANGED <<query, cleared, result>>

Delete(t) ==
    /\ t \in contents
    /\ contents' = contents \ {t}
    /\ todo' = [i \in Iters |-> todo[i] \ {t}]
    /\ UNCHANGED <<query, cleared, result>>

\* The store is empty when it is cleared.
Clear ==
    /\ contents = {}
    /\ cleared' = Running
    /\ UNCHANGED <<contents, query, todo, result>>

Start(i, q) ==
    /\ query[i] = NULL
    /\ query' = [query EXCEPT ![i] = q]
    /\ todo' = [todo EXCEPT ![i] = {t \in contents : Answers(q, t)}]
    /\ UNCHANGED <<contents, cleared, result>>

Yield(i, t) ==
    /\ t \in todo[i]
    /\ todo' = [todo EXCEPT ![i] = @ \ {t}]
    /\ result' = t
    /\ UNCHANGED <<contents, query, cleared>>

\* The iterator returns NULL: nothing is left.
End(i) ==
    /\ i \in Running /\ todo[i] = {}
    /\ result' = NULL
    /\ UNCHANGED <<contents, query, todo, cleared>>

Reset(i) ==
    /\ i \in Running
    /\ todo' = [todo EXCEPT ![i] = Asked(i)]
    /\ cleared' = cleared \ {i}
    /\ UNCHANGED <<contents, query, result>>

Stop(i) ==
    /\ i \in Running
    /\ query' = [query EXCEPT ![i] = NULL]
    /\ todo' = [todo EXCEPT ![i] = {}]
    /\ cleared' = cleared \ {i}
    /\ UNCHANGED <<contents, result>>

Next ==
    \/ \E t \in Triples : Insert(t) \/ Delete(t)
    \/ Clear
    \/ \E i \in Iters :
          \/ \E q \in Queries : Start(i, q)
          \/ \E t \in Triples : Yield(i, t)
          \/ End(i) \/ Reset(i) \/ Stop(i)

Spec == Init /\ [][Next]_vars
=============================================================================
