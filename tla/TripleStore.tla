---------------------------- MODULE TripleStore ----------------------------
(***************************************************************************)
(* The builtin triple store (src/src/triplestore-builtin.c): an array of   *)
(* triples with a map from triple ids to array indices, and iterators that *)
(* must survive the removal of triples.  While iterators run a removal     *)
(* only marks the triple; the last iterator to finish compacts the array.  *)
(* Freeing the store while iterators run postpones it to the last of them. *)
(*                                                                         *)
(* One public call runs at a time.  The loops of a call are steps of their *)
(* own; `call` holds the local variables of the loop that is running.      *)
(***************************************************************************)
EXTENDS Integers, Sequences, FiniteSets

CONSTANTS
    Triples,   \* records with fields s, p, o, d; d = NULL is no datatype
    Ids,
    IdOf,      \* triple_get_id(): [Triples -> Ids]
    Queries,   \* like triples; a field that is NULL matches anything
    Iters,     \* TripleState structures of the application
    Batches,   \* what is added at a time; NULL in it has no s, p or o
    NULL,
    EMPTY,     \* the empty string
    Chunk,     \* TRIPLESTORE_CHUNKSIZE
    MaxSlots   \* bound: length of the array

ASSUME ValueAssumption ==
    /\ IdOf \in [Triples -> Ids]
    /\ NULL \notin Triples /\ NULL \notin Queries /\ EMPTY # NULL
    /\ Batches \subseteq Seq(Triples \cup {NULL})
    /\ Chunk \in Nat \ {0} /\ MaxSlots \in Nat
    /\ IsFiniteSet(Iters)

VARIABLES
    slots,     \* ts->triples up to ts->true_length: <<[t, live]>>; the id
               \* of a triple that is not live is NULL
    length,    \* ts->length
    size,      \* ts->size
    map,       \* ts->map: [Ids -> Nat \cup {Absent}], indices from zero
    niter,     \* ts->niter
    freed,     \* ts->freed
    alive,     \* FALSE when the store has been freed
    query,     \* [Iters -> Queries \cup {NULL}], NULL when not initialised
    pos,       \* [Iters -> Nat]: state->pos
    cleared,   \* history variable: iterators that saw the store cleared
    result,    \* the triple the last find or next returned, or NULL
    call       \* the loop of the call in progress

content == <<slots, length, map>>
iters   == <<query, pos, cleared, result>>
vars    == <<content, size, niter, freed, alive, iters, call>>

Absent == -1
NoCall == [op |-> "none", i |-> 0, arg |-> NULL]
Idle   == call = NoCall

Init ==
    /\ slots = <<>> /\ length = 0 /\ size = 0
    /\ map = [id \in Ids |-> Absent]
    /\ niter = 0 /\ freed = FALSE /\ alive = TRUE
    /\ query = [i \in Iters |-> NULL]
    /\ pos = [i \in Iters |-> 0]
    /\ cleared = {} /\ result = NULL
    /\ call = NoCall

\* The application uses the store until it frees it.
Usable == Idle /\ alive /\ ~freed

\* The conditions of triplestore_remove() and triplestore_find_first(), and
\* those of triplestore_find() where an empty d matches non-literals.
Matches(q, t) == \A f \in {"s", "p", "o", "d"} : q[f] \in {NULL, t[f]}
FindMatches(q, t) ==
    \/ Matches(q, t)
    \/ q.d = EMPTY /\ t.d = NULL /\ Matches([q EXCEPT !.d = NULL], t)

Loop(op, i, arg) == call' = [op |-> op, i |-> i, arg |-> arg]
Running(op) == call.op = op

\* triplestore_create(), of a store to be used after this one
Create ==
    /\ Idle /\ ~alive
    /\ slots' = <<>> /\ length' = 0 /\ size' = 0
    /\ map' = [id \in Ids |-> Absent]
    /\ niter' = 0 /\ freed' = FALSE /\ alive' = TRUE
    /\ UNCHANGED <<iters, call>>

----------------------------------------------------------------------------
(* triplestore_add_triples()                                               *)

\* The size of the array after making space for n triples.
Grown(n) ==
    IF size < Len(slots) + n
    THEN size + ((Len(slots) + n - size) \div Chunk + 1) * Chunk
    ELSE size

AddTriples(b) ==
    /\ Usable /\ Len(slots) + Len(b) <= MaxSlots
    /\ size' = Grown(Len(b))
    /\ Loop("add", 0, b)
    /\ UNCHANGED <<content, niter, freed, alive, iters>>

\* Mutant: the map is not asked whether the triple is there.
AddUnchecked(t) ==
    /\ slots' = Append(slots, [t |-> t, live |-> TRUE])
    /\ length' = length + 1
    /\ map' = [map EXCEPT ![IdOf[t]] = call.i]

\* Triple number call.i of the batch is appended unless its id is known.  The
\* index stored in the map is the number in the batch.
AddOne(t) ==
    IF map[IdOf[t]] = Absent
    THEN /\ slots' = Append(slots, [t |-> t, live |-> TRUE])
         /\ length' = length + 1
         /\ map' = [map EXCEPT ![IdOf[t]] = call.i]
    ELSE UNCHANGED content

AddStep ==
    /\ Running("add") /\ call.i < Len(call.arg)
    /\ LET t == call.arg[call.i + 1]
       IN IF t = NULL THEN call' = NoCall /\ UNCHANGED content
          ELSE AddOne(t) /\ Loop("add", call.i + 1, call.arg)
    /\ UNCHANGED <<size, niter, freed, alive, iters>>

AddReturns ==
    /\ Running("add") /\ call.i = Len(call.arg)
    /\ call' = NoCall
    /\ UNCHANGED <<content, size, niter, freed, alive, iters>>

----------------------------------------------------------------------------
(* Removal.                                                                *)

Kill(n) == [slots EXCEPT ![n].live = FALSE]

\* Slot n is overwritten with the last one, and the array gets shorter.
MoveLast(n) ==
    SubSeq([slots EXCEPT ![n] = slots[Len(slots)]], 1, Len(slots) - 1)

\* Mutant: the last triple is moved also while iterators run.
RemoveByIndexMoves(n) ==
    /\ map' = [map EXCEPT ![IdOf[slots[n].t]] = Absent]
    /\ length' = length - 1
    /\ slots' = MoveLast(n)

\* Mutant: the id stays in the map.
RemoveByIndexKeepsId(n) ==
    /\ map' = map
    /\ length' = length - 1
    /\ slots' = IF niter > 0 THEN Kill(n) ELSE MoveLast(n)

\* _remove_by_index() of a live triple
RemoveByIndex(n) ==
    /\ map' = [map EXCEPT ![IdOf[slots[n].t]] = Absent]
    /\ length' = length - 1
    /\ slots' = IF niter > 0 THEN Kill(n) ELSE MoveLast(n)

\* triplestore_remove_by_id() removes what the map says, if there is
\* something.
RemoveById(id) ==
    /\ Usable /\ map[id] # Absent
    /\ LET n == map[id] + 1
       IN n <= Len(slots) /\ slots[n].live /\ RemoveByIndex(n)
    /\ UNCHANGED <<size, niter, freed, alive, iters, call>>

Remove(q) ==
    /\ Usable
    /\ Loop("remove", Len(slots), q)
    /\ UNCHANGED <<content, size, niter, freed, alive, iters>>

\* Mutant: the array is walked from its start, so that the triple moved into
\* a slot is never looked at.
RemoveUpwards ==
    /\ Running("remove") /\ call.i > 0
    /\ LET n == Len(slots) + 1 - call.i
           hit == slots[n].live /\ Matches(call.arg, slots[n].t)
           rest == IF hit /\ niter = 0 THEN call.i - 2 ELSE call.i - 1
       IN /\ IF hit THEN RemoveByIndex(n) ELSE UNCHANGED content
          /\ Loop("remove", IF rest > 0 THEN rest ELSE 0, call.arg)
    /\ UNCHANGED <<size, niter, freed, alive, iters>>

\* triplestore_remove() walks the array from its end.
RemoveStep ==
    /\ Running("remove") /\ call.i > 0
    /\ IF slots[call.i].live /\ Matches(call.arg, slots[call.i].t)
       THEN RemoveByIndex(call.i) ELSE UNCHANGED content
    /\ Loop("remove", call.i - 1, call.arg)
    /\ UNCHANGED <<size, niter, freed, alive, iters>>

RemoveReturns ==
    /\ Running("remove") /\ call.i = 0
    /\ call' = NoCall
    /\ UNCHANGED <<content, size, niter, freed, alive, iters>>

----------------------------------------------------------------------------
(* triplestore_clear() and triplestore_free(), which ends with it.         *)

Clear ==
    /\ Usable
    /\ Loop("clear", Len(slots), NULL)
    /\ UNCHANGED <<content, size, niter, freed, alive, iters>>

Free ==
    /\ Usable
    /\ Loop("free", Len(slots), NULL)
    /\ UNCHANGED <<content, size, niter, freed, alive, iters>>

ClearStep ==
    /\ Running("clear") \/ Running("free")
    /\ call.i > 0
    /\ IF slots[call.i].live THEN RemoveByIndex(call.i) ELSE UNCHANGED content
    /\ Loop(call.op, call.i - 1, NULL)
    /\ UNCHANGED <<size, niter, freed, alive, iters>>

\* Everything but the number of iterators is reset.
Cleared ==
    /\ call.i = 0
    /\ slots' = <<>> /\ length' = 0 /\ size' = 0
    /\ map' = [id \in Ids |-> Absent]
    /\ cleared' = {i \in Iters : query[i] # NULL}
    /\ call' = NoCall
    /\ UNCHANGED <<niter, query, pos, result>>

ClearReturns ==
    /\ Running("clear") /\ Cleared
    /\ freed' = FALSE
    /\ UNCHANGED alive

\* Mutant: the store is freed under its running iterators.
FreeReturnsAtOnce ==
    /\ Running("free") /\ Cleared
    /\ freed' = FALSE
    /\ alive' = FALSE

FreeReturns ==
    /\ Running("free") /\ Cleared
    /\ freed' = (niter > 0)
    /\ alive' = (niter > 0)

----------------------------------------------------------------------------
(* Iterators.                                                              *)

InitState(i, q) ==
    /\ Usable /\ query[i] = NULL
    /\ query' = [query EXCEPT ![i] = q]
    /\ pos' = [pos EXCEPT ![i] = 0]
    /\ niter' = niter + 1
    /\ UNCHANGED <<content, size, freed, alive, cleared, result, call>>

Stopped(i) ==
    /\ query' = [query EXCEPT ![i] = NULL]
    /\ pos' = [pos EXCEPT ![i] = 0]
    /\ cleared' = cleared \ {i}
    /\ niter' = niter - 1
    /\ UNCHANGED <<content, size, freed, alive, result>>

\* Mutant: nobody frees the store after the last iterator.
DeinitStateForgets(i) ==
    /\ Idle /\ query[i] # NULL
    /\ Stopped(i)
    /\ IF niter = 1 /\ Len(slots) > length
       THEN Loop("trim", Len(slots), NULL) ELSE UNCHANGED call

\* Mutant: the array is compacted also when other iterators run.
DeinitStateEager(i) ==
    /\ Idle /\ query[i] # NULL
    /\ Stopped(i)
    /\ IF freed /\ niter = 1 THEN Loop("free", Len(slots), NULL)
       ELSE IF Len(slots) > length THEN Loop("trim", Len(slots), NULL)
       ELSE UNCHANGED call

\* triplestore_deinit_state(): the last iterator frees or compacts.
DeinitState(i) ==
    /\ Idle /\ query[i] # NULL
    /\ Stopped(i)
    /\ IF freed /\ niter = 1 THEN Loop("free", Len(slots), NULL)
       ELSE IF niter = 1 /\ Len(slots) > length
            THEN Loop("trim", Len(slots), NULL)
       ELSE UNCHANGED call

\* Removed triples at the end of the array are cut off...
TrimStep ==
    /\ Running("trim")
    /\ IF Len(slots) > 0 /\ ~slots[Len(slots)].live
       THEN slots' = SubSeq(slots, 1, Len(slots) - 1) /\ UNCHANGED call
       ELSE slots' = slots /\ Loop("fill", Len(slots), NULL)
    /\ UNCHANGED <<length, map, size, niter, freed, alive, iters>>

\* Mutant: the last hole is not filled.
FillStepShort ==
    /\ Running("fill") /\ call.i > 0
    /\ slots' = IF slots[call.i].live \/ call.i = 1 THEN slots
                ELSE MoveLast(call.i)
    /\ Loop("fill", call.i - 1, NULL)
    /\ UNCHANGED <<length, map, size, niter, freed, alive, iters>>

\* ... and the last triple is moved into every hole.
FillStep ==
    /\ Running("fill") /\ call.i > 0
    /\ slots' = IF slots[call.i].live THEN slots ELSE MoveLast(call.i)
    /\ Loop("fill", call.i - 1, NULL)
    /\ UNCHANGED <<length, map, size, niter, freed, alive, iters>>

\* The array is reallocated when it is more than a chunk too large.
FillReturns ==
    /\ Running("fill") /\ call.i = 0
    /\ size' = IF size > length + Chunk THEN length + (length % Chunk) ELSE size
    /\ call' = NoCall
    /\ UNCHANGED <<content, niter, freed, alive, iters>>

ResetState(i) ==
    /\ Idle /\ query[i] # NULL
    /\ pos' = [pos EXCEPT ![i] = 0]
    /\ cleared' = cleared \ {i}
    /\ UNCHANGED <<content, size, niter, freed, alive, query, result, call>>

\* The slots from pos on that hold what an iterator asks for.
Ahead(i) ==
    {n \in 1..Len(slots) : n > pos[i] /\ slots[n].live
                           /\ FindMatches(query[i], slots[n].t)}

First(S) == CHOOSE n \in S : \A m \in S : n <= m
PosAtEnd(i) == IF pos[i] < Len(slots) THEN Len(slots) ELSE pos[i]

\* triplestore_find(), and triplestore_next() when the query is all NULL
Find(i) ==
    /\ Idle /\ query[i] # NULL
    /\ IF Ahead(i) = {}
       THEN /\ pos' = [pos EXCEPT ![i] = PosAtEnd(i)]
            /\ result' = NULL
       ELSE LET n == First(Ahead(i))
            IN /\ pos' = [pos EXCEPT ![i] = n]
               /\ result' = slots[n].t
    /\ UNCHANGED <<content, size, niter, freed, alive, query, cleared, call>>

\* triplestore_poll() steps over removed triples only.
Poll(i) ==
    /\ Idle /\ query[i] # NULL
    /\ LET L == {n \in 1..Len(slots) : n > pos[i] /\ slots[n].live}
       IN pos' = [pos EXCEPT ![i] =
                    IF L = {} THEN PosAtEnd(i) ELSE First(L) - 1]
    /\ UNCHANGED <<content, size, niter, freed, alive, query, cleared,
                   result, call>>

----------------------------------------------------------------------------
Api ==
    \/ Create
    \/ \E b \in Batches : AddTriples(b)
    \/ \E id \in Ids : RemoveById(id)
    \/ \E q \in Queries : Remove(q)
    \/ Clear \/ Free
    \/ \E i \in Iters, q \in Queries : InitState(i, q)
    \/ \E i \in Iters : DeinitState(i) \/ ResetState(i) \/ Find(i) \/ Poll(i)

Internal ==
    \/ AddStep \/ AddReturns
    \/ RemoveStep \/ RemoveReturns
    \/ ClearStep \/ ClearReturns \/ FreeReturns
    \/ TrimStep \/ FillStep \/ FillReturns

Next == Api \/ Internal

\* The loops of a call that has started run on.
Spec == Init /\ [][Next]_vars /\ WF_vars(Internal)

----------------------------------------------------------------------------
(* Properties.                                                             *)

Live == {n \in 1..Len(slots) : slots[n].live}
Open == {i \in Iters : query[i] # NULL}

TypeOK ==
    /\ slots \in Seq([t : Triples, live : BOOLEAN])
    /\ length \in Nat /\ size \in Nat /\ niter \in Nat
    /\ map \in [Ids -> Nat \cup {Absent}]
    /\ freed \in BOOLEAN /\ alive \in BOOLEAN
    /\ query \in [Iters -> Queries \cup {NULL}]
    /\ pos \in [Iters -> Nat]
    /\ cleared \in SUBSET Iters
    /\ result \in Triples \cup {NULL}
    /\ call.op \in {"none", "add", "remove", "clear", "free", "trim", "fill"}
    /\ call.i \in Nat

\* `length` counts the triples that are not removed.  "Number of triples
\* (including pending removes)" differs from it only while iterators run
\* or the array is being compacted: the asserts in _remove_by_index() and
\* triplestore_deinit_state() hold.
LengthExact ==
    /\ length = Cardinality(Live)
    /\ niter = 0 /\ call.op \notin {"trim", "fill"} => length = Len(slots)
    /\ Running("fill") /\ call.i = 0 => length = Len(slots)

\* The triples in the store have different ids, and these are the ids that
\* the map knows.
MapExact ==
    /\ \A m, n \in Live : IdOf[slots[m].t] = IdOf[slots[n].t] => m = n
    /\ {id \in Ids : map[id] # Absent} = {IdOf[slots[n].t] : n \in Live}

\* No slot is outside of the allocated array, and the last triple is moved
\* into a hole only from behind it (assert(t < tt)).
InsideArray ==
    /\ Len(slots) <= size
    /\ Running("add") => Len(slots) + Len(call.arg) - call.i <= size
    /\ Running("fill") /\ call.i > 0 =>
          call.i <= Len(slots) /\ (slots[call.i].live \/ call.i < Len(slots))

\* Through batches that cross chunks, removals under iterators, compaction and
\* shrinking, the array, its length and its allocation agree.
ArrayExact == TypeOK /\ LengthExact /\ InsideArray

\* The store outlives its iterators, and only them.
Lifetime ==
    /\ niter = Cardinality(Open)
    /\ Open # {} => alive
    /\ Idle /\ freed => Open # {}

\* "a mapping from triple id to its corresponding index in `triples`"
IndexExact ==
    \A id \in Ids : map[id] # Absent =>
       /\ map[id] < Len(slots)
       /\ slots[map[id] + 1].live /\ IdOf[slots[map[id] + 1].t] = id

\* triplestore_remove() leaves no triple that matches, whatever it moved
\* around while it walked the array.
RemoveComplete ==
    [][Running("remove") /\ call' = NoCall =>
          \A n \in Live : ~Matches(call.arg, slots[n].t)]_vars

\* What the iterators return, over their whole life and through removals,
\* additions and compaction, is what an iterator over a set would return.
Contents == {slots[n].t : n \in Live}
Todo == [i \in Iters |-> IF query[i] = NULL THEN {}
                         ELSE {slots[n].t : n \in Ahead(i)}]

Set == INSTANCE TripleSet WITH
          contents <- Contents, todo <- Todo, Answers <- FindMatches

IteratesSet == Set!Spec

----------------------------------------------------------------------------
(* What keeps the properties above true from step to step.                 *)

Ops == {"none", "add", "remove", "clear", "free", "trim", "fill"}

\* The local variables of the loop in progress: only the loops over the
\* array and over the batch have a counter, and it stays inside of them.
CallExact ==
    /\ call \in [op : Ops, i : Nat, arg : Batches \cup Queries \cup {NULL}]
    /\ Running("none") => Idle
    /\ Running("add") => call.arg \in Batches /\ call.i <= Len(call.arg)
    /\ Running("remove") => call.arg \in Queries
    /\ call.op \in {"remove", "clear", "free", "fill"} => call.i <= Len(slots)

\* What a loop has left behind it: the loop that removes, nothing it should
\* have removed; the loop that clears, nothing live; the loop that compacts, no
\* hole, while the last slot is live.
Behind == {n \in 1..Len(slots) : n > call.i}
SweptExact ==
    /\ Running("remove") =>
          \A n \in Live \cap Behind : ~Matches(call.arg, slots[n].t)
    /\ Running("clear") \/ Running("free") => Live \cap Behind = {}
    /\ Running("fill") =>
          Behind \subseteq Live /\ (slots # <<>> => Len(slots) \in Live)

\* Without iterators there are no holes, except while they are being filled.
NoHoles ==
    niter = 0 /\ call.op \notin {"trim", "fill"} => Live = 1..Len(slots)

\* When a store is used, and when it only waits for its last iterator.
StateExact ==
    /\ ~Idle => alive
    /\ call.op \in {"add", "remove", "clear", "trim", "fill"} => ~freed
    /\ call.op \in {"trim", "fill"} => niter = 0
    /\ Running("free") /\ freed => niter = 0
    /\ ~alive => ~freed /\ slots = <<>> /\ Open = {}
    /\ freed => slots = <<>>
    /\ cleared \subseteq Open

IInv ==
    /\ TypeOK /\ CallExact /\ NoHoles /\ SweptExact /\ length = Cardinality(Live)
    /\ InsideArray /\ MapExact /\ Lifetime /\ StateExact

\* An iterator is inside of the array unless the store was cleared under it, and
\* at its start when it is not running.
Inside ==
    \A i \in Iters : /\ i \notin cleared => pos[i] <= Len(slots)
                     /\ query[i] = NULL => pos[i] = 0
=============================================================================
