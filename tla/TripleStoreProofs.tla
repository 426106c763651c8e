------------------------- MODULE TripleStoreProofs -------------------------
(* Machine-checked proofs about TripleStore: the array, its length and the  *)
(* map of ids agree, the store outlives its iterators, removal is complete, *)
(* and the store refines TripleSet, for all triples, queries, batches and   *)
(* numbers of iterators, any chunk size and any bound on the array.         *)
EXTENDS TripleStore, FiniteSetTheorems, SequenceTheorems,
        WellFoundedInduction, TLAPS

----------------------------------------------------------------------------
(* Arrays of triples.                                                       *)

Slot      == [t : Triples, live : BOOLEAN]
Slots     == Seq(Slot)
LiveIn(s) == {n \in 1..Len(s) : s[n].live}

\* The array after a triple is appended, after the triple in slot n is marked
\* as removed or overwritten with the last one, and after the last one is cut
\* off.
Added(s, t)  == Append(s, [t |-> t, live |-> TRUE])
Killed(s, n) == [s EXCEPT ![n].live = FALSE]
Moved(s, n)  == SubSeq([s EXCEPT ![n] = s[Len(s)]], 1, Len(s) - 1)
Cut(s)       == SubSeq(s, 1, Len(s) - 1)

\* What the live slots of u hold is what those of s but n hold, each of them
\* in one slot.
Without(s, n, u) ==
    \E f \in Bijection(LiveIn(u), LiveIn(s) \ {n}) :
        \A m \in LiveIn(u) : u[m].t = s[f[m]].t

\* What an array consists of.
LEMMA SlotType ==
    ASSUME NEW s \in Slots
    PROVE  /\ Len(s) \in Nat /\ DOMAIN s = 1..Len(s)
           /\ \A n \in 1..Len(s) : /\ s[n] \in Slot /\ s[n].t \in Triples
                                   /\ s[n].live \in BOOLEAN
<1>1. Len(s) \in Nat /\ DOMAIN s = 1..Len(s) /\ \A n \in 1..Len(s) : s[n] \in Slot
  BY DEF Slots
<1> QED BY <1>1 DEF Slot

\* The live slots are finitely many.
LEMMA LiveFinite ==
    ASSUME NEW s \in Slots
    PROVE  /\ Len(s) \in Nat
           /\ IsFiniteSet(LiveIn(s)) /\ Cardinality(LiveIn(s)) \in Nat
           /\ Cardinality(LiveIn(s)) <= Len(s)
           /\ LiveIn(s) = 1..Len(s) <=> Cardinality(LiveIn(s)) = Len(s)
<1>1. Len(s) \in Nat
  BY SlotType
<1>2. IsFiniteSet(1..Len(s)) /\ Cardinality(1..Len(s)) = Len(s)
  <2>1. 1 \in Int /\ Len(s) \in Int
    BY <1>1
  <2>2. IsFiniteSet(1..Len(s)) /\ Cardinality(1..Len(s)) = IF 1 > Len(s) THEN 0 ELSE Len(s) - 1 + 1
    BY <2>1, FS_Interval
  <2> QED BY <1>1, <2>2
<1>3. LiveIn(s) \in SUBSET (1..Len(s))
  BY DEF LiveIn
<1>4. IsFiniteSet(LiveIn(s)) /\ Cardinality(LiveIn(s)) \in Nat
      /\ Cardinality(LiveIn(s)) <= Len(s)
  BY <1>2, <1>3, FS_Subset, FS_CardinalityType
<1>5. Cardinality(LiveIn(s)) = Len(s) => LiveIn(s) = 1..Len(s)
  BY <1>2, <1>3, FS_Subset
<1> QED BY <1>1, <1>2, <1>4, <1>5

\* The slots after each of these operations.
LEMMA AddedSlots ==
    ASSUME NEW s \in Slots, NEW t \in Triples
    PROVE  LET u == Added(s, t)
           IN  /\ u \in Slots /\ Len(u) = Len(s) + 1
               /\ u[Len(u)].t = t /\ u[Len(u)].live
               /\ \A m \in 1..Len(s) : u[m] = s[m]
<1> DEFINE e == [t |-> t, live |-> TRUE]
<1>1. e \in Slot /\ e.live /\ e.t = t
  BY DEF Slot
<1> HIDE DEF e
<1>2. /\ Append(s, e) \in Slots /\ Len(Append(s, e)) = Len(s) + 1
      /\ Append(s, e)[Len(s) + 1] = e
      /\ \A m \in 1..Len(s) : Append(s, e)[m] = s[m]
  BY <1>1, AppendProperties DEF Slots
<1>3. Added(s, t) = Append(s, e)
  BY DEF e, Added
<1> QED BY <1>1, <1>2, <1>3

LEMMA KilledSlots ==
    ASSUME NEW s \in Slots, NEW n \in 1..Len(s)
    PROVE  LET u == Killed(s, n)
           IN  /\ u \in Slots /\ Len(u) = Len(s)
               /\ \A m \in 1..Len(s) :
                     u[m].t = s[m].t /\ (u[m].live <=> m # n /\ s[m].live)
<1> DEFINE e == [s[n] EXCEPT !.live = FALSE]
           u == Killed(s, n)
<1>1. s[n] \in Slot
  BY SlotType
<1>2. e \in Slot /\ e.t = s[n].t /\ ~e.live
  BY <1>1 DEF Slot
<1>3. u = [s EXCEPT ![n] = e]
  BY SlotType DEF Killed
<1> HIDE DEF e, u
<1>4. /\ u \in Slots /\ Len(u) = Len(s)
      /\ \A m \in 1..Len(s) : u[m] = IF m = n THEN e ELSE s[m]
  BY <1>2, <1>3, ExceptSeq DEF Slots
<1>5. ASSUME NEW m \in 1..Len(s)
      PROVE  u[m].t = s[m].t /\ (u[m].live <=> m # n /\ s[m].live)
  BY <1>2, <1>4
<1> QED BY <1>4, <1>5 DEF u

\* The first slots of an array, all but one.
LEMMA AllButLast ==
    ASSUME NEW s \in Slots, Len(s) > 0
    PROVE  LET u == Cut(s)
           IN  /\ u \in Slots /\ Len(u) = Len(s) - 1
               /\ \A m \in 1..Len(u) : u[m] = s[m]
<1> DEFINE k == Len(s) - 1
           u == SubSeq(s, 1, k)
<1>1. k \in Nat /\ \A i \in 1..k : s[i] \in Slot
  BY SlotType
<1> HIDE DEF k
<1>2. u \in Seq(Slot) /\ Len(u) = (IF 1 <= k THEN k - 1 + 1 ELSE 0)
      /\ \A i \in 1..k - 1 + 1 : u[i] = s[1 + i - 1]
  BY <1>1, SubSeqProperties
<1> HIDE DEF u
<1>3. Len(u) = k
  BY <1>1, <1>2
<1>4. \A i \in 1..k : u[i] = s[i]
  BY <1>1, <1>2
<1> QED BY <1>2, <1>3, <1>4 DEF Slots, Cut, u, k

LEMMA MovedSlots ==
    ASSUME NEW s \in Slots, NEW n \in 1..Len(s)
    PROVE  LET u == Moved(s, n)
           IN  /\ u \in Slots /\ Len(u) = Len(s) - 1
               /\ \A m \in 1..Len(u) : u[m] = IF m = n THEN s[Len(s)] ELSE s[m]
<1> DEFINE v == [s EXCEPT ![n] = s[Len(s)]]
<1>1. Len(s) \in Nat /\ Len(s) > 0 /\ s[Len(s)] \in Slot
  BY SlotType
<1>2. /\ v \in Slots /\ Len(v) = Len(s)
      /\ \A m \in 1..Len(s) : v[m] = IF m = n THEN s[Len(s)] ELSE s[m]
  BY <1>1, ExceptSeq DEF Slots
<1>3. Moved(s, n) = Cut(v)
  BY <1>2 DEF Moved, Cut
<1> HIDE DEF v
<1>4. /\ Cut(v) \in Slots /\ Len(Cut(v)) = Len(s) - 1
      /\ \A m \in 1..Len(Cut(v)) : Cut(v)[m] = v[m]
  BY <1>1, <1>2, AllButLast
<1> QED BY <1>1, <1>2, <1>3, <1>4

\* The live slots after appending.
LEMMA AddedLive ==
    ASSUME NEW s \in Slots, NEW t \in Triples
    PROVE  LET u == Added(s, t)
           IN  /\ LiveIn(u) = LiveIn(s) \cup {Len(u)} /\ Len(u) \notin LiveIn(s)
               /\ Cardinality(LiveIn(u)) = Cardinality(LiveIn(s)) + 1
<1> DEFINE u == Added(s, t)
<1>1. /\ u \in Slots /\ Len(u) = Len(s) + 1 /\ Len(s) \in Nat /\ u[Len(u)].live
      /\ \A m \in 1..Len(s) : u[m] = s[m]
  BY AddedSlots, SlotType
<1> HIDE DEF u
<1>2. 1..Len(u) = 1..Len(s) \cup {Len(u)} /\ Len(u) \notin 1..Len(s)
  BY <1>1
<1>3. LiveIn(u) = LiveIn(s) \cup {Len(u)} /\ Len(u) \notin LiveIn(s)
  BY <1>1, <1>2 DEF LiveIn
<1>4. Cardinality(LiveIn(u)) = Cardinality(LiveIn(s)) + 1
  BY <1>3, LiveFinite, FS_AddElement
<1> QED BY <1>3, <1>4 DEF u

\* Marking a slot as removed leaves the others; ...
LEMMA KilledWithout ==
    ASSUME NEW s \in Slots, NEW n \in 1..Len(s)
    PROVE  Without(s, n, Killed(s, n))
<1> DEFINE u == Killed(s, n)
<1>1. LiveIn(u) = LiveIn(s) \ {n} /\ \A m \in LiveIn(u) : u[m].t = s[m].t
  BY KilledSlots DEF LiveIn
<1> HIDE DEF u
<1> DEFINE f == [m \in LiveIn(u) |-> m]
<1>2. f \in Bijection(LiveIn(u), LiveIn(s) \ {n})
  BY <1>1 DEF Bijection, Injection, Surjection, IsInjective
<1>3. \A m \in LiveIn(u) : u[m].t = s[f[m]].t
  BY <1>1
<1> QED BY <1>2, <1>3 DEF Without, u

\* ... so does overwriting it with a live one...
LEMMA MovedWithout ==
    ASSUME NEW s \in Slots, NEW n \in 1..Len(s), s[Len(s)].live
    PROVE  Without(s, n, Moved(s, n))
<1> DEFINE u == Moved(s, n)
<1>1. /\ Len(u) = Len(s) - 1 /\ Len(s) \in Nat
      /\ \A m \in 1..Len(u) : u[m] = IF m = n THEN s[Len(s)] ELSE s[m]
  BY MovedSlots, SlotType
<1> HIDE DEF u
<1> DEFINE f == [m \in LiveIn(u) |-> IF m = n THEN Len(s) ELSE m]
<1>2. \A m \in LiveIn(u) : /\ f[m] \in LiveIn(s) \ {n} /\ u[m].t = s[f[m]].t
                           /\ f[m] = Len(s) <=> m = n
                           /\ m # n => f[m] = m
  BY <1>1 DEF LiveIn
<1>3. ASSUME NEW k \in LiveIn(s) \ {n} PROVE \E m \in LiveIn(u) : f[m] = k
  <2>1. CASE k = Len(s)
    <3>1. n \in LiveIn(u)
      BY <1>1, <2>1 DEF LiveIn
    <3> QED BY <3>1, <2>1
  <2>2. CASE k # Len(s)
    <3>1. k \in LiveIn(u)
      BY <1>1, <2>2 DEF LiveIn
    <3> QED BY <3>1
  <2> QED BY <2>1, <2>2
<1>4. f \in Bijection(LiveIn(u), LiveIn(s) \ {n})
  BY <1>2, <1>3 DEF Bijection, Injection, Surjection, IsInjective
<1> HIDE DEF f
<1> QED BY <1>2, <1>4 DEF Without, u

\* ... and cutting it off, if it is the last and was removed.
LEMMA CutWithout ==
    ASSUME NEW s \in Slots, Len(s) > 0, ~s[Len(s)].live
    PROVE  Without(s, Len(s), Cut(s))
<1> DEFINE u == Cut(s)
<1>1. Len(u) = Len(s) - 1 /\ Len(s) \in Nat /\ \A m \in 1..Len(u) : u[m] = s[m]
  BY AllButLast, SlotType
<1> HIDE DEF u
<1>2. LiveIn(u) = LiveIn(s) \ {Len(s)} /\ \A m \in LiveIn(u) : u[m].t = s[m].t
  BY <1>1 DEF LiveIn
<1> DEFINE f == [m \in LiveIn(u) |-> m]
<1>3. f \in Bijection(LiveIn(u), LiveIn(s) \ {Len(s)})
  BY <1>2 DEF Bijection, Injection, Surjection, IsInjective
<1>4. \A m \in LiveIn(u) : u[m].t = s[f[m]].t
  BY <1>2
<1> QED BY <1>3, <1>4 DEF Without, u

----------------------------------------------------------------------------
(* Ids, counts and contents.                                                *)

IdsIn(s)     == {IdOf[s[n].t] : n \in LiveIn(s)}
Held(s)      == {s[n].t : n \in LiveIn(s)}
IdsDiffer(s) ==
    \A m, n \in LiveIn(s) : IdOf[s[m].t] = IdOf[s[n].t] => m = n

\* What adding a triple with a new id does to the ids and the contents.
LEMMA AddedContent ==
    ASSUME NEW s \in Slots, NEW t \in Triples, IdsDiffer(s), IdOf[t] \notin IdsIn(s)
    PROVE  LET u == Added(s, t)
           IN  /\ IdsDiffer(u) /\ IdsIn(u) = IdsIn(s) \cup {IdOf[t]}
               /\ Held(u) = Held(s) \cup {t}
<1> DEFINE u == Added(s, t)
<1>1. /\ LiveIn(u) = LiveIn(s) \cup {Len(u)} /\ Len(u) \notin LiveIn(s)
      /\ u[Len(u)].t = t /\ \A m \in LiveIn(s) : u[m] = s[m]
  BY AddedLive, AddedSlots DEF LiveIn
<1> HIDE DEF u
<1>2. IdsIn(u) = IdsIn(s) \cup {IdOf[t]}
  BY <1>1 DEF IdsIn
<1>3. Held(u) = Held(s) \cup {t}
  BY <1>1 DEF Held
<1>4. \A m \in LiveIn(s) : IdOf[u[m].t] # IdOf[u[Len(u)].t]
  BY <1>1 DEF IdsIn
<1>5. IdsDiffer(u)
  BY <1>1, <1>4 DEF IdsDiffer
<1> QED BY <1>2, <1>3, <1>5 DEF u

\* What taking slot n away does to the number of live slots, the ids and the
\* contents.
LEMMA WithoutContent ==
    ASSUME NEW s \in Slots, NEW u \in Slots, NEW n, Without(s, n, u), IdsDiffer(s)
    PROVE  /\ IdsDiffer(u)
           /\ n \in LiveIn(s) =>
                 /\ Cardinality(LiveIn(u)) = Cardinality(LiveIn(s)) - 1
                 /\ IdsIn(u) = IdsIn(s) \ {IdOf[s[n].t]}
                 /\ Held(u) = Held(s) \ {s[n].t}
           /\ n \notin LiveIn(s) =>
                 /\ Cardinality(LiveIn(u)) = Cardinality(LiveIn(s))
                 /\ IdsIn(u) = IdsIn(s) /\ Held(u) = Held(s)
<1> DEFINE L == LiveIn(s)
           K == LiveIn(u)
<1>1. PICK f \in Bijection(K, L \ {n}) : \A m \in K : u[m].t = s[f[m]].t
  BY DEF Without
<1>2. /\ f \in [K -> L \ {n}]
      /\ \A a, b \in K : f[a] = f[b] => a = b
      /\ \A k \in L \ {n} : \E m \in K : f[m] = k
  BY <1>1 DEF Bijection, Injection, Surjection, IsInjective
<1>3. IsFiniteSet(K) /\ IsFiniteSet(L)
  BY LiveFinite
<1>4. Cardinality(K) = Cardinality(L \ {n})
  <2>1. ExistsBijection(K, L \ {n})
    BY <1>1 DEF ExistsBijection
  <2> QED BY <2>1, <1>3, FS_Bijection
<1>5. Cardinality(L \ {n}) = IF n \in L THEN Cardinality(L) - 1 ELSE Cardinality(L)
  BY <1>3, FS_RemoveElement
<1> HIDE DEF K, L
<1>6. {IdOf[u[m].t] : m \in K} = {IdOf[s[k].t] : k \in L \ {n}}
  BY <1>1, <1>2
<1>7. {u[m].t : m \in K} = {s[k].t : k \in L \ {n}}
  BY <1>1, <1>2
<1>8. \A a, b \in K : IdOf[u[a].t] = IdOf[u[b].t] => a = b
  <2> SUFFICES ASSUME NEW a \in K, NEW b \in K, IdOf[u[a].t] = IdOf[u[b].t]
               PROVE  a = b
    OBVIOUS
  <2>1. f[a] \in L /\ f[b] \in L /\ IdOf[s[f[a]].t] = IdOf[s[f[b]].t]
    BY <1>1, <1>2
  <2>2. f[a] = f[b]
    BY <2>1 DEF IdsDiffer, L
  <2> QED BY <2>2, <1>2
<1>9. ASSUME n \in L
      PROVE  /\ {IdOf[s[k].t] : k \in L \ {n}} = {IdOf[s[k].t] : k \in L} \ {IdOf[s[n].t]}
             /\ {s[k].t : k \in L \ {n}} = {s[k].t : k \in L} \ {s[n].t}
  <2>1. \A k \in L : IdOf[s[k].t] = IdOf[s[n].t] => k = n
    BY <1>9 DEF IdsDiffer, L
  <2>2. \A k \in L : s[k].t = s[n].t => k = n
    BY <2>1
  <2> QED BY <1>9, <2>1, <2>2
<1>10. n \notin L => L \ {n} = L
  OBVIOUS
<1>11. IdsDiffer(u)
  BY <1>8 DEF IdsDiffer, K
<1>12. n \in L => /\ Cardinality(K) = Cardinality(L) - 1
                  /\ IdsIn(u) = IdsIn(s) \ {IdOf[s[n].t]}
                  /\ Held(u) = Held(s) \ {s[n].t}
  BY <1>4, <1>5, <1>6, <1>7, <1>9 DEF IdsIn, Held, K, L
<1>13. n \notin L => /\ Cardinality(K) = Cardinality(L)
                     /\ IdsIn(u) = IdsIn(s) /\ Held(u) = Held(s)
  BY <1>4, <1>5, <1>6, <1>7, <1>10 DEF IdsIn, Held, K, L
<1> QED BY <1>11, <1>12, <1>13 DEF K, L

----------------------------------------------------------------------------
(* The contents of the store and the operations on them.                    *)

\* The part of the invariant about the array, its length and the map.
Content ==
    /\ slots \in Slots /\ length \in Nat /\ map \in [Ids -> Nat \cup {Absent}]
    /\ length = Cardinality(Live) /\ MapExact

LEMMA MapExactIs ==
    MapExact <=> IdsDiffer(slots) /\ {id \in Ids : map[id] # Absent} = IdsIn(slots)
BY DEF MapExact, IdsDiffer, IdsIn, Live, LiveIn

LEMMA InvContent ==
    ASSUME IInv
    PROVE  Content /\ Live = LiveIn(slots) /\ IdsDiffer(slots)
BY MapExactIs DEF IInv, TypeOK, Content, Slots, Slot, Live, LiveIn

\* Removing a triple: the array keeps its length or, if there are no iterators
\* and so no holes, shrinks by one and has no holes again.
LEMMA RemoveContent ==
    ASSUME IInv, call.op \notin {"trim", "fill"}, NEW n \in Live, RemoveByIndex(n)
    PROVE  /\ Content'
           /\ Contents' = Contents \ {slots[n].t}
           /\ niter = 0 => /\ Live' = 1..Len(slots') /\ Len(slots') = Len(slots) - 1
                           /\ slots' = Moved(slots, n)
           /\ niter # 0 => /\ Live' = Live \ {n} /\ Len(slots') = Len(slots)
                           /\ \A m \in 1..Len(slots) : slots'[m].t = slots[m].t
<1>0. slots \in Slots
  BY InvContent DEF Content
<1>1. /\ slots \in Slots /\ length \in Nat /\ map \in [Ids -> Nat \cup {Absent}]
      /\ length = Cardinality(Live) /\ Live = LiveIn(slots) /\ IdsDiffer(slots)
      /\ {id \in Ids : map[id] # Absent} = IdsIn(slots)
  BY InvContent, MapExactIs DEF Content
<1>2. n \in 1..Len(slots) /\ n \in LiveIn(slots) /\ slots[n].t \in Triples
      /\ Len(slots) \in Nat
  BY <1>1, SlotType DEF Live
<1>3. IdOf[slots[n].t] \in Ids
  BY <1>2, ValueAssumption
<1>4. /\ map' = [map EXCEPT ![IdOf[slots[n].t]] = Absent] /\ length' = length - 1
      /\ niter = 0 => slots' = Moved(slots, n)
      /\ niter # 0 => slots' = Killed(slots, n)
  BY DEF RemoveByIndex, Kill, MoveLast, Moved, Killed, IInv, TypeOK
<1>5. niter = 0 => Live = 1..Len(slots)
  BY DEF IInv, NoHoles
<1>6. slots' \in Slots /\ Without(slots, n, slots')
  <2>1. CASE niter = 0
    <3>1. slots[Len(slots)].live
      BY <1>2, <1>5, <2>1 DEF Live
    <3>2. Moved(slots, n) \in Slots /\ Without(slots, n, Moved(slots, n))
      BY <1>0, <1>2, <3>1, MovedSlots, MovedWithout
    <3> QED BY <1>4, <2>1, <3>2
  <2>2. CASE niter # 0
    <3>1. Killed(slots, n) \in Slots /\ Without(slots, n, Killed(slots, n))
      BY <1>0, <1>2, KilledSlots, KilledWithout
    <3> QED BY <1>4, <2>2, <3>1
  <2> QED BY <2>1, <2>2
<1>7. /\ IdsDiffer(slots') /\ IdsIn(slots') = IdsIn(slots) \ {IdOf[slots[n].t]}
      /\ Cardinality(LiveIn(slots')) = Cardinality(LiveIn(slots)) - 1
      /\ Held(slots') = Held(slots) \ {slots[n].t}
  BY <1>1, <1>2, <1>6, WithoutContent
<1>8. Live' = LiveIn(slots') /\ Contents' = Held(slots') /\ Contents = Held(slots)
  BY DEF Live, LiveIn, Contents, Held
<1>9. Cardinality(LiveIn(slots')) \in Nat
  BY <1>6, LiveFinite
<1>10. map' \in [Ids -> Nat \cup {Absent}]
       /\ {id \in Ids : map'[id] # Absent} = IdsIn(slots) \ {IdOf[slots[n].t]}
  <2> DEFINE x == IdOf[slots[n].t]
  <2>1. x \in Ids /\ map' = [map EXCEPT ![x] = Absent]
    BY <1>3, <1>4
  <2>2. map \in [Ids -> Nat \cup {Absent}]
        /\ {id \in Ids : map[id] # Absent} = IdsIn(slots)
    BY <1>1
  <2> HIDE DEF x
  <2>3. map' \in [Ids -> Nat \cup {Absent}]
        /\ {id \in Ids : map'[id] # Absent} = {id \in Ids : map[id] # Absent} \ {x}
    BY <2>1, <2>2
  <2> QED BY <2>2, <2>3 DEF x
<1>11. MapExact'
  BY <1>7, <1>10, MapExactIs DEF MapExact, IdsDiffer, IdsIn, Live, LiveIn
<1>12. Content'
  <2>1. length' = Cardinality(Live') /\ length' \in Nat
    BY <1>1, <1>4, <1>7, <1>8, <1>9
  <2> QED BY <2>1, <1>6, <1>10, <1>11 DEF Content
<1>13. ASSUME niter = 0
       PROVE  Live' = 1..Len(slots') /\ Len(slots') = Len(slots) - 1
  <2>1. /\ Len(slots') = Len(slots) - 1
        /\ \A m \in 1..Len(slots') :
              slots'[m] = IF m = n THEN slots[Len(slots)] ELSE slots[m]
    BY <1>0, <1>2, <1>4, <1>13, MovedSlots
  <2>2. \A m \in 1..Len(slots) : slots[m].live
    BY <1>5, <1>13 DEF Live
  <2>3. \A m \in 1..Len(slots') : slots'[m].live
    BY <1>2, <2>1, <2>2
  <2> QED BY <2>1, <2>3 DEF Live
<1>14. ASSUME niter # 0
       PROVE  /\ Live' = Live \ {n} /\ Len(slots') = Len(slots)
              /\ \A m \in 1..Len(slots) : slots'[m].t = slots[m].t
  <2>1. /\ Len(slots') = Len(slots)
        /\ \A m \in 1..Len(slots) : /\ slots'[m].t = slots[m].t
                                    /\ slots'[m].live <=> m # n /\ slots[m].live
    BY <1>0, <1>2, <1>4, <1>14, KilledSlots
  <2>2. Live' = Live \ {n}
    BY <2>1 DEF Live
  <2> QED BY <2>1, <2>2
<1>15. Contents' = Contents \ {slots[n].t}
  BY <1>7, <1>8
<1> QED BY <1>4, <1>12, <1>13, <1>14, <1>15

----------------------------------------------------------------------------
(* Every step keeps the invariant.                                          *)

\* The other types.
OtherTypes ==
    /\ size \in Nat /\ niter \in Nat /\ freed \in BOOLEAN /\ alive \in BOOLEAN
    /\ query \in [Iters -> Queries \cup {NULL}] /\ pos \in [Iters -> Nat]
    /\ cleared \in SUBSET Iters /\ result \in Triples \cup {NULL}

\* The parts of the invariant, as the proofs below take them up.
LEMMA InvParts ==
    IInv <=> /\ Content /\ OtherTypes /\ CallExact /\ NoHoles /\ SweptExact
             /\ InsideArray /\ Lifetime /\ StateExact
<1>1. CallExact => /\ call.op \in {"none", "add", "remove", "clear", "free", "trim", "fill"}
                   /\ call.i \in Nat
  BY DEF CallExact, Ops
<1> QED BY <1>1 DEF IInv, Content, OtherTypes, TypeOK, Slots, Slot

LEMMA InvPartsNext ==
    ASSUME Content', OtherTypes', CallExact', NoHoles', SweptExact', InsideArray',
           Lifetime', StateExact'
    PROVE  IInv'
BY InvParts, PTL

Empty    == slots = <<>> /\ length = 0 /\ map = [id \in Ids |-> Absent]
NoneLive == Live = {}

\* The empty store is exact.
LEMMA EmptyContent == Empty => Content /\ NoneLive
<1> SUFFICES ASSUME slots = <<>>, length = 0, map = [id \in Ids |-> Absent]
             PROVE  Content /\ Live = {}
  BY DEF Empty, NoneLive
<1>1. slots \in Slots /\ Len(slots) = 0
  BY DEF Slots
<1>2. Live = {}
  BY <1>1 DEF Live
<1>3. map \in [Ids -> Nat \cup {Absent}] /\ {id \in Ids : map[id] # Absent} = {}
  OBVIOUS
<1>4. Cardinality({}) = 0
  BY FS_EmptySet
<1> QED BY <1>1, <1>2, <1>3, <1>4 DEF Content, MapExact

LEMMA InitInv == Init => IInv
<1> SUFFICES ASSUME Init PROVE IInv
  OBVIOUS
<1>1. Content /\ Live = {}
  BY EmptyContent DEF Init, Empty, NoneLive
<1>2. OtherTypes
  BY DEF Init, OtherTypes
<1>3. call = NoCall /\ slots = <<>> /\ Len(slots) = 0
  BY DEF Init
<1>4. CallExact
  BY <1>3 DEF CallExact, NoCall, Running, Idle, Ops
<1>5. NoHoles /\ SweptExact /\ InsideArray
  BY <1>1, <1>3 DEF NoHoles, SweptExact, InsideArray, NoCall, Running, Init
<1>6. Lifetime
  <2>1. Open = {}
    BY DEF Init, Open
  <2> QED BY <2>1, FS_EmptySet DEF Init, Lifetime
<1>7. StateExact
  BY <1>3 DEF StateExact, Idle, NoCall, Init, Open
<1> QED BY <1>1, <1>2, <1>4, <1>5, <1>6, <1>7, InvParts

\* A step that leaves the array, its length and the map alone.
LEMMA SameContent ==
    ASSUME IInv, UNCHANGED content
    PROVE  /\ Content' /\ Live' = Live /\ Contents' = Contents
           /\ Len(slots) \in Nat
<1>1. Content /\ slots' = slots /\ length' = length /\ map' = map
  BY InvContent DEF content
<1>2. Len(slots) \in Nat
  BY <1>1, SlotType DEF Content
<1>3. Live' = Live /\ Contents' = Contents
  BY <1>1 DEF Live, Contents
<1> QED BY <1>1, <1>2, <1>3 DEF Content, MapExact

\* The division of Grown() rounds up.
LEMMA RoundedUp ==
    ASSUME NEW a \in Nat, NEW c \in Nat \ {0}
    PROVE  (a \div c + 1) * c \in Nat /\ (a \div c + 1) * c >= a
<1> DEFINE q == a \div c
<1>1. q \in Nat
  OBVIOUS
<1>2. a = q * c + (a % c) /\ a % c \in 0..(c - 1)
  OBVIOUS
<1> HIDE DEF q
<1>3. (q + 1) * c = q * c + c /\ q * c \in Nat
  BY <1>1
<1> QED BY <1>1, <1>2, <1>3 DEF q

LEMMA GrownFits ==
    ASSUME IInv, NEW n \in Nat
    PROVE  Grown(n) \in Nat /\ Grown(n) >= size /\ Len(slots) + n <= Grown(n)
<1>1. size \in Nat /\ Len(slots) \in Nat /\ Chunk \in Nat \ {0}
  BY InvContent, SlotType, ValueAssumption DEF IInv, TypeOK, Content
<1>2. CASE size < Len(slots) + n
  <2> DEFINE a == Len(slots) + n - size
             b == (a \div Chunk + 1) * Chunk
  <2>1. a \in Nat /\ size + a = Len(slots) + n
    BY <1>1, <1>2
  <2>2. b \in Nat /\ b >= a
    BY <1>1, <2>1, RoundedUp
  <2>3. Grown(n) = size + b
    BY <1>2 DEF Grown
  <2> HIDE DEF a, b
  <2> QED BY <1>1, <2>1, <2>2, <2>3
<1>3. CASE ~(size < Len(slots) + n)
  BY <1>1, <1>3 DEF Grown
<1> QED BY <1>2, <1>3

\* The start of a loop over the batch or the array: triplestore_add_triples(),
\* triplestore_remove(), triplestore_clear() and triplestore_free().
LEMMA LoopStarts ==
    ASSUME IInv, Usable, UNCHANGED <<content, niter, freed, alive, iters>>,
           NEW op \in {"add", "remove", "clear", "free"}, NEW i \in Nat, NEW arg,
           Loop(op, i, arg),
           op = "add" => arg \in Batches /\ i = 0,
           op = "remove" => arg \in Queries,
           op \in {"clear", "free"} => arg = NULL,
           op # "add" => i = Len(slots),
           size' \in Nat, size' >= size,
           op = "add" => Len(slots) + Len(arg) <= size'
    PROVE  IInv'
<1>1. /\ Content' /\ Live' = Live /\ Len(slots) \in Nat
      /\ slots' = slots /\ Open' = Open
  BY SameContent DEF content, iters, Open
<1>2. Content /\ OtherTypes /\ NoHoles /\ InsideArray /\ Lifetime /\ StateExact
  BY InvParts
<1>3. /\ call = NoCall /\ alive /\ ~freed /\ call.op = "none"
      /\ call' = [op |-> op, i |-> i, arg |-> arg]
      /\ call'.op = op /\ call'.i = i /\ call'.arg = arg /\ call' # NoCall
  BY DEF Usable, Idle, NoCall, Loop
<1>4. OtherTypes'
  BY <1>2 DEF OtherTypes, iters
<1>5. CallExact'
  <2>1. op = "add" => Len(arg) \in Nat
    BY ValueAssumption
  <2>2. call' \in [op : Ops, i : Nat, arg : Batches \cup Queries \cup {NULL}]
    BY <1>3 DEF Ops
  <2> QED BY <1>1, <1>3, <2>1, <2>2 DEF CallExact, Running, Idle
<1>6. NoHoles'
  BY <1>1, <1>2, <1>3 DEF NoHoles
<1>7. SweptExact'
  <2>1. op # "add" => Behind' = {}
    BY <1>1, <1>3 DEF Behind
  <2> QED BY <1>3, <2>1 DEF SweptExact, Running
<1>8. InsideArray'
  <2>1. Len(slots) <= size' /\ (op = "add" => Len(arg) \in Nat)
    BY <1>1, <1>2, ValueAssumption DEF InsideArray, OtherTypes
  <2> QED BY <1>1, <1>3, <2>1 DEF InsideArray, Running
<1>9. Lifetime' /\ StateExact'
  BY <1>1, <1>2, <1>3 DEF Lifetime, StateExact, Idle, Running, iters
<1> QED BY <1>1, <1>4, <1>5, <1>6, <1>7, <1>8, <1>9, InvPartsNext

LEMMA AddTriplesInv ==
    ASSUME IInv, NEW b \in Batches, AddTriples(b) PROVE IInv'
<1>1. Len(b) \in Nat
  BY ValueAssumption
<1>2. Grown(Len(b)) \in Nat /\ Grown(Len(b)) >= size
      /\ Len(slots) + Len(b) <= Grown(Len(b))
  BY <1>1, GrownFits
<1> QED BY <1>2, LoopStarts DEF AddTriples

LEMMA RemoveInv ==
    ASSUME IInv, NEW q \in Queries, Remove(q) PROVE IInv'
<1>1. Len(slots) \in Nat /\ size \in Nat
  BY InvContent, SlotType DEF Content, IInv, TypeOK
<1> QED BY <1>1, LoopStarts DEF Remove

LEMMA ClearFreeInv ==
    ASSUME IInv, Clear \/ Free PROVE IInv'
<1>1. Len(slots) \in Nat /\ size \in Nat
  BY InvContent, SlotType DEF Content, IInv, TypeOK
<1>2. CASE Clear
  BY <1>1, <1>2, LoopStarts DEF Clear
<1>3. CASE Free
  BY <1>1, <1>3, LoopStarts DEF Free
<1> QED BY <1>2, <1>3

\* The end of a loop that leaves no holes behind.
LEMMA LoopEnds ==
    ASSUME IInv, UNCHANGED <<content, niter, freed, alive, iters>>,
           call.op \in {"add", "remove", "fill"}, call' = NoCall,
           size' \in Nat, size' >= Len(slots),
           niter = 0 => Live = 1..Len(slots)
    PROVE  IInv'
<1>1. /\ Content' /\ Live' = Live /\ Len(slots) \in Nat
      /\ slots' = slots /\ Open' = Open
  BY SameContent DEF content, iters, Open
<1>2. OtherTypes /\ Lifetime /\ StateExact
  BY InvParts
<1>3. call'.op = "none" /\ call' = NoCall /\ call # NoCall
  BY DEF NoCall
<1>4. OtherTypes'
  BY <1>2 DEF OtherTypes, iters
<1>5. CallExact'
  BY <1>3 DEF CallExact, NoCall, Running, Idle, Ops
<1>6. NoHoles' /\ SweptExact' /\ InsideArray'
  BY <1>1, <1>3 DEF NoHoles, SweptExact, InsideArray, Running
<1>7. Lifetime' /\ StateExact'
  BY <1>1, <1>2, <1>3 DEF Lifetime, StateExact, Idle, Running, iters
<1> QED BY <1>1, <1>4, <1>5, <1>6, <1>7, InvPartsNext

LEMMA AddReturnsInv ==
    ASSUME IInv, AddReturns PROVE IInv'
<1>1. size \in Nat /\ size >= Len(slots) /\ Len(slots) \in Nat
  BY InvContent, SlotType DEF IInv, TypeOK, InsideArray, Content
<1>2. call.op = "add" /\ (niter = 0 => Live = 1..Len(slots))
  BY DEF AddReturns, Running, IInv, NoHoles
<1> QED BY <1>1, <1>2, LoopEnds DEF AddReturns

LEMMA RemoveReturnsInv ==
    ASSUME IInv, RemoveReturns PROVE IInv'
<1>1. size \in Nat /\ size >= Len(slots) /\ Len(slots) \in Nat
  BY InvContent, SlotType DEF IInv, TypeOK, InsideArray, Content
<1>2. call.op = "remove" /\ (niter = 0 => Live = 1..Len(slots))
  BY DEF RemoveReturns, Running, IInv, NoHoles
<1> QED BY <1>1, <1>2, LoopEnds DEF RemoveReturns

LEMMA FillReturnsInv ==
    ASSUME IInv, FillReturns PROVE IInv'
<1>1. /\ call.op = "fill" /\ call.i = 0 /\ SweptExact
      /\ size \in Nat /\ Len(slots) <= size
      /\ slots \in Slots /\ length \in Nat /\ length = Cardinality(Live)
      /\ Live = LiveIn(slots)
  BY InvContent DEF FillReturns, Running, IInv, TypeOK, InsideArray, Content
<1>2. Len(slots) \in Nat
  BY <1>1, SlotType
<1>3. Behind = 1..Len(slots) /\ Live \subseteq 1..Len(slots)
  BY <1>1, <1>2 DEF Behind, Live
<1>4. Live = 1..Len(slots)
  BY <1>1, <1>3 DEF SweptExact, Running
<1>5. length = Len(slots)
  BY <1>1, <1>4, LiveFinite
<1>6. Chunk \in Nat /\ length % Chunk \in Nat
  BY <1>1, ValueAssumption
<1>7. size' \in Nat /\ size' >= Len(slots)
  BY <1>1, <1>5, <1>6 DEF FillReturns
<1> QED BY <1>1, <1>4, <1>7, LoopEnds DEF FillReturns

\* The loop that adds goes on with content' as the new content.
LEMMA AddGoesOn ==
    ASSUME IInv, Running("add"), call.i < Len(call.arg), Content',
           Loop("add", call.i + 1, call.arg),
           UNCHANGED <<size, niter, freed, alive, iters>>,
           niter = 0 => Live' = 1..Len(slots'),
           Len(slots') \in Nat, Len(slots') <= Len(slots) + 1
    PROVE  IInv'
<1>1. /\ call'.op = "add" /\ call'.i = call.i + 1 /\ call'.arg = call.arg
      /\ call' = [op |-> "add", i |-> call.i + 1, arg |-> call.arg]
      /\ call.op = "add" /\ call # NoCall /\ call' # NoCall
      /\ Open' = Open
  BY DEF Loop, Running, NoCall, iters, Open
<1>2. OtherTypes /\ CallExact /\ InsideArray /\ Lifetime /\ StateExact
  BY InvParts
<1>3. call.i \in Nat /\ call.arg \in Batches /\ Len(call.arg) \in Nat
  BY <1>2, ValueAssumption DEF CallExact, Running
<1>4. /\ OtherTypes'
  BY <1>2 DEF OtherTypes, iters
<1>5. CallExact'
  BY <1>1, <1>2, <1>3 DEF CallExact, Running, Idle, Ops
<1>6. NoHoles' /\ SweptExact'
  BY <1>1 DEF NoHoles, SweptExact, Running
<1>7. InsideArray'
  <2>1. size \in Nat /\ Len(slots) \in Nat /\ Len(slots) + Len(call.arg) - call.i <= size
    BY <1>2, InvContent, SlotType DEF OtherTypes, InsideArray, Running, Content
  <2>2. \A l, m, k, i, z \in Nat :
           l + k - i <= z /\ m <= l + 1 /\ i < k => m + k - (i + 1) <= z /\ m <= z
    OBVIOUS
  <2>3. Len(slots') + Len(call.arg) - (call.i + 1) <= size /\ Len(slots') <= size
    BY <1>3, <2>1, <2>2
  <2> QED BY <1>1, <2>3 DEF InsideArray, Running
<1>8. Lifetime' /\ StateExact'
  BY <1>1, <1>2 DEF Lifetime, StateExact, Idle, Running, iters
<1> QED BY <1>4, <1>5, <1>6, <1>7, <1>8, InvPartsNext

\* Appending a triple whose id the map does not know.
LEMMA AddContent ==
    ASSUME IInv, call.op \notin {"trim", "fill"}, call.i \in Nat, NEW t \in Triples,
           map[IdOf[t]] = Absent, AddOne(t)
    PROVE  /\ Content'
           /\ slots' = Added(slots, t) /\ Len(slots') = Len(slots) + 1
           /\ Live' = Live \cup {Len(slots) + 1}
           /\ Contents' = Contents \cup {t}
           /\ niter = 0 => Live' = 1..Len(slots')
           /\ \A u \in Contents : IdOf[u] # IdOf[t]
<1>1. /\ slots \in Slots /\ length \in Nat /\ map \in [Ids -> Nat \cup {Absent}]
      /\ length = Cardinality(Live) /\ Live = LiveIn(slots) /\ IdsDiffer(slots)
      /\ {id \in Ids : map[id] # Absent} = IdsIn(slots)
  BY InvContent, MapExactIs DEF Content
<1>2. /\ slots' = Added(slots, t) /\ length' = length + 1
      /\ map' = [map EXCEPT ![IdOf[t]] = call.i]
  BY DEF AddOne, Added
<1>3. IdOf[t] \in Ids /\ IdOf[t] \notin IdsIn(slots)
  BY <1>1, ValueAssumption
<1>4. /\ slots' \in Slots /\ Len(slots') = Len(slots) + 1 /\ Len(slots) \in Nat
      /\ LiveIn(slots') = LiveIn(slots) \cup {Len(slots')}
      /\ Cardinality(LiveIn(slots')) = Cardinality(LiveIn(slots)) + 1
  BY <1>1, <1>2, AddedSlots, AddedLive, SlotType
<1>5. /\ IdsDiffer(slots') /\ IdsIn(slots') = IdsIn(slots) \cup {IdOf[t]}
      /\ Held(slots') = Held(slots) \cup {t}
  BY <1>1, <1>2, <1>3, AddedContent
<1>6. Live' = LiveIn(slots') /\ Contents' = Held(slots') /\ Contents = Held(slots)
  BY DEF Live, LiveIn, Contents, Held
<1>7. map' \in [Ids -> Nat \cup {Absent}]
      /\ {id \in Ids : map'[id] # Absent} = IdsIn(slots) \cup {IdOf[t]}
  <2> DEFINE x == IdOf[t]
  <2>1. x \in Ids /\ map' = [map EXCEPT ![x] = call.i] /\ call.i # Absent
    BY <1>2, <1>3 DEF Absent
  <2>2. /\ map \in [Ids -> Nat \cup {Absent}]
        /\ {id \in Ids : map[id] # Absent} = IdsIn(slots)
    BY <1>1
  <2> HIDE DEF x
  <2>3. map' \in [Ids -> Nat \cup {Absent}]
        /\ {id \in Ids : map'[id] # Absent} = {id \in Ids : map[id] # Absent} \cup {x}
    BY <2>1, <2>2
  <2> QED BY <2>2, <2>3 DEF x
<1>8. MapExact'
  BY <1>5, <1>7 DEF MapExact, IdsDiffer, IdsIn, Live, LiveIn
<1>9. Content'
  <2>1. length' = Cardinality(Live') /\ length' \in Nat
    BY <1>1, <1>2, <1>4, <1>6
  <2> QED BY <2>1, <1>4, <1>7, <1>8 DEF Content
<1>10. niter = 0 => Live' = 1..Len(slots')
  BY <1>1, <1>4, <1>6 DEF IInv, NoHoles
<1>11. \A u \in Contents : IdOf[u] # IdOf[t]
  BY <1>3, <1>6 DEF IdsIn, Held
<1> QED BY <1>1, <1>2, <1>4, <1>5, <1>6, <1>9, <1>10, <1>11

LEMMA AddStepInv ==
    ASSUME IInv, AddStep PROVE IInv'
<1> DEFINE t == call.arg[call.i + 1]
<1>1. /\ Running("add") /\ call.op = "add" /\ call.i < Len(call.arg)
      /\ UNCHANGED <<size, niter, freed, alive, iters>>
  BY DEF AddStep, Running
<1>2. call.i \in Nat /\ call.arg \in Seq(Triples \cup {NULL})
  BY <1>1, ValueAssumption DEF IInv, CallExact
<1>3. t \in Triples \cup {NULL}
  BY <1>1, <1>2
<1>4. /\ size \in Nat /\ size >= Len(slots) /\ Len(slots) \in Nat
      /\ niter = 0 => Live = 1..Len(slots)
  BY <1>1, InvContent, SlotType DEF IInv, TypeOK, InsideArray, Content, NoHoles
<1>5. CASE t = NULL
  BY <1>1, <1>4, <1>5, LoopEnds DEF AddStep
<1>6. CASE t # NULL /\ map[IdOf[t]] # Absent
  <2>1. UNCHANGED content /\ Loop("add", call.i + 1, call.arg)
    BY <1>6 DEF AddStep, AddOne
  <2>2. Content' /\ Live' = Live /\ slots' = slots
    BY <2>1, SameContent DEF content
  <2> QED BY <1>1, <1>4, <2>1, <2>2, AddGoesOn
<1>7. CASE t # NULL /\ map[IdOf[t]] = Absent
  <2>1. AddOne(t) /\ Loop("add", call.i + 1, call.arg)
    BY <1>7 DEF AddStep
  <2> HIDE DEF t
  <2>2. /\ Content' /\ Len(slots') = Len(slots) + 1
        /\ niter = 0 => Live' = 1..Len(slots')
    BY <1>1, <1>2, <1>3, <1>7, <2>1, AddContent
  <2> QED BY <1>1, <1>4, <2>1, <2>2, AddGoesOn
<1> QED BY <1>5, <1>6, <1>7

\* triplestore_remove_by_id()
LEMMA RemoveByIdInv ==
    ASSUME IInv, NEW id \in Ids, RemoveById(id) PROVE IInv'
<1> DEFINE n == map[id] + 1
<1>1. /\ call = NoCall /\ call.op = "none" /\ n <= Len(slots) /\ slots[n].live
      /\ map[id] # Absent /\ RemoveByIndex(n)
      /\ UNCHANGED <<size, niter, freed, alive, iters, call>>
  BY DEF RemoveById, Usable, Idle, NoCall
<1>2. /\ OtherTypes /\ CallExact /\ InsideArray /\ Lifetime /\ StateExact
      /\ Content
  BY InvParts
<1>3. /\ n \in Live /\ Len(slots) \in Nat /\ size \in Nat /\ Len(slots) <= size
      /\ Len(slots) # 0
  <2>1. map[id] \in Nat /\ Len(slots) \in Nat
    BY <1>1, <1>2, SlotType DEF Content, Absent
  <2> QED BY <1>1, <1>2, <2>1 DEF Live, OtherTypes, InsideArray
<1> HIDE DEF n
<1>4. /\ Content' /\ Len(slots') \in Nat /\ Len(slots') <= Len(slots)
      /\ niter = 0 => Live' = 1..Len(slots')
  BY <1>1, <1>3, RemoveContent
<1>5. OtherTypes' /\ Open' = Open
  BY <1>1, <1>2 DEF OtherTypes, iters, Open
<1>6. CallExact' /\ NoHoles' /\ SweptExact'
  BY <1>1, <1>2, <1>4 DEF CallExact, NoHoles, SweptExact, Running, Idle
<1>7. InsideArray'
  BY <1>1, <1>3, <1>4 DEF InsideArray, Running
<1>8. Lifetime' /\ StateExact'
  <2>1. alive /\ ~freed
    BY DEF RemoveById, Usable
  <2> QED BY <2>1, <1>1, <1>2, <1>3, <1>5 DEF Lifetime, StateExact, Idle, Running, iters
<1> QED BY <1>4, <1>5, <1>6, <1>7, <1>8, InvPartsNext

\* A step of a loop that removes: slot call.i is removed or left alone.
LEMMA RemovalGoesOn ==
    ASSUME IInv, NEW op \in {"remove", "clear", "free"}, Running(op), call.i > 0,
           NEW arg, Loop(op, call.i - 1, arg),
           arg = IF op = "remove" THEN call.arg ELSE NULL,
           UNCHANGED <<size, niter, freed, alive, iters>>,
           NEW hit \in BOOLEAN, hit => slots[call.i].live,
           IF hit THEN RemoveByIndex(call.i) ELSE UNCHANGED content,
           ~hit /\ slots[call.i].live =>
              op = "remove" /\ ~Matches(call.arg, slots[call.i].t)
    PROVE  /\ IInv'
           /\ hit => call.i \in Live
<1> DEFINE i == call.i
<1>1. /\ call'.op = op /\ call'.i = i - 1 /\ call'.arg = arg
      /\ call' = [op |-> op, i |-> i - 1, arg |-> arg]
      /\ call.op = op /\ call # NoCall /\ call' # NoCall /\ Open' = Open
  BY DEF Loop, Running, NoCall, iters, Open
<1>2. /\ OtherTypes /\ CallExact /\ NoHoles /\ SweptExact /\ InsideArray
      /\ Lifetime /\ StateExact /\ Content
  BY InvParts
<1>3. /\ i \in Nat /\ i > 0 /\ i <= Len(slots) /\ Len(slots) \in Nat /\ slots \in Slots
      /\ size \in Nat /\ Len(slots) <= size
  BY <1>1, <1>2, SlotType DEF CallExact, Content, OtherTypes, InsideArray
<1>4. hit => i \in Live
  BY <1>3 DEF Live
<1>5. /\ Content' /\ Len(slots') \in Nat /\ i - 1 <= Len(slots')
      /\ Len(slots') <= Len(slots)
      /\ niter = 0 => Live' = 1..Len(slots')
  <2>1. CASE hit
    BY <1>1, <1>3, <1>4, <2>1, RemoveContent
  <2>2. CASE ~hit
    BY <1>1, <1>2, <1>3, <2>2, SameContent DEF NoHoles, content
  <2> QED BY <2>1, <2>2
\* A live slot behind call.i - 1 holds what one behind call.i held.
<1>6. ASSUME NEW m \in Live', m > i - 1
      PROVE  /\ op = "remove"
             /\ ~Matches(call.arg, slots'[m].t)
  <2>1. CASE ~hit
    <3>1. slots' = slots /\ m \in Live /\ m \in 1..Len(slots) /\ m \in Nat
      BY <2>1, <1>6 DEF content, Live
    <3>2. m = i \/ m > i
      BY <3>1, <1>3, <1>6
    <3>3. CASE m = i
      BY <2>1, <3>1, <3>3 DEF Live
    <3>4. CASE m > i
      BY <1>1, <1>2, <3>1, <3>4 DEF SweptExact, Running, Behind
    <3> QED BY <3>2, <3>3, <3>4
  <2>2. CASE hit /\ niter # 0
    <3>1. Live' = Live \ {i} /\ \A k \in 1..Len(slots) : slots'[k].t = slots[k].t
      BY <1>1, <1>4, <2>2, RemoveContent
    <3>2. m \in Live /\ m \in 1..Len(slots) /\ m > i
      BY <3>1, <1>3, <1>6 DEF Live
    <3> QED BY <1>1, <1>2, <3>1, <3>2 DEF SweptExact, Running, Behind
  <2>3. CASE hit /\ niter = 0
    <3>1. /\ slots' = Moved(slots, i) /\ Len(slots') = Len(slots) - 1
          /\ Live' = 1..Len(slots')
      BY <1>1, <1>4, <2>3, RemoveContent
    <3>2. \A k \in 1..Len(slots') :
             slots'[k] = IF k = i THEN slots[Len(slots)] ELSE slots[k]
      <4>1. slots \in Slots /\ i \in 1..Len(slots)
        BY <1>3
      <4>2. \A k \in 1..Len(Moved(slots, i)) :
               Moved(slots, i)[k] = IF k = i THEN slots[Len(slots)] ELSE slots[k]
        BY <4>1, MovedSlots
      <4> QED BY <3>1, <4>2
    <3>3. Live = 1..Len(slots)
      BY <1>1, <1>2, <2>3 DEF NoHoles
    <3> DEFINE k == IF m = i THEN Len(slots) ELSE m
    <3>4. k \in Live /\ k \in 1..Len(slots) /\ k > i /\ slots'[m] = slots[k]
      BY <1>3, <1>6, <3>1, <3>2, <3>3
    <3> QED BY <1>1, <1>2, <3>4 DEF SweptExact, Running, Behind
  <2> QED BY <2>1, <2>2, <2>3
<1>7. OtherTypes'
  BY <1>2 DEF OtherTypes, iters
<1>8. CallExact'
  BY <1>1, <1>2, <1>3, <1>5 DEF CallExact, Running, Idle, Ops
<1>9. NoHoles'
  BY <1>5 DEF NoHoles
<1>10. SweptExact'
  BY <1>1, <1>6 DEF SweptExact, Running, Behind, Live
<1>11. InsideArray'
  BY <1>1, <1>3, <1>5 DEF InsideArray, Running
<1>12. Lifetime' /\ StateExact'
  <2>1. freed => slots' = slots
    <3> HAVE freed
    <3>1. slots = <<>>
      BY <1>2 DEF StateExact
    <3> QED BY <3>1, <1>3
  <2> QED BY <2>1, <1>1, <1>2, <1>3 DEF Lifetime, StateExact, Idle, Running, iters
<1> QED BY <1>4, <1>5, <1>7, <1>8, <1>9, <1>10, <1>11, <1>12, InvPartsNext

LEMMA RemoveStepInv ==
    ASSUME IInv, RemoveStep PROVE IInv'
<1> DEFINE hit == slots[call.i].live /\ Matches(call.arg, slots[call.i].t)
<1>1. /\ Running("remove") /\ call.i > 0 /\ Loop("remove", call.i - 1, call.arg)
      /\ UNCHANGED <<size, niter, freed, alive, iters>>
      /\ IF hit THEN RemoveByIndex(call.i) ELSE UNCHANGED content
  BY DEF RemoveStep
<1>2. ~hit /\ slots[call.i].live => ~Matches(call.arg, slots[call.i].t)
  OBVIOUS
<1>3. hit \in BOOLEAN /\ (hit => slots[call.i].live)
  OBVIOUS
<1> HIDE DEF hit
<1> QED BY <1>1, <1>2, <1>3, RemovalGoesOn
LEMMA ClearStepInv ==
    ASSUME IInv, ClearStep PROVE IInv'
<1> DEFINE hit == slots[call.i].live
<1>1. /\ call.op \in {"clear", "free"} /\ call.i > 0 /\ Loop(call.op, call.i - 1, NULL)
      /\ UNCHANGED <<size, niter, freed, alive, iters>>
      /\ IF hit THEN RemoveByIndex(call.i) ELSE UNCHANGED content
  BY DEF ClearStep, Running
<1>2. hit \in BOOLEAN
  <2>1. slots \in Slots /\ call.i \in 1..Len(slots)
    BY <1>1, InvContent, SlotType DEF IInv, Content, CallExact
  <2> QED BY <2>1, SlotType
<1> HIDE DEF hit
<1>3. CASE call.op = "clear"
  BY <1>1, <1>2, <1>3, RemovalGoesOn DEF Running, hit
<1>4. CASE call.op = "free"
  BY <1>1, <1>2, <1>4, RemovalGoesOn DEF Running, hit
<1> QED BY <1>1, <1>3, <1>4

----------------------------------------------------------------------------
(* The end of triplestore_clear() and triplestore_free().                   *)

\* When the loop has reached the start of the array, nothing is live.
LEMMA NothingLeft ==
    ASSUME IInv, Running("clear") \/ Running("free"), call.i = 0
    PROVE  Live = {} /\ Contents = {}
<1>1. Live \cap Behind = {}
  BY DEF IInv, SweptExact
<1>2. Live \subseteq Behind
  BY DEF Live, Behind
<1> QED BY <1>1, <1>2 DEF Contents

LEMMA EmptyContentNext ==
    ASSUME slots' = <<>>, length' = 0, map' = [id \in Ids |-> Absent]
    PROVE  Content' /\ Live' = {}
<1>1. Empty'
  BY DEF Empty
<1>2. Content' /\ NoneLive'
  BY <1>1, EmptyContent, PTL
<1> QED BY <1>2 DEF NoneLive

\* Lifetime counts the iterators that are open.
LEMMA OpenFinite == IsFiniteSet(Open)
BY ValueAssumption, FS_Subset DEF Open

\* The number of iterators is zero exactly when none is open.
LEMMA NoneOpen ==
    ASSUME IInv PROVE niter \in Nat /\ (niter = 0 <=> Open = {})
BY OpenFinite, FS_EmptySet DEF IInv, Lifetime, TypeOK

LEMMA ClearedInv ==
    ASSUME IInv, Running("clear") \/ Running("free"), Cleared,
           freed' \in BOOLEAN, alive' \in BOOLEAN,
           freed' => niter > 0, niter > 0 => alive', ~alive' => ~freed'
    PROVE  IInv'
<1>1. /\ slots' = <<>> /\ Len(slots') = 0 /\ size' = 0
      /\ map' = [id \in Ids |-> Absent] /\ length' = 0
      /\ cleared' = Open /\ Open' = Open /\ call' = NoCall /\ call'.op = "none"
      /\ UNCHANGED <<niter, query, pos, result>>
  BY DEF Cleared, Open, NoCall
<1>2. Content' /\ Live' = {}
  BY <1>1, EmptyContentNext
<1>3. OtherTypes /\ Lifetime /\ (niter = 0 <=> Open = {}) /\ niter \in Nat
  BY InvParts, NoneOpen
<1>4. OtherTypes'
  BY <1>1, <1>3 DEF OtherTypes, Open
<1>5. CallExact'
  BY <1>1 DEF CallExact, NoCall, Running, Idle, Ops
<1>6. NoHoles' /\ SweptExact' /\ InsideArray'
  BY <1>1, <1>2 DEF NoHoles, SweptExact, InsideArray, Running
<1>7. Lifetime' /\ StateExact'
  BY <1>1, <1>3 DEF Lifetime, StateExact, Idle, Running
<1> QED BY <1>2, <1>4, <1>5, <1>6, <1>7, InvPartsNext

LEMMA ClearReturnsInv ==
    ASSUME IInv, ClearReturns PROVE IInv'
<1>1. alive /\ alive \in BOOLEAN
  BY DEF ClearReturns, Running, IInv, StateExact, Idle, NoCall, TypeOK
<1> QED BY <1>1, ClearedInv DEF ClearReturns

LEMMA FreeReturnsInv ==
    ASSUME IInv, FreeReturns PROVE IInv'
<1>1. niter \in Nat
  BY NoneOpen
<1>2. /\ Running("free") /\ Cleared /\ freed' \in BOOLEAN /\ alive' \in BOOLEAN
      /\ freed' <=> niter > 0
      /\ alive' <=> niter > 0
  <2> DEFINE some == niter > 0
  <2>1. some \in BOOLEAN
    BY <1>1
  <2>2. Running("free") /\ Cleared /\ freed' = some /\ alive' = some
    BY DEF FreeReturns
  <2> HIDE DEF some
  <2>3. /\ Running("free") /\ Cleared /\ freed' \in BOOLEAN /\ alive' \in BOOLEAN
        /\ freed' <=> some
        /\ alive' <=> some
    BY <2>1, <2>2
  <2> QED BY <2>3 DEF some
<1> QED BY <1>2, ClearedInv

LEMMA CreateInv ==
    ASSUME IInv, Create PROVE IInv'
<1>1. /\ slots' = <<>> /\ Len(slots') = 0 /\ size' = 0 /\ niter' = 0
      /\ map' = [id \in Ids |-> Absent] /\ length' = 0 /\ alive' = TRUE /\ freed' = FALSE
      /\ call = NoCall /\ call.op = "none" /\ ~alive /\ Open' = Open
      /\ UNCHANGED <<query, pos, cleared, result, call>>
  BY DEF Create, Idle, NoCall, iters, Open
<1>2. Content' /\ Live' = {}
  BY <1>1, EmptyContentNext
<1>3. OtherTypes /\ CallExact /\ Lifetime /\ StateExact /\ Open = {}
  BY <1>1, InvParts DEF StateExact
<1>4. OtherTypes'
  BY <1>1, <1>3 DEF OtherTypes
<1>5. CallExact'
  BY <1>1, <1>3 DEF CallExact, Running, Idle
<1>6. NoHoles' /\ SweptExact' /\ InsideArray'
  BY <1>1, <1>2 DEF NoHoles, SweptExact, InsideArray, Running
<1>7. Lifetime' /\ StateExact'
  BY <1>1, <1>3, FS_EmptySet DEF Lifetime, StateExact, Idle, Running
<1> QED BY <1>2, <1>4, <1>5, <1>6, <1>7, InvPartsNext

----------------------------------------------------------------------------
(* Iterators.                                                               *)

\* A non-empty set of indices has a first one.
LEMMA FirstExists ==
    ASSUME NEW S \in SUBSET Nat, S # {}
    PROVE  First(S) \in S /\ \A m \in S : First(S) <= m
<1> DEFINE R == OpToRel(<, Nat)
<1>1. \A m, n \in Nat : m < n => <<m, n>> \in R
  BY DEF OpToRel
<1>2. \E n \in S : \A m \in S : ~(<<m, n>> \in R)
  BY NatLessThanWellFounded, WFMin, Zenon
<1> HIDE DEF R
<1>3. PICK n \in S : \A m \in S : ~(<<m, n>> \in R)
  BY <1>2
<1>4. ASSUME NEW m \in S PROVE n <= m
  <2>1. m \in Nat /\ n \in Nat
    OBVIOUS
  <2>2. ~(m < n)
    BY <1>1, <1>3, <2>1
  <2> QED BY <2>1, <2>2
<1> QED BY <1>4, Zenon DEF First

\* What is ahead of an iterator are indices of the array.
LEMMA AheadIndices ==
    ASSUME IInv, NEW i \in Iters
    PROVE  /\ Ahead(i) \in SUBSET Nat /\ Ahead(i) \subseteq Live
           /\ PosAtEnd(i) \in Nat
           /\ PosAtEnd(i) >= pos[i] /\ PosAtEnd(i) >= Len(slots)
<1>1. Len(slots) \in Nat /\ pos[i] \in Nat
  BY InvContent, SlotType DEF Content, IInv, TypeOK
<1>2. Ahead(i) \in SUBSET Nat /\ Ahead(i) \subseteq Live
  BY DEF Ahead, Live
<1>3. PosAtEnd(i) \in Nat /\ PosAtEnd(i) >= pos[i] /\ PosAtEnd(i) >= Len(slots)
  BY <1>1 DEF PosAtEnd
<1> QED BY <1>2, <1>3

\* A step that moves an iterator.
LEMMA IteratorMoves ==
    ASSUME IInv, UNCHANGED <<content, size, niter, freed, alive, query, call>>,
           pos' \in [Iters -> Nat], cleared' \subseteq cleared,
           result' \in Triples \cup {NULL}
    PROVE  IInv'
<1>1. Content' /\ Live' = Live /\ slots' = slots /\ Open' = Open
  BY SameContent DEF content, Open
<1>2. OtherTypes /\ CallExact /\ NoHoles /\ SweptExact /\ InsideArray
      /\ Lifetime /\ StateExact
  BY InvParts
<1>3. OtherTypes'
  BY <1>2 DEF OtherTypes
<1>4. CallExact' /\ NoHoles'
  BY <1>1, <1>2 DEF CallExact, NoHoles, Running, Idle
<1>5. SweptExact' /\ InsideArray'
  BY <1>1, <1>2 DEF SweptExact, InsideArray, Running, Behind
<1>6. Lifetime' /\ StateExact'
  BY <1>1, <1>2 DEF Lifetime, StateExact, Idle, Running
<1> QED BY <1>1, <1>3, <1>4, <1>5, <1>6, InvPartsNext

LEMMA ResetStateInv ==
    ASSUME IInv, NEW i \in Iters, ResetState(i) PROVE IInv'
<1>1. pos' \in [Iters -> Nat] /\ result' \in Triples \cup {NULL} /\ cleared' \subseteq cleared
  BY DEF ResetState, IInv, TypeOK
<1> QED BY <1>1, IteratorMoves DEF ResetState

\* The first slot ahead of an iterator, if there is one.
LEMMA FirstAhead ==
    ASSUME IInv, NEW i \in Iters, Ahead(i) # {}
    PROVE  /\ First(Ahead(i)) \in Ahead(i) /\ First(Ahead(i)) \in Nat
           /\ First(Ahead(i)) \in Live /\ slots[First(Ahead(i))].t \in Triples
           /\ \A m \in Ahead(i) : First(Ahead(i)) <= m
<1>1. /\ First(Ahead(i)) \in Ahead(i) /\ Ahead(i) \in SUBSET Nat /\ Ahead(i) \subseteq Live
      /\ \A m \in Ahead(i) : First(Ahead(i)) <= m
  BY AheadIndices, FirstExists
<1>2. slots \in Slots /\ \A n \in Live : n \in 1..Len(slots)
  BY InvContent DEF Content, Live
<1> QED BY <1>1, <1>2, SlotType

LEMMA FindInv ==
    ASSUME IInv, NEW i \in Iters, Find(i) PROVE IInv'
<1>1. pos \in [Iters -> Nat] /\ PosAtEnd(i) \in Nat
  BY AheadIndices DEF IInv, TypeOK
<1>2. pos' \in [Iters -> Nat] /\ result' \in Triples \cup {NULL}
  <2>1. CASE Ahead(i) = {}
    BY <1>1, <2>1 DEF Find
  <2>2. CASE Ahead(i) # {}
    <3> DEFINE n == First(Ahead(i))
    <3>1. n \in Nat /\ slots[n].t \in Triples
      BY <2>2, FirstAhead
    <3>2. pos' = [pos EXCEPT ![i] = n] /\ result' = slots[n].t
      BY <2>2 DEF Find
    <3> HIDE DEF n
    <3> QED BY <1>1, <3>1, <3>2
  <2> QED BY <2>1, <2>2
<1> QED BY <1>2, IteratorMoves DEF Find

LEMMA PollInv ==
    ASSUME IInv, NEW i \in Iters, Poll(i) PROVE IInv'
<1> DEFINE L == {n \in 1..Len(slots) : n > pos[i] /\ slots[n].live}
           to == IF L = {} THEN PosAtEnd(i) ELSE First(L) - 1
<1>1. pos \in [Iters -> Nat] /\ PosAtEnd(i) \in Nat /\ result \in Triples \cup {NULL}
  BY AheadIndices DEF IInv, TypeOK
<1>2. to \in Nat
  <2>1. L # {} => First(L) \in L
    <3>1. L \in SUBSET Nat
      OBVIOUS
    <3> HIDE DEF L
    <3> QED BY <3>1, FirstExists
  <2>2. \A n \in L : n - 1 \in Nat
    OBVIOUS
  <2> QED BY <1>1, <2>1, <2>2
<1>3. pos' = [pos EXCEPT ![i] = to]
  BY DEF Poll
<1> HIDE DEF to
<1>4. pos' \in [Iters -> Nat]
  BY <1>1, <1>2, <1>3
<1> QED BY <1>1, <1>4, IteratorMoves DEF Poll

LEMMA InitStateInv ==
    ASSUME IInv, NEW i \in Iters, NEW q \in Queries, InitState(i, q) PROVE IInv'
<1>1. /\ UNCHANGED <<content, size, freed, alive, cleared, result, call>>
      /\ query' = [query EXCEPT ![i] = q] /\ query[i] = NULL
      /\ pos' = [pos EXCEPT ![i] = 0] /\ niter' = niter + 1
      /\ call = NoCall /\ alive /\ ~freed /\ call.op = "none"
  BY DEF InitState, Usable, Idle, NoCall
<1>2. /\ OtherTypes /\ CallExact /\ NoHoles /\ InsideArray
      /\ Lifetime /\ StateExact
  BY InvParts
<1>3. Content' /\ Live' = Live /\ slots' = slots
  BY <1>1, SameContent DEF content
<1>4. OtherTypes'
  BY <1>1, <1>2 DEF OtherTypes
<1>5. CallExact' /\ SweptExact' /\ InsideArray'
  BY <1>1, <1>2, <1>3 DEF CallExact, SweptExact, InsideArray, Running, Idle
<1>6. Open' = Open \cup {i} /\ i \notin Open
  <2>1. q # NULL
    BY ValueAssumption
  <2> QED BY <1>1, <1>2, <2>1 DEF Open, OtherTypes
<1>7. niter' = Cardinality(Open') /\ niter' # 0
  <2>1. Cardinality(Open') = Cardinality(Open) + 1
    BY <1>6, OpenFinite, FS_AddElement
  <2>2. niter \in Nat /\ niter = Cardinality(Open)
    BY <1>2 DEF Lifetime, OtherTypes
  <2> QED BY <1>1, <2>1, <2>2
<1>8. NoHoles'
  BY <1>7 DEF NoHoles
<1>9. Lifetime' /\ StateExact'
  BY <1>1, <1>2, <1>3, <1>6, <1>7 DEF Lifetime, StateExact, Idle, Running
<1> QED BY <1>3, <1>4, <1>5, <1>8, <1>9, InvPartsNext

\* triplestore_deinit_state(): the last iterator starts to free or to compact.
LEMMA DeinitStateInv ==
    ASSUME IInv, NEW i \in Iters, DeinitState(i) PROVE IInv'
<1>1. /\ UNCHANGED <<content, size, freed, alive, result>>
      /\ query' = [query EXCEPT ![i] = NULL] /\ query[i] # NULL
      /\ pos' = [pos EXCEPT ![i] = 0] /\ cleared' = cleared \ {i}
      /\ niter' = niter - 1 /\ call = NoCall /\ call.op = "none" /\ call.arg = NULL
      /\ slots' = slots
  BY DEF DeinitState, Stopped, Idle, NoCall, content
<1>2. /\ OtherTypes /\ CallExact /\ NoHoles /\ InsideArray
      /\ Lifetime /\ StateExact /\ Content /\ Live = LiveIn(slots)
  BY InvParts, InvContent
<1>3. Content' /\ Live' = Live /\ Len(slots) \in Nat
  BY <1>1, SameContent DEF content
<1>4. Open' = Open \ {i} /\ i \in Open
  BY <1>1, <1>2 DEF Open, OtherTypes
<1>5. niter \in Nat /\ niter' \in Nat /\ niter' = Cardinality(Open') /\ alive
  <2>1. Cardinality(Open') = Cardinality(Open) - 1 /\ IsFiniteSet(Open')
    BY <1>4, OpenFinite, FS_RemoveElement
  <2> QED BY <1>1, <1>2, <1>4, <2>1, FS_CardinalityType DEF Lifetime, OtherTypes
<1>6. niter' = 0 <=> Open' = {}
  BY <1>4, <1>5, OpenFinite, FS_EmptySet, FS_RemoveElement
<1>7. OtherTypes'
  BY <1>1, <1>2, <1>5 DEF OtherTypes
<1>8. slots' = <<>> => Live' = {} /\ Len(slots') = 0
  BY DEF Live
<1>9. CASE freed /\ niter = 1
  <2>1. /\ call' = [op |-> "free", i |-> Len(slots), arg |-> NULL] /\ call' # NoCall
        /\ call'.op = "free" /\ call'.i = Len(slots) /\ call'.arg = NULL
        /\ slots' = <<>> /\ niter' = 0
    BY <1>1, <1>2, <1>9 DEF DeinitState, Loop, NoCall, StateExact
  <2>2. CallExact' /\ NoHoles' /\ SweptExact' /\ InsideArray'
    BY <1>1, <1>2, <1>3, <1>8, <2>1
    DEF CallExact, NoHoles, SweptExact, InsideArray, Running, Idle, Ops
  <2>3. Lifetime' /\ StateExact'
    BY <1>1, <1>2, <1>4, <1>5, <2>1 DEF Lifetime, StateExact, Idle, Running
  <2> QED BY <1>3, <1>7, <2>2, <2>3, InvPartsNext
<1>10. CASE ~(freed /\ niter = 1) /\ niter = 1 /\ Len(slots) > length
  <2>1. /\ call' = [op |-> "trim", i |-> Len(slots), arg |-> NULL] /\ call' # NoCall
        /\ call'.op = "trim" /\ call'.i = Len(slots) /\ call'.arg = NULL
        /\ ~freed /\ niter' = 0
    BY <1>1, <1>2, <1>10 DEF DeinitState, Loop, NoCall
  <2>2. CallExact' /\ NoHoles' /\ SweptExact' /\ InsideArray'
    BY <1>1, <1>2, <1>3, <2>1
    DEF CallExact, NoHoles, SweptExact, InsideArray, Running, Idle, Ops
  <2>3. Lifetime' /\ StateExact'
    BY <1>1, <1>2, <1>4, <1>5, <2>1 DEF Lifetime, StateExact, Idle, Running
  <2> QED BY <1>3, <1>7, <2>2, <2>3, InvPartsNext
<1>11. CASE ~(freed /\ niter = 1) /\ ~(niter = 1 /\ Len(slots) > length)
  <2>1. call' = NoCall /\ call'.op = "none"
    BY <1>1, <1>11 DEF DeinitState
  <2>2. NoHoles'
    <3> SUFFICES ASSUME niter' = 0 PROVE Live = 1..Len(slots)
      BY <1>1, <1>3 DEF NoHoles
    <3>1. niter = 1 /\ ~(Len(slots) > length)
      BY <1>1, <1>5, <1>11
    <3>2. slots \in Slots /\ length = Cardinality(LiveIn(slots)) /\ length \in Nat
      BY <1>2 DEF Content
    <3> QED BY <1>2, <1>3, <3>1, <3>2, LiveFinite
  <2>3. CallExact' /\ SweptExact' /\ InsideArray'
    BY <1>1, <1>2, <1>3, <2>1
    DEF CallExact, SweptExact, InsideArray, Running, Idle, Ops, NoCall
  <2>4. Lifetime' /\ StateExact'
    BY <1>1, <1>2, <1>4, <1>5, <1>6, <1>11, <2>1 DEF Lifetime, StateExact, Idle, Running
  <2> QED BY <1>3, <1>7, <2>2, <2>3, <2>4, InvPartsNext
<1> QED BY <1>9, <1>10, <1>11

----------------------------------------------------------------------------
(* The compaction by the last iterator.                                     *)

\* Taking away a slot that is not live changes neither length nor map.
LEMMA DeadSlotGone ==
    ASSUME IInv, NEW n, n \notin Live, slots' \in Slots, Without(slots, n, slots'),
           UNCHANGED <<length, map>>
    PROVE  Content' /\ Contents' = Contents
<1>1. /\ slots \in Slots /\ length \in Nat /\ map \in [Ids -> Nat \cup {Absent}]
      /\ length = Cardinality(Live) /\ Live = LiveIn(slots) /\ IdsDiffer(slots)
      /\ {id \in Ids : map[id] # Absent} = IdsIn(slots)
  BY InvContent, MapExactIs DEF Content
<1>2. /\ IdsDiffer(slots') /\ Cardinality(LiveIn(slots')) = Cardinality(LiveIn(slots))
      /\ IdsIn(slots') = IdsIn(slots) /\ Held(slots') = Held(slots)
  BY <1>1, WithoutContent
<1>3. Live' = LiveIn(slots') /\ Contents' = Held(slots') /\ Contents = Held(slots)
  BY DEF Live, LiveIn, Contents, Held
<1>4. MapExact'
  BY <1>1, <1>2 DEF MapExact, IdsDiffer, IdsIn, Live, LiveIn
<1>5. Content'
  BY <1>1, <1>2, <1>3, <1>4 DEF Content
<1> QED BY <1>2, <1>3, <1>5

\* A step of the compaction that leaves the invariant's other parts to show.
LEMMA CompactionGoesOn ==
    ASSUME IInv, call.op \in {"trim", "fill"}, Content',
           NEW op \in {"trim", "fill"}, NEW i \in Nat,
           NEW arg \in Batches \cup Queries \cup {NULL},
           call' = [op |-> op, i |-> i, arg |-> arg],
           op = "fill" => i <= Len(slots'),
           Len(slots') \in Nat, Len(slots') <= Len(slots),
           UNCHANGED <<size, niter, freed, alive, iters>>,
           SweptExact',
           op = "fill" /\ i > 0 => slots'[i].live \/ i < Len(slots')
    PROVE  IInv'
<1>1. /\ call'.op = op /\ call'.i = i /\ call'.arg = arg /\ Open' = Open
      /\ call # NoCall /\ call' # NoCall
  BY DEF NoCall, iters, Open
<1>2. OtherTypes /\ CallExact /\ InsideArray /\ Lifetime /\ StateExact /\ Content
  BY InvParts
<1>3. OtherTypes' /\ CallExact' /\ NoHoles'
  BY <1>1, <1>2 DEF OtherTypes, CallExact, NoHoles, Running, Idle, Ops, iters
<1>4. InsideArray'
  <2>1. size \in Nat /\ Len(slots) \in Nat /\ Len(slots) <= size
    BY <1>2, SlotType DEF OtherTypes, Content, InsideArray
  <2>2. size' = size /\ Len(slots') <= size
    BY <2>1
  <2> QED BY <1>1, <2>2 DEF InsideArray, Running
<1>5. Lifetime' /\ StateExact'
  <2>1. ~freed /\ alive /\ niter = 0
    BY <1>1, <1>2 DEF StateExact, Idle
  <2> QED BY <2>1, <1>1, <1>2 DEF Lifetime, StateExact, Idle, Running, iters
<1> QED BY <1>3, <1>4, <1>5, InvPartsNext

LEMMA TrimStepInv ==
    ASSUME IInv, TrimStep PROVE IInv' /\ Contents' = Contents
<1>1. /\ call.op = "trim" /\ UNCHANGED <<length, map, size, niter, freed, alive, iters>>
      /\ call \in [op : Ops, i : Nat, arg : Batches \cup Queries \cup {NULL}]
      /\ slots \in Slots /\ Live = LiveIn(slots)
  BY InvContent DEF TrimStep, Running, IInv, CallExact, Content
<1>2. Len(slots) \in Nat
  BY <1>1, SlotType
<1>3. CASE Len(slots) > 0 /\ ~slots[Len(slots)].live
  <2>1. slots' = Cut(slots) /\ call' = call
    BY <1>3 DEF TrimStep, Cut
  <2>2. slots' \in Slots /\ Len(slots') = Len(slots) - 1 /\ Without(slots, Len(slots), slots')
    BY <1>1, <1>3, <2>1, AllButLast, CutWithout
  <2>3. Content' /\ Contents' = Contents
    BY <1>1, <1>3, <2>2, DeadSlotGone DEF Live
  <2>4. /\ call' = [op |-> "trim", i |-> call.i, arg |-> call.arg]
        /\ call.i \in Nat /\ call.arg \in Batches \cup Queries \cup {NULL}
    BY <1>1, <2>1
  <2>5. SweptExact'
    BY <1>1, <2>1 DEF SweptExact, Running
  <2>6. Len(slots') \in Nat /\ Len(slots') <= Len(slots)
    BY <1>2, <1>3, <2>2
  <2> QED BY <1>1, <2>3, <2>4, <2>5, <2>6, CompactionGoesOn
<1>4. CASE ~(Len(slots) > 0 /\ ~slots[Len(slots)].live)
  <2>1. slots' = slots /\ call' = [op |-> "fill", i |-> Len(slots), arg |-> NULL]
    BY <1>4 DEF TrimStep, Loop
  <2>2. UNCHANGED content
    BY <1>1, <2>1 DEF content
  <2>3. Content' /\ Contents' = Contents /\ Live' = Live
    BY <2>2, SameContent
  <2>4. Len(slots) > 0 => slots[Len(slots)].live /\ Len(slots) \in Live
    BY <1>2, <1>4 DEF Live
  <2>5. SweptExact'
    <3>1. Behind' = {} /\ call'.op = "fill"
      BY <1>2, <2>1 DEF Behind
    <3>2. slots # <<>> => Len(slots) > 0
      BY <1>1, <1>2, EmptySeq DEF Slots
    <3> QED BY <2>1, <2>3, <2>4, <3>1, <3>2 DEF SweptExact, Running
  <2> QED BY <1>1, <1>2, <2>1, <2>3, <2>4, <2>5, CompactionGoesOn
<1> QED BY <1>3, <1>4

LEMMA FillStepInv ==
    ASSUME IInv, FillStep PROVE IInv' /\ Contents' = Contents
<1> DEFINE i == call.i
<1>1. /\ call.op = "fill" /\ i > 0 /\ i \in Nat
      /\ UNCHANGED <<length, map, size, niter, freed, alive, iters>>
      /\ call' = [op |-> "fill", i |-> i - 1, arg |-> NULL]
      /\ slots' = IF slots[i].live THEN slots ELSE MoveLast(i)
      /\ slots \in Slots /\ Live = LiveIn(slots)
  BY InvContent DEF FillStep, Running, IInv, CallExact, Content, Loop
<1>2. /\ Behind \subseteq Live /\ i <= Len(slots)
      /\ slots # <<>> => Len(slots) \in Live
  BY <1>1 DEF IInv, SweptExact, CallExact, Running
<1>3. /\ Len(slots) \in Nat /\ i \in 1..Len(slots) /\ Len(slots) \in Live
      /\ i - 1 \in Nat
  <2>1. Len(slots) \in Nat
    BY <1>1, SlotType
  <2>2. slots # <<>>
    BY <1>1, <1>2, <2>1
  <2> QED BY <1>1, <1>2, <2>1, <2>2
<1>4. \A m \in 1..Len(slots) : m > i => slots[m].live
  BY <1>2 DEF Behind, Live
<1>5. CASE slots[i].live
  <2>1. slots' = slots /\ UNCHANGED content
    BY <1>1, <1>5 DEF content
  <2>2. Content' /\ Contents' = Contents /\ Live' = Live
    BY <2>1, SameContent
  <2>3. SweptExact'
    <3>1. \A m \in 1..Len(slots) : m > i - 1 => m \in Live
      BY <1>3, <1>4, <1>5 DEF Live
    <3>2. Behind' \subseteq Live'
      BY <1>1, <2>1, <2>2, <3>1 DEF Behind
    <3> QED BY <1>1, <1>3, <2>1, <2>2, <3>2 DEF SweptExact, Running
  <2>4. i - 1 > 0 => i - 1 < Len(slots')
    BY <1>3, <2>1
  <2>5. i - 1 <= Len(slots')
    BY <1>3, <2>1
  <2> QED BY <1>1, <1>3, <2>1, <2>2, <2>3, <2>4, <2>5, CompactionGoesOn
<1>6. CASE ~slots[i].live
  <2>1. slots' = Moved(slots, i) /\ i # Len(slots) /\ i \notin Live /\ slots[Len(slots)].live
    BY <1>1, <1>3, <1>6 DEF MoveLast, Moved, Live
  <2>2. /\ slots' \in Slots /\ Len(slots') = Len(slots) - 1
        /\ Without(slots, i, slots')
        /\ \A m \in 1..Len(slots') :
              slots'[m] = IF m = i THEN slots[Len(slots)] ELSE slots[m]
    <3>1. slots \in Slots /\ i \in 1..Len(slots) /\ slots[Len(slots)].live
      BY <1>1, <1>3, <2>1
    <3>2. Without(slots, i, Moved(slots, i))
      BY <3>1, MovedWithout
    <3> QED BY <2>1, <3>1, <3>2, MovedSlots
  <2>3. Content' /\ Contents' = Contents
    BY <1>1, <2>1, <2>2, DeadSlotGone
  <2>4. \A m \in 1..Len(slots') : m > i - 1 => slots'[m].live
    BY <1>3, <1>4, <2>1, <2>2
  <2>5. /\ Len(slots') \in Nat /\ i <= Len(slots') /\ Len(slots') \in 1..Len(slots')
        /\ Len(slots') <= Len(slots)
    BY <1>3, <2>1, <2>2
  <2>6. SweptExact'
    <3>1. Behind' \subseteq Live' /\ Len(slots') \in Live'
      BY <1>1, <1>3, <2>4, <2>5 DEF Behind, Live
    <3> QED BY <1>1, <3>1 DEF SweptExact, Running
  <2>7. i - 1 < Len(slots') /\ i - 1 <= Len(slots')
    BY <1>3, <2>5
  <2> QED BY <1>1, <1>3, <2>3, <2>5, <2>6, <2>7, CompactionGoesOn
<1> QED BY <1>5, <1>6

----------------------------------------------------------------------------
(* The theorems.                                                            *)

LEMMA ApiInv ==
    ASSUME IInv, Api PROVE IInv'
<1>1. CASE Create
  BY <1>1, CreateInv
<1>2. CASE \E b \in Batches : AddTriples(b)
  BY <1>2, AddTriplesInv
<1>3. CASE \E id \in Ids : RemoveById(id)
  BY <1>3, RemoveByIdInv
<1>4. CASE \E q \in Queries : Remove(q)
  BY <1>4, RemoveInv
<1>5. CASE Clear \/ Free
  BY <1>5, ClearFreeInv
<1>6. CASE \E i \in Iters, q \in Queries : InitState(i, q)
  BY <1>6, InitStateInv
<1>7. CASE \E i \in Iters : DeinitState(i) \/ ResetState(i) \/ Find(i) \/ Poll(i)
  BY <1>7, DeinitStateInv, ResetStateInv, FindInv, PollInv
<1> QED BY <1>1, <1>2, <1>3, <1>4, <1>5, <1>6, <1>7 DEF Api

LEMMA InternalInv ==
    ASSUME IInv, Internal PROVE IInv'
<1>1. CASE AddStep \/ AddReturns
  BY <1>1, AddStepInv, AddReturnsInv
<1>2. CASE RemoveStep \/ RemoveReturns
  BY <1>2, RemoveStepInv, RemoveReturnsInv
<1>3. CASE ClearStep \/ ClearReturns \/ FreeReturns
  BY <1>3, ClearStepInv, ClearReturnsInv, FreeReturnsInv
<1>4. CASE TrimStep \/ FillStep \/ FillReturns
  BY <1>4, TrimStepInv, FillStepInv, FillReturnsInv
<1> QED BY <1>1, <1>2, <1>3, <1>4 DEF Internal

\* A step that changes nothing.
LEMMA StutterInv ==
    ASSUME IInv, UNCHANGED vars PROVE IInv'
<1>1. /\ UNCHANGED <<content, size, niter, freed, alive, query, call>>
      /\ pos' = pos /\ cleared' = cleared /\ result' = result
  BY DEF vars, iters
<1>2. pos' \in [Iters -> Nat] /\ cleared' \subseteq cleared /\ result' \in Triples \cup {NULL}
  BY <1>1 DEF IInv, TypeOK
<1> QED BY <1>1, <1>2, IteratorMoves

\* Whatever calls are made, with whatever triples, batches and iterators, the
\* invariant holds after every step of every loop.
THEOREM Invariance == Spec => []IInv
<1>1. IInv /\ [Next]_vars => IInv'
  BY ApiInv, InternalInv, StutterInv DEF Next
<1> QED BY InitInv, <1>1, PTL DEF Spec

\* ts->length counts the live triples through removals under iterators and
\* their compaction, no slot is outside of the allocated array, and the last
\* triple is moved into a hole only from behind it.
THEOREM ArrayIsExact == Spec => []ArrayExact
<1>1. IInv => ArrayExact
  <2> SUFFICES ASSUME IInv PROVE LengthExact
    BY DEF ArrayExact, IInv
  <2>1. /\ slots \in Slots /\ Live = LiveIn(slots) /\ length = Cardinality(Live)
    BY InvContent DEF Content
  <2>2. Live = 1..Len(slots) => length = Len(slots)
    BY <2>1, LiveFinite
  <2>3. Running("fill") /\ call.i = 0 => Live = 1..Len(slots)
    BY <2>1, SlotType DEF IInv, SweptExact, Behind, Live
  <2>4. niter = 0 /\ call.op \notin {"trim", "fill"} => Live = 1..Len(slots)
    BY DEF IInv, NoHoles
  <2> QED BY <2>1, <2>2, <2>3, <2>4 DEF LengthExact
<1> QED BY <1>1, Invariance, PTL

\* The ids of the stored triples differ, and the map knows exactly these ids.
THEOREM MapIsExact == Spec => []MapExact
<1>1. IInv => MapExact
  BY DEF IInv
<1> QED BY <1>1, Invariance, PTL

\* triplestore_free() under iterators keeps the store until the last of them is
\* finished, and no longer.
THEOREM StoreOutlivesIterators == Spec => []Lifetime
<1>1. IInv => Lifetime
  BY DEF IInv
<1> QED BY <1>1, Invariance, PTL

\* triplestore_remove() returns only when no triple matches any more.
THEOREM RemovalIsComplete == Spec => RemoveComplete
<1>1. ASSUME IInv, [Next]_vars, Running("remove"), call' = NoCall
      PROVE  \A n \in Live : ~Matches(call.arg, slots[n].t)
  <2>1. call.i = 0
    <3>1. call.op = "remove" /\ call # NoCall
      BY <1>1 DEF Running, NoCall
    <3>2. RemoveStep \/ RemoveReturns
      BY <1>1, <3>1 DEF Next, Api, Internal, vars, Idle, Usable, Running,
         Create, AddTriples, RemoveById, Remove, Clear, Free, InitState,
         DeinitState, ResetState, Find, Poll, AddStep, AddReturns, ClearStep,
         ClearReturns, FreeReturns, TrimStep, FillStep, FillReturns, NoCall
    <3>3. ~RemoveStep
      BY <1>1 DEF RemoveStep, Loop, NoCall
    <3> QED BY <3>2, <3>3 DEF RemoveReturns
  <2>2. Live \subseteq Behind
    BY <2>1 DEF Live, Behind
  <2> QED BY <1>1, <2>2 DEF IInv, SweptExact
<1>2. IInv /\ [Next]_vars =>
        [Running("remove") /\ call' = NoCall =>
            \A n \in Live : ~Matches(call.arg, slots[n].t)]_vars
  BY <1>1
<1> QED BY <1>2, Invariance, PTL DEF Spec, RemoveComplete

----------------------------------------------------------------------------
(* The store implements a set with iterators (module TripleSet): every step *)
(* of a loop is a step on the set or changes nothing that its user sees.    *)

\* What is seen of the store does not change.
Unseen == UNCHANGED <<Contents, query, Todo, cleared, result>>

\* Different live slots hold different triples.
LEMMA SlotsDiffer ==
    ASSUME IInv, NEW m \in Live, NEW n \in Live, slots[m].t = slots[n].t PROVE m = n
BY DEF IInv, MapExact

\* What an iterator has still to return, slot by slot.
LEMMA TodoIs ==
    ASSUME IInv, NEW i \in Iters, query[i] # NULL
    PROVE  /\ Todo[i] = {slots[n].t : n \in Ahead(i)}
           /\ Ahead(i) \subseteq Live /\ Ahead(i) \subseteq 1..Len(slots)
BY DEF Todo, Ahead, Live

\* If the array and the iterators stay, the user sees no change.
LEMMA UnseenIfSame ==
    ASSUME UNCHANGED <<slots, iters>> PROVE Unseen
BY DEF Unseen, Contents, Live, Todo, Ahead, iters

\* If no iterator is open, only the contents are seen.
LEMMA UnseenIfClosed ==
    ASSUME Open = {}, UNCHANGED iters, Contents' = Contents PROVE Unseen
<1>1. \A i \in Iters : query[i] = NULL
  BY DEF Open
<1>2. query' = query /\ cleared' = cleared /\ result' = result
  BY DEF iters
<1>3. Todo = [i \in Iters |-> {}] /\ Todo' = [i \in Iters |-> {}]
  BY <1>1, <1>2 DEF Todo
<1> QED BY <1>2, <1>3 DEF Unseen

\* Removing a triple from the array removes it from the set.
LEMMA RemoveRefines ==
    ASSUME IInv, call.op \notin {"trim", "fill"}, NEW n \in Live, RemoveByIndex(n),
           UNCHANGED iters
    PROVE  Set!Delete(slots[n].t)
<1> DEFINE t == slots[n].t
<1>1. UNCHANGED <<query, pos, cleared, result>>
  BY DEF iters
<1>2. t \in Contents /\ Contents' = Contents \ {t}
  BY RemoveContent DEF Contents
<1>3. ASSUME NEW i \in Iters PROVE Todo'[i] = Todo[i] \ {t}
  <2>1. CASE query[i] = NULL
    BY <1>1, <2>1 DEF Todo
  <2>2. CASE query[i] # NULL
    <3>1. i \in Open /\ niter # 0
      BY <2>2, NoneOpen DEF Open
    <3>2. /\ Live' = Live \ {n} /\ Len(slots') = Len(slots)
          /\ \A m \in 1..Len(slots) : slots'[m].t = slots[m].t
      BY <3>1, RemoveContent
    <3>3. Ahead(i)' = Ahead(i) \ {n}
      BY <1>1, <3>2 DEF Ahead, Live
    <3>4. Todo'[i] = {slots'[m].t : m \in Ahead(i)'} /\ Todo[i] = {slots[m].t : m \in Ahead(i)}
      BY <1>1, <2>2 DEF Todo
    <3>5. \A m \in Ahead(i) : m \in 1..Len(slots) /\ (slots[m].t = t => m = n)
      BY <2>2, TodoIs, SlotsDiffer
    <3> QED BY <3>2, <3>3, <3>4, <3>5
  <2> QED BY <2>1, <2>2
<1>4. Todo' = [i \in Iters |-> Todo[i] \ {t}]
  BY <1>3 DEF Todo
<1> QED BY <1>1, <1>2, <1>4 DEF Set!Delete

\* Appending a triple inserts it into the set.  An iterator that was stepped
\* behind the end of the array before the store was cleared may miss it.
LEMMA AddRefines ==
    ASSUME IInv, Inside, call.op \notin {"trim", "fill"}, call.i \in Nat,
           NEW t \in Triples, map[IdOf[t]] = Absent, AddOne(t), UNCHANGED iters
    PROVE  Set!Insert(t)
<1> DEFINE k == Len(slots) + 1
           S == {i \in cleared : pos[i] >= k}
<1>1. UNCHANGED <<query, pos, cleared, result>>
  BY DEF iters
<1>2. /\ slots' = Added(slots, t) /\ Len(slots') = k /\ Live' = Live \cup {k}
      /\ Contents' = Contents \cup {t} /\ \A u \in Contents : IdOf[u] # IdOf[t]
  BY AddContent
<1>3. /\ slots \in Slots /\ Len(slots) \in Nat /\ k \in Nat /\ pos \in [Iters -> Nat]
      /\ cleared \subseteq Iters
  BY InvContent, SlotType DEF Content, IInv, TypeOK
<1>4. /\ slots'[k].t = t /\ slots'[k].live
      /\ \A m \in 1..Len(slots) : slots'[m] = slots[m]
  BY <1>2, <1>3, AddedSlots
<1>5. 1..k = 1..Len(slots) \cup {k} /\ k \notin 1..Len(slots)
  BY <1>3
<1> HIDE DEF k
<1>6. ASSUME NEW i \in Iters
      PROVE  Todo'[i] = IF i \in Set!Running \ S /\ FindMatches(query[i], t)
                        THEN Todo[i] \cup {t} ELSE Todo[i]
  <2>1. CASE query[i] = NULL
    BY <1>1, <2>1 DEF Todo, Set!Running
  <2>2. CASE query[i] # NULL
    <3>1. k > pos[i] <=> i \notin S
      <4>1. pos[i] \in Nat
        BY <1>3
      <4>2. pos[i] >= k => i \in cleared
        BY <4>1, <1>3 DEF Inside, k
      <4> QED BY <4>1, <4>2, <1>3
    <3>2. Ahead(i)' = IF i \notin S /\ FindMatches(query[i], t)
                      THEN Ahead(i) \cup {k} ELSE Ahead(i)
      BY <1>1, <1>2, <1>4, <1>5, <3>1 DEF Ahead
    <3>3. Todo'[i] = {slots'[m].t : m \in Ahead(i)'} /\ Todo[i] = {slots[m].t : m \in Ahead(i)}
      BY <1>1, <2>2 DEF Todo
    <3>4. \A m \in Ahead(i) : slots'[m].t = slots[m].t
      BY <1>4, <2>2, TodoIs
    <3>5. {slots'[m].t : m \in Ahead(i)} = Todo[i]
      BY <3>3, <3>4
    <3>6. CASE i \notin S /\ FindMatches(query[i], t)
      <4>1. Todo'[i] = Todo[i] \cup {t}
        BY <1>4, <3>2, <3>3, <3>5, <3>6
      <4> QED BY <2>2, <3>6, <4>1 DEF Set!Running
    <3>7. CASE ~(i \notin S /\ FindMatches(query[i], t))
      BY <3>2, <3>3, <3>5, <3>7
    <3> QED BY <3>6, <3>7
  <2> QED BY <2>1, <2>2
<1>7. Todo' = [i \in Iters |->
                  IF i \in Set!Running \ S /\ FindMatches(query[i], t)
                  THEN Todo[i] \cup {t} ELSE Todo[i]]
  BY <1>6 DEF Todo
<1>8. S \in SUBSET cleared
  OBVIOUS
<1> HIDE DEF S
<1> QED BY <1>1, <1>2, <1>7, <1>8 DEF Set!Insert

----------------------------------------------------------------------------
(* Iterators stay inside of the array.                                      *)

LEMMA InsideInit == Init => Inside
<1> SUFFICES ASSUME Init PROVE Inside
  OBVIOUS
<1>1. Len(slots) = 0 /\ pos = [i \in Iters |-> 0]
  BY DEF Init
<1> QED BY <1>1 DEF Inside

\* A step that moves no iterator, and shortens the array only when none is
\* open.
LEMMA InsideStays ==
    ASSUME IInv, Inside, UNCHANGED iters, slots' \in Slots,
           Open = {} \/ Len(slots') >= Len(slots)
    PROVE  Inside'
<1>1. /\ query' = query /\ pos' = pos /\ cleared' = cleared
      /\ pos \in [Iters -> Nat] /\ Len(slots) \in Nat /\ Len(slots') \in Nat
  BY InvContent, SlotType DEF iters, IInv, TypeOK, Content
<1>2. CASE Open = {}
  BY <1>1, <1>2 DEF Inside, Open
<1>3. CASE Len(slots') >= Len(slots)
  BY <1>1, <1>3 DEF Inside
<1> QED BY <1>2, <1>3

\* A step that moves the iterator i to p.
LEMMA InsideMoves ==
    ASSUME IInv, Inside, slots' = slots, NEW i \in Iters, NEW p \in Nat,
           pos' = [pos EXCEPT ![i] = p],
           i \notin cleared' => p <= Len(slots), query'[i] = NULL => p = 0,
           \A j \in Iters : j # i => /\ query'[j] = query[j]
                                     /\ j \in cleared => j \in cleared'
    PROVE  Inside'
<1>1. pos \in [Iters -> Nat]
  BY DEF IInv, TypeOK
<1> QED BY <1>1 DEF Inside

\* Removing a triple.
LEMMA InsideRemove ==
    ASSUME IInv, Inside, call.op \notin {"trim", "fill"}, NEW n \in Live,
           RemoveByIndex(n), UNCHANGED iters
    PROVE  Inside'
<1>1. /\ slots' \in Slots
      /\ niter # 0 => Len(slots') = Len(slots)
      /\ Len(slots) \in Nat
  BY RemoveContent, InvContent, SlotType DEF Content
<1>2. Open = {} \/ Len(slots') >= Len(slots)
  BY <1>1, NoneOpen
<1> QED BY <1>1, <1>2, InsideStays

----------------------------------------------------------------------------
(* Each step keeps iterators inside and is a step on the set, or unseen.    *)

Refines == Inside' /\ (Unseen \/ Set!Next)

\* Steps that change neither the array nor the iterators.
LEMMA SameRefines ==
    ASSUME IInv, Inside, UNCHANGED <<slots, iters>> PROVE Refines
<1>1. slots' \in Slots /\ Len(slots') >= Len(slots)
  BY InvContent, SlotType DEF Content
<1> QED BY <1>1, InsideStays, UnseenIfSame DEF Refines

LEMMA RemoveByIndexRefines ==
    ASSUME IInv, Inside, call.op \notin {"trim", "fill"}, NEW n \in Live,
           RemoveByIndex(n), UNCHANGED iters
    PROVE  Refines
<1>1. slots[n].t \in Triples
  BY InvContent, SlotType DEF Content, Live
<1>2. Set!Delete(slots[n].t)
  BY RemoveRefines
<1> QED BY <1>1, <1>2, InsideRemove DEF Refines, Set!Next

LEMMA AddStepRefines ==
    ASSUME IInv, Inside, AddStep PROVE Refines
<1> DEFINE t == call.arg[call.i + 1]
<1>1. /\ call.op = "add" /\ call.i < Len(call.arg) /\ UNCHANGED iters
  BY DEF AddStep, Running
<1>2. call.i \in Nat /\ call.arg \in Seq(Triples \cup {NULL})
  BY <1>1, ValueAssumption DEF IInv, CallExact, Running
<1>3. t \in Triples \cup {NULL}
  BY <1>1, <1>2
<1>4. CASE t = NULL \/ map[IdOf[t]] # Absent
  <2>1. UNCHANGED slots
    BY <1>4 DEF AddStep, AddOne, content
  <2> QED BY <1>1, <2>1, SameRefines
<1>5. CASE t # NULL /\ map[IdOf[t]] = Absent
  <2>1. AddOne(t)
    BY <1>5 DEF AddStep
  <2> HIDE DEF t
  <2>2. Set!Insert(t)
    BY <1>1, <1>2, <1>3, <1>5, <2>1, AddRefines
  <2>3. slots' \in Slots /\ Len(slots') >= Len(slots)
    <3>1. Content' /\ Len(slots') = Len(slots) + 1 /\ Len(slots) \in Nat
      BY <1>1, <1>2, <1>3, <1>5, <2>1, AddContent, InvContent, SlotType DEF Content
    <3> QED BY <3>1 DEF Content
  <2> QED BY <1>1, <1>3, <1>5, <2>2, <2>3, InsideStays DEF Refines, Set!Next
<1> QED BY <1>4, <1>5

LEMMA RemoveByIdRefines ==
    ASSUME IInv, Inside, NEW id \in Ids, RemoveById(id) PROVE Refines
<1> DEFINE n == map[id] + 1
<1>1. /\ call.op = "none" /\ n <= Len(slots) /\ slots[n].live
      /\ map[id] # Absent /\ RemoveByIndex(n) /\ UNCHANGED iters
  BY DEF RemoveById, Usable, Idle, NoCall
<1>2. n \in Live
  <2>1. map[id] \in Nat /\ Len(slots) \in Nat
    BY <1>1, InvContent, SlotType DEF Content, Absent
  <2> QED BY <1>1, <2>1 DEF Live
<1> HIDE DEF n
<1> QED BY <1>1, <1>2, RemoveByIndexRefines

\* The loops that remove.
LEMMA RemovalStepRefines ==
    ASSUME IInv, Inside, RemoveStep \/ ClearStep PROVE Refines
<1>1. /\ call.op \in {"remove", "clear", "free"} /\ call.i > 0 /\ UNCHANGED iters
      /\ (slots[call.i].live /\ RemoveByIndex(call.i)) \/ UNCHANGED content
  BY DEF RemoveStep, ClearStep, Running
<1>2. call.i \in 1..Len(slots)
  BY <1>1, InvContent, SlotType DEF IInv, CallExact, Content
<1>3. CASE slots[call.i].live /\ RemoveByIndex(call.i)
  <2>1. call.i \in Live
    BY <1>2, <1>3 DEF Live
  <2> QED BY <1>1, <1>3, <2>1, RemoveByIndexRefines
<1>4. CASE UNCHANGED content
  BY <1>1, <1>4, SameRefines DEF content
<1> QED BY <1>1, <1>3, <1>4

\* The end of triplestore_clear() and triplestore_free().
LEMMA ClearedRefines ==
    ASSUME IInv, Inside, ClearReturns \/ FreeReturns PROVE Refines
<1>1. /\ Running("clear") \/ Running("free")
      /\ call.i = 0 /\ slots' = <<>> /\ Len(slots') = 0
      /\ cleared' = Open /\ UNCHANGED <<query, pos, result>>
  BY DEF ClearReturns, FreeReturns, Cleared, Open
<1>2. Live = {} /\ Contents = {}
  BY <1>1, NothingLeft
<1>3. Live' = {} /\ Contents' = {}
  BY <1>1 DEF Live, Contents
<1>4. \A i \in Iters : Ahead(i) = {} /\ Ahead(i)' = {}
  BY <1>2, <1>3 DEF Ahead, Live
<1>5. Todo = [i \in Iters |-> {}] /\ Todo' = [i \in Iters |-> {}]
  BY <1>1, <1>4 DEF Todo
<1>6. Set!Clear
  BY <1>1, <1>2, <1>3, <1>5 DEF Set!Clear, Set!Running, Open
<1>7. Inside'
  BY <1>1 DEF Inside, Open
<1> QED BY <1>6, <1>7 DEF Refines, Set!Next

LEMMA InitStateRefines ==
    ASSUME IInv, Inside, NEW i \in Iters, NEW q \in Queries, InitState(i, q)
    PROVE  Refines
<1>1. /\ slots' = slots /\ cleared' = cleared /\ result' = result
      /\ query[i] = NULL /\ query' = [query EXCEPT ![i] = q]
      /\ pos' = [pos EXCEPT ![i] = 0]
  BY DEF InitState, content
<1>2. /\ query \in [Iters -> Queries \cup {NULL}] /\ pos \in [Iters -> Nat] /\ q # NULL
      /\ Len(slots) \in Nat
  BY InvContent, SlotType, ValueAssumption DEF IInv, TypeOK, Content
<1>3. Contents' = Contents
  BY <1>1 DEF Contents, Live
<1>4. Todo'[i] = {t \in Contents : FindMatches(q, t)}
  <2>1. query'[i] = q /\ pos'[i] = 0
    BY <1>1, <1>2
  <2>2. Ahead(i)' = {n \in Live : FindMatches(q, slots[n].t)}
    BY <1>1, <1>2, <2>1 DEF Ahead, Live
  <2>3. Todo'[i] = {slots[n].t : n \in Ahead(i)'}
    BY <1>1, <1>2, <2>1 DEF Todo
  <2> QED BY <2>2, <2>3 DEF Contents
<1>5. ASSUME NEW j \in Iters, j # i PROVE Todo'[j] = Todo[j]
  BY <1>1, <1>2, <1>5 DEF Todo, Ahead
<1>6. Todo' = [Todo EXCEPT ![i] = {t \in Contents : FindMatches(q, t)}]
  BY <1>4, <1>5 DEF Todo
<1>7. Set!Start(i, q)
  BY <1>1, <1>3, <1>6 DEF Set!Start
<1>8. Inside'
  <2>1. 0 \in Nat /\ 0 <= Len(slots)
    BY <1>2
  <2>2. \A j \in Iters : j # i => /\ query'[j] = query[j]
                                  /\ j \in cleared => j \in cleared'
    BY <1>1, <1>2
  <2> QED BY <1>1, <2>1, <2>2, InsideMoves
<1> QED BY <1>7, <1>8 DEF Refines, Set!Next

LEMMA DeinitStateRefines ==
    ASSUME IInv, Inside, NEW i \in Iters, DeinitState(i) PROVE Refines
<1>1. /\ slots' = slots /\ cleared' = cleared \ {i} /\ result' = result
      /\ query[i] # NULL /\ query' = [query EXCEPT ![i] = NULL]
      /\ pos' = [pos EXCEPT ![i] = 0]
  BY DEF DeinitState, Stopped, content
<1>2. /\ query \in [Iters -> Queries \cup {NULL}] /\ pos \in [Iters -> Nat]
      /\ Len(slots) \in Nat
  BY InvContent, SlotType DEF IInv, TypeOK, Content
<1>3. Contents' = Contents
  BY <1>1 DEF Contents, Live
<1>4. Todo'[i] = {}
  BY <1>1, <1>2 DEF Todo
<1>5. ASSUME NEW j \in Iters, j # i PROVE Todo'[j] = Todo[j]
  BY <1>1, <1>2, <1>5 DEF Todo, Ahead
<1>6. Todo' = [Todo EXCEPT ![i] = {}]
  BY <1>4, <1>5 DEF Todo
<1>7. Set!Stop(i)
  BY <1>1, <1>3, <1>6 DEF Set!Stop, Set!Running
<1>8. Inside'
  <2>1. 0 \in Nat /\ 0 <= Len(slots)
    BY <1>2
  <2>2. \A j \in Iters : j # i => /\ query'[j] = query[j]
                                  /\ j \in cleared => j \in cleared'
    BY <1>1, <1>2
  <2> QED BY <1>1, <2>1, <2>2, InsideMoves
<1> QED BY <1>7, <1>8 DEF Refines, Set!Next

LEMMA ResetStateRefines ==
    ASSUME IInv, Inside, NEW i \in Iters, ResetState(i) PROVE Refines
<1>1. /\ slots' = slots /\ cleared' = cleared \ {i} /\ result' = result
      /\ query[i] # NULL /\ query' = query
      /\ pos' = [pos EXCEPT ![i] = 0]
  BY DEF ResetState, content
<1>2. pos \in [Iters -> Nat] /\ Len(slots) \in Nat
  BY InvContent, SlotType DEF IInv, TypeOK, Content
<1>3. Contents' = Contents
  BY <1>1 DEF Contents, Live
<1>4. Todo'[i] = Set!Asked(i)
  <2>1. Ahead(i)' = {n \in Live : FindMatches(query[i], slots[n].t)}
    BY <1>1, <1>2 DEF Ahead, Live
  <2>2. Todo'[i] = {slots[n].t : n \in Ahead(i)'}
    BY <1>1, <1>2 DEF Todo
  <2> QED BY <2>1, <2>2 DEF Contents, Set!Asked
<1>5. ASSUME NEW j \in Iters, j # i PROVE Todo'[j] = Todo[j]
  BY <1>1, <1>2, <1>5 DEF Todo, Ahead
<1>6. Todo' = [Todo EXCEPT ![i] = Set!Asked(i)]
  BY <1>4, <1>5 DEF Todo
<1>7. Set!Reset(i)
  BY <1>1, <1>3, <1>6 DEF Set!Reset, Set!Running
<1>8. Inside'
  <2>1. 0 \in Nat /\ 0 <= Len(slots)
    BY <1>2
  <2>2. \A j \in Iters : j # i => /\ query'[j] = query[j]
                                  /\ j \in cleared => j \in cleared'
    BY <1>1, <1>2
  <2> QED BY <1>1, <2>1, <2>2, InsideMoves
<1> QED BY <1>7, <1>8 DEF Refines, Set!Next

\* Moving only iterator i over slots that it does not ask for.
LEMMA MoveUnseen ==
    ASSUME IInv, NEW i \in Iters, query[i] # NULL,
           UNCHANGED <<slots, query, cleared>>,
           NEW p \in Nat, pos' = [pos EXCEPT ![i] = p],
           p >= pos[i], \A n \in Ahead(i) : n > p
    PROVE  Contents' = Contents /\ Todo' = Todo
<1>1. pos \in [Iters -> Nat]
  BY DEF IInv, TypeOK
<1>2. Contents' = Contents
  BY DEF Contents, Live
<1>3. Ahead(i)' = Ahead(i)
  BY <1>1 DEF Ahead
<1>4. \A j \in Iters : Todo'[j] = Todo[j]
  BY <1>1, <1>3 DEF Todo, Ahead
<1> QED BY <1>2, <1>4 DEF Todo

LEMMA FindRefines ==
    ASSUME IInv, Inside, NEW i \in Iters, Find(i) PROVE Refines
<1>1. /\ slots' = slots /\ query' = query /\ cleared' = cleared /\ query[i] # NULL
      /\ UNCHANGED <<slots, query, cleared>>
  BY DEF Find, content
<1>2. pos \in [Iters -> Nat] /\ Len(slots) \in Nat
  BY InvContent, SlotType DEF IInv, TypeOK, Content
<1>3. CASE Ahead(i) = {}
  <2>1. pos' = [pos EXCEPT ![i] = PosAtEnd(i)] /\ result' = NULL
    BY <1>3 DEF Find
  <2>2. PosAtEnd(i) \in Nat /\ PosAtEnd(i) >= pos[i]
    BY AheadIndices
  <2>3. Contents' = Contents /\ Todo' = Todo
    BY <1>1, <1>3, <2>1, <2>2, MoveUnseen
  <2>4. Todo[i] = {}
    BY <1>1, <1>3, TodoIs
  <2>5. Set!End(i)
    BY <1>1, <2>1, <2>3, <2>4 DEF Set!End, Set!Running
  <2>6. i \notin cleared' => PosAtEnd(i) <= Len(slots)
    BY <1>1, <1>2 DEF Inside, PosAtEnd
  <2>7. Inside'
    BY <1>1, <2>1, <2>2, <2>6, InsideMoves
  <2> QED BY <2>5, <2>7 DEF Refines, Set!Next
<1>4. CASE Ahead(i) # {}
  <2> DEFINE n == First(Ahead(i))
             t == slots[n].t
  <2>1. pos' = [pos EXCEPT ![i] = n] /\ result' = t
    BY <1>4 DEF Find
  <2>2. /\ n \in Ahead(i) /\ n \in Nat /\ n \in Live /\ t \in Triples
        /\ \A m \in Ahead(i) : n <= m
    BY <1>4, FirstAhead
  <2> HIDE DEF n
  <2>3. n > pos[i] /\ n <= Len(slots) /\ \A m \in Ahead(i) : m \in Nat
    BY <1>2, <2>2, AheadIndices DEF Ahead
  <2>4. Ahead(i)' = Ahead(i) \ {n}
    BY <1>1, <1>2, <2>1, <2>2, <2>3 DEF Ahead
  <2>5. /\ Todo'[i] = {slots[m].t : m \in Ahead(i)'}
        /\ Todo[i] = {slots[m].t : m \in Ahead(i)}
        /\ Ahead(i) \subseteq Live
    BY <1>1, TodoIs DEF Todo
  <2>6. t \in Todo[i] /\ Todo'[i] = Todo[i] \ {t}
    <3>1. \A m \in Ahead(i) : slots[m].t = t => m = n
      BY <2>2, <2>5, SlotsDiffer
    <3> QED BY <2>2, <2>4, <2>5, <3>1
  <2>7. ASSUME NEW j \in Iters, j # i PROVE Todo'[j] = Todo[j]
    BY <1>1, <1>2, <2>1, <2>7 DEF Todo, Ahead
  <2>8. Todo' = [Todo EXCEPT ![i] = @ \ {t}]
    BY <2>6, <2>7 DEF Todo
  <2>9. Contents' = Contents
    BY <1>1 DEF Contents, Live
  <2>10. Set!Yield(i, t)
    BY <1>1, <2>1, <2>6, <2>8, <2>9 DEF Set!Yield
  <2>11. Inside'
    BY <1>1, <2>1, <2>2, <2>3, InsideMoves
  <2> QED BY <2>2, <2>10, <2>11 DEF Refines, Set!Next
<1> QED BY <1>3, <1>4

LEMMA PollRefines ==
    ASSUME IInv, Inside, NEW i \in Iters, Poll(i) PROVE Refines
<1> DEFINE L == {n \in 1..Len(slots) : n > pos[i] /\ slots[n].live}
           to == IF L = {} THEN PosAtEnd(i) ELSE First(L) - 1
<1>1. /\ slots' = slots /\ query' = query /\ cleared' = cleared /\ query[i] # NULL
      /\ UNCHANGED <<slots, query, cleared>> /\ result' = result
      /\ pos' = [pos EXCEPT ![i] = to]
  BY DEF Poll, content
<1>2. pos[i] \in Nat /\ Len(slots) \in Nat
  BY InvContent, SlotType DEF IInv, TypeOK, Content
<1>3. Ahead(i) \subseteq L
  BY DEF Ahead
<1>4. CASE L = {}
  <2>1. to = PosAtEnd(i)
    BY <1>4
  <2> HIDE DEF L, to
  <2>2. to \in Nat /\ to >= pos[i] /\ Ahead(i) = {}
    BY <1>3, <1>4, <2>1, AheadIndices
  <2>3. i \notin cleared => to <= Len(slots)
    BY <1>2, <2>1 DEF Inside, PosAtEnd
  <2>4. Contents' = Contents /\ Todo' = Todo
    BY <1>1, <2>2, MoveUnseen
  <2>5. Inside'
    BY <1>1, <2>2, <2>3, InsideMoves
  <2> QED BY <1>1, <2>4, <2>5 DEF Refines, Unseen
<1>5. CASE L # {}
  <2>1. L \in SUBSET Nat /\ \A n \in L : n <= Len(slots) /\ n > pos[i]
    OBVIOUS
  <2>2. to = First(L) - 1
    BY <1>5
  <2> HIDE DEF L, to
  <2>3. First(L) \in L /\ \A m \in L : First(L) <= m
    BY <1>5, <2>1, FirstExists
  <2>4. First(L) \in Nat /\ First(L) > pos[i] /\ First(L) <= Len(slots)
    BY <2>1, <2>3
  <2>5. to \in Nat /\ to >= pos[i] /\ to <= Len(slots)
    BY <1>2, <2>2, <2>4
  <2>6. \A n \in Ahead(i) : n > to
    <3> SUFFICES ASSUME NEW n \in Ahead(i) PROVE n > to
      OBVIOUS
    <3>1. n \in Nat /\ First(L) <= n
      BY <1>3, <2>1, <2>3
    <3> QED BY <2>2, <2>4, <3>1
  <2>7. Contents' = Contents /\ Todo' = Todo
    BY <1>1, <2>5, <2>6, MoveUnseen
  <2>8. Inside'
    BY <1>1, <2>5, InsideMoves
  <2> QED BY <1>1, <2>7, <2>8 DEF Refines, Unseen
<1> QED BY <1>4, <1>5

\* The compaction: no iterator is open.
LEMMA CompactionRefines ==
    ASSUME IInv, Inside, TrimStep \/ FillStep PROVE Refines
<1>1. Open = {}
  <2>1. niter = 0
    BY DEF TrimStep, FillStep, Running, IInv, StateExact
  <2> QED BY <2>1, NoneOpen
<1>2. UNCHANGED iters
  BY DEF TrimStep, FillStep
<1>3. IInv' /\ Contents' = Contents
  BY TrimStepInv, FillStepInv
<1>4. slots' \in Slots
  BY <1>3 DEF IInv, TypeOK, Slots, Slot
<1> QED BY <1>1, <1>2, <1>3, <1>4, InsideStays, UnseenIfClosed DEF Refines

\* The other steps.
LEMMA OthersRefine ==
    ASSUME IInv, Inside,
           \/ Create
           \/ \E b \in Batches : AddTriples(b)
           \/ \E q \in Queries : Remove(q)
           \/ Clear \/ Free \/ AddReturns \/ RemoveReturns \/ FillReturns
           \/ UNCHANGED vars
    PROVE  Refines
<1>1. UNCHANGED iters
  BY DEF Create, AddTriples, Remove, Clear, Free, AddReturns, RemoveReturns,
         FillReturns, vars
<1>2. slots' = slots
  <2>1. CASE Create
    BY <2>1 DEF Create, IInv, StateExact
  <2>2. CASE ~Create
    BY <2>2 DEF AddTriples, Remove, Clear, Free, AddReturns, RemoveReturns,
                FillReturns, vars, content
  <2> QED BY <2>1, <2>2
<1> QED BY <1>1, <1>2, SameRefines

LEMMA StepRefines ==
    ASSUME IInv, Inside, [Next]_vars PROVE Refines
<1>1. CASE AddStep
  BY <1>1, AddStepRefines
<1>2. CASE \E id \in Ids : RemoveById(id)
  BY <1>2, RemoveByIdRefines
<1>3. CASE RemoveStep \/ ClearStep
  BY <1>3, RemovalStepRefines
<1>4. CASE ClearReturns \/ FreeReturns
  BY <1>4, ClearedRefines
<1>5. CASE \E i \in Iters, q \in Queries : InitState(i, q)
  BY <1>5, InitStateRefines
<1>6. CASE \E i \in Iters : DeinitState(i) \/ ResetState(i) \/ Find(i) \/ Poll(i)
  BY <1>6, DeinitStateRefines, ResetStateRefines, FindRefines, PollRefines
<1>7. CASE TrimStep \/ FillStep
  BY <1>7, CompactionRefines
<1>8. CASE \/ Create
           \/ \E b \in Batches : AddTriples(b)
           \/ \E q \in Queries : Remove(q)
           \/ Clear \/ Free \/ AddReturns \/ RemoveReturns \/ FillReturns
           \/ UNCHANGED vars
  BY <1>8, OthersRefine
<1> QED BY <1>1, <1>2, <1>3, <1>4, <1>5, <1>6, <1>7, <1>8 DEF Next, Api, Internal

LEMMA InitRefines == Init => Set!Init
<1> SUFFICES ASSUME Init PROVE Set!Init
  OBVIOUS
<1>1. Live = {} /\ query = [i \in Iters |-> NULL] /\ cleared = {} /\ result = NULL
  BY DEF Init, Live
<1>2. Contents = {}
  BY <1>1 DEF Contents
<1>3. Todo = [i \in Iters |-> {}]
  BY <1>1 DEF Todo
<1> QED BY <1>1, <1>2, <1>3 DEF Set!Init

\* An iterator that was not running when the store was cleared never stands
\* outside of the array, whatever removals and compactions shortened it.
THEOREM IteratorsInside == Spec => []Inside
<1>1. IInv /\ Inside /\ [Next]_vars => Inside'
  BY StepRefines DEF Refines
<1> QED BY <1>1, InsideInit, Invariance, PTL DEF Spec

\* triplestore_add_triples(), triplestore_remove(), triplestore_clear(),
\* triplestore_free() and the iterators, run step by step on the array with its
\* holes and its compaction, implement a set of triples with iterators: what an
\* iterator returns is what one over the set would return.
THEOREM StoreImplementsSet == Spec => IteratesSet
<1>1. IInv /\ Inside /\ [Next]_vars => [Set!Next]_(Set!vars)
  BY StepRefines DEF Refines, Unseen, Set!vars
<1> QED BY <1>1, InitRefines, Invariance, IteratorsInside, PTL
        DEF Spec, IteratesSet, Set!Spec
=============================================================================
