---------------------------- MODULE StorageProofs ----------------------------
(* Machine-checked proofs about Storage: storages stay open exactly as long   *)
(* as they are used, the hot list is exact and inside of its memory, data     *)
(* that were saved are written and searches return live instances, for any    *)
(* storages, files, instances, search path and depth of nested searches.      *)
EXTENDS Storage, FiniteSetTheorems, SequenceTheorems, TLAPS

USE IdAssumption, LocAssumption, BoundAssumption, NullAssumption

----------------------------------------------------------------------------
(* Stacks of frames.                                                        *)

\* All of the frames wait.
Waiting(frames, open) == StackOf(frames, TRUE, open)

\* A frame on top of a stack of frames that wait.
LEMMA ConsStack ==
    ASSUME NEW R \in Seq(Frames), NEW open, Waiting(R, open),
           NEW f \in Frames, NEW w \in BOOLEAN, FrameExact(f, w),
           f.src \in open \cup {NULL},
           Opener(f) => \A k \in 1..Len(R) : R[k].src # f.src
    PROVE  /\ <<f>> \o R \in Seq(Frames) /\ <<f>> \o R # <<>>
           /\ StackOf(<<f>> \o R, w, open)
           /\ Head(<<f>> \o R) = f /\ Tail(<<f>> \o R) = R
           /\ \A s : SearchedIn(<<f>> \o R, s) <=>
                        (Opener(f) /\ f.src = s) \/ SearchedIn(R, s)
<1> DEFINE U == <<f>> \o R
<1>1. /\ U \in Seq(Frames) /\ Len(U) = Len(R) + 1 /\ Len(R) \in Nat
      /\ U[1] = f /\ \A k \in 1..Len(R) : U[k + 1] = R[k]
  OBVIOUS
<1>2. \A k \in 1..Len(U) : k # 1 =>
         k - 1 \in 1..Len(R) /\ U[k] = R[k - 1] /\ k > 1
  <2> SUFFICES ASSUME NEW k \in 1..Len(U), k # 1
               PROVE  k - 1 \in 1..Len(R) /\ U[k] = R[k - 1] /\ k > 1
    OBVIOUS
  <2>1. k - 1 \in 1..Len(R) /\ (k - 1) + 1 = k /\ k > 1
    BY <1>1
  <2> QED BY <1>1, <2>1
<1>3. U # <<>> /\ Head(U) = f /\ Tail(U) = R
  OBVIOUS
<1> HIDE DEF U
<1>4. ASSUME NEW k \in 1..Len(U)
      PROVE  FrameExact(U[k], k > 1 \/ w) /\ U[k].src \in open \cup {NULL}
  <2>1. CASE k = 1
    BY <1>1, <2>1 DEF FrameExact
  <2>2. CASE k # 1
    BY <1>2, <2>2 DEF Waiting, StackOf, FrameExact
  <2> QED BY <2>1, <2>2
<1>5. ASSUME NEW j \in 1..Len(U), NEW k \in 1..Len(U), j < k, Opener(U[j])
      PROVE  U[k].src # U[j].src
  <2>1. k # 1 /\ k - 1 \in 1..Len(R) /\ U[k] = R[k - 1]
    BY <1>2, <1>5
  <2>2. CASE j = 1
    BY <1>1, <1>5, <2>1, <2>2
  <2>3. CASE j # 1
    <3>1. j - 1 \in 1..Len(R) /\ U[j] = R[j - 1] /\ j - 1 < k - 1
      BY <1>1, <1>2, <1>5, <2>3
    <3> QED BY <1>5, <2>1, <3>1 DEF Waiting, StackOf
  <2> QED BY <2>2, <2>3
<1>6. ASSUME NEW s
      PROVE  SearchedIn(U, s) <=> (Opener(f) /\ f.src = s) \/ SearchedIn(R, s)
  <2>1. ASSUME SearchedIn(R, s) PROVE SearchedIn(U, s)
    <3>1. PICK k \in 1..Len(R) : Opener(R[k]) /\ R[k].src = s
      BY <2>1 DEF SearchedIn
    <3>2. k + 1 \in 1..Len(U) /\ U[k + 1] = R[k]
      BY <1>1
    <3> QED BY <3>1, <3>2 DEF SearchedIn
  <2>2. ASSUME Opener(f), f.src = s PROVE SearchedIn(U, s)
    <3>1. 1 \in 1..Len(U)
      BY <1>1
    <3> QED BY <1>1, <2>2, <3>1 DEF SearchedIn
  <2>3. ASSUME SearchedIn(U, s)
        PROVE  (Opener(f) /\ f.src = s) \/ SearchedIn(R, s)
    <3>1. PICK k \in 1..Len(U) : Opener(U[k]) /\ U[k].src = s
      BY <2>3 DEF SearchedIn
    <3>2. CASE k = 1
      BY <1>1, <3>1, <3>2
    <3>3. CASE k # 1
      BY <1>2, <3>1, <3>3 DEF SearchedIn
    <3> QED BY <3>2, <3>3
  <2> QED BY <2>1, <2>2, <2>3
<1>7. StackOf(U, w, open)
  BY <1>4, <1>5 DEF StackOf
<1> QED BY <1>1, <1>3, <1>6, <1>7 DEF U

\* A stack of frames without the innermost one.
LEMMA TailStack ==
    ASSUME NEW S \in Seq(Frames), S # <<>>, NEW open, NEW w \in BOOLEAN,
           StackOf(S, w, open)
    PROVE  /\ Head(S) \in Frames /\ Tail(S) \in Seq(Frames)
           /\ Waiting(Tail(S), open)
           /\ FrameExact(Head(S), w) /\ Head(S).src \in open \cup {NULL}
           /\ Opener(Head(S)) =>
                \A k \in 1..Len(Tail(S)) : Tail(S)[k].src # Head(S).src
           /\ \A s : SearchedIn(S, s) <=>
                 \/ Opener(Head(S)) /\ Head(S).src = s
                 \/ SearchedIn(Tail(S), s)
<1> DEFINE R == Tail(S)
           f == Head(S)
<1>1. /\ R \in Seq(Frames) /\ Len(S) = Len(R) + 1 /\ Len(R) \in Nat
      /\ f \in Frames /\ S[1] = f /\ \A k \in 1..Len(R) : S[k + 1] = R[k]
  OBVIOUS
<1>2. \A k \in 1..Len(S) : k # 1 =>
         k - 1 \in 1..Len(R) /\ S[k] = R[k - 1] /\ k > 1
  <2> SUFFICES ASSUME NEW k \in 1..Len(S), k # 1
               PROVE  k - 1 \in 1..Len(R) /\ S[k] = R[k - 1] /\ k > 1
    OBVIOUS
  <2>1. k - 1 \in 1..Len(R) /\ (k - 1) + 1 = k /\ k > 1
    BY <1>1
  <2> QED BY <1>1, <2>1
<1> HIDE DEF R, f
<1>3. \A k \in 1..Len(R) : k + 1 \in 1..Len(S) /\ k + 1 > 1 /\ 1 < k + 1
  BY <1>1
<1>4. 1 \in 1..Len(S) /\ ~(1 > 1)
  BY <1>1
<1>5. FrameExact(f, w) /\ f.src \in open \cup {NULL}
  BY <1>1, <1>4 DEF StackOf, FrameExact
<1>6. \A k \in 1..Len(R) : FrameExact(R[k], TRUE) /\ R[k].src \in open \cup {NULL}
  <2> SUFFICES ASSUME NEW k \in 1..Len(R)
               PROVE  FrameExact(R[k], TRUE) /\ R[k].src \in open \cup {NULL}
    OBVIOUS
  <2>1. FrameExact(S[k + 1], k + 1 > 1 \/ w) /\ S[k + 1].src \in open \cup {NULL}
    BY <1>3 DEF StackOf
  <2> QED BY <1>1, <1>3, <2>1 DEF FrameExact
<1>7. ASSUME NEW j \in 1..Len(R), NEW k \in 1..Len(R), j < k, Opener(R[j])
      PROVE  R[k].src # R[j].src
  <2>1. j + 1 < k + 1 /\ j + 1 \in 1..Len(S) /\ k + 1 \in 1..Len(S)
    BY <1>1, <1>3, <1>7
  <2>2. Opener(S[j + 1]) => S[k + 1].src # S[j + 1].src
    BY <2>1 DEF StackOf
  <2> QED BY <1>1, <1>7, <2>2
<1>8. Opener(f) => \A k \in 1..Len(R) : R[k].src # f.src
  BY <1>1, <1>3, <1>4 DEF StackOf
<1>9. ASSUME NEW s
      PROVE  SearchedIn(S, s) <=> (Opener(f) /\ f.src = s) \/ SearchedIn(R, s)
  <2>1. ASSUME SearchedIn(R, s) PROVE SearchedIn(S, s)
    BY <1>1, <1>3, <2>1 DEF SearchedIn
  <2>2. ASSUME Opener(f), f.src = s PROVE SearchedIn(S, s)
    BY <1>1, <1>4, <2>2 DEF SearchedIn
  <2>3. ASSUME SearchedIn(S, s)
        PROVE  (Opener(f) /\ f.src = s) \/ SearchedIn(R, s)
    <3>1. PICK k \in 1..Len(S) : Opener(S[k]) /\ S[k].src = s
      BY <2>3 DEF SearchedIn
    <3>2. CASE k = 1
      BY <1>1, <3>1, <3>2
    <3>3. CASE k # 1
      BY <1>2, <3>1, <3>3 DEF SearchedIn
    <3> QED BY <3>2, <3>3
  <2> QED BY <2>1, <2>2, <2>3
<1>10. Waiting(R, open)
  BY <1>6, <1>7 DEF Waiting, StackOf, FrameExact
<1> QED BY <1>1, <1>5, <1>8, <1>9, <1>10 DEF R, f

\* A stack is the same when its storages stay open.
LEMMA OpenStack ==
    ASSUME NEW S \in Seq(Frames), NEW open, NEW open2, Waiting(S, open),
           \A k \in 1..Len(S) : S[k].src \in open => S[k].src \in open2
    PROVE  Waiting(S, open2)
  BY DEF Waiting, StackOf

\* There is no frame in the empty stack.
LEMMA EmptyStack ==
    /\ <<>> \in Seq(Frames)
    /\ \A open, w : StackOf(<<>>, w, open)
    /\ \A open : Waiting(<<>>, open)
    /\ \A s : ~SearchedIn(<<>>, s)
  BY DEF Waiting, StackOf, SearchedIn

----------------------------------------------------------------------------
(* The hot list.                                                            *)

Elems(q) == {q[i] : i \in 1..Len(q)}
Distinct(q) == \A i, j \in 1..Len(q) : q[i] = q[j] => i = j

\* An element more, at the end
LEMMA AppendElems ==
    ASSUME NEW S, NEW q \in Seq(S), Distinct(q), NEW e \in S, e \notin Elems(q)
    PROVE  /\ Append(q, e) \in Seq(S) /\ Len(Append(q, e)) = Len(q) + 1
           /\ Distinct(Append(q, e)) /\ Elems(Append(q, e)) = Elems(q) \cup {e}
<1> DEFINE u == Append(q, e)
<1>1. /\ u \in Seq(S) /\ Len(q) \in Nat /\ Len(u) = Len(q) + 1
      /\ u[Len(q) + 1] = e /\ \A i \in 1..Len(q) : u[i] = q[i]
  OBVIOUS
<1> HIDE DEF u
<1>2. \A i \in 1..Len(u) : i = Len(q) + 1 \/ i \in 1..Len(q)
  BY <1>1
<1>3. \A i \in 1..Len(q) : i \in 1..Len(u) /\ i # Len(q) + 1
  BY <1>1
<1>4. Len(q) + 1 \in 1..Len(u)
  BY <1>1
<1>5. \A i \in 1..Len(q) : q[i] # e
  BY DEF Elems
<1>6. Distinct(u)
  <2> SUFFICES ASSUME NEW i \in 1..Len(u), NEW j \in 1..Len(u), u[i] = u[j]
               PROVE  i = j
    BY DEF Distinct
  <2> QED BY <1>1, <1>2, <1>5 DEF Distinct
<1>7. Elems(u) = Elems(q) \cup {e}
  <2>1. Elems(u) \subseteq Elems(q) \cup {e}
    BY <1>1, <1>2 DEF Elems
  <2>2. Elems(q) \subseteq Elems(u)
    BY <1>1, <1>3 DEF Elems
  <2>3. e \in Elems(u)
    BY <1>1, <1>4 DEF Elems
  <2> QED BY <2>1, <2>2, <2>3
<1> QED BY <1>1, <1>6, <1>7 DEF u

\* An element less: the last one takes its place.
LEMMA RemoveElems ==
    ASSUME NEW S, NEW q \in Seq(S), Distinct(q), NEW i \in 1..Len(q)
    PROVE  LET u == SubSeq([q EXCEPT ![i] = q[Len(q)]], 1, Len(q) - 1)
           IN  /\ u \in Seq(S) /\ Len(u) = Len(q) - 1
               /\ Distinct(u) /\ Elems(u) = Elems(q) \ {q[i]}
<1> DEFINE n == Len(q)
           e == [q EXCEPT ![i] = q[n]]
           u == SubSeq(e, 1, n - 1)
<1>1. n \in Nat /\ n >= 1 /\ n \in 1..n /\ n - 1 \in Nat
  OBVIOUS
<1>2. e \in Seq(S) /\ Len(e) = n
      /\ \A k \in 1..n : e[k] = IF k = i THEN q[n] ELSE q[k]
  BY <1>1
<1> HIDE DEF e
<1>3. /\ u \in Seq(S) /\ Len(u) = n - 1
      /\ \A k \in 1..(n - 1) : u[k] = e[k]
  BY <1>1, <1>2
<1> HIDE DEF u
<1>4. \A k \in 1..(n - 1) : k \in 1..n /\ k # n
                            /\ u[k] = IF k = i THEN q[n] ELSE q[k]
  BY <1>1, <1>2, <1>3
<1>5. \A k \in 1..n : k = n \/ k \in 1..(n - 1)
  BY <1>1
<1>6. Distinct(u)
  <2> SUFFICES ASSUME NEW j \in 1..(n - 1), NEW k \in 1..(n - 1), u[j] = u[k]
               PROVE  j = k
    BY <1>3 DEF Distinct
  <2> QED BY <1>1, <1>4 DEF Distinct
<1>7. Elems(u) \subseteq Elems(q) \ {q[i]}
  <2> SUFFICES ASSUME NEW k \in 1..(n - 1) PROVE u[k] \in Elems(q) /\ u[k] # q[i]
    BY <1>3 DEF Elems
  <2>1. CASE k = i
    <3>1. u[k] = q[n] /\ i # n
      BY <1>4, <2>1
    <3> QED BY <1>1, <3>1 DEF Elems, Distinct
  <2>2. CASE k # i
    BY <1>4, <2>2 DEF Elems, Distinct
  <2> QED BY <2>1, <2>2
<1>8. Elems(q) \ {q[i]} \subseteq Elems(u)
  <2> SUFFICES ASSUME NEW k \in 1..n, q[k] # q[i] PROVE q[k] \in Elems(u)
    BY DEF Elems
  <2>1. CASE k = n
    <3>1. i \in 1..(n - 1) /\ u[i] = q[n]
      BY <1>4, <1>5, <2>1
    <3> QED BY <1>3, <2>1, <3>1 DEF Elems
  <2>2. CASE k # n
    <3>1. k \in 1..(n - 1) /\ u[k] = q[k]
      BY <1>4, <1>5, <2>2
    <3> QED BY <1>3, <3>1 DEF Elems
  <2> QED BY <2>1, <2>2
<1>9. Elems(u) = Elems(q) \ {q[i]}
  BY <1>7, <1>8
<1> QED BY <1>3, <1>6, <1>9 DEF u, e

\* The storages, files and hot list, without the searches
StorageInv ==
    /\ file \in [Locs -> {NULL} \cup SUBSET Ids]
    /\ storage \in [Slots -> {NULL} \cup Storages]
    /\ hot \in Seq(Slots)
    /\ capacity \in Nat /\ room \in Nat /\ crowded \in BOOLEAN
    /\ HotExact /\ RoomExact /\ CopyExact

\* A storage is an element of Storages exactly as long as it is open.
LEMMA OpenType ==
    ASSUME storage \in [Slots -> {NULL} \cup Storages]
    PROVE  Open = {s \in Slots : storage[s] \in Storages}
  BY DEF Open

\* The hot list holds the readable storages, each once.
LEMMA HotElems ==
    HotExact <=> Distinct(hot) /\ Elems(hot) = {s \in Open : Readable(storage[s])}
  BY DEF HotExact, Distinct, Elems

\* dlite_storage_hotlist_add() of a storage that was not open.
LEMMA HotAdded ==
    ASSUME hot \in Seq(Slots), capacity \in Nat, room \in Nat, crowded \in BOOLEAN,
           RoomExact, NEW s \in Slots, HotAdd(s)
    PROVE  capacity' \in Nat /\ room' \in Nat /\ crowded' \in BOOLEAN /\ RoomExact'
<1>1. Len(hot) \in Nat /\ Len(hot') = Len(hot) + 1 /\ hot' = Append(hot, s)
  BY DEF HotAdd
<1>2. crowded' \in BOOLEAN /\ (~crowded' => ~crowded /\ Len(hot) + 1 <= 2 * Chunk)
  <2>1. crowded' = (crowded \/ Len(hot) + 1 > 2 * Chunk)
    BY DEF HotAdd
  <2>2. crowded' \in BOOLEAN
    BY <2>1
  <2>3. ~crowded' => ~crowded /\ ~(Len(hot) + 1 > 2 * Chunk)
    BY <2>1
  <2> QED BY <1>1, <2>2, <2>3
<1>3. capacity' \in Nat /\ room' \in Nat
  BY DEF HotAdd
<1>4. ASSUME ~crowded'
      PROVE  /\ capacity' \in {0, Chunk, 2 * Chunk} /\ room' = capacity'
             /\ Len(hot') <= capacity'
  <2>1. /\ capacity \in {0, Chunk, 2 * Chunk} /\ room = capacity
        /\ Len(hot) <= capacity /\ Len(hot) + 1 <= 2 * Chunk
    BY <1>2, <1>4 DEF RoomExact
  <2>2. CASE capacity <= Len(hot)
    <3>1. capacity = Len(hot) /\ capacity # 2 * Chunk
      BY <1>1, <2>1, <2>2
    <3>2. capacity' = capacity + Chunk /\ room' = capacity + Chunk
      BY <2>2 DEF HotAdd
    <3>3. capacity' \in {0, Chunk, 2 * Chunk}
      <4>1. CASE capacity = 0
        BY <3>2, <4>1
      <4>2. CASE capacity = Chunk
        <5>1. Chunk + Chunk = 2 * Chunk
          OBVIOUS
        <5> QED BY <3>2, <4>2, <5>1
      <4> QED BY <2>1, <3>1, <4>1, <4>2
    <3>4. Len(hot') <= capacity'
      BY <1>1, <3>1, <3>2
    <3> QED BY <3>2, <3>3, <3>4
  <2>3. CASE ~(capacity <= Len(hot))
    <3>1. capacity' = capacity /\ room' = room
      BY <2>3 DEF HotAdd
    <3> QED BY <1>1, <2>1, <2>3, <3>1
  <2> QED BY <2>2, <2>3
<1> QED BY <1>2, <1>3, <1>4 DEF RoomExact

\* The number of full chunks
LEMMA ChunksInt == ASSUME NEW n \in Nat PROVE n \div Chunk \in Int
  OBVIOUS
LEMMA ChunksNat == ASSUME NEW n \in Nat PROVE n \div Chunk \in Nat
<1>1. n \div Chunk >= 0
  BY ChunksInt
<1> QED BY <1>1, ChunksInt

\* dlite_storage_hotlist_remove() gives memory back only beyond two chunks.
LEMMA HotRemoved ==
    ASSUME hot \in Seq(Slots), Len(hot) >= 1, capacity \in Nat, room \in Nat,
           crowded \in BOOLEAN, RoomExact, NEW s \in Slots, HotRemove(s),
           Len(hot') = Len(hot) - 1
    PROVE  capacity' \in Nat /\ room' \in Nat /\ crowded' \in BOOLEAN /\ RoomExact'
<1> DEFINE q == (Len(hot) - 1) \div Chunk
           length == (q + 2) * Chunk
<1>1. Len(hot) \in Nat
  OBVIOUS
<1>2. q \in Nat
  <2> DEFINE n == Len(hot) - 1
  <2>1. n \in Nat
    BY <1>1
  <2> HIDE DEF n
  <2> QED BY <2>1, ChunksNat DEF n
<1> HIDE DEF q
<1>3. length \in Nat /\ 2 * Chunk <= length
  <2>1. q * Chunk \in Nat /\ length = q * Chunk + 2 * Chunk
    BY <1>2
  <2> QED BY <2>1
<1>4. length \div PtrSize \in Nat
  <2> HIDE DEF length
  <2> QED BY <1>3
<1>5. /\ crowded' = crowded
      /\ IF capacity > length THEN capacity' = length /\ room' = length \div PtrSize
                              ELSE UNCHANGED <<capacity, room>>
  BY DEF HotRemove, q
<1> HIDE DEF length
<1>6. capacity' \in Nat /\ room' \in Nat
  BY <1>3, <1>4, <1>5
<1>7. ASSUME ~crowded'
      PROVE  /\ capacity' \in {0, Chunk, 2 * Chunk} /\ room' = capacity'
             /\ Len(hot') <= capacity'
  BY <1>1, <1>3, <1>5, <1>7 DEF RoomExact
<1> QED BY <1>5, <1>6, <1>7 DEF RoomExact

----------------------------------------------------------------------------
(* Opening and closing, and everything else that happens to storages.       *)

\* The storages but s are what they were.
Others(s) == \A t \in Slots : t # s => storage'[t] = storage[t]

\* A new storage is open, readable ones are on the hot list.
LEMMA OpenAtInv ==
    ASSUME StorageInv, NEW s \in Slots, NEW l \in Locs, NEW m \in {"r", "w", "a"},
           NEW own \in BOOLEAN, OpenAt(s, l, m, own), UNCHANGED file
    PROVE  /\ StorageInv' /\ s \notin Open /\ Open' = Open \cup {s}
           /\ storage'[s] = NewStorage(l, m, own) /\ Others(s)
           /\ NewStorage(l, m, own) \in Storages
<1> DEFINE x == NewStorage(l, m, own)
<1>1. file \in [Locs -> {NULL} \cup SUBSET Ids]
      /\ storage \in [Slots -> {NULL} \cup Storages]
      /\ hot \in Seq(Slots) /\ capacity \in Nat /\ room \in Nat
      /\ crowded \in BOOLEAN /\ HotExact /\ RoomExact /\ CopyExact
  BY DEF StorageInv
<1>2. x \in Storages
  <2> DEFINE js == IF m = "w" THEN NULL ELSE file[l]
             c == [id \in Ids |-> "absent"]
  <2>1. js \in {NULL} \cup SUBSET Ids
    BY <1>1
  <2>2. c \in [Ids -> CacheValues]
    BY DEF CacheValues
  <2>3. x = [loc |-> l, mode |-> m, jstore |-> js, changed |-> FALSE,
             refcount |-> 1, owned |-> own, iters |-> 0, cache |-> c, saved |-> {}]
    BY DEF NewStorage
  <2> HIDE DEF js, c, x
  <2> QED BY <2>1, <2>2, <2>3 DEF Storages
<1>3. x.mode = m /\ x.saved = {}
  BY DEF NewStorage
<1>4. storage[s] = NULL /\ storage' = [storage EXCEPT ![s] = x]
      /\ IF m = "w" THEN UNCHANGED hotlist ELSE HotAdd(s)
  BY DEF OpenAt
<1> HIDE DEF x
<1>5. storage' \in [Slots -> {NULL} \cup Storages] /\ storage'[s] = x /\ Others(s)
  BY <1>1, <1>2, <1>4 DEF Others
<1>6. s \notin Open /\ Open' = Open \cup {s}
  BY <1>2, <1>4, <1>5 DEF Open, Others
<1>7. {t \in Open : Readable(storage[t])}' =
         {t \in Open : Readable(storage[t])} \cup (IF m = "w" THEN {} ELSE {s})
  BY <1>3, <1>5, <1>6 DEF Others, Open, Readable
<1>8. CopyExact'
  <2> SUFFICES ASSUME NEW t \in Open' PROVE CopyOf(storage'[t])
    BY DEF CopyExact, CopyOf, Copy
  <2>1. CASE t = s
    BY <1>3, <1>5, <2>1 DEF CopyOf
  <2>2. CASE t # s
    BY <1>1, <1>5, <1>6, <2>2 DEF CopyExact, Others, Open
  <2> QED BY <2>1, <2>2
<1>9. CASE m = "w"
  <2>1. UNCHANGED <<hot, capacity, room, crowded>>
    BY <1>4, <1>9 DEF hotlist
  <2>2. HotExact'
    BY <1>1, <1>7, <1>9, <2>1 DEF HotExact
  <2>3. RoomExact'
    BY <1>1, <2>1 DEF RoomExact
  <2> QED BY <1>1, <1>2, <1>5, <1>6, <1>8, <2>1, <2>2, <2>3 DEF StorageInv, x
<1>10. CASE m # "w"
  <2>1. HotAdd(s)
    BY <1>4, <1>10
  <2>2. /\ capacity' \in Nat /\ room' \in Nat /\ crowded' \in BOOLEAN /\ RoomExact'
    BY <1>1, <2>1, HotAdded
  <2>3. s \notin Elems(hot) /\ Distinct(hot)
        /\ Elems(hot) = {t \in Open : Readable(storage[t])}
    BY <1>1, <1>6, HotElems
  <2>4. /\ hot' \in Seq(Slots) /\ Distinct(hot') /\ Elems(hot') = Elems(hot) \cup {s}
    BY <1>1, <2>1, <2>3, AppendElems DEF HotAdd
  <2>5. HotExact'
    BY <1>7, <1>10, <2>3, <2>4 DEF HotExact, Distinct, Elems
  <2> QED BY <1>1, <1>2, <1>5, <1>6, <1>8, <2>2, <2>4, <2>5 DEF StorageInv, x
<1> QED BY <1>9, <1>10

\* What stays the same when a storage is closed by one of those who use it
SameCopy(x, y) ==
    /\ x.loc = y.loc /\ x.mode = y.mode /\ x.jstore = y.jstore
    /\ x.changed = y.changed /\ x.saved = y.saved

\* A storage is closed and written when nobody uses it any more, or it has one
\* reference less.
LEMMA CloseAsInv ==
    ASSUME StorageInv, NEW s \in Open, NEW x \in Storages, SameCopy(x, storage[s]),
           x.refcount > 0, CloseAs(s, x)
    PROVE  /\ StorageInv' /\ Others(s)
           /\ x.refcount > 1 =>
                /\ Open' = Open /\ storage'[s] = [x EXCEPT !.refcount = @ - 1]
                /\ [x EXCEPT !.refcount = @ - 1] \in Storages
                /\ UNCHANGED file
           /\ ~(x.refcount > 1) =>
                /\ Open' = Open \ {s} /\ x.refcount = 1
                /\ storage[s].saved \ MetaIds \subseteq file'[storage[s].loc]
<1>1. file \in [Locs -> {NULL} \cup SUBSET Ids]
      /\ storage \in [Slots -> {NULL} \cup Storages]
      /\ hot \in Seq(Slots) /\ capacity \in Nat /\ room \in Nat
      /\ crowded \in BOOLEAN /\ HotExact /\ RoomExact /\ CopyExact
  BY DEF StorageInv
<1>2. s \in Slots /\ storage[s] \in Storages
  BY <1>1 DEF Open
<1>3. x.refcount \in Nat /\ x.loc \in Locs /\ x.jstore \in {NULL} \cup SUBSET Ids
      /\ x.mode \in {"r", "w", "a"}
  BY DEF Storages
<1>4. /\ Distinct(hot) /\ Elems(hot) = {t \in Open : Readable(storage[t])}
  BY <1>1, HotElems
<1>5. Readable(x) <=> Readable(storage[s])
  BY DEF SameCopy, Readable
<1>6. CASE x.refcount > 1
  <2> DEFINE y == [x EXCEPT !.refcount = @ - 1]
  <2>1. x.refcount - 1 \in Nat
    BY <1>3, <1>6
  <2>2. y \in Storages
    <3> DEFINE r == x.refcount - 1
    <3>1. y = [x EXCEPT !.refcount = r]
      OBVIOUS
    <3> HIDE DEF r, y
    <3> QED BY <2>1, <3>1 DEF Storages, r
  <2>3. storage' = [storage EXCEPT ![s] = y]
        /\ UNCHANGED <<file, hot, capacity, room, crowded>>
    BY <1>6 DEF CloseAs, hotlist
  <2>4. SameCopy(y, storage[s])
    BY DEF SameCopy, Storages
  <2> HIDE DEF y
  <2>5. storage' \in [Slots -> {NULL} \cup Storages] /\ storage'[s] = y /\ Others(s)
    BY <1>1, <1>2, <2>2, <2>3 DEF Others
  <2>6. Open' = Open
    BY <1>2, <2>2, <2>5 DEF Open, Others
  <2>7. HotExact'
    <3>1. {t \in Open : Readable(storage[t])}' = {t \in Open : Readable(storage[t])}
      BY <2>4, <2>5, <2>6 DEF Others, Open, Readable, SameCopy
    <3> QED BY <1>4, <2>3, <3>1 DEF HotExact, Distinct, Elems
  <2>8. CopyExact'
    <3> SUFFICES ASSUME NEW t \in Open PROVE CopyOf(storage'[t])
      BY <2>6 DEF CopyExact, CopyOf, Copy
    <3>1. CASE t = s
      BY <1>1, <2>4, <2>5, <3>1 DEF CopyExact, CopyOf, Copy, SameCopy
    <3>2. CASE t # s
      BY <1>1, <2>5, <3>2 DEF CopyExact, Others, Open
    <3> QED BY <3>1, <3>2
  <2>9. RoomExact'
    BY <1>1, <2>3 DEF RoomExact
  <2> QED BY <1>1, <1>6, <2>2, <2>3, <2>5, <2>6, <2>7, <2>8, <2>9 DEF StorageInv, y
<1>7. CASE ~(x.refcount > 1)
  <2>1. storage' = [storage EXCEPT ![s] = NULL] /\ file' = Written(x)
        /\ IF Readable(x) THEN HotRemove(s) ELSE UNCHANGED hotlist
    BY <1>7 DEF CloseAs
  <2>2. storage' \in [Slots -> {NULL} \cup Storages] /\ storage'[s] = NULL /\ Others(s)
    BY <1>1, <1>2, <2>1 DEF Others
  <2>3. Open' = Open \ {s} /\ x.refcount = 1
    BY <1>3, <1>7, <2>2 DEF Open, Others
  <2>4. /\ file' \in [Locs -> {NULL} \cup SUBSET Ids]
        /\ storage[s].saved \ MetaIds \subseteq file'[storage[s].loc]
    <3>1. CopyOf(x) /\ x.loc = storage[s].loc /\ x.saved = storage[s].saved
      BY <1>1 DEF CopyExact, CopyOf, Copy, SameCopy
    <3>2. CASE x.jstore # NULL /\ x.mode # "r" /\ x.changed
      BY <1>1, <1>3, <2>1, <3>1, <3>2 DEF Written, CopyOf, Copy
    <3>3. CASE ~(x.jstore # NULL /\ x.mode # "r" /\ x.changed)
      <4>1. file' = file
        BY <2>1, <3>3 DEF Written
      <4>2. x.saved \ MetaIds = {}
        BY <3>1, <3>3 DEF CopyOf, Copy
      <4> QED BY <1>1, <3>1, <4>1, <4>2
    <3> QED BY <3>2, <3>3
  <2>5. CopyExact'
    <3> SUFFICES ASSUME NEW t \in Open' PROVE CopyOf(storage'[t])
      BY DEF CopyExact, CopyOf, Copy
    <3> QED BY <1>1, <2>2, <2>3 DEF CopyExact, Others, Open
  <2>6. {t \in Open : Readable(storage[t])}' = {t \in Open : Readable(storage[t])} \ {s}
    BY <2>2, <2>3 DEF Others, Open, Readable
  <2>7. CASE Readable(x)
    <3> DEFINE i == Index(s)
    <3>1. \E k \in 1..Len(hot) : hot[k] = s
      BY <1>4, <1>5, <2>7 DEF Elems
    <3>2. i \in 1..Len(hot) /\ hot[i] = s
      BY <3>1 DEF Index
    <3>3. HotRemove(s)
      BY <2>1, <2>7
    <3>4. hot' = SubSeq([hot EXCEPT ![i] = hot[Len(hot)]], 1, Len(hot) - 1)
      BY <3>3 DEF HotRemove
    <3> HIDE DEF i
    <3>5. /\ hot' \in Seq(Slots) /\ Len(hot') = Len(hot) - 1
          /\ Distinct(hot') /\ Elems(hot') = Elems(hot) \ {s}
      BY <1>1, <1>4, <3>2, <3>4, RemoveElems
    <3>6. Len(hot) >= 1
      BY <1>1, <3>2
    <3>7. capacity' \in Nat /\ room' \in Nat /\ crowded' \in BOOLEAN /\ RoomExact'
      BY <1>1, <1>2, <3>3, <3>5, <3>6, HotRemoved
    <3>8. HotExact'
      BY <1>4, <2>6, <3>5 DEF HotExact, Distinct, Elems
    <3> QED BY <1>7, <2>2, <2>3, <2>4, <2>5, <3>5, <3>7, <3>8 DEF StorageInv
  <2>8. CASE ~Readable(x)
    <3>1. UNCHANGED <<hot, capacity, room, crowded>>
      BY <2>1, <2>8 DEF hotlist
    <3>2. HotExact'
      BY <1>1, <1>5, <2>6, <2>8, <3>1 DEF HotExact
    <3>3. RoomExact'
      BY <1>1, <3>1 DEF RoomExact
    <3> QED BY <1>1, <1>7, <2>2, <2>3, <2>4, <2>5, <3>1, <3>2, <3>3 DEF StorageInv
  <2> QED BY <2>7, <2>8
<1> QED BY <1>6, <1>7

\* What DataIsKept says of a step
DataKept ==
    \A s \in Open : s \notin Open' =>
       storage[s].saved \ MetaIds \subseteq file'[storage[s].loc]

\* The storage that is closed is the only one.
LEMMA ClosedIsKept ==
    ASSUME StorageInv, NEW s \in Open, NEW x \in Storages, SameCopy(x, storage[s]),
           x.refcount > 0, CloseAs(s, x)
    PROVE  DataKept
<1>1. /\ x.refcount > 1 => Open' = Open
      /\ ~(x.refcount > 1) =>
           /\ Open' = Open \ {s}
           /\ storage[s].saved \ MetaIds \subseteq file'[storage[s].loc]
  BY CloseAsInv
<1>2. ASSUME NEW t \in Open, t \notin Open' PROVE ~(x.refcount > 1) /\ t = s
  BY <1>1, <1>2
<1> QED BY <1>1, <1>2 DEF DataKept

\* What stays open need not be in the file.
LEMMA OpenIsKept == Open \subseteq Open' => DataKept
  BY DEF DataKept

\* A step that opens and closes nothing.
LEMMA KeptInv ==
    ASSUME StorageInv, UNCHANGED hotlist,
           file' \in [Locs -> {NULL} \cup SUBSET Ids],
           storage' \in [Slots -> {NULL} \cup Storages],
           \A s \in Slots : storage[s] = NULL => storage'[s] = NULL,
           \A s \in Open : /\ storage'[s] \in Storages
                           /\ storage'[s].mode = storage[s].mode
                           /\ CopyOf(storage'[s])
    PROVE  StorageInv' /\ Open' = Open
<1>1. Open' = Open
  BY DEF Open
<1>2. UNCHANGED <<hot, capacity, room, crowded>>
  BY DEF hotlist
<1>3. HotExact'
  <2>1. {t \in Open : Readable(storage[t])}' = {t \in Open : Readable(storage[t])}
    BY <1>1 DEF Readable
  <2>2. Distinct(hot) /\ Elems(hot) = {t \in Open : Readable(storage[t])}
    BY HotElems DEF StorageInv
  <2> QED BY <1>2, <2>1, <2>2 DEF HotExact, Distinct, Elems
<1>4. RoomExact'
  BY <1>2 DEF RoomExact, StorageInv
<1>5. CopyExact'
  BY <1>1 DEF CopyExact, CopyOf, Copy
<1> QED BY <1>1, <1>2, <1>3, <1>4, <1>5 DEF StorageInv

----------------------------------------------------------------------------
(* Steps of the application.                                                *)

Rets == {NULL} \cup [id : Ids, val : Results]

\* A search counts when it has opened the storage.
LEMMA SearchesValue ==
    \A S, s : /\ SearchedIn(S, s) => Searches(S, s) = 1
              /\ ~SearchedIn(S, s) => Searches(S, s) = 0
  BY DEF Searches, One

\* The invariant, its parts named by what they are about
LEMMA Parts ==
    IInv <=> /\ StorageInv /\ mem \in SUBSET Ids /\ ret \in Rets
             /\ stack \in Seq(Frames) /\ StackOf(stack, ret # NULL, Open)
             /\ \A s \in Open : CountOf(storage[s], Searches(stack, s))
  BY DEF IInv, StorageInv, TypeOK, StackExact, CountExact, Rets

LEMMA InitInv == Init => IInv
<1> SUFFICES ASSUME Init PROVE IInv
  OBVIOUS
<1>1. /\ file = File0 /\ storage = [s \in Slots |-> NULL]
      /\ hot = <<>> /\ capacity = 0 /\ room = 0 /\ crowded = FALSE
      /\ mem = {} /\ stack = <<>> /\ ret = NULL
  BY DEF Init
<1>2. Open = {}
  BY <1>1 DEF Open
<1>3. StorageInv
  <2>1. hot \in Seq(Slots) /\ Len(hot) = 0
    BY <1>1
  <2>2. HotExact
    BY <1>1, <1>2 DEF HotExact
  <2>3. RoomExact
    BY <1>1, <2>1 DEF RoomExact
  <2>4. CopyExact
    BY <1>2 DEF CopyExact
  <2>5. capacity \in Nat /\ room \in Nat
    BY <1>1
  <2>6. crowded \in BOOLEAN
    BY <1>1
  <2> QED BY <1>1, <2>1, <2>2, <2>3, <2>4, <2>5, <2>6 DEF StorageInv
<1> QED BY <1>1, <1>2, <1>3, Parts, EmptyStack DEF Rets

LEMMA NextParts ==
    ASSUME StorageInv', mem' \in SUBSET Ids, ret' \in Rets,
           stack' \in Seq(Frames), StackOf(stack', ret' # NULL, Open'),
           \A s \in Open' : CountOf(storage'[s], Searches(stack', s))
    PROVE  IInv'
<1>1. TypeOK'
  BY DEF StorageInv, TypeOK, Rets
<1>2. StackExact'
  BY DEF StackExact
<1>3. CountExact'
  BY DEF CountExact, CountOf, Searches, One, SearchedIn, Opener
<1> QED BY <1>1, <1>2, <1>3 DEF IInv, StorageInv

\* Nothing is searched for while the application is running.
LEMMA IdleParts ==
    ASSUME IInv, Idle
    PROVE  /\ StorageInv /\ mem \in SUBSET Ids /\ ret = NULL /\ ret \in Rets
           /\ stack = <<>>
           /\ \A s \in Open : /\ s \in Slots /\ storage[s] \in Storages
                              /\ CountOf(storage[s], 0)
<1>1. stack = <<>> /\ ret = NULL
  BY DEF Idle
<1>2. StorageInv /\ mem \in SUBSET Ids
  BY Parts
<1>3. ASSUME NEW s \in Open
      PROVE  s \in Slots /\ storage[s] \in Storages /\ CountOf(storage[s], 0)
  <2>1. CountOf(storage[s], 0)
    <3>1. Searches(stack, s) = 0
      BY <1>1, EmptyStack, SearchesValue
    <3>2. CountOf(storage[s], Searches(stack, s))
      BY Parts
    <3> QED BY <3>1, <3>2
  <2>2. s \in Slots /\ storage[s] \in Storages
    BY <1>2 DEF Open, StorageInv
  <2> QED BY <2>1, <2>2
<1>4. ret \in Rets
  BY <1>1 DEF Rets
<1> QED BY <1>1, <1>2, <1>3, <1>4

\* A step of the application that starts no search.
LEMMA IdleStep ==
    ASSUME IInv, Idle, UNCHANGED <<stack, ret>>, StorageInv', mem' \in SUBSET Ids,
           \A s \in Open' : CountOf(storage'[s], 0)
    PROVE  IInv'
<1>1. stack' = <<>> /\ ret' = NULL
  BY DEF Idle
<1>2. stack' \in Seq(Frames) /\ StackOf(stack', ret' # NULL, Open')
      /\ \A s : ~SearchedIn(stack', s)
  BY <1>1, EmptyStack
<1>3. ASSUME NEW s \in Open' PROVE CountOf(storage'[s], Searches(stack', s))
  <2>1. CountOf(storage'[s], 0) /\ Searches(stack', s) = 0
    BY <1>2, SearchesValue
  <2> QED BY <2>1
<1>4. ret' \in Rets
  BY <1>1 DEF Rets
<1> QED BY <1>2, <1>3, <1>4, NextParts

LEMMA OpenStep ==
    ASSUME IInv, NEW s \in Slots, NEW lm \in Opens, OpenStorage(s, lm[1], lm[2])
    PROVE  IInv' /\ DataKept
<1> DEFINE l == lm[1]
           m == lm[2]
           own == TRUE
           x == NewStorage(l, m, own)
<1>1. Idle /\ OpenAt(s, l, m, own) /\ UNCHANGED <<file, mem, stack, ret>>
  BY DEF OpenStorage
<1>2. l \in Locs /\ m \in {"r", "w", "a"}
  OBVIOUS
<1> HIDE DEF l, m, own
<1>3. /\ StorageInv /\ mem \in SUBSET Ids
      /\ \A t \in Open : t \in Slots /\ CountOf(storage[t], 0)
  BY <1>1, IdleParts
<1>4. StorageInv' /\ s \notin Open /\ Open' = Open \cup {s} /\ storage'[s] = x
      /\ Others(s)
  <2>1. UNCHANGED file /\ own \in BOOLEAN
    BY <1>1 DEF own
  <2> QED BY <1>1, <1>2, <1>3, <2>1, OpenAtInv
<1>5. CountOf(x, 0)
  BY DEF CountOf, One, NewStorage, own
<1> HIDE DEF x
<1>6. \A t \in Open' : CountOf(storage'[t], 0)
  BY <1>3, <1>4, <1>5 DEF Others
<1>7. DataKept
  BY <1>4, OpenIsKept
<1> QED BY <1>1, <1>3, <1>4, <1>6, <1>7, IdleStep

\* A storage is closed by the application or by an iterator.
LEMMA IdleClose ==
    ASSUME IInv, Idle, NEW s \in Open, NEW x \in Storages, SameCopy(x, storage[s]),
           x.refcount > 0, x.refcount = One(x.owned) + x.iters + 1,
           CloseAs(s, x), UNCHANGED <<mem, stack, ret>>
    PROVE  IInv' /\ DataKept
<1>1. /\ StorageInv /\ mem \in SUBSET Ids
      /\ \A t \in Open : t \in Slots /\ CountOf(storage[t], 0)
  BY IdleParts
<1>2. /\ StorageInv' /\ Others(s)
      /\ x.refcount > 1 =>
           Open' = Open /\ storage'[s] = [x EXCEPT !.refcount = @ - 1]
      /\ ~(x.refcount > 1) => Open' = Open \ {s}
  BY <1>1, CloseAsInv
<1>3. x.refcount > 1 => CountOf([x EXCEPT !.refcount = @ - 1], 0)
  <2> DEFINE y == [x EXCEPT !.refcount = @ - 1]
  <2>1. /\ x.refcount \in Nat /\ x.iters \in Nat
        /\ y.refcount = x.refcount - 1 /\ y.owned = x.owned /\ y.iters = x.iters
    BY DEF Storages
  <2> HIDE DEF y
  <2>2. x.refcount > 1 => CountOf(y, 0)
    BY <2>1 DEF CountOf, One
  <2> QED BY <2>2 DEF y
<1>4. ASSUME NEW t \in Open' PROVE CountOf(storage'[t], 0)
  <2>1. t \in Open
    BY <1>2
  <2>2. CASE t = s
    <3>1. x.refcount > 1 /\ storage'[s] = [x EXCEPT !.refcount = @ - 1]
      BY <1>2, <2>2
    <3> QED BY <1>3, <2>2, <3>1
  <2>3. CASE t # s
    BY <1>1, <1>2, <2>1, <2>3 DEF Others
  <2> QED BY <2>2, <2>3
<1>5. DataKept
  BY <1>1, ClosedIsKept
<1> QED BY <1>1, <1>2, <1>4, <1>5, IdleStep

LEMMA CloseStep ==
    ASSUME IInv, NEW s \in Slots, CloseStorage(s) PROVE IInv' /\ DataKept
<1> DEFINE x == [storage[s] EXCEPT !.owned = FALSE]
<1>1. Idle /\ s \in Open /\ storage[s].owned /\ CloseAs(s, x)
      /\ UNCHANGED <<mem, stack, ret>>
  BY DEF CloseStorage
<1>2. storage[s] \in Storages /\ CountOf(storage[s], 0)
  BY <1>1, IdleParts
<1>3. x \in Storages /\ SameCopy(x, storage[s])
  BY <1>2 DEF Storages, SameCopy
<1>4. x.owned = FALSE /\ x.iters = storage[s].iters
      /\ x.refcount = storage[s].refcount /\ x.iters \in Nat
  BY <1>2 DEF Storages
<1>5. x.refcount > 0 /\ x.refcount = One(x.owned) + x.iters + 1
  BY <1>1, <1>2, <1>4 DEF CountOf, One
<1> HIDE DEF x
<1> QED BY <1>1, <1>3, <1>5, IdleClose

LEMMA IterFreeStep == ASSUME IInv, NEW s \in Slots, IterFree(s) PROVE IInv' /\ DataKept
<1> DEFINE x == [storage[s] EXCEPT !.iters = @ - 1]
<1>1. Idle /\ s \in Open /\ storage[s].iters > 0 /\ CloseAs(s, x)
      /\ UNCHANGED <<mem, stack, ret>>
  BY DEF IterFree
<1>2. storage[s] \in Storages /\ CountOf(storage[s], 0)
  BY <1>1, IdleParts
<1>3. storage[s].iters \in Nat /\ storage[s].iters - 1 \in Nat
  BY <1>1, <1>2 DEF Storages
<1>4. x \in Storages /\ SameCopy(x, storage[s])
  <2> DEFINE i == storage[s].iters - 1
  <2>1. x = [storage[s] EXCEPT !.iters = i]
    OBVIOUS
  <2> HIDE DEF i, x
  <2> QED BY <1>2, <1>3, <2>1 DEF Storages, SameCopy, i
<1>5. x.owned = storage[s].owned /\ x.iters = storage[s].iters - 1
      /\ x.refcount = storage[s].refcount
  BY <1>2 DEF Storages
<1>6. x.refcount > 0 /\ x.refcount = One(x.owned) + x.iters + 1
  BY <1>1, <1>2, <1>3, <1>5 DEF CountOf, One
<1> HIDE DEF x
<1> QED BY <1>1, <1>4, <1>6, IdleClose

LEMMA IterCreateStep == ASSUME IInv, NEW s \in Slots, IterCreate(s) PROVE IInv' /\ DataKept
<1> DEFINE i == storage[s].iters + 1
           r == storage[s].refcount + 1
           y == [storage[s] EXCEPT !.iters = i, !.refcount = r]
<1>1. Idle /\ s \in Open
      /\ storage' = [storage EXCEPT ![s].iters = @ + 1, ![s].refcount = @ + 1]
      /\ UNCHANGED <<file, hotlist, mem, stack, ret>>
  BY DEF IterCreate
<1>2. /\ StorageInv /\ mem \in SUBSET Ids
      /\ \A t \in Open : /\ t \in Slots /\ storage[t] \in Storages
                         /\ CountOf(storage[t], 0)
  BY <1>1, IdleParts
<1>3. i \in Nat /\ r \in Nat
  <2>1. storage[s].iters \in Nat /\ storage[s].refcount \in Nat
    BY <1>1, <1>2 DEF Storages
  <2> QED BY <2>1
<1>4. storage' = [storage EXCEPT ![s] = y]
  BY <1>1, <1>2 DEF StorageInv
<1>5. y.iters = i /\ y.refcount = r /\ y.owned = storage[s].owned
      /\ y.mode = storage[s].mode
  BY <1>1, <1>2 DEF Storages
<1>6. CountOf(y, 0)
  <2>1. CountOf(storage[s], 0) /\ storage[s].refcount \in Nat
        /\ storage[s].iters \in Nat
    BY <1>1, <1>2 DEF Storages
  <2> HIDE DEF y
  <2> QED BY <1>5, <2>1 DEF CountOf, One
<1>7. y \in Storages /\ CopyOf(y)
  <2> HIDE DEF i, r
  <2>0. storage[s] \in Storages
    BY <1>1, <1>2
  <2>1. y \in Storages
    BY <1>3, <2>0 DEF Storages
  <2>2. CopyOf(storage[s])
    BY <1>1, <1>2 DEF StorageInv, CopyExact
  <2>3. CopyOf(y)
    BY <1>1, <1>2, <2>2 DEF CopyOf, Copy, Storages
  <2> QED BY <2>1, <2>3
<1> HIDE DEF y, i, r
<1>8. /\ storage' \in [Slots -> {NULL} \cup Storages] /\ storage'[s] = y
      /\ \A t \in Slots : t # s => storage'[t] = storage[t]
  BY <1>4, <1>7, <1>2 DEF StorageInv
<1>9. StorageInv' /\ Open' = Open
  <2>1. file' \in [Locs -> {NULL} \cup SUBSET Ids] /\ UNCHANGED hotlist
    BY <1>1, <1>2 DEF StorageInv
  <2>2. \A t \in Open : CopyOf(storage[t])
    BY <1>2 DEF StorageInv, CopyExact
  <2>3. storage[s] # NULL
    BY <1>1 DEF Open
  <2> QED BY <1>2, <1>5, <1>7, <1>8, <2>1, <2>2, <2>3, KeptInv
<1>10. \A t \in Open' : CountOf(storage'[t], 0)
  BY <1>2, <1>6, <1>8, <1>9
<1> QED BY <1>1, <1>2, <1>9, <1>10, IdleStep, OpenIsKept

\* dlite_instance_create() and the free of an instance
LEMMA InstanceStep ==
    ASSUME IInv, NEW id \in Ids, CreateInstance(id) \/ FreeInstance(id) PROVE IInv' /\ DataKept
<1>1. Idle /\ UNCHANGED <<file, hotlist, stack, ret>>
  BY DEF CreateInstance, FreeInstance
<1>2. /\ StorageInv /\ mem \in SUBSET Ids
      /\ \A t \in Open : /\ t \in Slots /\ storage[t] \in Storages
                         /\ CountOf(storage[t], 0)
  BY <1>1, IdleParts
<1>3. mem' \in SUBSET Ids
  BY <1>2 DEF CreateInstance, FreeInstance
<1>4. \A t \in Slots : \/ storage'[t] = storage[t]
                       \/ t \in Open /\ storage'[t] = [storage[t] EXCEPT !.cache[id] = "freed"]
  BY DEF CreateInstance, FreeInstance, Caching
<1>5. storage' = [s \in Slots |-> storage'[s]]
  BY <1>2 DEF CreateInstance, FreeInstance, StorageInv
<1>6. ASSUME NEW t \in Open
      PROVE  /\ storage'[t] \in Storages /\ CountOf(storage'[t], 0)
             /\ storage'[t].mode = storage[t].mode /\ CopyOf(storage'[t])
  <2>1. /\ storage[t] \in Storages /\ CountOf(storage[t], 0) /\ CopyOf(storage[t])
        /\ t \in Slots
    BY <1>2 DEF StorageInv, CopyExact
  <2>2. CASE storage'[t] = storage[t]
    BY <2>1, <2>2
  <2>3. CASE storage'[t] = [storage[t] EXCEPT !.cache[id] = "freed"]
    <3> DEFINE c == [storage[t].cache EXCEPT ![id] = "freed"]
               y == [storage[t] EXCEPT !.cache = c]
    <3>1. storage'[t] = y
      BY <2>1, <2>3 DEF Storages
    <3>2. c \in [Ids -> CacheValues]
      BY <2>1 DEF Storages, CacheValues
    <3> HIDE DEF c
    <3>3. y \in Storages
      BY <2>1, <3>2 DEF Storages
    <3>4. /\ y.mode = storage[t].mode /\ y.saved = storage[t].saved
          /\ y.changed = storage[t].changed /\ y.jstore = storage[t].jstore
          /\ y.refcount = storage[t].refcount /\ y.owned = storage[t].owned
          /\ y.iters = storage[t].iters
      BY <2>1 DEF Storages
    <3> HIDE DEF y
    <3> QED BY <2>1, <3>1, <3>3, <3>4 DEF CountOf, CopyOf, Copy
  <2> QED BY <1>4, <2>1, <2>2, <2>3
<1>7. storage' \in [Slots -> {NULL} \cup Storages]
  <2>1. \A t \in Slots : storage'[t] \in {NULL} \cup Storages
    BY <1>2, <1>4, <1>6 DEF Open
  <2> QED BY <1>5, <2>1
<1>8. StorageInv' /\ Open' = Open
  <2>1. file' \in [Locs -> {NULL} \cup SUBSET Ids] /\ UNCHANGED hotlist
    BY <1>1, <1>2 DEF StorageInv
  <2>2. \A t \in Slots : storage[t] = NULL => storage'[t] = NULL
    BY <1>4 DEF Open
  <2> QED BY <1>2, <1>6, <1>7, <2>1, <2>2, KeptInv
<1>9. \A t \in Open' : CountOf(storage'[t], 0)
  BY <1>6, <1>8
<1> QED BY <1>1, <1>3, <1>8, <1>9, IdleStep, OpenIsKept

\* json_save()
LEMMA SaveStep ==
    ASSUME IInv, NEW s \in Slots, NEW id \in SaveIds, Save(s, id) PROVE IInv' /\ DataKept
<1> DEFINE x == storage[s]
           j == IF id \in MetaIds THEN x.jstore ELSE Copy(x) \cup {id}
           v == x.saved \cup {id}
           y == [x EXCEPT !.jstore = j, !.changed = TRUE, !.saved = v]
<1>1. Idle /\ s \in Open /\ UNCHANGED <<hotlist, mem, stack, ret>> /\ x.mode # "r"
      /\ id \in Ids
  BY DEF Save, SaveData, SaveMeta
<1>2. /\ StorageInv /\ mem \in SUBSET Ids
      /\ \A t \in Open : /\ t \in Slots /\ storage[t] \in Storages
                         /\ CountOf(storage[t], 0)
  BY <1>1, IdleParts
<1>3. x \in Storages /\ CountOf(x, 0) /\ CopyOf(x)
  BY <1>1, <1>2 DEF StorageInv, CopyExact
<1>4. file \in [Locs -> {NULL} \cup SUBSET Ids]
      /\ storage \in [Slots -> {NULL} \cup Storages]
      /\ \A t \in Open : CopyOf(storage[t])
  BY <1>2 DEF StorageInv, CopyExact
<1>5. id \in MetaIds => ~x.changed
  BY DEF Save, SaveData, SaveMeta
<1>6. storage' = [storage EXCEPT ![s] = y]
  <2>1. CASE SaveData(s, id)
    BY <1>3, <1>4, <2>1 DEF SaveData, Storages
  <2>2. CASE SaveMeta(s, id)
    <3>1. id \in MetaIds /\ storage' = [storage EXCEPT ![s].changed = TRUE,
                                                       ![s].saved = @ \cup {id}]
      BY <2>2 DEF SaveMeta
    <3>2. y = [x EXCEPT !.changed = TRUE, !.saved = v]
      BY <1>3, <3>1 DEF Storages
    <3> QED BY <1>3, <1>4, <3>1, <3>2 DEF Storages
  <2> QED BY <2>1, <2>2 DEF Save
<1>7. file' \in [Locs -> {NULL} \cup SUBSET Ids]
  BY <1>1, <1>4 DEF Save, SaveData, SaveMeta
<1>8. j \in {NULL} \cup SUBSET Ids /\ v \in SUBSET Ids
  BY <1>1, <1>3 DEF Storages, Copy
<1>9. y \in Storages
  <2> HIDE DEF j, v, x
  <2> QED BY <1>3, <1>8 DEF Storages
<1>10. /\ y.mode = x.mode /\ y.jstore = j /\ y.changed = TRUE /\ y.saved = v
       /\ y.refcount = x.refcount /\ y.owned = x.owned /\ y.iters = x.iters
  <2> HIDE DEF j, v, x
  <2> QED BY <1>3 DEF Storages
<1> HIDE DEF y
<1>11. CopyOf(y)
  <2>1. CASE id \in MetaIds
    <3>1. x.saved \ MetaIds = {}
      BY <1>3, <1>5, <2>1 DEF CopyOf
    <3>2. v \ MetaIds = {}
      BY <2>1, <3>1
    <3> QED BY <1>10, <3>2 DEF CopyOf
  <2>2. CASE id \notin MetaIds
    <3>1. j = Copy(x) \cup {id} /\ j # NULL
      BY <1>1, <1>3, <1>8, <2>2 DEF Storages, Copy
    <3>2. Copy(y) = j
      BY <1>10, <3>1 DEF Copy
    <3>3. x.saved \ MetaIds \subseteq Copy(x)
      BY <1>3 DEF CopyOf
    <3>4. v \ MetaIds \subseteq j
      BY <3>1, <3>3
    <3> QED BY <1>1, <1>10, <3>2, <3>4 DEF CopyOf
  <2> QED BY <2>1, <2>2
<1>12. CountOf(y, 0)
  BY <1>3, <1>10 DEF CountOf
<1>13. /\ storage' \in [Slots -> {NULL} \cup Storages] /\ storage'[s] = y
       /\ \A t \in Slots : t # s => storage'[t] = storage[t]
  BY <1>4, <1>6, <1>9
<1>14. StorageInv' /\ Open' = Open
  <2>1. storage[s] # NULL
    BY <1>1 DEF Open
  <2>2. \A t \in Open : /\ storage'[t] \in Storages
                        /\ storage'[t].mode = storage[t].mode
                        /\ CopyOf(storage'[t])
    BY <1>2, <1>4, <1>9, <1>10, <1>11, <1>13
  <2>3. \A t \in Slots : storage[t] = NULL => storage'[t] = NULL
    BY <1>13, <2>1
  <2> QED BY <1>1, <1>2, <1>7, <1>13, <2>2, <2>3, KeptInv
<1>15. \A t \in Open' : CountOf(storage'[t], 0)
  BY <1>2, <1>12, <1>13, <1>14
<1> QED BY <1>1, <1>2, <1>14, <1>15, IdleStep, OpenIsKept

----------------------------------------------------------------------------
(* Steps of a search.                                                       *)

\* A step that changes neither which storages are open nor who uses them.
LEMMA SearchStep ==
    ASSUME IInv, StorageInv', Open' = Open,
           \A s \in Open : /\ storage'[s].refcount = storage[s].refcount
                           /\ storage'[s].owned = storage[s].owned
                           /\ storage'[s].iters = storage[s].iters,
           mem' \in SUBSET Ids, ret' \in Rets, stack' \in Seq(Frames),
           StackOf(stack', ret' # NULL, Open),
           \A s \in Open : SearchedIn(stack', s) <=> SearchedIn(stack, s)
    PROVE  IInv' /\ DataKept
<1>1. ASSUME NEW s \in Open' PROVE CountOf(storage'[s], Searches(stack', s))
  <2>1. CountOf(storage[s], Searches(stack, s))
    BY <1>1, Parts
  <2>2. Searches(stack', s) = Searches(stack, s)
    BY <1>1, SearchesValue
  <2> QED BY <1>1, <2>1, <2>2 DEF CountOf
<1> QED BY <1>1, NextParts, OpenIsKept

\* When only frames change, storages stay what they are.
LEMMA SameStorages ==
    ASSUME IInv, UNCHANGED <<file, storage, hotlist>>
    PROVE  /\ StorageInv' /\ Open' = Open
           /\ \A s \in Open : /\ storage'[s].refcount = storage[s].refcount
                              /\ storage'[s].owned = storage[s].owned
                              /\ storage'[s].iters = storage[s].iters
<1>1. StorageInv /\ UNCHANGED <<file, storage, hot, capacity, room, crowded>>
  BY Parts DEF hotlist
<1>2. Open' = Open
  BY <1>1 DEF Open
<1>3. StorageInv'
  BY <1>1, <1>2 DEF StorageInv, HotExact, RoomExact, CopyExact, CopyOf, Copy, Readable
<1> QED BY <1>1, <1>2, <1>3

\* A search that starts on top of the frames R that wait for it.
LEMMA Begun ==
    ASSUME NEW R \in Seq(Frames), NEW open, Waiting(R, open), NEW id \in Ids,
           Begin(id, R)
    PROVE  /\ stack' \in Seq(Frames) /\ StackOf(stack', ret' # NULL, open)
           /\ ret' \in Rets
           /\ \A s : SearchedIn(stack', s) <=> SearchedIn(R, s)
<1>1. CASE id \in mem
  <2>1. stack' = R /\ ret' = [id |-> id, val |-> "inst"]
    BY <1>1 DEF Begin
  <2>2. ret' \in [id : Ids, val : Results]
    BY <2>1 DEF Results
  <2>3. ret' # NULL
    BY <2>2 DEF Results
  <2>4. StackOf(stack', ret' # NULL, open)
    BY <2>1, <2>3 DEF Waiting, StackOf, FrameExact
  <2> QED BY <2>1, <2>2, <2>4 DEF Rets
<1>2. CASE id \notin mem
  <2> DEFINE f == Frame(id, "hot", NULL)
             w == FALSE
  <2>1. stack' = <<f>> \o R /\ ret' = NULL
    BY <1>2 DEF Begin
  <2>2. f \in Frames
    BY DEF Frame, Frames
  <2>3. /\ f.src = NULL /\ f.res = NULL /\ f.wait = FALSE /\ f.stage = "hot"
    BY DEF Frame
  <2>4. FrameExact(f, w) /\ ~Opener(f)
    BY <2>3 DEF FrameExact, Opener
  <2>5. w \in BOOLEAN
    OBVIOUS
  <2> HIDE DEF f, w
  <2>6. /\ stack' \in Seq(Frames) /\ StackOf(stack', w, open)
        /\ \A s : SearchedIn(stack', s) <=> SearchedIn(R, s)
    BY <2>1, <2>2, <2>3, <2>4, <2>5, ConsStack
  <2>7. StackOf(stack', ret' # NULL, open)
    BY <2>1, <2>6 DEF StackOf, FrameExact, w
  <2> QED BY <2>1, <2>6, <2>7 DEF Rets
<1> QED BY <1>1, <1>2

LEMMA GetStep == ASSUME IInv, NEW id \in AskIds, Get(id) PROVE IInv' /\ DataKept
<1>1. Idle /\ Begin(id, <<>>) /\ UNCHANGED <<file, storage, hotlist, mem>> /\ id \in Ids
  BY DEF Get
<1>2. stack = <<>> /\ mem \in SUBSET Ids
  BY <1>1, IdleParts
<1>3. /\ stack' \in Seq(Frames) /\ StackOf(stack', ret' # NULL, Open) /\ ret' \in Rets
      /\ \A s : SearchedIn(stack', s) <=> SearchedIn(stack, s)
  <2> DEFINE R == <<>>
  <2>1. R \in Seq(Frames) /\ Waiting(R, Open) /\ Begin(id, R) /\ stack = R
    BY <1>1, <1>2, EmptyStack
  <2> HIDE DEF R
  <2> QED BY <1>1, <2>1, Begun
<1> QED BY <1>1, <1>2, <1>3, SameStorages, SearchStep

\* The innermost frame becomes f, which uses a storage that is open.
LEMMA TopBecomes ==
    ASSUME NEW open, NEW R \in Seq(Frames), Waiting(R, open),
           NEW f \in Frames, stack' = <<f>> \o R,
           f.wait <=> ret' # NULL,
           f.wait => f.src # NULL /\ f.res = NULL,
           f.res # NULL => f.src # NULL,
           f.stage \in {"given", "opened"} => f.src # NULL,
           f.src \in open \cup {NULL},
           Opener(f) => \A k \in 1..Len(R) : R[k].src # f.src
    PROVE  /\ stack' \in Seq(Frames) /\ StackOf(stack', ret' # NULL, open)
           /\ \A s : SearchedIn(stack', s) <=>
                 (Opener(f) /\ f.src = s) \/ SearchedIn(R, s)
<1> DEFINE w == ret' # NULL
<1>1. w \in BOOLEAN /\ FrameExact(f, w)
  BY DEF FrameExact
<1> HIDE DEF w
<1>2. /\ stack' \in Seq(Frames) /\ StackOf(stack', w, open)
      /\ \A s : SearchedIn(stack', s) <=>
            (Opener(f) /\ f.src = s) \/ SearchedIn(R, s)
  BY <1>1, ConsStack
<1> QED BY <1>2 DEF w

\* A search in one storage, s, starts.
LEMMA OneStorage ==
    ASSUME NEW id \in Ids, NEW stage \in {"given", "opened"}, NEW s \in Slots,
           NEW open, s \in open, stack' = <<Frame(id, stage, s)>>, ret' = NULL
    PROVE  /\ stack' \in Seq(Frames) /\ StackOf(stack', ret' # NULL, open)
           /\ \A t : SearchedIn(stack', t) <=> stage = "opened" /\ t = s
<1> DEFINE f == Frame(id, stage, s)
           R == <<>>
<1>1. f \in Frames
  BY DEF Frame, Frames
<1>2. f.src = s /\ f.res = NULL /\ f.wait = FALSE /\ f.stage = stage /\ s # NULL
  BY DEF Frame
<1>3. Opener(f) <=> stage = "opened"
  BY <1>2 DEF Opener
<1>4. R \in Seq(Frames) /\ Waiting(R, open) /\ (\A k \in 1..Len(R) : FALSE)
      /\ \A t : ~SearchedIn(R, t)
  BY EmptyStack
<1>5. stack' = <<f>> \o R
  BY <1>1
<1> HIDE DEF f, R
<1>6. /\ stack' \in Seq(Frames) /\ StackOf(stack', ret' # NULL, open)
      /\ \A t : SearchedIn(stack', t) <=>
            (Opener(f) /\ f.src = t) \/ SearchedIn(R, t)
  BY <1>1, <1>2, <1>4, <1>5, TopBecomes
<1> QED BY <1>2, <1>3, <1>4, <1>6

LEMMA LoadStep ==
    ASSUME IInv, NEW s \in Slots, NEW id \in AskIds, Load(s, id) PROVE IInv' /\ DataKept
<1>1. Idle /\ s \in Open /\ stack' = <<Frame(id, "given", s)>> /\ id \in Ids
      /\ UNCHANGED <<file, storage, hotlist, mem, ret>>
  BY DEF Load
<1>2. stack = <<>> /\ ret = NULL /\ mem \in SUBSET Ids /\ ret \in Rets
  BY <1>1, IdleParts
<1>3. /\ stack' \in Seq(Frames) /\ StackOf(stack', ret' # NULL, Open)
      /\ \A t : ~SearchedIn(stack', t)
  BY <1>1, <1>2, OneStorage
<1>4. \A t : ~SearchedIn(stack, t)
  BY <1>2, EmptyStack
<1> QED BY <1>1, <1>2, <1>3, <1>4, SameStorages, SearchStep

LEMMA LoadLocStep ==
    ASSUME IInv, NEW s \in Slots, NEW l \in Locs, NEW id \in AskIds,
           LoadLoc(s, l, id)
    PROVE  IInv' /\ DataKept
<1> DEFINE own == FALSE
           m == "r"
           x == NewStorage(l, m, own)
<1>1. Idle /\ OpenAt(s, l, m, own) /\ stack' = <<Frame(id, "opened", s)>>
      /\ UNCHANGED <<file, mem, ret>> /\ id \in Ids
  BY DEF LoadLoc
<1>2. /\ StorageInv /\ mem \in SUBSET Ids /\ ret = NULL /\ ret \in Rets
      /\ \A t \in Open : t \in Slots /\ CountOf(storage[t], 0)
  BY <1>1, IdleParts
<1>3. own \in BOOLEAN /\ m \in {"r", "w", "a"} /\ own = FALSE
  OBVIOUS
<1> HIDE DEF own, m
<1>4. /\ StorageInv' /\ s \notin Open /\ Open' = Open \cup {s}
      /\ storage'[s] = x /\ Others(s)
  <2>1. UNCHANGED file
    BY <1>1
  <2> QED BY <1>1, <1>2, <1>3, <2>1, OpenAtInv
<1>5. /\ stack' \in Seq(Frames) /\ StackOf(stack', ret' # NULL, Open')
      /\ \A t : SearchedIn(stack', t) <=> t = s
  BY <1>1, <1>2, <1>4, OneStorage
<1>6. CountOf(x, 1)
  BY <1>3 DEF CountOf, One, NewStorage
<1> HIDE DEF x
<1>7. ASSUME NEW t \in Open' PROVE CountOf(storage'[t], Searches(stack', t))
  <2>1. CASE t = s
    <3>1. Searches(stack', t) = 1
      BY <1>5, <2>1, SearchesValue
    <3> QED BY <1>4, <1>6, <2>1, <3>1
  <2>2. CASE t # s
    <3>1. Searches(stack', t) = 0
      BY <1>5, <2>2, SearchesValue
    <3>2. CountOf(storage[t], 0) /\ storage'[t] = storage[t]
      BY <1>2, <1>4, <2>2 DEF Others
    <3> QED BY <3>1, <3>2
  <2> QED BY <2>1, <2>2
<1> QED BY <1>1, <1>2, <1>4, <1>5, <1>7, NextParts, OpenIsKept

\* What the invariant says of the innermost frame and those that wait for it.
LEMMA TopParts ==
    ASSUME IInv, stack # <<>>
    PROVE  /\ StorageInv /\ mem \in SUBSET Ids /\ ret \in Rets
           /\ Top \in Frames /\ Tail(stack) \in Seq(Frames)
           /\ Waiting(Tail(stack), Open)
           /\ Top.wait <=> ret # NULL
           /\ Top.wait => Top.src # NULL /\ Top.res = NULL
           /\ Top.res # NULL => Top.src # NULL
           /\ Top.stage \in {"given", "opened"} => Top.src # NULL
           /\ Top.src \in Open \cup {NULL}
           /\ Opener(Top) =>
                \A k \in 1..Len(Tail(stack)) : Tail(stack)[k].src # Top.src
           /\ \A s : SearchedIn(stack, s) <=>
                 \/ Opener(Top) /\ Top.src = s
                 \/ SearchedIn(Tail(stack), s)
<1> DEFINE w == ret # NULL
<1>1. StorageInv /\ mem \in SUBSET Ids /\ ret \in Rets
      /\ stack \in Seq(Frames) /\ StackOf(stack, w, Open)
  BY Parts
<1>2. w \in BOOLEAN /\ (w <=> ret # NULL)
  OBVIOUS
<1> HIDE DEF w
<1>3. /\ Head(stack) \in Frames /\ Tail(stack) \in Seq(Frames)
      /\ Waiting(Tail(stack), Open)
      /\ FrameExact(Head(stack), w) /\ Head(stack).src \in Open \cup {NULL}
      /\ Opener(Head(stack)) =>
           \A k \in 1..Len(Tail(stack)) : Tail(stack)[k].src # Head(stack).src
      /\ \A s : SearchedIn(stack, s) <=>
           \/ Opener(Head(stack)) /\ Head(stack).src = s
           \/ SearchedIn(Tail(stack), s)
  BY <1>1, <1>2, TailStack
<1>4. /\ Top.wait <=> ret # NULL
      /\ Top.wait => Top.src # NULL /\ Top.res = NULL
      /\ Top.res # NULL => Top.src # NULL
      /\ Top.stage \in {"given", "opened"} => Top.src # NULL
  BY <1>2, <1>3 DEF FrameExact, Top
<1> QED BY <1>1, <1>3, <1>4 DEF Top

\* The frames that wait go on when the innermost one returns.
LEMMA TopReturns ==
    ASSUME NEW open, NEW R \in Seq(Frames), Waiting(R, open), stack' = R, ret' # NULL
    PROVE  stack' \in Seq(Frames) /\ StackOf(stack', ret' # NULL, open)
  BY DEF Waiting, StackOf, FrameExact

\* The innermost frame becomes f and uses the storage it used, or one that it
\* does not have to close.
LEMMA FrameStep ==
    ASSUME IInv, stack # <<>>, NEW f \in Frames, stack' = Under(f), ret' \in Rets,
           f.wait <=> ret' # NULL,
           f.wait => f.src # NULL /\ f.res = NULL,
           f.res # NULL => f.src # NULL,
           f.stage \in {"given", "opened"} => f.src # NULL,
           f.src \in Open \cup {NULL},
           Opener(f) <=> Opener(Top), Opener(f) => f.src = Top.src,
           StorageInv', Open' = Open, mem' \in SUBSET Ids,
           \A s \in Open : /\ storage'[s].refcount = storage[s].refcount
                           /\ storage'[s].owned = storage[s].owned
                           /\ storage'[s].iters = storage[s].iters
    PROVE  IInv' /\ DataKept
<1> DEFINE R == Tail(stack)
<1>1. /\ R \in Seq(Frames) /\ Waiting(R, Open)
      /\ Opener(Top) => \A k \in 1..Len(R) : R[k].src # Top.src
      /\ \A s : SearchedIn(stack, s) <=>
            (Opener(Top) /\ Top.src = s) \/ SearchedIn(R, s)
  BY TopParts
<1>2. stack' = <<f>> \o R
  BY DEF Under
<1> HIDE DEF R
<1>3. /\ stack' \in Seq(Frames) /\ StackOf(stack', ret' # NULL, Open)
      /\ \A s : SearchedIn(stack', s) <=>
            (Opener(f) /\ f.src = s) \/ SearchedIn(R, s)
  BY <1>1, <1>2, TopBecomes
<1>4. \A s \in Open : SearchedIn(stack', s) <=> SearchedIn(stack, s)
  BY <1>1, <1>3
<1> QED BY <1>3, <1>4, SearchStep

\* The next storage of the hot list, or the end of it
LEMMA NextHotStep == ASSUME IInv, NextHot PROVE IInv' /\ DataKept
<1> DEFINE p == Top.pos + 1
           h == hot[p]
           a == Top.asked \cup {h}
           f == [Top EXCEPT !.pos = p, !.src = h, !.asked = a]
           g == [Top EXCEPT !.stage = "path"]
<1>1. /\ stack # <<>> /\ ret = NULL /\ Top.stage = "hot" /\ Top.src = NULL
      /\ UNCHANGED <<file, storage, hotlist, mem, ret>>
  BY DEF NextHot, Running
<1>2. stack' = Under(IF Top.pos < Len(hot) THEN f ELSE g)
  BY DEF NextHot
<1>3. /\ StorageInv /\ mem \in SUBSET Ids /\ ret \in Rets /\ Top \in Frames
      /\ ~Top.wait /\ Top.res = NULL
  BY <1>1, TopParts
<1>4. Top.pos \in Nat /\ Top.asked \in SUBSET Slots /\ ~Opener(Top)
  BY <1>1, <1>3 DEF Frames, Opener
<1>5. /\ StorageInv' /\ Open' = Open
      /\ \A s \in Open : /\ storage'[s].refcount = storage[s].refcount
                         /\ storage'[s].owned = storage[s].owned
                         /\ storage'[s].iters = storage[s].iters
  BY <1>1, SameStorages
<1>6. CASE Top.pos < Len(hot)
  <2>1. p \in 1..Len(hot) /\ p \in Nat
    BY <1>3, <1>4, <1>6 DEF StorageInv
  <2>2. h \in Open /\ h \in Slots /\ h # NULL
    <3>1. hot \in Seq(Slots) /\ HotExact
      BY <1>3 DEF StorageInv
    <3>2. h \in Elems(hot)
      BY <2>1 DEF Elems
    <3> QED BY <3>1, <3>2, HotElems DEF Open
  <2>3. a \in SUBSET Slots
    BY <1>4, <2>2
  <2> HIDE DEF p, h, a
  <2>4. f \in Frames /\ f.wait = Top.wait /\ f.src = h /\ f.res = Top.res
        /\ f.stage = "hot"
    BY <1>1, <1>3, <2>1, <2>2, <2>3 DEF Frames
  <2>5. ~Opener(f)
    BY <2>4 DEF Opener
  <2>6. stack' = Under(f)
    BY <1>2, <1>6
  <2> HIDE DEF f
  <2> QED BY <1>1, <1>3, <1>4, <1>5, <2>2, <2>4, <2>5, <2>6, FrameStep
<1>7. CASE ~(Top.pos < Len(hot))
  <2>1. g \in Frames /\ g.wait = Top.wait /\ g.src = NULL /\ g.res = Top.res
        /\ g.stage = "path"
    BY <1>1, <1>3 DEF Frames
  <2>2. ~Opener(g)
    BY <2>1 DEF Opener
  <2>3. stack' = Under(g)
    BY <1>2, <1>7
  <2> HIDE DEF g
  <2> QED BY <1>1, <1>3, <1>4, <1>5, <2>1, <2>2, <2>3, FrameStep
<1> QED BY <1>6, <1>7

LEMMA SkipPathStep == ASSUME IInv, SkipPath PROVE IInv' /\ DataKept
<1> DEFINE p == Top.path + 1
           f == [Top EXCEPT !.path = p]
<1>1. /\ stack # <<>> /\ ret = NULL /\ Top.stage = "path" /\ Top.src = NULL
      /\ Top.path < Len(Path) /\ stack' = Under(f)
      /\ UNCHANGED <<file, storage, hotlist, mem, ret>>
  BY DEF SkipPath, OnPath, Running
<1>2. /\ mem \in SUBSET Ids /\ ret \in Rets /\ Top \in Frames /\ ~Top.wait /\ Top.res = NULL
  BY <1>1, TopParts
<1>3. p \in 0..Len(Path)
  BY <1>1, <1>2 DEF Frames
<1>4. /\ StorageInv' /\ Open' = Open
      /\ \A s \in Open : /\ storage'[s].refcount = storage[s].refcount
                         /\ storage'[s].owned = storage[s].owned
                         /\ storage'[s].iters = storage[s].iters
  BY <1>1, SameStorages
<1> HIDE DEF p
<1>5. f \in Frames /\ f.wait = Top.wait /\ f.src = NULL /\ f.res = Top.res
      /\ f.stage = "path"
  BY <1>1, <1>2, <1>3 DEF Frames
<1>6. ~Opener(f) /\ ~Opener(Top)
  BY <1>1, <1>5 DEF Opener
<1> HIDE DEF f
<1> QED BY <1>1, <1>2, <1>4, <1>5, <1>6, FrameStep

\* A storage on the path is opened for the search.
LEMMA NextPathStep == ASSUME IInv, NEW s \in Slots, NextPath(s) PROVE IInv' /\ DataKept
<1> DEFINE p == Top.path + 1
           l == Path[p]
           m == "r"
           own == FALSE
           x == NewStorage(l, m, own)
           f == [Top EXCEPT !.path = p, !.src = s]
           R == Tail(stack)
<1>1. /\ stack # <<>> /\ ret = NULL /\ Top.stage = "path" /\ Top.src = NULL
      /\ Top.path < Len(Path) /\ OpenAt(s, l, m, own) /\ stack' = Under(f)
      /\ UNCHANGED <<file, mem, ret>>
  BY DEF NextPath, OnPath, Running
<1>2. /\ StorageInv /\ mem \in SUBSET Ids /\ ret \in Rets /\ Top \in Frames
      /\ ~Top.wait /\ Top.res = NULL
      /\ R \in Seq(Frames) /\ Waiting(R, Open)
      /\ \A t : SearchedIn(stack, t) <=>
            (Opener(Top) /\ Top.src = t) \/ SearchedIn(R, t)
  BY <1>1, TopParts
<1>3. Top.path \in Nat /\ p \in 0..Len(Path) /\ p \in 1..Len(Path) /\ l \in Locs
  <2>1. Top.path \in 0..Len(Path) /\ Len(Path) \in Nat
    BY <1>2 DEF Frames
  <2>2. p \in 1..Len(Path) /\ p \in 0..Len(Path) /\ Top.path \in Nat
    BY <1>1, <2>1
  <2> QED BY <2>2
<1>4. m \in {"r", "w", "a"} /\ own \in BOOLEAN /\ own = FALSE
  OBVIOUS
<1> HIDE DEF p, l, m, own, R
<1>5. /\ StorageInv' /\ s \notin Open /\ Open' = Open \cup {s}
      /\ storage'[s] = x /\ Others(s)
  <2>1. UNCHANGED file
    BY <1>1
  <2> QED BY <1>1, <1>2, <1>3, <1>4, <2>1, OpenAtInv
<1>6. f \in Frames /\ f.wait = Top.wait /\ f.src = s /\ f.res = Top.res
      /\ f.stage = "path"
  BY <1>1, <1>2, <1>3 DEF Frames
<1>7. Opener(f) /\ s # NULL
  BY <1>6 DEF Opener
<1>8. \A k \in 1..Len(R) : R[k].src \in Open \cup {NULL}
  BY <1>2 DEF Waiting, StackOf
<1>9. Waiting(R, Open')
  BY <1>2, <1>5, OpenStack
<1>10. stack' = <<f>> \o R
  BY <1>1 DEF Under, R
<1> HIDE DEF f
<1>11. \A k \in 1..Len(R) : R[k].src # f.src
  BY <1>5, <1>6, <1>7, <1>8
<1>12. /\ stack' \in Seq(Frames) /\ StackOf(stack', ret' # NULL, Open')
       /\ \A t : SearchedIn(stack', t) <=>
             (Opener(f) /\ f.src = t) \/ SearchedIn(R, t)
  <2>1. /\ f.src \in Open' \cup {NULL} /\ f.src # NULL /\ f.res = NULL
        /\ ret' = NULL /\ ~f.wait /\ (f.wait <=> ret' # NULL)
    BY <1>1, <1>2, <1>5, <1>6, <1>7
  <2>2. R \in Seq(Frames) /\ f \in Frames
    BY <1>2, <1>6
  <2> QED BY <1>9, <1>10, <1>11, <2>1, <2>2, TopBecomes
<1>13. ~Opener(Top) /\ ~SearchedIn(R, s)
  BY <1>1, <1>6, <1>11 DEF Opener, SearchedIn
<1>14. CountOf(x, 1)
  BY <1>4 DEF CountOf, One, NewStorage
<1> HIDE DEF x
<1>15. ASSUME NEW t \in Open' PROVE CountOf(storage'[t], Searches(stack', t))
  <2>1. CASE t = s
    <3>1. Searches(stack', t) = 1
      BY <1>6, <1>7, <1>12, <2>1, SearchesValue
    <3> QED BY <1>5, <1>14, <2>1, <3>1
  <2>2. CASE t # s
    <3>1. Searches(stack', t) = Searches(stack, t)
      BY <1>2, <1>6, <1>12, <1>13, <2>2, SearchesValue
    <3>2. t \in Open /\ storage'[t] = storage[t]
      BY <1>5, <2>2 DEF Others, Open
    <3>3. CountOf(storage[t], Searches(stack, t))
      BY <3>2, Parts
    <3> QED BY <3>1, <3>2, <3>3
  <2> QED BY <2>1, <2>2
<1> QED BY <1>1, <1>2, <1>5, <1>12, <1>15, NextParts, OpenIsKept

\* The innermost frame returns v to those that wait for it; it has closed what
\* it opened.
LEMMA ReturnStep ==
    ASSUME IInv, stack # <<>>, NEW v \in Results, Return(v), NEW open,
           Waiting(Tail(stack), open)
    PROVE  /\ stack' \in Seq(Frames) /\ StackOf(stack', ret' # NULL, open)
           /\ ret' \in Rets /\ stack' = Tail(stack)
<1>1. Top \in Frames /\ Tail(stack) \in Seq(Frames)
  BY TopParts
<1>2. stack' = Tail(stack) /\ ret' \in [id : Ids, val : Results]
  BY <1>1 DEF Return, Frames
<1>3. ret' # NULL
  BY <1>2 DEF Results
<1> QED BY <1>1, <1>2, <1>3, TopReturns DEF Rets

LEMMA NotFoundStep == ASSUME IInv, NotFound PROVE IInv' /\ DataKept
<1>1. /\ stack # <<>> /\ Top.src = NULL /\ Return("none")
      /\ UNCHANGED <<file, storage, hotlist, mem>>
  BY DEF NotFound, OnPath, Running
<1>2. /\ mem \in SUBSET Ids /\ Waiting(Tail(stack), Open) /\ ~Opener(Top)
      /\ \A s : SearchedIn(stack, s) <=>
            (Opener(Top) /\ Top.src = s) \/ SearchedIn(Tail(stack), s)
  BY <1>1, TopParts DEF Opener
<1>3. /\ stack' \in Seq(Frames) /\ StackOf(stack', ret' # NULL, Open)
      /\ ret' \in Rets /\ stack' = Tail(stack)
  BY <1>1, <1>2, ReturnStep DEF Results
<1>4. \A s : SearchedIn(stack', s) <=> SearchedIn(stack, s)
  BY <1>2, <1>3
<1> QED BY <1>1, <1>2, <1>3, <1>4, SameStorages, SearchStep

\* The storage is asked by the innermost frame only, and it is open.
LEMMA AskParts ==
    ASSUME IInv, stack # <<>>, Top.src # NULL
    PROVE  Top.src \in Open /\ Top.src \in Slots /\ storage[Top.src] \in Storages
  BY TopParts DEF Open, StorageInv

\* An entry of a cache changes, and nothing else of the storage.
LEMMA CacheStep ==
    ASSUME IInv, NEW s \in Open, NEW id \in Ids, NEW v \in CacheValues,
           storage' = [storage EXCEPT ![s].cache[id] = v], UNCHANGED <<file, hotlist>>
    PROVE  /\ StorageInv' /\ Open' = Open
           /\ \A t \in Open : /\ storage'[t].refcount = storage[t].refcount
                              /\ storage'[t].owned = storage[t].owned
                              /\ storage'[t].iters = storage[t].iters
<1> DEFINE c == [storage[s].cache EXCEPT ![id] = v]
           y == [storage[s] EXCEPT !.cache = c]
<1>1. /\ StorageInv /\ file \in [Locs -> {NULL} \cup SUBSET Ids]
      /\ storage \in [Slots -> {NULL} \cup Storages]
      /\ \A t \in Open : CopyOf(storage[t])
  BY Parts DEF StorageInv, CopyExact
<1>2. s \in Slots /\ storage[s] \in Storages /\ storage[s] # NULL
      /\ \A t \in Open : storage[t] \in Storages
  BY <1>1 DEF Open
<1>3. storage' = [storage EXCEPT ![s] = y]
  BY <1>1, <1>2 DEF Storages
<1>4. c \in [Ids -> CacheValues]
  BY <1>2 DEF Storages
<1> HIDE DEF c
<1>5. y \in Storages
  BY <1>2, <1>4 DEF Storages
<1>6. /\ y.mode = storage[s].mode /\ y.saved = storage[s].saved
      /\ y.changed = storage[s].changed /\ y.jstore = storage[s].jstore
      /\ y.refcount = storage[s].refcount /\ y.owned = storage[s].owned
      /\ y.iters = storage[s].iters
  BY <1>2 DEF Storages
<1> HIDE DEF y
<1>7. CopyOf(y)
  BY <1>1, <1>6 DEF CopyOf, Copy
<1>8. /\ storage' \in [Slots -> {NULL} \cup Storages] /\ storage'[s] = y
      /\ \A t \in Slots : t # s => storage'[t] = storage[t]
  BY <1>1, <1>2, <1>3, <1>5
<1>9. \A t \in Slots : storage[t] = NULL => storage'[t] = NULL
  BY <1>2, <1>8
<1>10. \A t \in Open : /\ storage'[t] \in Storages
                       /\ storage'[t].mode = storage[t].mode
                       /\ CopyOf(storage'[t])
  <2> SUFFICES ASSUME NEW t \in Open
               PROVE  /\ storage'[t] \in Storages
                      /\ storage'[t].mode = storage[t].mode
                      /\ CopyOf(storage'[t])
    OBVIOUS
  <2>1. t \in Slots
    BY DEF Open
  <2>2. CASE t = s
    BY <1>5, <1>6, <1>7, <1>8, <2>2
  <2>3. CASE t # s
    BY <1>1, <1>2, <1>8, <2>1, <2>3
  <2> QED BY <2>2, <2>3
<1>11. UNCHANGED hotlist /\ file' \in [Locs -> {NULL} \cup SUBSET Ids]
  BY <1>1
<1>12. StorageInv' /\ Open' = Open
  BY <1>1, <1>8, <1>9, <1>10, <1>11, KeptInv
<1>13. \A t \in Open : /\ storage'[t].refcount = storage[t].refcount
                       /\ storage'[t].owned = storage[t].owned
                       /\ storage'[t].iters = storage[t].iters
  BY <1>6, <1>8 DEF Open
<1> QED BY <1>12, <1>13

\* The frame has the answer of its storage, from the cache or from the file.
HasAnswer(x, v) == [x EXCEPT !.wait = FALSE, !.res = v]

LEMMA ResultFrame ==
    ASSUME NEW x \in Frames, NEW v \in Results
    PROVE  /\ HasAnswer(x, v) \in Frames
           /\ ~HasAnswer(x, v).wait /\ HasAnswer(x, v).res = v
           /\ HasAnswer(x, v).res # NULL
           /\ HasAnswer(x, v).src = x.src /\ HasAnswer(x, v).id = x.id
           /\ HasAnswer(x, v).stage = x.stage
           /\ Opener(HasAnswer(x, v)) <=> Opener(x)
           /\ ~x.wait => [x EXCEPT !.res = v] = HasAnswer(x, v)
<1> DEFINE f == HasAnswer(x, v)
<1>1. f \in Frames /\ ~f.wait /\ f.res = v /\ f.src = x.src
      /\ f.stage = x.stage /\ f.id = x.id
  BY DEF Frames, HasAnswer
<1>2. v # NULL
  BY DEF Results, CacheValues
<1>3. Opener(f) <=> Opener(x)
  BY <1>1 DEF Opener
<1>4. ~x.wait => [x EXCEPT !.res = v] = f
  BY DEF Frames, HasAnswer
<1> QED BY <1>1, <1>2, <1>3, <1>4

LEMMA LoadCachedStep == ASSUME IInv, LoadCached PROVE IInv' /\ DataKept
<1> DEFINE v == Cached
           f == HasAnswer(Top, v)
<1>1. /\ stack # <<>> /\ ret = NULL /\ Top.src # NULL /\ ~Top.wait /\ v # "absent"
      /\ stack' = Under([Top EXCEPT !.res = v])
      /\ UNCHANGED <<file, storage, hotlist, mem, ret>>
  BY DEF LoadCached, Asking, Running
<1>2. /\ mem \in SUBSET Ids /\ ret \in Rets /\ Top \in Frames
      /\ Top.src \in Open \cup {NULL}
  BY <1>1, TopParts
<1>3. v \in Results
  <2>1. storage[Top.src] \in Storages /\ Top.id \in Ids
    BY <1>1, <1>2, AskParts DEF Frames
  <2> QED BY <1>1, <2>1 DEF Cached, Storages, CacheValues, Results
<1> HIDE DEF v
<1>4. /\ f \in Frames /\ ~f.wait /\ f.res # NULL /\ f.src = Top.src
      /\ Opener(f) <=> Opener(Top)
      /\ stack' = Under(f)
  BY <1>1, <1>2, <1>3, ResultFrame
<1>5. /\ StorageInv' /\ Open' = Open
      /\ \A s \in Open : /\ storage'[s].refcount = storage[s].refcount
                         /\ storage'[s].owned = storage[s].owned
                         /\ storage'[s].iters = storage[s].iters
  BY <1>1, SameStorages
<1> HIDE DEF f
<1> QED BY <1>1, <1>2, <1>4, <1>5, FrameStep

\* json_load() finds nothing.
LEMMA LoadMissingStep == ASSUME IInv, LoadMissing PROVE IInv' /\ DataKept
<1> DEFINE v == "none"
           f == HasAnswer(Top, v)
<1>1. /\ stack # <<>> /\ ret = NULL /\ Top.src # NULL /\ ~Top.wait
      /\ SetCache(v) /\ stack' = Under([Top EXCEPT !.res = v])
      /\ UNCHANGED <<file, hotlist, mem, ret>>
  BY DEF LoadMissing, Asking, Running
<1>2. /\ mem \in SUBSET Ids /\ ret \in Rets /\ Top \in Frames
      /\ Top.src \in Open \cup {NULL} /\ Top.id \in Ids
  BY <1>1, TopParts DEF Frames
<1>3. v \in Results /\ v \in CacheValues
  BY DEF Results, CacheValues
<1> HIDE DEF v
<1>4. /\ f \in Frames /\ ~f.wait /\ f.res # NULL /\ f.src = Top.src
      /\ Opener(f) <=> Opener(Top)
      /\ stack' = Under(f)
  BY <1>1, <1>2, <1>3, ResultFrame
<1>5. /\ StorageInv' /\ Open' = Open
      /\ \A s \in Open : /\ storage'[s].refcount = storage[s].refcount
                         /\ storage'[s].owned = storage[s].owned
                         /\ storage'[s].iters = storage[s].iters
  <2>1. /\ Top.src \in Open /\ UNCHANGED <<file, hotlist>>
        /\ storage' = [storage EXCEPT ![Top.src].cache[Top.id] = v]
    BY <1>1, AskParts DEF SetCache
  <2> QED BY <1>2, <1>3, <2>1, CacheStep
<1> HIDE DEF f
<1> QED BY <1>1, <1>2, <1>4, <1>5, FrameStep

\* The instance is there: the frame waits for its metadata.
LEMMA LoadStoredStep == ASSUME IInv, LoadStored PROVE IInv' /\ DataKept
<1> DEFINE v == "none"
           g == [Top EXCEPT !.wait = TRUE]
           R == Tail(stack)
           m == MetaOf[Top.id]
<1>1. /\ stack # <<>> /\ ret = NULL /\ Top.src # NULL /\ ~Top.wait /\ Top.res = NULL
      /\ SetCache(v) /\ UNCHANGED <<file, hotlist, mem>>
  BY DEF LoadStored, Asking, Running
<1>2. IF m = NULL
      THEN stack' = Under(g) /\ ret' = [id |-> Top.id, val |-> "inst"]
      ELSE Begin(m, Under(g))
  BY DEF LoadStored
<1>3. /\ mem \in SUBSET Ids /\ ret \in Rets /\ Top \in Frames
      /\ Top.src \in Open \cup {NULL} /\ Top.id \in Ids
      /\ R \in Seq(Frames) /\ Waiting(R, Open)
      /\ Opener(Top) => \A k \in 1..Len(R) : R[k].src # Top.src
      /\ \A s : SearchedIn(stack, s) <=>
            (Opener(Top) /\ Top.src = s) \/ SearchedIn(R, s)
  BY <1>1, TopParts DEF Frames
<1>4. v \in CacheValues
  BY DEF CacheValues
<1> HIDE DEF v
<1>5. /\ StorageInv' /\ Open' = Open
      /\ \A s \in Open : /\ storage'[s].refcount = storage[s].refcount
                         /\ storage'[s].owned = storage[s].owned
                         /\ storage'[s].iters = storage[s].iters
  <2>1. /\ Top.src \in Open /\ UNCHANGED <<file, hotlist>>
        /\ storage' = [storage EXCEPT ![Top.src].cache[Top.id] = v]
    BY <1>1, AskParts DEF SetCache
  <2> QED BY <1>3, <1>4, <2>1, CacheStep
<1>6. /\ g \in Frames /\ g.wait = TRUE /\ g.src = Top.src /\ g.res = NULL
  BY <1>1, <1>3 DEF Frames
<1>7. Opener(g) <=> Opener(Top)
  BY <1>3 DEF Opener, Frames
<1> HIDE DEF g, m, R
<1>8. CASE m = NULL
  <2>1. stack' = Under(g) /\ ret' = [id |-> Top.id, val |-> "inst"]
    BY <1>2, <1>8
  <2>2. ret' \in [id : Ids, val : Results]
    BY <1>3, <2>1 DEF Results
  <2>3. ret' # NULL /\ ret' \in Rets
    BY <2>2 DEF Results, Rets
  <2> QED BY <1>1, <1>3, <1>5, <1>6, <1>7, <2>1, <2>3, FrameStep
<1>9. CASE m # NULL
  <2> DEFINE w == TRUE
             U == <<g>> \o R
  <2>1. m \in Ids
    BY <1>3, <1>9 DEF m
  <2>2. Begin(m, U)
    BY <1>2, <1>9 DEF Under, R
  <2>3. w \in BOOLEAN /\ FrameExact(g, w)
    BY <1>1, <1>6 DEF FrameExact
  <2> HIDE DEF w
  <2>4. /\ U \in Seq(Frames) /\ StackOf(U, w, Open)
        /\ \A s : SearchedIn(U, s) <=> (Opener(g) /\ g.src = s) \/ SearchedIn(R, s)
    BY <1>3, <1>6, <1>7, <2>3, ConsStack
  <2>5. Waiting(U, Open)
    BY <2>4 DEF Waiting, StackOf, FrameExact, w
  <2> HIDE DEF U
  <2>6. /\ stack' \in Seq(Frames) /\ StackOf(stack', ret' # NULL, Open)
        /\ ret' \in Rets
        /\ \A s : SearchedIn(stack', s) <=> SearchedIn(U, s)
    BY <2>1, <2>2, <2>4, <2>5, Begun
  <2>7. \A s : SearchedIn(stack', s) <=> SearchedIn(stack, s)
    BY <1>3, <1>6, <1>7, <2>4, <2>6
  <2> QED BY <1>1, <1>3, <1>5, <2>6, <2>7, SearchStep
<1> QED BY <1>8, <1>9

\* The metadata is there or not, and the instance has been loaded or not.
LEMMA MetaReturnedStep == ASSUME IInv, MetaReturned PROVE IInv' /\ DataKept
<1> DEFINE ok == ret.val # "none" /\ Top.id \notin Broken
           v == IF ok THEN "inst" ELSE "none"
           f == HasAnswer(Top, v)
<1>1. /\ stack # <<>> /\ ret # NULL /\ ret' = NULL
      /\ stack' = Under(f) /\ SetCache(v)
      /\ mem' = mem \/ mem' = mem \cup {Top.id}
      /\ UNCHANGED <<file, hotlist>>
  BY DEF MetaReturned, HasAnswer
<1>2. /\ mem \in SUBSET Ids /\ Top \in Frames /\ Top.src # NULL
      /\ Top.src \in Open \cup {NULL} /\ Top.id \in Ids
  BY <1>1, TopParts DEF Frames
<1>3. v \in Results /\ v \in CacheValues
  BY DEF Results, CacheValues
<1> HIDE DEF v
<1>4. /\ f \in Frames /\ ~f.wait /\ f.res # NULL /\ f.src = Top.src
      /\ Opener(f) <=> Opener(Top)
  BY <1>2, <1>3, ResultFrame
<1>5. /\ StorageInv' /\ Open' = Open
      /\ \A s \in Open : /\ storage'[s].refcount = storage[s].refcount
                         /\ storage'[s].owned = storage[s].owned
                         /\ storage'[s].iters = storage[s].iters
  <2>1. /\ Top.src \in Open /\ UNCHANGED <<file, hotlist>>
        /\ storage' = [storage EXCEPT ![Top.src].cache[Top.id] = v]
    BY <1>1, <1>2, AskParts DEF SetCache
  <2> QED BY <1>2, <1>3, <2>1, CacheStep
<1>6. mem' \in SUBSET Ids /\ ret' \in Rets
  BY <1>1, <1>2 DEF Rets
<1> HIDE DEF f
<1> QED BY <1>1, <1>2, <1>4, <1>5, <1>6, FrameStep

\* The innermost frame goes on without a storage, or it returns.
LEMMA AnsweredStack ==
    ASSUME IInv, Answered, NEW open, Waiting(Tail(stack), open)
    PROVE  /\ stack' \in Seq(Frames) /\ StackOf(stack', ret' # NULL, open)
           /\ ret' \in Rets
           /\ \A s : SearchedIn(stack', s) <=> SearchedIn(Tail(stack), s)
<1> DEFINE g == [Top EXCEPT !.src = NULL, !.res = NULL]
           R == Tail(stack)
<1>1. /\ stack # <<>> /\ ret = NULL /\ Top.res # NULL
      /\ IF Top.res = "none" /\ Top.stage \in {"hot", "path"}
         THEN stack' = Under(g) /\ UNCHANGED ret
         ELSE Return(Top.res)
  BY DEF Answered, Running
<1>2. /\ Top \in Frames /\ ~Top.wait /\ R \in Seq(Frames) /\ Top.res \in Results
  BY <1>1, TopParts DEF Frames
<1>3. CASE Top.res = "none" /\ Top.stage \in {"hot", "path"}
  <2>1. /\ g \in Frames /\ g.src = NULL /\ g.res = NULL /\ ~g.wait
        /\ g.stage \notin {"given", "opened"}
    BY <1>2, <1>3 DEF Frames
  <2>2. ~Opener(g)
    BY <2>1 DEF Opener
  <2>3. stack' = <<g>> \o R /\ ret' = NULL
    BY <1>1, <1>3 DEF Under
  <2> HIDE DEF g, R
  <2>4. /\ stack' \in Seq(Frames) /\ StackOf(stack', ret' # NULL, open)
        /\ \A s : SearchedIn(stack', s) <=>
              (Opener(g) /\ g.src = s) \/ SearchedIn(R, s)
    <3>1. Waiting(R, open) /\ g.src \in open \cup {NULL} /\ (g.wait <=> ret' # NULL)
      BY <2>1, <2>3 DEF R
    <3> QED BY <1>2, <2>1, <2>2, <2>3, <3>1, TopBecomes
  <2> QED BY <2>2, <2>3, <2>4 DEF Rets, R
<1>4. CASE ~(Top.res = "none" /\ Top.stage \in {"hot", "path"})
  BY <1>1, <1>2, <1>4, ReturnStep
<1> QED BY <1>3, <1>4

\* The search has its answer from a storage that it did not open.
LEMMA AnsweredKeeps ==
    ASSUME IInv, Answered, Top.stage \notin {"path", "opened"} PROVE IInv' /\ DataKept
<1>1. stack # <<>> /\ UNCHANGED <<file, storage, hotlist, mem>>
  BY DEF Answered, Running
<1>2. /\ mem \in SUBSET Ids /\ Waiting(Tail(stack), Open) /\ ~Opener(Top)
      /\ \A s : SearchedIn(stack, s) <=>
            (Opener(Top) /\ Top.src = s) \/ SearchedIn(Tail(stack), s)
  BY <1>1, TopParts DEF Opener
<1>3. /\ stack' \in Seq(Frames) /\ StackOf(stack', ret' # NULL, Open)
      /\ ret' \in Rets
      /\ \A s : SearchedIn(stack', s) <=> SearchedIn(Tail(stack), s)
  BY <1>2, AnsweredStack
<1>4. \A s : SearchedIn(stack', s) <=> SearchedIn(stack, s)
  BY <1>2, <1>3
<1> QED BY <1>1, <1>2, <1>3, <1>4, SameStorages, SearchStep

\* The search closes what it opened; nobody that waits for it uses that.
LEMMA AnsweredCloses ==
    ASSUME IInv, Answered, Top.stage \in {"path", "opened"} PROVE IInv' /\ DataKept
<1> DEFINE s == Top.src
           x == storage[s]
           R == Tail(stack)
<1>1. stack # <<>> /\ Top.res # NULL /\ CloseAs(s, x) /\ UNCHANGED mem
  BY DEF Answered, Running
<1>2. /\ StorageInv /\ mem \in SUBSET Ids /\ R \in Seq(Frames) /\ Waiting(R, Open)
      /\ s # NULL /\ Opener(Top) /\ \A k \in 1..Len(R) : R[k].src # s
      /\ \A t : SearchedIn(stack, t) <=>
            (Opener(Top) /\ Top.src = t) \/ SearchedIn(R, t)
  BY <1>1, TopParts DEF Opener
<1>3. s \in Open /\ x \in Storages /\ SameCopy(x, x)
  BY <1>1, <1>2, AskParts DEF SameCopy
<1>4. CountOf(x, 1)
  <2>1. Searches(stack, s) = 1
    BY <1>2, SearchesValue
  <2>2. CountOf(x, Searches(stack, s))
    BY <1>3, Parts
  <2> QED BY <2>1, <2>2
<1> HIDE DEF s, x, R
<1>5. SameCopy(x, storage[s]) /\ x.refcount > 0
  BY <1>3, <1>4 DEF CountOf, x
<1>6. /\ StorageInv' /\ Others(s)
      /\ x.refcount > 1 =>
           Open' = Open /\ storage'[s] = [x EXCEPT !.refcount = @ - 1]
      /\ ~(x.refcount > 1) => Open' = Open \ {s}
  BY <1>1, <1>2, <1>3, <1>5, CloseAsInv
<1>7. Waiting(R, Open')
  <2>1. \A k \in 1..Len(R) : R[k].src \in Open => R[k].src \in Open'
    BY <1>2, <1>6
  <2> QED BY <1>2, <2>1, OpenStack
<1>8. /\ stack' \in Seq(Frames) /\ StackOf(stack', ret' # NULL, Open')
      /\ ret' \in Rets
      /\ \A t : SearchedIn(stack', t) <=> SearchedIn(R, t)
  BY <1>7, AnsweredStack DEF R
<1>9. ~SearchedIn(R, s)
  BY <1>2 DEF SearchedIn
<1>10. x.refcount > 1 => CountOf([x EXCEPT !.refcount = @ - 1], 0)
  <2> DEFINE y == [x EXCEPT !.refcount = @ - 1]
  <2>1. /\ x.refcount \in Nat /\ x.iters \in Nat
        /\ y.refcount = x.refcount - 1 /\ y.owned = x.owned /\ y.iters = x.iters
    BY <1>3 DEF Storages
  <2> HIDE DEF y
  <2>2. x.refcount > 1 => CountOf(y, 0)
    BY <1>4, <2>1 DEF CountOf, One
  <2> QED BY <2>2 DEF y
<1>11. ASSUME NEW t \in Open' PROVE CountOf(storage'[t], Searches(stack', t))
  <2>1. t \in Open
    BY <1>6, <1>3
  <2>2. CASE t = s
    <3>1. Searches(stack', t) = 0
      BY <1>8, <1>9, <2>2, SearchesValue
    <3>2. x.refcount > 1 /\ storage'[s] = [x EXCEPT !.refcount = @ - 1]
      BY <1>6, <1>11, <2>2
    <3> QED BY <1>10, <2>2, <3>1, <3>2
  <2>3. CASE t # s
    <3>1. Searches(stack', t) = Searches(stack, t)
      <4>1. SearchedIn(stack, t) <=> SearchedIn(R, t)
        BY <1>2, <2>3 DEF s
      <4> QED BY <1>8, <4>1, SearchesValue
    <3>2. CountOf(storage[t], Searches(stack, t))
      BY <2>1, Parts
    <3>3. storage'[t] = storage[t]
      BY <1>6, <2>1, <2>3 DEF Others, Open
    <3> QED BY <3>1, <3>2, <3>3
  <2> QED BY <2>2, <2>3
<1>12. DataKept
  BY <1>1, <1>2, <1>3, <1>5, ClosedIsKept
<1> QED BY <1>1, <1>2, <1>6, <1>8, <1>11, <1>12, NextParts

LEMMA DoneStep == ASSUME IInv, Done PROVE IInv' /\ DataKept
<1>1. stack = <<>> /\ stack' = stack /\ ret' = NULL
      /\ UNCHANGED <<file, storage, hotlist, mem>>
  BY DEF Done
<1>2. mem' \in SUBSET Ids /\ ret' \in Rets
  BY <1>1, Parts DEF Rets
<1>3. stack' \in Seq(Frames) /\ StackOf(stack', ret' # NULL, Open)
  BY <1>1, EmptyStack
<1> QED BY <1>1, <1>2, <1>3, SameStorages, SearchStep

----------------------------------------------------------------------------
(* The invariant.                                                           *)

LEMMA StutterInv == ASSUME IInv, UNCHANGED vars PROVE IInv' /\ DataKept
<1>1. UNCHANGED <<file, storage, hotlist, mem, stack, ret>>
  BY DEF vars
<1>2. /\ mem' \in SUBSET Ids /\ ret' \in Rets /\ stack' \in Seq(Frames)
      /\ StackOf(stack', ret' # NULL, Open)
  <2>1. mem \in SUBSET Ids /\ ret \in Rets /\ stack \in Seq(Frames)
        /\ StackOf(stack, ret # NULL, Open)
    BY Parts
  <2>2. stack' = stack /\ ret' = ret /\ mem' = mem
    BY <1>1
  <2> QED BY <2>1, <2>2
<1>3. \A s \in Open : SearchedIn(stack', s) <=> SearchedIn(stack, s)
  BY <1>1
<1> QED BY <1>1, <1>2, <1>3, SameStorages, SearchStep

LEMMA ApiInv == ASSUME IInv, Api PROVE IInv' /\ DataKept
<1>1. CASE \E s \in Slots, lm \in Opens : OpenStorage(s, lm[1], lm[2])
  BY <1>1, OpenStep
<1>2. CASE \E s \in Slots : CloseStorage(s) \/ IterCreate(s) \/ IterFree(s)
  BY <1>2, CloseStep, IterCreateStep, IterFreeStep
<1>3. CASE \E id \in NewIds : CreateInstance(id)
  BY <1>3, InstanceStep
<1>4. CASE \E id \in Ids : FreeInstance(id)
  BY <1>4, InstanceStep
<1>5. CASE \E s \in Slots, id \in SaveIds : Save(s, id)
  BY <1>5, SaveStep
<1>6. CASE \E id \in AskIds : Get(id)
  BY <1>6, GetStep
<1>7. CASE \E s \in Slots, id \in AskIds : Load(s, id)
  BY <1>7, LoadStep
<1>8. CASE \E s \in Slots, id \in AskIds, l \in Locs :
              <<l, "r">> \in Opens /\ LoadLoc(s, l, id)
  BY <1>8, LoadLocStep
<1> QED BY <1>1, <1>2, <1>3, <1>4, <1>5, <1>6, <1>7, <1>8 DEF Api

LEMMA InternalInv == ASSUME IInv, Internal PROVE IInv' /\ DataKept
<1>1. CASE Answered
  BY <1>1, AnsweredKeeps, AnsweredCloses
<1> QED BY <1>1, NextHotStep, NextPathStep, SkipPathStep, NotFoundStep, LoadCachedStep,
           LoadMissingStep, LoadStoredStep, MetaReturnedStep, DoneStep DEF Internal

\* Storages, hot list, frames and copies are consistent after every step of a
\* call: what dlite_storage_open(), dlite_storage_close(), the loads and the
\* saves have to keep.
THEOREM Invariance == Spec => []IInv
<1>1. IInv /\ [Next]_vars => IInv'
  BY ApiInv, InternalInv, StutterInv DEF Next
<1> QED BY InitInv, <1>1, PTL DEF Spec

----------------------------------------------------------------------------
(* The theorems.                                                            *)

\* The frames that have to close s are one frame at most.
LEMMA OpenedCount ==
    ASSUME IInv, NEW s \in Open PROVE Cardinality(Opened(s)) = Searches(stack, s)
<1>1. /\ stack \in Seq(Frames) /\ Len(stack) \in Nat /\ s # NULL
      /\ StackOf(stack, ret # NULL, Open)
  BY Parts DEF Open
<1>2. \A k \in 1..Len(stack) : k \in Opened(s) <=> Opener(stack[k]) /\ stack[k].src = s
  BY <1>1 DEF Opened, Opener
<1>3. CASE SearchedIn(stack, s)
  <2>1. PICK k \in 1..Len(stack) : Opener(stack[k]) /\ stack[k].src = s
    BY <1>3 DEF SearchedIn
  <2>2. ASSUME NEW j \in Opened(s) PROVE j = k
    <3>1. j \in 1..Len(stack) /\ Opener(stack[j]) /\ stack[j].src = s
      BY <1>2 DEF Opened
    <3>2. ~(j < k) /\ ~(k < j)
      BY <1>1, <2>1, <3>1 DEF StackOf
    <3> QED BY <1>1, <3>1, <3>2
  <2>3. Opened(s) = {k}
    BY <1>2, <2>1, <2>2
  <2> QED BY <1>3, <2>3, FS_Singleton, SearchesValue
<1>4. CASE ~SearchedIn(stack, s)
  <2>1. Opened(s) = {}
    BY <1>2, <1>4 DEF Opened, SearchedIn
  <2> QED BY <1>4, <2>1, FS_EmptySet, SearchesValue
<1> QED BY <1>3, <1>4

\* A storage stays open exactly as long as its owner, an iterator or a search
\* uses it, and searches load from open storages only: the reference counts of
\* dlite_storage_open(), dlite_storage_iter_create() and dlite_storage_close().
THEOREM ReferencesAreExact == Spec => []RefsExact
<1>1. IInv => RefsExact
  <2> SUFFICES ASSUME IInv PROVE RefsExact
    OBVIOUS
  <2>1. ASSUME NEW s \in Open
        PROVE  /\ storage[s].refcount > 0
               /\ storage[s].refcount = One(storage[s].owned) + storage[s].iters
                                        + Cardinality(Opened(s))
    BY Parts, OpenedCount DEF CountOf
  <2>2. \A k \in 1..Len(stack) : stack[k].src \in Open \cup {NULL}
    BY Parts DEF StackOf
  <2> QED BY <2>1, <2>2 DEF RefsExact
<1> QED BY <1>1, Invariance, PTL

\* The hot list has every open storage that can be read once, and is inside of
\* its allocated memory: dlite_storage_hotlist_add() and _remove().
THEOREM HotListIsExact == Spec => []HotListExact
<1>1. IInv => HotListExact
  BY DEF IInv, RoomExact, HotListExact, HotFits
<1> QED BY <1>1, Invariance, PTL

\* Data that dlite_instance_save() stored with success are in the file when the
\* storage is closed, by whoever was the last to use it: json_close().
THEOREM DataAreKept == Spec => DataIsKept
<1>1. IInv /\ [Next]_vars =>
        [\A s \in Open : s \notin Open' =>
            storage[s].saved \ MetaIds \subseteq file'[storage[s].loc]]_vars
  BY ApiInv, InternalInv, StutterInv DEF Next, DataKept
<1> QED BY <1>1, Invariance, PTL DEF Spec, DataIsKept

----------------------------------------------------------------------------
(* What searches return is in memory.                                       *)

LiveIn(m, id, v) == v # "freed" /\ (v = "inst" => id \in m)
CacheLive == \A s \in Open, id \in Ids : LiveIn(mem, id, storage[s].cache[id])
FramesLive(S, m) == \A k \in 1..Len(S) : LiveIn(m, S[k].id, S[k].res)
RetLive == ret # NULL => /\ ret.val # "freed"
                         /\ stack = <<>> => LiveIn(mem, ret.id, ret.val)

LEMMA LiveParts == CachesLive <=> CacheLive /\ FramesLive(stack, mem) /\ RetLive
  BY DEF CachesLive, CacheLive, FramesLive, RetLive, LiveIn, Live

LEMMA LiveNextParts ==
    ASSUME CacheLive', FramesLive(stack', mem'), RetLive' PROVE CachesLive'
  BY DEF CachesLive, CacheLive, FramesLive, RetLive, LiveIn, Live

\* More instances in memory
LEMMA FramesGrow ==
    ASSUME NEW S, NEW m, NEW m2, m \subseteq m2, FramesLive(S, m)
    PROVE  FramesLive(S, m2)
  BY DEF FramesLive, LiveIn

LEMMA FramesCons ==
    ASSUME NEW R \in Seq(Frames), NEW m, FramesLive(R, m),
           NEW f \in Frames, LiveIn(m, f.id, f.res)
    PROVE  FramesLive(<<f>> \o R, m)
<1> DEFINE U == <<f>> \o R
<1>1. /\ Len(U) = Len(R) + 1 /\ Len(R) \in Nat
      /\ U[1] = f /\ \A k \in 1..Len(R) : U[k + 1] = R[k]
  OBVIOUS
<1> HIDE DEF U
<1>2. ASSUME NEW k \in 1..Len(U) PROVE LiveIn(m, U[k].id, U[k].res)
  <2>1. CASE k = 1
    BY <1>1, <2>1
  <2>2. CASE k # 1
    <3>1. k - 1 \in 1..Len(R) /\ (k - 1) + 1 = k
      BY <1>1, <2>2
    <3>2. U[k] = R[k - 1]
      BY <1>1, <3>1
    <3> QED BY <3>1, <3>2 DEF FramesLive
  <2> QED BY <2>1, <2>2
<1> QED BY <1>2 DEF FramesLive, U

LEMMA FramesTail ==
    ASSUME NEW S \in Seq(Frames), S # <<>>, NEW m, FramesLive(S, m)
    PROVE  LiveIn(m, Head(S).id, Head(S).res) /\ FramesLive(Tail(S), m)
<1> DEFINE R == Tail(S)
<1>1. /\ Len(S) = Len(R) + 1 /\ Len(R) \in Nat
      /\ S[1] = Head(S) /\ \A k \in 1..Len(R) : S[k + 1] = R[k]
  OBVIOUS
<1> HIDE DEF R
<1>2. 1 \in 1..Len(S) /\ \A k \in 1..Len(R) : k + 1 \in 1..Len(S)
  BY <1>1
<1>3. LiveIn(m, Head(S).id, Head(S).res)
  BY <1>1, <1>2 DEF FramesLive
<1>4. FramesLive(R, m)
  BY <1>1, <1>2 DEF FramesLive
<1> QED BY <1>3, <1>4 DEF R

\* Caches stay what they are, or new ones are empty.
LEMMA CacheSame ==
    ASSUME CacheLive, mem \subseteq mem',
           \A s \in Open' : \/ s \in Open /\ storage'[s].cache = storage[s].cache
                            \/ \A id \in Ids : storage'[s].cache[id] = "absent"
    PROVE  CacheLive'
<1> SUFFICES ASSUME NEW s \in Open', NEW id \in Ids
             PROVE  LiveIn(mem', id, storage'[s].cache[id])
  BY DEF CacheLive, LiveIn
<1>1. CASE s \in Open /\ storage'[s].cache = storage[s].cache
  BY <1>1 DEF CacheLive, LiveIn
<1>2. CASE storage'[s].cache[id] = "absent"
  BY <1>2 DEF LiveIn
<1> QED BY <1>1, <1>2

LEMMA CacheOpened ==
    ASSUME StorageInv, CacheLive, NEW s \in Slots, NEW l \in Locs,
           NEW m \in {"r", "w", "a"}, NEW own \in BOOLEAN, OpenAt(s, l, m, own),
           UNCHANGED <<file, mem>>
    PROVE  CacheLive'
<1>1. /\ Open' = Open \cup {s} /\ storage'[s] = NewStorage(l, m, own) /\ Others(s)
  <2>1. UNCHANGED file
    OBVIOUS
  <2> QED BY <2>1, OpenAtInv
<1>2. \A id \in Ids : NewStorage(l, m, own).cache[id] = "absent"
  BY DEF NewStorage
<1>3. \A t \in Open' : \/ t \in Open /\ storage'[t].cache = storage[t].cache
                       \/ \A id \in Ids : storage'[t].cache[id] = "absent"
  BY <1>1, <1>2 DEF Others, Open
<1> QED BY <1>3, CacheSame

LEMMA CacheClosed ==
    ASSUME StorageInv, CacheLive, NEW s \in Open, NEW x \in Storages,
           SameCopy(x, storage[s]), x.cache = storage[s].cache, x.refcount > 0,
           CloseAs(s, x), UNCHANGED mem
    PROVE  CacheLive'
<1>1. /\ Others(s)
      /\ x.refcount > 1 =>
           Open' = Open /\ storage'[s] = [x EXCEPT !.refcount = @ - 1]
      /\ ~(x.refcount > 1) => Open' = Open \ {s}
  BY CloseAsInv
<1>2. [x EXCEPT !.refcount = @ - 1].cache = x.cache
  BY DEF Storages
<1>3. ASSUME NEW t \in Open' PROVE t \in Open /\ storage'[t].cache = storage[t].cache
  <2>1. t \in Open /\ t \in Slots
    BY <1>1 DEF Open
  <2>2. CASE t = s
    <3>1. storage'[s] = [x EXCEPT !.refcount = @ - 1]
      BY <1>1, <2>2
    <3> QED BY <1>2, <2>1, <2>2, <3>1
  <2>3. CASE t # s
    BY <1>1, <2>1, <2>3 DEF Others
  <2> QED BY <2>2, <2>3
<1> QED BY <1>3, CacheSame

LEMMA CacheSet ==
    ASSUME StorageInv, CacheLive, NEW s \in Open, NEW id \in Ids, NEW v \in CacheValues,
           storage' = [storage EXCEPT ![s].cache[id] = v], Open' = Open,
           mem \subseteq mem', LiveIn(mem', id, v)
    PROVE  CacheLive'
<1> SUFFICES ASSUME NEW t \in Open, NEW j \in Ids
             PROVE  LiveIn(mem', j, storage'[t].cache[j])
  BY DEF CacheLive, LiveIn
<1>1. s \in Slots /\ t \in Slots /\ storage[s] \in Storages
      /\ storage \in [Slots -> {NULL} \cup Storages]
  BY DEF StorageInv, Open
<1>2. LiveIn(mem', j, storage[t].cache[j])
  BY DEF CacheLive, LiveIn
<1>3. CASE t = s /\ j = id
  BY <1>1, <1>3 DEF Storages
<1>4. CASE ~(t = s /\ j = id)
  <2>1. storage'[t].cache[j] = storage[t].cache[j]
    BY <1>1, <1>4 DEF Storages
  <2> QED BY <1>2, <2>1
<1> QED BY <1>3, <1>4

\* A step of the application that starts no search
LEMMA IdleLive ==
    ASSUME Idle, UNCHANGED <<stack, ret>>, CacheLive' PROVE CachesLive'
<1>1. stack' = <<>> /\ ret' = NULL
  BY DEF Idle
<1>2. FramesLive(stack', mem') /\ RetLive'
  BY <1>1 DEF FramesLive, RetLive
<1> QED BY <1>2, LiveNextParts

\* A search that starts
LEMMA BeginLive ==
    ASSUME NEW R \in Seq(Frames), FramesLive(R, mem'), NEW id \in Ids, Begin(id, R),
           UNCHANGED mem
    PROVE  FramesLive(stack', mem') /\ RetLive'
<1>1. CASE id \in mem
  BY <1>1 DEF Begin, RetLive, LiveIn
<1>2. CASE id \notin mem
  <2> DEFINE f == Frame(id, "hot", NULL)
  <2>1. stack' = <<f>> \o R /\ ret' = NULL
    BY <1>2 DEF Begin
  <2>2. f \in Frames /\ LiveIn(mem', f.id, f.res)
    BY DEF Frame, Frames, LiveIn, CacheValues
  <2> HIDE DEF f
  <2> QED BY <2>1, <2>2, FramesCons DEF RetLive
<1> QED BY <1>1, <1>2

\* A search in one storage that starts
LEMMA OneLive ==
    ASSUME NEW id \in Ids, NEW stage \in {"given", "opened"}, NEW s \in Slots,
           stack' = <<Frame(id, stage, s)>>, ret' = NULL
    PROVE  FramesLive(stack', mem') /\ RetLive'
<1> DEFINE f == Frame(id, stage, s)
           R == <<>>
<1>1. f \in Frames /\ LiveIn(mem', f.id, f.res)
  BY DEF Frame, Frames, LiveIn, CacheValues
<1>2. R \in Seq(Frames) /\ FramesLive(R, mem') /\ stack' = <<f>> \o R
  BY DEF FramesLive
<1>3. RetLive'
  BY DEF RetLive
<1> HIDE DEF f, R
<1>4. FramesLive(<<f>> \o R, mem')
  BY <1>1, <1>2, FramesCons
<1> QED BY <1>2, <1>3, <1>4

\* The innermost frame changes and keeps or gets a live result.
LEMMA TopLive ==
    ASSUME IInv, FramesLive(stack, mem), stack # <<>>, NEW f \in Frames,
           stack' = Under(f), mem \subseteq mem', LiveIn(mem', f.id, f.res),
           ret' # NULL => ret'.val # "freed"
    PROVE  FramesLive(stack', mem') /\ RetLive'
<1> DEFINE R == Tail(stack)
<1>1. stack \in Seq(Frames) /\ R \in Seq(Frames)
  BY TopParts, Parts
<1>2. FramesLive(R, mem')
  BY <1>1, FramesTail, FramesGrow
<1>3. stack' = <<f>> \o R
  BY DEF Under
<1> HIDE DEF R
<1>4. stack' # <<>>
  BY <1>1, <1>3
<1> QED BY <1>1, <1>2, <1>3, <1>4, FramesCons DEF RetLive

\* The innermost frame returns.
LEMMA ReturnLive ==
    ASSUME IInv, FramesLive(stack, mem), stack # <<>>, NEW v, Return(v), UNCHANGED mem,
           LiveIn(mem, Top.id, v)
    PROVE  FramesLive(stack', mem') /\ RetLive'
<1>1. stack \in Seq(Frames)
  BY Parts
<1>2. FramesLive(Tail(stack), mem)
  BY <1>1, FramesTail
<1> QED BY <1>2 DEF Return, RetLive, LiveIn

\* Nothing that is cached is freed.
LEMMA ApplicationLive ==
    ASSUME ~FreeCached, IInv, CachesLive, Api PROVE CachesLive'
<1>1. /\ StorageInv /\ stack \in Seq(Frames)
      /\ CacheLive /\ FramesLive(stack, mem) /\ RetLive
  BY Parts, LiveParts
<1>2. ASSUME NEW s \in Slots, NEW lm \in Opens, OpenStorage(s, lm[1], lm[2])
      PROVE  CachesLive'
  <2> DEFINE l == lm[1]
             m == lm[2]
             own == TRUE
  <2>1. Idle /\ OpenAt(s, l, m, own) /\ UNCHANGED <<file, mem>>
        /\ UNCHANGED <<stack, ret>>
    BY <1>2 DEF OpenStorage
  <2>2. l \in Locs /\ m \in {"r", "w", "a"} /\ own \in BOOLEAN
    OBVIOUS
  <2> HIDE DEF l, m, own
  <2> QED BY <1>1, <2>1, <2>2, CacheOpened, IdleLive
<1>3. ASSUME NEW s \in Slots, CloseStorage(s) PROVE CachesLive'
  <2> DEFINE x == [storage[s] EXCEPT !.owned = FALSE]
  <2>1. Idle /\ s \in Open /\ CloseAs(s, x) /\ UNCHANGED <<mem, stack, ret>>
    BY <1>3 DEF CloseStorage
  <2>2. storage[s] \in Storages /\ CountOf(storage[s], 0)
    BY <2>1, IdleParts
  <2>3. /\ x \in Storages /\ SameCopy(x, storage[s]) /\ x.cache = storage[s].cache
        /\ x.refcount = storage[s].refcount
    BY <2>2 DEF Storages, SameCopy
  <2>4. x.refcount > 0
    BY <2>2, <2>3 DEF CountOf
  <2> HIDE DEF x
  <2> QED BY <1>1, <2>1, <2>3, <2>4, CacheClosed, IdleLive
<1>4. ASSUME NEW s \in Slots, IterFree(s) PROVE CachesLive'
  <2> DEFINE i == storage[s].iters - 1
             x == [storage[s] EXCEPT !.iters = i]
  <2>1. Idle /\ s \in Open /\ CloseAs(s, x) /\ UNCHANGED <<mem, stack, ret>>
        /\ storage[s].iters > 0
    BY <1>4 DEF IterFree
  <2>2. storage[s] \in Storages /\ CountOf(storage[s], 0)
    BY <2>1, IdleParts
  <2>3. i \in Nat
    <3>1. storage[s].iters \in Nat
      BY <2>2 DEF Storages
    <3> QED BY <2>1, <3>1
  <2> HIDE DEF i
  <2>4. /\ x \in Storages /\ SameCopy(x, storage[s]) /\ x.cache = storage[s].cache
        /\ x.refcount = storage[s].refcount
    BY <2>2, <2>3 DEF Storages, SameCopy
  <2>5. x.refcount > 0
    BY <2>2, <2>4 DEF CountOf
  <2> HIDE DEF x
  <2> QED BY <1>1, <2>1, <2>4, <2>5, CacheClosed, IdleLive
<1>5. ASSUME NEW s \in Slots, IterCreate(s) PROVE CachesLive'
  <2>1. Idle /\ UNCHANGED <<stack, ret, mem>> /\ s \in Open
        /\ storage' = [storage EXCEPT ![s].iters = @ + 1, ![s].refcount = @ + 1]
    BY <1>5 DEF IterCreate
  <2>2. \A t \in Open : t \in Slots /\ storage[t] \in Storages
    BY <2>1, IdleParts
  <2>3. \A t \in Open' : t \in Open /\ storage'[t].cache = storage[t].cache
    <3>1. storage \in [Slots -> {NULL} \cup Storages] /\ s \in Slots
      BY <1>1, <2>1, <2>2 DEF StorageInv
    <3>2. \A t \in Slots : t # s => storage'[t] = storage[t]
      BY <2>1, <3>1
    <3>3. \A t \in Open' : t \in Open
      BY <2>1, <3>2 DEF Open
    <3>4. storage'[s].cache = storage[s].cache
      BY <2>1, <2>2, <3>1 DEF Storages
    <3> QED BY <2>2, <3>2, <3>3, <3>4
  <2> QED BY <1>1, <2>1, <2>3, CacheSame, IdleLive
<1>6. ASSUME NEW id \in NewIds, CreateInstance(id) PROVE CachesLive'
  <2>1. Idle /\ UNCHANGED <<storage, stack, ret>> /\ mem \subseteq mem'
    BY <1>6 DEF CreateInstance
  <2>2. \A t \in Open' : t \in Open /\ storage'[t].cache = storage[t].cache
    BY <2>1 DEF Open
  <2> QED BY <1>1, <2>1, <2>2, CacheSame, IdleLive
<1>7. ASSUME NEW id \in Ids, FreeInstance(id) PROVE CachesLive'
  <2>1. Idle /\ UNCHANGED <<stack, ret>> /\ mem' = mem \ {id} /\ Caching(id) = {}
    BY <1>7 DEF FreeInstance
  <2>2. storage' = storage
    <3>1. storage' = [s \in Slots |-> storage[s]]
      BY <1>7, <2>1 DEF FreeInstance
    <3> QED BY <1>1, <3>1 DEF StorageInv
  <2>3. Open' = Open /\ \A s \in Open : storage[s].cache[id] # "inst"
    BY <2>1, <2>2 DEF Open, Caching
  <2>4. CacheLive'
    BY <1>1, <2>1, <2>2, <2>3 DEF CacheLive, LiveIn
  <2> QED BY <2>1, <2>4, IdleLive
<1>8. ASSUME NEW s \in Slots, NEW id \in SaveIds, Save(s, id) PROVE CachesLive'
  <2>1. Idle /\ UNCHANGED <<stack, ret, mem>> /\ s \in Open
    BY <1>8 DEF Save
  <2>2. \A t \in Open : t \in Slots /\ storage[t] \in Storages
    BY <2>1, IdleParts
  <2>3. storage \in [Slots -> {NULL} \cup Storages]
    BY <1>1 DEF StorageInv
  <2>4. \A t \in Slots : t # s => storage'[t] = storage[t]
    BY <1>8, <2>1, <2>2, <2>3 DEF Save, SaveData, SaveMeta
  <2>5. storage'[s].cache = storage[s].cache
    BY <1>8, <2>1, <2>2, <2>3 DEF Save, SaveData, SaveMeta, Storages
  <2>6. \A t \in Open' : t \in Open /\ storage'[t].cache = storage[t].cache
    BY <2>1, <2>2, <2>4, <2>5 DEF Open
  <2> QED BY <1>1, <2>1, <2>6, CacheSame, IdleLive
<1>9. ASSUME NEW id \in AskIds, Get(id) PROVE CachesLive'
  <2> DEFINE R == <<>>
  <2>1. /\ Begin(id, R) /\ UNCHANGED <<storage, mem>> /\ id \in Ids
        /\ R \in Seq(Frames) /\ FramesLive(R, mem')
    BY <1>9 DEF Get, FramesLive
  <2>2. \A t \in Open' : t \in Open /\ storage'[t].cache = storage[t].cache
    BY <2>1 DEF Open
  <2> HIDE DEF R
  <2> QED BY <1>1, <2>1, <2>2, CacheSame, BeginLive, LiveNextParts
<1>10. ASSUME NEW s \in Slots, NEW id \in AskIds, Load(s, id) PROVE CachesLive'
  <2>1. /\ stack' = <<Frame(id, "given", s)>> /\ ret' = NULL /\ id \in Ids
        /\ UNCHANGED <<storage, mem>>
    BY <1>10 DEF Load, Idle
  <2>2. \A t \in Open' : t \in Open /\ storage'[t].cache = storage[t].cache
    BY <2>1 DEF Open
  <2>3. FramesLive(stack', mem') /\ RetLive'
    BY <2>1, OneLive
  <2> QED BY <1>1, <2>1, <2>2, <2>3, CacheSame, LiveNextParts
<1>11. ASSUME NEW s \in Slots, NEW id \in AskIds, NEW l \in Locs, LoadLoc(s, l, id)
       PROVE  CachesLive'
  <2> DEFINE m == "r"
             own == FALSE
  <2>1. /\ stack' = <<Frame(id, "opened", s)>> /\ ret' = NULL /\ id \in Ids
        /\ OpenAt(s, l, m, own) /\ UNCHANGED <<file, mem>>
    BY <1>11 DEF LoadLoc, Idle
  <2>2. m \in {"r", "w", "a"} /\ own \in BOOLEAN
    OBVIOUS
  <2> HIDE DEF m, own
  <2>3. FramesLive(stack', mem') /\ RetLive'
    BY <2>1, OneLive
  <2> QED BY <1>1, <2>1, <2>2, <2>3, CacheOpened, LiveNextParts
<1> QED BY <1>2, <1>3, <1>4, <1>5, <1>6, <1>7, <1>8, <1>9, <1>10, <1>11 DEF Api

\* A step of a search that leaves the storages alone
LEMMA CacheKept ==
    ASSUME CacheLive, UNCHANGED storage, mem \subseteq mem' PROVE CacheLive'
<1>1. \A t \in Open' : t \in Open /\ storage'[t].cache = storage[t].cache
  BY DEF Open
<1> QED BY <1>1, CacheSame

LEMMA SearchingLive ==
    ASSUME IInv, CachesLive,
           NextHot \/ SkipPath \/ NotFound \/ LoadCached \/ Done
    PROVE  CachesLive'
<1>1. /\ StorageInv /\ stack \in Seq(Frames)
      /\ CacheLive /\ FramesLive(stack, mem) /\ RetLive
  BY Parts, LiveParts
<1>2. stack # <<>> => /\ LiveIn(mem, Top.id, Top.res) /\ Top \in Frames
  BY <1>1, FramesTail, TopParts DEF Top
<1>3. ASSUME NextHot PROVE CachesLive'
  <2> DEFINE p == Top.pos + 1
             h == hot[p]
             a == Top.asked \cup {h}
             f == [Top EXCEPT !.pos = p, !.src = h, !.asked = a]
             g == [Top EXCEPT !.stage = "path"]
  <2>1. /\ stack # <<>> /\ ret' = NULL /\ UNCHANGED <<storage, mem>>
        /\ stack' = Under(IF Top.pos < Len(hot) THEN f ELSE g)
    BY <1>3 DEF NextHot, Running
  <2>2. g \in Frames /\ LiveIn(mem, g.id, g.res)
    BY <1>2, <2>1 DEF Frames
  <2>3. ASSUME Top.pos < Len(hot) PROVE f \in Frames /\ LiveIn(mem, f.id, f.res)
    <3>1. Top.pos \in Nat /\ Top.asked \in SUBSET Slots
      BY <1>2, <2>1 DEF Frames
    <3>2. p \in 1..Len(hot) /\ p \in Nat
      BY <1>1, <2>3, <3>1 DEF StorageInv
    <3>3. h \in Slots
      BY <1>1, <3>2 DEF StorageInv
    <3>4. a \in SUBSET Slots
      BY <3>1, <3>3
    <3> HIDE DEF p, h, a
    <3> QED BY <1>2, <2>1, <3>2, <3>3, <3>4 DEF Frames
  <2> HIDE DEF f, g
  <2>4. PICK u \in Frames : stack' = Under(u) /\ LiveIn(mem, u.id, u.res)
    BY <2>1, <2>2, <2>3
  <2>5. FramesLive(stack', mem') /\ RetLive'
    BY <1>1, <2>1, <2>4, TopLive
  <2> QED BY <1>1, <2>1, <2>5, CacheKept, LiveNextParts
<1>4. ASSUME SkipPath PROVE CachesLive'
  <2> DEFINE p == Top.path + 1
             f == [Top EXCEPT !.path = p]
  <2>1. /\ stack # <<>> /\ ret' = NULL /\ UNCHANGED <<storage, mem>>
        /\ stack' = Under(f) /\ Top.path < Len(Path)
    BY <1>4 DEF SkipPath, OnPath, Running
  <2>2. p \in 0..Len(Path)
    BY <1>2, <2>1 DEF Frames
  <2> HIDE DEF p
  <2>3. f \in Frames /\ LiveIn(mem, f.id, f.res)
    BY <1>2, <2>1, <2>2 DEF Frames
  <2> HIDE DEF f
  <2>4. FramesLive(stack', mem') /\ RetLive'
    BY <1>1, <2>1, <2>3, TopLive
  <2> QED BY <1>1, <2>1, <2>4, CacheKept, LiveNextParts
<1>5. ASSUME NotFound PROVE CachesLive'
  <2>1. stack # <<>> /\ UNCHANGED <<storage, mem>> /\ Return("none")
        /\ LiveIn(mem, Top.id, "none")
    BY <1>5 DEF NotFound, OnPath, Running, LiveIn
  <2>2. FramesLive(stack', mem') /\ RetLive'
    BY <1>1, <2>1, ReturnLive
  <2> QED BY <1>1, <2>1, <2>2, CacheKept, LiveNextParts
<1>6. ASSUME LoadCached PROVE CachesLive'
  <2> DEFINE v == Cached
             f == [Top EXCEPT !.res = v]
  <2>1. /\ stack # <<>> /\ ret' = NULL /\ UNCHANGED <<storage, mem>> /\ stack' = Under(f)
        /\ Top.src # NULL /\ v # "absent"
    BY <1>6 DEF LoadCached, Asking, Running
  <2>2. Top.src \in Open /\ storage[Top.src] \in Storages /\ Top.id \in Ids
    BY <1>2, <2>1, AskParts DEF Frames
  <2>3. v \in Results /\ LiveIn(mem, Top.id, v)
    BY <1>1, <2>1, <2>2 DEF Cached, Storages, CacheValues, Results, CacheLive
  <2> HIDE DEF v
  <2>4. f \in Frames /\ LiveIn(mem, f.id, f.res)
    BY <1>2, <2>1, <2>3 DEF Frames
  <2> HIDE DEF f
  <2>5. FramesLive(stack', mem') /\ RetLive'
    BY <1>1, <2>1, <2>4, TopLive
  <2> QED BY <1>1, <2>1, <2>5, CacheKept, LiveNextParts
<1>7. ASSUME Done PROVE CachesLive'
  <2>1. UNCHANGED <<storage, mem, stack>> /\ ret' = NULL
    BY <1>7 DEF Done
  <2>2. FramesLive(stack', mem') /\ RetLive'
    BY <1>1, <2>1 DEF RetLive
  <2> QED BY <1>1, <2>1, <2>2, CacheKept, LiveNextParts
<1> QED BY <1>3, <1>4, <1>5, <1>6, <1>7

LEMMA NextPathLive ==
    ASSUME IInv, CachesLive, NEW s \in Slots, NextPath(s) PROVE CachesLive'
<1> DEFINE p == Top.path + 1
           l == Path[p]
           m == "r"
           own == FALSE
           f == [Top EXCEPT !.path = p, !.src = s]
<1>1. /\ StorageInv /\ stack \in Seq(Frames)
      /\ CacheLive /\ FramesLive(stack, mem) /\ RetLive
  BY Parts, LiveParts
<1>2. /\ stack # <<>> /\ ret' = NULL /\ OpenAt(s, l, m, own)
      /\ UNCHANGED <<file, mem>> /\ stack' = Under(f) /\ Top.path < Len(Path)
  BY DEF NextPath, OnPath, Running
<1>3. LiveIn(mem, Top.id, Top.res) /\ Top \in Frames
  BY <1>1, <1>2, FramesTail, TopParts DEF Top
<1>4. p \in 0..Len(Path) /\ l \in Locs
  <2>1. Top.path \in 0..Len(Path) /\ Len(Path) \in Nat
    BY <1>3 DEF Frames
  <2>2. p \in 1..Len(Path) /\ p \in 0..Len(Path)
    BY <1>2, <2>1
  <2> QED BY <2>2
<1>5. m \in {"r", "w", "a"} /\ own \in BOOLEAN
  OBVIOUS
<1> HIDE DEF p, l, m, own
<1>6. f \in Frames /\ LiveIn(mem, f.id, f.res)
  BY <1>3, <1>4 DEF Frames
<1> HIDE DEF f
<1>7. FramesLive(stack', mem') /\ RetLive'
  BY <1>1, <1>2, <1>6, TopLive
<1> QED BY <1>1, <1>2, <1>4, <1>5, <1>7, CacheOpened, LiveNextParts

\* Instances that are loaded are in memory before the cache has them.
LEMMA LoadingLive ==
    ASSUME IInv, CachesLive, LoadMissing \/ LoadStored \/ MetaReturned
    PROVE  CachesLive'
<1>1. /\ StorageInv /\ stack \in Seq(Frames)
      /\ CacheLive /\ FramesLive(stack, mem) /\ RetLive
  BY Parts, LiveParts
<1>2. /\ stack # <<>> /\ Top.src # NULL /\ UNCHANGED <<file, hotlist>> /\ mem \subseteq mem'
  <2>1. MetaReturned => stack # <<>> /\ ret # NULL
    BY DEF MetaReturned
  <2>2. MetaReturned => Top.src # NULL
    BY <2>1, TopParts
  <2>3. UNCHANGED <<file, hotlist>> /\ mem \subseteq mem'
    BY DEF LoadMissing, LoadStored, MetaReturned
  <2> QED BY <2>1, <2>2, <2>3 DEF LoadMissing, LoadStored, Asking, Running
<1>3. /\ Top \in Frames /\ Top.id \in Ids /\ Top.src \in Open
      /\ Tail(stack) \in Seq(Frames) /\ LiveIn(mem, Top.id, Top.res)
      /\ FramesLive(Tail(stack), mem)
  BY <1>1, <1>2, TopParts, AskParts, FramesTail DEF Frames, Top
\* The cache entry is live.
<1>4. ASSUME NEW v \in {"none", "inst"}, SetCache(v), LiveIn(mem', Top.id, v)
      PROVE  CacheLive'
  <2>1. v \in CacheValues
    BY DEF CacheValues
  <2>2. storage' = [storage EXCEPT ![Top.src].cache[Top.id] = v]
    BY <1>4 DEF SetCache
  <2>3. Open' = Open
    BY <1>2, <1>3, <2>1, <2>2, CacheStep
  <2> QED BY <1>1, <1>2, <1>3, <1>4, <2>1, <2>2, <2>3, CacheSet
<1>5. ASSUME LoadMissing PROVE CachesLive'
  <2> DEFINE v == "none"
             f == [Top EXCEPT !.res = v]
  <2>1. SetCache(v) /\ stack' = Under(f) /\ ret' = NULL
    BY <1>5 DEF LoadMissing, Asking, Running
  <2>2. v \in {"none", "inst"} /\ v \in Results /\ \A m, id : LiveIn(m, id, v)
    BY DEF Results, LiveIn
  <2> HIDE DEF v
  <2>3. f \in Frames /\ LiveIn(mem', f.id, f.res)
    BY <1>3, <2>2 DEF Frames
  <2> HIDE DEF f
  <2>4. FramesLive(stack', mem') /\ RetLive'
    BY <1>1, <1>2, <2>1, <2>3, TopLive
  <2> QED BY <1>4, <2>1, <2>2, <2>4, LiveNextParts
<1>6. ASSUME LoadStored PROVE CachesLive'
  <2> DEFINE v == "none"
             g == [Top EXCEPT !.wait = TRUE]
             m == MetaOf[Top.id]
             U == <<g>> \o Tail(stack)
  <2>1. /\ SetCache(v) /\ mem' = mem
        /\ IF m = NULL
           THEN stack' = Under(g) /\ ret' = [id |-> Top.id, val |-> "inst"]
           ELSE Begin(m, U)
    BY <1>6 DEF LoadStored, Under
  <2>2. v \in {"none", "inst"} /\ \A x, id : LiveIn(x, id, v)
    BY DEF LiveIn
  <2>3. g \in Frames /\ LiveIn(mem', g.id, g.res)
    BY <1>3, <2>1 DEF Frames
  <2> HIDE DEF v, g
  <2>4. FramesLive(stack', mem') /\ RetLive'
    <3>1. CASE m = NULL
      <4>1. ret'.val # "freed" /\ stack' = Under(g)
        BY <2>1, <3>1
      <4> QED BY <1>1, <1>2, <2>3, <4>1, TopLive
    <3>2. CASE m # NULL
      <4>1. m \in Ids /\ Begin(m, U)
        BY <1>3, <2>1, <3>2
      <4>2. U \in Seq(Frames) /\ FramesLive(U, mem')
        <5>1. FramesLive(Tail(stack), mem') /\ Tail(stack) \in Seq(Frames)
          BY <1>3, <2>1
        <5>2. U \in Seq(Frames)
          BY <2>3, <5>1
        <5> QED BY <2>3, <5>1, <5>2, FramesCons
      <4> HIDE DEF m, U
      <4> QED BY <2>1, <4>1, <4>2, BeginLive
    <3> QED BY <3>1, <3>2
  <2> QED BY <1>4, <2>1, <2>2, <2>4, LiveNextParts
<1>7. ASSUME MetaReturned PROVE CachesLive'
  <2> DEFINE ok == ret.val # "none" /\ Top.id \notin Broken
             v == IF ok THEN "inst" ELSE "none"
             f == HasAnswer(Top, v)
  <2>1. /\ SetCache(v) /\ stack' = Under(f) /\ ret' = NULL
        /\ mem' = IF ok THEN mem \cup {Top.id} ELSE mem
    BY <1>7 DEF MetaReturned, HasAnswer
  <2>2. v \in {"none", "inst"} /\ v \in Results /\ LiveIn(mem', Top.id, v)
    BY <2>1 DEF Results, LiveIn
  <2> HIDE DEF v
  <2>3. f \in Frames /\ LiveIn(mem', f.id, f.res)
    BY <1>3, <2>2, ResultFrame
  <2> HIDE DEF f
  <2>4. FramesLive(stack', mem') /\ RetLive'
    BY <1>1, <1>2, <2>1, <2>3, TopLive
  <2> QED BY <1>4, <2>1, <2>2, <2>4, LiveNextParts
<1> QED BY <1>5, <1>6, <1>7

LEMMA AnsweredLive == ASSUME IInv, CachesLive, Answered PROVE CachesLive'
<1> DEFINE g == [Top EXCEPT !.src = NULL, !.res = NULL]
<1>1. /\ StorageInv /\ stack \in Seq(Frames)
      /\ CacheLive /\ FramesLive(stack, mem) /\ RetLive
  BY Parts, LiveParts
<1>2. /\ stack # <<>> /\ ret = NULL /\ Top.res # NULL /\ UNCHANGED mem
      /\ IF Top.stage \in {"path", "opened"}
         THEN CloseAs(Top.src, storage[Top.src])
         ELSE UNCHANGED <<file, storage, hotlist>>
      /\ IF Top.res = "none" /\ Top.stage \in {"hot", "path"}
         THEN stack' = Under(g) /\ UNCHANGED ret
         ELSE Return(Top.res)
  BY DEF Answered, Running
<1>3. /\ Top \in Frames /\ Top.src # NULL /\ LiveIn(mem, Top.id, Top.res)
  BY <1>1, <1>2, TopParts, FramesTail DEF Top
<1>4. CacheLive'
  <2>1. CASE Top.stage \in {"path", "opened"}
    <3> DEFINE s == Top.src
               x == storage[s]
    <3>1. s \in Open /\ x \in Storages /\ SameCopy(x, x) /\ CloseAs(s, x)
      BY <1>2, <1>3, <2>1, AskParts DEF SameCopy
    <3>2. x.refcount > 0
      BY <3>1, Parts DEF CountOf
    <3> HIDE DEF s
    <3> QED BY <1>1, <1>2, <3>1, <3>2, CacheClosed
  <2>2. CASE Top.stage \notin {"path", "opened"}
    BY <1>1, <1>2, <2>2, CacheKept
  <2> QED BY <2>1, <2>2
<1>5. FramesLive(stack', mem') /\ RetLive'
  <2>1. CASE Top.res = "none" /\ Top.stage \in {"hot", "path"}
    <3>1. g \in Frames /\ LiveIn(mem', g.id, g.res)
      BY <1>3 DEF Frames, LiveIn, CacheValues
    <3>2. stack' = Under(g) /\ ret' = NULL
      BY <1>2, <2>1
    <3> HIDE DEF g
    <3> QED BY <1>1, <1>2, <3>1, <3>2, TopLive
  <2>2. CASE ~(Top.res = "none" /\ Top.stage \in {"hot", "path"})
    BY <1>1, <1>2, <1>3, <2>2, ReturnLive
  <2> QED BY <2>1, <2>2
<1> QED BY <1>4, <1>5, LiveNextParts

\* What caches, searches and results refer to stays in memory.
LEMMA CachesAreLive == ASSUME ~FreeCached PROVE Spec => []CachesLive
<1>1. Init => CachesLive
  <2>1. Init => Open = {} /\ stack = <<>> /\ ret = NULL
    BY DEF Init, Open
  <2>2. Init => CacheLive /\ FramesLive(stack, mem) /\ RetLive
    BY <2>1 DEF CacheLive, FramesLive, RetLive
  <2> QED BY <2>2, LiveParts
<1>2. IInv /\ CachesLive /\ [Next]_vars => CachesLive'
  <2> SUFFICES ASSUME IInv, CachesLive, [Next]_vars PROVE CachesLive'
    OBVIOUS
  <2>1. CASE Api
    BY <2>1, ApplicationLive
  <2>2. CASE Internal
    BY <2>2, SearchingLive, NextPathLive, LoadingLive, AnsweredLive DEF Internal
  <2>3. CASE UNCHANGED vars
    <3>1. UNCHANGED <<storage, mem, stack, ret>>
      BY <2>3 DEF vars
    <3>2. CacheLive' /\ FramesLive(stack', mem') /\ RetLive'
      BY <3>1, LiveParts, CacheKept DEF RetLive, LiveIn
    <3> QED BY <3>2, LiveNextParts
  <2> QED BY <2>1, <2>2, <2>3 DEF Next
<1> QED BY <1>1, <1>2, Invariance, PTL DEF Spec

\* As long as no instance is freed that an open storage caches, what
\* dlite_instance_get() and dlite_instance_load() return is in memory: the
\* caches, the searches and the results refer to live instances only.
THEOREM ReturnsAreLive == ASSUME ~FreeCached PROVE Spec => []ReturnsLive
<1>1. IInv /\ CachesLive => ReturnsLive
  <2>1. IInv => (ret # NULL => ret.val \in Results)
    BY Parts DEF Rets
  <2> QED BY <2>1 DEF CachesLive, ReturnsLive, Live, Results
<1>2. Spec => []CachesLive
  BY CachesAreLive
<1> QED BY <1>1, <1>2, Invariance, PTL

----------------------------------------------------------------------------
(* Searches ask all storages.                                               *)

\* What a frame has opened, and what the first n frames have opened
Own(f) == IF Opener(f) THEN {f.src} ELSE {}
By(frames, n) == {s \in Slots : OpenedBy(frames, n, s)}

\* PlaceOf() for one frame: the searches within it have opened `inner`, and `all`
\* is what it has opened as well.
FramePlace(f, h, inner, all) ==
    /\ f.stage = "hot" => /\ f.pos <= Len(h)
                          /\ \A i \in 1..f.pos : h[i] \in f.asked \ inner
    /\ f.stage = "path" => \A i \in 1..Len(h) : h[i] \in f.asked \cup all
    /\ Opener(f) =>
         \A i, j \in 1..Len(h) : i < j /\ h[i] = f.src => h[j] \in inner

\* The frames are in place when searches within all of them have opened `inner`.
PlaceWith(frames, h, inner) ==
    \A k \in 1..Len(frames) :
       FramePlace(frames[k], h, inner \cup By(frames, k - 1), inner \cup By(frames, k))

LEMMA PlaceNone ==
    ASSUME NEW S \in Seq(Frames), NEW h \in Seq(Slots)
    PROVE  PlaceOf(S, h) <=> PlaceWith(S, h, {})
<1> DEFINE Place(k) ==
        LET f == S[k]
        IN  /\ f.stage = "hot" =>
                 /\ f.pos <= Len(h)
                 /\ \A i \in 1..f.pos : h[i] \in f.asked /\ ~OpenedBy(S, k - 1, h[i])
            /\ f.stage = "path" =>
                 \A i \in 1..Len(h) : h[i] \in f.asked \/ OpenedBy(S, k, h[i])
            /\ Opener(f) =>
                 \A i, j \in 1..Len(h) :
                    i < j /\ h[i] = f.src => OpenedBy(S, k - 1, h[j])
<1>1. PlaceOf(S, h) <=> \A k \in 1..Len(S) : Place(k)
  BY DEF PlaceOf
<1>2. ASSUME NEW k \in 1..Len(S)
      PROVE  Place(k) <=> FramePlace(S[k], h, {} \cup By(S, k - 1), {} \cup By(S, k))
  <2> DEFINE f == S[k]
             I(s) == OpenedBy(S, k - 1, s)
             A(s) == OpenedBy(S, k, s)
  <2>1. \A i \in 1..Len(h) : h[i] \in Slots
    OBVIOUS
  <2>2. \A s \in Slots : /\ s \in {} \cup By(S, k - 1) <=> I(s)
                         /\ s \in {} \cup By(S, k) <=> A(s)
    BY DEF By
  <2>3. f \in Frames /\ f.pos \in Nat /\ Len(h) \in Nat
    <3>1. f \in Frames /\ Len(h) \in Nat
      OBVIOUS
    <3>2. \A g \in Frames : g.pos \in Nat
      BY DEF Frames
    <3> QED BY <3>1, <3>2
  <2>4. f.pos <= Len(h) => \A i \in 1..f.pos : i \in 1..Len(h)
    BY <2>3
  <2> HIDE DEF I, A, f
  <2>5. Place(k) <=>
         /\ f.stage = "hot" => /\ f.pos <= Len(h)
                               /\ \A i \in 1..f.pos : h[i] \in f.asked /\ ~I(h[i])
         /\ f.stage = "path" => \A i \in 1..Len(h) : h[i] \in f.asked \/ A(h[i])
         /\ Opener(f) => \A i, j \in 1..Len(h) : i < j /\ h[i] = f.src => I(h[j])
    BY DEF I, A, f
  <2> HIDE DEF Place
  <2>6. FramePlace(f, h, {} \cup By(S, k - 1), {} \cup By(S, k)) <=>
         /\ f.stage = "hot" => /\ f.pos <= Len(h)
                               /\ \A i \in 1..f.pos : h[i] \in f.asked /\ ~I(h[i])
         /\ f.stage = "path" => \A i \in 1..Len(h) : h[i] \in f.asked \/ A(h[i])
         /\ Opener(f) => \A i, j \in 1..Len(h) : i < j /\ h[i] = f.src => I(h[j])
    BY <2>1, <2>2, <2>4 DEF FramePlace
  <2> QED BY <2>5, <2>6 DEF f
<1> HIDE DEF Place
<1> QED BY <1>1, <1>2 DEF PlaceWith

\* A frame on top has opened its own storage, the others what they had opened.
LEMMA OpenedCons ==
    ASSUME NEW R \in Seq(Frames), NEW f \in Frames
    PROVE  LET U == <<f>> \o R
           IN  /\ By(U, 0) = {}
               /\ \A n \in Nat : By(U, n + 1) = (Own(f) \cap Slots) \cup By(R, n)
<1> DEFINE U == <<f>> \o R
<1>1. /\ Len(U) = Len(R) + 1 /\ Len(R) \in Nat
      /\ U[1] = f /\ \A k \in 1..Len(R) : U[k + 1] = R[k]
  OBVIOUS
<1> HIDE DEF U
<1>2. By(U, 0) = {}
  BY DEF By, OpenedBy
<1>3. ASSUME NEW n \in Nat, NEW s \in Slots
      PROVE  OpenedBy(U, n + 1, s) <=> s \in Own(f) \/ OpenedBy(R, n, s)
  <2>1. ASSUME OpenedBy(U, n + 1, s) PROVE s \in Own(f) \/ OpenedBy(R, n, s)
    <3>1. PICK j \in 1..Len(U) : j <= n + 1 /\ Opener(U[j]) /\ U[j].src = s
      BY <2>1 DEF OpenedBy
    <3>2. CASE j = 1
      BY <1>1, <3>1, <3>2 DEF Own
    <3>3. CASE j # 1
      <4>1. j - 1 \in 1..Len(R) /\ j - 1 <= n /\ (j - 1) + 1 = j
        BY <1>1, <3>1, <3>3
      <4>2. U[j] = R[j - 1]
        BY <1>1, <4>1
      <4> QED BY <3>1, <4>1, <4>2 DEF OpenedBy
    <3> QED BY <3>2, <3>3
  <2>2. ASSUME s \in Own(f) PROVE OpenedBy(U, n + 1, s)
    <3>1. 1 \in 1..Len(U) /\ 1 <= n + 1 /\ Opener(U[1]) /\ U[1].src = s
      BY <1>1, <2>2 DEF Own
    <3> QED BY <3>1 DEF OpenedBy
  <2>3. ASSUME OpenedBy(R, n, s) PROVE OpenedBy(U, n + 1, s)
    <3>1. PICK j \in 1..Len(R) : j <= n /\ Opener(R[j]) /\ R[j].src = s
      BY <2>3 DEF OpenedBy
    <3>2. j + 1 \in 1..Len(U) /\ j + 1 <= n + 1 /\ U[j + 1] = R[j]
      BY <1>1, <3>1
    <3> QED BY <3>1, <3>2 DEF OpenedBy
  <2> QED BY <2>1, <2>2, <2>3
<1>4. \A n \in Nat : By(U, n + 1) = (Own(f) \cap Slots) \cup By(R, n)
  BY <1>3 DEF By
<1> QED BY <1>2, <1>4 DEF U

\* A frame on top of others
LEMMA PlaceCons ==
    ASSUME NEW R \in Seq(Frames), NEW f \in Frames, NEW h \in Seq(Slots)
    PROVE  PlaceOf(<<f>> \o R, h) <=>
              FramePlace(f, h, {}, Own(f)) /\ PlaceWith(R, h, Own(f))
<1> DEFINE U == <<f>> \o R
           P(k) == FramePlace(U[k], h, {} \cup By(U, k - 1), {} \cup By(U, k))
<1>1. /\ U \in Seq(Frames) /\ Len(U) = Len(R) + 1 /\ Len(R) \in Nat
      /\ U[1] = f /\ \A k \in 1..Len(R) : U[k + 1] = R[k]
  OBVIOUS
<1>2. Own(f) \subseteq Slots
  BY DEF Own, Opener, Frames
<1>3. /\ By(U, 0) = {} /\ By(R, 0) = {}
      /\ \A n \in Nat : By(U, n + 1) = Own(f) \cup By(R, n)
  <2>1. /\ By(U, 0) = {}
        /\ \A n \in Nat : By(U, n + 1) = (Own(f) \cap Slots) \cup By(R, n)
    BY OpenedCons
  <2>2. By(R, 0) = {}
    BY DEF By, OpenedBy
  <2>3. Own(f) \cap Slots = Own(f)
    BY <1>2
  <2> HIDE DEF U
  <2> QED BY <2>1, <2>2, <2>3
<1> HIDE DEF U
<1>4. P(1) <=> FramePlace(f, h, {}, Own(f))
  <2>1. By(U, 0 + 1) = Own(f) \cup By(R, 0)
    <3>1. 0 \in Nat
      OBVIOUS
    <3> QED BY <1>3, <3>1
  <2>2. {} \cup By(U, 1 - 1) = {} /\ {} \cup By(U, 1) = Own(f)
    <3>1. 0 + 1 = 1 /\ 1 - 1 = 0
      OBVIOUS
    <3> QED BY <1>3, <2>1, <3>1
  <2> QED BY <1>1, <2>2
<1>5. ASSUME NEW k \in 1..Len(R)
      PROVE  P(k + 1) <=>
                FramePlace(R[k], h, Own(f) \cup By(R, k - 1), Own(f) \cup By(R, k))
  <2>1. k \in Nat /\ k - 1 \in Nat /\ (k + 1) - 1 = k /\ (k - 1) + 1 = k
    BY <1>1
  <2>2. By(U, k) = Own(f) \cup By(R, k - 1) /\ By(U, k + 1) = Own(f) \cup By(R, k)
    BY <1>3, <2>1
  <2>3. {} \cup By(U, (k + 1) - 1) = Own(f) \cup By(R, k - 1)
        /\ {} \cup By(U, k + 1) = Own(f) \cup By(R, k)
    BY <2>1, <2>2
  <2> QED BY <1>1, <2>3
<1>6. (\A k \in 1..Len(U) : P(k)) <=> P(1) /\ \A k \in 1..Len(R) : P(k + 1)
  <2>1. 1 \in 1..Len(U) /\ \A k \in 1..Len(R) : k + 1 \in 1..Len(U)
    BY <1>1
  <2>2. \A k \in 1..Len(U) : k = 1 \/ (k - 1 \in 1..Len(R) /\ (k - 1) + 1 = k)
    BY <1>1
  <2> HIDE DEF P
  <2> QED BY <2>1, <2>2
<1>7. PlaceOf(U, h) <=> \A k \in 1..Len(U) : P(k)
  BY <1>1, PlaceNone DEF PlaceWith
<1> HIDE DEF P
<1> QED BY <1>4, <1>5, <1>6, <1>7 DEF PlaceWith, U

\* A storage is opened by a search within the frames: it is the last of the
\* hot list.
LEMMA PlaceAdded ==
    ASSUME NEW R, NEW h \in Seq(Slots), NEW s \in Slots, s \notin Elems(h),
           R \in Seq(Frames), PlaceWith(R, h, {})
    PROVE  PlaceWith(R, Append(h, s), {s})
<1> DEFINE u == Append(h, s)
<1>1. /\ Len(h) \in Nat /\ Len(u) = Len(h) + 1
      /\ u[Len(h) + 1] = s /\ \A i \in 1..Len(h) : u[i] = h[i]
  OBVIOUS
<1> HIDE DEF u
<1>2. \A i \in 1..Len(h) : h[i] # s
  BY DEF Elems
<1>3. \A i \in 1..Len(u) : i \in 1..Len(h) \/ (i = Len(h) + 1 /\ u[i] = s)
  BY <1>1
<1>4. ASSUME NEW k \in 1..Len(R)
      PROVE  FramePlace(R[k], u, {s} \cup By(R, k - 1), {s} \cup By(R, k))
  <2> DEFINE f == R[k]
             I == By(R, k - 1)
             A == By(R, k)
  <2>1. FramePlace(f, h, {} \cup I, {} \cup A)
    BY DEF PlaceWith
  <2>2. f \in Frames /\ f.pos \in Nat
    <3>1. f \in Frames
      OBVIOUS
    <3>2. \A g \in Frames : g.pos \in Nat
      BY DEF Frames
    <3> QED BY <3>1, <3>2
  <2> HIDE DEF f, I, A
  <2>3. ASSUME f.stage = "hot"
        PROVE  f.pos <= Len(u) /\ \A i \in 1..f.pos : u[i] \in f.asked \ ({s} \cup I)
    <3>1. f.pos <= Len(h) /\ \A i \in 1..f.pos : h[i] \in f.asked \ ({} \cup I)
      BY <2>1, <2>3 DEF FramePlace
    <3>2. f.pos <= Len(u) /\ \A i \in 1..f.pos : i \in 1..Len(h)
      BY <1>1, <2>2, <3>1
    <3> QED BY <1>1, <1>2, <3>1, <3>2
  <2>4. ASSUME f.stage = "path"
        PROVE  \A i \in 1..Len(u) : u[i] \in f.asked \cup ({s} \cup A)
    BY <1>1, <1>3, <2>1, <2>4 DEF FramePlace
  <2>5. ASSUME Opener(f), NEW i \in 1..Len(u), NEW j \in 1..Len(u), i < j, u[i] = f.src
        PROVE  u[j] \in {s} \cup I
    <3>1. i \in 1..Len(h)
      BY <1>1, <2>5
    <3>2. CASE j \in 1..Len(h)
      BY <1>1, <2>1, <2>5, <3>1, <3>2 DEF FramePlace
    <3> QED BY <1>3, <3>2
  <2> QED BY <2>3, <2>4, <2>5 DEF FramePlace, f, I, A
<1> QED BY <1>4 DEF PlaceWith, u

\* The search that opened the last storage of the hot list closes it.
LEMMA PlaceRemoved ==
    ASSUME NEW R \in Seq(Frames), NEW h \in Seq(Slots), NEW s \in Slots,
           Len(h) >= 1, h[Len(h)] = s, Distinct(h), PlaceWith(R, h, {s}),
           NEW u \in Seq(Slots), Len(u) = Len(h) - 1,
           \A i \in 1..Len(u) : u[i] = h[i]
    PROVE  PlaceWith(R, u, {})
<1>1. Len(h) \in Nat /\ Len(u) \in Nat /\ Len(h) \in 1..Len(h)
      /\ \A i \in 1..Len(u) : i \in 1..Len(h) /\ i # Len(h)
  OBVIOUS
<1>2. \A i \in 1..Len(u) : u[i] = h[i] /\ h[i] # s
  BY <1>1 DEF Distinct
<1>3. ASSUME NEW k \in 1..Len(R)
      PROVE  FramePlace(R[k], u, {} \cup By(R, k - 1), {} \cup By(R, k))
  <2> DEFINE f == R[k]
             I == By(R, k - 1)
             A == By(R, k)
  <2>1. FramePlace(f, h, {s} \cup I, {s} \cup A)
    BY DEF PlaceWith
  <2>2. f \in Frames /\ f.pos \in Nat
    <3>1. f \in Frames
      OBVIOUS
    <3>2. \A g \in Frames : g.pos \in Nat
      BY DEF Frames
    <3> QED BY <3>1, <3>2
  <2> HIDE DEF f, I, A
  <2>3. ASSUME f.stage = "hot"
        PROVE  f.pos <= Len(u) /\ \A i \in 1..f.pos : u[i] \in f.asked \ ({} \cup I)
    <3>1. f.pos <= Len(h) /\ \A i \in 1..f.pos : h[i] \in f.asked \ ({s} \cup I)
      BY <2>1, <2>3 DEF FramePlace
    <3>2. f.pos # Len(h)
      <4>1. f.pos = Len(h) => Len(h) \in 1..f.pos
        BY <1>1
      <4> QED BY <3>1, <4>1
    <3>3. f.pos <= Len(u)
      BY <1>1, <2>2, <3>1, <3>2
    <3>4. \A i \in 1..f.pos : i \in 1..Len(u)
      <4> DEFINE p == f.pos
                 n == Len(u)
      <4>1. p \in Nat /\ n \in Nat /\ p <= n
        BY <1>1, <2>2, <3>3
      <4> HIDE DEF p, n
      <4>2. \A i \in 1..p : i \in 1..n
        BY <4>1
      <4> QED BY <4>2 DEF p, n
    <3> QED BY <1>2, <3>1, <3>3, <3>4
  <2>4. ASSUME f.stage = "path"
        PROVE  \A i \in 1..Len(u) : u[i] \in f.asked \cup ({} \cup A)
    BY <1>1, <1>2, <2>1, <2>4 DEF FramePlace
  <2>5. ASSUME Opener(f), NEW i \in 1..Len(u), NEW j \in 1..Len(u), i < j, u[i] = f.src
        PROVE  u[j] \in {} \cup I
    <3>1. h[j] \in {s} \cup I
      BY <1>1, <1>2, <2>1, <2>5 DEF FramePlace
    <3> QED BY <1>2, <3>1
  <2> QED BY <2>3, <2>4, <2>5 DEF FramePlace, f, I, A
<1> QED BY <1>3 DEF PlaceWith

\* Nobody but the search that opened it uses the storage.
Private(x) == x.mode = "r" /\ ~x.owned /\ x.iters = 0

\* What the frames opened is private, in the storages st.
OwnAll(frames, st) ==
    \A k \in 1..Len(frames) : Opener(frames[k]) => Private(st[frames[k].src])

LEMMA OwnCons ==
    ASSUME NEW R \in Seq(Frames), NEW f \in Frames, NEW st
    PROVE  OwnAll(<<f>> \o R, st) <=> (Opener(f) => Private(st[f.src])) /\ OwnAll(R, st)
<1> DEFINE U == <<f>> \o R
           P(k) == Opener(U[k]) => Private(st[U[k].src])
<1>1. /\ Len(U) = Len(R) + 1 /\ Len(R) \in Nat
      /\ U[1] = f /\ \A k \in 1..Len(R) : U[k + 1] = R[k]
  OBVIOUS
<1> HIDE DEF U
<1>2. (\A k \in 1..Len(U) : P(k)) <=> P(1) /\ \A k \in 1..Len(R) : P(k + 1)
  <2>1. 1 \in 1..Len(U) /\ \A k \in 1..Len(R) : k + 1 \in 1..Len(U)
    BY <1>1
  <2>2. \A k \in 1..Len(U) : k = 1 \/ (k - 1 \in 1..Len(R) /\ (k - 1) + 1 = k)
    BY <1>1
  <2>3. ASSUME P(1), \A k \in 1..Len(R) : P(k + 1), NEW k \in 1..Len(U) PROVE P(k)
    <3>1. CASE k = 1
      BY <2>3, <3>1
    <3>2. CASE k # 1
      <4>1. k - 1 \in 1..Len(R) /\ (k - 1) + 1 = k
        BY <2>2, <3>2
      <4>2. P((k - 1) + 1)
        BY <2>3, <4>1
      <4> QED BY <4>1, <4>2
    <3> QED BY <3>1, <3>2
  <2> HIDE DEF P
  <2> QED BY <2>1, <2>3
<1> QED BY <1>1, <1>2 DEF OwnAll, U

\* The frames, storages and hot list fit together: what SearchExact says.
SearchOf(frames, st, h) == OwnAll(frames, st) /\ PlaceOf(frames, h)

LEMMA SearchParts == SearchExact <=> SearchOf(stack, storage, hot)
  BY DEF SearchExact, OpenersOwn, PlaceExact, SearchOf, OwnAll, Private

LEMMA SearchNextParts == ASSUME SearchOf(stack', storage', hot') PROVE SearchExact'
  BY DEF SearchExact, OpenersOwn, PlaceExact, SearchOf, OwnAll, Private,
         PlaceOf, OpenedBy, Opener

LEMMA SearchEmpty == ASSUME NEW st, NEW h PROVE SearchOf(<<>>, st, h)
<1>1. Len(<<>>) = 0
  OBVIOUS
<1> QED BY <1>1 DEF SearchOf, OwnAll, PlaceOf

\* A frame on top of others, which it serves
LEMMA SearchCons ==
    ASSUME NEW R \in Seq(Frames), NEW f \in Frames, NEW h \in Seq(Slots), NEW st
    PROVE  SearchOf(<<f>> \o R, st, h) <=>
              /\ Opener(f) => Private(st[f.src])
              /\ OwnAll(R, st)
              /\ FramePlace(f, h, {}, Own(f))
              /\ PlaceWith(R, h, Own(f))
  BY OwnCons, PlaceCons DEF SearchOf

\* A search that starts has not asked anything.
LEMMA SearchBegun ==
    ASSUME NEW R \in Seq(Frames), NEW h \in Seq(Slots), NEW st, SearchOf(R, st, h),
           NEW id \in Ids, Begin(id, R)
    PROVE  SearchOf(stack', st, h)
<1>1. CASE id \in mem
  BY <1>1 DEF Begin
<1>2. CASE id \notin mem
  <2> DEFINE f == Frame(id, "hot", NULL)
  <2>1. stack' = <<f>> \o R
    BY <1>2 DEF Begin
  <2>2. f \in Frames /\ f.src = NULL /\ f.stage = "hot" /\ f.pos = 0
    BY DEF Frame, Frames
  <2> HIDE DEF f
  <2>3. ~Opener(f) /\ Own(f) = {}
    BY <2>2 DEF Opener, Own
  <2>4. FramePlace(f, h, {}, {})
    BY <2>2, <2>3 DEF FramePlace
  <2>5. PlaceWith(R, h, {}) /\ OwnAll(R, st)
    BY PlaceNone DEF SearchOf
  <2> QED BY <2>1, <2>2, <2>3, <2>4, <2>5, SearchCons
<1> QED BY <1>1, <1>2

\* What SearchExact says of the innermost frame and those that wait for it.
LEMMA SearchTop ==
    ASSUME IInv, SearchExact, stack # <<>>
    PROVE  /\ hot \in Seq(Slots) /\ Distinct(hot)
           /\ Top \in Frames /\ Tail(stack) \in Seq(Frames)
           /\ Opener(Top) => Private(storage[Top.src])
           /\ OwnAll(Tail(stack), storage)
           /\ FramePlace(Top, hot, {}, Own(Top))
           /\ PlaceWith(Tail(stack), hot, Own(Top))
<1> DEFINE R == Tail(stack)
<1>1. stack \in Seq(Frames) /\ hot \in Seq(Slots) /\ Distinct(hot)
  BY Parts, HotElems DEF StorageInv
<1>2. stack = <<Top>> \o R /\ Top \in Frames /\ R \in Seq(Frames)
  BY <1>1 DEF Top
<1> HIDE DEF R
<1>3. SearchOf(<<Top>> \o R, storage, hot)
  BY <1>2, SearchParts
<1>4. /\ Opener(Top) => Private(storage[Top.src])
      /\ OwnAll(R, storage)
      /\ FramePlace(Top, hot, {}, Own(Top))
      /\ PlaceWith(R, hot, Own(Top))
  BY <1>1, <1>2, <1>3, SearchCons
<1> QED BY <1>1, <1>2, <1>4 DEF R

\* Storages that are open are used in the same way.
SameUse ==
    \A s \in Open : /\ storage'[s].mode = storage[s].mode
                    /\ storage'[s].owned = storage[s].owned
                    /\ storage'[s].iters = storage[s].iters

LEMMA OwnKept ==
    ASSUME NEW R, Waiting(R, Open), OwnAll(R, storage), SameUse
    PROVE  OwnAll(R, storage')
<1>1. \A k \in 1..Len(R) : R[k].src \in Open \cup {NULL}
  BY DEF Waiting, StackOf
<1> QED BY <1>1 DEF OwnAll, Opener, Private, SameUse

LEMMA CacheUse ==
    ASSUME IInv, NEW s \in Open, NEW id \in Ids, NEW v \in CacheValues,
           storage' = [storage EXCEPT ![s].cache[id] = v]
    PROVE  SameUse
<1>1. /\ storage \in [Slots -> {NULL} \cup Storages] /\ s \in Slots
      /\ \A t \in Open : t \in Slots /\ storage[t] \in Storages
  BY Parts DEF StorageInv, Open
<1> QED BY <1>1 DEF SameUse, Storages

\* The innermost frame changes, and neither what it has opened nor the hot list.
LEMMA SearchKept ==
    ASSUME IInv, SearchExact, stack # <<>>, NEW f \in Frames, stack' = Under(f),
           UNCHANGED hot, SameUse, Own(f) = Own(Top), FramePlace(f, hot, {}, Own(f))
    PROVE  SearchExact'
<1> DEFINE R == Tail(stack)
<1>1. /\ hot \in Seq(Slots) /\ R \in Seq(Frames) /\ OwnAll(R, storage)
      /\ Opener(Top) => Private(storage[Top.src])
      /\ PlaceWith(R, hot, Own(f)) /\ Waiting(R, Open) /\ Top.src \in Open \cup {NULL}
  BY SearchTop, TopParts
<1>2. stack' = <<f>> \o R
  BY DEF Under
<1> HIDE DEF R
<1>3. OwnAll(R, storage')
  BY <1>1, OwnKept
<1>4. Opener(f) => Opener(Top) /\ f.src = Top.src /\ Top.src \in Open
  BY <1>1 DEF Own, Opener
<1>5. Opener(f) => Private(storage'[f.src])
  BY <1>1, <1>4 DEF Private, SameUse
<1>6. SearchOf(stack', storage', hot')
  BY <1>1, <1>2, <1>3, <1>5, SearchCons
<1> QED BY <1>6, SearchNextParts

\* Its place is the same when its position is.
LEMMA SamePlace ==
    ASSUME NEW x, NEW f, NEW h, FramePlace(x, h, {}, Own(x)),
           f.stage = x.stage, f.pos = x.pos, f.asked = x.asked, f.src = x.src
    PROVE  FramePlace(f, h, {}, Own(f)) /\ Own(f) = Own(x)
  BY DEF FramePlace, Own, Opener

\* A step that leaves storages and hot list alone
LEMMA KeptUse == ASSUME UNCHANGED storage PROVE SameUse
  BY DEF SameUse

\* The innermost frame returns and has not opened anything.
LEMMA SearchReturned ==
    ASSUME IInv, SearchExact, stack # <<>>, stack' = Tail(stack), ~Opener(Top),
           UNCHANGED <<storage, hot>>
    PROVE  SearchExact'
<1> DEFINE R == Tail(stack)
<1>1. /\ hot \in Seq(Slots) /\ R \in Seq(Frames) /\ OwnAll(R, storage)
      /\ PlaceWith(R, hot, Own(Top)) /\ Own(Top) = {}
  BY SearchTop DEF Own
<1> HIDE DEF R
<1>2. SearchOf(R, storage, hot)
  BY <1>1, PlaceNone DEF SearchOf
<1> QED BY <1>2, SearchNextParts DEF R

LEMMA NextHotSearch == ASSUME IInv, SearchExact, NextHot PROVE SearchExact'
<1> DEFINE p == Top.pos + 1
           h == hot[p]
           a == Top.asked \cup {h}
           f == [Top EXCEPT !.pos = p, !.src = h, !.asked = a]
           g == [Top EXCEPT !.stage = "path"]
<1>1. /\ stack # <<>> /\ ret = NULL /\ Top.stage = "hot" /\ Top.src = NULL
      /\ UNCHANGED <<storage, hot>>
      /\ stack' = Under(IF Top.pos < Len(hot) THEN f ELSE g)
  BY DEF NextHot, Running, hotlist
<1>2. /\ hot \in Seq(Slots) /\ Top \in Frames /\ FramePlace(Top, hot, {}, Own(Top))
      /\ SameUse
  BY <1>1, SearchTop, KeptUse
<1>3. /\ Top.pos \in Nat /\ Top.asked \in SUBSET Slots /\ Own(Top) = {}
      /\ Top.pos <= Len(hot) /\ \A i \in 1..Top.pos : hot[i] \in Top.asked
  BY <1>1, <1>2 DEF Frames, Own, Opener, FramePlace
<1>4. CASE Top.pos < Len(hot)
  <2>1. p \in 1..Len(hot) /\ p \in Nat /\ p <= Len(hot)
        /\ \A i \in 1..p : i \in 1..Top.pos \/ i = p
    BY <1>2, <1>3, <1>4
  <2>2. h \in Slots
    BY <1>2, <2>1
  <2>3. a \in SUBSET Slots /\ \A i \in 1..p : hot[i] \in a
    BY <1>3, <2>1, <2>2
  <2> HIDE DEF p, h, a
  <2>4. f \in Frames /\ f.pos = p /\ f.asked = a /\ f.stage = "hot"
    BY <1>1, <1>2, <2>1, <2>2, <2>3 DEF Frames
  <2>5. Own(f) = Own(Top) /\ ~Opener(f)
    BY <1>3, <2>4 DEF Own, Opener
  <2>6. stack' = Under(f)
    BY <1>1, <1>4
  <2> HIDE DEF f
  <2>7. FramePlace(f, hot, {}, Own(f))
    BY <2>1, <2>3, <2>4, <2>5 DEF FramePlace
  <2> QED BY <1>1, <1>2, <2>4, <2>5, <2>6, <2>7, SearchKept
<1>5. CASE ~(Top.pos < Len(hot))
  <2>1. g \in Frames /\ g.asked = Top.asked /\ g.stage = "path" /\ g.src = NULL
    BY <1>1, <1>2 DEF Frames
  <2>2. Own(g) = Own(Top) /\ ~Opener(g)
    BY <1>3, <2>1 DEF Own, Opener
  <2>3. Top.pos = Len(hot)
    BY <1>2, <1>3, <1>5
  <2>4. stack' = Under(g)
    BY <1>1, <1>5
  <2> HIDE DEF g
  <2>5. FramePlace(g, hot, {}, Own(g))
    BY <1>3, <2>1, <2>2, <2>3 DEF FramePlace
  <2> QED BY <1>1, <1>2, <2>1, <2>2, <2>4, <2>5, SearchKept
<1> QED BY <1>4, <1>5

\* A storage on the path is opened for the search, and is the last of the hot list.
LEMMA NextPathSearch ==
    ASSUME IInv, SearchExact, NEW s \in Slots, NextPath(s) PROVE SearchExact'
<1> DEFINE p == Top.path + 1
           l == Path[p]
           m == "r"
           own == FALSE
           x == NewStorage(l, m, own)
           f == [Top EXCEPT !.path = p, !.src = s]
           R == Tail(stack)
<1>1. /\ stack # <<>> /\ Top.stage = "path" /\ Top.src = NULL
      /\ Top.path < Len(Path) /\ OpenAt(s, l, m, own) /\ stack' = Under(f)
      /\ UNCHANGED file
  BY DEF NextPath, OnPath, Running
<1>2. /\ StorageInv /\ Top \in Frames /\ R \in Seq(Frames) /\ Waiting(R, Open)
      /\ hot \in Seq(Slots) /\ OwnAll(R, storage)
      /\ FramePlace(Top, hot, {}, Own(Top)) /\ PlaceWith(R, hot, Own(Top))
  BY <1>1, TopParts, SearchTop
<1>3. p \in 0..Len(Path) /\ l \in Locs
  <2>1. Top.path \in 0..Len(Path) /\ Len(Path) \in Nat
    BY <1>2 DEF Frames
  <2>2. p \in 1..Len(Path) /\ p \in 0..Len(Path)
    BY <1>1, <2>1
  <2> QED BY <2>2
<1>4. hot' = Append(hot, s)
  BY <1>1 DEF OpenAt, HotAdd
<1>5. m \in {"r", "w", "a"} /\ own \in BOOLEAN /\ own = FALSE /\ m = "r"
  OBVIOUS
<1> HIDE DEF p, l, m, own, R
<1>6. s \notin Open /\ storage'[s] = x /\ Others(s)
  BY <1>1, <1>2, <1>3, <1>5, OpenAtInv
<1>7. s \notin Elems(hot)
  BY <1>2, <1>6, HotElems DEF StorageInv
<1>8. f \in Frames /\ f.src = s /\ f.stage = "path" /\ f.asked = Top.asked
  BY <1>1, <1>2, <1>3 DEF Frames
<1>9. stack' = <<f>> \o R
  BY <1>1 DEF Under, R
<1> HIDE DEF f
<1>10. Own(Top) = {} /\ Own(f) = {s} /\ Opener(f)
  BY <1>1, <1>8 DEF Own, Opener
<1>11. Private(x)
  BY <1>5 DEF Private, NewStorage
<1>12. SameUse
  BY <1>6 DEF SameUse, Others, Open
<1>13. OwnAll(R, storage')
  BY <1>2, <1>12, OwnKept
<1>14. PlaceWith(R, hot', {s})
  BY <1>2, <1>4, <1>7, <1>10, PlaceAdded
<1>15. FramePlace(f, hot', {}, {s})
  <2>1. /\ Len(hot) \in Nat /\ Len(hot') = Len(hot) + 1
        /\ hot'[Len(hot) + 1] = s /\ \A i \in 1..Len(hot) : hot'[i] = hot[i]
    BY <1>2, <1>4
  <2>2. \A i \in 1..Len(hot) : hot[i] # s /\ hot[i] \in Top.asked
    BY <1>1, <1>2, <1>7, <1>10 DEF FramePlace, Elems
  <2>3. \A i \in 1..Len(hot') : i \in 1..Len(hot) \/ i = Len(hot) + 1
    BY <2>1
  <2>4. \A i \in 1..Len(hot') : hot'[i] \in f.asked \cup {s}
    BY <1>8, <2>1, <2>2, <2>3
  <2>5. ASSUME NEW i \in 1..Len(hot'), NEW j \in 1..Len(hot'), i < j PROVE hot'[i] # s
    <3>1. i \in 1..Len(hot)
      BY <2>1, <2>5
    <3> QED BY <2>1, <2>2, <3>1
  <2> QED BY <1>8, <2>4, <2>5 DEF FramePlace
<1>16. hot' \in Seq(Slots)
  BY <1>2, <1>4
<1>17. SearchOf(stack', storage', hot')
  BY <1>2, <1>6, <1>8, <1>9, <1>10, <1>11, <1>13, <1>14, <1>15, <1>16, SearchCons
<1> QED BY <1>17, SearchNextParts

\* A sequence without its last element
LEMMA AllButLast ==
    ASSUME NEW S, NEW q \in Seq(S), Len(q) >= 1
    PROVE  LET u == SubSeq(q, 1, Len(q) - 1)
           IN  /\ u \in Seq(S) /\ Len(u) = Len(q) - 1
               /\ \A i \in 1..Len(u) : u[i] = q[i]
<1> DEFINE n == Len(q) - 1
           u == SubSeq(q, 1, n)
<1>1. 1 \in Int /\ n \in Nat /\ \A i \in 1..n : q[i] \in S
  OBVIOUS
<1> HIDE DEF n
<1>2. /\ u \in Seq(S)
      /\ Len(u) = IF 1 <= n THEN n - 1 + 1 ELSE 0
      /\ \A i \in 1..(n - 1 + 1) : u[i] = q[1 + i - 1]
  BY <1>1, SubSeqProperties
<1> HIDE DEF u
<1>3. Len(u) = n /\ \A i \in 1..n : u[i] = q[i]
  BY <1>1, <1>2
<1> QED BY <1>2, <1>3 DEF u, n

\* The last storage of the hot list is removed: the others stay where they are.
LEMMA LastRemoved ==
    ASSUME hot \in Seq(Slots), Distinct(hot), Len(hot) >= 1, NEW s,
           hot[Len(hot)] = s, HotRemove(s)
    PROVE  /\ hot' \in Seq(Slots) /\ Len(hot') = Len(hot) - 1
           /\ \A i \in 1..Len(hot') : hot'[i] = hot[i]
<1> DEFINE n == Len(hot)
           e == [hot EXCEPT ![Index(s)] = hot[n]]
<1>1. n \in Nat /\ n \in 1..n /\ n - 1 \in Nat
  OBVIOUS
<1>2. Index(s) = n
  BY <1>1 DEF Index, Distinct
<1>3. e = hot
  BY <1>1, <1>2
<1>4. hot' = SubSeq(hot, 1, n - 1)
  BY <1>3 DEF HotRemove
<1> QED BY <1>4, AllButLast

\* The search closes the storage that it opened: the last of the hot list.
LEMMA AnsweredCloseSearch ==
    ASSUME IInv, SearchExact, Answered, Top.stage \in {"path", "opened"}
    PROVE  SearchExact' /\ UNCHANGED file
<1> DEFINE s == Top.src
           x == storage[s]
           R == Tail(stack)
           g == [Top EXCEPT !.src = NULL, !.res = NULL]
<1>1. /\ stack # <<>> /\ Top.res # NULL /\ CloseAs(s, x)
      /\ \/ stack' = <<g>> \o R /\ Top.stage = "path"
         \/ stack' = R
  BY DEF Answered, Running, Under, Return
<1>2. /\ StorageInv /\ R \in Seq(Frames) /\ Waiting(R, Open)
      /\ s # NULL /\ Opener(Top) /\ \A k \in 1..Len(R) : R[k].src # s
      /\ hot \in Seq(Slots) /\ Distinct(hot) /\ Private(x) /\ OwnAll(R, storage)
      /\ Top \in Frames /\ FramePlace(Top, hot, {}, Own(Top))
      /\ PlaceWith(R, hot, Own(Top))
      /\ SearchedIn(stack, s)
  BY <1>1, TopParts, SearchTop DEF Opener
<1>3. s \in Open /\ s \in Slots /\ x \in Storages /\ Own(Top) = {s}
  BY <1>1, <1>2, AskParts DEF Own
<1>4. ~(x.refcount > 1)
  <2>1. CountOf(x, 1)
    BY <1>2, <1>3, Parts, SearchesValue
  <2>2. x.refcount = 0 + 0 + 1
    BY <1>2, <2>1 DEF CountOf, Private, One
  <2> QED BY <2>2
<1>5. /\ storage' = [storage EXCEPT ![s] = NULL] /\ file' = file /\ HotRemove(s)
  BY <1>1, <1>2, <1>4 DEF CloseAs, Private, Written, Readable
<1>6. g \in Frames /\ g.src = NULL /\ g.stage = Top.stage /\ g.asked = Top.asked
  BY <1>2 DEF Frames
<1> HIDE DEF s, x, R, g
<1>7. Len(hot) \in Nat /\ Len(hot) >= 1 /\ hot[Len(hot)] = s
  <2>1. s \in Elems(hot)
    BY <1>2, <1>3, HotElems DEF StorageInv, Private, Readable, x
  <2>2. PICK i \in 1..Len(hot) : hot[i] = s
    BY <2>1 DEF Elems
  <2>3. \A j \in 1..Len(hot) : ~(i < j)
    BY <1>2, <2>2 DEF FramePlace, s
  <2>4. Len(hot) \in 1..Len(hot) /\ Len(hot) \in Nat
    BY <1>2, <2>2
  <2>5. i = Len(hot)
    BY <2>2, <2>3, <2>4
  <2> QED BY <2>2, <2>4, <2>5
<1>8. /\ hot' \in Seq(Slots) /\ Len(hot') = Len(hot) - 1
      /\ \A i \in 1..Len(hot') : hot'[i] = hot[i]
  BY <1>2, <1>5, <1>7, LastRemoved
<1>9. PlaceWith(R, hot', {})
  <2> DEFINE u == hot'
  <2>1. u \in Seq(Slots) /\ Len(u) = Len(hot) - 1
        /\ \A i \in 1..Len(u) : u[i] = hot[i]
    BY <1>8
  <2>2. /\ R \in Seq(Frames) /\ hot \in Seq(Slots) /\ s \in Slots
        /\ Distinct(hot) /\ PlaceWith(R, hot, {s})
    BY <1>2, <1>3
  <2> HIDE DEF u
  <2>3. PlaceWith(R, u, {})
    BY <1>7, <2>1, <2>2, PlaceRemoved
  <2> QED BY <2>3 DEF u
<1>10. OwnAll(R, storage')
  <2>1. \A t \in Slots : t # s => storage'[t] = storage[t]
    BY <1>2, <1>3, <1>5 DEF StorageInv
  <2>2. \A k \in 1..Len(R) : R[k].src \in Open \cup {NULL}
    BY <1>2 DEF Waiting, StackOf
  <2>3. Open \subseteq Slots
    BY DEF Open
  <2> QED BY <1>2, <2>1, <2>2, <2>3 DEF OwnAll, Opener
<1>11. CASE stack' = <<g>> \o R /\ Top.stage = "path"
  <2>1. ~Opener(g) /\ Own(g) = {}
    BY <1>6 DEF Opener, Own
  <2>2. \A i \in 1..Len(hot') : i \in 1..Len(hot) /\ i # Len(hot)
    BY <1>7, <1>8
  <2>3. \A i \in 1..Len(hot) : hot[i] \in Top.asked \cup {s}
    BY <1>2, <1>3, <1>11 DEF FramePlace
  <2>4. \A i \in 1..Len(hot') : hot'[i] \in g.asked
    <3> SUFFICES ASSUME NEW i \in 1..Len(hot') PROVE hot'[i] \in g.asked
      OBVIOUS
    <3>1. hot[i] # s
      <4>1. Len(hot) \in 1..Len(hot)
        BY <1>7
      <4> QED BY <1>2, <1>7, <2>2, <4>1 DEF Distinct
    <3> QED BY <1>6, <1>8, <2>2, <2>3, <3>1
  <2>5. FramePlace(g, hot', {}, {})
    BY <1>6, <1>11, <2>1, <2>4 DEF FramePlace
  <2>6. SearchOf(stack', storage', hot')
    BY <1>2, <1>6, <1>8, <1>9, <1>10, <1>11, <2>1, <2>5, SearchCons
  <2> QED BY <1>5, <2>6, SearchNextParts
<1>12. CASE stack' = R
  <2>1. SearchOf(stack', storage', hot')
    BY <1>2, <1>8, <1>9, <1>10, <1>12, PlaceNone DEF SearchOf
  <2> QED BY <1>5, <2>1, SearchNextParts
<1> QED BY <1>1, <1>11, <1>12 DEF s, x, R, g

\* The search goes on, or returns, without having opened anything.
LEMMA AnsweredKeepSearch ==
    ASSUME IInv, SearchExact, Answered, Top.stage \notin {"path", "opened"}
    PROVE  SearchExact'
<1> DEFINE g == [Top EXCEPT !.src = NULL, !.res = NULL]
<1>1. /\ stack # <<>> /\ UNCHANGED <<storage, hot>>
      /\ \/ stack' = Under(g)
         \/ stack' = Tail(stack)
  BY DEF Answered, Running, hotlist, Return
<1>2. Top \in Frames /\ FramePlace(Top, hot, {}, Own(Top)) /\ ~Opener(Top)
  BY <1>1, SearchTop DEF Opener
<1>3. g \in Frames /\ g.stage = Top.stage /\ g.pos = Top.pos /\ g.asked = Top.asked
      /\ g.src = NULL
  BY <1>2 DEF Frames
<1> HIDE DEF g
<1>4. Own(g) = Own(Top) /\ ~Opener(g)
  BY <1>2, <1>3 DEF Own, Opener
<1>5. FramePlace(g, hot, {}, Own(g))
  BY <1>2, <1>3, <1>4 DEF FramePlace
<1> QED BY <1>1, <1>2, <1>3, <1>4, <1>5, SearchKept, SearchReturned, KeptUse

\* The innermost frame gets its answer, or goes on along the path.
LEMMA AnswerSearch ==
    ASSUME IInv, SearchExact, SkipPath \/ LoadCached \/ LoadMissing \/ MetaReturned
    PROVE  SearchExact'
<1>1. stack # <<>> /\ UNCHANGED hot
  BY DEF SkipPath, OnPath, Running, LoadCached, LoadMissing, Asking, MetaReturned, hotlist
<1>2. /\ Top \in Frames /\ FramePlace(Top, hot, {}, Own(Top))
      /\ Top.id \in Ids /\ Top.src \in Open \cup {NULL}
  BY <1>1, SearchTop, TopParts DEF Frames
<1>3. ASSUME NEW f \in Frames, stack' = Under(f), SameUse,
             f.stage = Top.stage, f.pos = Top.pos, f.asked = Top.asked, f.src = Top.src
      PROVE  SearchExact'
  BY <1>1, <1>2, <1>3, SamePlace, SearchKept
\* The answer v, with or without an entry in the cache
<1>4. ASSUME NEW v \in Results, stack' = Under(HasAnswer(Top, v)), SameUse
      PROVE  SearchExact'
  <2> DEFINE f == HasAnswer(Top, v)
  <2>1. f \in Frames
    BY <1>2, ResultFrame
  <2>2. f.stage = Top.stage /\ f.pos = Top.pos /\ f.asked = Top.asked /\ f.src = Top.src
    BY <1>2 DEF Frames, HasAnswer
  <2> HIDE DEF f
  <2>3. stack' = Under(f)
    BY <1>4 DEF f
  <2> QED BY <1>3, <1>4, <2>1, <2>2, <2>3
<1>5. ASSUME NEW v \in Results, SetCache(v), Top.src # NULL PROVE SameUse
  <2>1. v \in CacheValues /\ Top.src \in Open
    BY <1>2, <1>5 DEF Results, CacheValues
  <2>2. storage' = [storage EXCEPT ![Top.src].cache[Top.id] = v]
    BY <1>5 DEF SetCache
  <2> QED BY <1>2, <2>1, <2>2, CacheUse
<1>6. CASE SkipPath
  <2> DEFINE p == Top.path + 1
             f == [Top EXCEPT !.path = p]
  <2>1. stack' = Under(f) /\ Top.path < Len(Path) /\ UNCHANGED storage
    BY <1>6 DEF SkipPath
  <2>2. p \in 0..Len(Path)
    <3>1. Top.path \in 0..Len(Path)
      BY <1>2 DEF Frames
    <3> QED BY <2>1, <3>1
  <2> HIDE DEF p
  <2>3. f \in Frames /\ f.stage = Top.stage /\ f.pos = Top.pos /\ f.asked = Top.asked
        /\ f.src = Top.src
    BY <1>2, <2>2 DEF Frames
  <2> HIDE DEF f
  <2> QED BY <1>3, <2>1, <2>3, KeptUse
<1>7. CASE LoadCached
  <2> DEFINE v == Cached
  <2>1. /\ Top.src # NULL /\ v # "absent" /\ ~Top.wait /\ UNCHANGED storage
        /\ stack' = Under([Top EXCEPT !.res = v])
    BY <1>7 DEF LoadCached, Asking
  <2>2. v \in Results
    <3>1. storage[Top.src] \in Storages
      BY <1>1, <2>1, AskParts
    <3> QED BY <1>2, <2>1, <3>1 DEF Cached, Storages, CacheValues, Results
  <2> HIDE DEF v
  <2>3. stack' = Under(HasAnswer(Top, v))
    BY <1>2, <2>1, <2>2, ResultFrame
  <2> QED BY <1>4, <2>1, <2>2, <2>3, KeptUse
<1>8. CASE LoadMissing
  <2> DEFINE v == "none"
  <2>1. /\ Top.src # NULL /\ ~Top.wait /\ SetCache(v)
        /\ stack' = Under([Top EXCEPT !.res = v])
    BY <1>8 DEF LoadMissing, Asking
  <2>2. v \in Results
    BY DEF Results
  <2> HIDE DEF v
  <2>3. stack' = Under(HasAnswer(Top, v))
    BY <1>2, <2>1, <2>2, ResultFrame
  <2> QED BY <1>4, <1>5, <2>1, <2>2, <2>3
<1>9. CASE MetaReturned
  <2> DEFINE v == IF ret.val # "none" /\ Top.id \notin Broken THEN "inst" ELSE "none"
  <2>1. ret # NULL /\ SetCache(v) /\ stack' = Under(HasAnswer(Top, v))
    BY <1>9 DEF MetaReturned, HasAnswer
  <2>2. Top.src # NULL
    BY <1>1, <2>1, TopParts
  <2>3. v \in Results
    BY DEF Results
  <2> HIDE DEF v
  <2> QED BY <1>4, <1>5, <2>1, <2>2, <2>3
<1> QED BY <1>6, <1>7, <1>8, <1>9

\* A search within the innermost one starts.
LEMMA LoadStoredSearch == ASSUME IInv, SearchExact, LoadStored PROVE SearchExact'
<1> DEFINE v == "none"
           g == [Top EXCEPT !.wait = TRUE]
           R == Tail(stack)
           m == MetaOf[Top.id]
           U == <<g>> \o R
<1>1. /\ stack # <<>> /\ Top.src # NULL /\ SetCache(v) /\ UNCHANGED hot
      /\ IF m = NULL THEN stack' = U ELSE Begin(m, U)
  BY DEF LoadStored, Asking, Running, hotlist, Under
<1>2. /\ Top \in Frames /\ Top.src \in Open /\ Top.id \in Ids
      /\ hot \in Seq(Slots) /\ R \in Seq(Frames) /\ Waiting(R, Open)
      /\ OwnAll(R, storage)
      /\ Opener(Top) => Private(storage[Top.src])
      /\ FramePlace(Top, hot, {}, Own(Top)) /\ PlaceWith(R, hot, Own(Top))
  BY <1>1, TopParts, SearchTop DEF Frames
<1>3. SameUse
  <2>1. v \in CacheValues /\ storage' = [storage EXCEPT ![Top.src].cache[Top.id] = v]
    BY <1>1 DEF SetCache, CacheValues
  <2> HIDE DEF v
  <2> QED BY <1>2, <2>1, CacheUse
<1>4. /\ g \in Frames /\ g.stage = Top.stage /\ g.pos = Top.pos
      /\ g.asked = Top.asked /\ g.src = Top.src
  BY <1>2 DEF Frames
<1>5. m # NULL => m \in Ids
  BY <1>2
<1>6. U \in Seq(Frames)
  BY <1>2, <1>4
<1> HIDE DEF g, R, m
<1>7. FramePlace(g, hot, {}, Own(g)) /\ Own(g) = Own(Top)
  BY <1>2, <1>4, SamePlace
<1>8. Opener(g) => Private(storage'[g.src])
  BY <1>2, <1>3, <1>4 DEF Opener, SameUse, Private
<1>9. OwnAll(R, storage')
  BY <1>2, <1>3, OwnKept
<1>10. SearchOf(U, storage', hot)
  BY <1>2, <1>4, <1>7, <1>8, <1>9, SearchCons
<1> HIDE DEF U
<1>11. SearchOf(stack', storage', hot)
  BY <1>1, <1>2, <1>5, <1>6, <1>10, SearchBegun
<1> QED BY <1>1, <1>11, SearchNextParts

\* A search starts when nothing else is searched for.
LEMMA ApplicationSearch == ASSUME IInv, Api PROVE SearchExact'
<1>1. stack = <<>> /\ hot \in Seq(Slots) /\ StorageInv
  <2>1. Idle
    BY DEF Api, OpenStorage, CloseStorage, IterCreate, IterFree, CreateInstance,
           FreeInstance, Save, Get, Load, LoadLoc
  <2> QED BY <2>1, IdleParts DEF StorageInv
<1>2. ASSUME UNCHANGED stack PROVE SearchExact'
  BY <1>1, <1>2, SearchEmpty, SearchNextParts
<1>3. ASSUME NEW id \in AskIds, Get(id) PROVE SearchExact'
  <2> DEFINE R == <<>>
  <2>1. Begin(id, R) /\ UNCHANGED hot /\ id \in Ids /\ R \in Seq(Frames)
    BY <1>3 DEF Get, hotlist
  <2>2. SearchOf(R, storage', hot)
    BY SearchEmpty
  <2> HIDE DEF R
  <2>3. SearchOf(stack', storage', hot)
    BY <1>1, <2>1, <2>2, SearchBegun
  <2> QED BY <2>1, <2>3, SearchNextParts
\* A search in the storage s only
<1>4. ASSUME NEW id \in Ids, NEW stage \in {"given", "opened"}, NEW s \in Slots,
             stack' = <<Frame(id, stage, s)>>, hot' \in Seq(Slots),
             stage = "opened" =>
                /\ Private(storage'[s])
                /\ \A i, j \in 1..Len(hot') : i < j => hot'[i] # s
      PROVE  SearchExact'
  <2> DEFINE f == Frame(id, stage, s)
             R == <<>>
  <2>1. f \in Frames /\ f.src = s /\ f.stage = stage
    BY DEF Frame, Frames
  <2>2. R \in Seq(Frames) /\ stack' = <<f>> \o R /\ SearchOf(R, storage', hot')
    BY <1>4, <2>1, SearchEmpty
  <2> HIDE DEF f, R
  <2>3. Opener(f) => stage = "opened"
    BY <2>1 DEF Opener
  <2>4. Opener(f) => Private(storage'[f.src])
    BY <1>4, <2>1, <2>3
  <2>5. FramePlace(f, hot', {}, Own(f))
    BY <1>4, <2>1, <2>3 DEF FramePlace
  <2>6. OwnAll(R, storage') /\ PlaceWith(R, hot', Own(f))
    <3>1. Len(R) = 0
      BY DEF R
    <3> QED BY <3>1 DEF OwnAll, PlaceWith
  <2> DEFINE h == hot'
             st == storage'
  <2>7. /\ R \in Seq(Frames) /\ f \in Frames /\ h \in Seq(Slots)
        /\ Opener(f) => Private(st[f.src])
        /\ OwnAll(R, st) /\ FramePlace(f, h, {}, Own(f)) /\ PlaceWith(R, h, Own(f))
    BY <1>4, <2>1, <2>2, <2>4, <2>5, <2>6
  <2> HIDE DEF h, st
  <2>8. SearchOf(<<f>> \o R, st, h)
    BY <2>7, SearchCons
  <2> QED BY <2>2, <2>8, SearchNextParts DEF h, st
<1>5. ASSUME NEW s \in Slots, NEW id \in AskIds, Load(s, id) PROVE SearchExact'
  BY <1>1, <1>4, <1>5 DEF Load, hotlist
<1>6. ASSUME NEW s \in Slots, NEW id \in AskIds, NEW l \in Locs, LoadLoc(s, l, id)
      PROVE  SearchExact'
  <2> DEFINE m == "r"
             own == FALSE
             x == NewStorage(l, m, own)
  <2>1. OpenAt(s, l, m, own) /\ stack' = <<Frame(id, "opened", s)>> /\ UNCHANGED file
        /\ id \in Ids
    BY <1>6 DEF LoadLoc
  <2>2. hot' = Append(hot, s)
    BY <2>1 DEF OpenAt, HotAdd
  <2>3. m \in {"r", "w", "a"} /\ own \in BOOLEAN /\ own = FALSE /\ m = "r"
    OBVIOUS
  <2> HIDE DEF m, own
  <2>4. s \notin Open /\ storage'[s] = x
    BY <1>1, <2>1, <2>3, OpenAtInv
  <2>5. Private(x)
    BY <2>3 DEF Private, NewStorage
  <2>6. s \notin Elems(hot)
    BY <1>1, <2>4, HotElems DEF StorageInv
  <2>7. ASSUME NEW i \in 1..Len(hot'), NEW j \in 1..Len(hot'), i < j PROVE hot'[i] # s
    <3>1. i \in 1..Len(hot) /\ hot'[i] = hot[i]
      BY <1>1, <2>2, <2>7
    <3> QED BY <2>6, <3>1 DEF Elems
  <2>8. hot' \in Seq(Slots)
    BY <1>1, <2>2
  <2> QED BY <1>4, <2>1, <2>4, <2>5, <2>7, <2>8
<1>7. UNCHANGED stack
      \/ (\E id \in AskIds : Get(id))
      \/ (\E s \in Slots, id \in AskIds : Load(s, id))
      \/ (\E s \in Slots, id \in AskIds, l \in Locs : LoadLoc(s, l, id))
  BY DEF Api, OpenStorage, CloseStorage, IterCreate, IterFree, CreateInstance,
         FreeInstance, Save
<1> QED BY <1>2, <1>3, <1>5, <1>6, <1>7

LEMMA SearchInv ==
    ASSUME IInv, SearchExact, [Next]_vars PROVE SearchExact'
<1>1. CASE Api
  BY <1>1, ApplicationSearch
<1>2. CASE NotFound
  <2>1. /\ stack # <<>> /\ stack' = Tail(stack) /\ Top.src = NULL
        /\ UNCHANGED <<storage, hot>>
    BY <1>2 DEF NotFound, OnPath, Running, Return, hotlist
  <2> QED BY <2>1, SearchReturned DEF Opener
<1>3. CASE Done
  <2>1. stack = <<>> /\ UNCHANGED stack
    BY <1>3 DEF Done
  <2> QED BY <2>1, SearchEmpty, SearchNextParts
<1>4. CASE Internal
  BY <1>2, <1>3, <1>4, NextHotSearch, NextPathSearch, AnswerSearch, LoadStoredSearch,
     AnsweredCloseSearch, AnsweredKeepSearch DEF Internal
<1>5. CASE UNCHANGED vars
  <2>1. UNCHANGED <<stack, storage, hot>>
    BY <1>5 DEF vars, hotlist
  <2> QED BY <2>1, SearchParts, SearchNextParts
<1> QED BY <1>1, <1>4, <1>5 DEF Next

\* The search that goes on along the path has asked what is hot.
LEMMA SearchAsked == IInv /\ SearchExact => HotAsked
<1> SUFFICES ASSUME IInv, SearchExact, OnPath, NEW i \in 1..Len(hot)
             PROVE  hot[i] \in Top.asked
  BY DEF HotAsked
<1>1. stack # <<>> /\ Top.stage = "path" /\ Top.src = NULL
  BY DEF OnPath, Running
<1>2. FramePlace(Top, hot, {}, Own(Top)) /\ Own(Top) = {}
  BY <1>1, SearchTop DEF Own, Opener
<1> QED BY <1>1, <1>2 DEF FramePlace

----------------------------------------------------------------------------
(* Searches along the path miss nothing.                                    *)

\* The parts of MissExact, for frames S, a result r, files fl, storages st and
\* instances m in memory.  The first frame may have loaded what it searches for.
SoughtIn(S, m) ==
    \A k \in 1..Len(S) :
       /\ k > 1 => S[k - 1].id = MetaOf[S[k].id]
       /\ S[k].id \in m => k = 1 /\ S[k].res = "inst"
       /\ S[k].stage = "hot" => S[k].path = 0

\* What all of the frames search for is not in memory.
SoughtBelow(S, m) ==
    \A k \in 1..Len(S) :
       /\ k > 1 => S[k - 1].id = MetaOf[S[k].id]
       /\ S[k].id \notin m
       /\ S[k].stage = "hot" => S[k].path = 0

RetOf(S, r, m) ==
    r # NULL /\ S # <<>> =>
       IF MetaOf[Head(S).id] = NULL THEN r.val = "inst"
       ELSE r.id = MetaOf[Head(S).id] /\ (r.val = "none" <=> r.id \notin m)

MissedIn(fl, m, id, n) ==
    \A k \in 1..Len(Path) :
       k <= n /\ fl[Path[k]] # NULL /\ id \in fl[Path[k]] =>
          id \in Broken \/ MetaOf[id] \notin m \cup {NULL}

PathOf(f, fl, st, m) ==
    /\ f.src = NULL \/ f.res = "none" => MissedIn(fl, m, f.id, f.path)
    /\ f.src # NULL /\ f.res = NULL /\ ~f.wait =>
         /\ MissedIn(fl, m, f.id, f.path - 1) /\ f.path > 0
         /\ st[f.src].cache[f.id] = "absent"
         /\ st[f.src].jstore = fl[Path[f.path]]

PathIn(S, r, fl, st, m) ==
    S # <<>> /\ r = NULL /\ Head(S).stage = "path" => PathOf(Head(S), fl, st, m)

LEMMA MissParts ==
    MissExact <=> /\ SoughtIn(stack, mem) /\ RetOf(stack, ret, mem)
                  /\ PathIn(stack, ret, file, storage, mem)
<1>1. Sought(stack) <=> SoughtIn(stack, mem)
  BY DEF Sought, SoughtIn
<1>2. RetExact <=> RetOf(stack, ret, mem)
  BY DEF RetExact, RetOf, Top
<1>3. PathExact <=> PathIn(stack, ret, file, storage, mem)
  BY DEF PathExact, PathIn, PathOf, Missed, MissedIn, Top, Running, Asking
<1> QED BY <1>1, <1>2, <1>3 DEF MissExact

LEMMA MissNextParts ==
    ASSUME SoughtIn(stack', mem'), RetOf(stack', ret', mem'),
           PathIn(stack', ret', file', storage', mem')
    PROVE  MissExact'
<1>1. Sought(stack)'
  BY DEF Sought, SoughtIn
<1>2. RetExact'
  BY DEF RetExact, RetOf, Top
<1>3. PathExact'
  BY DEF PathExact, PathIn, PathOf, Missed, MissedIn, Top, Running, Asking
<1> QED BY <1>1, <1>2, <1>3 DEF MissExact

LEMMA MissEmpty ==
    ASSUME stack' = <<>> PROVE MissExact'
<1>1. SoughtIn(<<>>, mem')
  BY DEF SoughtIn
<1>2. RetOf(<<>>, ret', mem') /\ PathIn(<<>>, ret', file', storage', mem')
  BY DEF RetOf, PathIn
<1> QED BY <1>1, <1>2, MissNextParts

\* A frame on top of others, which it serves
LEMMA SoughtCons ==
    ASSUME NEW R \in Seq(Frames), NEW f \in Frames, NEW m
    PROVE  SoughtIn(<<f>> \o R, m) <=>
              /\ R # <<>> => f.id = MetaOf[Head(R).id]
              /\ f.id \in m => f.res = "inst"
              /\ f.stage = "hot" => f.path = 0
              /\ SoughtBelow(R, m)
<1> DEFINE U == <<f>> \o R
           P(k) == /\ k > 1 => U[k - 1].id = MetaOf[U[k].id]
                   /\ U[k].id \in m => k = 1 /\ U[k].res = "inst"
                   /\ U[k].stage = "hot" => U[k].path = 0
           Q(k) == /\ k > 1 => R[k - 1].id = MetaOf[R[k].id]
                   /\ R[k].id \notin m
                   /\ R[k].stage = "hot" => R[k].path = 0
           B == R # <<>> => f.id = MetaOf[Head(R).id]
<1>1. /\ Len(U) = Len(R) + 1 /\ Len(R) \in Nat
      /\ U[1] = f /\ \A k \in 1..Len(R) : U[k + 1] = R[k]
      /\ R # <<>> <=> 1 \in 1..Len(R)
      /\ R # <<>> => Head(R) = R[1]
  OBVIOUS
<1> HIDE DEF U
<1>2. P(1) <=> (f.id \in m => f.res = "inst") /\ (f.stage = "hot" => f.path = 0)
  BY <1>1
<1>3. ASSUME NEW k \in 1..Len(R)
      PROVE  P(k + 1) <=> Q(k) /\ (k = 1 => f.id = MetaOf[R[1].id])
  <2>1. /\ k + 1 > 1 /\ k + 1 # 1 /\ (k + 1) - 1 = k /\ U[k + 1] = R[k]
        /\ ~(k > 1) <=> k = 1
    BY <1>1
  <2>2. k > 1 => U[k] = R[k - 1]
    <3>1. k > 1 => k - 1 \in 1..Len(R) /\ (k - 1) + 1 = k
      BY <1>1
    <3> QED BY <1>1, <3>1
  <2>3. k = 1 => U[k] = f
    BY <1>1
  <2> QED BY <2>1, <2>2, <2>3
<1>4. B <=> \A k \in 1..Len(R) : k = 1 => f.id = MetaOf[R[1].id]
  BY <1>1
<1>5. (\A k \in 1..Len(U) : P(k)) <=> P(1) /\ \A k \in 1..Len(R) : P(k + 1)
  <2>1. 1 \in 1..Len(U) /\ \A k \in 1..Len(R) : k + 1 \in 1..Len(U)
    BY <1>1
  <2>2. ASSUME P(1), \A k \in 1..Len(R) : P(k + 1), NEW k \in 1..Len(U) PROVE P(k)
    <3>1. CASE k = 1
      BY <2>2, <3>1
    <3>2. CASE k # 1
      <4>1. k - 1 \in 1..Len(R) /\ (k - 1) + 1 = k
        BY <1>1, <3>2
      <4>2. P((k - 1) + 1)
        BY <2>2, <4>1
      <4> QED BY <4>1, <4>2
    <3> QED BY <3>1, <3>2
  <2> HIDE DEF P
  <2> QED BY <2>1, <2>2
<1>6. SoughtIn(U, m) <=> \A k \in 1..Len(U) : P(k)
  BY DEF SoughtIn
<1>7. SoughtBelow(R, m) <=> \A k \in 1..Len(R) : Q(k)
  BY DEF SoughtBelow
<1> HIDE DEF P, Q, B
<1>8. SoughtIn(U, m) <=> P(1) /\ B /\ SoughtBelow(R, m)
  BY <1>3, <1>4, <1>5, <1>6, <1>7
<1> QED BY <1>2, <1>8 DEF U, B

\* Nothing that is searched for is in memory.
LEMMA SoughtAll ==
    ASSUME NEW S \in Seq(Frames), NEW m
    PROVE  /\ SoughtBelow(S, m) => SoughtIn(S, m)
           /\ SoughtIn(S, m) /\ S # <<>> /\ Head(S).id \notin m => SoughtBelow(S, m)
<1>1. SoughtBelow(S, m) => SoughtIn(S, m)
  BY DEF SoughtBelow, SoughtIn
<1>2. S # <<>> => Head(S) = S[1]
  OBVIOUS
<1>3. SoughtIn(S, m) /\ S # <<>> /\ Head(S).id \notin m => SoughtBelow(S, m)
  BY <1>2 DEF SoughtBelow, SoughtIn
<1> QED BY <1>1, <1>3

\* What MissExact says of the innermost frame and those that wait for it.
LEMMA MissTop ==
    ASSUME IInv, MissExact, stack # <<>>
    PROVE  /\ Top \in Frames /\ Tail(stack) \in Seq(Frames)
           /\ Tail(stack) # <<>> => Top.id = MetaOf[Head(Tail(stack)).id]
           /\ Top.id \in mem => Top.res = "inst"
           /\ Top.stage = "hot" => Top.path = 0
           /\ SoughtBelow(Tail(stack), mem)
           /\ SoughtIn(stack, mem) /\ RetOf(stack, ret, mem)
           /\ ret = NULL /\ Top.stage = "path" => PathOf(Top, file, storage, mem)
<1> DEFINE R == Tail(stack)
<1>1. stack \in Seq(Frames) /\ SoughtIn(stack, mem) /\ RetOf(stack, ret, mem)
      /\ PathIn(stack, ret, file, storage, mem)
  BY Parts, MissParts
<1>2. stack = <<Top>> \o R /\ Top \in Frames /\ R \in Seq(Frames)
  BY <1>1 DEF Top
<1> HIDE DEF R
<1>3. SoughtIn(<<Top>> \o R, mem)
  BY <1>1, <1>2
<1>4. /\ R # <<>> => Top.id = MetaOf[Head(R).id]
      /\ Top.id \in mem => Top.res = "inst"
      /\ Top.stage = "hot" => Top.path = 0
      /\ SoughtBelow(R, mem)
  BY <1>2, <1>3, SoughtCons
<1>5. ret = NULL /\ Top.stage = "path" => PathOf(Top, file, storage, mem)
  BY <1>1 DEF PathIn, Top
<1> QED BY <1>1, <1>2, <1>4, <1>5 DEF R

\* The innermost frame goes on.
LEMMA MissKept ==
    ASSUME IInv, MissExact, stack # <<>>, NEW f \in Frames, stack' = Under(f),
           f.id = Top.id, UNCHANGED mem, f.id \in mem => f.res = "inst",
           f.stage = "hot" => f.path = 0, ret' = NULL,
           f.stage = "path" => PathOf(f, file', storage', mem)
    PROVE  MissExact'
<1> DEFINE R == Tail(stack)
<1>1. /\ R \in Seq(Frames) /\ SoughtBelow(R, mem)
      /\ R # <<>> => f.id = MetaOf[Head(R).id]
  BY MissTop
<1>2. stack' = <<f>> \o R
  BY DEF Under
<1> HIDE DEF R
<1>3. SoughtIn(stack', mem')
  BY <1>1, <1>2, SoughtCons
<1>4. Head(stack') = f
  BY <1>1, <1>2
<1>5. RetOf(stack', ret', mem') /\ PathIn(stack', ret', file', storage', mem')
  BY <1>4 DEF RetOf, PathIn
<1> QED BY <1>3, <1>5, MissNextParts

\* The innermost frame returns what it has found, or that it has not.
LEMMA MissReturned ==
    ASSUME IInv, MissExact, stack # <<>>, NEW v \in Results, Return(v), UNCHANGED mem,
           v = "none" <=> Top.id \notin mem
    PROVE  MissExact'
<1> DEFINE R == Tail(stack)
<1>1. /\ R \in Seq(Frames) /\ SoughtBelow(R, mem) /\ Top.id \in Ids
      /\ R # <<>> => Top.id = MetaOf[Head(R).id]
  BY MissTop DEF Frames
<1>2. stack' = R /\ ret' = [id |-> Top.id, val |-> v]
  BY DEF Return
<1> HIDE DEF R
<1>3. SoughtIn(stack', mem')
  BY <1>1, <1>2, SoughtAll
<1>4. ret'.id = Top.id /\ ret'.val = v /\ Top.id # NULL
  BY <1>1, <1>2
<1>5. ret' # NULL
  <2>1. ret' \in [id : Ids, val : Results]
    BY <1>1, <1>2
  <2> QED BY <2>1 DEF Results
<1>6. RetOf(stack', ret', mem')
  BY <1>1, <1>2, <1>4 DEF RetOf
<1>7. PathIn(stack', ret', file', storage', mem')
  BY <1>5 DEF PathIn
<1> QED BY <1>3, <1>6, <1>7, MissNextParts

\* A search that starts, for the frames that wait for it if there are some.
LEMMA MissBegun ==
    ASSUME NEW R \in Seq(Frames), SoughtBelow(R, mem), NEW id \in Ids, Begin(id, R),
           UNCHANGED mem, R # <<>> => id = MetaOf[Head(R).id]
    PROVE  MissExact'
<1>1. CASE id \in mem
  <2>1. stack' = R /\ ret' = [id |-> id, val |-> "inst"]
    BY <1>1 DEF Begin
  <2>2. SoughtIn(stack', mem')
    BY <2>1, SoughtAll
  <2>3. ret' # NULL
    <3>1. ret' \in [id : Ids, val : Results]
      BY <2>1 DEF Results
    <3> QED BY <3>1 DEF Results
  <2>4. ret'.id = id /\ ret'.val = "inst" /\ id # NULL
    BY <2>1
  <2>5. RetOf(stack', ret', mem')
    BY <1>1, <2>1, <2>4 DEF RetOf
  <2>6. PathIn(stack', ret', file', storage', mem')
    BY <2>3 DEF PathIn
  <2> QED BY <2>2, <2>5, <2>6, MissNextParts
<1>2. CASE id \notin mem
  <2> DEFINE f == Frame(id, "hot", NULL)
  <2>1. stack' = <<f>> \o R /\ ret' = NULL
    BY <1>2 DEF Begin
  <2>2. f \in Frames /\ f.id = id /\ f.stage = "hot" /\ f.path = 0
    BY DEF Frame, Frames
  <2> HIDE DEF f
  <2>3. SoughtIn(stack', mem')
    BY <1>2, <2>1, <2>2, SoughtCons
  <2>4. Head(stack') = f
    BY <2>1, <2>2
  <2>5. RetOf(stack', ret', mem') /\ PathIn(stack', ret', file', storage', mem')
    BY <2>1, <2>2, <2>4 DEF RetOf, PathIn
  <2> QED BY <2>3, <2>5, MissNextParts
<1> QED BY <1>1, <1>2

\* A search in one storage that starts
LEMMA MissOne ==
    ASSUME NEW id \in Ids, NEW stage \in {"given", "opened"}, NEW s \in Slots,
           stack' = <<Frame(id, stage, s)>>, ret' = NULL, id \notin mem'
    PROVE  MissExact'
<1> DEFINE f == Frame(id, stage, s)
           R == <<>>
           m == mem'
<1>1. f \in Frames /\ f.id = id /\ f.stage = stage
  BY DEF Frame, Frames
<1>2. R \in Seq(Frames) /\ R = <<>> /\ SoughtBelow(R, m) /\ stack' = <<f>> \o R
  BY <1>1 DEF SoughtBelow
<1> HIDE DEF f, R, m
<1>3. SoughtIn(<<f>> \o R, m)
  BY <1>1, <1>2, SoughtCons DEF m
<1>4. Head(stack') = f
  BY <1>1, <1>2
<1>5. RetOf(stack', ret', mem') /\ PathIn(stack', ret', file', storage', mem')
  BY <1>1, <1>4 DEF RetOf, PathIn
<1> QED BY <1>2, <1>3, <1>5, MissNextParts DEF m

LEMMA ApplicationMiss == ASSUME IInv, Api PROVE MissExact'
<1>1. stack = <<>>
  <2>1. Idle
    BY DEF Api, OpenStorage, CloseStorage, IterCreate, IterFree, CreateInstance,
           FreeInstance, Save, Get, Load, LoadLoc
  <2> QED BY <2>1, IdleParts
<1>2. ASSUME UNCHANGED stack PROVE MissExact'
  BY <1>1, <1>2, MissEmpty
<1>3. ASSUME NEW id \in AskIds, Get(id) PROVE MissExact'
  <2> DEFINE R == <<>>
  <2>1. /\ Begin(id, R) /\ UNCHANGED mem /\ id \in Ids /\ R \in Seq(Frames)
        /\ R = <<>> /\ SoughtBelow(R, mem)
    BY <1>3 DEF Get, SoughtBelow
  <2> HIDE DEF R
  <2> QED BY <2>1, MissBegun
<1>4. ASSUME NEW s \in Slots, NEW id \in AskIds, Load(s, id) PROVE MissExact'
  BY <1>4, MissOne DEF Load, Idle
<1>5. ASSUME NEW s \in Slots, NEW id \in AskIds, NEW l \in Locs, LoadLoc(s, l, id)
      PROVE  MissExact'
  BY <1>5, MissOne DEF LoadLoc, Idle
<1>6. UNCHANGED stack
      \/ (\E id \in AskIds : Get(id))
      \/ (\E s \in Slots, id \in AskIds : Load(s, id))
      \/ (\E s \in Slots, id \in AskIds, l \in Locs : LoadLoc(s, l, id))
  BY DEF Api, OpenStorage, CloseStorage, IterCreate, IterFree, CreateInstance,
         FreeInstance, Save
<1> QED BY <1>2, <1>3, <1>4, <1>5, <1>6

\* The hot list is asked, and then the path.
LEMMA NextHotMiss == ASSUME IInv, MissExact, NextHot PROVE MissExact'
<1> DEFINE p == Top.pos + 1
           h == hot[p]
           a == Top.asked \cup {h}
           f == [Top EXCEPT !.pos = p, !.src = h, !.asked = a]
           g == [Top EXCEPT !.stage = "path"]
<1>1. /\ stack # <<>> /\ ret' = NULL /\ Top.stage = "hot" /\ Top.src = NULL
      /\ UNCHANGED mem
      /\ stack' = Under(IF Top.pos < Len(hot) THEN f ELSE g)
      /\ ~Top.wait /\ Top.res = NULL
  BY TopParts DEF NextHot, Running
<1>2. /\ Top \in Frames /\ Top.path = 0 /\ Top.id \notin mem /\ hot \in Seq(Slots)
      /\ Top.pos \in Nat /\ Top.asked \in SUBSET Slots
  <2>1. Top.id \in mem => Top.res = "inst"
    BY <1>1, MissTop
  <2>2. NULL # "inst"
    BY DEF CacheValues
  <2>3. hot \in Seq(Slots)
    BY Parts DEF StorageInv
  <2> QED BY <1>1, <2>1, <2>2, <2>3, MissTop DEF Frames
<1>3. CASE Top.pos < Len(hot)
  <2>1. p \in 1..Len(hot) /\ p \in Nat
    BY <1>2, <1>3
  <2>2. h \in Slots
    BY <1>2, <2>1
  <2>3. a \in SUBSET Slots
    BY <1>2, <2>2
  <2> HIDE DEF p, h, a
  <2>4. f \in Frames /\ f.id = Top.id /\ f.stage = "hot" /\ f.path = 0
    BY <1>1, <1>2, <2>1, <2>2, <2>3 DEF Frames
  <2>5. stack' = Under(f)
    BY <1>1, <1>3
  <2> HIDE DEF f
  <2> QED BY <1>1, <1>2, <2>4, <2>5, MissKept
<1>4. CASE ~(Top.pos < Len(hot))
  <2>1. g \in Frames /\ g.id = Top.id /\ g.stage = "path" /\ g.path = 0 /\ g.src = NULL
    BY <1>1, <1>2 DEF Frames
  <2>2. stack' = Under(g)
    BY <1>1, <1>4
  <2> HIDE DEF g
  <2>3. PathOf(g, file', storage', mem')
    BY <2>1 DEF PathOf, MissedIn
  <2> QED BY <1>1, <1>2, <2>1, <2>2, <2>3, MissKept
<1> QED BY <1>3, <1>4

\* A file that does not exist has nothing.
LEMMA SkipPathMiss == ASSUME IInv, MissExact, SkipPath PROVE MissExact'
<1> DEFINE q == Top.path
           p == q + 1
           f == [Top EXCEPT !.path = p]
<1>1. /\ stack # <<>> /\ ret = NULL /\ ret' = NULL /\ Top.stage = "path"
      /\ Top.src = NULL /\ q < Len(Path) /\ file[Path[p]] = NULL
      /\ UNCHANGED <<file, mem>> /\ stack' = Under(f) /\ Top.res = NULL
  BY TopParts DEF SkipPath, OnPath, Running, CanOpen
<1>2. /\ Top \in Frames /\ Top.id \notin mem /\ MissedIn(file, mem, Top.id, q)
  <2>1. NULL # "inst"
    BY DEF CacheValues
  <2> QED BY <1>1, <2>1, MissTop DEF PathOf
<1>3. q \in Nat /\ p \in 0..Len(Path) /\ \A k \in 1..Len(Path) : k <= p => k <= q \/ k = p
  <2>1. q \in 0..Len(Path) /\ Len(Path) \in Nat
    BY <1>2 DEF Frames
  <2> QED BY <1>1, <2>1
<1> HIDE DEF p, q
<1>4. MissedIn(file, mem, Top.id, p)
  BY <1>1, <1>2, <1>3 DEF MissedIn
<1>5. /\ f \in Frames /\ f.id = Top.id /\ f.stage = "path" /\ f.src = NULL /\ f.path = p
  BY <1>1, <1>2, <1>3 DEF Frames
<1> HIDE DEF f
<1>6. PathOf(f, file', storage', mem')
  BY <1>1, <1>4, <1>5 DEF PathOf
<1> QED BY <1>1, <1>2, <1>5, <1>6, MissKept

\* The copy of the next file is new.
LEMMA NextPathMiss ==
    ASSUME IInv, MissExact, NEW s \in Slots, NextPath(s) PROVE MissExact'
<1> DEFINE q == Top.path
           p == q + 1
           l == Path[p]
           m == "r"
           own == FALSE
           x == NewStorage(l, m, own)
           f == [Top EXCEPT !.path = p, !.src = s]
<1>1. /\ stack # <<>> /\ ret = NULL /\ ret' = NULL /\ Top.stage = "path"
      /\ Top.src = NULL /\ q < Len(Path) /\ OpenAt(s, l, m, own)
      /\ UNCHANGED <<file, mem>> /\ stack' = Under(f) /\ Top.res = NULL
  BY TopParts DEF NextPath, OnPath, Running
<1>2. /\ Top \in Frames /\ Top.id \in Ids /\ Top.id \notin mem
      /\ MissedIn(file, mem, Top.id, q)
  <2>1. NULL # "inst"
    BY DEF CacheValues
  <2> QED BY <1>1, <2>1, MissTop DEF PathOf, Frames
<1>3. q \in Nat /\ p \in 0..Len(Path) /\ p > 0 /\ p - 1 = q /\ l \in Locs
  <2>1. q \in 0..Len(Path) /\ Len(Path) \in Nat
    BY <1>2 DEF Frames
  <2>2. q \in Nat /\ p \in 0..Len(Path) /\ p \in 1..Len(Path) /\ p > 0 /\ p - 1 = q
    BY <1>1, <2>1
  <2> HIDE DEF p, q
  <2> QED BY <2>2
<1>4. m \in {"r", "w", "a"} /\ own \in BOOLEAN /\ m = "r"
  OBVIOUS
<1> HIDE DEF p, q, m, own
<1>5. storage'[s] = x
  <2>1. StorageInv /\ l \in Locs /\ UNCHANGED file
    BY <1>1, <1>3, TopParts
  <2> HIDE DEF l
  <2> QED BY <1>1, <1>4, <2>1, OpenAtInv
<1>6. x.cache[Top.id] = "absent" /\ x.jstore = file[l]
  BY <1>2, <1>4 DEF NewStorage
<1>7. /\ f \in Frames /\ f.id = Top.id /\ f.stage = "path" /\ f.src = s /\ f.path = p
      /\ f.res = NULL /\ s # NULL
  BY <1>1, <1>2, <1>3 DEF Frames
<1> HIDE DEF f, x
<1>8. PathOf(f, file', storage', mem')
  <2>1. NULL # "none"
    BY DEF CacheValues
  <2> QED BY <1>1, <1>2, <1>3, <1>5, <1>6, <1>7, <2>1 DEF PathOf
<1> QED BY <1>1, <1>2, <1>7, <1>8, MissKept

\* What the storage on the path does not have is not in its file, of which it is
\* a copy, and there is no entry in its cache.
LEMMA AnswerMiss ==
    ASSUME IInv, MissExact, LoadCached \/ LoadMissing PROVE MissExact'
<1>1. /\ stack # <<>> /\ ret = NULL /\ ret' = NULL /\ Top.src # NULL /\ Top.res = NULL
      /\ ~Top.wait /\ UNCHANGED <<file, mem>>
  BY DEF LoadCached, LoadMissing, Asking, Running
<1>2. /\ Top \in Frames /\ Top.id \in Ids /\ Top.id \notin mem
      /\ Top.stage = "hot" => Top.path = 0
      /\ Top.stage = "path" => PathOf(Top, file, storage, mem)
  <2>1. NULL # "inst"
    BY DEF CacheValues
  <2> QED BY <1>1, <2>1, MissTop DEF Frames
\* The answer v
<1>3. ASSUME NEW v \in Results, stack' = Under(HasAnswer(Top, v)),
             Top.stage = "path" => v = "none" /\ MissedIn(file, mem, Top.id, Top.path)
      PROVE  MissExact'
  <2> DEFINE f == HasAnswer(Top, v)
  <2>1. /\ f \in Frames /\ f.id = Top.id /\ f.res = v /\ f.src = Top.src /\ v # NULL
        /\ f.stage = Top.stage
    BY <1>2, ResultFrame
  <2>2. f.path = Top.path
    BY <1>2 DEF HasAnswer, Frames
  <2> HIDE DEF f
  <2>3. f.stage = "path" => PathOf(f, file', storage', mem')
    BY <1>1, <1>3, <2>1, <2>2 DEF PathOf
  <2>4. stack' = Under(f)
    BY <1>3 DEF f
  <2> QED BY <1>1, <1>2, <2>1, <2>2, <2>3, <2>4, MissKept
<1>4. CASE LoadCached
  <2> DEFINE v == Cached
  <2>1. v # "absent" /\ stack' = Under([Top EXCEPT !.res = v])
    BY <1>4 DEF LoadCached
  <2>2. v \in Results
    <3>1. storage[Top.src] \in Storages
      BY <1>1, AskParts
    <3> QED BY <1>2, <2>1, <3>1 DEF Cached, Storages, CacheValues, Results
  <2>3. Top.stage # "path"
    BY <1>1, <1>2, <2>1 DEF PathOf, Cached
  <2> HIDE DEF v
  <2>4. stack' = Under(HasAnswer(Top, v))
    BY <1>1, <1>2, <2>1, <2>2, ResultFrame
  <2> QED BY <1>3, <2>2, <2>3, <2>4
<1>5. CASE LoadMissing
  <2> DEFINE v == "none"
             p == Top.path
  <2>1. Top.id \notin Copy(storage[Top.src]) /\ stack' = Under([Top EXCEPT !.res = v])
    BY <1>5 DEF LoadMissing
  <2>2. v \in Results /\ v = "none"
    BY DEF Results
  <2>3. ASSUME Top.stage = "path" PROVE MissedIn(file, mem, Top.id, p)
    <3>1. /\ MissedIn(file, mem, Top.id, p - 1)
          /\ storage[Top.src].jstore = file[Path[p]]
      BY <1>1, <1>2, <2>3 DEF PathOf
    <3>2. p \in Nat /\ \A k \in 1..Len(Path) : k <= p => k <= p - 1 \/ k = p
      <4>1. p \in 0..Len(Path)
        BY <1>2 DEF Frames
      <4> QED BY <4>1
    <3>3. file[Path[p]] = NULL \/ Top.id \notin file[Path[p]]
      BY <2>1, <3>1 DEF Copy
    <3> HIDE DEF p
    <3> QED BY <3>1, <3>2, <3>3 DEF MissedIn
  <2> HIDE DEF v
  <2>4. stack' = Under(HasAnswer(Top, v))
    BY <1>1, <1>2, <2>1, <2>2, ResultFrame
  <2> QED BY <1>3, <2>2, <2>3, <2>4
<1> QED BY <1>4, <1>5

\* The metadata are searched for unless they are in memory.
LEMMA LoadStoredMiss == ASSUME IInv, MissExact, LoadStored PROVE MissExact'
<1> DEFINE g == [Top EXCEPT !.wait = TRUE]
           R == Tail(stack)
           m == MetaOf[Top.id]
           U == <<g>> \o R
<1>1. /\ stack # <<>> /\ Top.src # NULL /\ Top.res = NULL /\ UNCHANGED mem
      /\ IF m = NULL THEN stack' = U /\ ret' = [id |-> Top.id, val |-> "inst"]
                     ELSE Begin(m, U)
  BY DEF LoadStored, Asking, Running, Under
<1>2. /\ Top \in Frames /\ Top.id \in Ids /\ Top.id \notin mem /\ R \in Seq(Frames)
      /\ R # <<>> => Top.id = MetaOf[Head(R).id]
      /\ Top.stage = "hot" => Top.path = 0
      /\ SoughtBelow(R, mem)
  <2>1. NULL # "inst"
    BY DEF CacheValues
  <2> QED BY <1>1, <2>1, MissTop DEF Frames
<1>3. /\ g \in Frames /\ g.id = Top.id /\ g.stage = Top.stage /\ g.path = Top.path
  BY <1>2 DEF Frames
<1>4. m # NULL => m \in Ids
  BY <1>2
<1>5. U \in Seq(Frames) /\ U # <<>> /\ Head(U) = g
  BY <1>2, <1>3
<1>6. MetaOf[Head(U).id] = m
  BY <1>3, <1>5
<1> HIDE DEF g, R, m
<1>7. SoughtIn(U, mem)
  BY <1>2, <1>3, SoughtCons
<1>8. SoughtBelow(U, mem)
  BY <1>2, <1>3, <1>5, <1>7, SoughtAll
<1> HIDE DEF U
<1>9. CASE m = NULL
  <2>1. stack' = U /\ ret' = [id |-> Top.id, val |-> "inst"]
    BY <1>1, <1>9
  <2>2. ret' \in [id : Ids, val : Results]
    BY <1>2, <2>1 DEF Results
  <2>3. ret' # NULL
    BY <2>2 DEF Results
  <2>4. RetOf(stack', ret', mem') /\ PathIn(stack', ret', file', storage', mem')
    BY <1>6, <1>9, <2>1, <2>3 DEF RetOf, PathIn
  <2> QED BY <1>1, <1>7, <2>1, <2>4, MissNextParts
<1>10. CASE m # NULL
  BY <1>1, <1>4, <1>5, <1>6, <1>8, <1>10, MissBegun
<1> QED BY <1>9, <1>10

\* An instance whose metadata are there is loaded, unless it cannot be parsed.
LEMMA MetaReturnedMiss == ASSUME IInv, MissExact, MetaReturned PROVE MissExact'
<1> DEFINE y == Top.id
           ok == ret.val # "none" /\ y \notin Broken
           v == IF ok THEN "inst" ELSE "none"
           f == HasAnswer(Top, v)
           R == Tail(stack)
<1>1. /\ stack # <<>> /\ ret # NULL /\ ret' = NULL /\ stack' = <<f>> \o R
      /\ mem' = (IF ok THEN mem \cup {y} ELSE mem) /\ UNCHANGED file
  BY DEF MetaReturned, HasAnswer, Under
<1>2. /\ Top \in Frames /\ y \in Ids /\ Top.src # NULL /\ Top.res = NULL
      /\ R \in Seq(Frames) /\ SoughtBelow(R, mem) /\ RetOf(stack, ret, mem)
      /\ R # <<>> => y = MetaOf[Head(R).id]
      /\ Top.stage = "hot" => Top.path = 0
      /\ Top.id \notin mem
  <2>1. NULL # "inst"
    BY DEF CacheValues
  <2>2. Top.src # NULL /\ Top.res = NULL
    BY <1>1, TopParts
  <2> QED BY <1>1, <2>1, <2>2, MissTop DEF Frames
<1>3. v \in Results
  BY DEF Results
<1>4. /\ IF MetaOf[y] = NULL THEN ret.val = "inst"
         ELSE ret.id = MetaOf[y] /\ (ret.val = "none" <=> ret.id \notin mem)
  BY <1>1, <1>2 DEF RetOf, Top
<1>5. /\ f \in Frames /\ f.id = y /\ f.res = v /\ f.src = Top.src
      /\ f.stage = Top.stage /\ f.path = Top.path /\ v # NULL
  <2>1. f.path = Top.path
    BY <1>2 DEF HasAnswer, Frames
  <2> HIDE DEF v
  <2> QED BY <1>2, <1>3, <2>1, ResultFrame
<1> HIDE DEF f, R
\* What the others search for has not been loaded: its metadata are not there.
<1>6. ok => \A k \in 1..Len(R) : R[k].id # y
  <2> SUFFICES ASSUME ok, NEW k \in 1..Len(R), R[k].id = y PROVE FALSE
    OBVIOUS
  <2>1. CASE k = 1
    <3>1. R # <<>> /\ Head(R) = R[1]
      BY <1>2, <2>1
    <3>2. MetaOf[y] = y
      BY <1>2, <2>1, <3>1
    <3> QED BY <1>2, <1>4, <3>2
  <2>2. CASE k # 1
    <3>1. k > 1 /\ k - 1 \in 1..Len(R)
      BY <1>2, <2>2
    <3>2. R[k - 1].id = MetaOf[y] /\ R[k - 1].id \notin mem
      BY <1>2, <3>1 DEF SoughtBelow
    <3>3. R[k - 1].id \in Ids
      <4>1. R[k - 1] \in Frames
        BY <1>2, <3>1
      <4> QED BY <4>1 DEF Frames
    <3> QED BY <1>4, <3>2, <3>3
  <2> QED BY <2>1, <2>2
<1>7. SoughtBelow(R, mem')
  BY <1>1, <1>2, <1>6 DEF SoughtBelow
<1>8. y \in mem' => v = "inst"
  BY <1>1, <1>2
<1>9. SoughtIn(stack', mem')
  <2> DEFINE m == mem'
  <2>1. /\ R \in Seq(Frames) /\ f \in Frames /\ SoughtBelow(R, m)
        /\ R # <<>> => f.id = MetaOf[Head(R).id]
        /\ f.id \in m => f.res = "inst"
        /\ f.stage = "hot" => f.path = 0
    BY <1>2, <1>5, <1>7, <1>8
  <2> HIDE DEF m
  <2>2. SoughtIn(<<f>> \o R, m)
    BY <2>1, SoughtCons
  <2> QED BY <1>1, <2>2 DEF m
<1>10. f.res = "none" => MissedIn(file', mem', f.id, f.path)
  BY <1>1, <1>4, <1>5 DEF MissedIn
<1>11. PathOf(f, file', storage', mem')
  BY <1>2, <1>5, <1>10 DEF PathOf
<1>12. Head(stack') = f
  BY <1>1, <1>2, <1>5
<1>13. RetOf(stack', ret', mem') /\ PathIn(stack', ret', file', storage', mem')
  BY <1>1, <1>11, <1>12 DEF RetOf, PathIn
<1> QED BY <1>9, <1>13, MissNextParts

\* The search goes on with nothing missed, or it ends.
LEMMA AnsweredMiss ==
    ASSUME IInv, CachesLive, SearchExact, MissExact, Answered PROVE MissExact'
<1> DEFINE g == [Top EXCEPT !.src = NULL, !.res = NULL]
<1>1. /\ stack # <<>> /\ ret = NULL /\ Top.res # NULL /\ UNCHANGED mem
      /\ IF Top.res = "none" /\ Top.stage \in {"hot", "path"}
         THEN stack' = Under(g) /\ UNCHANGED ret
         ELSE Return(Top.res)
  BY DEF Answered, Running
<1>2. /\ Top \in Frames /\ Top.res \in Results
      /\ Top.id \in mem => Top.res = "inst"
      /\ Top.stage = "hot" => Top.path = 0
      /\ Top.stage = "path" => PathOf(Top, file, storage, mem)
  BY <1>1, MissTop DEF Frames
<1>3. UNCHANGED file
  <2>1. Top.stage \notin {"path", "opened"} => UNCHANGED file
    BY DEF Answered
  <2> QED BY <2>1, AnsweredCloseSearch
<1>4. CASE Top.res = "none" /\ Top.stage \in {"hot", "path"}
  <2>1. /\ g \in Frames /\ g.id = Top.id /\ g.src = NULL /\ g.res = NULL
        /\ g.stage = Top.stage /\ g.path = Top.path
    BY <1>2 DEF Frames
  <2>2. NULL # "none"
    BY DEF CacheValues
  <2>3. stack' = Under(g) /\ ret' = NULL
    BY <1>1, <1>4
  <2> HIDE DEF g
  <2>4. g.stage = "path" => PathOf(g, file', storage', mem')
    BY <1>1, <1>2, <1>3, <1>4, <2>1, <2>2 DEF PathOf
  <2> QED BY <1>1, <1>2, <1>4, <2>1, <2>3, <2>4, MissKept
<1>5. CASE ~(Top.res = "none" /\ Top.stage \in {"hot", "path"})
  <2>1. stack \in Seq(Frames) /\ FramesLive(stack, mem)
    BY Parts, LiveParts
  <2>2. LiveIn(mem, Top.id, Top.res)
    BY <1>1, <2>1, FramesTail DEF Top
  <2>3. Top.res = "none" <=> Top.id \notin mem
    BY <1>2, <2>2 DEF LiveIn, Results
  <2> QED BY <1>1, <1>2, <1>5, <2>3, MissReturned
<1> QED BY <1>4, <1>5

LEMMA MissInv ==
    ASSUME IInv, CachesLive, SearchExact, MissExact, [Next]_vars PROVE MissExact'
<1>1. CASE Api
  BY <1>1, ApplicationMiss
<1>2. CASE NotFound
  <2> DEFINE v == "none"
  <2>1. /\ stack # <<>> /\ Top.src = NULL /\ Return(v) /\ UNCHANGED mem
    BY <1>2 DEF NotFound, OnPath, Running
  <2>2. Top.id \notin mem
    <3>1. Top.res = NULL /\ NULL # "inst"
      BY <2>1, TopParts DEF CacheValues
    <3> QED BY <2>1, <3>1, MissTop
  <2>3. v \in Results /\ v = "none"
    BY DEF Results
  <2> HIDE DEF v
  <2> QED BY <2>1, <2>2, <2>3, MissReturned
<1>3. CASE Done
  <2>1. stack' = <<>>
    BY <1>3 DEF Done
  <2> QED BY <2>1, MissEmpty
<1>4. CASE Internal
  BY <1>2, <1>3, <1>4, NextHotMiss, SkipPathMiss, NextPathMiss, AnswerMiss,
     LoadStoredMiss, MetaReturnedMiss, AnsweredMiss DEF Internal
<1>5. CASE UNCHANGED vars
  <2>1. UNCHANGED <<file, storage, mem, stack, ret>>
    BY <1>5 DEF vars
  <2> QED BY <2>1, MissParts, MissNextParts
<1> QED BY <1>1, <1>4, <1>5 DEF Next

\* A search that has come to the end of the path has missed nothing.
LEMMA SearchedPath == IInv /\ MissExact => PathSearched
<1> SUFFICES ASSUME IInv, MissExact, OnPath, Top.path = Len(Path),
                    NEW k \in 1..Len(Path), file[Path[k]] # NULL,
                    Top.id \in file[Path[k]]
             PROVE  Top.id \in Broken \/ MetaOf[Top.id] \notin mem \cup {NULL}
  BY DEF PathSearched
<1>1. stack # <<>> /\ ret = NULL /\ Top.stage = "path" /\ Top.src = NULL
  BY DEF OnPath, Running
<1>2. MissedIn(file, mem, Top.id, Top.path)
  BY <1>1, MissTop DEF PathOf
<1>3. k <= Top.path
  BY DEF Storages
<1> QED BY <1>2, <1>3 DEF MissedIn

\* A search that goes on along the path has asked every storage of the hot list,
\* whatever the searches for metadata have opened and closed since it began, and
\* whether or not instances are freed that storages cache.
THEOREM HotIsAsked == Spec => []HotAsked
<1>1. Init => SearchExact
  <2>1. Init => stack = <<>>
    BY DEF Init
  <2> QED BY <2>1, SearchEmpty, SearchParts
<1>2. IInv /\ SearchExact /\ [Next]_vars => SearchExact'
  BY SearchInv
<1>3. IInv /\ SearchExact => HotAsked
  BY SearchAsked
<1> QED BY <1>1, <1>2, <1>3, Invariance, PTL DEF Spec

\* dlite_instance_get() gives up only when every storage of the hot list was asked,
\* although searches for metadata add to it and remove from it meanwhile, and when
\* every file of the path was looked into that could have given the instance,
\* although caches remember failures.  As above, nothing is freed that is cached.
THEOREM SearchesAreComplete == ASSUME ~FreeCached PROVE Spec => []SearchComplete
<1>1. Init => SearchExact /\ MissExact /\ CachesLive
  <2> SUFFICES ASSUME Init PROVE SearchExact /\ MissExact /\ CachesLive
    OBVIOUS
  <2>1. Open = {} /\ stack = <<>> /\ ret = NULL
    BY DEF Init, Open
  <2>2. CacheLive /\ FramesLive(stack, mem) /\ RetLive
    BY <2>1 DEF CacheLive, FramesLive, RetLive
  <2>3. SearchExact
    BY <2>1, SearchEmpty, SearchParts
  <2>4. SoughtIn(<<>>, mem)
    BY DEF SoughtIn
  <2>5. MissExact
    BY <2>1, <2>4, MissParts DEF RetOf, PathIn
  <2> QED BY <2>2, <2>3, <2>5, LiveParts
<1>2. IInv /\ CachesLive /\ SearchExact /\ MissExact /\ [Next]_vars
         => SearchExact' /\ MissExact'
  BY SearchInv, MissInv
<1>3. IInv /\ SearchExact /\ MissExact => SearchComplete
  BY SearchAsked, SearchedPath DEF SearchComplete
<1>4. Spec => []CachesLive
  BY CachesAreLive
<1> QED BY <1>1, <1>2, <1>3, <1>4, Invariance, PTL DEF Spec

==============================================================================
