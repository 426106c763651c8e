------------------------ MODULE InstanceStoreProofs ------------------------
(* Machine-checked proofs about InstanceStore: reference counting is exact, *)
(* nothing refers to freed memory, the store is exact, transactions are     *)
(* sound and loaded metadata lives on, for every number of addresses,       *)
(* handles and ids and every content of the storages.                       *)
EXTENDS InstanceStore, FiniteSetTheorems, SequenceTheorems, TLAPS

----------------------------------------------------------------------------
(* Counting owners.                                                         *)

\* A count of owners is a natural number, not zero when there is an owner.
LEMMA CountNat ==
    ASSUME NEW S, IsFiniteSet(S), NEW f, NEW o
    PROVE  /\ Count(S, f, o) \in Nat
           /\ \A s \in S : f[s] = o => Count(S, f, o) > 0
<1> DEFINE T == {s \in S : f[s] = o}
<1>1. IsFiniteSet(T) /\ Cardinality(T) \in Nat
  BY FS_Subset, FS_CardinalityType
<1>2. ASSUME NEW s \in S, f[s] = o PROVE Cardinality(T) > 0
  <2>1. s \in T /\ T # {}
    BY <1>2
  <2>2. Cardinality(T) # 0
    BY <2>1, <1>1, FS_EmptySet
  <2> QED BY <2>2, <1>1
<1> QED BY <1>1, <1>2 DEF Count

\* The functions f and g differ at most at s.
SameBut(S, f, g, s) == \A x \in S : x # s => g[x] = f[x]

\* The reference in s is the only one that may have moved to or from o.
Moved(S, f, g, s, o) ==
    Count(S, g, o) = Count(S, f, o) - (IF f[s] = o THEN 1 ELSE 0)
                                    + (IF g[s] = o THEN 1 ELSE 0)

\* Changing the reference kept in s moves one owner.
LEMMA CountMove ==
    ASSUME NEW S, IsFiniteSet(S), NEW f, NEW g, NEW s \in S,
           SameBut(S, f, g, s), NEW o
    PROVE  Moved(S, f, g, s, o)
<1> DEFINE T == {x \in S : f[x] = o}
           U == {x \in S : g[x] = o}
           W == T \ {s}
<1>1. IsFiniteSet(T) /\ IsFiniteSet(U) /\ Cardinality(T) \in Nat
  BY FS_Subset, FS_CardinalityType
<1>2. IsFiniteSet(W)
      /\ Cardinality(W) = IF s \in T THEN Cardinality(T) - 1 ELSE Cardinality(T)
  BY <1>1, FS_RemoveElement
<1>3. U = IF g[s] = o THEN W \cup {s} ELSE W
  BY DEF SameBut
<1>4. Cardinality(W \cup {s}) = Cardinality(W) + 1
  BY <1>2, FS_AddElement
<1>5. Cardinality(U) = IF g[s] = o THEN Cardinality(W) + 1 ELSE Cardinality(W)
  BY <1>3, <1>4
<1>6. s \in T <=> f[s] = o
  OBVIOUS
<1>7. Cardinality(U) = Cardinality(T) - (IF f[s] = o THEN 1 ELSE 0)
                                      + (IF g[s] = o THEN 1 ELSE 0)
  BY <1>1, <1>2, <1>5, <1>6
<1> QED BY <1>7 DEF Count, Moved

\* References outside S do not matter.
LEMMA CountSame ==
    ASSUME NEW S, NEW f, NEW g, \A x \in S : g[x] = f[x], NEW o
    PROVE  Count(S, g, o) = Count(S, f, o)
<1>1. {x \in S : g[x] = o} = {x \in S : f[x] = o}
  OBVIOUS
<1> QED BY <1>1 DEF Count

----------------------------------------------------------------------------
(* The sequence of instances being freed.                                   *)

\* Putting an element in front of a sequence.
LEMMA Push ==
    ASSUME NEW A, NEW s \in Seq(A), NEW x \in A
    PROVE  /\ <<x>> \o s \in Seq(A)
           /\ Len(<<x>> \o s) = Len(s) + 1
           /\ (<<x>> \o s)[1] = x
           /\ \A i \in 1..Len(s) : (<<x>> \o s)[i+1] = s[i]
<1>1. <<x>> \in Seq(A) /\ Len(<<x>>) = 1 /\ <<x>>[1] = x
  OBVIOUS
<1>2. Len(s) \in Nat
  OBVIOUS
<1> QED BY <1>1, <1>2, ConcatProperties

\* Taking it off again.
LEMMA Pop ==
    ASSUME NEW A, NEW s \in Seq(A), s # <<>>
    PROVE  /\ Head(s) \in A /\ Head(s) = s[1] /\ Tail(s) \in Seq(A)
           /\ Len(s) > 0 /\ Len(Tail(s)) = Len(s) - 1
           /\ \A i \in 1..Len(Tail(s)) : Tail(s)[i] = s[i+1]
BY HeadTailProperties, EmptySeq

\* An instance that loses a reference is freed if it was the last one.
LEMMA FreeingPush ==
    ASSUME NEW fr \in Seq(Addr), NEW u, NEW rc \in [Addr -> Nat],
           Freeing(fr, u, rc), NEW o \in Addr, rc[o] > 0, u[o] # NULL
    PROVE  Freeing(IF rc[o] = 1 THEN <<o>> \o fr ELSE fr, u,
                   [rc EXCEPT ![o] = @ - 1])
<1> DEFINE rc2 == [rc EXCEPT ![o] = @ - 1]
           new == <<o>> \o fr
<1>1. rc2[o] = rc[o] - 1 /\ \A a \in Addr : a # o => rc2[a] = rc[a]
  OBVIOUS
<1>2. Len(fr) \in Nat /\ \A i \in 1..Len(fr) : fr[i] \in Addr /\ fr[i] # o
  BY DEF Freeing
<1>3. CASE rc[o] # 1
  <2>1. \A a \in Addr : rc2[a] = 0 <=> rc[a] = 0
    BY <1>1, <1>3
  <2> HIDE DEF rc2
  <2> QED BY <2>1, <1>2, <1>3 DEF Freeing
<1>4. CASE rc[o] = 1
  <2>1. /\ Len(new) = Len(fr) + 1 /\ new[1] = o
        /\ \A i \in 1..Len(fr) : new[i+1] = fr[i]
    BY Push
  <2>2. \A i \in 1..Len(new) : i = 1 \/ (i - 1 \in 1..Len(fr) /\ new[i] = fr[i-1])
    <3> TAKE i \in 1..Len(new)
    <3> SUFFICES ASSUME i # 1
                 PROVE  i - 1 \in 1..Len(fr) /\ new[i] = fr[i-1]
      OBVIOUS
    <3>1. i - 1 \in 1..Len(fr) /\ (i - 1) + 1 = i
      BY <2>1, <1>2
    <3> QED BY <3>1, <2>1
  <2> HIDE DEF new, rc2
  <2>3. \A i \in 1..Len(new) : u[new[i]] # NULL /\ rc2[new[i]] = 0
    <3>1. u[new[1]] # NULL /\ rc2[new[1]] = 0
      BY <1>1, <1>4, <2>1
    <3>2. \A i \in 1..Len(fr) : u[fr[i]] # NULL /\ rc2[fr[i]] = 0
      BY <1>1, <1>2 DEF Freeing
    <3> QED BY <3>1, <3>2, <2>2
  <2>4. \A i, j \in 1..Len(new) : new[i] = new[j] => i = j
    <3> SUFFICES ASSUME NEW i \in 1..Len(new), NEW j \in 1..Len(new),
                        new[i] = new[j]
                 PROVE  i = j
      OBVIOUS
    <3>1. i = 1 <=> j = 1
      BY <1>2, <2>1, <2>2
    <3>2. i # 1 => i - 1 = j - 1
      <4> HAVE i # 1
      <4>1. i - 1 \in 1..Len(fr) /\ j - 1 \in 1..Len(fr) /\ fr[i-1] = fr[j-1]
        BY <3>1, <2>2
      <4> QED BY <4>1 DEF Freeing
    <3> QED BY <3>1, <3>2, <2>1, <1>2
  <2>5. ASSUME NEW a \in Addr, u[a] # NULL, rc2[a] = 0
        PROVE  \E i \in 1..Len(new) : new[i] = a
    <3>1. CASE a = o
      <4>1. 1 \in 1..Len(new)
        BY <2>1, <1>2
      <4> QED BY <4>1, <3>1, <2>1
    <3>2. CASE a # o
      <4>1. PICK i \in 1..Len(fr) : fr[i] = a
        BY <3>2, <2>5, <1>1 DEF Freeing
      <4>2. i + 1 \in 1..Len(new) /\ new[i+1] = a
        BY <4>1, <2>1, <1>2
      <4> QED BY <4>2
    <3> QED BY <3>1, <3>2
  <2> QED BY <1>4, <2>3, <2>4, <2>5 DEF Freeing, new, rc2
<1> QED BY <1>3, <1>4

\* A freed instance is taken off the sequence.
LEMMA FreeingPop ==
    ASSUME NEW fr \in Seq(Addr), NEW u \in [Addr -> Ids \cup {NULL}], NEW rc,
           Freeing(fr, u, rc), fr # <<>>
    PROVE  Freeing(Tail(fr), [u EXCEPT ![Head(fr)] = NULL], rc)
<1> DEFINE t == Tail(fr)
           u2 == [u EXCEPT ![Head(fr)] = NULL]
<1>1. /\ Head(fr) \in Addr /\ Head(fr) = fr[1] /\ Len(t) = Len(fr) - 1
      /\ Len(fr) \in Nat /\ Len(fr) > 0
      /\ \A i \in 1..Len(t) : t[i] = fr[i+1] /\ i+1 \in 1..Len(fr) /\ t[i] \in Addr
  BY Pop
<1>2. u2[Head(fr)] = NULL /\ \A a \in Addr : a # Head(fr) => u2[a] = u[a]
  BY <1>1
<1> HIDE DEF t, u2
<1>3. \A i \in 1..Len(t) : t[i] # Head(fr)
  BY <1>1 DEF Freeing
<1>4. \A i \in 1..Len(t) : u2[t[i]] # NULL /\ rc[t[i]] = 0
  BY SMTT(30), <1>1, <1>2, <1>3 DEF Freeing
<1>5. \A i, j \in 1..Len(t) : t[i] = t[j] => i = j
  <2> SUFFICES ASSUME NEW i \in 1..Len(t), NEW j \in 1..Len(t), t[i] = t[j]
               PROVE  i = j
    OBVIOUS
  <2>1. i + 1 = j + 1
    BY <1>1 DEF Freeing
  <2> QED BY <2>1, <1>1
<1>6. ASSUME NEW a \in Addr, u2[a] # NULL, rc[a] = 0
      PROVE  \E i \in 1..Len(t) : t[i] = a
  <2>1. a # fr[1] /\ u[a] # NULL
    BY <1>1, <1>2, <1>6
  <2>2. PICK i \in 1..Len(fr) : fr[i] = a
    BY <2>1, <1>6 DEF Freeing
  <2>3. i - 1 \in 1..Len(t) /\ (i - 1) + 1 = i
    BY <2>1, <2>2, <1>1
  <2>4. t[i - 1] = a
    BY <2>2, <2>3, <1>1
  <2> QED BY <2>3, <2>4
<1> QED BY <1>4, <1>5, <1>6 DEF Freeing, t, u2

\* References taken or moved between instances that have some.
LEMMA FreeingSame ==
    ASSUME NEW fr, NEW u, NEW rc, NEW rc2,
           \A a \in Addr : rc2[a] = 0 <=> rc[a] = 0,
           \A i \in 1..Len(fr) : fr[i] \in Addr,
           Freeing(fr, u, rc)
    PROVE  Freeing(fr, u, rc2)
BY DEF Freeing

----------------------------------------------------------------------------
(* The instance store.                                                      *)

\* The store st maps the ids to the instances that have references.
Maps(st, u, rc) ==
    \A id \in Ids : \A a \in Addr : st[id] = a <=> u[a] = id /\ rc[a] > 0

\* The invariant of the store, said with Maps.
LEMMA StoreExactMaps ==
    StoreExact <=> /\ Maps(istore, uuid, refcount)
                   /\ \A a \in hold : a \in Live /\ IsMeta(a)
BY NullAssumption DEF StoreExact, Maps, Live

\* The last reference takes an instance out of the store.
LEMMA MapsRelease ==
    ASSUME NEW st \in [Ids -> Addr \cup {NULL}], NEW u, NEW rc \in [Addr -> Nat],
           Maps(st, u, rc), NEW o \in Addr, rc[o] > 0, u[o] \in Ids
    PROVE  Maps(IF rc[o] = 1 THEN [st EXCEPT ![u[o]] = NULL] ELSE st, u,
                [rc EXCEPT ![o] = @ - 1])
<1> DEFINE rc2 == [rc EXCEPT ![o] = @ - 1]
           st2 == [st EXCEPT ![u[o]] = NULL]
<1>1. rc2[o] = rc[o] - 1 /\ \A a \in Addr : a # o => rc2[a] = rc[a]
  OBVIOUS
<1>2. st2[u[o]] = NULL /\ \A id \in Ids : id # u[o] => st2[id] = st[id]
  OBVIOUS
<1>3. st[u[o]] = o
  BY DEF Maps
<1> HIDE DEF rc2, st2
<1>4. CASE rc[o] # 1
  <2>1. \A a \in Addr : rc2[a] > 0 <=> rc[a] > 0
    BY <1>1, <1>4
  <2> QED BY <2>1, <1>4 DEF Maps, rc2
<1>5. CASE rc[o] = 1
  <2>1. ASSUME NEW id \in Ids, NEW a \in Addr
        PROVE  st2[id] = a <=> u[a] = id /\ rc2[a] > 0
    <3>1. CASE id = u[o]
      <4>1. st2[id] # a
        BY <1>2, <3>1, NullAssumption
      <4>2. u[a] = id /\ rc[a] > 0 => a = o
        BY <1>3, <3>1 DEF Maps
      <4>3. ~(u[a] = id /\ rc2[a] > 0)
        BY <4>2, <1>1, <1>5
      <4> QED BY <4>1, <4>3
    <3>2. CASE id # u[o]
      <4>1. st2[id] = st[id]
        BY <1>2, <3>2
      <4>2. u[a] = id => rc2[a] = rc[a]
        BY <1>1, <3>2
      <4> QED BY <4>1, <4>2 DEF Maps
    <3> QED BY <3>1, <3>2
  <2> QED BY <2>1, <1>5 DEF Maps, rc2, st2
<1> QED BY <1>4, <1>5

\* A new instance under an unused id.
LEMMA MapsAdd ==
    ASSUME NEW st \in [Ids -> Addr \cup {NULL}], NEW u \in [Addr -> Ids \cup {NULL}],
           NEW rc, Maps(st, u, rc), NEW a \in Addr, u[a] = NULL,
           NEW id \in Ids, st[id] = NULL,
           NEW rc2, rc2[a] > 0,
           \A b \in Addr : b # a => (rc2[b] > 0 <=> rc[b] > 0)
    PROVE  Maps([st EXCEPT ![id] = a], [u EXCEPT ![a] = id], rc2)
<1> DEFINE st2 == [st EXCEPT ![id] = a]
           u2 == [u EXCEPT ![a] = id]
<1>1. st2[id] = a /\ \A i \in Ids : i # id => st2[i] = st[i]
  OBVIOUS
<1>2. u2[a] = id /\ \A b \in Addr : b # a => u2[b] = u[b]
  OBVIOUS
<1>3. \A b \in Addr : ~(u[b] = id /\ rc[b] > 0)
  BY NullAssumption DEF Maps
<1>4. \A i \in Ids : st[i] # a
  BY NullAssumption DEF Maps
<1> HIDE DEF st2, u2
<1>5. ASSUME NEW i \in Ids, NEW b \in Addr
      PROVE  st2[i] = b <=> u2[b] = i /\ rc2[b] > 0
  <2>1. CASE b = a
    BY <2>1, <1>1, <1>2, <1>4
  <2>2. CASE b # a
    <3>1. u2[b] = u[b] /\ (rc2[b] > 0 <=> rc[b] > 0)
      BY <2>2, <1>2
    <3>2. CASE i = id
      BY <3>1, <3>2, <2>2, <1>1, <1>3
    <3>3. CASE i # id
      BY <3>1, <3>3, <1>1 DEF Maps
    <3> QED BY <3>2, <3>3
  <2> QED BY <2>1, <2>2
<1> QED BY <1>5 DEF Maps, st2, u2

\* Memory of an instance without references is given back.
LEMMA MapsFree ==
    ASSUME NEW st, NEW u \in [Addr -> Ids \cup {NULL}], NEW rc,
           Maps(st, u, rc), NEW o \in Addr, rc[o] = 0
    PROVE  Maps(st, [u EXCEPT ![o] = NULL], rc)
<1>1. \A a \in Addr : a # o => [u EXCEPT ![o] = NULL][a] = u[a]
  OBVIOUS
<1>2. ~(rc[o] > 0)
  OBVIOUS
<1> QED BY <1>1, <1>2 DEF Maps

\* References taken or moved between instances that have some.
LEMMA MapsSame ==
    ASSUME NEW st, NEW u, NEW rc, NEW rc2, Maps(st, u, rc),
           \A a \in Addr : rc2[a] > 0 <=> rc[a] > 0
    PROVE  Maps(st, u, rc2)
BY DEF Maps

\* dlite_instance_decref()
LEMMA ReleaseStep ==
    ASSUME TypeOK, NEW rc \in [Addr -> Nat], NEW o \in Addr, rc[o] > 0,
           uuid[o] # NULL, NEW rest \in Seq(Addr), Release(rc, o, rest)
    PROVE  /\ refcount' = [rc EXCEPT ![o] = @ - 1]
           /\ refcount' \in [Addr -> Nat]
           /\ istore' \in [Ids -> Addr \cup {NULL}]
           /\ \A id \in Ids : istore'[id] \in {istore[id], NULL}
           /\ freeing' \in Seq(Addr)
           /\ Maps(istore, uuid, rc) => Maps(istore', uuid, refcount')
           /\ \A u : u[o] # NULL /\ Freeing(rest, u, rc) =>
                 Freeing(freeing', u, refcount')
<1>1. uuid[o] \in Ids
  BY DEF TypeOK
<1>2. refcount' = [rc EXCEPT ![o] = @ - 1] /\ rc[o] - 1 \in Nat
  BY DEF Release
<1>3. refcount' \in [Addr -> Nat]
  BY <1>2
<1>4. /\ istore' = IF rc[o] = 1 THEN [istore EXCEPT ![uuid[o]] = NULL] ELSE istore
      /\ freeing' = IF rc[o] = 1 THEN <<o>> \o rest ELSE rest
  BY DEF Release
<1>5. istore \in [Ids -> Addr \cup {NULL}]
  BY DEF TypeOK
<1>6. istore' \in [Ids -> Addr \cup {NULL}]
      /\ \A id \in Ids : istore'[id] \in {istore[id], NULL}
  BY <1>1, <1>4, <1>5
<1>7. freeing' \in Seq(Addr)
  BY <1>4, Push
<1>8. Maps(istore, uuid, rc) => Maps(istore', uuid, refcount')
  BY <1>1, <1>2, <1>4, <1>5, MapsRelease
<1>9. \A u : u[o] # NULL /\ Freeing(rest, u, rc) => Freeing(freeing', u, refcount')
  BY <1>2, <1>4, FreeingPush
<1> QED BY <1>2, <1>3, <1>6, <1>7, <1>8, <1>9

----------------------------------------------------------------------------
(* What the invariant says of a state.                                      *)

\* Changing the reference in a handle, in a `_parent` or in a `meta` member
\* moves one owner.
LEMMA MoveHandle ==
    ASSUME TypeOK, NEW h \in Handles, NEW v, handle' = [handle EXCEPT ![h] = v], NEW o
    PROVE  HandleRefs(o)' = HandleRefs(o)
              - (IF handle[h] = o THEN 1 ELSE 0) + (IF v = o THEN 1 ELSE 0)
<1>1. IsFiniteSet(Handles)
  BY FiniteAssumption
<1>2. handle'[h] = v /\ SameBut(Handles, handle, handle', h)
  BY DEF SameBut, TypeOK
<1>3. Moved(Handles, handle, handle', h, o)
  BY <1>1, <1>2, CountMove
<1> QED BY <1>2, <1>3 DEF Moved, HandleRefs

\* The same for a `_parent` member, of an instance whose parent is not being
\* replaced.
LEMMA MoveParent ==
    ASSUME TypeOK, NEW a \in Addr \ {replaced}, UNCHANGED replaced, NEW v,
           parent' = [parent EXCEPT ![a] = v], NEW o
    PROVE  ParentRefs(o)' = ParentRefs(o)
              - (IF parent[a] = o THEN 1 ELSE 0) + (IF v = o THEN 1 ELSE 0)
<1> DEFINE S == Addr \ {replaced}
<1>1. IsFiniteSet(S) /\ S' = S
  BY FiniteAssumption, FS_Subset
<1>2. parent'[a] = v /\ SameBut(S, parent, parent', a)
  BY DEF SameBut, TypeOK
<1>3. Moved(S, parent, parent', a, o)
  BY <1>1, <1>2, CountMove
<1> QED BY <1>2, <1>3 DEF Moved, ParentRefs

\* dlite_instance_set_parent() gives the reference to the old parent back.
LEMMA LeaveParent ==
    ASSUME NEW a \in Addr, replaced = NULL, replaced' = a, UNCHANGED parent, NEW o
    PROVE  ParentRefs(o)' = ParentRefs(o) - (IF parent[a] = o THEN 1 ELSE 0)
<1> DEFINE T == {b \in Addr \ {replaced} : parent[b] = o}
           U == {b \in Addr \ {replaced'} : parent'[b] = o}
<1>1. IsFiniteSet(T)
  BY FiniteAssumption, FS_Subset
<1>2. U = T \ {a} /\ (a \in T <=> parent[a] = o)
  BY NullAssumption
<1> HIDE DEF T, U
<1>3. /\ Cardinality(T) \in Nat
      /\ Cardinality(U) = IF a \in T THEN Cardinality(T) - 1 ELSE Cardinality(T)
  <2>1. Cardinality(T \ {a})
           = IF a \in T THEN Cardinality(T) - 1 ELSE Cardinality(T)
    BY <1>1, FS_RemoveElement
  <2> QED BY <1>1, <1>2, <2>1, FS_CardinalityType
<1>4. ParentRefs(o) = Cardinality(T) /\ ParentRefs(o)' = Cardinality(U)
  BY DEF ParentRefs, Count, T, U
<1> QED BY <1>2, <1>3, <1>4

\* It takes a reference to the new one.
LEMMA EnterParent ==
    ASSUME TypeOK, replaced \in Addr, replaced' = NULL, NEW v,
           parent' = [parent EXCEPT ![replaced] = v], NEW o
    PROVE  ParentRefs(o)' = ParentRefs(o) + (IF v = o THEN 1 ELSE 0)
<1> DEFINE T == {b \in Addr \ {replaced} : parent[b] = o}
           U == {b \in Addr \ {replaced'} : parent'[b] = o}
<1>1. IsFiniteSet(T)
  BY FiniteAssumption, FS_Subset
<1>2. /\ parent'[replaced] = v
      /\ \A b \in Addr \ {replaced} : parent'[b] = parent[b]
  BY DEF TypeOK
<1>3. U = (IF v = o THEN T \cup {replaced} ELSE T) /\ replaced \notin T
  BY <1>2, NullAssumption
<1>4. /\ Cardinality(T) \in Nat
      /\ Cardinality(T \cup {replaced}) = Cardinality(T) + 1
  BY <1>1, <1>3, FS_CardinalityType, FS_AddElement
<1>5. ParentRefs(o) = Cardinality(T) /\ ParentRefs(o)' = Cardinality(U)
  BY DEF ParentRefs, Count
<1> HIDE DEF T, U
<1> QED BY <1>3, <1>4, <1>5

\* The same for the `meta` member of an instance that is not static.
LEMMA MoveMeta ==
    ASSUME TypeOK, NEW a \in Addr \ Schema, NEW v, meta' = [meta EXCEPT ![a] = v], NEW o
    PROVE  MetaRefs(o)' = MetaRefs(o)
              - (IF meta[a] = o THEN 1 ELSE 0) + (IF v = o THEN 1 ELSE 0)
<1>1. IsFiniteSet(Addr \ Schema)
  BY FiniteAssumption, FS_Subset
<1>2. meta'[a] = v /\ SameBut(Addr \ Schema, meta, meta', a)
  BY DEF SameBut, TypeOK
<1>3. Moved(Addr \ Schema, meta, meta', a, o)
  BY <1>1, <1>2, CountMove
<1> QED BY <1>2, <1>3 DEF Moved, MetaRefs

\* The counts of owners are natural numbers, and not zero when there is an
\* owner.
LEMMA Counts ==
    ASSUME NEW o
    PROVE  /\ HandleRefs(o) \in Nat /\ MetaRefs(o) \in Nat /\ ParentRefs(o) \in Nat
           /\ \A h \in Handles : handle[h] = o => HandleRefs(o) > 0
           /\ \A a \in Addr \ Schema : meta[a] = o => MetaRefs(o) > 0
           /\ \A a \in Addr \ {replaced} : parent[a] = o => ParentRefs(o) > 0
<1>1. /\ IsFiniteSet(Handles) /\ IsFiniteSet(Addr \ {replaced})
      /\ IsFiniteSet(Addr \ Schema)
  BY FiniteAssumption, FS_Subset
<1> QED BY <1>1, CountNat DEF HandleRefs, MetaRefs, ParentRefs

\* Whatever has an owner is live, and an address that is not allocated has
\* none.
LEMMA Referenced ==
    ASSUME IInv
    PROVE  /\ NoDangling
           /\ Schema \subseteq Live /\ hold \subseteq Live
           /\ \A a \in Addr : lost[a] > 0 => a \in Live
           /\ \A a \in Free : refcount[a] = 0 /\ lost[a] = 0
<1>1. ASSUME NEW o \in Addr,
             \/ o \in Schema \/ o \in hold \/ \E h \in Handles : handle[h] = o
             \/ \E a \in Addr \ Schema : meta[a] = o
             \/ \E a \in Addr \ {replaced} : parent[a] = o
             \/ lmeta = o \/ got = o \/ lost[o] > 0
      PROVE  o \in Live
  <2>1. refcount[o] = Owners(o) /\ lost[o] \in Nat
    BY DEF IInv, RefcountExact, TypeOK
  <2>2. /\ HandleRefs(o) \in Nat /\ MetaRefs(o) \in Nat /\ ParentRefs(o) \in Nat
    BY Counts
  <2>3. \/ o \in Schema \/ o \in hold \/ lmeta = o \/ got = o \/ lost[o] > 0
        \/ HandleRefs(o) > 0 \/ MetaRefs(o) > 0 \/ ParentRefs(o) > 0
    BY <1>1, Counts
  <2>4. refcount[o] > 0
    BY <2>1, <2>2, <2>3 DEF Owners, One
  <2> QED BY <2>4 DEF IInv, AllocExact, Live
<1>2. Basic \in Live /\ \A a \in Schema : meta[a] = Basic
  BY <1>1, SchemaAssumption DEF Schema, IInv, AllocExact
<1>3. NoDangling
  <2>1. \A a \in Addr : meta[a] # NULL => meta[a] \in Live
    BY <1>1, <1>2 DEF IInv, TypeOK
  <2> QED BY <1>1, <2>1 DEF NoDangling, IInv, TypeOK
<1>4. Schema \subseteq Live /\ hold \subseteq Live
  BY <1>1, SchemaAssumption DEF IInv, TypeOK
<1>5. ASSUME NEW a \in Free PROVE refcount[a] = 0 /\ lost[a] = 0
  <2>1. a \in Addr /\ refcount[a] = 0 /\ a \notin Live
    BY <1>5 DEF Free, IInv, AllocExact, Live
  <2>2. lost[a] \in Nat
    BY <2>1 DEF IInv, TypeOK
  <2> QED BY <1>1, <2>1, <2>2
<1> QED BY <1>1, <1>3, <1>4, <1>5

\* The instances that dlite_instance_set_parent() works on are live.
LEMMA Setting ==
    ASSUME IInv, SettingExact
    PROVE  /\ replaced # NULL => call.op = "set_parent"
           /\ call.op = "set_parent" =>
                 /\ replaced \in Addr /\ replaced \in Live
                 /\ call.to \in Addr /\ call.to \in Live
                 /\ loading = <<>> /\ lmeta = NULL /\ got = NULL
                 /\ ~frozen[replaced] /\ frozen[call.to]
           /\ freeing # <<>> => Head(freeing) \in Addr /\ Head(freeing) \notin Live
<1>1. replaced # NULL => call.op = "set_parent"
  BY DEF SettingExact
<1>2. ASSUME call.op = "set_parent"
      PROVE  /\ replaced \in Live /\ call.to \in Live
             /\ loading = <<>> /\ lmeta = NULL /\ got = NULL
             /\ ~frozen[replaced] /\ frozen[call.to]
  BY <1>2, Referenced DEF SettingExact, NoDangling
<1>3. ASSUME freeing # <<>>
      PROVE  Head(freeing) \in Addr /\ Head(freeing) \notin Live
  <2>1. freeing \in Seq(Addr) /\ Freeing(freeing, uuid, refcount)
    BY DEF IInv, TypeOK, FreeingExact
  <2>2. Head(freeing) \in Addr /\ Head(freeing) = freeing[1] /\ 1 \in 1..Len(freeing)
    BY <1>3, <2>1, Pop
  <2>3. refcount[Head(freeing)] = 0
    BY <2>1, <2>2 DEF Freeing
  <2> QED BY <2>2, <2>3 DEF Live
<1> QED BY <1>1, <1>2, <1>3 DEF Live

\* The same in the next state.
LEMMA CountsNext ==
    ASSUME NEW o
    PROVE  HandleRefs(o)' \in Nat /\ MetaRefs(o)' \in Nat /\ ParentRefs(o)' \in Nat
<1>1. /\ IsFiniteSet(Handles) /\ IsFiniteSet(Addr \ {replaced'})
      /\ IsFiniteSet(Addr \ Schema)
  BY FiniteAssumption, FS_Subset
<1> QED BY <1>1, CountNat DEF HandleRefs, MetaRefs, ParentRefs

\* A step keeps the reference count of o exact when it changes it by as much
\* as the number of owners.
LEMMA Balance ==
    ASSUME TypeOK, RefcountExact, NEW o \in Addr, lost'[o] \in Int,
           refcount'[o] = refcount[o]
              + (HandleRefs(o)' - HandleRefs(o)) + (MetaRefs(o)' - MetaRefs(o))
              + (ParentRefs(o)' - ParentRefs(o)) + (lost'[o] - lost[o])
              + (IF o \in hold' THEN 1 ELSE 0) - (IF o \in hold THEN 1 ELSE 0)
              + (IF lmeta' = o THEN 1 ELSE 0) - (IF lmeta = o THEN 1 ELSE 0)
              + (IF got' = o THEN 1 ELSE 0) - (IF got = o THEN 1 ELSE 0)
    PROVE  refcount'[o] = Owners(o)'
<1>1. /\ HandleRefs(o) \in Int /\ MetaRefs(o) \in Int /\ ParentRefs(o) \in Int
      /\ HandleRefs(o)' \in Int /\ MetaRefs(o)' \in Int /\ ParentRefs(o)' \in Int
  BY Counts, CountsNext
<1>2. lost[o] \in Int
  BY DEF TypeOK
<1>3. refcount[o] = Owners(o)
  BY DEF RefcountExact
<1> QED BY <1>1, <1>2, <1>3 DEF Owners, One

\* What the store holds is live when the reference counts are exact.
LEMMA HoldLive ==
    ASSUME RefcountExact', hold' \subseteq Addr, lost' \in [Addr -> Nat]
    PROVE  \A a \in hold' : refcount'[a] > 0
<1> SUFFICES ASSUME NEW a \in hold' PROVE refcount'[a] > 0
  OBVIOUS
<1>1. refcount'[a] = Owners(a)' /\ lost'[a] \in Nat
  BY DEF RefcountExact
<1>2. HandleRefs(a)' \in Nat /\ MetaRefs(a)' \in Nat /\ ParentRefs(a)' \in Nat
  BY CountsNext
<1> QED BY <1>1, <1>2 DEF Owners, One

(* The conjuncts about the heap and the store, for the three kinds of step. *)

\* References are taken or moved.
LEMMA StepMoves ==
    ASSUME IInv, UNCHANGED <<uuid, meta, istore, freeing>>, hold' \subseteq hold,
           refcount' \in [Addr -> Nat],
           \A a \in Addr : refcount'[a] > 0 <=> refcount[a] > 0,
           \A a \in Addr : uuid[a] = NULL => parent'[a] = NULL
    PROVE  AllocExact' /\ StoreExact' /\ FreeingExact'
<1>1. TypeOK /\ AllocExact /\ StoreExact /\ FreeingExact
  BY DEF IInv
<1>2. refcount \in [Addr -> Nat] /\ freeing \in Seq(Addr)
  BY <1>1 DEF TypeOK
<1>3. \A a \in Addr : refcount'[a] = 0 <=> refcount[a] = 0
  BY <1>2
<1>4. AllocExact'
  BY <1>1, <1>3 DEF AllocExact
<1>5. StoreExact'
  BY <1>1 DEF StoreExact, Live, IsMeta, IsMetaMeta
<1>6. FreeingExact'
  <2>1. \A i \in 1..Len(freeing) : freeing[i] \in Addr
    BY <1>2
  <2>2. Freeing(freeing, uuid, refcount')
    BY <1>1, <1>3, <2>1, FreeingSame DEF FreeingExact
  <2> QED BY <2>2 DEF FreeingExact
<1> QED BY <1>4, <1>5, <1>6

\* dlite_instance_decref() is called with reference counts rc.
LEMMA StepReleases ==
    ASSUME IInv, NEW rc \in [Addr -> Nat],
           \A a \in Addr : rc[a] > 0 <=> refcount[a] > 0,
           NEW o \in Addr, rc[o] > 0, Release(rc, o, freeing),
           UNCHANGED <<uuid, meta>>, hold' \subseteq hold,
           \A a \in hold' : refcount'[a] > 0,
           \A a \in Addr : uuid[a] = NULL => parent'[a] = NULL
    PROVE  AllocExact' /\ StoreExact' /\ FreeingExact'
<1>1. TypeOK /\ AllocExact /\ StoreExact /\ FreeingExact
  BY DEF IInv
<1>2. refcount \in [Addr -> Nat] /\ freeing \in Seq(Addr)
  BY <1>1 DEF TypeOK
<1>3. \A a \in Addr : rc[a] = 0 <=> refcount[a] = 0
  BY <1>2
<1>4. uuid[o] # NULL
  BY <1>1, <1>2 DEF AllocExact
<1>5. /\ refcount' = [rc EXCEPT ![o] = @ - 1]
      /\ Maps(istore, uuid, rc) => Maps(istore', uuid, refcount')
      /\ \A u : u[o] # NULL /\ Freeing(freeing, u, rc) =>
            Freeing(freeing', u, refcount')
  BY <1>1, <1>2, <1>4, ReleaseStep
<1>6. AllocExact'
  <2>1. \A a \in Addr : rc[a] = 0 => refcount'[a] = 0
    BY <1>5
  <2> QED BY <1>1, <1>3, <2>1 DEF AllocExact
<1>7. StoreExact'
  <2>1. Maps(istore, uuid, rc)
    BY <1>1, StoreExactMaps, MapsSame
  <2>2. Maps(istore', uuid', refcount')
    BY <1>5, <2>1
  <2>3. \A a \in hold' : a \in Live' /\ IsMeta(a)'
    BY <1>1 DEF StoreExact, Live, IsMeta, IsMetaMeta
  <2> QED BY <2>2, <2>3, NullAssumption DEF StoreExact, Maps, Live
<1>8. FreeingExact'
  <2>1. \A i \in 1..Len(freeing) : freeing[i] \in Addr
    BY <1>2
  <2>2. Freeing(freeing, uuid, rc)
    BY <1>1, <1>3, <2>1, FreeingSame DEF FreeingExact
  <2> QED BY <1>4, <1>5, <2>2 DEF FreeingExact
<1> QED BY <1>6, <1>7, <1>8

\* A new instance of the metadata m is created at a.
LEMMA StepCreates ==
    ASSUME IInv, NEW a \in Free, NEW id \in Ids, NEW m \in Live, NEW d,
           istore[id] = NULL, freeing = <<>>, freeing' = freeing,
           NewInstance(a, id, m, d),
           refcount' \in [Addr -> Nat], refcount'[a] > 0,
           \A b \in Addr : b # a => (refcount'[b] > 0 <=> refcount[b] > 0),
           \A b \in Addr : uuid[b] = NULL /\ b # a => parent'[b] = NULL
    PROVE  AllocExact' /\ StoreExact' /\ FreeingExact'
<1>1. TypeOK /\ AllocExact /\ StoreExact /\ FreeingExact
  BY DEF IInv
<1>2. /\ refcount \in [Addr -> Nat] /\ uuid \in [Addr -> Ids \cup {NULL}]
      /\ meta \in [Addr -> Addr \cup {NULL}] /\ istore \in [Ids -> Addr \cup {NULL}]
  BY <1>1 DEF TypeOK
<1>3. /\ a \in Addr /\ uuid[a] = NULL /\ m \in Addr /\ uuid[m] # NULL
      /\ a \notin Schema /\ a \notin hold
  BY Referenced DEF Free, Live
<1>4. /\ uuid' = [uuid EXCEPT ![a] = id] /\ meta' = [meta EXCEPT ![a] = m]
      /\ istore' = [istore EXCEPT ![id] = a]
      /\ hold' = IF IsMetaMeta(m) THEN hold \cup {a} ELSE hold
  BY DEF NewInstance
<1>5. /\ uuid'[a] = id /\ meta'[a] = m
      /\ \A b \in Addr : b # a => uuid'[b] = uuid[b] /\ meta'[b] = meta[b]
  BY <1>2, <1>3, <1>4
<1>6. AllocExact'
  <2>1. \A b \in Addr : b # a /\ uuid[b] = NULL => refcount'[b] = 0
    BY <1>1, <1>2 DEF AllocExact
  <2>2. id # NULL /\ m # NULL
    BY <1>3, NullAssumption
  <2>3. ASSUME NEW b \in Addr
        PROVE  IF uuid'[b] = NULL
               THEN meta'[b] = NULL /\ parent'[b] = NULL /\ refcount'[b] = 0
               ELSE meta'[b] # NULL
    <3>1. CASE b = a
      BY <3>1, <1>5, <2>2
    <3>2. CASE b # a
      BY <3>2, <1>1, <1>5, <2>1 DEF AllocExact
    <3> QED BY <3>1, <3>2
  <2>4. \A b \in Schema : meta'[b] = Basic
    BY <1>1, <1>3, <1>5, SchemaAssumption DEF AllocExact
  <2> QED BY <2>3, <2>4 DEF AllocExact
<1>7. StoreExact'
  <2>1. Maps(istore, uuid, refcount)
    BY <1>1, StoreExactMaps
  <2>2. Maps(istore', uuid', refcount')
    BY <1>2, <1>3, <1>4, <2>1, MapsAdd
  <2>3. ASSUME NEW b \in hold' PROVE b \in Live' /\ IsMeta(b)'
    <3>1. CASE b = a
      <4>1. IsMetaMeta(m)
        BY <1>3, <1>4, <3>1, <2>3
      <4>2. meta'[m] = Basic
        BY <4>1, <1>3, <1>5 DEF IsMetaMeta
      <4>3. uuid'[a] # NULL
        BY <1>5, NullAssumption
      <4> QED BY <3>1, <1>3, <1>5, <4>2, <4>3 DEF Live, IsMeta, IsMetaMeta
    <3>2. CASE b # a
      <4>1. b \in hold /\ b \in Live /\ IsMeta(b)
        BY <1>1, <1>4, <2>3, <3>2 DEF StoreExact
      <4>2. b \in Addr /\ meta[b] \in Live /\ meta[b] \in Addr /\ meta[b] # a
        BY <4>1, <1>1, <1>3, Referenced DEF NoDangling, AllocExact, Live
      <4> QED BY <3>2, <4>1, <4>2, <1>5 DEF Live, IsMeta, IsMetaMeta
    <3> QED BY <3>1, <3>2
  <2> QED BY <2>2, <2>3, NullAssumption DEF StoreExact, Maps, Live
<1>8. FreeingExact'
  <2>1. \A b \in Addr : uuid'[b] # NULL => refcount'[b] # 0
    <3>1. \A b \in Addr : uuid[b] # NULL => refcount[b] # 0
      BY <1>1 DEF FreeingExact, Freeing
    <3>2. ASSUME NEW b \in Addr, uuid'[b] # NULL PROVE refcount'[b] # 0
      <4>1. CASE b = a
        BY <4>1
      <4>2. CASE b # a
        <5>1. refcount[b] # 0 /\ refcount[b] \in Nat
          BY <4>2, <3>1, <3>2, <1>2, <1>5
        <5> QED BY <5>1, <4>2
      <4> QED BY <4>1, <4>2
    <3> QED BY <3>2
  <2> QED BY <2>1 DEF FreeingExact, Freeing
<1> QED BY <1>6, <1>7, <1>8

----------------------------------------------------------------------------
(* The invariant is inductive: one lemma per action.                        *)

\* The initial state
LEMMA InitIInv == Init => IInv
<1> SUFFICES ASSUME Init PROVE IInv
  OBVIOUS
<1>1. TypeOK
  BY NullAssumption, SchemaAssumption, InputAssumption
  DEF Init, TypeOK, NoCall, PublicCalls, Schema
<1>2. RefcountExact
  <2> SUFFICES ASSUME NEW o \in Addr PROVE refcount[o] = Owners(o)
    BY DEF RefcountExact
  <2>1. HandleRefs(o) = 0 /\ ParentRefs(o) = 0 /\ MetaRefs(o) = 0
    BY NullAssumption, FS_EmptySet
    DEF Init, Count, HandleRefs, ParentRefs, MetaRefs
  <2>2. lmeta # o /\ got # o /\ lost[o] = 0 /\ hold = Schema
    BY NullAssumption DEF Init
  <2>3. refcount[o] = IF o \in Schema THEN 2 ELSE 0
    BY DEF Init
  <2> QED BY <2>1, <2>2, <2>3 DEF Owners, One
<1>3. AllocExact
  BY NullAssumption, SchemaAssumption DEF Init, AllocExact, Schema
<1>4. StoreExact
  BY NullAssumption, SchemaAssumption
  DEF Init, StoreExact, Live, Schema, IsMeta, IsMetaMeta
<1>5. FreeingExact
  BY SchemaAssumption DEF Init, FreeingExact, Freeing, Schema
<1>6. CallExact
  BY DEF Init, CallExact, NoCall
<1>7. LoadingExact
  BY DEF Init, LoadingExact
<1> QED BY <1>1, <1>2, <1>3, <1>4, <1>5, <1>6, <1>7 DEF IInv

\* dlite_instance_incref() keeps the invariant.
LEMMA IncrefHandleStep ==
    ASSUME IInv, NEW h \in Handles, NEW h2 \in Handles, IncrefHandle(h, h2)
    PROVE  IInv'
<1> DEFINE x == handle[h]
<1>1. x \in Addr /\ refcount[x] > 0 /\ uuid[x] # NULL
  BY Referenced DEF IncrefHandle, NoDangling, Live
<1>2. /\ TypeOK /\ RefcountExact /\ AllocExact /\ StoreExact
      /\ FreeingExact /\ CallExact /\ LoadingExact
  BY DEF IInv
<1>3. /\ refcount' = [refcount EXCEPT ![x] = @ + 1]
      /\ handle' = [handle EXCEPT ![h2] = x] /\ handle[h2] = NULL
      /\ call = NoCall /\ freeing = <<>> /\ borrowed' = NULL
      /\ UNCHANGED <<heap, istore, hold, call, loading, lmeta, got, freeing, lost>>
  BY DEF IncrefHandle, Incref, Idle
<1> HIDE DEF x
<1>4. TypeOK'
  BY <1>1, <1>2, <1>3 DEF TypeOK, heap
<1>5. \A a \in Addr : refcount'[a] > 0 <=> refcount[a] > 0
  BY <1>1, <1>2, <1>3 DEF TypeOK
<1>6. RefcountExact'
  <2> SUFFICES ASSUME NEW o \in Addr PROVE refcount'[o] = Owners(o)'
    BY DEF RefcountExact
  <2>1. HandleRefs(o)' = HandleRefs(o) + (IF x = o THEN 1 ELSE 0)
    <3>1. handle' = [handle EXCEPT ![h2] = x] /\ handle[h2] # o
      BY <1>3, NullAssumption
    <3>2. HandleRefs(o)' = HandleRefs(o) - (IF handle[h2] = o THEN 1 ELSE 0)
                                         + (IF x = o THEN 1 ELSE 0)
      BY ZenonT(30), <3>1, <1>2, MoveHandle
    <3>3. HandleRefs(o) \in Int
      BY Counts
    <3> QED BY <3>1, <3>2, <3>3
  <2>2. refcount'[o] = refcount[o] + (IF x = o THEN 1 ELSE 0)
    BY <1>1, <1>2, <1>3 DEF TypeOK
  <2>3. MetaRefs(o)' = MetaRefs(o) /\ ParentRefs(o)' = ParentRefs(o)
    BY <1>3 DEF MetaRefs, ParentRefs, heap
  <2>4. lost'[o] = lost[o] /\ lost[o] \in Int
    BY <1>2, <1>3 DEF TypeOK
  <2>5. HandleRefs(o) \in Int /\ MetaRefs(o) \in Int /\ ParentRefs(o) \in Int
    BY Counts
  <2>6. hold' = hold /\ lmeta' = lmeta /\ got' = got
    BY <1>3
  <2>7. refcount[o] \in Int
    BY <1>2 DEF TypeOK
  <2> QED BY <2>1, <2>2, <2>3, <2>4, <2>5, <2>6, <2>7, <1>2, Balance
<1>7. AllocExact' /\ StoreExact' /\ FreeingExact'
  BY <1>2, <1>3, <1>4, <1>5, StepMoves DEF AllocExact, TypeOK, heap
<1>10. CallExact'
  BY <1>2, <1>3 DEF CallExact, NoCall
<1>11. LoadingExact'
  BY <1>2, <1>3 DEF LoadingExact
<1> QED BY <1>4, <1>6, <1>7, <1>10, <1>11 DEF IInv

\* dlite_instance_decref() of a reference the application owns
LEMMA DecrefHandleStep ==
    ASSUME IInv, NEW h \in Handles, DecrefHandle(h)
    PROVE  IInv'
<1> DEFINE x == handle[h]
<1>1. x \in Addr /\ refcount[x] > 0 /\ uuid[x] # NULL
  BY Referenced DEF DecrefHandle, NoDangling, Live
<1>2. /\ TypeOK /\ RefcountExact /\ AllocExact /\ StoreExact
      /\ FreeingExact /\ CallExact /\ LoadingExact
  BY DEF IInv
<1>3. refcount \in [Addr -> Nat] /\ freeing \in Seq(Addr)
  BY <1>2 DEF TypeOK
<1>4. /\ Release(refcount, x, freeing) /\ handle' = [handle EXCEPT ![h] = NULL]
      /\ call = NoCall /\ freeing = <<>> /\ borrowed' = NULL
      /\ UNCHANGED <<heap, hold, call, loading, lmeta, got, lost>>
  BY DEF DecrefHandle, Decref, Idle
<1> HIDE DEF x
<1>5. /\ refcount' = [refcount EXCEPT ![x] = @ - 1] /\ refcount' \in [Addr -> Nat]
      /\ istore' \in [Ids -> Addr \cup {NULL}] /\ freeing' \in Seq(Addr)
  BY <1>1, <1>2, <1>3, <1>4, ReleaseStep
<1>6. TypeOK'
  BY <1>2, <1>4, <1>5 DEF TypeOK, heap
<1>7. RefcountExact'
  <2> SUFFICES ASSUME NEW o \in Addr PROVE refcount'[o] = Owners(o)'
    BY DEF RefcountExact
  <2>1. HandleRefs(o)' = HandleRefs(o) - (IF x = o THEN 1 ELSE 0)
    <3>1. handle' = [handle EXCEPT ![h] = NULL] /\ NULL # o
      BY <1>4, NullAssumption
    <3>2. HandleRefs(o)' = HandleRefs(o) - (IF x = o THEN 1 ELSE 0)
                                         + (IF NULL = o THEN 1 ELSE 0)
      BY ZenonT(30), <3>1, <1>2, MoveHandle DEF x
    <3>3. HandleRefs(o) \in Int
      BY Counts
    <3> QED BY <3>1, <3>2, <3>3
  <2>2. refcount'[o] = refcount[o] - (IF x = o THEN 1 ELSE 0)
    BY <1>1, <1>3, <1>5
  <2>3. MetaRefs(o)' = MetaRefs(o) /\ ParentRefs(o)' = ParentRefs(o)
    BY <1>4 DEF MetaRefs, ParentRefs, heap
  <2>4. lost'[o] = lost[o] /\ lost[o] \in Int /\ refcount[o] \in Int
    BY <1>2, <1>4 DEF TypeOK
  <2>5. HandleRefs(o) \in Int /\ MetaRefs(o) \in Int /\ ParentRefs(o) \in Int
    BY Counts
  <2>6. hold' = hold /\ lmeta' = lmeta /\ got' = got
    BY <1>4
  <2> QED BY <2>1, <2>2, <2>3, <2>4, <2>5, <2>6, <1>2, Balance
<1>8. AllocExact' /\ StoreExact' /\ FreeingExact'
  <2>1. hold' \subseteq Addr /\ lost' \in [Addr -> Nat]
    BY <1>6 DEF TypeOK
  <2>2. \A a \in hold' : refcount'[a] > 0
    BY <2>1, <1>7, HoldLive
  <2> QED BY <2>2, <1>1, <1>2, <1>3, <1>4, StepReleases DEF AllocExact, heap
<1>9. CallExact'
  BY <1>2, <1>4 DEF CallExact, NoCall
<1>10. LoadingExact'
  BY <1>2, <1>4 DEF LoadingExact, CallExact
<1> QED BY <1>6, <1>7, <1>8, <1>9, <1>10 DEF IInv

\* dlite_instance_decref() of the reference the store holds on metadata
LEMMA ForgetMetaStep ==
    ASSUME IInv, NEW h \in Handles, ForgetMeta(h)
    PROVE  IInv'
<1> DEFINE x == handle[h]
<1>1. x \in Addr /\ refcount[x] > 0 /\ uuid[x] # NULL /\ x \in hold
  BY Referenced DEF ForgetMeta, Live
<1>2. /\ TypeOK /\ RefcountExact /\ AllocExact /\ StoreExact
      /\ FreeingExact /\ CallExact /\ LoadingExact
  BY DEF IInv
<1>3. refcount \in [Addr -> Nat] /\ freeing \in Seq(Addr)
  BY <1>2 DEF TypeOK
<1>4. /\ Release(refcount, x, freeing) /\ hold' = hold \ {x}
      /\ call = NoCall /\ freeing = <<>> /\ borrowed' = NULL
      /\ UNCHANGED <<heap, handle, call, loading, lmeta, got, lost>>
  BY DEF ForgetMeta, Decref, Idle
<1> HIDE DEF x
<1>5. /\ refcount' = [refcount EXCEPT ![x] = @ - 1] /\ refcount' \in [Addr -> Nat]
      /\ istore' \in [Ids -> Addr \cup {NULL}] /\ freeing' \in Seq(Addr)
  BY <1>1, <1>2, <1>3, <1>4, ReleaseStep
<1>6. TypeOK'
  BY <1>2, <1>4, <1>5 DEF TypeOK, heap
<1>7. RefcountExact'
  <2> SUFFICES ASSUME NEW o \in Addr PROVE refcount'[o] = Owners(o)'
    BY DEF RefcountExact
  <2>1. refcount'[o] = refcount[o] - (IF x = o THEN 1 ELSE 0)
    BY <1>1, <1>3, <1>5
  <2>2. o \in hold' <=> o \in hold /\ x # o
    BY <1>4
  <2>3. /\ MetaRefs(o)' = MetaRefs(o) /\ ParentRefs(o)' = ParentRefs(o)
        /\ HandleRefs(o)' = HandleRefs(o)
    BY <1>4 DEF MetaRefs, ParentRefs, HandleRefs, heap
  <2>4. lost'[o] = lost[o] /\ lost[o] \in Int /\ refcount[o] \in Int
    BY <1>2, <1>4 DEF TypeOK
  <2>5. HandleRefs(o) \in Int /\ MetaRefs(o) \in Int /\ ParentRefs(o) \in Int
    BY Counts
  <2>6. lmeta' = lmeta /\ got' = got
    BY <1>4
  <2> QED BY <2>1, <2>2, <2>3, <2>4, <2>5, <2>6, <1>1, <1>2, Balance
<1>8. AllocExact' /\ StoreExact' /\ FreeingExact'
  <2>1. hold' \subseteq Addr /\ lost' \in [Addr -> Nat] /\ hold' \subseteq hold
    BY <1>4, <1>6 DEF TypeOK
  <2>2. \A a \in hold' : refcount'[a] > 0
    BY <2>1, <1>7, HoldLive
  <2> QED BY <2>1, <2>2, <1>1, <1>2, <1>3, <1>4, StepReleases DEF AllocExact, heap
<1>9. CallExact'
  BY <1>2, <1>4 DEF CallExact, NoCall
<1>10. LoadingExact'
  BY <1>2, <1>4 DEF LoadingExact, CallExact
<1> QED BY <1>6, <1>7, <1>8, <1>9, <1>10 DEF IInv

\* dlite_instance_has() gives back the reference it got.
LEMMA FinishHasStep ==
    ASSUME IInv, FinishHas
    PROVE  IInv'
<1> DEFINE x == got
<1>1. x \in Addr /\ refcount[x] > 0 /\ uuid[x] # NULL
  BY Referenced DEF FinishHas, Returned, NoDangling, Live
<1>2. /\ TypeOK /\ RefcountExact /\ AllocExact /\ StoreExact
      /\ FreeingExact /\ CallExact /\ LoadingExact
  BY DEF IInv
<1>3. refcount \in [Addr -> Nat] /\ freeing \in Seq(Addr)
  BY <1>2 DEF TypeOK
<1>4. /\ Release(refcount, x, freeing) /\ got' = NULL /\ call' = NoCall
      /\ loading = <<>> /\ lmeta = NULL
      /\ UNCHANGED <<heap, hold, handle, loading, lmeta, lost>>
  BY <1>1, <1>2, NullAssumption DEF FinishHas, Decref, Returned, CallExact
<1>5. /\ refcount' = [refcount EXCEPT ![x] = @ - 1] /\ refcount' \in [Addr -> Nat]
      /\ istore' \in [Ids -> Addr \cup {NULL}] /\ freeing' \in Seq(Addr)
  BY <1>1, <1>2, <1>3, <1>4, ReleaseStep
<1>6. TypeOK'
  <2>1. borrowed' \in Addr \cup {NULL}
    BY <1>1, <1>2 DEF FinishHas, TypeOK
  <2> QED BY <2>1, <1>2, <1>4, <1>5, InputAssumption DEF TypeOK, heap, NoCall, PublicCalls
<1>7. RefcountExact'
  <2> SUFFICES ASSUME NEW o \in Addr PROVE refcount'[o] = Owners(o)'
    BY DEF RefcountExact
  <2>1. refcount'[o] = refcount[o] - (IF got = o THEN 1 ELSE 0)
    BY <1>1, <1>3, <1>5
  <2>2. hold' = hold /\ got' # o /\ lmeta' = lmeta
    BY <1>4, NullAssumption
  <2>3. /\ MetaRefs(o)' = MetaRefs(o) /\ ParentRefs(o)' = ParentRefs(o)
        /\ HandleRefs(o)' = HandleRefs(o)
    BY <1>4 DEF MetaRefs, ParentRefs, HandleRefs, heap
  <2>4. lost'[o] = lost[o] /\ lost[o] \in Int /\ refcount[o] \in Int
    BY <1>2, <1>4 DEF TypeOK
  <2>5. HandleRefs(o) \in Int /\ MetaRefs(o) \in Int /\ ParentRefs(o) \in Int
    BY Counts
  <2> QED BY <2>1, <2>2, <2>3, <2>4, <2>5, <1>2, Balance
<1>8. AllocExact' /\ StoreExact' /\ FreeingExact'
  <2>1. hold' \subseteq Addr /\ lost' \in [Addr -> Nat]
    BY <1>6 DEF TypeOK
  <2>2. \A a \in hold' : refcount'[a] > 0
    BY <2>1, <1>7, HoldLive
  <2> QED BY <2>2, <1>1, <1>2, <1>3, <1>4, StepReleases DEF AllocExact, heap
<1>9. CallExact'
  BY <1>4 DEF CallExact, NoCall
<1>10. LoadingExact'
  BY <1>4 DEF LoadingExact
<1> QED BY <1>6, <1>7, <1>8, <1>9, <1>10 DEF IInv


\* dlite_instance_create_from_id() gives back the metadata.
LEMMA DropMetaStep ==
    ASSUME IInv, DropMeta
    PROVE  IInv'
<1> DEFINE x == got
<1>1. x \in Addr /\ refcount[x] > 0 /\ uuid[x] # NULL
  BY Referenced DEF DropMeta, Returned, NoDangling, Live
<1>2. /\ TypeOK /\ RefcountExact /\ AllocExact /\ StoreExact
      /\ FreeingExact /\ CallExact /\ LoadingExact
  BY DEF IInv
<1>3. refcount \in [Addr -> Nat] /\ freeing \in Seq(Addr)
  BY <1>2 DEF TypeOK
<1>4. /\ Release(refcount, x, freeing) /\ got' = NULL /\ call' = NoCall
      /\ loading = <<>> /\ lmeta = NULL
      /\ UNCHANGED <<heap, hold, handle, loading, lmeta, lost>>
  BY <1>1, <1>2, NullAssumption DEF DropMeta, Decref, Returned, CallExact
<1>5. /\ refcount' = [refcount EXCEPT ![x] = @ - 1] /\ refcount' \in [Addr -> Nat]
      /\ istore' \in [Ids -> Addr \cup {NULL}] /\ freeing' \in Seq(Addr)
  BY <1>1, <1>2, <1>3, <1>4, ReleaseStep
<1>6. TypeOK'
  <2>1. borrowed' \in Addr \cup {NULL}
    BY <1>1, <1>2 DEF DropMeta, TypeOK
  <2> QED BY <2>1, <1>2, <1>4, <1>5, InputAssumption DEF TypeOK, heap, NoCall, PublicCalls
<1>7. RefcountExact'
  <2> SUFFICES ASSUME NEW o \in Addr PROVE refcount'[o] = Owners(o)'
    BY DEF RefcountExact
  <2>1. refcount'[o] = refcount[o] - (IF got = o THEN 1 ELSE 0)
    BY <1>1, <1>3, <1>5
  <2>2. hold' = hold /\ got' # o /\ lmeta' = lmeta
    BY <1>4, NullAssumption
  <2>3. /\ MetaRefs(o)' = MetaRefs(o) /\ ParentRefs(o)' = ParentRefs(o)
        /\ HandleRefs(o)' = HandleRefs(o)
    BY <1>4 DEF MetaRefs, ParentRefs, HandleRefs, heap
  <2>4. lost'[o] = lost[o] /\ lost[o] \in Int /\ refcount[o] \in Int
    BY <1>2, <1>4 DEF TypeOK
  <2>5. HandleRefs(o) \in Int /\ MetaRefs(o) \in Int /\ ParentRefs(o) \in Int
    BY Counts
  <2> QED BY <2>1, <2>2, <2>3, <2>4, <2>5, <1>2, Balance
<1>8. AllocExact' /\ StoreExact' /\ FreeingExact'
  <2>1. hold' \subseteq Addr /\ lost' \in [Addr -> Nat]
    BY <1>6 DEF TypeOK
  <2>2. \A a \in hold' : refcount'[a] > 0
    BY <2>1, <1>7, HoldLive
  <2> QED BY <2>2, <1>1, <1>2, <1>3, <1>4, StepReleases DEF AllocExact, heap
<1>9. CallExact'
  BY <1>4 DEF CallExact, NoCall
<1>10. LoadingExact'
  BY <1>4 DEF LoadingExact
<1> QED BY <1>6, <1>7, <1>8, <1>9, <1>10 DEF IInv


\* parse_instance() gives back the metadata when it fails.
LEMMA ReleaseMetaStep ==
    ASSUME IInv, ReleaseMeta
    PROVE  IInv'
<1> DEFINE x == lmeta
<1>1. x \in Addr /\ refcount[x] > 0 /\ uuid[x] # NULL
  BY Referenced DEF ReleaseMeta, Returned, NoDangling, Live
<1>2. /\ TypeOK /\ RefcountExact /\ AllocExact /\ StoreExact
      /\ FreeingExact /\ CallExact /\ LoadingExact
  BY DEF IInv
<1>3. refcount \in [Addr -> Nat] /\ freeing \in Seq(Addr)
  BY <1>2 DEF TypeOK
<1>4. /\ Release(refcount, x, freeing) /\ lmeta' = NULL /\ call' = NoCall
      /\ loading = <<>> /\ got = NULL
      /\ UNCHANGED <<heap, hold, handle, loading, got, lost>>
  BY <1>1, <1>2, NullAssumption DEF ReleaseMeta, Decref, Returned, CallExact
<1>5. /\ refcount' = [refcount EXCEPT ![x] = @ - 1] /\ refcount' \in [Addr -> Nat]
      /\ istore' \in [Ids -> Addr \cup {NULL}] /\ freeing' \in Seq(Addr)
  BY <1>1, <1>2, <1>3, <1>4, ReleaseStep
<1>6. TypeOK'
  <2>1. borrowed' \in Addr \cup {NULL}
    BY <1>1, <1>2 DEF ReleaseMeta, TypeOK
  <2> QED BY <2>1, <1>2, <1>4, <1>5, InputAssumption DEF TypeOK, heap, NoCall, PublicCalls
<1>7. RefcountExact'
  <2> SUFFICES ASSUME NEW o \in Addr PROVE refcount'[o] = Owners(o)'
    BY DEF RefcountExact
  <2>1. refcount'[o] = refcount[o] - (IF lmeta = o THEN 1 ELSE 0)
    BY <1>1, <1>3, <1>5
  <2>2. hold' = hold /\ lmeta' # o /\ got' = got
    BY <1>4, NullAssumption
  <2>3. /\ MetaRefs(o)' = MetaRefs(o) /\ ParentRefs(o)' = ParentRefs(o)
        /\ HandleRefs(o)' = HandleRefs(o)
    BY <1>4 DEF MetaRefs, ParentRefs, HandleRefs, heap
  <2>4. lost'[o] = lost[o] /\ lost[o] \in Int /\ refcount[o] \in Int
    BY <1>2, <1>4 DEF TypeOK
  <2>5. HandleRefs(o) \in Int /\ MetaRefs(o) \in Int /\ ParentRefs(o) \in Int
    BY Counts
  <2> QED BY <2>1, <2>2, <2>3, <2>4, <2>5, <1>2, Balance
<1>8. AllocExact' /\ StoreExact' /\ FreeingExact'
  <2>1. hold' \subseteq Addr /\ lost' \in [Addr -> Nat]
    BY <1>6 DEF TypeOK
  <2>2. \A a \in hold' : refcount'[a] > 0
    BY <2>1, <1>7, HoldLive
  <2> QED BY <2>2, <1>1, <1>2, <1>3, <1>4, StepReleases DEF AllocExact, heap
<1>9. CallExact'
  BY <1>4 DEF CallExact, NoCall
<1>10. LoadingExact'
  BY <1>4 DEF LoadingExact
<1> QED BY <1>6, <1>7, <1>8, <1>9, <1>10 DEF IInv

\* dlite_instance_free() releases the parent of the freed instance.
LEMMA FreeParentStep ==
    ASSUME IInv, SettingExact, FreeParent
    PROVE  IInv'
<1> DEFINE a0 == Head(freeing)
           x == parent[a0]
<1>1. /\ TypeOK /\ RefcountExact /\ AllocExact /\ StoreExact
      /\ FreeingExact /\ CallExact /\ LoadingExact
  BY DEF IInv
<1>2. refcount \in [Addr -> Nat] /\ freeing \in Seq(Addr)
  BY <1>1 DEF TypeOK
<1>3. a0 \in Addr /\ a0 # replaced /\ x # NULL
  BY Setting, NullAssumption DEF FreeParent
<1>4. x \in Addr /\ refcount[x] > 0 /\ uuid[x] # NULL
  BY <1>3, Referenced DEF NoDangling, Live
<1>5. /\ Release(refcount, x, freeing) /\ parent' = [parent EXCEPT ![a0] = NULL]
      /\ UNCHANGED <<uuid, meta, replaced, frozen, dims, hold, handle, calls, lost>>
  BY DEF FreeParent, Decref
<1> HIDE DEF a0, x
<1>6. /\ refcount' = [refcount EXCEPT ![x] = @ - 1] /\ refcount' \in [Addr -> Nat]
      /\ istore' \in [Ids -> Addr \cup {NULL}] /\ freeing' \in Seq(Addr)
      /\ \A id \in Ids : istore'[id] \in {istore[id], NULL}
  BY <1>1, <1>2, <1>4, <1>5, ReleaseStep
<1>7. TypeOK'
  BY <1>1, <1>3, <1>5, <1>6 DEF TypeOK, calls
<1>8. RefcountExact'
  <2> SUFFICES ASSUME NEW o \in Addr PROVE refcount'[o] = Owners(o)'
    BY DEF RefcountExact
  <2>1. ParentRefs(o)' = ParentRefs(o) - (IF x = o THEN 1 ELSE 0)
    <3>1. /\ parent' = [parent EXCEPT ![a0] = NULL] /\ NULL # o
          /\ a0 \in Addr \ {replaced} /\ replaced' = replaced
      BY <1>3, <1>5, NullAssumption
    <3>2. ParentRefs(o)' = ParentRefs(o) - (IF x = o THEN 1 ELSE 0)
                                         + (IF NULL = o THEN 1 ELSE 0)
      BY ZenonT(30), <3>1, <1>1, <1>3, MoveParent DEF x
    <3>3. ParentRefs(o) \in Int
      BY Counts
    <3> QED BY <3>1, <3>2, <3>3
  <2>2. refcount'[o] = refcount[o] - (IF x = o THEN 1 ELSE 0)
    BY <1>2, <1>4, <1>6
  <2>3. MetaRefs(o)' = MetaRefs(o) /\ HandleRefs(o)' = HandleRefs(o)
    BY <1>5 DEF MetaRefs, HandleRefs
  <2>4. lost'[o] = lost[o] /\ lost[o] \in Int /\ refcount[o] \in Int
    BY <1>1, <1>5 DEF TypeOK
  <2>5. HandleRefs(o) \in Int /\ MetaRefs(o) \in Int /\ ParentRefs(o) \in Int
    BY Counts
  <2>6. hold' = hold /\ lmeta' = lmeta /\ got' = got
    BY <1>5 DEF calls
  <2> QED BY <2>1, <2>2, <2>3, <2>4, <2>5, <2>6, <1>1, Balance
<1>9. AllocExact' /\ StoreExact' /\ FreeingExact'
  <2>1. hold' \subseteq Addr /\ lost' \in [Addr -> Nat]
    BY <1>7 DEF TypeOK
  <2>2. \A a \in hold' : refcount'[a] > 0
    BY <2>1, <1>8, HoldLive
  <2>3. \A a \in Addr : uuid[a] = NULL => parent'[a] = NULL
    <3>1. parent \in [Addr -> Addr \cup {NULL}]
      BY <1>1 DEF TypeOK
    <3> QED BY <3>1, <1>1, <1>3, <1>5 DEF AllocExact
  <2> QED BY <2>2, <2>3, <1>1, <1>2, <1>4, <1>5, StepReleases
<1>10. CallExact'
  BY <1>1, <1>5 DEF CallExact, calls
<1>11. LoadingExact'
  <2>1. \A i \in 1..Len(loading) : loading[i] \in Ids
    BY <1>1 DEF TypeOK
  <2>2. loading' = loading
    BY <1>5 DEF calls
  <2> QED BY <2>1, <2>2, <1>1, <1>6 DEF LoadingExact
<1> QED BY <1>7, <1>8, <1>9, <1>10, <1>11 DEF IInv

\* dlite_instance_free() gives the memory back and releases the metadata.
LEMMA FreeMemoryStep ==
    ASSUME IInv, FreeMemory
    PROVE  IInv'
<1> DEFINE a0 == Head(freeing)
           x == meta[a0]
           rest == Tail(freeing)
<1>1. /\ TypeOK /\ RefcountExact /\ AllocExact /\ StoreExact
      /\ FreeingExact /\ CallExact /\ LoadingExact
  BY DEF IInv
<1>2. /\ refcount \in [Addr -> Nat] /\ freeing \in Seq(Addr)
      /\ uuid \in [Addr -> Ids \cup {NULL}] /\ meta \in [Addr -> Addr \cup {NULL}]
  BY <1>1 DEF TypeOK
<1>3. /\ freeing # <<>> /\ parent[a0] = NULL
      /\ uuid' = [uuid EXCEPT ![a0] = NULL] /\ meta' = [meta EXCEPT ![a0] = NULL]
      /\ frozen' = [frozen EXCEPT ![a0] = FALSE] /\ dims' = [dims EXCEPT ![a0] = 0]
      /\ Release(refcount, x, rest)
      /\ UNCHANGED <<parent, replaced, hold, handle, calls, lost>>
  BY DEF FreeMemory
<1>4. a0 \in Addr /\ rest \in Seq(Addr) /\ a0 = freeing[1] /\ 1 \in 1..Len(freeing)
  BY <1>2, <1>3, Pop
<1>5. uuid[a0] # NULL /\ refcount[a0] = 0 /\ a0 \notin Schema /\ meta[a0] # NULL
  <2>1. uuid[a0] # NULL /\ refcount[a0] = 0
    BY <1>1, <1>4 DEF FreeingExact, Freeing
  <2>2. a0 \notin Live
    BY <2>1 DEF Live
  <2>3. a0 \notin Schema
    BY <2>2, Referenced
  <2> QED BY <2>1, <2>3, <1>1, <1>4 DEF AllocExact
<1>6. x \in Addr /\ refcount[x] > 0 /\ uuid[x] # NULL /\ x # a0
  BY <1>4, <1>5, Referenced DEF NoDangling, Live
<1>7. Freeing(rest, uuid', refcount)
  BY <1>1, <1>2, <1>3, FreeingPop DEF FreeingExact
<1>8. uuid'[x] # NULL /\ \A a \in Addr : a # a0 => uuid'[a] = uuid[a]
  BY <1>2, <1>3, <1>4, <1>6
<1>9. meta'[a0] = NULL /\ \A a \in Addr : a # a0 => meta'[a] = meta[a]
  BY <1>2, <1>3, <1>4
<1> HIDE DEF a0, x, rest
<1>10. /\ refcount' = [refcount EXCEPT ![x] = @ - 1] /\ refcount' \in [Addr -> Nat]
       /\ istore' \in [Ids -> Addr \cup {NULL}] /\ freeing' \in Seq(Addr)
       /\ \A id \in Ids : istore'[id] \in {istore[id], NULL}
       /\ Maps(istore, uuid, refcount) => Maps(istore', uuid, refcount')
       /\ \A u : u[x] # NULL /\ Freeing(rest, u, refcount) =>
             Freeing(freeing', u, refcount')
  BY <1>1, <1>2, <1>3, <1>4, <1>6, ReleaseStep
<1>11. TypeOK'
  <2>1. uuid' \in [Addr -> Ids \cup {NULL}] /\ meta' \in [Addr -> Addr \cup {NULL}]
    BY <1>2, <1>3, <1>4
  <2>2. frozen' \in [Addr -> BOOLEAN] /\ dims' \in [Addr -> Dims]
    BY <1>1, <1>3, <1>4, InputAssumption DEF TypeOK
  <2> QED BY <2>1, <2>2, <1>1, <1>3, <1>10 DEF TypeOK, calls
<1>12. RefcountExact'
  <2> SUFFICES ASSUME NEW o \in Addr PROVE refcount'[o] = Owners(o)'
    BY DEF RefcountExact
  <2>1. MetaRefs(o)' = MetaRefs(o) - (IF x = o THEN 1 ELSE 0)
    <3>1. meta' = [meta EXCEPT ![a0] = NULL] /\ NULL # o /\ a0 \in Addr \ Schema
      BY <1>3, <1>4, <1>5, NullAssumption
    <3>2. MetaRefs(o)' = MetaRefs(o) - (IF x = o THEN 1 ELSE 0)
                                     + (IF NULL = o THEN 1 ELSE 0)
      BY <3>1, <1>1, MoveMeta DEF x
    <3>3. MetaRefs(o) \in Int
      BY Counts
    <3> QED BY <3>1, <3>2, <3>3
  <2>2. refcount'[o] = refcount[o] - (IF x = o THEN 1 ELSE 0)
    BY <1>2, <1>6, <1>10
  <2>3. ParentRefs(o)' = ParentRefs(o) /\ HandleRefs(o)' = HandleRefs(o)
    BY <1>3 DEF ParentRefs, HandleRefs
  <2>4. lost'[o] = lost[o] /\ lost[o] \in Int /\ refcount[o] \in Int
    BY <1>1, <1>3 DEF TypeOK
  <2>5. HandleRefs(o) \in Int /\ MetaRefs(o) \in Int /\ ParentRefs(o) \in Int
    BY Counts
  <2>6. hold' = hold /\ lmeta' = lmeta /\ got' = got
    BY <1>3 DEF calls
  <2> QED BY <2>1, <2>2, <2>3, <2>4, <2>5, <2>6, <1>1, Balance
<1>13. refcount'[a0] = 0
  BY <1>2, <1>4, <1>5, <1>6, <1>10
<1>14. AllocExact'
  <2>1. \A a \in Addr : refcount[a] = 0 => refcount'[a] = 0
    BY <1>2, <1>6, <1>10
  <2>2. ASSUME NEW a \in Addr
        PROVE  IF uuid'[a] = NULL
               THEN meta'[a] = NULL /\ parent'[a] = NULL /\ refcount'[a] = 0
               ELSE meta'[a] # NULL
    <3>1. CASE a = a0
      BY <3>1, <1>2, <1>3, <1>4, <1>9, <1>13
    <3>2. CASE a # a0
      BY <3>2, <2>1, <1>1, <1>3, <1>8, <1>9 DEF AllocExact
    <3> QED BY <3>1, <3>2
  <2>3. \A a \in Schema : meta'[a] = Basic
    BY <1>1, <1>5, <1>9, SchemaAssumption DEF AllocExact
  <2> QED BY <2>2, <2>3 DEF AllocExact
<1>15. StoreExact'
  <2>1. Maps(istore', uuid, refcount')
    BY <1>1, <1>10, StoreExactMaps
  <2>2. Maps(istore', uuid', refcount')
    BY <2>1, <1>2, <1>3, <1>4, <1>13, MapsFree
  <2>3. ASSUME NEW a \in hold' PROVE a \in Live' /\ IsMeta(a)'
    <3>1. hold' \subseteq Addr /\ lost' \in [Addr -> Nat]
      BY <1>11 DEF TypeOK
    <3>2. a \in Addr /\ refcount'[a] > 0 /\ a # a0
      BY <3>1, <1>12, <1>13, HoldLive
    <3>3. a \in hold /\ a \in Live /\ IsMeta(a)
      BY <1>1, <1>3 DEF StoreExact
    <3>4. meta[a] \in Live
      BY <3>2, <3>3, <1>1, Referenced DEF NoDangling, AllocExact, Live
    <3>5. meta[a] \in Addr /\ meta[a] # a0
      BY <3>4, <1>5 DEF Live
    <3> QED BY <3>2, <3>3, <3>5, <1>8, <1>9 DEF Live, IsMeta, IsMetaMeta
  <2> QED BY <2>2, <2>3, NullAssumption DEF StoreExact, Maps, Live
<1>16. FreeingExact'
  BY <1>7, <1>8, <1>10 DEF FreeingExact
<1>17. CallExact'
  BY <1>1, <1>3 DEF CallExact, calls
<1>18. LoadingExact'
  <2>1. \A i \in 1..Len(loading) : loading[i] \in Ids
    BY <1>1 DEF TypeOK
  <2>2. loading' = loading
    BY <1>3 DEF calls
  <2> QED BY <2>1, <2>2, <1>1, <1>10 DEF LoadingExact
<1> QED BY <1>11, <1>12, <1>14, <1>15, <1>16, <1>17, <1>18 DEF IInv

\* What the store returns is live.
LEMMA Lookup ==
    ASSUME IInv, NEW id \in Ids, istore[id] # NULL
    PROVE  istore[id] \in Addr /\ istore[id] \in Live /\ uuid[istore[id]] = id
<1>1. istore \in [Ids -> Addr \cup {NULL}] /\ StoreExact
  BY DEF IInv, TypeOK
<1>2. istore[id] \in Addr
  BY <1>1
<1> QED BY <1>1, <1>2 DEF StoreExact

\* One more reference to a live instance leaves the same instances live.
LEMMA IncrefStep ==
    ASSUME NEW rc \in [Addr -> Nat], NEW x \in Addr, rc[x] > 0
    PROVE  /\ Incref(rc, x) \in [Addr -> Nat]
           /\ \A a \in Addr : Incref(rc, x)[a] = rc[a] + (IF x = a THEN 1 ELSE 0)
           /\ \A a \in Addr : Incref(rc, x)[a] > 0 <=> rc[a] > 0
BY DEF Incref

\* dlite_instance_get() finds the instance in the store, or starts to load it.
LEMMA BeginGetStep ==
    ASSUME IInv, NEW id \in Ids, NEW c, BeginGet(c, id), c # NoCall,
           c \in PublicCalls,
           c.op \in {"get", "create"} => c.h \in Handles /\ handle[c.h] = NULL,
           c.op = "create" => c.id \in Ids
    PROVE  IInv'
<1>1. /\ TypeOK /\ RefcountExact /\ AllocExact /\ StoreExact
      /\ FreeingExact /\ CallExact /\ LoadingExact
  BY DEF IInv
<1>2. /\ refcount \in [Addr -> Nat]
      /\ \A a \in Addr : lost[a] \in Int /\ refcount[a] \in Int
  BY <1>1 DEF TypeOK
<1>3. /\ loading = <<>> /\ lmeta = NULL /\ got = NULL
      /\ call' = c /\ borrowed' = NULL
      /\ UNCHANGED <<heap, istore, hold, handle, lmeta, freeing, lost>>
  BY <1>1 DEF BeginGet, Idle, CallExact
<1>4. CASE /\ istore[id] # NULL /\ got' = istore[id] /\ loading' = loading
           /\ refcount' = Incref(refcount, istore[id])
  <2> DEFINE x == istore[id]
  <2>1. x \in Addr /\ refcount[x] > 0
    BY <1>4, Lookup DEF Live
  <2>2. refcount' = Incref(refcount, x) /\ got' = x
    BY <1>4
  <2> HIDE DEF x
  <2>3. /\ refcount' \in [Addr -> Nat]
        /\ \A a \in Addr : refcount'[a] = refcount[a] + (IF x = a THEN 1 ELSE 0)
        /\ \A a \in Addr : refcount'[a] > 0 <=> refcount[a] > 0
    BY <1>2, <2>1, <2>2, IncrefStep
  <2>4. TypeOK'
    BY <1>1, <1>3, <1>4, <2>1, <2>2, <2>3 DEF TypeOK, heap
  <2>5. RefcountExact'
    <3> SUFFICES ASSUME NEW o \in Addr PROVE refcount'[o] = Owners(o)'
      BY DEF RefcountExact
    <3>1. /\ MetaRefs(o)' = MetaRefs(o) /\ ParentRefs(o)' = ParentRefs(o)
          /\ HandleRefs(o)' = HandleRefs(o)
      BY <1>3 DEF MetaRefs, ParentRefs, HandleRefs, heap
    <3>2. HandleRefs(o) \in Int /\ MetaRefs(o) \in Int /\ ParentRefs(o) \in Int
      BY Counts
    <3>3. lost'[o] = lost[o] /\ hold' = hold /\ lmeta' = lmeta /\ got # o
      BY <1>3, NullAssumption
    <3> QED BY <1>1, <1>2, <2>2, <2>3, <3>1, <3>2, <3>3, Balance
  <2>6. AllocExact' /\ StoreExact' /\ FreeingExact'
    BY <1>1, <1>3, <2>3, StepMoves DEF AllocExact, heap
  <2>7. CallExact'
    BY <1>3, <1>4 DEF CallExact
  <2>8. LoadingExact'
    BY <1>3, <1>4 DEF LoadingExact
  <2> QED BY <2>4, <2>5, <2>6, <2>7, <2>8 DEF IInv
<1>5. CASE /\ istore[id] = NULL /\ id \in DOMAIN Stored
           /\ loading' = <<id>> /\ got' = got /\ refcount' = refcount
  <2>1. TypeOK'
    BY <1>1, <1>3, <1>5 DEF TypeOK, heap
  <2>2. RefcountExact'
    BY <1>1, <1>3, <1>5
    DEF RefcountExact, Owners, HandleRefs, MetaRefs, ParentRefs, heap
  <2>3. AllocExact' /\ StoreExact' /\ FreeingExact'
    BY <1>1, <1>2, <1>3, <1>5, StepMoves DEF AllocExact, heap
  <2>4. CallExact'
    BY <1>3, <1>5 DEF CallExact
  <2>5. LoadingExact'
    BY <1>3, <1>5 DEF LoadingExact
  <2> QED BY <2>1, <2>2, <2>3, <2>4, <2>5 DEF IInv
<1> QED BY <1>4, <1>5 DEF BeginGet

\* dlite_instance_get() called by the application
LEMMA GetStep ==
    ASSUME IInv, NEW h \in Handles, NEW id \in Ids, Get(h, id)
    PROVE  IInv'
<1> DEFINE c == [NoCall EXCEPT !.op = "get", !.h = h]
<1>1. /\ c \in PublicCalls
      /\ c # NoCall /\ c.op = "get" /\ c.h = h
  BY InputAssumption DEF NoCall, PublicCalls
<1>2. handle[h] = NULL /\ BeginGet(c, id)
  BY DEF Get
<1> HIDE DEF c
<1> QED BY <1>1, <1>2, BeginGetStep

\* dlite_instance_has() called by the application
LEMMA HasStep ==
    ASSUME IInv, NEW id \in Ids, Has(id)
    PROVE  IInv'
<1> DEFINE c == [NoCall EXCEPT !.op = "has"]
<1>1. /\ c \in PublicCalls
      /\ c # NoCall /\ c.op = "has"
  BY InputAssumption DEF NoCall, PublicCalls
<1>2. BeginGet(c, id)
  BY DEF Has
<1> HIDE DEF c
<1> QED BY <1>1, <1>2, BeginGetStep

\* dlite_instance_create_from_id() starts by fetching the metadata.
LEMMA CreateFromIdStep ==
    ASSUME IInv, NEW h \in Handles, NEW mid \in MetaIds, NEW id \in Ids,
           NEW d \in Dims, CreateFromId(h, mid, id, d)
    PROVE  IInv'
<1> DEFINE c == [NoCall EXCEPT !.op = "create", !.h = h, !.id = id, !.dims = d]
<1>1. /\ c \in PublicCalls
      /\ c # NoCall /\ c.op = "create" /\ c.h = h /\ c.id = id
  BY InputAssumption DEF NoCall, PublicCalls
<1>2. handle[h] = NULL /\ BeginGet(c, mid) /\ mid \in Ids
  BY SchemaAssumption DEF CreateFromId
<1> HIDE DEF c
<1> QED BY <1>1, <1>2, BeginGetStep

\* Steps that touch neither the heap nor a reference count.
LEMMA SameOwners ==
    ASSUME IInv, UNCHANGED <<heap, refcount, istore, hold, handle, lmeta, got,
                             freeing, lost>>
    PROVE  RefcountExact' /\ AllocExact' /\ StoreExact' /\ FreeingExact'
<1>1. TypeOK /\ RefcountExact /\ AllocExact
  BY DEF IInv
<1>2. RefcountExact'
  BY <1>1 DEF RefcountExact, Owners, HandleRefs, MetaRefs, ParentRefs, heap
<1>3. refcount \in [Addr -> Nat]
  BY <1>1 DEF TypeOK
<1> QED BY <1>1, <1>2, <1>3, StepMoves DEF AllocExact, heap

\* Every json object that is scanned without stating its id can be read.
ScanWellformed == \A id \in ScanIds : Stored[id].wellformed

\* The application has a reference of its own to what it sets as parent.
ParentsHeld == ~BorrowParents

\* dlite_json_scan() starts without asking the store.
LEMMA ScanJsonStep ==
    ASSUME IInv, ScanWellformed, NEW h \in Handles, NEW id \in ScanIds,
           ScanJson(h, id)
    PROVE  IInv'
<1>1. TypeOK /\ CallExact
  BY DEF IInv
<1>2. /\ handle[h] = NULL /\ loading' = <<id>> /\ borrowed' = NULL
      /\ call' = [NoCall EXCEPT !.op = "get", !.h = h]
      /\ lmeta = NULL /\ got = NULL
      /\ UNCHANGED <<heap, refcount, istore, hold, handle, lmeta, got,
                     freeing, lost>>
  BY <1>1 DEF ScanJson, Idle, CallExact
<1>3. id \in DOMAIN Stored /\ id \in Ids /\ Stored[id].wellformed
  BY StoredAssumption DEF ScanWellformed
<1>4. /\ call'.op = "get" /\ call'.h = h /\ call' # NoCall
      /\ call' \in PublicCalls
  BY <1>2, InputAssumption DEF NoCall, PublicCalls
<1>5. TypeOK'
  BY <1>1, <1>2, <1>3, <1>4 DEF TypeOK, heap
<1>6. RefcountExact' /\ AllocExact' /\ StoreExact' /\ FreeingExact'
  BY <1>2, SameOwners
<1>7. CallExact'
  BY <1>2, <1>4 DEF CallExact
<1>8. LoadingExact'
  BY <1>2, <1>3 DEF LoadingExact
<1> QED BY <1>5, <1>6, <1>7, <1>8 DEF IInv

\* parse_instance() gives up.
LEMMA BuildFailsStep ==
    ASSUME IInv, BuildFails
    PROVE  IInv'
<1>1. TypeOK /\ CallExact
  BY DEF IInv
<1>2. /\ loading' = <<>> /\ lmeta # NULL
      /\ UNCHANGED <<heap, refcount, istore, hold, handle, call, lmeta,
                     got, freeing, borrowed, lost>>
  BY DEF BuildFails, Building
<1>3. TypeOK'
  BY <1>1, <1>2 DEF TypeOK, heap
<1>4. RefcountExact' /\ AllocExact' /\ StoreExact' /\ FreeingExact'
  BY <1>2, SameOwners
<1>5. CallExact'
  BY <1>1, <1>2 DEF CallExact
<1>6. LoadingExact'
  BY <1>2 DEF LoadingExact
<1> QED BY <1>3, <1>4, <1>5, <1>6 DEF IInv

\* dlite_instance_get() hands its reference to the application.
LEMMA FinishGetStep ==
    ASSUME IInv, FinishGet
    PROVE  IInv'
<1>1. /\ TypeOK /\ RefcountExact /\ AllocExact /\ CallExact
  BY DEF IInv
<1>2. refcount \in [Addr -> Nat] /\ \A a \in Addr : lost[a] \in Int /\ refcount[a] \in Int
  BY <1>1 DEF TypeOK
<1> DEFINE h == call.h
           x == got
<1>3. /\ h \in Handles /\ handle[h] = NULL /\ x \in Addr /\ lmeta = NULL
      /\ got = x /\ loading = <<>> /\ handle' = [handle EXCEPT ![h] = x]
      /\ got' = NULL /\ call' = NoCall
      /\ UNCHANGED <<heap, refcount, istore, hold, loading, lmeta,
                     freeing, borrowed, lost>>
  BY <1>1 DEF FinishGet, Returned, CallExact, TypeOK
<1> HIDE DEF h, x
<1>4. TypeOK'
  BY <1>1, <1>3, InputAssumption DEF TypeOK, heap, NoCall, PublicCalls
<1>5. RefcountExact'
  <2> SUFFICES ASSUME NEW o \in Addr PROVE refcount'[o] = Owners(o)'
    BY DEF RefcountExact
  <2>1. HandleRefs(o)' = HandleRefs(o) + (IF x = o THEN 1 ELSE 0)
    <3>1. /\ handle' = [handle EXCEPT ![h] = x] /\ handle[h] # o
          /\ h \in Handles
      BY <1>3, NullAssumption
    <3>2. HandleRefs(o)' = HandleRefs(o) - (IF handle[h] = o THEN 1 ELSE 0)
                                         + (IF x = o THEN 1 ELSE 0)
      BY ZenonT(30), <3>1, <1>1, MoveHandle
    <3>3. HandleRefs(o) \in Int
      BY Counts
    <3> QED BY <3>1, <3>2, <3>3
  <2>2. MetaRefs(o)' = MetaRefs(o) /\ ParentRefs(o)' = ParentRefs(o)
    BY <1>3 DEF MetaRefs, ParentRefs, heap
  <2>3. HandleRefs(o) \in Int /\ MetaRefs(o) \in Int /\ ParentRefs(o) \in Int
    BY Counts
  <2>4. lost'[o] = lost[o] /\ hold' = hold /\ lmeta' = lmeta /\ got' # o
        /\ refcount'[o] = refcount[o] /\ got = x
    BY <1>3, NullAssumption
  <2> QED BY <1>1, <1>2, <2>1, <2>2, <2>3, <2>4, Balance
<1>6. AllocExact' /\ StoreExact' /\ FreeingExact'
  BY <1>1, <1>2, <1>3, StepMoves DEF AllocExact, heap
<1>7. CallExact'
  BY <1>3 DEF CallExact, NoCall
<1>8. LoadingExact'
  BY <1>3 DEF LoadingExact
<1> QED BY <1>4, <1>5, <1>6, <1>7, <1>8 DEF IInv

\* dlite_instance_freeze() moves no reference.
LEMMA FreezeStep ==
    ASSUME IInv, NEW h \in Handles, Freeze(h)
    PROVE  IInv'
<1>1. /\ TypeOK /\ RefcountExact /\ AllocExact /\ CallExact /\ LoadingExact
  BY DEF IInv
<1>2. /\ frozen' = [frozen EXCEPT ![handle[h]] = TRUE] /\ borrowed' = NULL
      /\ UNCHANGED <<uuid, meta, parent, replaced, dims, refcount, istore, hold, handle,
                     call, loading, lmeta, got, freeing, lost>>
  BY DEF Freeze
<1>3. TypeOK'
  BY <1>1, <1>2 DEF TypeOK
<1>4. RefcountExact'
  BY <1>1, <1>2 DEF RefcountExact, Owners, HandleRefs, MetaRefs, ParentRefs
<1>5. refcount \in [Addr -> Nat]
  BY <1>1 DEF TypeOK
<1>6. AllocExact' /\ StoreExact' /\ FreeingExact'
  BY <1>1, <1>2, <1>5, StepMoves DEF AllocExact
<1>7. CallExact'
  BY <1>1, <1>2 DEF CallExact
<1>8. LoadingExact'
  BY <1>1, <1>2 DEF LoadingExact
<1> QED BY <1>3, <1>4, <1>6, <1>7, <1>8 DEF IInv

\* parse_instance() fetches the metadata: found, loaded first, or missing.
LEMMA FetchMetaStep ==
    ASSUME IInv, FetchMeta
    PROVE  IInv'
<1>1. /\ TypeOK /\ RefcountExact /\ AllocExact /\ CallExact /\ LoadingExact
  BY DEF IInv
<1>2. /\ refcount \in [Addr -> Nat] /\ loading \in Seq(Ids)
      /\ \A a \in Addr : lost[a] \in Int /\ refcount[a] \in Int
  BY <1>1 DEF TypeOK
<1> DEFINE mid == Stored[Head(loading)].meta
<1>3. /\ loading # <<>> /\ lmeta = NULL
      /\ UNCHANGED <<heap, istore, hold, handle, got, borrowed, freeing, lost>>
  BY DEF FetchMeta, Loading
<1>4. mid \in Ids /\ got = NULL
  <2>1. Head(loading) = loading[1] /\ 1 \in 1..Len(loading)
    BY <1>2, <1>3, Pop
  <2>2. Head(loading) \in DOMAIN Stored
    BY <1>1, <2>1 DEF LoadingExact
  <2> QED BY <1>1, <1>3, <2>2, StoredAssumption, SchemaAssumption DEF CallExact
<1>5. CASE /\ istore[mid] # NULL /\ lmeta' = istore[mid]
           /\ refcount' = Incref(refcount, istore[mid])
           /\ UNCHANGED <<loading, call>>
  <2> DEFINE x == istore[mid]
  <2>1. x \in Addr /\ refcount[x] > 0
    BY <1>4, <1>5, Lookup DEF Live
  <2>2. /\ refcount' = Incref(refcount, x) /\ lmeta' = x
        /\ UNCHANGED <<loading, call>>
    BY <1>5
  <2> HIDE DEF x
  <2>3. /\ refcount' \in [Addr -> Nat]
        /\ \A a \in Addr : refcount'[a] = refcount[a] + (IF x = a THEN 1 ELSE 0)
        /\ \A a \in Addr : refcount'[a] > 0 <=> refcount[a] > 0
    BY <1>2, <2>1, <2>2, IncrefStep
  <2>4. TypeOK'
    BY <1>1, <1>3, <2>1, <2>2, <2>3 DEF TypeOK, heap
  <2>5. RefcountExact'
    <3> SUFFICES ASSUME NEW o \in Addr PROVE refcount'[o] = Owners(o)'
      BY DEF RefcountExact
    <3>1. /\ MetaRefs(o)' = MetaRefs(o) /\ ParentRefs(o)' = ParentRefs(o)
          /\ HandleRefs(o)' = HandleRefs(o)
      BY <1>3 DEF MetaRefs, ParentRefs, HandleRefs, heap
    <3>2. HandleRefs(o) \in Int /\ MetaRefs(o) \in Int /\ ParentRefs(o) \in Int
      BY Counts
    <3>3. lost'[o] = lost[o] /\ hold' = hold /\ got' = got /\ lmeta # o
      BY <1>3, NullAssumption
    <3> QED BY <1>1, <1>2, <2>2, <2>3, <3>1, <3>2, <3>3, Balance
  <2>6. AllocExact' /\ StoreExact' /\ FreeingExact'
    BY <1>1, <1>3, <2>3, StepMoves DEF AllocExact, heap
  <2>7. CallExact'
    BY <1>1, <1>3, <1>4, <2>2 DEF CallExact
  <2>8. LoadingExact'
    BY <1>1, <1>3, <2>2 DEF LoadingExact
  <2> QED BY <2>4, <2>5, <2>6, <2>7, <2>8 DEF IInv
<1>6. CASE /\ istore[mid] = NULL /\ mid \in DOMAIN Stored
           /\ loading' = <<mid>> \o loading
           /\ UNCHANGED <<lmeta, refcount, call>>
  <2>1. /\ loading' \in Seq(Ids) /\ Len(loading') = Len(loading) + 1
        /\ loading'[1] = mid /\ Len(loading) \in Nat
        /\ \A i \in 1..Len(loading) : loading'[i+1] = loading[i]
    BY <1>2, <1>4, <1>6, Push
  <2>2. TypeOK'
    BY <1>1, <1>3, <1>6, <2>1 DEF TypeOK, heap
  <2>3. RefcountExact' /\ AllocExact' /\ StoreExact' /\ FreeingExact'
    BY <1>3, <1>6, SameOwners
  <2>4. CallExact'
    BY <1>1, <1>3, <1>4, <1>6 DEF CallExact
  <2>5. LoadingExact'
    <3> SUFFICES ASSUME NEW i \in 1..Len(loading')
                 PROVE  /\ loading'[i] \in DOMAIN Stored
                        /\ Stored[loading'[i]].wellformed
                              \/ istore[loading'[i]] = NULL
      BY <1>3 DEF LoadingExact
    <3>1. CASE i = 1
      BY <3>1, <1>6, <2>1
    <3>2. CASE i # 1
      <4>1. i - 1 \in 1..Len(loading) /\ (i - 1) + 1 = i
        BY <3>2, <2>1
      <4>2. loading'[i] = loading[i - 1]
        BY <4>1, <2>1
      <4> QED BY <4>1, <4>2, <1>1 DEF LoadingExact
    <3> QED BY <3>1, <3>2
  <2> QED BY <2>2, <2>3, <2>4, <2>5 DEF IInv
<1>7. CASE /\ loading' = <<>> /\ call' = NoCall
           /\ UNCHANGED <<lmeta, refcount>>
  <2>1. TypeOK'
    BY <1>1, <1>3, <1>7, InputAssumption DEF TypeOK, heap, NoCall, PublicCalls
  <2>2. RefcountExact' /\ AllocExact' /\ StoreExact' /\ FreeingExact'
    BY <1>3, <1>7, SameOwners
  <2>3. CallExact'
    BY <1>3, <1>4, <1>7 DEF CallExact, NoCall
  <2>4. LoadingExact'
    BY <1>7 DEF LoadingExact
  <2> QED BY <2>1, <2>2, <2>3, <2>4 DEF IInv
<1> QED BY <1>5, <1>6, <1>7 DEF FetchMeta

\* Only its owner-to-be refers to a new instance, apart from the store.
LEMMA NewRefs ==
    ASSUME IInv, NEW a \in Free, NEW id \in Ids, NEW m \in Live, NEW d,
           NewInstance(a, id, m, d), NEW o \in Addr
    PROVE  /\ MetaRefs(o)' = MetaRefs(o) + (IF m = o THEN 1 ELSE 0)
           /\ (IF o \in hold' THEN 1 ELSE 0) = (IF o \in hold THEN 1 ELSE 0)
                 + (IF a = o THEN FirstRefs(m) - 1 ELSE 0)
<1>1. TypeOK /\ AllocExact
  BY DEF IInv
<1>2. a \in Addr \ Schema /\ meta[a] = NULL /\ a \notin hold
  BY <1>1, Referenced DEF Free, Live, AllocExact
<1>3. /\ meta' = [meta EXCEPT ![a] = m]
      /\ hold' = IF IsMetaMeta(m) THEN hold \cup {a} ELSE hold
  BY DEF NewInstance
<1>4. MetaRefs(o)' = MetaRefs(o) - (IF meta[a] = o THEN 1 ELSE 0)
                                 + (IF m = o THEN 1 ELSE 0)
  BY <1>1, <1>2, <1>3, MoveMeta
<1>5. MetaRefs(o) \in Int /\ meta[a] # o
  BY <1>2, Counts, NullAssumption
<1>6. (IF o \in hold' THEN 1 ELSE 0) = (IF o \in hold THEN 1 ELSE 0)
         + (IF a = o THEN FirstRefs(m) - 1 ELSE 0)
  BY <1>2, <1>3 DEF FirstRefs
<1> QED BY <1>4, <1>5, <1>6

\* _instance_create() stores values of the right kind, and one id.
LEMMA NewTypes ==
    ASSUME TypeOK, NEW a \in Addr, NEW id \in Ids, NEW m \in Addr, NEW d \in Dims,
           NewInstance(a, id, m, d)
    PROVE  /\ uuid' \in [Addr -> Ids \cup {NULL}]
           /\ meta' \in [Addr -> Addr \cup {NULL}] /\ dims' \in [Addr -> Dims]
           /\ istore' \in [Ids -> Addr \cup {NULL}] /\ hold' \in SUBSET Addr
           /\ \A i \in Ids : i # id => istore'[i] = istore[i]
BY DEF TypeOK, NewInstance

\* parse_instance() hands its reference to the metadata over to the new
\* instance and returns the instance.
LEMMA BuildNewStep ==
    ASSUME IInv, NEW a \in Free, BuildNew(a)
    PROVE  IInv'
<1> DEFINE id == Head(loading)
           m == lmeta
           d == Stored[id].dims
<1>1. /\ TypeOK /\ RefcountExact /\ AllocExact /\ CallExact /\ LoadingExact
  BY DEF IInv
<1>2. /\ refcount \in [Addr -> Nat] /\ loading \in Seq(Ids)
      /\ \A b \in Addr : lost[b] \in Int /\ refcount[b] \in Int
  BY <1>1 DEF TypeOK
<1>3. /\ loading # <<>> /\ freeing = <<>> /\ m # NULL
      /\ istore[id] = NULL /\ Stored[id].wellformed
      /\ NewInstance(a, id, m, d)
      /\ refcount' = [refcount EXCEPT ![a] = FirstRefs(m)]
      /\ Return(a)
      /\ UNCHANGED <<parent, replaced, frozen, handle, call, freeing, borrowed, lost>>
  BY DEF BuildNew, Building, Loading
<1>4. /\ id \in Ids /\ id = loading[1] /\ Tail(loading) \in Seq(Ids)
      /\ Len(Tail(loading)) = Len(loading) - 1 /\ Len(loading) \in Nat
      /\ 1 \in 1..Len(loading)
      /\ \A i \in 1..Len(Tail(loading)) : Tail(loading)[i] = loading[i+1]
  BY <1>2, <1>3, Pop
<1>5. id \in DOMAIN Stored /\ d \in Dims
  BY <1>1, <1>4, StoredAssumption DEF LoadingExact
<1>6. m \in Live /\ m \in Addr /\ a \in Addr /\ a # m
  BY <1>3, Referenced DEF NoDangling, Live, Free
<1>7. got = NULL /\ call # NoCall /\ refcount[a] = 0 /\ lmeta = m
  BY <1>1, <1>3, Referenced DEF CallExact
<1>8. /\ loading' = Tail(loading)
      /\ \/ got' = a /\ lmeta' = NULL /\ loading' = <<>>
         \/ got' = got /\ lmeta' = a /\ loading' # <<>>
  BY <1>3 DEF Return
<1> HIDE DEF id, m, d
<1>9. /\ FirstRefs(m) \in Nat /\ FirstRefs(m) > 0
      /\ refcount' \in [Addr -> Nat] /\ refcount'[a] = FirstRefs(m)
      /\ \A b \in Addr : b # a => refcount'[b] = refcount[b]
  BY <1>2, <1>3, <1>6 DEF FirstRefs
<1>10. TypeOK'
  BY <1>1, <1>3, <1>4, <1>5, <1>6, <1>8, <1>9, NewTypes DEF TypeOK
<1>11. RefcountExact'
  <2> SUFFICES ASSUME NEW o \in Addr PROVE refcount'[o] = Owners(o)'
    BY DEF RefcountExact
  <2>1. /\ MetaRefs(o)' = MetaRefs(o) + (IF m = o THEN 1 ELSE 0)
        /\ (IF o \in hold' THEN 1 ELSE 0) = (IF o \in hold THEN 1 ELSE 0)
              + (IF a = o THEN FirstRefs(m) - 1 ELSE 0)
    BY <1>3, <1>4, <1>6, NewRefs
  <2>2. ParentRefs(o)' = ParentRefs(o) /\ HandleRefs(o)' = HandleRefs(o)
    BY <1>3 DEF ParentRefs, HandleRefs
  <2>3. HandleRefs(o) \in Int /\ MetaRefs(o) \in Int /\ ParentRefs(o) \in Int
    BY Counts
  <2>4. refcount'[o] = refcount[o] + (IF a = o THEN FirstRefs(m) ELSE 0)
    BY <1>2, <1>7, <1>9
  <2>5. (IF got' = o THEN 1 ELSE 0) + (IF lmeta' = o THEN 1 ELSE 0)
           = (IF a = o THEN 1 ELSE 0)
    BY <1>7, <1>8, NullAssumption
  <2>6. lost'[o] = lost[o] /\ got # o
    BY <1>3, <1>7, NullAssumption
  <2> DEFINE r  == FirstRefs(m)
             h0 == IF o \in hold THEN 1 ELSE 0
             h1 == IF o \in hold' THEN 1 ELSE 0
             l0 == IF lmeta = o THEN 1 ELSE 0
             l1 == IF lmeta' = o THEN 1 ELSE 0
             g1 == IF got' = o THEN 1 ELSE 0
  <2>7. r \in Int /\ lost[o] \in Int /\ refcount[o] \in Int
    BY <1>2, <1>9
  <2>8. h0 \in Int /\ h1 \in Int /\ l0 \in Int /\ l1 \in Int /\ g1 \in Int
    OBVIOUS
  <2>9. /\ h1 = h0 + (IF a = o THEN r - 1 ELSE 0) /\ g1 + l1 = (IF a = o THEN 1 ELSE 0)
        /\ MetaRefs(o)' = MetaRefs(o) + l0
        /\ refcount'[o] = refcount[o] + (IF a = o THEN r ELSE 0)
    BY <1>7, <2>1, <2>4, <2>5
  <2> HIDE DEF r, h0, h1, l0, l1, g1
  <2>10. refcount'[o] = refcount[o]
              + (HandleRefs(o)' - HandleRefs(o)) + (MetaRefs(o)' - MetaRefs(o))
              + (ParentRefs(o)' - ParentRefs(o)) + (lost'[o] - lost[o])
              + h1 - h0 + l1 - l0 + g1 - 0
    BY <2>2, <2>3, <2>6, <2>7, <2>8, <2>9
  <2> QED BY <1>1, <2>6, <2>7, <2>10, Balance DEF h0, h1, l0, l1, g1
<1>12. AllocExact' /\ StoreExact' /\ FreeingExact'
  BY <1>1, <1>3, <1>4, <1>6, <1>9, StepCreates DEF AllocExact
<1>13. CallExact'
  BY <1>1, <1>3, <1>7, <1>8 DEF CallExact
<1>14. LoadingExact'
  <2> SUFFICES ASSUME NEW i \in 1..Len(loading')
               PROVE  /\ loading'[i] \in DOMAIN Stored
                      /\ Stored[loading'[i]].wellformed \/ istore'[loading'[i]] = NULL
    BY DEF LoadingExact
  <2>1. i + 1 \in 1..Len(loading) /\ loading'[i] = loading[i+1]
    BY <1>4, <1>8
  <2>2. /\ loading'[i] \in DOMAIN Stored /\ loading'[i] \in Ids
        /\ Stored[loading'[i]].wellformed \/ istore[loading'[i]] = NULL
    BY <1>1, <1>2, <2>1 DEF LoadingExact
  <2>3. \A x \in Ids : x # id => istore'[x] = istore[x]
    BY <1>1, <1>3, <1>4, <1>5, <1>6, NewTypes
  <2> QED BY <1>3, <2>2, <2>3 DEF id
<1> QED BY <1>10, <1>11, <1>12, <1>13, <1>14 DEF IInv

\* A reference to the metadata of a live instance is leaked.
LEMMA LeakStep ==
    ASSUME IInv, NEW x \in Live, lost' = [lost EXCEPT ![meta[x]] = @ + 1],
           refcount' = Incref(refcount, meta[x]),
           UNCHANGED <<heap, istore, hold, handle, lmeta, got, freeing>>
    PROVE  /\ refcount' \in [Addr -> Nat] /\ lost' \in [Addr -> Nat]
           /\ RefcountExact' /\ AllocExact' /\ StoreExact' /\ FreeingExact'
<1> DEFINE m == meta[x]
<1>1. TypeOK /\ RefcountExact /\ AllocExact
  BY DEF IInv
<1>2. refcount \in [Addr -> Nat] /\ lost \in [Addr -> Nat]
  BY <1>1 DEF TypeOK
<1>3. m \in Addr /\ refcount[m] > 0
  BY <1>1, Referenced DEF NoDangling, Live, AllocExact
<1>4. refcount' = Incref(refcount, m) /\ lost' = [lost EXCEPT ![m] = @ + 1]
  OBVIOUS
<1> HIDE DEF m
<1>5. /\ refcount' \in [Addr -> Nat]
      /\ \A a \in Addr : refcount'[a] = refcount[a] + (IF m = a THEN 1 ELSE 0)
      /\ \A a \in Addr : refcount'[a] > 0 <=> refcount[a] > 0
  BY <1>2, <1>3, <1>4, IncrefStep
<1>6. /\ lost' \in [Addr -> Nat]
      /\ \A a \in Addr : lost'[a] = lost[a] + (IF m = a THEN 1 ELSE 0)
  BY <1>2, <1>3, <1>4
<1>7. RefcountExact'
  <2> SUFFICES ASSUME NEW o \in Addr PROVE refcount'[o] = Owners(o)'
    BY DEF RefcountExact
  <2>1. /\ MetaRefs(o)' = MetaRefs(o) /\ ParentRefs(o)' = ParentRefs(o)
        /\ HandleRefs(o)' = HandleRefs(o)
    BY DEF MetaRefs, ParentRefs, HandleRefs, heap
  <2>2. HandleRefs(o) \in Int /\ MetaRefs(o) \in Int /\ ParentRefs(o) \in Int
    BY Counts
  <2>3. lost[o] \in Int /\ refcount[o] \in Int /\ lost'[o] \in Int
    BY <1>2, <1>6
  <2>4. /\ lost'[o] = lost[o] + (IF m = o THEN 1 ELSE 0)
        /\ refcount'[o] = refcount[o] + (IF m = o THEN 1 ELSE 0)
        /\ hold' = hold /\ lmeta' = lmeta /\ got' = got
    BY <1>5, <1>6
  <2> QED BY <1>1, <2>1, <2>2, <2>3, <2>4, Balance
<1>8. AllocExact' /\ StoreExact' /\ FreeingExact'
  BY <1>1, <1>5, StepMoves DEF AllocExact, heap
<1> QED BY <1>5, <1>6, <1>7, <1>8

\* parse_instance() of an existing instance: it is returned, or the sizes
\* differ and a reference to its metadata is leaked.
LEMMA BuildOnExistingStep ==
    ASSUME IInv, BuildOnExisting
    PROVE  IInv'
<1> DEFINE id == Head(loading)
           x == istore[id]
           m == lmeta
<1>1. /\ TypeOK /\ RefcountExact /\ AllocExact /\ CallExact /\ LoadingExact
  BY DEF IInv
<1>2. /\ refcount \in [Addr -> Nat] /\ loading \in Seq(Ids) /\ freeing \in Seq(Addr)
      /\ \A b \in Addr : lost[b] \in Int /\ refcount[b] \in Int
  BY <1>1 DEF TypeOK
<1>3. /\ loading # <<>> /\ freeing = <<>> /\ lmeta = m /\ m # NULL /\ x # NULL
      /\ UNCHANGED <<heap, handle, call, borrowed>>
  BY DEF BuildOnExisting, Building, Loading
<1>4. /\ id \in Ids /\ id = loading[1] /\ Tail(loading) \in Seq(Ids)
      /\ Len(Tail(loading)) = Len(loading) - 1 /\ Len(loading) \in Nat
      /\ 1 \in 1..Len(loading)
      /\ \A i \in 1..Len(Tail(loading)) : Tail(loading)[i] = loading[i+1]
  BY <1>2, <1>3, Pop
<1>5. x \in Live /\ x \in Addr /\ refcount[x] > 0
  BY <1>3, <1>4, Lookup DEF Live
<1>6. m \in Live /\ m \in Addr /\ refcount[m] > 0 /\ uuid[m] # NULL
  BY <1>3, Referenced DEF NoDangling, Live
<1>7. got = NULL /\ call # NoCall
  BY <1>1, <1>3 DEF CallExact
<1>8. Stored[id].wellformed
  BY <1>1, <1>3, <1>4 DEF LoadingExact
<1>9. CASE /\ Decref(Incref(refcount, x), m) /\ Return(x)
           /\ UNCHANGED <<hold, lost>>
  <2> DEFINE rc == Incref(refcount, x)
  <2>1. /\ rc \in [Addr -> Nat]
        /\ \A a \in Addr : rc[a] = refcount[a] + (IF x = a THEN 1 ELSE 0)
        /\ \A a \in Addr : rc[a] > 0 <=> refcount[a] > 0
    BY <1>2, <1>5, IncrefStep
  <2>2. /\ Release(rc, m, freeing) /\ loading' = Tail(loading)
        /\ \/ got' = x /\ lmeta' = NULL /\ loading' = <<>>
           \/ got' = got /\ lmeta' = x /\ loading' # <<>>
    BY <1>9 DEF Decref, Return
  <2> HIDE DEF rc, x, m
  <2>3. rc[m] > 0
    BY <1>6, <2>1
  <2>4. /\ refcount' = [rc EXCEPT ![m] = @ - 1] /\ refcount' \in [Addr -> Nat]
        /\ istore' \in [Ids -> Addr \cup {NULL}] /\ freeing' \in Seq(Addr)
        /\ \A i \in Ids : istore'[i] \in {istore[i], NULL}
    BY <1>1, <1>2, <1>6, <2>1, <2>2, <2>3, ReleaseStep
  <2>5. TypeOK'
    BY <1>1, <1>3, <1>4, <1>5, <1>9, <2>2, <2>4 DEF TypeOK, heap
  <2>6. RefcountExact'
    <3> SUFFICES ASSUME NEW o \in Addr PROVE refcount'[o] = Owners(o)'
      BY DEF RefcountExact
    <3>1. refcount'[o] = refcount[o] + (IF x = o THEN 1 ELSE 0)
                                     - (IF m = o THEN 1 ELSE 0)
      <4>1. rc[o] = refcount[o] + (IF x = o THEN 1 ELSE 0)
        BY <2>1
      <4>2. refcount'[o] = rc[o] - (IF m = o THEN 1 ELSE 0)
        BY <1>6, <2>1, <2>4
      <4>3. refcount[o] \in Int
        BY <1>2
      <4> QED BY <4>1, <4>2, <4>3
    <3>2. /\ MetaRefs(o)' = MetaRefs(o) /\ ParentRefs(o)' = ParentRefs(o)
          /\ HandleRefs(o)' = HandleRefs(o)
      BY <1>3 DEF MetaRefs, ParentRefs, HandleRefs, heap
    <3>3. HandleRefs(o) \in Int /\ MetaRefs(o) \in Int /\ ParentRefs(o) \in Int
      BY Counts
    <3>4. /\ lost'[o] = lost[o] /\ hold' = hold /\ lmeta = m /\ got # o
          /\ lost[o] \in Int /\ refcount[o] \in Int
      BY <1>2, <1>3, <1>7, <1>9, NullAssumption
    <3>5. \/ (got' = o <=> x = o) /\ lmeta' # o
          \/ (lmeta' = o <=> x = o) /\ got' # o
      BY <1>7, <2>2, NullAssumption
    <3> DEFINE l0 == IF lmeta = o THEN 1 ELSE 0
               l1 == IF lmeta' = o THEN 1 ELSE 0
               g1 == IF got' = o THEN 1 ELSE 0
    <3>6. /\ l0 \in Int /\ l1 \in Int /\ g1 \in Int
          /\ refcount'[o] = refcount[o] + (g1 + l1) - l0
      BY <3>1, <3>4, <3>5
    <3> HIDE DEF l0, l1, g1
    <3>7. lost'[o] \in Int /\ got # o
      BY <3>4
    <3> DEFINE s == IF o \in hold THEN 1 ELSE 0
    <3>8. s \in Int /\ s = IF o \in hold' THEN 1 ELSE 0
      BY <3>4
    <3> HIDE DEF s
    <3>9. refcount'[o] = refcount[o]
              + (HandleRefs(o)' - HandleRefs(o)) + (MetaRefs(o)' - MetaRefs(o))
              + (ParentRefs(o)' - ParentRefs(o)) + (lost'[o] - lost[o])
              + s - s + l1 - l0 + g1 - 0
      BY <3>2, <3>3, <3>4, <3>6, <3>8
    <3>10. s = (IF o \in hold THEN 1 ELSE 0) /\ s = (IF o \in hold' THEN 1 ELSE 0)
      BY <3>8 DEF s
    <3> QED BY <1>1, <3>7, <3>9, <3>10, Balance DEF l0, l1, g1
  <2>7. AllocExact' /\ StoreExact' /\ FreeingExact'
    <3>1. hold' \subseteq Addr /\ lost' \in [Addr -> Nat]
      BY <2>5 DEF TypeOK
    <3>2. \A a \in hold' : refcount'[a] > 0
      BY <3>1, <2>6, HoldLive
    <3>3. /\ UNCHANGED <<uuid, meta>> /\ hold' = hold
          /\ \A a \in Addr : uuid[a] = NULL => parent'[a] = NULL
      BY <1>1, <1>3, <1>9 DEF AllocExact, heap
    <3> QED BY <3>2, <3>3, <1>6, <2>1, <2>2, <2>3, StepReleases
  <2>8. CallExact'
    BY <1>1, <1>3, <1>7, <2>2 DEF CallExact
  <2>9. LoadingExact'
    <3> SUFFICES ASSUME NEW i \in 1..Len(loading')
                 PROVE  /\ loading'[i] \in DOMAIN Stored
                        /\ Stored[loading'[i]].wellformed
                              \/ istore'[loading'[i]] = NULL
      BY DEF LoadingExact
    <3>1. i + 1 \in 1..Len(loading) /\ loading'[i] = loading[i+1]
      BY <1>4, <2>2
    <3>2. /\ loading'[i] \in DOMAIN Stored /\ loading'[i] \in Ids
          /\ Stored[loading'[i]].wellformed \/ istore[loading'[i]] = NULL
      BY <1>1, <1>2, <3>1 DEF LoadingExact
    <3> QED BY <2>4, <3>2
  <2> QED BY <2>5, <2>6, <2>7, <2>8, <2>9 DEF IInv
<1>10. CASE /\ lost' = [lost EXCEPT ![meta[x]] = @ + 1]
            /\ refcount' = Incref(refcount, meta[x])
            /\ loading' = <<>>
            /\ UNCHANGED <<istore, hold, freeing, lmeta, got>>
  <2> HIDE DEF x, m
  <2>1. /\ refcount' \in [Addr -> Nat] /\ lost' \in [Addr -> Nat]
        /\ RefcountExact' /\ AllocExact' /\ StoreExact' /\ FreeingExact'
    BY <1>3, <1>5, <1>10, LeakStep
  <2>2. TypeOK'
    <3>1. /\ UNCHANGED <<uuid, meta, parent, replaced, frozen, dims, istore, hold, handle,
                         call, lmeta, got, freeing, borrowed>>
          /\ loading' = <<>>
      BY <1>3, <1>10 DEF heap
    <3> QED BY SMTT(30), <1>1, <2>1, <3>1 DEF TypeOK
  <2>3. CallExact'
    BY <1>1, <1>3, <1>7, <1>10 DEF CallExact
  <2>4. LoadingExact'
    BY <1>10 DEF LoadingExact
  <2> QED BY <2>1, <2>2, <2>3, <2>4 DEF IInv
<1> QED BY <1>8, <1>9, <1>10 DEF BuildOnExisting
\* The calls around _instance_create(): what Create and FinishCreate share.
Creates(h, m, id, d) ==
    /\ handle[h] = NULL /\ loading = <<>> /\ freeing = <<>>
    /\ CreateWith(h, m, id, d)
    /\ UNCHANGED <<parent, replaced, frozen, loading, lmeta, got, freeing>>
    /\ borrowed' \in Addr \cup {NULL}
    /\ call' \in PublicCalls /\ call'.op \in {"none", "drop"}
    /\ call' = NoCall => lmeta = NULL /\ got = NULL
    /\ lmeta # NULL => got = NULL

\* _instance_create() for metadata m on which the caller has a reference: a
\* new instance, no memory, an existing instance, or a leaked reference.
LEMMA CreateWithStep ==
    ASSUME IInv, NEW h \in Handles, NEW m \in Live, NEW id \in Ids, NEW d \in Dims,
           Creates(h, m, id, d)
    PROVE  IInv'
<1>1. /\ TypeOK /\ RefcountExact /\ AllocExact
  BY DEF IInv
<1>0. /\ handle[h] = NULL /\ loading = <<>> /\ freeing = <<>>
      /\ UNCHANGED <<parent, replaced, frozen, loading, lmeta, got, freeing>>
      /\ borrowed' \in Addr \cup {NULL}
  BY DEF Creates
<1>2. /\ refcount \in [Addr -> Nat]
      /\ \A b \in Addr : lost[b] \in Int /\ refcount[b] \in Int
  BY <1>1 DEF TypeOK
<1>3. CallExact' /\ LoadingExact'
  BY <1>0 DEF CallExact, LoadingExact, Creates
<1>4. call' \in PublicCalls
  BY DEF Creates
<1>5. m \in Addr /\ refcount[m] > 0
  BY DEF Live
<1>6. ASSUME NEW a \in Free, istore[id] = NULL,
             NewInstance(a, id, m, d),
             refcount' = [refcount EXCEPT ![a] = FirstRefs(m), ![m] = @ + 1],
             handle' = [handle EXCEPT ![h] = a], lost' = lost
      PROVE  IInv'
  <2>1. a \in Addr /\ a # m /\ refcount[a] = 0
    BY <1>5, Referenced DEF Free
  <2>2. /\ FirstRefs(m) \in Nat /\ FirstRefs(m) > 0
        /\ refcount' \in [Addr -> Nat] /\ refcount'[a] = FirstRefs(m)
        /\ refcount'[m] = refcount[m] + 1
        /\ \A b \in Addr : b # a /\ b # m => refcount'[b] = refcount[b]
    BY <1>2, <1>5, <1>6, <2>1 DEF FirstRefs
  <2>3. TypeOK'
    BY <1>0, <1>1, <1>4, <1>5, <1>6, <2>1, <2>2, NewTypes DEF TypeOK
  <2>4. RefcountExact'
    <3> SUFFICES ASSUME NEW o \in Addr PROVE refcount'[o] = Owners(o)'
      BY DEF RefcountExact
    <3>1. /\ MetaRefs(o)' = MetaRefs(o) + (IF m = o THEN 1 ELSE 0)
          /\ (IF o \in hold' THEN 1 ELSE 0) = (IF o \in hold THEN 1 ELSE 0)
                + (IF a = o THEN FirstRefs(m) - 1 ELSE 0)
      BY <1>6, NewRefs
    <3>2. ParentRefs(o)' = ParentRefs(o)
      BY <1>0 DEF ParentRefs
    <3>3. HandleRefs(o)' = HandleRefs(o) + (IF a = o THEN 1 ELSE 0)
      <4>1. /\ handle' = [handle EXCEPT ![h] = a] /\ handle[h] # o
            /\ h \in Handles
        BY <1>0, <1>6, NullAssumption
      <4>2. HandleRefs(o)' = HandleRefs(o) - (IF handle[h] = o THEN 1 ELSE 0)
                                           + (IF a = o THEN 1 ELSE 0)
        BY ZenonT(30), <1>1, <4>1, MoveHandle
      <4>3. HandleRefs(o) \in Int
        BY Counts
      <4> QED BY <4>1, <4>2, <4>3
    <3>4. HandleRefs(o) \in Int /\ MetaRefs(o) \in Int /\ ParentRefs(o) \in Int
      BY Counts
    <3> DEFINE r  == FirstRefs(m)
               h0 == IF o \in hold THEN 1 ELSE 0
               h1 == IF o \in hold' THEN 1 ELSE 0
               l0 == IF lmeta = o THEN 1 ELSE 0
               g0 == IF got = o THEN 1 ELSE 0
               na == IF a = o THEN 1 ELSE 0
               nm == IF m = o THEN 1 ELSE 0
               nr == IF a = o THEN r ELSE 0
    <3>5. /\ r \in Int /\ lost[o] \in Int /\ refcount[o] \in Int
          /\ h0 \in Int /\ h1 \in Int /\ l0 \in Int /\ g0 \in Int
          /\ na \in Int /\ nm \in Int /\ nr \in Int
      BY <1>2, <2>2
    <3>6. /\ h1 = h0 + nr - na
          /\ HandleRefs(o)' = HandleRefs(o) + na /\ MetaRefs(o)' = MetaRefs(o) + nm
      BY <3>1, <3>3, <3>5
    <3>7. refcount'[o] = refcount[o] + nr + nm
      BY <1>2, <2>1, <2>2
    <3> HIDE DEF r, h0, h1, l0, g0, na, nm, nr
    <3>8. lost'[o] = lost[o]
      BY <1>6
    <3>9. refcount'[o] = refcount[o]
              + (HandleRefs(o)' - HandleRefs(o)) + (MetaRefs(o)' - MetaRefs(o))
              + (ParentRefs(o)' - ParentRefs(o)) + (lost'[o] - lost[o])
              + h1 - h0 + l0 - l0 + g0 - g0
      BY <3>2, <3>4, <3>5, <3>6, <3>7, <3>8
    <3>10. l0 = (IF lmeta' = o THEN 1 ELSE 0) /\ g0 = (IF got' = o THEN 1 ELSE 0)
      BY <1>0 DEF l0, g0
    <3> QED BY <1>1, <3>5, <3>8, <3>9, <3>10, Balance DEF h0, h1, l0, g0
  <2>5. AllocExact' /\ StoreExact' /\ FreeingExact'
    <3>1. \A b \in Addr : b # a => (refcount'[b] > 0 <=> refcount[b] > 0)
      BY <1>2, <1>5, <2>2
    <3>2. \A b \in Addr : uuid[b] = NULL /\ b # a => parent'[b] = NULL
      BY <1>0, <1>1 DEF AllocExact
    <3> QED BY <1>0, <1>6, <2>2, <3>1, <3>2, StepCreates
  <2> QED BY <1>3, <2>3, <2>4, <2>5 DEF IInv
<1>7. CASE /\ istore[id] = NULL
           /\ UNCHANGED <<uuid, meta, dims, refcount, istore, hold, handle, lost>>
  <2>1. TypeOK'
    BY <1>0, <1>1, <1>4, <1>7 DEF TypeOK
  <2>2. RefcountExact' /\ AllocExact' /\ StoreExact' /\ FreeingExact'
    BY <1>0, <1>7, SameOwners DEF heap
  <2> QED BY <1>3, <2>1, <2>2 DEF IInv
<1>8. ASSUME istore[id] # NULL, refcount' = Incref(refcount, istore[id]),
             handle' = [handle EXCEPT ![h] = istore[id]],
             UNCHANGED <<uuid, meta, dims, istore, hold, lost>>
      PROVE  IInv'
  <2> DEFINE x == istore[id]
  <2>1. x \in Addr /\ refcount[x] > 0
    BY <1>8, Lookup DEF Live
  <2>2. refcount' = Incref(refcount, x) /\ handle' = [handle EXCEPT ![h] = x]
    BY <1>8
  <2> HIDE DEF x
  <2>3. /\ refcount' \in [Addr -> Nat]
        /\ \A a \in Addr : refcount'[a] = refcount[a] + (IF x = a THEN 1 ELSE 0)
        /\ \A a \in Addr : refcount'[a] > 0 <=> refcount[a] > 0
    BY <1>2, <2>1, <2>2, IncrefStep
  <2>4. TypeOK'
    BY <1>0, <1>1, <1>4, <1>8, <2>1, <2>2, <2>3 DEF TypeOK
  <2>5. RefcountExact'
    <3> SUFFICES ASSUME NEW o \in Addr PROVE refcount'[o] = Owners(o)'
      BY DEF RefcountExact
    <3>1. HandleRefs(o)' = HandleRefs(o) + (IF x = o THEN 1 ELSE 0)
      <4>1. /\ handle' = [handle EXCEPT ![h] = x] /\ handle[h] # o
            /\ h \in Handles
        BY <1>0, <2>2, NullAssumption
      <4>2. HandleRefs(o)' = HandleRefs(o) - (IF handle[h] = o THEN 1 ELSE 0)
                                           + (IF x = o THEN 1 ELSE 0)
        BY ZenonT(30), <1>1, <4>1, MoveHandle
      <4>3. HandleRefs(o) \in Int
        BY Counts
      <4> QED BY <4>1, <4>2, <4>3
    <3>2. MetaRefs(o)' = MetaRefs(o) /\ ParentRefs(o)' = ParentRefs(o)
      BY <1>0, <1>8 DEF MetaRefs, ParentRefs
    <3>3. HandleRefs(o) \in Int /\ MetaRefs(o) \in Int /\ ParentRefs(o) \in Int
      BY Counts
    <3>4. lost'[o] = lost[o] /\ hold' = hold /\ lmeta' = lmeta /\ got' = got
      BY <1>0, <1>8
    <3>5. refcount'[o] = refcount[o] + (IF x = o THEN 1 ELSE 0)
      BY <2>3
    <3> QED BY <1>1, <1>2, <3>1, <3>2, <3>3, <3>4, <3>5, Balance
  <2>6. AllocExact' /\ StoreExact' /\ FreeingExact'
    BY <1>0, <1>1, <1>8, <2>3, StepMoves DEF AllocExact
  <2> QED BY <1>3, <2>4, <2>5, <2>6 DEF IInv
<1>9. ASSUME istore[id] # NULL, lost' = [lost EXCEPT ![meta[istore[id]]] = @ + 1],
             refcount' = Incref(refcount, meta[istore[id]]),
             UNCHANGED <<uuid, meta, dims, istore, hold, handle>>
      PROVE  IInv'
  <2> DEFINE x == istore[id]
  <2>1. x \in Live
    BY <1>9, Lookup
  <2>2. /\ lost' = [lost EXCEPT ![meta[x]] = @ + 1]
        /\ refcount' = Incref(refcount, meta[x])
        /\ UNCHANGED <<heap, istore, hold, handle, lmeta, got, freeing>>
    BY <1>0, <1>9 DEF heap
  <2> HIDE DEF x
  <2>3. /\ refcount' \in [Addr -> Nat] /\ lost' \in [Addr -> Nat]
        /\ RefcountExact' /\ AllocExact' /\ StoreExact' /\ FreeingExact'
    BY <2>1, <2>2, LeakStep
  <2>4. TypeOK'
    <3>1. UNCHANGED <<uuid, meta, parent, replaced, frozen, dims, istore, hold, handle,
                      loading, lmeta, got, freeing>>
      BY <1>0, <1>9
    <3> QED BY <1>0, <1>1, <1>4, <2>3, <3>1 DEF TypeOK
  <2> QED BY <1>3, <2>3, <2>4 DEF IInv
<1> QED BY <1>6, <1>7, <1>8, <1>9 DEF CreateWith, Creates

\* dlite_instance_create() called by the application
LEMMA CreateStep ==
    ASSUME IInv, NEW h \in Handles, NEW hm \in Handles, NEW id \in Ids,
           NEW d \in Dims, Create(h, hm, id, d)
    PROVE  IInv'
<1>1. TypeOK /\ CallExact
  BY DEF IInv
<1>2. handle[hm] \in Live
  BY Referenced DEF NoDangling, Create
<1>3. /\ handle[h] = NULL /\ freeing = <<>> /\ call = NoCall /\ call' = NoCall
      /\ CreateWith(h, handle[hm], id, d) /\ borrowed' = NULL
      /\ UNCHANGED <<parent, replaced, frozen, loading, lmeta, got, freeing>>
  BY DEF Create, Idle
<1>4. loading = <<>> /\ lmeta = NULL /\ got = NULL
  BY <1>1, <1>3 DEF CallExact
<1>5. call' \in PublicCalls /\ call'.op \in {"none", "drop"}
  BY <1>3, InputAssumption DEF NoCall, PublicCalls
<1> QED BY <1>2, <1>3, <1>4, <1>5, CreateWithStep DEF Creates

\* dlite_instance_create_from_id() creates with the metadata it got.
LEMMA FinishCreateStep ==
    ASSUME IInv, FinishCreate
    PROVE  IInv'
<1>1. TypeOK /\ CallExact
  BY DEF IInv
<1>2. got \in Live
  BY Referenced DEF NoDangling, FinishCreate, Returned
<1>3. /\ freeing = <<>> /\ loading = <<>> /\ call.op = "create" /\ got # NULL
      /\ CreateWith(call.h, got, call.id, call.dims)
      /\ call' = [NoCall EXCEPT !.op = "drop"]
      /\ UNCHANGED <<parent, replaced, frozen, loading, lmeta, got, freeing, borrowed>>
  BY DEF FinishCreate, Returned
<1>4. /\ call.h \in Handles /\ call.id \in Ids /\ call.dims \in Dims
      /\ handle[call.h] = NULL /\ borrowed' \in Addr \cup {NULL}
  BY <1>1, <1>3 DEF CallExact, TypeOK, PublicCalls
<1>5. lmeta = NULL
  BY <1>1, <1>3 DEF CallExact
<1>6. /\ call' # NoCall
      /\ call' \in PublicCalls /\ call'.op \in {"none", "drop"}
  BY <1>3, InputAssumption DEF NoCall, PublicCalls
<1> QED BY <1>2, <1>3, <1>4, <1>5, <1>6, CreateWithStep DEF Creates
\* One more reference to o, unless o is NULL.
LEMMA IncrefIfStep ==
    ASSUME NEW rc \in [Addr -> Nat], NEW o \in Addr \cup {NULL}
    PROVE  /\ IncrefIf(rc, o) \in [Addr -> Nat]
           /\ \A a \in Addr : IncrefIf(rc, o)[a] = rc[a] + (IF o = a THEN 1 ELSE 0)
<1>1. CASE o = NULL
  <2>1. \A a \in Addr : o # a /\ rc[a] \in Nat
    BY <1>1, NullAssumption
  <2> QED BY <1>1, <2>1 DEF IncrefIf
<1>2. CASE o # NULL
  BY <1>2 DEF IncrefIf, Incref
<1> QED BY <1>1, <1>2

\* The instance the application works on, its metadata and its parent.
LEMMA Works ==
    ASSUME IInv, SettingExact, NEW h \in Handles, WorksOn(h)
    PROVE  /\ call = NoCall /\ freeing = <<>> /\ loading = <<>>
           /\ replaced = NULL
           /\ lmeta = NULL /\ got = NULL
           /\ handle[h] \in Live /\ handle[h] \in Addr
           /\ meta[handle[h]] \in Live /\ meta[handle[h]] \in Addr
           /\ dims[handle[h]] \in Dims
           /\ parent[handle[h]] \in Addr \cup {NULL}
           /\ parent[handle[h]] # NULL => parent[handle[h]] \in Live
<1>1. call = NoCall /\ freeing = <<>> /\ handle[h] # NULL /\ replaced = NULL
  BY DEF WorksOn, Idle, SettingExact, NoCall
<1>2. TypeOK /\ AllocExact /\ CallExact
  BY DEF IInv
<1>3. handle[h] \in Live /\ handle[h] \in Addr
  BY <1>1, Referenced DEF NoDangling, Live
<1> QED BY <1>1, <1>2, <1>3, Referenced, NullAssumption
        DEF CallExact, NoDangling, AllocExact, Live, TypeOK

\* dlite_instance_copy(): the copy is another owner of the parent.
LEMMA CopyNewStep ==
    ASSUME IInv, SettingExact, NEW h \in Handles, NEW h2 \in Handles,
           NEW id \in Ids, CopyNew(h, h2, id)
    PROVE  IInv'
<1>1. /\ TypeOK /\ RefcountExact /\ AllocExact /\ CallExact /\ LoadingExact
  BY DEF IInv
<1>2. /\ refcount \in [Addr -> Nat]
      /\ \A b \in Addr : lost[b] \in Int /\ refcount[b] \in Int
  BY <1>1 DEF TypeOK
<1> DEFINE x == handle[h]
           m == meta[x]
           p == parent[x]
           d == dims[x]
<1>3. PICK a \in Free :
         /\ NewInstance(a, id, m, d)
         /\ parent' = [parent EXCEPT ![a] = p]
         /\ refcount' = IncrefIf([refcount EXCEPT ![a] = FirstRefs(m),
                                                  ![m] = @ + 1], p)
         /\ handle' = [handle EXCEPT ![h2] = a]
  BY DEF CopyNew
<1>4. /\ handle[h2] = NULL /\ istore[id] = NULL /\ borrowed' = NULL
      /\ UNCHANGED <<replaced, frozen, call, loading, lmeta, got, freeing, lost>>
  BY DEF CopyNew
<1>5. /\ call = NoCall /\ replaced = NULL /\ freeing = <<>>
      /\ loading = <<>> /\ got = NULL
      /\ lmeta = NULL /\ m \in Live /\ m \in Addr /\ d \in Dims
      /\ p \in Addr \cup {NULL}
      /\ p # NULL => p \in Live
  BY Works DEF CopyNew
<1>6. /\ a \in Addr /\ a # m /\ a # p /\ refcount[a] = 0 /\ parent[a] = NULL
      /\ refcount[m] > 0
  BY <1>1, <1>5, Referenced, NullAssumption DEF Free, AllocExact, Live
<1> HIDE DEF x, m, p, d
<1>7. /\ FirstRefs(m) \in Nat /\ FirstRefs(m) > 0
      /\ refcount' \in [Addr -> Nat]
      /\ \A b \in Addr : refcount'[b] = refcount[b]
            + (IF a = b THEN FirstRefs(m) ELSE 0) + (IF m = b THEN 1 ELSE 0)
            + (IF p = b THEN 1 ELSE 0)
  <2> DEFINE rc == [refcount EXCEPT ![a] = FirstRefs(m), ![m] = @ + 1]
  <2>1. FirstRefs(m) \in Nat /\ FirstRefs(m) > 0
    BY DEF FirstRefs
  <2>2. /\ rc \in [Addr -> Nat]
        /\ \A b \in Addr : rc[b] = refcount[b]
              + (IF a = b THEN FirstRefs(m) ELSE 0) + (IF m = b THEN 1 ELSE 0)
    BY <1>2, <1>5, <1>6, <2>1
  <2>3. refcount' = IncrefIf(rc, p)
    BY <1>3
  <2> HIDE DEF rc
  <2> QED BY <1>5, <2>1, <2>2, <2>3, IncrefIfStep
<1>8. TypeOK'
  <2>1. /\ parent' \in [Addr -> Addr \cup {NULL}]
        /\ handle' \in [Handles -> Addr \cup {NULL}]
    BY <1>1, <1>3, <1>5, <1>6 DEF TypeOK
  <2> QED BY <1>1, <1>3, <1>4, <1>5, <1>6, <1>7, <2>1, NewTypes DEF TypeOK
<1>9. RefcountExact'
  <2> SUFFICES ASSUME NEW o \in Addr PROVE refcount'[o] = Owners(o)'
    BY DEF RefcountExact
  <2>1. /\ MetaRefs(o)' = MetaRefs(o) + (IF m = o THEN 1 ELSE 0)
        /\ (IF o \in hold' THEN 1 ELSE 0) = (IF o \in hold THEN 1 ELSE 0)
              + (IF a = o THEN FirstRefs(m) - 1 ELSE 0)
    BY <1>3, <1>5, NewRefs
  <2>2. ParentRefs(o)' = ParentRefs(o) + (IF p = o THEN 1 ELSE 0)
    <3>1. /\ parent' = [parent EXCEPT ![a] = p] /\ parent[a] # o
          /\ a \in Addr \ {replaced} /\ replaced' = replaced
      BY <1>3, <1>4, <1>5, <1>6, NullAssumption
    <3>2. ParentRefs(o)' = ParentRefs(o) - (IF parent[a] = o THEN 1 ELSE 0)
                                         + (IF p = o THEN 1 ELSE 0)
      BY ZenonT(30), <1>1, <3>1, MoveParent
    <3>3. ParentRefs(o) \in Int
      BY Counts
    <3> QED BY <3>1, <3>2, <3>3
  <2>3. HandleRefs(o)' = HandleRefs(o) + (IF a = o THEN 1 ELSE 0)
    <3>1. handle' = [handle EXCEPT ![h2] = a] /\ handle[h2] # o /\ h2 \in Handles
      BY <1>3, <1>4, NullAssumption
    <3>2. HandleRefs(o)' = HandleRefs(o) - (IF handle[h2] = o THEN 1 ELSE 0)
                                         + (IF a = o THEN 1 ELSE 0)
      BY ZenonT(30), <1>1, <3>1, MoveHandle
    <3>3. HandleRefs(o) \in Int
      BY Counts
    <3> QED BY <3>1, <3>2, <3>3
  <2>4. HandleRefs(o) \in Int /\ MetaRefs(o) \in Int /\ ParentRefs(o) \in Int
    BY Counts
  <2> DEFINE r  == FirstRefs(m)
             s0 == IF o \in hold THEN 1 ELSE 0
             s1 == IF o \in hold' THEN 1 ELSE 0
             na == IF a = o THEN 1 ELSE 0
             nm == IF m = o THEN 1 ELSE 0
             np == IF p = o THEN 1 ELSE 0
             nr == IF a = o THEN r ELSE 0
  <2>5. /\ lost[o] \in Int /\ refcount[o] \in Int /\ r \in Int
        /\ s0 \in Int /\ s1 \in Int
        /\ na \in Int /\ nm \in Int /\ np \in Int /\ nr \in Int
    BY <1>2, <1>7
  <2>6. s1 = s0 + nr - na
    BY <2>1, <2>5
  <2>7. /\ MetaRefs(o)' = MetaRefs(o) + nm /\ HandleRefs(o)' = HandleRefs(o) + na
        /\ ParentRefs(o)' = ParentRefs(o) + np
    BY <2>1, <2>2, <2>3
  <2>8. refcount'[o] = refcount[o] + nr + nm + np
    BY <1>7
  <2> HIDE DEF r, s0, s1, na, nm, np, nr
  <2>9. lost'[o] = lost[o] /\ lmeta # o /\ lmeta' # o /\ got # o /\ got' # o
    BY <1>4, <1>5, NullAssumption
  <2>10. refcount'[o] = refcount[o]
            + (HandleRefs(o)' - HandleRefs(o)) + (MetaRefs(o)' - MetaRefs(o))
            + (ParentRefs(o)' - ParentRefs(o)) + (lost'[o] - lost[o])
            + s1 - s0 + 0 - 0 + 0 - 0
    BY <2>4, <2>5, <2>6, <2>7, <2>8, <2>9
  <2> QED BY <1>1, <2>5, <2>9, <2>10, Balance DEF s0, s1
<1>10. AllocExact' /\ StoreExact' /\ FreeingExact'
  <2>1. /\ refcount'[a] > 0
        /\ \A b \in Addr : b # a => (refcount'[b] > 0 <=> refcount[b] > 0)
    <3>1. p \in Addr => refcount[p] > 0
      BY <1>5, NullAssumption DEF Live
    <3>2. \A b \in Addr : refcount'[b] \in Nat /\ refcount[b] \in Nat
      BY <1>2, <1>7
    <3> QED BY <1>6, <1>7, <3>1, <3>2
  <2>2. \A b \in Addr : uuid[b] = NULL /\ b # a => parent'[b] = NULL
    BY <1>1, <1>3, <1>6 DEF AllocExact, TypeOK
  <2> QED BY <1>3, <1>4, <1>5, <1>7, <2>1, <2>2, StepCreates
<1>11. CallExact'
  BY <1>4, <1>5 DEF CallExact, NoCall
<1>12. LoadingExact'
  BY <1>4, <1>5 DEF LoadingExact
<1> QED BY <1>8, <1>9, <1>10, <1>11, <1>12 DEF IInv
\* dlite_instance_snapshot(): the snapshot takes the parent over and becomes
\* the parent.
LEMMA SnapshotStep ==
    ASSUME IInv, SettingExact, NEW h \in Handles, NEW id \in Ids, Snapshot(h, id)
    PROVE  IInv'
<1>1. /\ TypeOK /\ RefcountExact /\ AllocExact /\ CallExact /\ LoadingExact
  BY DEF IInv
<1>2. /\ refcount \in [Addr -> Nat]
      /\ \A b \in Addr : lost[b] \in Int /\ refcount[b] \in Int
  BY <1>1 DEF TypeOK
<1> DEFINE x == handle[h]
           m == meta[x]
           p == parent[x]
           d == dims[x]
<1>3. PICK a \in Free :
         /\ NewInstance(a, id, m, d)
         /\ parent' = [parent EXCEPT ![a] = p, ![x] = a]
         /\ frozen' = [frozen EXCEPT ![a] = TRUE]
         /\ refcount' = [refcount EXCEPT ![a] = FirstRefs(m), ![m] = @ + 1]
  BY DEF Snapshot
<1>4. /\ istore[id] = NULL /\ borrowed' = NULL
      /\ UNCHANGED <<replaced, handle, call, loading, lmeta, got, freeing, lost>>
  BY DEF Snapshot
<1>5. /\ call = NoCall /\ replaced = NULL /\ freeing = <<>>
      /\ loading = <<>> /\ got = NULL
      /\ lmeta = NULL /\ m \in Live /\ m \in Addr /\ d \in Dims
      /\ x \in Live /\ x \in Addr /\ p \in Addr \cup {NULL} /\ parent[x] = p
      /\ p # NULL => p \in Live
  BY Works DEF Snapshot
<1>6. /\ a \in Addr /\ a # m /\ a # p /\ a # x /\ refcount[a] = 0
      /\ parent[a] = NULL /\ refcount[m] > 0
  BY <1>1, <1>5, Referenced, NullAssumption DEF Free, AllocExact, Live
<1> HIDE DEF x, m, p, d
<1>7. /\ FirstRefs(m) \in Nat /\ FirstRefs(m) > 0
      /\ refcount' \in [Addr -> Nat]
      /\ \A b \in Addr : refcount'[b] = refcount[b]
            + (IF a = b THEN FirstRefs(m) ELSE 0) + (IF m = b THEN 1 ELSE 0)
  <2>1. FirstRefs(m) \in Nat /\ FirstRefs(m) > 0
    BY DEF FirstRefs
  <2> QED BY <1>2, <1>3, <1>5, <1>6, <2>1
<1>8. TypeOK'
  <2>1. /\ parent' \in [Addr -> Addr \cup {NULL}]
        /\ frozen' \in [Addr -> BOOLEAN]
    BY <1>1, <1>3, <1>5, <1>6 DEF TypeOK
  <2> QED BY <1>1, <1>3, <1>4, <1>5, <1>6, <1>7, <2>1, NewTypes DEF TypeOK
<1>9. RefcountExact'
  <2> SUFFICES ASSUME NEW o \in Addr PROVE refcount'[o] = Owners(o)'
    BY DEF RefcountExact
  <2>1. /\ MetaRefs(o)' = MetaRefs(o) + (IF m = o THEN 1 ELSE 0)
        /\ (IF o \in hold' THEN 1 ELSE 0) = (IF o \in hold THEN 1 ELSE 0)
              + (IF a = o THEN FirstRefs(m) - 1 ELSE 0)
    BY <1>3, <1>5, NewRefs
  <2>2. ParentRefs(o)' = ParentRefs(o) + (IF a = o THEN 1 ELSE 0)
    <3> DEFINE par1 == [parent EXCEPT ![a] = p]
    <3>1. IsFiniteSet(Addr)
      BY FiniteAssumption
    <3>2. /\ SameBut(Addr, parent, par1, a) /\ SameBut(Addr, par1, parent', x)
          /\ par1[a] = p /\ par1[x] = p /\ parent'[x] = a
          /\ a \in Addr /\ x \in Addr
      BY <1>1, <1>3, <1>5, <1>6 DEF SameBut, TypeOK
    <3> HIDE DEF par1
    <3>3. /\ Moved(Addr, parent, par1, a, o)
          /\ Moved(Addr, par1, parent', x, o)
      BY <3>1, <3>2, CountMove
    <3>4. ParentRefs(o) \in Int /\ parent[a] # o
      BY <1>6, Counts, NullAssumption
    <3>5. /\ ParentRefs(o) = Count(Addr, parent, o)
          /\ ParentRefs(o)' = Count(Addr, parent', o)
      <4>1. Addr \ {replaced} = Addr /\ replaced' = replaced
        BY <1>4, <1>5, NullAssumption
      <4> QED BY <4>1 DEF ParentRefs
    <3>6. Count(Addr, par1, o) = ParentRefs(o) + (IF p = o THEN 1 ELSE 0)
      BY <3>2, <3>3, <3>4, <3>5 DEF Moved
    <3>7. ParentRefs(o)' = Count(Addr, par1, o) - (IF p = o THEN 1 ELSE 0)
                                                + (IF a = o THEN 1 ELSE 0)
      BY <3>2, <3>3, <3>5 DEF Moved
    <3> QED BY <3>4, <3>6, <3>7
  <2>3. HandleRefs(o)' = HandleRefs(o)
    BY <1>4 DEF HandleRefs
  <2>4. HandleRefs(o) \in Int /\ MetaRefs(o) \in Int /\ ParentRefs(o) \in Int
    BY Counts
  <2> DEFINE r  == FirstRefs(m)
             s0 == IF o \in hold THEN 1 ELSE 0
             s1 == IF o \in hold' THEN 1 ELSE 0
             na == IF a = o THEN 1 ELSE 0
             nm == IF m = o THEN 1 ELSE 0
             nr == IF a = o THEN r ELSE 0
  <2>5. /\ lost[o] \in Int /\ refcount[o] \in Int /\ r \in Int
        /\ s0 \in Int /\ s1 \in Int
        /\ na \in Int /\ nm \in Int /\ nr \in Int
    BY <1>2, <1>7
  <2>6. s1 = s0 + nr - na
    BY <2>1, <2>5
  <2>7. /\ MetaRefs(o)' = MetaRefs(o) + nm /\ ParentRefs(o)' = ParentRefs(o) + na
    BY <2>1, <2>2
  <2>8. refcount'[o] = refcount[o] + nr + nm
    BY <1>7
  <2> HIDE DEF r, s0, s1, na, nm, nr
  <2>9. lost'[o] = lost[o] /\ lmeta # o /\ lmeta' # o /\ got # o /\ got' # o
    BY <1>4, <1>5, NullAssumption
  <2>10. refcount'[o] = refcount[o]
            + (HandleRefs(o)' - HandleRefs(o)) + (MetaRefs(o)' - MetaRefs(o))
            + (ParentRefs(o)' - ParentRefs(o)) + (lost'[o] - lost[o])
            + s1 - s0 + 0 - 0 + 0 - 0
    BY <2>3, <2>4, <2>5, <2>6, <2>7, <2>8, <2>9
  <2> QED BY <1>1, <2>5, <2>9, <2>10, Balance DEF s0, s1
<1>10. AllocExact' /\ StoreExact' /\ FreeingExact'
  <2>1. /\ refcount'[a] > 0
        /\ \A b \in Addr : b # a => (refcount'[b] > 0 <=> refcount[b] > 0)
    <3>1. \A b \in Addr : refcount'[b] \in Nat /\ refcount[b] \in Nat
      BY <1>2, <1>7
    <3> QED BY <1>6, <1>7, <3>1
  <2>2. \A b \in Addr : uuid[b] = NULL /\ b # a => parent'[b] = NULL
    BY <1>1, <1>3, <1>5, <1>6 DEF AllocExact, TypeOK, Live
  <2> QED BY <1>3, <1>4, <1>5, <1>7, <2>1, <2>2, StepCreates
<1>11. CallExact'
  BY <1>4, <1>5 DEF CallExact, NoCall
<1>12. LoadingExact'
  BY <1>4, <1>5 DEF LoadingExact
<1> QED BY <1>8, <1>9, <1>10, <1>11, <1>12 DEF IInv

\* dlite_instance_set_parent() gives back the reference to the old parent,
\* although the `_parent` member still points to it.
LEMMA SetParentStep ==
    ASSUME IInv, SettingExact, NEW h \in Handles, NEW p \in Addr, SetParent(h, p)
    PROVE  IInv'
<1>1. /\ TypeOK /\ RefcountExact /\ AllocExact /\ CallExact /\ LoadingExact
  BY DEF IInv
<1>2. /\ refcount \in [Addr -> Nat] /\ freeing \in Seq(Addr)
      /\ \A b \in Addr : lost[b] \in Int /\ refcount[b] \in Int
  BY <1>1 DEF TypeOK
<1> DEFINE x == handle[h]
           q == parent[x]
           c == [NoCall EXCEPT !.op = "set_parent", !.to = p]
<1>3. /\ replaced' = x /\ call' = c /\ borrowed' = NULL
      /\ UNCHANGED <<uuid, meta, parent, frozen, dims, hold, handle, loading,
                     lmeta, got, lost>>
  BY DEF SetParent
<1>4. /\ loading = <<>> /\ got = NULL /\ lmeta = NULL /\ replaced = NULL
      /\ x \in Addr /\ q \in Addr \cup {NULL} /\ parent[x] = q
      /\ q # NULL => q \in Live
  BY Works DEF SetParent
<1>5. c \in PublicCalls /\ c.op = "set_parent" /\ c # NoCall
  BY InputAssumption DEF NoCall, PublicCalls
<1>6. IF q # NULL THEN Release(refcount, q, freeing)
                  ELSE UNCHANGED <<refcount, istore, freeing>>
  BY DEF SetParent, Decref
<1> HIDE DEF x, q, c
<1>7. /\ \A b \in Addr : refcount'[b] = refcount[b] - (IF q = b THEN 1 ELSE 0)
      /\ refcount' \in [Addr -> Nat] /\ freeing' \in Seq(Addr)
      /\ istore' \in [Ids -> Addr \cup {NULL}]
  <2>1. CASE q # NULL
    <3>1. q \in Addr /\ refcount[q] > 0 /\ uuid[q] # NULL
      BY <1>4, <2>1 DEF Live
    <3>2. /\ refcount' = [refcount EXCEPT ![q] = @ - 1] /\ refcount' \in [Addr -> Nat]
          /\ istore' \in [Ids -> Addr \cup {NULL}] /\ freeing' \in Seq(Addr)
      BY <1>1, <1>2, <1>6, <2>1, <3>1, ReleaseStep
    <3> QED BY <1>2, <3>1, <3>2
  <2>2. CASE q = NULL
    <3>1. \A b \in Addr : q # b
      BY <2>2, NullAssumption
    <3> QED BY <1>1, <1>2, <1>6, <2>2, <3>1 DEF TypeOK
  <2> QED BY <2>1, <2>2
<1>8. TypeOK'
  BY <1>1, <1>3, <1>4, <1>5, <1>7 DEF TypeOK
<1>9. RefcountExact'
  <2> SUFFICES ASSUME NEW o \in Addr PROVE refcount'[o] = Owners(o)'
    BY DEF RefcountExact
  <2>1. refcount'[o] = refcount[o] - (IF q = o THEN 1 ELSE 0)
    BY <1>7
  <2>2. ParentRefs(o)' = ParentRefs(o) - (IF q = o THEN 1 ELSE 0)
    <3>1. parent' = parent
      BY <1>3
    <3>2. ParentRefs(o)' = ParentRefs(o) - (IF parent[x] = o THEN 1 ELSE 0)
      BY <1>3, <1>4, <3>1, LeaveParent
    <3> QED BY <1>4, <3>2
  <2>3. MetaRefs(o)' = MetaRefs(o) /\ HandleRefs(o)' = HandleRefs(o)
    BY <1>3 DEF MetaRefs, HandleRefs
  <2>4. HandleRefs(o) \in Int /\ MetaRefs(o) \in Int /\ ParentRefs(o) \in Int
    BY Counts
  <2>5. lost'[o] = lost[o] /\ hold' = hold /\ lmeta' = lmeta /\ got' = got
    BY <1>3
  <2> QED BY <1>1, <1>2, <2>1, <2>2, <2>3, <2>4, <2>5, Balance
<1>10. AllocExact' /\ StoreExact' /\ FreeingExact'
  <2>1. /\ UNCHANGED <<uuid, meta>> /\ hold' \subseteq hold
        /\ \A b \in Addr : uuid[b] = NULL => parent'[b] = NULL
    BY <1>1, <1>3 DEF AllocExact
  <2>2. CASE q # NULL
    <3>1. q \in Addr /\ refcount[q] > 0
      BY <1>4, <2>2 DEF Live
    <3>2. \A b \in hold' : refcount'[b] > 0
      BY <1>8, <1>9, HoldLive DEF TypeOK
    <3> QED BY <1>2, <1>6, <2>1, <2>2, <3>1, <3>2, StepReleases
  <2>3. CASE q = NULL
    BY <1>2, <1>6, <2>1, <2>3, StepMoves
  <2> QED BY <2>2, <2>3
<1>11. CallExact'
  BY <1>3, <1>4, <1>5 DEF CallExact
<1>12. LoadingExact'
  BY <1>3, <1>4 DEF LoadingExact
<1> QED BY <1>8, <1>9, <1>10, <1>11, <1>12 DEF IInv

\* It assigns the new parent and takes a reference to it.
LEMMA FinishSetParentStep ==
    ASSUME IInv, SettingExact, FinishSetParent
    PROVE  IInv'
<1>1. /\ TypeOK /\ RefcountExact /\ AllocExact /\ CallExact /\ LoadingExact
  BY DEF IInv
<1>2. /\ refcount \in [Addr -> Nat]
      /\ \A b \in Addr : lost[b] \in Int /\ refcount[b] \in Int
  BY <1>1 DEF TypeOK
<1> DEFINE p == call.to
<1>3. /\ parent' = [parent EXCEPT ![replaced] = p] /\ refcount' = Incref(refcount, p)
      /\ replaced' = NULL /\ call' = NoCall
      /\ UNCHANGED <<uuid, meta, frozen, dims, istore, hold, handle, loading,
                     lmeta, got, borrowed, freeing, lost>>
  BY DEF FinishSetParent
<1>4. /\ replaced \in Addr /\ replaced \in Live /\ p \in Addr /\ p \in Live
      /\ loading = <<>> /\ lmeta = NULL /\ got = NULL
  BY Setting DEF FinishSetParent
<1> HIDE DEF p
<1>5. /\ refcount' \in [Addr -> Nat]
      /\ \A b \in Addr : refcount'[b] = refcount[b] + (IF p = b THEN 1 ELSE 0)
      /\ \A b \in Addr : refcount'[b] > 0 <=> refcount[b] > 0
  <2>1. refcount[p] > 0
    BY <1>4 DEF Live
  <2> QED BY <1>2, <1>3, <1>4, <2>1, IncrefStep
<1>6. TypeOK'
  <2>1. parent' \in [Addr -> Addr \cup {NULL}]
    BY <1>1, <1>3, <1>4 DEF TypeOK
  <2>2. call' \in PublicCalls
    BY <1>3, InputAssumption DEF NoCall, PublicCalls
  <2> QED BY <1>1, <1>3, <1>5, <2>1, <2>2 DEF TypeOK
<1>7. RefcountExact'
  <2> SUFFICES ASSUME NEW o \in Addr PROVE refcount'[o] = Owners(o)'
    BY DEF RefcountExact
  <2>1. refcount'[o] = refcount[o] + (IF p = o THEN 1 ELSE 0)
    BY <1>5
  <2>2. ParentRefs(o)' = ParentRefs(o) + (IF p = o THEN 1 ELSE 0)
    BY <1>1, <1>3, <1>4, EnterParent
  <2>3. MetaRefs(o)' = MetaRefs(o) /\ HandleRefs(o)' = HandleRefs(o)
    BY <1>3 DEF MetaRefs, HandleRefs
  <2>4. HandleRefs(o) \in Int /\ MetaRefs(o) \in Int /\ ParentRefs(o) \in Int
    BY Counts
  <2>5. lost'[o] = lost[o] /\ hold' = hold /\ lmeta' = lmeta /\ got' = got
    BY <1>3
  <2> QED BY <1>1, <1>2, <2>1, <2>2, <2>3, <2>4, <2>5, Balance
<1>8. AllocExact' /\ StoreExact' /\ FreeingExact'
  <2>1. /\ UNCHANGED <<uuid, meta, istore, freeing>> /\ hold' \subseteq hold
        /\ \A b \in Addr : uuid[b] = NULL => parent'[b] = NULL
    BY <1>1, <1>3, <1>4 DEF AllocExact, Live, TypeOK
  <2> QED BY <1>5, <2>1, StepMoves
<1>9. CallExact'
  BY <1>3, <1>4 DEF CallExact, NoCall
<1>10. LoadingExact'
  BY <1>3, <1>4 DEF LoadingExact
<1> QED BY <1>6, <1>7, <1>8, <1>9, <1>10 DEF IInv

\* dlite_instance_copy() onto an existing instance y: a leaked reference to
\* the metadata, or y gets another parent and the old one is leaked.
LEMMA CopyOntoStep ==
    ASSUME IInv, SettingExact, NEW h \in Handles, NEW h2 \in Handles,
           NEW y \in Addr \ Free, CopyOnto(h, h2, y)
    PROVE  IInv'
<1>1. /\ TypeOK /\ RefcountExact /\ AllocExact /\ CallExact /\ LoadingExact
  BY DEF IInv
<1>2. /\ refcount \in [Addr -> Nat] /\ lost \in [Addr -> Nat]
      /\ \A b \in Addr : lost[b] \in Int /\ refcount[b] \in Int
  BY <1>1 DEF TypeOK
<1> DEFINE x == handle[h]
           p == parent[x]
           q == IF p = NULL THEN NULL ELSE parent[y]
<1>3. /\ handle[h2] = NULL /\ borrowed' = NULL
      /\ UNCHANGED <<uuid, meta, replaced, frozen, dims, istore, hold, call,
                     loading, lmeta, got, freeing>>
  BY DEF CopyOnto
<1>4. /\ call = NoCall /\ replaced = NULL /\ freeing = <<>>
      /\ loading = <<>> /\ got = NULL
      /\ lmeta = NULL /\ p \in Addr \cup {NULL}
      /\ p # NULL => p \in Live
  BY Works DEF CopyOnto
<1>5. y \in Live /\ y \in Addr /\ refcount[y] > 0
  <2>1. y \in Addr /\ uuid[y] # NULL
    BY DEF Free
  <2>2. refcount[y] # 0
    <3>1. Len(freeing) = 0 /\ Freeing(freeing, uuid, refcount)
      BY <1>4 DEF IInv, FreeingExact
    <3> QED BY <2>1, <3>1 DEF Freeing
  <2> QED BY <1>2, <2>1, <2>2 DEF Live
<1>6. CallExact' /\ LoadingExact'
  BY <1>3, <1>4 DEF CallExact, LoadingExact, NoCall
<1>7. CASE /\ lost' = [lost EXCEPT ![meta[y]] = @ + 1]
           /\ refcount' = Incref(refcount, meta[y])
           /\ UNCHANGED <<parent, handle>>
  <2>1. /\ refcount' \in [Addr -> Nat] /\ lost' \in [Addr -> Nat]
        /\ RefcountExact' /\ AllocExact' /\ StoreExact' /\ FreeingExact'
    BY <1>3, <1>5, <1>7, LeakStep DEF heap
  <2>2. TypeOK'
    <3>1. UNCHANGED <<uuid, meta, parent, replaced, frozen, dims, istore, hold, handle,
                      call, loading, lmeta, got, freeing>>
      BY <1>3, <1>7
    <3> QED BY <1>1, <1>3, <2>1, <3>1 DEF TypeOK
  <2> QED BY <1>6, <2>1, <2>2 DEF IInv
<1>8. CASE /\ IF p # NULL
              THEN /\ parent' = [parent EXCEPT ![y] = p]
                   /\ lost' = IncrefIf(lost, parent[y])
              ELSE UNCHANGED <<parent, lost>>
           /\ LET rc == IncrefIf(refcount, p)
              IN IF frozen[y]
                 THEN refcount' = rc /\ UNCHANGED handle
                 ELSE /\ refcount' = Incref(rc, y)
                      /\ handle' = [handle EXCEPT ![h2] = y]
  <2> DEFINE rc == IncrefIf(refcount, p)
             n  == IF frozen[y] THEN NULL ELSE y
  <2>1. q \in Addr \cup {NULL} /\ (q = NULL \/ q = parent[y])
    BY <1>1, <1>5 DEF TypeOK
  <2>2. /\ parent' = IF p = NULL THEN parent ELSE [parent EXCEPT ![y] = p]
        /\ lost' = IncrefIf(lost, q)
    BY <1>8 DEF IncrefIf
  <2>3. /\ refcount' = IncrefIf(rc, n)
        /\ handle' = IF n = NULL THEN handle ELSE [handle EXCEPT ![h2] = n]
        /\ n \in {NULL, y}
    BY <1>5, <1>8, NullAssumption DEF IncrefIf
  <2>4. p = NULL => q = NULL
    OBVIOUS
  <2>5. p # NULL => q = parent[y]
    OBVIOUS
  <2>6. /\ rc \in [Addr -> Nat]
        /\ \A b \in Addr : rc[b] = refcount[b] + (IF p = b THEN 1 ELSE 0)
    BY <1>2, <1>4, IncrefIfStep
  <2> HIDE DEF x, p, q, rc, n
  <2>7. /\ refcount' \in [Addr -> Nat]
        /\ \A b \in Addr : refcount'[b] = rc[b] + (IF n = b THEN 1 ELSE 0)
    BY <1>5, <2>3, <2>6, IncrefIfStep
  <2>8. /\ lost' \in [Addr -> Nat]
        /\ \A b \in Addr : lost'[b] = lost[b] + (IF q = b THEN 1 ELSE 0)
    BY <1>2, <2>1, <2>2, IncrefIfStep
  <2>9. TypeOK'
    <3>1. /\ parent' \in [Addr -> Addr \cup {NULL}]
          /\ handle' \in [Handles -> Addr \cup {NULL}]
      BY <1>1, <1>4, <1>5, <2>2, <2>3 DEF TypeOK
    <3> QED BY <1>1, <1>3, <2>7, <2>8, <3>1 DEF TypeOK
  <2>10. RefcountExact'
    <3> SUFFICES ASSUME NEW o \in Addr PROVE refcount'[o] = Owners(o)'
      BY DEF RefcountExact
    <3>1. HandleRefs(o) \in Int /\ MetaRefs(o) \in Int /\ ParentRefs(o) \in Int
      BY Counts
    <3>2. ParentRefs(o)' = ParentRefs(o) - (IF q = o THEN 1 ELSE 0)
                                         + (IF p = o THEN 1 ELSE 0)
      <4>1. CASE p = NULL
        <5>1. ParentRefs(o)' = ParentRefs(o)
          BY <1>3, <2>2, <4>1 DEF ParentRefs
        <5>2. p # o /\ q # o
          BY <2>4, <4>1, NullAssumption
        <5> QED BY <3>1, <5>1, <5>2
      <4>2. CASE p # NULL
        <5>1. /\ parent' = [parent EXCEPT ![y] = p] /\ parent[y] = q
              /\ y \in Addr \ {replaced} /\ replaced' = replaced
          BY <1>3, <1>4, <1>5, <2>2, <2>5, <4>2, NullAssumption
        <5> QED BY ZenonT(30), <1>1, <5>1, MoveParent
      <4> QED BY <4>1, <4>2
    <3>3. HandleRefs(o)' = HandleRefs(o) + (IF n = o THEN 1 ELSE 0)
      <4>1. CASE n = NULL
        <5>1. HandleRefs(o)' = HandleRefs(o) /\ n # o
          BY <2>3, <4>1, NullAssumption DEF HandleRefs
        <5> QED BY <3>1, <5>1
      <4>2. CASE n # NULL
        <5>1. handle' = [handle EXCEPT ![h2] = n] /\ handle[h2] # o /\ h2 \in Handles
          BY <1>3, <2>3, <4>2, NullAssumption
        <5>2. HandleRefs(o)' = HandleRefs(o) - (IF handle[h2] = o THEN 1 ELSE 0)
                                             + (IF n = o THEN 1 ELSE 0)
          BY ZenonT(30), <1>1, <5>1, MoveHandle
        <5> QED BY <3>1, <5>1, <5>2
      <4> QED BY <4>1, <4>2
    <3>4. MetaRefs(o)' = MetaRefs(o) /\ hold' = hold /\ lmeta' = lmeta /\ got' = got
      BY <1>3 DEF MetaRefs
    <3> DEFINE np == IF p = o THEN 1 ELSE 0
               nq == IF q = o THEN 1 ELSE 0
               nn == IF n = o THEN 1 ELSE 0
               s0 == IF o \in hold THEN 1 ELSE 0
               l0 == IF lmeta = o THEN 1 ELSE 0
               g0 == IF got = o THEN 1 ELSE 0
    <3>5. /\ np \in Int /\ nq \in Int /\ nn \in Int
          /\ s0 \in Int /\ l0 \in Int /\ g0 \in Int
          /\ lost[o] \in Int /\ refcount[o] \in Int
      BY <1>2
    <3>6. /\ refcount'[o] = refcount[o] + np + nn /\ lost'[o] = lost[o] + nq
          /\ ParentRefs(o)' = ParentRefs(o) - nq + np
          /\ HandleRefs(o)' = HandleRefs(o) + nn
      BY <2>6, <2>7, <2>8, <3>2, <3>3
    <3>7. /\ s0 = (IF o \in hold' THEN 1 ELSE 0)
          /\ l0 = (IF lmeta' = o THEN 1 ELSE 0) /\ g0 = (IF got' = o THEN 1 ELSE 0)
      BY <3>4
    <3> HIDE DEF np, nq, nn, s0, l0, g0
    <3>8. refcount'[o] = refcount[o]
            + (HandleRefs(o)' - HandleRefs(o)) + (MetaRefs(o)' - MetaRefs(o))
            + (ParentRefs(o)' - ParentRefs(o)) + (lost'[o] - lost[o])
            + s0 - s0 + l0 - l0 + g0 - g0
      BY <3>1, <3>4, <3>5, <3>6
    <3>9. lost'[o] \in Int
      BY <2>8
    <3> QED BY <1>1, <3>7, <3>8, <3>9, Balance DEF s0, l0, g0
  <2>11. AllocExact' /\ StoreExact' /\ FreeingExact'
    <3>1. \A b \in Addr : refcount'[b] > 0 <=> refcount[b] > 0
      <4>1. p \in Addr => refcount[p] > 0
        BY <1>4, NullAssumption DEF Live
      <4>2. \A b \in Addr : refcount'[b] \in Nat /\ refcount[b] \in Nat
        BY <1>2, <2>7
      <4>3. n \in Addr => refcount[n] > 0
        BY <1>5, <2>3, NullAssumption
      <4> QED BY <2>6, <2>7, <4>1, <4>2, <4>3
    <3>2. /\ UNCHANGED <<uuid, meta, istore, freeing>> /\ hold' \subseteq hold
          /\ \A b \in Addr : uuid[b] = NULL => parent'[b] = NULL
      BY <1>1, <1>3, <1>5, <2>2 DEF AllocExact, Live, TypeOK
    <3> QED BY <3>1, <3>2, <2>7, StepMoves
  <2> QED BY <1>6, <2>9, <2>10, <2>11 DEF IInv
<1> QED BY <1>7, <1>8 DEF CopyOnto

----------------------------------------------------------------------------
(* The theorems.                                                            *)

\* Every step of the application and of the library keeps the invariant.
LEMMA NextIInv ==
    ASSUME IInv, SettingExact, ScanWellformed, Next
    PROVE  IInv'
<1>1. /\ NewIds \subseteq Ids /\ HasIds \subseteq Ids
  BY InputAssumption
<1>2. CASE \E h, h2 \in Handles : IncrefHandle(h, h2)
  BY <1>2, IncrefHandleStep
<1>3. CASE \E h \in Handles : DecrefHandle(h)
  BY <1>3, DecrefHandleStep
<1>4. CASE \E h \in Handles : ForgetMeta(h)
  BY <1>4, ForgetMetaStep
<1>5. CASE \E h \in Handles, id \in Ids : Get(h, id)
  BY <1>5, GetStep
<1>6. CASE \E id \in HasIds : Has(id)
  BY <1>1, <1>6, HasStep
<1>7. CASE \E h \in Handles, mid \in MetaIds, id \in NewIds, d \in Dims :
              CreateFromId(h, mid, id, d)
  BY <1>1, <1>7, CreateFromIdStep
<1>8. CASE \E h \in Handles, id \in ScanIds : ScanJson(h, id)
  BY <1>8, ScanJsonStep
<1>9. CASE \E h, hm \in Handles, id \in NewIds, d \in Dims : Create(h, hm, id, d)
  BY <1>1, <1>9, CreateStep
<1>10. CASE \E h \in Handles : Freeze(h)
  BY <1>10, FreezeStep
<1>11. CASE \E h, h2 \in Handles, id \in NewIds : CopyNew(h, h2, id)
  BY <1>1, <1>11, CopyNewStep
<1>12. CASE \E h, h2 \in Handles, y \in Addr \ Free : CopyOnto(h, h2, y)
  BY <1>12, CopyOntoStep
<1>13. CASE \E h \in Handles, id \in NewIds : Snapshot(h, id)
  BY <1>1, <1>13, SnapshotStep
<1>14. CASE \E h \in Handles, p \in Addr : SetParent(h, p)
  BY <1>14, SetParentStep
<1>15. CASE Internal
  BY <1>15, FreeParentStep, FreeMemoryStep, FetchMetaStep, BuildNewStep,
     BuildFailsStep, BuildOnExistingStep, ReleaseMetaStep, FinishGetStep,
     FinishHasStep, FinishCreateStep, DropMetaStep, FinishSetParentStep
  DEF Internal
<1> QED BY <1>2, <1>3, <1>4, <1>5, <1>6, <1>7, <1>8, <1>9, <1>10, <1>11,
           <1>12, <1>13, <1>14, <1>15 DEF Next, Api

\* Until dlite_instance_set_parent() ends, nothing happens but frees, of other
\* instances than the two it works on.
LEMMA SettingStep ==
    ASSUME IInv, SettingExact, ParentsHeld, Next
    PROVE  SettingExact'
<1>1. CASE \E h \in Handles, p \in Addr : SetParent(h, p)
  <2>1. PICK h \in Handles, p \in Addr : SetParent(h, p)
    BY <1>1
  <2>2. loading = <<>> /\ lmeta = NULL /\ got = NULL /\ handle[h] \in Addr
    BY <2>1, Works DEF SetParent
  <2>3. \E g \in Handles : handle[g] = p
    BY <2>1 DEF SetParent, KnownParent, ParentsHeld
  <2>4. /\ replaced' = handle[h] /\ call'.op = "set_parent" /\ call'.to = p
        /\ ~frozen[handle[h]] /\ frozen[p]
        /\ UNCHANGED <<frozen, handle, loading, lmeta, got>>
    BY <2>1 DEF SetParent, NoCall
  <2> QED BY <2>2, <2>3, <2>4, NullAssumption DEF SettingExact
<1>2. CASE Api /\ ~\E h \in Handles, p \in Addr : SetParent(h, p)
  <2>1. CASE \/ \E h, h2 \in Handles : IncrefHandle(h, h2)
             \/ \E h \in Handles : DecrefHandle(h) \/ ForgetMeta(h) \/ Freeze(h)
             \/ \E h, hm \in Handles, id \in NewIds, d \in Dims : Create(h, hm, id, d)
             \/ \E h, h2 \in Handles, id \in NewIds : CopyNew(h, h2, id)
             \/ \E h, h2 \in Handles, y \in Addr \ Free : CopyOnto(h, h2, y)
             \/ \E h \in Handles, id \in NewIds : Snapshot(h, id)
    <3>1. UNCHANGED <<replaced, call>> /\ Idle
      BY <2>1 DEF IncrefHandle, DecrefHandle, ForgetMeta, Create, WorksOn, Freeze,
                  CopyNew, CopyOnto, Snapshot, heap
    <3> QED BY <3>1 DEF SettingExact, Idle, NoCall
  <2>2. CASE \/ \E h \in Handles, id \in Ids : Get(h, id)
             \/ \E id \in HasIds : Has(id)
             \/ \E h \in Handles, mid \in MetaIds, id \in NewIds, d \in Dims :
                    CreateFromId(h, mid, id, d)
             \/ \E h \in Handles, id \in ScanIds : ScanJson(h, id)
    <3>1. Idle /\ replaced' = replaced
      BY <2>2 DEF Get, Has, CreateFromId, ScanJson, BeginGet, heap
    <3>2. call'.op # "set_parent"
      BY <2>2 DEF Get, Has, CreateFromId, ScanJson, BeginGet, NoCall
    <3> QED BY <3>1, <3>2 DEF SettingExact, Idle, NoCall
  <2> QED BY <1>2, <2>1, <2>2 DEF Api
<1>3. CASE FreeParent
  BY <1>3 DEF FreeParent, calls, SettingExact
<1>4. CASE FreeMemory
  <2> DEFINE o == Head(freeing)
  <2>1. /\ UNCHANGED <<replaced, handle, calls>>
        /\ frozen' = [frozen EXCEPT ![o] = FALSE] /\ freeing # <<>>
    BY <1>4 DEF FreeMemory
  <2>2. CASE call.op = "set_parent"
    <3>1. /\ replaced \in Addr /\ call.to \in Addr /\ o \in Addr
          /\ replaced # o /\ call.to # o
      BY <2>1, <2>2, Setting
    <3>2. frozen'[replaced] = frozen[replaced] /\ frozen'[call.to] = frozen[call.to]
      BY <2>1, <3>1 DEF IInv, TypeOK
    <3> QED BY <2>1, <2>2, <3>2 DEF SettingExact, calls
  <2>3. CASE call.op # "set_parent"
    BY <2>1, <2>3 DEF SettingExact, calls
  <2> QED BY <2>2, <2>3
<1>5. CASE FinishSetParent
  BY <1>5 DEF FinishSetParent, SettingExact, NoCall
<1>6. CASE Internal /\ ~FreeParent /\ ~FreeMemory /\ ~FinishSetParent
  <2>1. /\ loading # <<>> \/ lmeta # NULL \/ got # NULL
        /\ call' = call \/ call' = NoCall \/ call'.op = "drop"
    BY <1>6
    DEF Internal, Loading, Building, Returned, FetchMeta, BuildNew, BuildFails,
        BuildOnExisting, ReleaseMeta, FinishGet, FinishHas, FinishCreate,
        DropMeta, calls, NoCall
  <2>2. replaced' = replaced
    BY <1>6
    DEF Internal, FetchMeta, BuildNew, BuildFails, BuildOnExisting, ReleaseMeta,
        FinishGet, FinishHas, FinishCreate, DropMeta, heap
  <2> QED BY <2>1, <2>2 DEF SettingExact, NoCall
<1> QED BY <1>1, <1>2, <1>3, <1>4, <1>5, <1>6 DEF Next

\* A step that changes nothing keeps it, too.
LEMMA StutterIInv ==
    ASSUME IInv, SettingExact, UNCHANGED vars
    PROVE  IInv' /\ SettingExact'
<1>1. /\ TypeOK /\ CallExact /\ LoadingExact
  BY DEF IInv
<1>2. UNCHANGED <<uuid, meta, parent, replaced, frozen, dims, refcount, istore,
                  hold, handle, call, loading, lmeta, got, freeing, borrowed, lost>>
  BY DEF vars, heap, calls
<1>3. RefcountExact' /\ AllocExact' /\ StoreExact' /\ FreeingExact'
  BY <1>2, SameOwners DEF heap
<1>4. TypeOK'
  BY <1>1, <1>2 DEF TypeOK
<1>5. CallExact' /\ LoadingExact'
  BY <1>1, <1>2 DEF CallExact, LoadingExact
<1>6. SettingExact'
  BY <1>2 DEF SettingExact
<1> QED BY <1>3, <1>4, <1>5, <1>6 DEF IInv

\* The invariant holds in every state of every behaviour, when the stored
\* json objects that dlite_json_scan() reads without an id can be read and the
\* application holds a reference to what it sets as parent.
THEOREM Invariance ==
    ASSUME ScanWellformed, ParentsHeld
    PROVE  Spec => [](IInv /\ SettingExact)
<1>1. Init => IInv /\ SettingExact
  BY InitIInv DEF Init, SettingExact, NoCall
<1>2. IInv /\ SettingExact /\ [Next]_vars => (IInv /\ SettingExact)'
  BY NextIInv, SettingStep, StutterIInv
<1> QED BY <1>1, <1>2, PTL DEF Spec

\* dlite_instance_incref() and dlite_instance_decref() are balanced along
\* every path of create, get, has, copy, snapshot, set_parent and free.
THEOREM RefcountsAreExact ==
    ASSUME ScanWellformed, ParentsHeld
    PROVE  Spec => [](TypeOK /\ RefcountExact)
<1>1. IInv /\ SettingExact => TypeOK /\ RefcountExact
  BY DEF IInv
<1> QED BY <1>1, Invariance, PTL

\* In particular no count of _refcount gets below zero, and what
\* dlite_instance_get(), create, copy and free leave behind is well-typed.
THEOREM TypeCorrect ==
    ASSUME ScanWellformed, ParentsHeld
    PROVE  Spec => []TypeOK
<1>1. TypeOK /\ RefcountExact => TypeOK
  OBVIOUS
<1> QED BY <1>1, RefcountsAreExact, PTL

\* No handle, `meta`, `_parent` or local variable of dlite-entity.c and
\* dlite-json.c points to freed memory, but the `_parent` that
\* dlite_instance_set_parent() is about to overwrite.
THEOREM NothingDangles ==
    ASSUME ScanWellformed, ParentsHeld
    PROVE  Spec => []NoDangling
<1>1. IInv /\ SettingExact => NoDangling
  BY Referenced
<1> QED BY <1>1, Invariance, PTL

\* _instance_store_get() finds exactly the live instances.
THEOREM StoreIsExact ==
    ASSUME ScanWellformed, ParentsHeld
    PROVE  Spec => []StoreExact
<1>1. IInv /\ SettingExact => StoreExact
  BY DEF IInv
<1> QED BY <1>1, Invariance, PTL

----------------------------------------------------------------------------
(* Chains of parents.                                                       *)

\* Following g from an element ends.
Ends(g) == \A S \in SUBSET Addr : S # {} => \E a \in S : g[a] \notin S

\* Nothing has the parent a.
NoChild(g, a) == \A b \in Addr : g[b] # a

\* References are taken away.
LEMMA EndsCut ==
    ASSUME NEW f, NEW g, Ends(f), \A b \in Addr : g[b] \in {f[b], NULL}
    PROVE  Ends(g)
<1> SUFFICES ASSUME NEW S \in SUBSET Addr, S # {} PROVE \E a \in S : g[a] \notin S
  BY DEF Ends
<1>1. PICK a \in S : f[a] \notin S
  BY DEF Ends
<1>2. NULL \notin S /\ g[a] \in {f[a], NULL}
  BY NullAssumption
<1> QED BY <1>1, <1>2

\* The parent of an instance without children is replaced.
LEMMA EndsLeaf ==
    ASSUME NEW f, NEW g, Ends(f), NEW a \in Addr, NoChild(f, a), g[a] # a,
           \A b \in Addr : b # a => g[b] = f[b]
    PROVE  Ends(g)
<1> SUFFICES ASSUME NEW S \in SUBSET Addr, S # {} PROVE \E b \in S : g[b] \notin S
  BY DEF Ends
<1>1. CASE S \subseteq {a}
  BY <1>1
<1>2. CASE ~(S \subseteq {a})
  <2>1. PICK b \in S \ {a} : f[b] \notin S \ {a}
    <3>1. S \ {a} \in SUBSET Addr /\ S \ {a} # {}
      BY <1>2
    <3> QED BY <3>1 DEF Ends
  <2>2. g[b] = f[b] /\ f[b] # a
    BY <2>1 DEF NoChild
  <2> QED BY <2>1, <2>2
<1> QED BY <1>1, <1>2

\* A new instance a comes between x and its parent.
LEMMA EndsBetween ==
    ASSUME NEW f, NEW g, Ends(f), NEW x \in Addr, NEW a \in Addr, a # x,
           NoChild(f, a), g[a] = f[x], g[x] = a,
           \A b \in Addr : b # a /\ b # x => g[b] = f[b]
    PROVE  Ends(g)
<1> SUFFICES ASSUME NEW S \in SUBSET Addr, S # {} PROVE \E b \in S : g[b] \notin S
  BY DEF Ends
<1>1. CASE S \subseteq {a}
  BY <1>1 DEF NoChild
<1>2. CASE ~(S \subseteq {a})
  <2>1. PICK b \in S \ {a} : f[b] \notin S \ {a}
    <3>1. S \ {a} \in SUBSET Addr /\ S \ {a} # {}
      BY <1>2
    <3> QED BY <3>1 DEF Ends
  <2>2. b \in S /\ f[b] \notin S
    BY <2>1 DEF NoChild
  <2>3. CASE b # x
    BY <2>1, <2>2, <2>3
  <2>4. CASE b = x /\ a \in S
    BY <2>2, <2>4
  <2>5. CASE b = x /\ a \notin S
    BY <2>2, <2>5
  <2> QED BY <2>3, <2>4, <2>5
<1> QED BY <1>1, <1>2

LEMMA AcyclicEnds == Acyclic <=> Ends(parent)
  BY DEF Acyclic, Ends

LEMMA AcyclicEndsNext == Acyclic' <=> Ends(parent')
  BY DEF Acyclic, Ends

----------------------------------------------------------------------------
(* The steps.                                                               *)

\* What a step keeps, with the parents of frozen instances
Sound == IInv /\ SettingExact /\ ParentFrozen /\ Acyclic

ParentsKept ==
    \A a \in Addr : frozen[a] /\ refcount[a] > 0 => parent'[a] = parent[a]

\* Only live instances are parents, and only allocated ones have parents.
LEMMA ParentLive ==
    ASSUME IInv
    PROVE  /\ parent \in [Addr -> Addr \cup {NULL}] /\ frozen \in [Addr -> BOOLEAN]
           /\ \A a \in Addr \ {replaced} : parent[a] # NULL => parent[a] \in Live
           /\ \A a \in Addr : replaced = NULL /\ ~(refcount[a] > 0)
                                 => NoChild(parent, a)
           /\ \A a \in Free : parent[a] = NULL /\ ~(refcount[a] > 0) /\ a \in Addr
<1>1. /\ parent \in [Addr -> Addr \cup {NULL}] /\ frozen \in [Addr -> BOOLEAN]
  BY DEF IInv, TypeOK
<1>2. \A a \in Addr \ {replaced} : parent[a] # NULL => parent[a] \in Live
  BY Referenced DEF NoDangling
<1>3. ASSUME NEW a \in Addr, replaced = NULL, ~(refcount[a] > 0)
      PROVE  NoChild(parent, a)
  BY <1>2, <1>3, NullAssumption DEF NoChild, Live
<1>4. \A a \in Free : parent[a] = NULL /\ ~(refcount[a] > 0) /\ a \in Addr
  BY DEF Free, IInv, AllocExact
<1> QED BY <1>1, <1>2, <1>3, <1>4

\* Most steps leave the transactions alone.
LEMMA SameParents ==
    ASSUME Sound, UNCHANGED <<parent, replaced, frozen>>
    PROVE  ParentFrozen' /\ Acyclic' /\ ParentsKept
  BY AcyclicEnds, AcyclicEndsNext DEF Sound, ParentFrozen, ParentsKept

LEMMA FreezeSound ==
    ASSUME Sound, NEW h \in Handles, Freeze(h)
    PROVE  ParentFrozen' /\ Acyclic' /\ ParentsKept
<1>1. /\ parent' = parent /\ replaced' = replaced
      /\ frozen' = [frozen EXCEPT ![handle[h]] = TRUE]
  BY DEF Freeze
<1>2. \A a \in Addr : frozen[a] => frozen'[a]
  BY <1>1, ParentLive DEF Sound
<1>3. ParentFrozen'
  BY <1>1, <1>2, ParentLive DEF Sound, ParentFrozen, Live
<1> QED BY <1>1, <1>3, AcyclicEnds, AcyclicEndsNext DEF Sound, ParentsKept

\* dlite_instance_free() cuts a chain only at its end: nothing that is freed has
\* children.
LEMMA FreeParentSound ==
    ASSUME Sound, FreeParent
    PROVE  ParentFrozen' /\ Acyclic' /\ ParentsKept
<1> DEFINE o == Head(freeing)
<1>1. /\ frozen' = frozen /\ replaced' = replaced
      /\ parent' = [parent EXCEPT ![o] = NULL]
  BY DEF FreeParent
<1>2. o \in Addr /\ refcount[o] = 0
  <2>1. freeing \in Seq(Addr) /\ freeing # <<>> /\ FreeingExact
    BY DEF FreeParent, Sound, IInv, TypeOK
  <2>2. o \in Addr /\ o = freeing[1] /\ 1 \in 1..Len(freeing)
    BY <2>1, Pop
  <2> QED BY <2>1, <2>2 DEF FreeingExact, Freeing
<1> HIDE DEF o
<1>3. \A b \in Addr : /\ parent'[b] \in {parent[b], NULL}
                      /\ b # o => parent'[b] = parent[b]
  BY <1>1, <1>2, ParentLive DEF Sound
<1>4. Ends(parent')
  BY <1>3, EndsCut, AcyclicEnds DEF Sound
<1>5. ParentFrozen'
  BY <1>1, <1>3 DEF Sound, ParentFrozen
<1>6. ParentsKept
  BY <1>2, <1>3 DEF ParentsKept
<1> QED BY <1>4, <1>5, <1>6, AcyclicEndsNext

LEMMA FreeMemorySound ==
    ASSUME Sound, FreeMemory
    PROVE  ParentFrozen' /\ Acyclic' /\ ParentsKept
<1> DEFINE o == Head(freeing)
<1>1. /\ frozen' = [frozen EXCEPT ![o] = FALSE] /\ parent' = parent
      /\ replaced' = replaced
  BY DEF FreeMemory
<1>2. o \in Addr /\ refcount[o] = 0
  <2>1. freeing \in Seq(Addr) /\ freeing # <<>> /\ FreeingExact
    BY DEF FreeMemory, Sound, IInv, TypeOK
  <2>2. o \in Addr /\ o = freeing[1] /\ 1 \in 1..Len(freeing)
    BY <2>1, Pop
  <2> QED BY <2>1, <2>2 DEF FreeingExact, Freeing
<1> HIDE DEF o
<1>3. \A a \in Addr \ {replaced} : parent[a] # o
  BY <1>2, NullAssumption, ParentLive DEF Sound, Live
<1>4. \A a \in Addr : a # o => frozen'[a] = frozen[a]
  BY <1>1, ParentLive DEF Sound
<1>5. ParentFrozen'
  <2>1. ASSUME NEW a \in Addr \ {replaced}, parent[a] # NULL
        PROVE  frozen'[parent[a]]
    <3>1. parent[a] \in Addr /\ parent[a] # o /\ frozen[parent[a]]
      BY <1>3, <2>1, ParentLive DEF Sound, ParentFrozen
    <3> QED BY <1>4, <3>1
  <2> QED BY <1>1, <2>1 DEF ParentFrozen
<1> QED BY <1>1, <1>5, AcyclicEnds, AcyclicEndsNext DEF Sound, ParentsKept

\* A copy has the parent of its original.
LEMMA CopyNewSound ==
    ASSUME Sound, NEW h \in Handles, NEW h2 \in Handles, NEW id \in NewIds,
           CopyNew(h, h2, id)
    PROVE  ParentFrozen' /\ Acyclic' /\ ParentsKept
<1> DEFINE x == handle[h]
<1>1. PICK a \in Free : parent' = [parent EXCEPT ![a] = parent[x]]
  BY DEF CopyNew
<1>2. frozen' = frozen /\ x \in Addr /\ replaced = NULL /\ replaced' = NULL
  BY Works DEF CopyNew, Sound
<1> HIDE DEF x
<1>3. a \in Addr /\ parent[a] = NULL /\ ~(refcount[a] > 0) /\ NoChild(parent, a)
  BY <1>2, ParentLive DEF Sound
<1>4. parent'[a] = parent[x] /\ \A b \in Addr : b # a => parent'[b] = parent[b]
  BY <1>1, <1>3, ParentLive DEF Sound
<1>5. Ends(parent')
  <2>1. parent'[a] # a
    BY <1>2, <1>3, <1>4 DEF NoChild
  <2> QED BY <1>3, <1>4, <2>1, EndsLeaf, AcyclicEnds DEF Sound
<1>6. ParentFrozen'
  BY <1>2, <1>3, <1>4, NullAssumption DEF Sound, ParentFrozen
<1>7. ParentsKept
  BY <1>3, <1>4 DEF ParentsKept
<1> QED BY <1>5, <1>6, <1>7, AcyclicEndsNext

\* A snapshot comes between the instance and its parent, and is immutable.
LEMMA SnapshotSound ==
    ASSUME Sound, NEW h \in Handles, NEW id \in NewIds, Snapshot(h, id)
    PROVE  ParentFrozen' /\ Acyclic' /\ ParentsKept
<1> DEFINE x == handle[h]
<1>1. PICK a \in Free : /\ parent' = [parent EXCEPT ![a] = parent[x], ![x] = a]
                        /\ frozen' = [frozen EXCEPT ![a] = TRUE]
  BY DEF Snapshot
<1>2. /\ ~frozen[x] /\ x \in Addr /\ x \in Live
      /\ replaced = NULL /\ replaced' = NULL
  BY Works DEF Snapshot, Sound
<1> HIDE DEF x
<1>3. a \in Addr /\ parent[a] = NULL /\ ~(refcount[a] > 0) /\ NoChild(parent, a)
      /\ a # x /\ a # NULL
  BY <1>2, NullAssumption, ParentLive DEF Sound, Live
<1>4. /\ parent'[a] = parent[x] /\ parent'[x] = a
      /\ \A b \in Addr : b # a /\ b # x => parent'[b] = parent[b]
  BY <1>1, <1>2, <1>3, ParentLive DEF Sound
<1>5. frozen'[a] /\ \A b \in Addr : frozen[b] => frozen'[b]
  BY <1>1, <1>3, ParentLive DEF Sound
<1>6. Ends(parent')
  BY <1>2, <1>3, <1>4, EndsBetween, AcyclicEnds DEF Sound
<1>7. ParentFrozen'
  <2>1. ASSUME NEW b \in Addr, parent'[b] # NULL PROVE frozen'[parent'[b]]
    <3>1. CASE b = x
      BY <1>4, <1>5, <3>1
    <3>2. CASE b # x
      <4>1. PICK c \in Addr : parent'[b] = parent[c]
        BY <1>2, <1>4, <3>2
      <4>2. frozen[parent[c]] /\ parent[c] \in Addr
        BY <1>2, <2>1, <4>1, NullAssumption, ParentLive DEF Sound, ParentFrozen
      <4> QED BY <1>5, <4>1, <4>2
    <3> QED BY <3>1, <3>2
  <2> QED BY <2>1 DEF ParentFrozen
<1>8. ParentsKept
  BY <1>2, <1>3, <1>4 DEF ParentsKept
<1> QED BY <1>6, <1>7, <1>8, AcyclicEndsNext

\* dlite_instance_set_parent() first gives back the old parent, ...
LEMMA SetParentSound ==
    ASSUME Sound, NEW h \in Handles, NEW p \in Addr, SetParent(h, p)
    PROVE  ParentFrozen' /\ Acyclic' /\ ParentsKept
<1>1. UNCHANGED <<parent, frozen>> /\ replaced = NULL
  BY Works DEF SetParent, Sound
<1>2. ParentFrozen'
  BY <1>1, NullAssumption DEF Sound, ParentFrozen
<1> QED BY <1>1, <1>2, AcyclicEnds, AcyclicEndsNext DEF Sound, ParentsKept

\* ... then assigns the new one.  It changes mutable instances only: they have
\* no children, and their new parent is another instance.
LEMMA FinishSetParentSound ==
    ASSUME Sound, FinishSetParent
    PROVE  ParentFrozen' /\ Acyclic' /\ ParentsKept
<1> DEFINE x == replaced
           p == call.to
<1>1. /\ parent' = [parent EXCEPT ![x] = p] /\ frozen' = frozen /\ replaced' = NULL
  BY DEF FinishSetParent
<1>2. x \in Addr /\ p \in Addr /\ ~frozen[x] /\ frozen[p]
  BY Setting DEF FinishSetParent, Sound
<1> HIDE DEF p
<1>3. parent'[x] = p /\ p # x /\ \A b \in Addr : b # x => parent'[b] = parent[b]
  BY <1>1, <1>2, ParentLive DEF Sound
<1>4. NoChild(parent, x)
  <2>1. parent[x] # x
    <3>1. {x} \in SUBSET Addr /\ {x} # {}
      BY <1>2
    <3> QED BY <3>1 DEF Sound, Acyclic
  <2>2. \A b \in Addr \ {x} : parent[b] # x
    BY <1>2, NullAssumption DEF Sound, ParentFrozen
  <2> QED BY <2>1, <2>2 DEF NoChild
<1>5. Ends(parent')
  BY <1>2, <1>3, <1>4, EndsLeaf, AcyclicEnds DEF Sound
<1>6. ParentFrozen'
  BY <1>1, <1>2, <1>3 DEF Sound, ParentFrozen
<1>7. ParentsKept
  BY <1>2, <1>3 DEF ParentsKept
<1> QED BY <1>5, <1>6, <1>7, AcyclicEndsNext

\* An id that is in use is not used again: nothing is copied onto an instance.
LEMMA NoCopyOnto ==
    ASSUME Sound, ~Reuse, NEW h \in Handles, NEW h2 \in Handles, NEW y \in Addr \ Free
    PROVE  ~CopyOnto(h, h2, y)
<1> SUFFICES ASSUME CopyOnto(h, h2, y) PROVE FALSE
  OBVIOUS
<1>1. freeing = <<>> /\ istore[uuid[y]] = NULL
  BY DEF CopyOnto, WorksOn, Idle, MayUse
<1>2. uuid[y] \in Ids /\ refcount[y] \in Nat /\ StoreExact /\ FreeingExact
  BY DEF Free, Sound, IInv, TypeOK
<1>3. uuid[y] # NULL /\ refcount[y] # 0
  BY <1>1, <1>2 DEF Free, FreeingExact, Freeing
<1>4. y \in Live
  BY <1>2, <1>3 DEF Live
<1>5. istore[uuid[y]] = y
  BY <1>2, <1>4 DEF StoreExact
<1> QED BY <1>1, <1>5, NullAssumption

\* Every step keeps the transactions sound, and the parents of what is frozen.
LEMMA NextSound ==
    ASSUME Sound, ~Reuse, Next
    PROVE  ParentFrozen' /\ Acyclic' /\ ParentsKept
<1>1. CASE FreeParent
  BY <1>1, FreeParentSound
<1>2. CASE FreeMemory
  BY <1>2, FreeMemorySound
<1>3. CASE Internal /\ ~FreeParent /\ ~FreeMemory /\ ~FinishSetParent
  <2>1. UNCHANGED <<parent, replaced, frozen>>
    BY <1>3 DEF Internal, FetchMeta, BuildNew, BuildFails, BuildOnExisting, ReleaseMeta,
                FinishGet, FinishHas, FinishCreate, DropMeta, heap
  <2> QED BY <2>1, SameParents
<1>4. CASE \/ \E h, h2 \in Handles : IncrefHandle(h, h2)
           \/ \E h \in Handles : DecrefHandle(h)
           \/ \E h \in Handles : ForgetMeta(h)
           \/ \E h \in Handles, id \in Ids : Get(h, id)
           \/ \E id \in HasIds : Has(id)
           \/ \E h \in Handles, mid \in MetaIds, id \in NewIds, d \in Dims :
                 CreateFromId(h, mid, id, d)
           \/ \E h \in Handles, id \in ScanIds : ScanJson(h, id)
           \/ \E h, hm \in Handles, id \in NewIds, d \in Dims : Create(h, hm, id, d)
  <2>1. UNCHANGED <<parent, replaced, frozen>>
    BY <1>4 DEF IncrefHandle, DecrefHandle, ForgetMeta, Get, Has, CreateFromId, BeginGet,
                ScanJson, Create, heap
  <2> QED BY <2>1, SameParents
<1>5. CASE \E h \in Handles : Freeze(h)
  BY <1>5, FreezeSound
<1>6. CASE \E h, h2 \in Handles, id \in NewIds : CopyNew(h, h2, id)
  BY <1>6, CopyNewSound
<1>7. CASE \E h, h2 \in Handles, y \in Addr \ Free : CopyOnto(h, h2, y)
  BY <1>7, NoCopyOnto
<1>8. CASE \E h \in Handles, id \in NewIds : Snapshot(h, id)
  BY <1>8, SnapshotSound
<1>9. CASE \E h \in Handles, p \in Addr : SetParent(h, p)
  BY <1>9, SetParentSound
<1>10. CASE FinishSetParent
  BY <1>10, FinishSetParentSound
<1> QED BY <1>1, <1>2, <1>3, <1>4, <1>5, <1>6, <1>7, <1>8, <1>9, <1>10
        DEF Next, Api

LEMMA StepSound ==
    ASSUME Sound, ~Reuse, [Next]_vars
    PROVE  ParentFrozen' /\ Acyclic' /\ ParentsKept
<1>1. CASE Next
  BY <1>1, NextSound
<1>2. CASE UNCHANGED vars
  <2>1. UNCHANGED <<parent, replaced, frozen>>
    BY <1>2 DEF vars, heap
  <2> QED BY <2>1, SameParents
<1> QED BY <1>1, <1>2

LEMMA InitSound == Init => ParentFrozen /\ Acyclic
<1> SUFFICES ASSUME Init PROVE ParentFrozen /\ Acyclic
  OBVIOUS
<1>1. \A a \in Addr : parent[a] = NULL
  BY DEF Init
<1> QED BY <1>1, NullAssumption DEF ParentFrozen, Acyclic

----------------------------------------------------------------------------
(* The theorems about transactions.                                         *)

\* The invariant of transactions.
LEMMA SoundInvariance ==
    ASSUME ScanWellformed, ParentsHeld, ~Reuse
    PROVE  Spec => []Sound
<1>1. Init => Sound
  BY InitIInv, InitSound DEF Sound, Init, SettingExact, NoCall
<1>2. Sound /\ [Next]_vars => Sound'
  BY StepSound, NextIInv, SettingStep, StutterIInv DEF Sound
<1> QED BY <1>1, <1>2, PTL DEF Spec

\* Only immutable instances are parents, and following the parents ends at a
\* root: dlite_instance_copy(), dlite_instance_snapshot() and
\* dlite_instance_set_parent() never close a chain, so the recursions of
\* dlite_instance_verify_hash() and dlite_instance_push_snapshot() end.
THEOREM TransactionsAreSound ==
    ASSUME ScanWellformed, ParentsHeld, ~Reuse
    PROVE  Spec => []TransactionsSound
<1>1. Sound => TransactionsSound
  BY DEF Sound, TransactionsSound
<1> QED BY <1>1, SoundInvariance, PTL

\* An immutable instance keeps its parent until it is freed.
THEOREM FrozenInstancesKeepParents ==
    ASSUME ScanWellformed, ParentsHeld, ~Reuse
    PROVE  Spec => FrozenKeepsParent
<1>1. Sound /\ [Next]_vars =>
        [\A a \in Addr : frozen[a] /\ refcount[a] > 0 => parent'[a] = parent[a]]_vars
  BY StepSound DEF ParentsKept
<1> QED BY <1>1, SoundInvariance, PTL DEF Spec, FrozenKeepsParent

----------------------------------------------------------------------------
(* The store keeps its references.                                          *)

\* _instance_create() adds to what the store holds.
LEMMA CreateHolds ==
    ASSUME NEW h, NEW m, NEW id, NEW d, CreateWith(h, m, id, d)
    PROVE  hold \subseteq hold'
  BY DEF CreateWith, NewInstance

\* A step of the application takes no reference from the store but the one it
\* drops itself.
LEMMA ApiHolds ==
    ASSUME Api
    PROVE  \A a \in hold : a \in hold' \/ uuid[a] \in ForgetIds
<1>1. CASE \E h \in Handles : ForgetMeta(h)
  BY <1>1 DEF ForgetMeta
<1>2. CASE \/ \E h, h2 \in Handles : IncrefHandle(h, h2)
           \/ \E h \in Handles : DecrefHandle(h)
           \/ \E h \in Handles, id \in Ids : Get(h, id)
           \/ \E id \in HasIds : Has(id)
           \/ \E h \in Handles, mid \in MetaIds, id \in NewIds, d \in Dims :
                 CreateFromId(h, mid, id, d)
           \/ \E h \in Handles, id \in ScanIds : ScanJson(h, id)
           \/ \E h \in Handles : Freeze(h)
           \/ \E h, h2 \in Handles, y \in Addr \ Free : CopyOnto(h, h2, y)
           \/ \E h \in Handles, p \in Addr : SetParent(h, p)
  <2>1. hold' = hold
    BY <1>2 DEF IncrefHandle, DecrefHandle, Get, Has, CreateFromId, BeginGet,
                ScanJson, Freeze, CopyOnto, SetParent
  <2> QED BY <2>1
<1>3. CASE \/ \E h, hm \in Handles, id \in NewIds, d \in Dims : Create(h, hm, id, d)
           \/ \E h, h2 \in Handles, id \in NewIds : CopyNew(h, h2, id)
           \/ \E h \in Handles, id \in NewIds : Snapshot(h, id)
  <2>2. CASE \E h, hm \in Handles, id \in NewIds, d \in Dims : Create(h, hm, id, d)
    BY <2>2, CreateHolds DEF Create
  <2>3. CASE \E h, h2 \in Handles, id \in NewIds : CopyNew(h, h2, id)
    BY <2>3 DEF CopyNew, NewInstance
  <2>4. CASE \E h \in Handles, id \in NewIds : Snapshot(h, id)
    BY <2>4 DEF Snapshot, NewInstance
  <2> QED BY <1>3, <2>2, <2>3, <2>4
<1> QED BY <1>1, <1>2, <1>3 DEF Api

\* The library itself takes none: a stored instance that cannot be read is not
\* read into an instance that exists.
LEMMA InternalHolds ==
    ASSUME IInv, Internal
    PROVE  hold \subseteq hold'
<1>1. CASE BuildOnExisting
  <2> DEFINE id == Head(loading)
  <2>1. loading \in Seq(Ids) /\ loading # <<>> /\ LoadingExact
    BY <1>1 DEF BuildOnExisting, Building, Loading, IInv, TypeOK
  <2>2. id = loading[1] /\ 1 \in 1..Len(loading)
    BY <2>1, Pop
  <2>3. istore[id] # NULL
    BY <1>1 DEF BuildOnExisting
  <2>4. Stored[id].wellformed
    BY <2>1, <2>2, <2>3 DEF LoadingExact
  <2>5. hold' = hold
    BY <1>1, <2>4 DEF BuildOnExisting
  <2> QED BY <2>5
<1>2. CASE (\E a \in Free : BuildNew(a)) \/ FinishCreate
  BY <1>2, CreateHolds DEF BuildNew, FinishCreate, NewInstance
<1>3. CASE FreeParent \/ FreeMemory \/ FetchMeta \/ BuildFails \/ ReleaseMeta
           \/ FinishGet \/ FinishHas \/ DropMeta \/ FinishSetParent
  BY <1>3 DEF FreeParent, FreeMemory, FetchMeta, BuildFails, ReleaseMeta,
              FinishGet, FinishHas, DropMeta, FinishSetParent
<1> QED BY <1>1, <1>2, <1>3 DEF Internal

\* Metadata stays in the instance store until the application decreases the
\* reference count held by the store: creating, loading, failing to load and
\* freeing never take that reference from the store.
THEOREM MetadataPersists ==
    ASSUME ScanWellformed, ParentsHeld
    PROVE  Spec => MetadataPersistent
<1>1. IInv /\ [Next]_vars =>
        [\A a \in hold :
            a \in hold' \/ uuid[a] \in ForgetIds \/ refcount[a] = 1]_vars
  BY ApiHolds, InternalHolds DEF Next
<1> QED BY <1>1, Invariance, PTL DEF Spec, MetadataPersistent

----------------------------------------------------------------------------
(* What dlite_instance_has() returns.                                       *)

\* The static schemas keep their ids.
SchemaNamed == uuid[Basic] = BasicId /\ uuid[Entity] = EntityId

\* The instances asked for with dlite_instance_has() are stored as metadata.
HasMetadata ==
    \A id \in HasIds :
       id \in DOMAIN Stored => Stored[id].meta \in {BasicId, EntityId}

\* dlite_instance_has() while it loads id, ...
HasLoads ==
    \E id \in HasIds :
       /\ loading = <<id>> /\ id \in DOMAIN Stored /\ istore[id] = NULL
       /\ lmeta \in Schema \cup {NULL}

\* ... and when the recursion is over: the instance it got has another owner.
HasEnds ==
    loading = <<>> /\ (got # NULL => refcount[got] > 1)

\* A borrowed reference is there between two calls only, and to an instance
\* that somebody owns.
BorrowInv ==
    /\ SchemaNamed
    /\ call.op = "has" => freeing = <<>> /\ (HasLoads \/ HasEnds)
    /\ borrowed # NULL => Idle /\ borrowed \in Live

\* No step of the library is taken between two calls.
LEMMA IdleRests ==
    ASSUME IInv, Internal
    PROVE  ~Idle
<1> SUFFICES ASSUME Idle PROVE FALSE
  OBVIOUS
<1>1. loading = <<>> /\ lmeta = NULL /\ got = NULL /\ freeing = <<>> /\ call = NoCall
  BY DEF Idle, IInv, CallExact
<1> QED BY <1>1 DEF Internal, FreeParent, FreeMemory, FetchMeta, BuildNew, BuildFails,
           BuildOnExisting, ReleaseMeta, FinishGet, FinishHas, FinishCreate, DropMeta,
           FinishSetParent, Building, Loading, Returned, NoCall

\* A call of the application gives up what was borrowed.
LEMMA ApiBorrows ==
    ASSUME Api
    PROVE  Idle /\ borrowed' = NULL
  BY DEF Api, IncrefHandle, DecrefHandle, ForgetMeta, Get, Has, CreateFromId, BeginGet,
         ScanJson, Create, Freeze, CopyOnto, SetParent, CopyNew, Snapshot, WorksOn

\* Schemas are not freed and their addresses not used again.
LEMMA SchemasNamed ==
    ASSUME IInv, SchemaNamed, Next
    PROVE  SchemaNamed'
<1>1. Basic \in Live /\ Entity \in Live /\ Basic \in Addr /\ Entity \in Addr
      /\ uuid \in [Addr -> Ids \cup {NULL}]
  BY Referenced, SchemaAssumption DEF Schema, IInv, TypeOK
<1>2. ASSUME NEW a \in Free, NEW id, uuid' = [uuid EXCEPT ![a] = id]
      PROVE  SchemaNamed'
  BY <1>1, <1>2 DEF Live, Free, SchemaNamed
<1>3. CASE FreeMemory
  <2>1. freeing \in Seq(Addr) /\ freeing # <<>> /\ FreeingExact
    BY <1>3 DEF FreeMemory, IInv, TypeOK
  <2>2. Head(freeing) \in Addr /\ refcount[Head(freeing)] = 0
    BY <2>1, Pop DEF FreeingExact, Freeing
  <2>3. Head(freeing) # Basic /\ Head(freeing) # Entity
    BY <1>1, <2>2 DEF Live
  <2>4. uuid' = [uuid EXCEPT ![Head(freeing)] = NULL]
    BY <1>3 DEF FreeMemory
  <2> QED BY <1>1, <2>2, <2>3, <2>4 DEF SchemaNamed
<1>4. CASE \E a \in Free : BuildNew(a)
  BY <1>2, <1>4 DEF BuildNew, NewInstance
<1>5. ASSUME NEW h, NEW m, NEW id, NEW d, CreateWith(h, m, id, d)
      PROVE  SchemaNamed'
  <2>1. CASE uuid' = uuid
    BY <2>1 DEF SchemaNamed
  <2>2. CASE \E a \in Free : uuid' = [uuid EXCEPT ![a] = id]
    BY <1>2, <2>2
  <2> QED BY <1>5, <2>1, <2>2 DEF CreateWith, NewInstance
<1>6. CASE \/ \E h, h2 \in Handles, id \in NewIds : CopyNew(h, h2, id)
           \/ \E h \in Handles, id \in NewIds : Snapshot(h, id)
  <2>1. \E a \in Free, id \in NewIds : uuid' = [uuid EXCEPT ![a] = id]
    BY <1>6 DEF CopyNew, Snapshot, NewInstance
  <2> QED BY <1>2, <2>1
<1>7. CASE FinishCreate \/ \E h, hm \in Handles, id \in NewIds, d \in Dims :
                                Create(h, hm, id, d)
  BY <1>5, <1>7 DEF FinishCreate, Create
<1>8. CASE UNCHANGED uuid
  BY <1>8 DEF SchemaNamed
<1>9. CASE Internal
  <2>1. CASE FreeParent \/ FetchMeta \/ BuildFails \/ BuildOnExisting \/ ReleaseMeta
             \/ FinishGet \/ FinishHas \/ DropMeta \/ FinishSetParent
    BY <1>8, <2>1 DEF FreeParent, FetchMeta, BuildFails, BuildOnExisting, ReleaseMeta,
                      FinishGet, FinishHas, DropMeta, FinishSetParent, heap
  <2> QED BY <1>3, <1>4, <1>7, <1>9, <2>1 DEF Internal
<1>10. CASE Api
  <2>1. CASE \/ \E h, h2 \in Handles : IncrefHandle(h, h2)
             \/ \E h \in Handles : DecrefHandle(h)
             \/ \E h \in Handles : ForgetMeta(h)
             \/ \E h \in Handles, id \in Ids : Get(h, id)
             \/ \E id \in HasIds : Has(id)
             \/ \E h \in Handles, mid \in MetaIds, id \in NewIds, d \in Dims :
                   CreateFromId(h, mid, id, d)
             \/ \E h \in Handles, id \in ScanIds : ScanJson(h, id)
             \/ \E h \in Handles : Freeze(h)
             \/ \E h, h2 \in Handles, y \in Addr \ Free : CopyOnto(h, h2, y)
             \/ \E h \in Handles, p \in Addr : SetParent(h, p)
    <3>1. UNCHANGED uuid
      BY <2>1 DEF IncrefHandle, DecrefHandle, ForgetMeta, Get, Has, CreateFromId,
                  BeginGet, ScanJson, Freeze, CopyOnto, SetParent, heap
    <3> QED BY <1>8, <3>1
  <2> QED BY <1>6, <1>7, <1>10, <2>1 DEF Api
<1> QED BY <1>9, <1>10 DEF Next

\* The store finds the schemas.
LEMMA SchemasFound ==
    ASSUME IInv, SchemaNamed
    PROVE  istore[BasicId] = Basic /\ istore[EntityId] = Entity
<1>1. Basic \in Live /\ Entity \in Live /\ Basic \in Addr /\ Entity \in Addr
      /\ BasicId \in Ids /\ EntityId \in Ids
  BY Referenced, SchemaAssumption DEF Schema
<1> QED BY <1>1 DEF IInv, StoreExact, SchemaNamed

\* dlite_instance_has() starts to load.
LEMMA HasBegins ==
    ASSUME IInv, Api
    PROVE  call'.op = "has" => freeing' = <<>> /\ HasLoads'
<1>1. CASE \E id \in HasIds : Has(id)
  <2>1. PICK id \in HasIds : Has(id)
    BY <1>1
  <2>2. /\ istore[id] = NULL /\ istore' = istore /\ lmeta' = lmeta
        /\ id \in DOMAIN Stored /\ loading' = <<id>>
        /\ freeing = <<>> /\ freeing' = freeing /\ call = NoCall
    BY <2>1 DEF Has, BeginGet, Idle
  <2>3. lmeta' = NULL
    BY <2>2 DEF IInv, CallExact
  <2> QED BY <2>2, <2>3 DEF HasLoads
<1>2. CASE call'.op # "has"
  BY <1>2
<1>3. CASE ~(\E id \in HasIds : Has(id))
  <2>1. CASE \/ \E h \in Handles, id \in Ids : Get(h, id)
             \/ \E h \in Handles, id \in ScanIds : ScanJson(h, id)
    <3>1. \E h \in Handles : call' = [NoCall EXCEPT !.op = "get", !.h = h]
      BY <2>1 DEF Get, BeginGet, ScanJson
    <3> QED BY <1>2, <3>1 DEF NoCall
  <2>2. CASE \E h \in Handles, mid \in MetaIds, id \in NewIds, d \in Dims :
                CreateFromId(h, mid, id, d)
    <3>1. PICK h \in Handles, mid \in MetaIds, id \in NewIds, d \in Dims :
             CreateFromId(h, mid, id, d)
      BY <2>2
    <3>2. call' = [NoCall EXCEPT !.op = "create", !.h = h, !.id = id, !.dims = d]
      BY <3>1 DEF CreateFromId, BeginGet
    <3> QED BY <1>2, <3>2 DEF NoCall
  <2>3. CASE \/ \E h, h2 \in Handles : IncrefHandle(h, h2)
             \/ \E h \in Handles : DecrefHandle(h)
             \/ \E h \in Handles : ForgetMeta(h)
             \/ \E h \in Handles : Freeze(h)
             \/ \E h, h2 \in Handles, id \in NewIds : CopyNew(h, h2, id)
             \/ \E h, h2 \in Handles, y \in Addr \ Free : CopyOnto(h, h2, y)
             \/ \E h \in Handles, id \in NewIds : Snapshot(h, id)
             \/ \E h, hm \in Handles, id \in NewIds, d \in Dims : Create(h, hm, id, d)
    <3>1. call' = call
      BY <2>3 DEF IncrefHandle, DecrefHandle, ForgetMeta, Freeze, CopyNew, CopyOnto,
                  Snapshot, Create
    <3>2. call = NoCall
      BY ApiBorrows DEF Idle
    <3> QED BY <1>2, <3>1, <3>2 DEF NoCall
  <2>4. CASE \E h \in Handles, p \in Addr : SetParent(h, p)
    <3>1. \E p : call' = [NoCall EXCEPT !.op = "set_parent", !.to = p]
      BY <2>4 DEF SetParent
    <3> QED BY <1>2, <3>1 DEF NoCall
  <2> QED BY <1>3, <2>1, <2>2, <2>3, <2>4 DEF Api
<1> QED BY <1>1, <1>3

\* The metadata is one of the schemas, which are in the store.
LEMMA HasFetches ==
    ASSUME IInv, BorrowInv, HasMetadata, call.op = "has", FetchMeta
    PROVE  freeing' = <<>> /\ HasLoads'
<1>1. PICK id \in HasIds : /\ loading = <<id>> /\ id \in DOMAIN Stored
                           /\ istore[id] = NULL
  BY DEF BorrowInv, HasLoads, HasEnds, FetchMeta, Loading
<1>2. Stored[id].meta \in {BasicId, EntityId} /\ Head(loading) = id
  BY <1>1 DEF HasMetadata
<1>3. istore[Stored[id].meta] \in Schema /\ istore[Stored[id].meta] # NULL
  BY <1>2, SchemasFound, NullAssumption, SchemaAssumption DEF BorrowInv, Schema
<1>4. /\ lmeta' = istore[Stored[id].meta] /\ loading' = loading
      /\ istore' = istore /\ freeing' = freeing
  BY <1>2, <1>3 DEF FetchMeta
<1> QED BY <1>1, <1>3, <1>4 DEF HasLoads, FetchMeta, Loading

\* The new metadata gets two references, one of them for the store.
LEMMA HasBuilds ==
    ASSUME IInv, BorrowInv, call.op = "has", NEW a \in Free, BuildNew(a)
    PROVE  freeing' = <<>> /\ HasEnds'
<1>1. PICK id \in HasIds : loading = <<id>> /\ lmeta \in Schema \cup {NULL}
  BY DEF BorrowInv, HasLoads, HasEnds, BuildNew, Building, Loading
<1>2. lmeta \in Schema /\ meta[lmeta] = Basic
  BY <1>1 DEF BuildNew, Building, IInv, AllocExact
<1>3. FirstRefs(lmeta) = 2
  BY <1>2 DEF FirstRefs, IsMetaMeta
<1>4. loading' = <<>> /\ got' = a
  BY <1>1 DEF BuildNew, Return
<1>5. a \in Addr /\ refcount \in [Addr -> Nat]
  BY DEF Free, IInv, TypeOK
<1>6. refcount'[a] = 2
  BY <1>3, <1>5 DEF BuildNew
<1>7. freeing' = <<>>
  BY DEF BuildNew, Building, Loading
<1> QED BY <1>4, <1>6, <1>7 DEF HasEnds

\* The reference that is given back is not the last one.
LEMMA HasReturns ==
    ASSUME IInv, BorrowInv, FinishHas
    PROVE  /\ call' = NoCall /\ Idle'
           /\ borrowed' \in Live'
<1>1. got \in Live /\ got \in Addr /\ refcount \in [Addr -> Nat]
      /\ uuid' = uuid /\ call' = NoCall /\ borrowed' = got /\ freeing = <<>>
      /\ Release(refcount, got, freeing) /\ call.op = "has" /\ loading = <<>>
      /\ got # NULL
  BY Referenced DEF FinishHas, Returned, NoDangling, Live, Decref, heap, IInv, TypeOK
<1>2. refcount[got] > 1 /\ refcount[got] # 1
  <2>1. HasEnds
    BY <1>1 DEF BorrowInv, HasLoads
  <2> QED BY <1>1, <2>1 DEF HasEnds
<1>3. refcount' = [refcount EXCEPT ![got] = @ - 1] /\ freeing' = <<>>
  BY <1>1, <1>2 DEF Release
<1>4. refcount'[got] > 0
  BY <1>1, <1>2, <1>3
<1> QED BY <1>1, <1>3, <1>4 DEF Idle, Live

\* The other steps of a call.
LEMMA InternalBorrows ==
    ASSUME IInv, BorrowInv, HasMetadata, Internal
    PROVE  /\ call'.op = "has" => freeing' = <<>> /\ (HasLoads' \/ HasEnds')
           /\ borrowed' # NULL => Idle' /\ borrowed' \in Live'
<1>1. borrowed = NULL
  BY IdleRests DEF BorrowInv
<1>2. CASE FinishHas
  BY <1>2, HasReturns DEF NoCall
<1>3. CASE call.op # "has"
  <2>1. ~FinishHas
    BY <1>3 DEF FinishHas, Returned
  <2>2. borrowed' = borrowed /\ (call' = call \/ call' = NoCall \/ call'.op = "drop")
    BY <2>1 DEF Internal, FreeParent, FreeMemory, FetchMeta, BuildNew, BuildFails,
       BuildOnExisting, ReleaseMeta, FinishGet, FinishCreate, DropMeta,
       FinishSetParent, calls, NoCall
  <2> QED BY <1>1, <1>3, <2>2 DEF NoCall
<1>4. CASE call.op = "has" /\ ~FinishHas
  <2>1. freeing = <<>> /\ (HasLoads \/ HasEnds)
    BY <1>4 DEF BorrowInv
  <2>2. CASE FetchMeta
    <3>1. borrowed' = borrowed
      BY <2>2 DEF FetchMeta
    <3> QED BY <1>1, <1>4, <2>2, <3>1, HasFetches
  <2>3. CASE \E a \in Free : BuildNew(a)
    <3>1. borrowed' = borrowed
      BY <2>3 DEF BuildNew
    <3> QED BY <1>1, <1>4, <2>3, <3>1, HasBuilds
  <2>4. CASE BuildFails
    <3>1. /\ borrowed' = borrowed /\ loading' = <<>> /\ freeing' = freeing
          /\ got' = got /\ got = NULL
      BY <2>4 DEF BuildFails, Building, Loading, IInv, CallExact
    <3> QED BY <1>1, <2>1, <3>1 DEF HasEnds
  <2>5. CASE ReleaseMeta
    BY <1>1, <2>5 DEF ReleaseMeta, NoCall
  <2>6. ~BuildOnExisting
    BY <2>1 DEF BuildOnExisting, Building, Loading, HasLoads, HasEnds
  <2>7. /\ ~FreeParent /\ ~FreeMemory /\ ~FinishGet /\ ~FinishCreate /\ ~DropMeta
        /\ ~FinishSetParent
    BY <1>4, <2>1 DEF FreeParent, FreeMemory, FinishGet, FinishCreate, DropMeta,
                      FinishSetParent, Returned
  <2> QED BY <1>4, <2>2, <2>3, <2>4, <2>5, <2>6, <2>7 DEF Internal
<1> QED BY <1>2, <1>3, <1>4

LEMMA BorrowStep ==
    ASSUME IInv, BorrowInv, HasMetadata, [Next]_vars
    PROVE  BorrowInv'
<1>1. CASE Api
  BY <1>1, ApiBorrows, HasBegins, SchemasNamed DEF BorrowInv, Next
<1>2. CASE Internal
  BY <1>2, InternalBorrows, SchemasNamed DEF BorrowInv, Next
<1>3. CASE UNCHANGED vars
  BY <1>3 DEF BorrowInv, SchemaNamed, HasLoads, HasEnds, Idle, Live, vars, heap, calls
<1> QED BY <1>1, <1>2, <1>3 DEF Next

LEMMA InitBorrow == Init => BorrowInv
  BY SchemaAssumption DEF Init, BorrowInv, SchemaNamed, NoCall, Schema

\* dlite_instance_has() gives back the reference it got before it returns the
\* pointer.  When it is asked for metadata the pointer is valid all the same:
\* _instance_create() gave the store a reference of its own.
THEOREM BorrowedAreValid ==
    ASSUME ScanWellformed, ParentsHeld, HasMetadata
    PROVE  Spec => []BorrowedValid
<1>1. Init => BorrowInv
  BY InitBorrow
<1>2. IInv /\ SettingExact /\ BorrowInv /\ [Next]_vars => BorrowInv'
  BY BorrowStep
<1>3. BorrowInv => BorrowedValid
  BY DEF BorrowInv, BorrowedValid
<1> QED BY <1>1, <1>2, <1>3, Invariance, PTL DEF Spec
=============================================================================
