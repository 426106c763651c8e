---------------------------- MODULE PluginsProofs ----------------------------
(* Machine-checked proofs about Plugins: libraries are counted and open as   *)
(* long as an API of theirs is registered, lookups find what the search path *)
(* offers, and plugin_load_all() is complete and ends, for any libraries     *)
(* with any lists of APIs on any search path.                                *)
EXTENDS Plugins, FiniteSetTheorems, WellFoundedInduction, TLAPS

----------------------------------------------------------------------------
(* Induction and loops.                                                     *)

\* Induction over the natural numbers, for a set of them.
LEMMA SetInduction ==
    ASSUME NEW T, 0 \in T, \A n \in Nat : n \in T => n + 1 \in T
    PROVE  Nat \subseteq T
<1> SUFFICES ASSUME Nat \ T # {} PROVE FALSE
  OBVIOUS
<1>1. PICK m \in Nat \ T : \A n \in Nat \ T : <<n, m>> \notin OpToRel(<, Nat)
  BY NatLessThanWellFounded, WFMin
<1>2. m # 0 /\ m - 1 \in Nat /\ m \in Nat
  OBVIOUS
<1>3. m - 1 \in T
  <2>1. <<m - 1, m>> \in OpToRel(<, Nat)
    BY <1>2 DEF OpToRel
  <2> QED BY <1>1, <1>2, <2>1
<1> QED BY <1>2, <1>3

\* The least element.
LEMMA MinIn ==
    ASSUME NEW S, S \subseteq Nat, S # {}
    PROVE  Min(S) \in S /\ \A n \in S : Min(S) <= n
<1>1. PICK m \in S : \A n \in S : <<n, m>> \notin OpToRel(<, Nat)
  BY NatLessThanWellFounded, WFMin
<1>2. ASSUME NEW n \in S PROVE m <= n
  <2>1. n \in Nat /\ m \in Nat
    OBVIOUS
  <2>2. ~(n < m)
    BY <1>1, <2>1 DEF OpToRel
  <2> QED BY <2>1, <2>2
<1>3. \E x \in S : \A y \in S : x <= y
  BY <1>2
<1> QED BY <1>3 DEF Min

\* The calls of the function of a library, one after the other
LEMMA OfferSteps ==
    ASSUME NEW acc, NEW name, NEW l, Len(Apis[l]) \in Nat
    PROVE  \E f : /\ OfferAll(acc, name, l) = f[Len(Apis[l])]
                  /\ f[0] = acc
                  /\ \A k \in 1..Len(Apis[l]) : f[k] = Offer(f[k - 1], Apis[l][k], name, l)
<1> DEFINE L == Len(Apis[l])
           Loop(e, k) == e = [n \in 0..k |-> IF n = 0 THEN acc
                                            ELSE Offer(e[n - 1], Apis[l][n], name, l)]
           T == {k \in Nat : \E e : Loop(e, k)}
<1>1. 0 \in T
  <2> DEFINE g == [n \in 0..0 |-> acc]
  <2>1. Loop(g, 0)
    OBVIOUS
  <2> QED BY <2>1
<1>2. ASSUME NEW k \in Nat, k \in T PROVE k + 1 \in T
  <2>1. PICK u : Loop(u, k)
    BY <1>2
  <2> DEFINE g == [n \in 0..(k + 1) |-> IF n <= k THEN u[n]
                                        ELSE Offer(u[k], Apis[l][k + 1], name, l)]
  <2>2. ASSUME NEW n \in 0..(k + 1)
        PROVE  g[n] = IF n = 0 THEN acc ELSE Offer(g[n - 1], Apis[l][n], name, l)
    <3>1. CASE n = 0
      BY <2>1, <3>1
    <3>2. CASE n # 0 /\ n <= k
      <4>1. g[n] = u[n] /\ g[n - 1] = u[n - 1]
        BY <3>2
      <4>2. u[n] = Offer(u[n - 1], Apis[l][n], name, l)
        BY <2>1, <3>2
      <4> QED BY <3>2, <4>1, <4>2
    <3>3. CASE n = k + 1
      BY <3>3
    <3> QED BY <3>1, <3>2, <3>3
  <2>3. Loop(g, k + 1)
    BY <2>2
  <2> HIDE DEF g, Loop
  <2>4. \E e : Loop(e, k + 1)
    BY <2>3
  <2> QED BY <2>4
<1>3. \E e : Loop(e, L)
  <2> HIDE DEF T
  <2>1. L \in T
    BY <1>1, <1>2, SetInduction
  <2> QED BY <2>1 DEF T
<1> DEFINE h == CHOOSE u : Loop(u, L)
<1>4. Loop(h, L)
  <2> HIDE DEF Loop
  <2> QED BY <1>3
<1>5. OfferAll(acc, name, l) = h[L]
  BY DEF OfferAll
<1> HIDE DEF h
<1>6. h[0] = acc /\ \A k \in 1..L : h[k] = Offer(h[k - 1], Apis[l][k], name, l)
  <2>1. \A n \in 0..L : h[n] = IF n = 0 THEN acc ELSE Offer(h[n - 1], Apis[l][n], name, l)
    BY <1>4
  <2>2. L \in Nat
    OBVIOUS
  <2> HIDE DEF L
  <2> QED BY <2>1, <2>2
<1> QED BY <1>5, <1>6

\* The loop of plugin_load() over the files
TryAll(start, name, pattern) ==
  LET try[k \in 0..Len(path)] ==
        IF k = 0 THEN start ELSE TryLibrary(try[k - 1], name, pattern, path[k])
  IN  try[Len(path)]

LEMMA TrySteps ==
    ASSUME NEW start, NEW name, NEW pattern, Len(path) \in Nat
    PROVE  \E f : /\ TryAll(start, name, pattern) = f[Len(path)]
                  /\ f[0] = start
                  /\ \A k \in 1..Len(path) : f[k] = TryLibrary(f[k - 1], name, pattern, path[k])
<1> DEFINE L == Len(path)
           Loop(e, k) == e = [n \in 0..k |-> IF n = 0 THEN start
                                            ELSE TryLibrary(e[n - 1], name, pattern, path[n])]
           T == {k \in Nat : \E e : Loop(e, k)}
<1>1. 0 \in T
  <2> DEFINE g == [n \in 0..0 |-> start]
  <2>1. Loop(g, 0)
    OBVIOUS
  <2> QED BY <2>1
<1>2. ASSUME NEW k \in Nat, k \in T PROVE k + 1 \in T
  <2>1. PICK u : Loop(u, k)
    BY <1>2
  <2> DEFINE g == [n \in 0..(k + 1) |-> IF n <= k THEN u[n]
                                        ELSE TryLibrary(u[k], name, pattern, path[k + 1])]
  <2>2. ASSUME NEW n \in 0..(k + 1)
        PROVE  g[n] = IF n = 0 THEN start ELSE TryLibrary(g[n - 1], name, pattern, path[n])
    <3>1. CASE n = 0
      BY <2>1, <3>1
    <3>2. CASE n # 0 /\ n <= k
      <4>1. g[n] = u[n] /\ g[n - 1] = u[n - 1]
        BY <3>2
      <4>2. u[n] = TryLibrary(u[n - 1], name, pattern, path[n])
        BY <2>1, <3>2
      <4> QED BY <3>2, <4>1, <4>2
    <3>3. CASE n = k + 1
      BY <3>3
    <3> QED BY <3>1, <3>2, <3>3
  <2>3. Loop(g, k + 1)
    BY <2>2
  <2> HIDE DEF g, Loop
  <2>4. \E e : Loop(e, k + 1)
    BY <2>3
  <2> QED BY <2>4
<1>3. \E e : Loop(e, L)
  <2> HIDE DEF T
  <2>1. L \in T
    BY <1>1, <1>2, SetInduction
  <2> QED BY <2>1 DEF T
<1> DEFINE h == CHOOSE u : Loop(u, L)
<1>4. Loop(h, L)
  <2> HIDE DEF Loop
  <2> QED BY <1>3
<1>5. TryAll(start, name, pattern) = h[L]
  BY DEF TryAll
<1> HIDE DEF h
<1>6. h[0] = start /\ \A k \in 1..L : h[k] = TryLibrary(h[k - 1], name, pattern, path[k])
  <2>1. \A n \in 0..L : h[n] = IF n = 0 THEN start ELSE TryLibrary(h[n - 1], name, pattern, path[n])
    BY <1>4
  <2>2. L \in Nat
    OBVIOUS
  <2> HIDE DEF L
  <2> QED BY <2>1, <2>2
<1> QED BY <1>5, <1>6

----------------------------------------------------------------------------
(* Registering, unregistering and closing.                                  *)

Fields == {"apis", "paths", "count", "opened", "live", "cut"}

LEMMA FieldsOfInfo == InfoFields = Fields
  BY DEF InfoFields, Fields, Empty

\* What is registered stays as it is.
Kept(i, j) == \A name \in DOMAIN i.apis : name \in DOMAIN j.apis /\ j.apis[name] = i.apis[name]

\* register_plugin() of an API of an open library
LEMMA Register ==
    ASSUME NEW i, Consistent(i), NEW name, name # NULL, ~Has(i, name),
           NEW l \in Opens \cap HasSymbol, i.opened[l] > 0
    PROVE  LET j == RegisterPlugin(i, name, l)
           IN  /\ Consistent(j) /\ Kept(i, j)
               /\ DOMAIN j.apis = DOMAIN i.apis \cup {name} /\ j.apis[name] = l
               /\ j.opened = i.opened /\ j.cut = i.cut /\ j.count[l] = i.count[l] + 1
<1> DEFINE j == RegisterPlugin(i, name, l)
<1>1. /\ DOMAIN i = Fields /\ l \in Libs /\ NULL \notin Libs
  BY FieldsOfInfo, PluginsAssumption DEF Consistent
<1>2. /\ DOMAIN j = Fields /\ j.apis = With(i.apis, name, l) /\ j.paths = With(i.paths, name, l)
      /\ j.count = [i.count EXCEPT ![l] = i.count[l] + 1]
      /\ j.live = [i.live EXCEPT ![l] = i.live[l] + 1]
      /\ j.opened = i.opened /\ j.cut = i.cut
  BY <1>1 DEF RegisterPlugin, Fields
<1> HIDE DEF j
<1>3. /\ DOMAIN j.apis = DOMAIN i.apis \cup {name} /\ j.apis[name] = l
      /\ \A n \in DOMAIN i.apis : j.apis[n] = i.apis[n]
      /\ name \notin DOMAIN i.apis
  BY <1>2 DEF With, Has
<1>4. /\ DOMAIN j.paths = DOMAIN i.paths \cup {name} /\ j.paths[name] = l
      /\ \A n \in DOMAIN i.paths : j.paths[n] = i.paths[n]
      /\ name \notin DOMAIN i.paths
  BY <1>2, <1>3 DEF With, Consistent
<1>5. IsFiniteSet(DOMAIN j.apis)
  BY <1>3, FS_AddElement DEF Consistent
<1>6. DOMAIN j.paths = {n \in DOMAIN j.apis : j.apis[n] # NULL}
  BY <1>1, <1>3, <1>4 DEF Consistent
<1>7. /\ j.count \in [Libs -> Nat] /\ j.live \in [Libs -> Nat] /\ j.opened \in [Libs -> Nat]
  BY <1>1, <1>2 DEF Consistent
<1>8. ASSUME NEW k \in Libs PROVE j.count[k] = Cardinality(From(j, k)) /\ j.live[k] = j.count[k]
  <2>1. i.count[k] = Cardinality(From(i, k)) /\ i.live[k] = i.count[k] /\ i.count[k] \in Nat
        /\ IsFiniteSet(From(i, k))
    <3>1. From(i, k) \subseteq DOMAIN i.apis
      BY DEF From, Consistent
    <3> QED BY <3>1, FS_Subset DEF Consistent
  <2>2. CASE k = l
    <3>1. From(j, k) = From(i, k) \cup {name} /\ name \notin From(i, k)
      BY <1>4, <2>2 DEF From
    <3>2. Cardinality(From(j, k)) = Cardinality(From(i, k)) + 1
      BY <2>1, <3>1, FS_AddElement
    <3> QED BY <1>1, <1>2, <2>1, <2>2, <3>2 DEF Consistent
  <2>3. CASE k # l
    <3>1. From(j, k) = From(i, k)
      BY <1>4, <2>3 DEF From
    <3> QED BY <1>1, <1>2, <2>1, <2>3, <3>1 DEF Consistent
  <2> QED BY <2>2, <2>3
<1>9. ASSUME NEW n \in DOMAIN j.paths
      PROVE  /\ j.paths[n] = j.apis[n] /\ j.paths[n] \in Opens \cap HasSymbol
             /\ j.opened[j.paths[n]] > 0 \/ j.paths[n] \in j.cut
  BY <1>2, <1>3, <1>4 DEF Consistent
<1>10. \A n \in DOMAIN j.apis : j.apis[n] \in Libs \cup {NULL}
  BY <1>1, <1>3 DEF Consistent
<1>11. Consistent(j)
  BY <1>2, <1>5, <1>6, <1>7, <1>8, <1>9, <1>10, FieldsOfInfo DEF Consistent
<1>12. Kept(i, j)
  BY <1>3 DEF Kept
<1>13. j.count[l] = i.count[l] + 1
  BY <1>1, <1>2 DEF Consistent
<1> QED BY <1>2, <1>3, <1>11, <1>12, <1>13 DEF j

\* A change of the handles to a library
LEMMA Reopen ==
    ASSUME NEW i, Consistent(i), NEW l \in Libs, NEW n \in Nat,
           NEW j, DOMAIN j = Fields, j.apis = i.apis, j.paths = i.paths,
           j.count = i.count, j.live = i.live, i.cut \subseteq j.cut,
           j.opened = [i.opened EXCEPT ![l] = n],
           \A name \in DOMAIN i.paths : i.paths[name] = l => n > 0 \/ l \in j.cut
    PROVE  Consistent(j)
<1>1. j.opened \in [Libs -> Nat] /\ j.opened[l] = n
      /\ \A k \in Libs \ {l} : j.opened[k] = i.opened[k]
  BY DEF Consistent
<1>2. ASSUME NEW name \in DOMAIN i.paths
      PROVE  j.opened[i.paths[name]] > 0 \/ i.paths[name] \in j.cut
  <2>1. i.paths[name] \in Libs
    BY PluginsAssumption DEF Consistent
  <2> QED BY <1>1, <2>1 DEF Consistent
<1>3. \A k \in Libs : From(j, k) = From(i, k)
  BY DEF From
<1> QED BY <1>1, <1>2, <1>3, FieldsOfInfo DEF Consistent

\* plugin_unload()
LEMMA Unregister ==
    ASSUME NEW i, Consistent(i), NEW name, Has(i, name)
    PROVE  Consistent(Unregistered(i, name))
<1> DEFINE l == i.apis[name]
           j == [i EXCEPT !.apis = Without(@, name), !.paths = Without(@, name)]
           k == [j EXCEPT !.count[l] = @ - 1, !.live[l] = @ - 1]
<1>1. DOMAIN i = Fields /\ NULL \notin Libs /\ name \in DOMAIN i.apis
  BY FieldsOfInfo, PluginsAssumption DEF Consistent, Has
<1>2. Unregistered(i, name) = IF l = NULL THEN j ELSE IF k.count[l] = 0 THEN Close(k, l) ELSE k
  BY DEF Unregistered
<1>3. /\ DOMAIN j = Fields /\ j.apis = Without(i.apis, name) /\ j.paths = Without(i.paths, name)
      /\ j.count = i.count /\ j.live = i.live /\ j.opened = i.opened /\ j.cut = i.cut
  BY <1>1 DEF Fields
<1> HIDE DEF j
<1>4. /\ DOMAIN j.apis = DOMAIN i.apis \ {name} /\ DOMAIN j.paths = DOMAIN i.paths \ {name}
      /\ \A n \in DOMAIN j.apis : j.apis[n] = i.apis[n]
      /\ \A n \in DOMAIN j.paths : j.paths[n] = i.paths[n]
  BY <1>3 DEF Without, Restrict
<1>5. IsFiniteSet(DOMAIN j.apis)
  BY <1>4, FS_RemoveElement DEF Consistent
<1>6. /\ \A n \in DOMAIN j.apis : j.apis[n] \in Libs \cup {NULL}
      /\ DOMAIN j.paths = {n \in DOMAIN j.apis : j.apis[n] # NULL}
  BY <1>4 DEF Consistent
<1>7. \A n \in DOMAIN j.paths :
        /\ j.paths[n] = j.apis[n] /\ j.paths[n] \in Opens \cap HasSymbol
        /\ j.opened[j.paths[n]] > 0 \/ j.paths[n] \in j.cut
  BY <1>3, <1>4 DEF Consistent
<1>8. ASSUME NEW m \in Libs
      PROVE  /\ i.count[m] = Cardinality(From(i, m)) /\ i.live[m] = i.count[m]
             /\ i.count[m] \in Nat /\ IsFiniteSet(From(i, m))
  <2>1. From(i, m) \subseteq DOMAIN i.apis
    BY DEF From, Consistent
  <2> QED BY <2>1, FS_Subset DEF Consistent
<1>9. \A m \in Libs : m # l => From(j, m) = From(i, m)
  BY <1>4 DEF From, Consistent
<1>10. CASE l = NULL
  <2>1. \A m \in Libs : From(j, m) = From(i, m)
    BY <1>1, <1>9, <1>10
  <2>2. Consistent(j)
    BY <1>3, <1>5, <1>6, <1>7, <2>1, FieldsOfInfo DEF Consistent
  <2> QED BY <1>2, <1>10, <2>2
<1>11. CASE l # NULL
  <2>1. l \in Libs /\ name \in From(i, l)
    BY <1>1, <1>11 DEF Consistent, From
  <2>2. From(j, l) = From(i, l) \ {name}
    BY <1>4 DEF From
  <2>3. Cardinality(From(j, l)) = i.count[l] - 1 /\ i.count[l] - 1 \in Nat
    <3>1. Cardinality(From(j, l)) = Cardinality(From(i, l)) - 1 /\ IsFiniteSet(From(j, l))
      BY <1>8, <2>1, <2>2, FS_RemoveElement
    <3>2. Cardinality(From(j, l)) \in Nat
      BY <3>1, FS_CardinalityType
    <3> QED BY <1>8, <2>1, <3>1, <3>2
  <2>4. /\ DOMAIN k = Fields /\ k.apis = j.apis /\ k.paths = j.paths
        /\ k.opened = j.opened /\ k.cut = j.cut
        /\ k.count = [j.count EXCEPT ![l] = j.count[l] - 1]
        /\ k.live = [j.live EXCEPT ![l] = j.live[l] - 1]
    BY <1>3 DEF Fields
  <2> HIDE DEF k, l
  <2>5. \A m \in Libs : From(k, m) = From(j, m)
    BY <2>4 DEF From
  <2>6. k.count \in [Libs -> Nat] /\ k.live \in [Libs -> Nat] /\ k.opened \in [Libs -> Nat]
        /\ k.count[l] = i.count[l] - 1
    <3>1. i.live[l] - 1 \in Nat
      BY <1>8, <2>1, <2>3
    <3> QED BY <1>3, <2>1, <2>3, <2>4, <3>1 DEF Consistent
  <2>7. ASSUME NEW m \in Libs
        PROVE  k.count[m] = Cardinality(From(k, m)) /\ k.live[m] = k.count[m]
    <3>1. CASE m = l
      <4>1. k.live[l] = i.live[l] - 1
        BY <1>3, <2>1, <2>4 DEF Consistent
      <4> QED BY <1>8, <2>1, <2>3, <2>5, <2>6, <3>1, <4>1
    <3>2. CASE m # l
      <4>1. k.count[m] = i.count[m] /\ k.live[m] = i.live[m]
        BY <1>3, <2>4, <3>2 DEF Consistent
      <4> QED BY <1>8, <1>9, <2>5, <3>2, <4>1
    <3> QED BY <3>1, <3>2
  <2>8. Consistent(k)
    BY <1>5, <1>6, <1>7, <2>4, <2>6, <2>7, FieldsOfInfo DEF Consistent
  <2>9. CASE k.count[l] = 0
    <3> DEFINE q == Close(k, l)
               n == IF k.opened[l] = 0 THEN 0 ELSE k.opened[l] - 1
    <3>1. n \in Nat
      BY <2>1, <2>6
    <3>2. /\ DOMAIN q = Fields /\ q.apis = k.apis /\ q.paths = k.paths
          /\ q.count = k.count /\ q.live = k.live /\ q.cut = k.cut
          /\ q.opened = [k.opened EXCEPT ![l] = n]
      BY <2>4 DEF Close, Fields
    <3>3. From(k, l) = {}
      <4>1. IsFiniteSet(From(k, l)) /\ Cardinality(From(k, l)) = 0
        <5>1. From(k, l) \subseteq DOMAIN k.apis /\ IsFiniteSet(DOMAIN k.apis)
          BY <2>8 DEF From, Consistent
        <5> QED BY <2>1, <2>7, <2>9, <5>1, FS_Subset
      <4> QED BY <4>1, FS_EmptySet
    <3>4. \A m \in DOMAIN k.paths : k.paths[m] = l => n > 0 \/ l \in q.cut
      BY <3>3 DEF From
    <3>5. k.cut \subseteq q.cut
      BY <3>2
    <3> HIDE DEF q, n
    <3>6. Consistent(q)
      BY <2>1, <2>8, <3>1, <3>2, <3>4, <3>5, Reopen
    <3> QED BY <1>2, <1>11, <2>9, <3>6 DEF q
  <2>10. CASE k.count[l] # 0
    BY <1>2, <1>11, <2>8, <2>10
  <2> QED BY <2>9, <2>10
<1> QED BY <1>10, <1>11

----------------------------------------------------------------------------
(* The calls of the function of one library.                                *)

AccFields == {"info", "registered", "stop", "loaded", "found", "handle"}
IsAcc(a) ==
  /\ DOMAIN a = AccFields
  /\ a.registered \in BOOLEAN /\ a.stop \in BOOLEAN
  /\ a.loaded \in BOOLEAN /\ a.found \in BOOLEAN

\* The first k calls do not fail.
Prefix(l, k) == \A m \in 1..k : Apis[l][m] # NULL

\* After k calls, starting with o
AfterCalls(o, name, l, k, a) ==
  /\ IsAcc(a) /\ a.handle = o.handle
  /\ Consistent(a.info) /\ Kept(o.info, a.info)
  /\ a.info.opened = o.info.opened /\ a.info.cut = o.info.cut
  /\ a.info.count[l] >= o.info.count[l]
  /\ a.info.count[l] = o.info.count[l] => a.info = o.info
  /\ \A n \in DOMAIN a.info.apis \ DOMAIN o.info.apis :
       a.info.apis[n] = l /\ name \in {NULL, n} /\ n \in Reachable(l)
  /\ a.registered => a.loaded /\ (name = NULL \/ a.found)
  /\ a.found => name # NULL /\ Has(a.info, name) /\ a.stop
  /\ name # NULL /\ ~Has(o.info, name) /\ Has(a.info, name) => a.found
  /\ o.loaded => a.loaded
  /\ a.loaded /\ ~o.loaded => \E n \in Reachable(l) : n \notin DOMAIN o.info.apis
  /\ \A j \in 1..k : Prefix(l, j) =>
       \/ Apis[l][j] \in DOMAIN a.info.apis
       \/ name # NULL /\ (a.found \/ Apis[l][j] # name)
  /\ a.stop => a.found \/ ~Prefix(l, k)
  /\ ~a.stop => Prefix(l, k)

\* The three outcomes of a call
LEMMA OfferCases ==
    ASSUME NEW a, IsAcc(a), NEW api, NEW name, NEW l, NEW r, r = Offer(a, api, name, l)
    PROVE  /\ IsAcc(r) /\ r.handle = a.handle
           /\ \/ /\ a.stop \/ api = NULL
                 /\ r.stop /\ r.info = a.info /\ (r.registered <=> a.registered)
                 /\ (r.loaded <=> a.loaded) /\ (r.found <=> a.found)
              \/ /\ ~a.stop /\ api # NULL /\ ~Has(a.info, api) /\ name \in {NULL, api}
                 /\ r.info = RegisterPlugin(a.info, api, l)
                 /\ r.registered /\ r.loaded
                 /\ (r.stop <=> name # NULL) /\ (r.found <=> name # NULL)
              \/ /\ ~a.stop /\ api # NULL /\ (Has(a.info, api) \/ name \notin {NULL, api})
                 /\ r.info = a.info /\ ~r.registered
                 /\ ~r.stop /\ (r.found <=> a.found)
                 /\ (r.loaded <=> a.loaded \/ ~Has(a.info, api))
<1>1. CASE a.stop \/ api = NULL
  <2>1. r = [a EXCEPT !.stop = TRUE]
    BY <1>1 DEF Offer
  <2>2. DOMAIN r = AccFields /\ r.handle = a.handle
        /\ r.stop = TRUE /\ r.info = a.info /\ r.registered = a.registered
        /\ r.loaded = a.loaded /\ r.found = a.found
    BY <2>1 DEF IsAcc, AccFields
  <2> QED BY <1>1, <2>2 DEF IsAcc
<1>2. CASE ~(a.stop \/ api = NULL) /\ ~Has(a.info, api) /\ name \in {NULL, api}
  <2> DEFINE i == RegisterPlugin(a.info, api, l)
             b == name # NULL
  <2>1. r = [a EXCEPT !.info = i, !.registered = TRUE, !.loaded = TRUE, !.stop = b, !.found = b]
    BY <1>2 DEF Offer
  <2>2. b \in BOOLEAN
    OBVIOUS
  <2> HIDE DEF i, b
  <2>3. DOMAIN r = AccFields /\ r.handle = a.handle
        /\ r.stop = b /\ r.info = i /\ r.registered = TRUE
        /\ r.loaded = TRUE /\ r.found = b
    BY <2>1 DEF IsAcc, AccFields
  <2>4. IsAcc(r) /\ (r.stop <=> b) /\ (r.found <=> b)
    BY <2>2, <2>3 DEF IsAcc
  <2> QED BY <1>2, <2>3, <2>4 DEF i, b
<1>3. CASE ~(a.stop \/ api = NULL) /\ (Has(a.info, api) \/ name \notin {NULL, api})
  <2> DEFINE b == a.loaded \/ ~Has(a.info, api)
  <2>1. r = [a EXCEPT !.registered = FALSE, !.loaded = b]
    BY <1>3 DEF Offer
  <2>2. b \in BOOLEAN
    OBVIOUS
  <2> HIDE DEF b
  <2>3. DOMAIN r = AccFields /\ r.handle = a.handle
        /\ r.stop = a.stop /\ r.info = a.info /\ r.registered = FALSE
        /\ r.loaded = b /\ r.found = a.found
    BY <2>1 DEF IsAcc, AccFields
  <2>4. IsAcc(r) /\ (r.loaded <=> b) /\ ~r.stop
    BY <1>3, <2>2, <2>3 DEF IsAcc
  <2> QED BY <1>3, <2>3, <2>4 DEF b
<1> QED BY <1>1, <1>2, <1>3

\* One more call
LEMMA OneCall ==
    ASSUME NEW name, NEW l \in Opens \cap HasSymbol, NEW o, Consistent(o.info), o.info.opened[l] > 0,
           NEW k \in 1..Len(Apis[l]), NEW a, AfterCalls(o, name, l, k - 1, a),
           NEW api, api = Apis[l][k], NEW r, r = Offer(a, api, name, l)
    PROVE  AfterCalls(o, name, l, k, r)
<1>1. IsAcc(a) /\ Consistent(a.info) /\ Kept(o.info, a.info) /\ a.handle = o.handle
      /\ a.info.opened = o.info.opened /\ a.info.cut = o.info.cut
  BY DEF AfterCalls
<1>2. l \in Libs /\ Len(Apis[l]) \in Nat /\ k \in Nat /\ k - 1 \in Nat /\ k - 1 < k
  BY PluginsAssumption
<1>3. IsAcc(r) /\ r.handle = a.handle
  BY <1>1, OfferCases
<1>4. Prefix(l, k) <=> Prefix(l, k - 1) /\ api # NULL
  BY <1>2 DEF Prefix
<1>5. \A j \in 1..k : j = k \/ j \in 1..(k - 1)
  BY <1>2
<1>6. Prefix(l, k) => api \in Reachable(l)
  BY DEF Prefix, Reachable
<1>7. CASE a.stop \/ api = NULL
  <2>1. r.stop /\ r.info = a.info /\ (r.registered <=> a.registered)
        /\ (r.loaded <=> a.loaded) /\ (r.found <=> a.found)
    BY <1>1, <1>7, OfferCases
  <2>2. IsAcc(r)
    BY <1>1, <1>3, <2>1 DEF IsAcc
  <2>3. r.found \/ ~Prefix(l, k)
    BY <1>4, <1>7, <2>1 DEF AfterCalls
  <2>4. \A j \in 1..k : Prefix(l, j) =>
          \/ Apis[l][j] \in DOMAIN r.info.apis
          \/ name # NULL /\ (r.found \/ Apis[l][j] # name)
    BY <1>5, <2>1, <2>3 DEF AfterCalls
  <2> QED BY <1>1, <1>3, <2>1, <2>2, <2>3, <2>4 DEF AfterCalls
<1>8. CASE ~a.stop /\ api # NULL /\ ~Has(a.info, api) /\ name \in {NULL, api}
  <2>1. /\ r.info = RegisterPlugin(a.info, api, l)
        /\ r.registered /\ r.loaded
        /\ (r.stop <=> name # NULL) /\ (r.found <=> name # NULL)
    BY <1>1, <1>8, OfferCases
  <2>2. Prefix(l, k) /\ api \in Reachable(l) /\ ~a.found
    BY <1>4, <1>6, <1>8 DEF AfterCalls
  <2>3. a.info.opened[l] > 0
    BY <1>1
  <2>4. /\ Consistent(r.info) /\ Kept(a.info, r.info)
        /\ DOMAIN r.info.apis = DOMAIN a.info.apis \cup {api} /\ r.info.apis[api] = l
        /\ r.info.opened = a.info.opened /\ r.info.cut = a.info.cut
        /\ r.info.count[l] = a.info.count[l] + 1
    BY <1>1, <1>8, <2>1, <2>3, Register
  <2>5. api \notin DOMAIN a.info.apis
    BY <1>8 DEF Has
  <2>6. IsAcc(r)
    BY <1>3, <2>1 DEF IsAcc
  <2>7. r.info.count[l] >= o.info.count[l] /\ r.info.count[l] # o.info.count[l]
    <3>1. a.info.count[l] >= o.info.count[l] /\ a.info.count[l] \in Nat
          /\ o.info.count[l] \in Nat
      BY <1>1, <1>2 DEF AfterCalls, Consistent
    <3> QED BY <2>4, <3>1
  <2>8. Kept(o.info, r.info)
    BY <1>1, <2>4 DEF Kept
  <2>9. ASSUME NEW n \in DOMAIN r.info.apis \ DOMAIN o.info.apis
        PROVE  r.info.apis[n] = l /\ name \in {NULL, n} /\ n \in Reachable(l)
    <3>1. CASE n = api
      BY <1>8, <2>2, <2>4, <3>1
    <3>2. CASE n # api
      BY <2>4, <3>2 DEF AfterCalls, Kept
    <3> QED BY <3>1, <3>2
  <2>10. name # NULL => name = api /\ Has(r.info, name)
    BY <1>8, <2>4 DEF Has
  <2>11. ~o.loaded => \E n \in Reachable(l) : n \notin DOMAIN o.info.apis
    BY <1>1, <2>2, <2>5 DEF Kept
  <2>12. \A j \in 1..k : Prefix(l, j) =>
          \/ Apis[l][j] \in DOMAIN r.info.apis
          \/ name # NULL /\ (r.found \/ Apis[l][j] # name)
    <3> SUFFICES ASSUME NEW j \in 1..k, Prefix(l, j)
                 PROVE  \/ Apis[l][j] \in DOMAIN r.info.apis
                        \/ name # NULL /\ (r.found \/ Apis[l][j] # name)
      OBVIOUS
    <3>1. CASE name # NULL
      BY <2>1, <3>1
    <3>2. CASE j = k
      BY <2>4, <3>2
    <3>3. CASE name = NULL /\ j \in 1..(k - 1)
      BY <2>4, <3>3 DEF AfterCalls, Kept
    <3> QED BY <1>5, <3>1, <3>2, <3>3
  <2> QED BY <1>1, <1>3, <2>1, <2>2, <2>4, <2>6, <2>7, <2>8, <2>9, <2>10, <2>11, <2>12
          DEF AfterCalls
<1>9. CASE ~a.stop /\ api # NULL /\ (Has(a.info, api) \/ name \notin {NULL, api})
  <2>1. /\ r.info = a.info /\ ~r.registered /\ ~r.stop /\ (r.found <=> a.found)
        /\ (r.loaded <=> a.loaded \/ ~Has(a.info, api))
    BY <1>1, <1>9, OfferCases
  <2>2. Prefix(l, k) /\ api \in Reachable(l)
    BY <1>4, <1>6, <1>9 DEF AfterCalls
  <2>4. r.loaded /\ ~o.loaded => \E n \in Reachable(l) : n \notin DOMAIN o.info.apis
    <3>1. CASE a.loaded
      BY <3>1 DEF AfterCalls
    <3>2. CASE ~Has(a.info, api)
      BY <1>1, <2>2, <3>2 DEF Has, Kept
    <3> QED BY <2>1, <3>1, <3>2
  <2>5. \A j \in 1..k : Prefix(l, j) =>
          \/ Apis[l][j] \in DOMAIN r.info.apis
          \/ name # NULL /\ (r.found \/ Apis[l][j] # name)
    <3> SUFFICES ASSUME NEW j \in 1..k, Prefix(l, j)
                 PROVE  \/ Apis[l][j] \in DOMAIN r.info.apis
                        \/ name # NULL /\ (r.found \/ Apis[l][j] # name)
      OBVIOUS
    <3>1. CASE j = k
      BY <1>9, <2>1, <3>1 DEF Has
    <3>2. CASE j \in 1..(k - 1)
      BY <2>1, <3>2 DEF AfterCalls
    <3> QED BY <1>5, <3>1, <3>2
  <2>6. o.loaded => r.loaded
    BY <2>1 DEF AfterCalls
  <2>7. /\ r.info.count[l] >= o.info.count[l]
        /\ r.info.count[l] = o.info.count[l] => r.info = o.info
        /\ \A n \in DOMAIN r.info.apis \ DOMAIN o.info.apis :
             r.info.apis[n] = l /\ name \in {NULL, n} /\ n \in Reachable(l)
    BY <2>1 DEF AfterCalls
  <2>8. /\ ~r.found
        /\ name # NULL /\ ~Has(o.info, name) /\ Has(r.info, name) => r.found
    BY <1>9, <2>1 DEF AfterCalls
  <2>9. IsAcc(r) /\ r.handle = o.handle /\ Consistent(r.info) /\ Kept(o.info, r.info)
        /\ r.info.opened = o.info.opened /\ r.info.cut = o.info.cut
    BY <1>1, <1>3, <2>1
  <2> QED BY <2>1, <2>2, <2>4, <2>5, <2>6, <2>7, <2>8, <2>9 DEF AfterCalls
<1> QED BY <1>7, <1>8, <1>9

\* All calls
LEMMA AllCalls ==
    ASSUME NEW name, NEW l \in Opens \cap HasSymbol, NEW o, IsAcc(o), Consistent(o.info),
           o.info.opened[l] > 0, ~o.registered, ~o.stop, ~o.found
    PROVE  AfterCalls(o, name, l, Len(Apis[l]), OfferAll(o, name, l))
<1> DEFINE L == Len(Apis[l])
<1>1. L \in Nat
  BY PluginsAssumption
<1>2. PICK f : /\ OfferAll(o, name, l) = f[L]
               /\ f[0] = o
               /\ \A k \in 1..L : f[k] = Offer(f[k - 1], Apis[l][k], name, l)
  BY <1>1, OfferSteps
<1>3. AfterCalls(o, name, l, 0, o)
  <2>1. o.info.count[l] >= o.info.count[l]
    <3>1. l \in Libs
      BY PluginsAssumption
    <3> QED BY <3>1 DEF Consistent
  <2>2. Prefix(l, 0) /\ 1..0 = {}
    BY DEF Prefix
  <2>3. Kept(o.info, o.info)
    BY DEF Kept
  <2> QED BY <2>1, <2>2, <2>3 DEF AfterCalls
<1> DEFINE T == {k \in Nat : k <= L => AfterCalls(o, name, l, k, f[k])}
<1>4. 0 \in T
  BY <1>2, <1>3
<1>5. ASSUME NEW k \in Nat, k \in T PROVE k + 1 \in T
  <2> SUFFICES ASSUME k + 1 <= L PROVE AfterCalls(o, name, l, k + 1, f[k + 1])
    OBVIOUS
  <2>1. k + 1 \in 1..L /\ (k + 1) - 1 = k /\ k <= L
    BY <1>1
  <2>2. AfterCalls(o, name, l, (k + 1) - 1, f[k])
    BY <1>5, <2>1
  <2>3. f[k + 1] = Offer(f[k], Apis[l][k + 1], name, l)
    BY <1>2, <2>1
  <2> HIDE DEF T
  <2> QED BY <2>1, <2>2, <2>3, OneCall
<1> HIDE DEF T
<1>6. Nat \subseteq T
  BY <1>4, <1>5, SetInduction
<1> QED BY <1>1, <1>2, <1>6 DEF T

----------------------------------------------------------------------------
(* plugin_load().                                                           *)

Usable == Opens \cap HasSymbol
Handles == Libs \cup {NULL}

\* What trying a file does.  In the third case o is the state when the library
\* is open and e that after all calls of its function.
LEMMA TryCases ==
    ASSUME NEW a, IsAcc(a), Consistent(a.info), NEW name, NEW pattern, NEW l \in Libs,
           NEW r, r = TryLibrary(a, name, pattern, l)
    PROVE  \/ (a.found \/ l \notin pattern) /\ r = a
           \/ /\ ~a.found /\ l \in pattern \ Usable
              /\ IsAcc(r) /\ r.info = a.info /\ r.handle \in Handles \ HasSymbol
              /\ ~r.found /\ (r.loaded <=> a.loaded)
           \/ /\ ~a.found /\ l \in pattern \cap Usable
              /\ \E o, e : /\ o.info.apis = a.info.apis /\ (o.loaded <=> a.loaded)
                          /\ AfterCalls(o, name, l, Len(Apis[l]), e)
                          /\ IsAcc(r) /\ Consistent(r.info) /\ r.info.apis = e.info.apis
                          /\ (r.loaded <=> e.loaded) /\ (r.found <=> e.found)
                          /\ (r.handle = NULL \/ (r.handle = l /\ e.registered))
<1>1. CASE a.found \/ l \notin pattern
  BY <1>1 DEF TryLibrary
<1>2. CASE ~a.found /\ l \in pattern /\ l \notin Opens
  <2>1. r = [a EXCEPT !.handle = NULL]
    BY <1>2 DEF TryLibrary
  <2>2. DOMAIN r = AccFields /\ r.handle = NULL /\ r.stop = a.stop /\ r.info = a.info
        /\ r.registered = a.registered /\ r.loaded = a.loaded /\ r.found = a.found
    BY <2>1 DEF IsAcc, AccFields
  <2>3. NULL \in Handles \ HasSymbol
    BY PluginsAssumption DEF Handles
  <2>4. IsAcc(r)
    BY <2>2 DEF IsAcc
  <2> QED BY <1>2, <2>2, <2>3, <2>4 DEF Usable
<1>3. CASE ~a.found /\ l \in pattern /\ l \in Opens /\ l \notin HasSymbol
  <2>1. r = [a EXCEPT !.handle = l]
    BY <1>3 DEF TryLibrary
  <2>2. DOMAIN r = AccFields /\ r.handle = l /\ r.stop = a.stop /\ r.info = a.info
        /\ r.registered = a.registered /\ r.loaded = a.loaded /\ r.found = a.found
    BY <2>1 DEF IsAcc, AccFields
  <2>3. l \in Handles \ HasSymbol
    BY <1>3 DEF Handles
  <2>4. IsAcc(r)
    BY <2>2 DEF IsAcc
  <2> QED BY <1>3, <2>2, <2>3, <2>4 DEF Usable
<1>4. CASE ~a.found /\ l \in pattern /\ l \in Usable
  <2> DEFINE i == a.info
             p == [i EXCEPT !.opened[l] = @ + 1]
             o == [a EXCEPT !.info.opened[l] = @ + 1, !.registered = FALSE, !.stop = FALSE]
             e == OfferAll(o, name, l)
             some == e.info.count[l] > a.info.count[l]
             q == [Close(e.info, l) EXCEPT !.cut = IF some THEN @ \cup {l} ELSE @]
  <2>1. r = IF e.registered THEN [e EXCEPT !.handle = l]
            ELSE [e EXCEPT !.handle = NULL, !.info = q]
    BY <1>4 DEF TryLibrary, Usable
  <2>2. DOMAIN i = Fields /\ i.opened \in [Libs -> Nat] /\ i.count \in [Libs -> Nat]
    BY FieldsOfInfo DEF Consistent
  <2>3. /\ DOMAIN o = AccFields /\ o.handle = a.handle /\ o.info = p
        /\ o.registered = FALSE /\ o.stop = FALSE /\ o.loaded = a.loaded /\ o.found = a.found
    BY DEF IsAcc, AccFields
  <2>4. /\ DOMAIN p = Fields /\ p.apis = i.apis /\ p.paths = i.paths /\ p.count = i.count
        /\ p.live = i.live /\ p.cut = i.cut
        /\ p.opened = [i.opened EXCEPT ![l] = i.opened[l] + 1]
    BY <2>2 DEF Fields
  <2> HIDE DEF o, p, i
  <2>5. p.opened[l] = i.opened[l] + 1 /\ i.opened[l] \in Nat
    BY <2>2, <2>4
  <2>6. Consistent(p)
    <3>1. i.opened[l] + 1 \in Nat /\ i.opened[l] + 1 > 0
      BY <2>5
    <3> QED BY <2>4, <3>1, Reopen DEF i
  <2>7. AfterCalls(o, name, l, Len(Apis[l]), e)
    <3>1. IsAcc(o) /\ ~o.registered /\ ~o.stop /\ ~o.found
      BY <1>4, <2>3 DEF IsAcc
    <3>2. Consistent(o.info) /\ o.info.opened[l] > 0
      BY <2>3, <2>5, <2>6
    <3> QED BY <1>4, <3>1, <3>2, AllCalls DEF Usable
  <2> HIDE DEF e
  <2>8. IsAcc(e) /\ Consistent(e.info)
    BY <2>7 DEF AfterCalls
  <2>9. CASE e.registered
    <3>1. DOMAIN r = AccFields /\ r.handle = l /\ r.stop = e.stop /\ r.info = e.info
          /\ r.registered = e.registered /\ r.loaded = e.loaded /\ r.found = e.found
      BY <2>1, <2>8, <2>9 DEF IsAcc, AccFields
    <3>2. IsAcc(r)
      BY <2>8, <3>1 DEF IsAcc
    <3> QED BY <1>4, <2>3, <2>4, <2>7, <2>8, <2>9, <3>1, <3>2 DEF i
  <2>10. CASE ~e.registered
    <3>1. /\ DOMAIN e.info = Fields /\ e.info.opened = p.opened /\ e.info.cut = p.cut
          /\ e.info.opened \in [Libs -> Nat]
      BY <2>3, <2>7, <2>8, FieldsOfInfo DEF AfterCalls, Consistent
    <3>2. /\ DOMAIN q = Fields /\ q.apis = e.info.apis /\ q.paths = e.info.paths
          /\ q.count = e.info.count /\ q.live = e.info.live
          /\ q.cut = IF some THEN e.info.cut \cup {l} ELSE e.info.cut
          /\ q.opened = [e.info.opened EXCEPT ![l] = IF @ = 0 THEN 0 ELSE @ - 1]
      BY <3>1 DEF Close, Fields
    <3>3. q.opened = [e.info.opened EXCEPT ![l] = i.opened[l]]
      BY <2>5, <3>1, <3>2
    <3>4. ASSUME NEW n \in DOMAIN e.info.paths, e.info.paths[n] = l
          PROVE  i.opened[l] > 0 \/ l \in q.cut
      <4>1. CASE some
        BY <3>2, <4>1
      <4>2. CASE ~some
        <5>1. e.info.count[l] >= i.count[l] /\ e.info.count[l] \in Nat /\ i.count[l] \in Nat
          BY <2>2, <2>3, <2>4, <2>7, <2>8 DEF AfterCalls, Consistent
        <5>2. e.info = p
          BY <2>3, <2>4, <2>7, <4>2, <5>1 DEF AfterCalls, i
        <5>3. i.opened[l] > 0 \/ l \in i.cut
          BY <2>4, <3>4, <5>2 DEF Consistent, i
        <5> QED BY <2>4, <3>1, <3>2, <5>3
      <4> QED BY <4>1, <4>2
    <3>5. e.info.cut \subseteq q.cut
      BY <3>2
    <3> HIDE DEF q
    <3>6. Consistent(q)
      BY <2>5, <2>8, <3>2, <3>3, <3>4, <3>5, Reopen
    <3>7. DOMAIN r = AccFields /\ r.handle = NULL /\ r.stop = e.stop /\ r.info = q
          /\ r.registered = e.registered /\ r.loaded = e.loaded /\ r.found = e.found
      <4>1. DOMAIN e = AccFields
        BY <2>8 DEF IsAcc
      <4> QED BY <2>1, <2>10, <4>1 DEF AccFields
    <3>8. IsAcc(r)
      BY <2>8, <3>7 DEF IsAcc
    <3> QED BY <1>4, <2>3, <2>4, <2>7, <3>2, <3>6, <3>7, <3>8 DEF i
  <2> QED BY <2>9, <2>10
<1> QED BY <1>1, <1>2, <1>3, <1>4 DEF Usable

\* File k matches the pattern and offers the name.
Suits(name, pattern, k) == path[k] \in pattern /\ Offers(path[k], name)
\* File k matches the pattern and has the function.
Tried(pattern, k) == path[k] \in pattern \cap Usable
\* File k is the first that suits, and what i has under the name.
IsFirst(i, name, pattern, k) ==
  /\ Suits(name, pattern, k) /\ i.apis[name] = path[k]
  /\ \A h \in 1..(k - 1) : ~Suits(name, pattern, h)

\* After k files, starting with i
AfterFiles(i, name, pattern, k, a) ==
  /\ IsAcc(a) /\ Consistent(a.info) /\ Kept(i, a.info)
  /\ a.handle \in Handles
  /\ a.handle \in HasSymbol => a.found \/ (name = NULL /\ a.loaded)
  /\ a.found => name # NULL /\ Has(a.info, name)
  /\ name = NULL => \A j \in 1..k :
       Tried(pattern, j) => Reachable(path[j]) \subseteq DOMAIN a.info.apis
  /\ name = NULL /\ a.loaded => \E j \in 1..k :
       Tried(pattern, j) /\ \E n \in Reachable(path[j]) : n \notin DOMAIN i.apis
  /\ name # NULL /\ ~Has(i, name) =>
       IF a.found THEN \E j \in 1..k : IsFirst(a.info, name, pattern, j)
       ELSE ~Has(a.info, name) /\ \A j \in 1..k : ~Suits(name, pattern, j)

\* When all calls are made, all that can be had from a library is registered,
\* or what was looked for was found where it is offered.
LEMMA CallsEnd ==
    ASSUME NEW name, NEW l \in Usable, NEW o, NEW e, AfterCalls(o, name, l, Len(Apis[l]), e)
    PROVE  /\ name = NULL => Reachable(l) \subseteq DOMAIN e.info.apis
           /\ name # NULL /\ ~Has(o.info, name) =>
                IF e.found THEN Offers(l, name) /\ e.info.apis[name] = l
                ELSE ~Offers(l, name) /\ ~Has(e.info, name)
<1> DEFINE L == Len(Apis[l])
<1>1. L \in Nat
  BY PluginsAssumption DEF Usable
<1>2. ASSUME NEW n \in Reachable(l)
      PROVE  n \in DOMAIN e.info.apis \/ (name # NULL /\ (e.found \/ n # name))
  <2>1. PICK j \in 1..L : Prefix(l, j) /\ n = Apis[l][j]
    BY DEF Reachable, Prefix
  <2> QED BY <2>1 DEF AfterCalls
<1>3. CASE name = NULL
  BY <1>2, <1>3
<1>4. CASE name # NULL /\ ~Has(o.info, name) /\ e.found
  <2>1. name \in DOMAIN e.info.apis \ DOMAIN o.info.apis
    BY <1>4 DEF AfterCalls, Has
  <2>2. e.info.apis[name] = l /\ name \in Reachable(l)
    BY <2>1 DEF AfterCalls
  <2> QED BY <1>4, <2>2 DEF Offers, Usable
<1>5. CASE name # NULL /\ ~Has(o.info, name) /\ ~e.found
  <2>1. ~Has(e.info, name)
    BY <1>5 DEF AfterCalls
  <2>2. name \notin Reachable(l)
    BY <1>2, <1>5, <2>1 DEF Has
  <2> QED BY <1>5, <2>1, <2>2 DEF Offers
<1> QED BY <1>3, <1>4, <1>5

LEMMA OneFile ==
    ASSUME NEW i, NEW name, NEW pattern, NEW k \in Nat, NEW a, path[k + 1] \in Libs,
           AfterFiles(i, name, pattern, k, a), NEW r,
           r = TryLibrary(a, name, pattern, path[k + 1])
    PROVE  AfterFiles(i, name, pattern, k + 1, r)
<1> DEFINE l == path[k + 1]
<1> HIDE DEF l
<1>1. IsAcc(a) /\ Consistent(a.info) /\ Kept(i, a.info) /\ l = path[k + 1] /\ l \in Libs
  BY DEF AfterFiles, l
<1>2. \A j \in 1..(k + 1) : j = k + 1 \/ j \in 1..k
  OBVIOUS
<1>3. 1..k \subseteq 1..(k + 1) /\ k + 1 \in 1..(k + 1) /\ (k + 1) - 1 = k
  OBVIOUS
<1>4. Offers(l, name) => l \in Usable
  BY DEF Offers, Usable
<1>5. CASE (a.found \/ l \notin pattern) /\ r = a
  <2>1. CASE l \notin pattern
    <3>1. ~Suits(name, pattern, k + 1) /\ ~Tried(pattern, k + 1)
      BY <1>1, <2>1 DEF Suits, Tried
    <3> QED BY <1>2, <1>3, <1>5, <3>1 DEF AfterFiles
  <2>2. CASE a.found
    BY <1>2, <1>3, <1>5, <2>2 DEF AfterFiles
  <2> QED BY <1>5, <2>1, <2>2
<1>6. CASE /\ ~a.found /\ l \in pattern \ Usable
           /\ IsAcc(r) /\ r.info = a.info /\ r.handle \in Handles \ HasSymbol
           /\ ~r.found /\ (r.loaded <=> a.loaded)
  <2>1. ~Suits(name, pattern, k + 1) /\ ~Tried(pattern, k + 1)
    BY <1>1, <1>4, <1>6 DEF Suits, Tried
  <2> QED BY <1>1, <1>2, <1>3, <1>6, <2>1 DEF AfterFiles
<1>7. ASSUME ~a.found, l \in pattern \cap Usable, NEW o, NEW e,
             o.info.apis = a.info.apis, o.loaded <=> a.loaded,
             AfterCalls(o, name, l, Len(Apis[l]), e),
             IsAcc(r), Consistent(r.info), r.info.apis = e.info.apis,
             r.loaded <=> e.loaded, r.found <=> e.found,
             r.handle = NULL \/ (r.handle = l /\ e.registered)
      PROVE  AfterFiles(i, name, pattern, k + 1, r)
  <2>1. Kept(i, r.info) /\ Kept(a.info, r.info)
    BY <1>1, <1>7 DEF Kept, AfterCalls
  <2>2. r.handle \in Handles /\ (r.handle \in HasSymbol => r.found \/ (name = NULL /\ r.loaded))
    <3>1. r.handle = l => r.loaded /\ (name = NULL \/ r.found)
      BY <1>1, <1>7, PluginsAssumption DEF AfterCalls
    <3> QED BY <1>1, <1>7, <3>1, PluginsAssumption DEF Handles
  <2>3. r.found => name # NULL /\ Has(r.info, name)
    BY <1>7 DEF AfterCalls, Has
  <2>4. /\ name = NULL => Reachable(l) \subseteq DOMAIN r.info.apis
        /\ name # NULL /\ ~Has(a.info, name) =>
             IF r.found THEN Offers(l, name) /\ r.info.apis[name] = l
             ELSE ~Offers(l, name) /\ ~Has(r.info, name)
    BY <1>7, CallsEnd DEF Has
  <2>5. ASSUME name = NULL, NEW j \in 1..(k + 1), Tried(pattern, j)
        PROVE  Reachable(path[j]) \subseteq DOMAIN r.info.apis
    <3>1. CASE j = k + 1
      BY <1>1, <2>4, <2>5, <3>1
    <3>2. CASE j \in 1..k
      BY <2>1, <2>5, <3>2 DEF AfterFiles, Kept
    <3> QED BY <1>2, <3>1, <3>2
  <2>6. ASSUME name = NULL, r.loaded
        PROVE  \E j \in 1..(k + 1) :
                 Tried(pattern, j) /\ \E n \in Reachable(path[j]) : n \notin DOMAIN i.apis
    <3>1. CASE a.loaded
      BY <1>3, <2>6, <3>1 DEF AfterFiles
    <3>2. CASE ~a.loaded
      <4>1. PICK n \in Reachable(l) : n \notin DOMAIN a.info.apis
        BY <1>7, <2>6, <3>2 DEF AfterCalls
      <4>2. n \notin DOMAIN i.apis
        BY <1>1, <4>1 DEF Kept
      <4>3. Tried(pattern, k + 1)
        BY <1>1, <1>7 DEF Tried
      <4> QED BY <1>1, <1>3, <4>2, <4>3
    <3> QED BY <3>1, <3>2
  <2>7. ASSUME name # NULL, ~Has(i, name)
        PROVE  IF r.found THEN \E j \in 1..(k + 1) : IsFirst(r.info, name, pattern, j)
               ELSE ~Has(r.info, name) /\ \A j \in 1..(k + 1) : ~Suits(name, pattern, j)
    <3>1. ~Has(a.info, name) /\ \A j \in 1..k : ~Suits(name, pattern, j)
      BY <1>7, <2>7 DEF AfterFiles
    <3>2. CASE r.found
      <4>1. Offers(l, name) /\ r.info.apis[name] = l
        BY <2>4, <2>7, <3>1, <3>2
      <4>2. IsFirst(r.info, name, pattern, k + 1)
        BY <1>1, <1>3, <1>7, <3>1, <4>1 DEF IsFirst, Suits
      <4> QED BY <1>3, <3>2, <4>2
    <3>3. CASE ~r.found
      <4>1. ~Offers(l, name) /\ ~Has(r.info, name)
        BY <2>4, <2>7, <3>1, <3>3
      <4>2. ~Suits(name, pattern, k + 1)
        BY <1>1, <4>1 DEF Suits
      <4> QED BY <1>2, <3>1, <3>3, <4>1, <4>2
    <3> QED BY <3>2, <3>3
  <2> QED BY <1>7, <2>1, <2>2, <2>3, <2>5, <2>6, <2>7 DEF AfterFiles
<1>8. r = TryLibrary(a, name, pattern, l)
  BY <1>1
<1> QED BY <1>1, <1>5, <1>6, <1>7, <1>8, TryCases

\* plugin_load() of all files that match
LEMMA LoadEnd ==
    ASSUME NEW i, Consistent(i), path \in Seq(Libs), NEW name, NEW pattern,
           NEW r, r = Load(i, name, pattern)
    PROVE  /\ Consistent(r.info) /\ Kept(i, r.info) /\ (r.found => Has(r.info, name))
           /\ name = NULL => \A j \in 1..Len(path) :
                Tried(pattern, j) => Reachable(path[j]) \subseteq DOMAIN r.info.apis
           /\ name = NULL /\ r.loaded => \E j \in 1..Len(path) :
                Tried(pattern, j) /\ \E n \in Reachable(path[j]) : n \notin DOMAIN i.apis
           /\ name # NULL /\ ~Has(i, name) =>
                IF r.found THEN \E j \in 1..Len(path) : IsFirst(r.info, name, pattern, j)
                ELSE ~Has(r.info, name) /\ \A j \in 1..Len(path) : ~Suits(name, pattern, j)
<1> DEFINE L == Len(path)
           start == [info |-> i, registered |-> FALSE, stop |-> FALSE,
                     loaded |-> FALSE, found |-> FALSE, handle |-> NULL]
           e == TryAll(start, name, pattern)
           null == ~e.found /\ (name # NULL \/ ~e.loaded)
<1>1. L \in Nat
  OBVIOUS
<1>2. PICK f : /\ e = f[L] /\ f[0] = start
               /\ \A k \in 1..L : f[k] = TryLibrary(f[k - 1], name, pattern, path[k])
  <2> HIDE DEF start
  <2> QED BY <1>1, TrySteps
<1>3. AfterFiles(i, name, pattern, 0, start)
  <2>1. /\ DOMAIN start = AccFields /\ start.info = i /\ start.registered = FALSE
        /\ start.stop = FALSE /\ start.loaded = FALSE /\ start.found = FALSE
        /\ start.handle = NULL
    BY DEF AccFields
  <2> HIDE DEF start
  <2>2. NULL \in Handles /\ NULL \notin HasSymbol
    BY PluginsAssumption DEF Handles
  <2>3. IsAcc(start) /\ ~start.loaded /\ ~start.found
    BY <2>1 DEF IsAcc
  <2>4. Kept(i, i) /\ 1..0 = {}
    BY DEF Kept
  <2> QED BY <2>1, <2>2, <2>3, <2>4 DEF AfterFiles
<1> HIDE DEF start
<1> DEFINE T == {k \in Nat : k <= L => AfterFiles(i, name, pattern, k, f[k])}
<1>4. 0 \in T
  BY <1>2, <1>3
<1>5. ASSUME NEW k \in Nat, k \in T PROVE k + 1 \in T
  <2> SUFFICES ASSUME k + 1 <= L PROVE AfterFiles(i, name, pattern, k + 1, f[k + 1])
    OBVIOUS
  <2>1. k + 1 \in 1..L /\ (k + 1) - 1 = k /\ k <= L
    BY <1>1
  <2>2. AfterFiles(i, name, pattern, k, f[k])
    BY <1>5, <2>1
  <2>3. f[k + 1] = TryLibrary(f[k], name, pattern, path[k + 1]) /\ path[k + 1] \in Libs
    BY <1>2, <2>1
  <2> HIDE DEF T
  <2> QED BY <2>2, <2>3, OneFile
<1> HIDE DEF T
<1>6. AfterFiles(i, name, pattern, L, e)
  <2>1. L \in T
    BY <1>1, <1>4, <1>5, SetInduction
  <2> QED BY <1>1, <1>2, <2>1 DEF T
<1>7. r = IF null /\ e.handle # NULL THEN [e EXCEPT !.info = Close(@, e.handle)] ELSE e
  BY DEF Load, TryAll, start
<1> HIDE DEF e, L
<1>8. IsAcc(e) /\ Consistent(e.info)
  BY <1>6 DEF AfterFiles
<1>9. CASE null /\ e.handle # NULL
  <2> DEFINE h == e.handle
             q == Close(e.info, h)
             n == IF e.info.opened[h] = 0 THEN 0 ELSE e.info.opened[h] - 1
  <2>1. h \in Libs /\ h \notin HasSymbol
    BY <1>6, <1>9 DEF AfterFiles, Handles
  <2>2. DOMAIN r = AccFields /\ r.info = q /\ r.loaded = e.loaded /\ r.found = e.found
    BY <1>7, <1>8, <1>9 DEF IsAcc, AccFields
  <2>3. DOMAIN e.info = Fields /\ e.info.opened \in [Libs -> Nat] /\ n \in Nat
    BY <1>8, <2>1, FieldsOfInfo DEF Consistent
  <2>4. /\ DOMAIN q = Fields /\ q.apis = e.info.apis /\ q.paths = e.info.paths
        /\ q.count = e.info.count /\ q.live = e.info.live /\ q.cut = e.info.cut
        /\ q.opened = [e.info.opened EXCEPT ![h] = n]
    BY <2>3 DEF Close, Fields
  <2>5. \A m \in DOMAIN e.info.paths : e.info.paths[m] # h
    BY <1>8, <2>1 DEF Consistent
  <2> HIDE DEF q, n, h
  <2>6. Consistent(q)
    <3>1. e.info.cut \subseteq q.cut
          /\ \A m \in DOMAIN e.info.paths : e.info.paths[m] = h => n > 0 \/ h \in q.cut
      BY <2>4, <2>5
    <3> QED BY <1>8, <2>1, <2>3, <2>4, <3>1, Reopen
  <2>7. Kept(i, r.info) /\ (Has(r.info, name) <=> Has(e.info, name))
    BY <1>6, <2>2, <2>4 DEF AfterFiles, Kept, Has
  <2>8. \A k : IsFirst(e.info, name, pattern, k) => IsFirst(r.info, name, pattern, k)
    BY <2>2, <2>4 DEF IsFirst
  <2> QED BY <1>6, <2>2, <2>4, <2>6, <2>7, <2>8 DEF AfterFiles, L
<1>10. CASE ~(null /\ e.handle # NULL)
  <2>1. r = e
    BY <1>7, <1>10
  <2> QED BY <1>6, <2>1 DEF AfterFiles, L
<1> QED BY <1>9, <1>10

\* The first file that offers a name
LEMMA FirstIs ==
    ASSUME NEW i, NEW name, path \in Seq(Libs), NEW k \in 1..Len(path),
           \/ IsFirst(i, name, Called(name), k)
           \/ /\ IsFirst(i, name, Libs, k)
              /\ \A j \in 1..Len(path) : ~Suits(name, Called(name), j)
    PROVE  i.apis[name] = First(path, name)
<1> DEFINE offers == {j \in 1..Len(path) : Offers(path[j], name)}
           own == {j \in offers : path[j] \in Called(name)}
           S == IF own # {} THEN own ELSE offers
<1>1. First(path, name) = path[Min(S)]
  BY DEF First
<1>2. offers \subseteq 1..Len(path) /\ S \subseteq 1..Len(path) /\ Len(path) \in Nat
      /\ \A j \in 1..Len(path) : path[j] \in Libs
  OBVIOUS
<1>3. k \in S /\ \A h \in 1..(k - 1) : h \notin S
  <2>1. CASE IsFirst(i, name, Called(name), k)
    <3>1. k \in own
      BY <2>1 DEF IsFirst, Suits
    <3>2. \A h \in 1..(k - 1) : h \notin own
      BY <2>1 DEF IsFirst, Suits
    <3> QED BY <3>1, <3>2
  <2>2. CASE /\ IsFirst(i, name, Libs, k)
             /\ \A j \in 1..Len(path) : ~Suits(name, Called(name), j)
    <3>1. own = {}
      BY <2>2 DEF Suits
    <3>2. k \in offers
      BY <2>2 DEF IsFirst, Suits
    <3>3. \A h \in 1..(k - 1) : h \notin offers
      BY <1>2, <2>2 DEF IsFirst, Suits
    <3> QED BY <3>1, <3>2, <3>3
  <2> QED BY <2>1, <2>2
<1> HIDE DEF S
<1>4. Min(S) \in S /\ Min(S) <= k
  <2>1. S \subseteq Nat /\ S # {}
    BY <1>2, <1>3
  <2> QED BY <1>3, <2>1, MinIn
<1>5. Min(S) = k
  <2> DEFINE m == Min(S)
  <2>1. m \in S /\ m <= k
    BY <1>4
  <2> HIDE DEF m
  <2>2. m \notin 1..(k - 1)
    BY <1>3, <2>1
  <2>3. m \in 1..Len(path)
    BY <1>2, <2>1
  <2>4. m = k
    BY <1>2, <2>1, <2>2, <2>3
  <2> QED BY <2>4 DEF m
<1>6. i.apis[name] = path[k]
  BY DEF IsFirst
<1> QED BY <1>1, <1>5, <1>6

\* plugin_get_api()
LEMMA GetApiEnd ==
    ASSUME NEW i, Consistent(i), path \in Seq(Libs), NEW name, name # NULL
    PROVE  LET j == GetApi(i, name)
           IN  /\ Consistent(j) /\ Kept(i, j)
               /\ ~Has(i, name) /\ Has(j, name) => j.apis[name] = First(path, name)
               /\ ~Has(j, name) => name \notin Offered(path)
<1> DEFINE j == GetApi(i, name)
<1>1. CASE Has(i, name)
  BY <1>1 DEF GetApi, Kept
<1>2. CASE ~Has(i, name)
  <2> DEFINE own == Load(i, name, Called(name))
             all == Load(own.info, name, Libs)
  <2>1. j = IF own.found THEN own.info ELSE all.info
    BY <1>2 DEF GetApi
  <2>2. Consistent(own.info) /\ Kept(i, own.info) /\ (own.found => Has(own.info, name))
        /\ IF own.found THEN \E k \in 1..Len(path) : IsFirst(own.info, name, Called(name), k)
           ELSE ~Has(own.info, name) /\ \A k \in 1..Len(path) : ~Suits(name, Called(name), k)
    <3> HIDE DEF own
    <3>1. own = Load(i, name, Called(name))
      BY DEF own
    <3> QED BY <1>2, <3>1, LoadEnd
  <2> HIDE DEF own
  <2>3. CASE own.found
    <3>1. j.apis[name] = First(path, name)
      BY <2>1, <2>2, <2>3, FirstIs
    <3> QED BY <2>1, <2>2, <2>3, <3>1
  <2>4. CASE ~own.found
    <3>1. Consistent(all.info) /\ Kept(own.info, all.info) /\ (all.found => Has(all.info, name))
          /\ IF all.found THEN \E k \in 1..Len(path) : IsFirst(all.info, name, Libs, k)
             ELSE ~Has(all.info, name) /\ \A k \in 1..Len(path) : ~Suits(name, Libs, k)
      <4> HIDE DEF all
      <4>1. all = Load(own.info, name, Libs)
        BY DEF all
      <4> QED BY <2>2, <2>4, <4>1, LoadEnd
    <3> HIDE DEF all
    <3>2. Kept(i, all.info)
      BY <2>2, <3>1 DEF Kept
    <3>3. CASE all.found
      <4>1. j.apis[name] = First(path, name)
        BY <2>1, <2>2, <2>4, <3>1, <3>3, FirstIs
      <4> QED BY <2>1, <2>4, <3>1, <3>2, <3>3, <4>1
    <3>4. CASE ~all.found
      <4>1. name \notin Offered(path)
        BY <3>1, <3>4 DEF Offered, Suits
      <4> QED BY <2>1, <2>4, <3>1, <3>2, <3>4, <4>1
    <3> QED BY <3>3, <3>4
  <2> QED BY <2>3, <2>4
<1> QED BY <1>1, <1>2

----------------------------------------------------------------------------
(* The steps.                                                               *)

\* The invariant of the next state, conjunct by conjunct
LEMMA NextState ==
    ASSUME path' \in SearchPaths, passes' \in 0..1, call' \in {"idle", "load_all", "freed"},
           IF call' = "freed" THEN DOMAIN info'.paths = {} ELSE Consistent(info'),
           kind' = "mapping" => hash' \in {NULL, loaded'},
           kind' = "mapping" /\ answer'.how = "missing" => loaded' = path',
           answer'.how = "missing" => answer'.name \notin Offered(path'),
           answer'.how = "searched" /\ call' # "freed" =>
             Has(info', answer'.name) /\ info'.apis[answer'.name] = First(path', answer'.name),
           passes' = 1 => call' = "load_all" /\ Offered(path') \subseteq DOMAIN info'.apis
    PROVE  IInv'
<1>1. (Consistent(info))' <=> Consistent(info')
  BY DEF Consistent, From, InfoFields, Empty
<1>2. (Offered(path))' = Offered(path')
  BY DEF Offered, Offers, Reachable
<1>3. (First(path, answer.name))' = First(path', answer'.name)
  BY DEF First, Offers, Reachable, Called, Min
<1>4. (Has(info, answer.name))' <=> Has(info', answer'.name)
  BY DEF Has
<1> QED BY <1>1, <1>2, <1>3, <1>4 DEF IInv, MissingIsReloaded, GetFinds

\* What the invariant says while plugins are not freed
LEMMA Here ==
    ASSUME IInv, call # "freed"
    PROVE  /\ Consistent(info) /\ path \in Seq(Libs) /\ path # NULL
           /\ call # "load_all" => passes = 0
  BY PluginsAssumption DEF IInv

\* A step that changes nothing but what is registered, of which it loses nothing
LEMMA KeepsAnswer ==
    ASSUME IInv, call # "freed", call' \in {"idle", "load_all"},
           Consistent(info'), Kept(info, info'), passes' \in 0..1,
           passes' = 1 => call' = "load_all" /\ Offered(path) \subseteq DOMAIN info'.apis,
           UNCHANGED <<kind, path, hash, answer, loaded>>
    PROVE  IInv'
<1>1. answer.how = "searched" =>
        Has(info', answer.name) /\ info'.apis[answer.name] = First(path, answer.name)
  BY DEF IInv, GetFinds, Kept, Has
<1> QED BY <1>1, NextState DEF IInv, GetFinds, MissingIsReloaded

LEMMA GetStep ==
    ASSUME IInv, NEW name \in Names, Get(name)
    PROVE  IInv'
<1> DEFINE i == GetApi(info, name)
<1>1. call = "idle" /\ info' = i /\ UNCHANGED <<kind, path, hash, loaded, passes>>
  BY DEF Get
<1>2. name # NULL
  BY PluginsAssumption
<1>3. Consistent(info) /\ path \in Seq(Libs) /\ path # NULL /\ passes = 0
  BY <1>1, Here
<1>4. /\ Consistent(i) /\ Kept(info, i)
      /\ ~Has(info, name) /\ Has(i, name) => i.apis[name] = First(path, name)
      /\ ~Has(i, name) => name \notin Offered(path)
  BY <1>2, <1>3, GetApiEnd
<1>5. CASE ~Has(i, name) /\ Hash # hash
  <2>1. call' = "load_all" /\ UNCHANGED answer
    BY <1>5 DEF Get
  <2> HIDE DEF i
  <2> QED BY <1>1, <1>3, <1>4, <2>1, KeepsAnswer
<1>6. CASE ~(~Has(i, name) /\ Hash # hash)
  <2>1. answer' = Answer(i, name) /\ call' = call
    BY <1>6 DEF Get
  <2>2. answer'.name = name /\ answer'.how = IF Has(info, name) THEN "registered"
                                             ELSE IF ~Has(i, name) THEN "missing" ELSE "searched"
    BY <1>1, <2>1 DEF Answer
  <2> HIDE DEF i
  <2>3. kind = "mapping" /\ answer'.how = "missing" => loaded = path
    BY <1>3, <1>6, <2>2 DEF IInv, Hash
  <2>4. answer'.how = "missing" => name \notin Offered(path)
    BY <1>4, <2>2
  <2>5. answer'.how = "searched" => Has(i, name) /\ i.apis[name] = First(path, name)
    BY <1>4, <2>2
  <2>6. path \in SearchPaths /\ (kind = "mapping" => hash \in {NULL, loaded})
    BY DEF IInv
  <2> QED BY <1>1, <1>3, <1>4, <2>1, <2>2, <2>3, <2>4, <2>5, <2>6, NextState
<1> QED BY <1>5, <1>6

LEMMA StartLoadAll ==
    ASSUME IInv, InitIter \/ LoadAll
    PROVE  IInv'
<1>1. /\ call = "idle" /\ call' = "load_all"
      /\ UNCHANGED <<kind, path, info, hash, answer, loaded, passes>>
  BY DEF InitIter, LoadAll
<1>2. Consistent(info) /\ Kept(info, info) /\ passes = 0
  BY <1>1, Here DEF Kept
<1> QED BY <1>1, <1>2, KeepsAnswer

\* A pass registers all there is, and when it finds something the pass before,
\* if there was one, did not.
LEMMA Pass ==
    ASSUME IInv, call = "load_all"
    PROVE  LET pass == Load(info, NULL, Libs)
           IN  /\ Consistent(pass.info) /\ Kept(info, pass.info)
               /\ Offered(path) \subseteq DOMAIN pass.info.apis
               /\ pass.loaded => passes = 0
<1> DEFINE pass == Load(info, NULL, Libs)
<1>1. Consistent(info) /\ path \in Seq(Libs)
  BY Here
<1>2. /\ Consistent(pass.info) /\ Kept(info, pass.info)
      /\ \A j \in 1..Len(path) :
           Tried(Libs, j) => Reachable(path[j]) \subseteq DOMAIN pass.info.apis
      /\ pass.loaded => \E j \in 1..Len(path) :
           Tried(Libs, j) /\ \E n \in Reachable(path[j]) : n \notin DOMAIN info.apis
  <2> HIDE DEF pass
  <2>1. pass = Load(info, NULL, Libs)
    BY DEF pass
  <2> QED BY <1>1, <2>1, LoadEnd
<1> HIDE DEF pass
<1>3. \A k \in 1..Len(path) : path[k] \in Libs
  BY <1>1
<1>4. Offered(path) \subseteq DOMAIN pass.info.apis
  <2> SUFFICES ASSUME NEW n \in Offered(path) PROVE n \in DOMAIN pass.info.apis
    OBVIOUS
  <2>1. PICK k \in 1..Len(path) : Offers(path[k], n)
    BY DEF Offered
  <2>2. Tried(Libs, k) /\ n \in Reachable(path[k])
    BY <1>3, <2>1 DEF Offers, Tried, Usable
  <2> QED BY <1>2, <2>2
<1>5. ASSUME pass.loaded PROVE passes = 0
  <2>0. PICK j \in 1..Len(path) : Tried(Libs, j)
                               /\ \E n \in Reachable(path[j]) : n \notin DOMAIN info.apis
    BY <1>2, <1>5
  <2>1. PICK n \in Reachable(path[j]) : Tried(Libs, j) /\ n \notin DOMAIN info.apis
    BY <2>0
  <2>2. n \in Names
    <3>1. PICK k \in 1..Len(Apis[path[j]]) : n = Apis[path[j]][k] /\ Apis[path[j]][k] # NULL
      <4>1. PICK k \in 1..Len(Apis[path[j]]) :
              n = Apis[path[j]][k] /\ \A m \in 1..k : Apis[path[j]][m] # NULL
        BY DEF Reachable
      <4>2. k \in 1..k
        BY <1>3, <2>1, PluginsAssumption
      <4> QED BY <4>1, <4>2
    <3>2. Apis[path[j]] \in Seq(Names \cup {NULL})
      BY <1>3, PluginsAssumption
    <3> QED BY <3>1, <3>2
  <2>3. n \in Offered(path)
    BY <2>1, <2>2 DEF Offered, Offers, Tried, Usable
  <2> QED BY <2>1, <2>3 DEF IInv
<1> QED BY <1>2, <1>4, <1>5 DEF pass

\* The APIs at the end of plugin_load_all()
LEMMA PassEnd ==
    ASSUME IInv, call = "load_all"
    PROVE  LET pass == Load(info, NULL, Libs)
               i == IF wanted = NULL THEN pass.info ELSE GetApi(pass.info, wanted)
           IN  /\ Consistent(i) /\ Kept(info, i)
               /\ Offered(path) \subseteq DOMAIN i.apis
               /\ wanted # NULL /\ ~Has(i, wanted) => wanted \notin Offered(path)
<1> DEFINE pass == Load(info, NULL, Libs)
<1>1. Consistent(pass.info) /\ Kept(info, pass.info)
      /\ Offered(path) \subseteq DOMAIN pass.info.apis
  BY Pass
<1>2. path \in Seq(Libs)
  BY Here
<1> HIDE DEF pass
<1>3. CASE wanted = NULL
  BY <1>1, <1>3 DEF pass
<1>4. CASE wanted # NULL
  <2> DEFINE i == GetApi(pass.info, wanted)
  <2>1. Consistent(i) /\ Kept(pass.info, i) /\ (~Has(i, wanted) => wanted \notin Offered(path))
    BY <1>1, <1>2, <1>4, GetApiEnd
  <2> HIDE DEF i
  <2>2. Kept(info, i) /\ Offered(path) \subseteq DOMAIN i.apis
    BY <1>1, <2>1 DEF Kept
  <2> QED BY <1>4, <2>1, <2>2 DEF i, pass
<1> QED BY <1>3, <1>4

LEMMA LoadPassStep ==
    ASSUME IInv, LoadPass
    PROVE  IInv'
<1> DEFINE pass == Load(info, NULL, Libs)
           i == IF wanted = NULL THEN pass.info ELSE GetApi(pass.info, wanted)
<1>1. call = "load_all" /\ UNCHANGED <<kind, path>>
  BY DEF LoadPass
<1>2. CASE pass.loaded
  <2>1. info' = pass.info /\ passes' = passes + 1 /\ UNCHANGED <<call, hash, answer, loaded>>
    BY <1>2 DEF LoadPass
  <2>2. /\ Consistent(pass.info) /\ Kept(info, pass.info)
        /\ Offered(path) \subseteq DOMAIN pass.info.apis /\ passes = 0
    BY <1>1, <1>2, Pass
  <2> HIDE DEF pass
  <2> QED BY <1>1, <2>1, <2>2, KeepsAnswer
<1>3. CASE ~pass.loaded
  <2>1. /\ info' = i /\ call' = "idle" /\ passes' = 0 /\ loaded' = path
        /\ hash' = IF wanted # NULL \/ kind = "mapping" THEN Hash ELSE hash
        /\ answer' = IF wanted = NULL THEN answer ELSE Answer(i, wanted)
    BY <1>3 DEF LoadPass
  <2>2. /\ Consistent(i) /\ Kept(info, i)
        /\ wanted # NULL /\ ~Has(i, wanted) => wanted \notin Offered(path)
    BY <1>1, PassEnd
  <2> HIDE DEF i
  <2>3. answer'.how = "missing" => answer'.name \notin Offered(path)
    <3>1. CASE wanted = NULL
      BY <2>1, <3>1 DEF IInv, GetFinds
    <3>2. CASE wanted # NULL
      BY <2>1, <2>2, <3>2 DEF Answer
    <3> QED BY <3>1, <3>2
  <2>4. answer'.how = "searched" =>
          Has(i, answer'.name) /\ i.apis[answer'.name] = First(path, answer'.name)
    <3>1. CASE wanted = NULL
      BY <1>1, <2>1, <2>2, <3>1 DEF IInv, GetFinds, Kept, Has
    <3>2. CASE wanted # NULL
      BY <1>1, <2>1, <3>2 DEF Answer
    <3> QED BY <3>1, <3>2
  <2>5. kind = "mapping" => hash' = path
    BY <2>1 DEF Hash
  <2>6. path \in SearchPaths
    BY DEF IInv
  <2> QED BY <1>1, <2>1, <2>2, <2>3, <2>4, <2>5, <2>6, NextState
<1> QED BY <1>2, <1>3

LEMMA RegisterApiStep ==
    ASSUME IInv, NEW name, RegisterApi(name)
    PROVE  IInv'
<1>1. /\ call = "idle" /\ ~Has(info, name)
      /\ info' = [info EXCEPT !.apis = With(info.apis, name, NULL)]
      /\ UNCHANGED <<kind, path, hash, call, answer, loaded, passes>>
  BY DEF RegisterApi
<1>2. Consistent(info) /\ passes = 0 /\ DOMAIN info = Fields
  BY <1>1, Here, FieldsOfInfo DEF Consistent
<1>3. /\ DOMAIN info' = Fields /\ info'.apis = With(info.apis, name, NULL)
      /\ info'.paths = info.paths /\ info'.count = info.count /\ info'.live = info.live
      /\ info'.opened = info.opened /\ info'.cut = info.cut
  BY <1>1, <1>2 DEF Fields
<1>4. /\ DOMAIN info'.apis = DOMAIN info.apis \cup {name} /\ info'.apis[name] = NULL
      /\ \A n \in DOMAIN info.apis : info'.apis[n] = info.apis[n]
      /\ name \notin DOMAIN info.apis
  BY <1>1, <1>3 DEF With, Has
<1>5. IsFiniteSet(DOMAIN info'.apis)
  BY <1>2, <1>4, FS_AddElement DEF Consistent
<1>6. Consistent(info')
  <2>1. \A l : From(info', l) = From(info, l)
    BY <1>3 DEF From
  <2>2. /\ \A n \in DOMAIN info'.apis : info'.apis[n] \in Libs \cup {NULL}
        /\ DOMAIN info'.paths = {n \in DOMAIN info'.apis : info'.apis[n] # NULL}
        /\ \A n \in DOMAIN info'.paths : info'.paths[n] = info'.apis[n]
    BY <1>2, <1>3, <1>4 DEF Consistent
  <2>3. /\ info'.count \in [Libs -> Nat] /\ info'.live \in [Libs -> Nat]
        /\ info'.opened \in [Libs -> Nat]
        /\ \A l \in Libs : info'.count[l] = Cardinality(From(info', l))
                           /\ info'.live[l] = info'.count[l]
    BY <1>2, <1>3, <2>1 DEF Consistent
  <2>4. \A n \in DOMAIN info'.paths :
          /\ info'.paths[n] \in Opens \cap HasSymbol
          /\ info'.opened[info'.paths[n]] > 0 \/ info'.paths[n] \in info'.cut
    BY <1>2, <1>3 DEF Consistent
  <2> QED BY <1>3, <1>5, <2>2, <2>3, <2>4, FieldsOfInfo DEF Consistent
<1>7. Kept(info, info')
  BY <1>4 DEF Kept
<1> QED BY <1>1, <1>2, <1>6, <1>7, KeepsAnswer

LEMMA UnloadStep ==
    ASSUME IInv, NEW name, Unload(name)
    PROVE  IInv'
<1>1. /\ call = "idle" /\ Has(info, name) /\ info' = Unregistered(info, name)
      /\ answer' = NoAnswer /\ UNCHANGED <<kind, path, hash, call, loaded, passes>>
  BY DEF Unload
<1>2. Consistent(info) /\ passes = 0
  BY <1>1, Here
<1>3. Consistent(info')
  BY <1>1, <1>2, Unregister
<1>4. answer'.how = "none"
  BY <1>1 DEF NoAnswer
<1>5. path \in SearchPaths /\ (kind = "mapping" => hash \in {NULL, loaded})
  BY DEF IInv
<1> QED BY <1>1, <1>2, <1>3, <1>4, <1>5, NextState

LEMMA ChangePathStep ==
    ASSUME IInv, ChangePath
    PROVE  IInv'
<1>1. /\ call = "idle" /\ path' \in SearchPaths /\ answer' = NoAnswer
      /\ UNCHANGED <<kind, info, hash, call, loaded, passes>>
  BY DEF ChangePath
<1>2. Consistent(info) /\ passes = 0
  BY <1>1, Here
<1>3. answer'.how = "none"
  BY <1>1 DEF NoAnswer
<1>4. kind = "mapping" => hash \in {NULL, loaded}
  BY DEF IInv
<1> QED BY <1>1, <1>2, <1>3, <1>4, NextState

LEMMA InfoFreeStep ==
    ASSUME IInv, InfoFree
    PROVE  IInv'
<1>1. /\ call = "idle" /\ call' = "freed"
      /\ UNCHANGED <<kind, path, hash, answer, loaded, passes>>
  BY DEF InfoFree
<1>2. Consistent(info) /\ passes = 0 /\ DOMAIN info = Fields
  BY <1>1, Here, FieldsOfInfo DEF Consistent
<1>3. info'.paths = <<>>
  BY <1>2 DEF InfoFree, Fields
<1>4. DOMAIN info'.paths = {}
  BY <1>3
<1> QED BY <1>1, <1>2, <1>4, NextState DEF IInv, GetFinds, MissingIsReloaded

LEMMA Stutter ==
    ASSUME IInv, UNCHANGED vars
    PROVE  IInv'
  BY NextState DEF IInv, vars, GetFinds, MissingIsReloaded

----------------------------------------------------------------------------
(* The invariant and the theorems.                                          *)

LEMMA InitIInv ==
    ASSUME Init
    PROVE  IInv
<1>1. /\ path \in SearchPaths /\ info = Empty /\ hash = NULL /\ call = "idle" /\ passes = 0
      /\ answer.how = "none"
  BY DEF Init, NoAnswer
<1>2. /\ DOMAIN Empty = InfoFields /\ DOMAIN Empty.apis = {} /\ DOMAIN Empty.paths = {}
      /\ Empty.count = [l \in Libs |-> 0] /\ Empty.live = [l \in Libs |-> 0]
      /\ Empty.opened = [l \in Libs |-> 0]
  BY DEF Empty, InfoFields
<1>3. \A l \in Libs : From(Empty, l) = {}
  BY <1>2 DEF From
<1>4. Consistent(Empty)
  BY <1>2, <1>3, FS_EmptySet DEF Consistent
<1> QED BY <1>1, <1>4 DEF IInv, MissingIsReloaded, GetFinds

LEMMA NextIInv ==
    ASSUME IInv, Next
    PROVE  IInv'
<1>1. CASE Freed
  BY <1>1, Stutter DEF Freed
<1> QED BY <1>1, GetStep, RegisterApiStep, UnloadStep, StartLoadAll, LoadPassStep,
           ChangePathStep, InfoFreeStep DEF Next

\* Every lookup, load, unload, change of the search path and the end of the
\* PluginInfo keep the counts of libraries and APIs, the open handles and what
\* the last lookup answered right.
THEOREM Invariance == Spec => []IInv
<1>1. Init => IInv
  BY InitIInv
<1>2. IInv /\ [Next]_vars => IInv'
  BY NextIInv, Stutter
<1> QED BY <1>1, <1>2, PTL DEF Spec

\* register_plugin(), plugin_unload() and the closing of libraries in
\* plugin_load(): each library is counted once for each of its registered APIs,
\* which are the only ones of it that are allocated, and is open as long as there
\* is one, but for a library that plugin_load() cut off.
THEOREM LibrariesAreExact == Spec => []LibrariesExact
<1>1. IInv => LibrariesExact
  <2> SUFFICES ASSUME IInv PROVE LibrariesExact
    OBVIOUS
  <2>1. RefsExact
    BY DEF IInv, RefsExact, Consistent, From
  <2>2. LibraryOpen
    BY DEF IInv, LibraryOpen, Consistent
  <2> QED BY <2>1, <2>2 DEF LibrariesExact
<1> QED BY <1>1, Invariance, PTL

\* plugin_get_api(): what the search path offers is found, in the file with the
\* name or else in the first that has it, whatever else the libraries on the way
\* offer; and a mapping plugin is missing only from the path that was loaded.
THEOREM LookupsAreExact == Spec => []LookupsExact
<1>1. IInv => LookupsExact
  BY DEF IInv, LookupsExact, GetFinds
<1> QED BY <1>1, Invariance, PTL

\* The loop of plugin_load_all() ends: after a pass that registers something
\* comes one that returns NULL.
THEOREM LoadingAllEnds == Spec => []LoadAllEnds
<1>1. IInv => LoadAllEnds
  BY DEF IInv, LoadAllEnds
<1> QED BY <1>1, Invariance, PTL

\* When plugin_load_all() returns, every API of the search path is registered.
THEOREM LoadingAllIsComplete == Spec => LoadAllComplete
<1> DEFINE Complete == call = "load_all" /\ call' = "idle" =>
                         Offered(path) \subseteq DOMAIN info'.apis
<1>1. IInv /\ [Next]_vars => [Complete]_vars
  <2> SUFFICES ASSUME IInv, Next, call = "load_all", call' = "idle"
               PROVE  Offered(path) \subseteq DOMAIN info'.apis
    BY DEF vars
  <2>1. LoadPass
    BY DEF Next, Get, InitIter, LoadAll, RegisterApi, Unload, ChangePath, InfoFree, Freed
  <2> DEFINE pass == Load(info, NULL, Libs)
             i == IF wanted = NULL THEN pass.info ELSE GetApi(pass.info, wanted)
  <2>2. info' = i
    BY <2>1 DEF LoadPass
  <2>3. Offered(path) \subseteq DOMAIN i.apis
    BY PassEnd
  <2> QED BY <2>2, <2>3
<1>2. Spec => [][Complete]_vars
  BY <1>1, Invariance, PTL DEF Spec
<1> QED BY <1>2 DEF LoadAllComplete
=============================================================================
