--------------------------- MODULE MappingProofs ---------------------------
(* Machine-checked proofs about Mapping: what the search finds is a finite  *)
(* construction, the cheapest one when the plugins form no cycle, and the   *)
(* inputs that it uses get their references back, for any plugins.          *)
EXTENDS Mapping, SequenceTheorems, NaturalsInduction, WellFoundedInduction, TLAPS

----------------------------------------------------------------------------
(* The inductive invariant of the search.                                   *)

PluginSet == [out : Uris, ins : Seq(Uris), cost : Nat]
FrameSet == [out : Uris, k : Nat, i : Int, cost : Int, via : {NULL} \cup PluginSet, best : Int]

\* The mapping to u is made by a plugin from mappings in c, whose cost it has,
Made(c, u) ==
    /\ c[u].via \in ToSet(plugins) /\ c[u].via.out = u
    /\ Inputs(c[u].via) \ given \subseteq DOMAIN c
    /\ c[u].cost = Total(c, c[u].via, Len(c[u].via.ins))
    /\ c[u].cost \in Nat

\* and what it needs is complete without it.
Based(c, u) ==
    \E T \in SUBSET DOMAIN c : Subs(c, u) \subseteq T /\ u \notin T /\ Closed(c, T)

\* The cheapest plugin of a frame so far
BestSound(c, f) ==
    f.via # NULL =>
       /\ f.via \in ToSet(plugins) /\ f.via.out = f.out
       /\ Inputs(f.via) \ given \subseteq DOMAIN c
       /\ f.best = Total(c, f.via, Len(f.via.ins))

\* The plugin that a frame realises
TrySound(c, f) ==
    f.i # -1 =>
       /\ f.i \in Nat /\ f.k \in DOMAIN plugins /\ plugins[f.k].out = f.out
       /\ f.i <= Len(plugins[f.k].ins)
       /\ \A n \in 1..f.i : plugins[f.k].ins[n] \in given \cup DOMAIN c
       /\ f.cost = Total(c, plugins[f.k], f.i)

\* Frames are of different outputs, none of which exists; each is the next
\* input of the frame below.
StackSound(c, st) ==
    /\ st \in Seq(FrameSet)
    /\ \A j \in 1..Len(st) :
          /\ st[j].out \notin given \cup DOMAIN c
          /\ BestSound(c, st[j]) /\ TrySound(c, st[j])
          /\ st[j].i # -1 => \A l \in 1..j : st[l].out \notin Inputs(plugins[st[j].k])
          /\ \A l \in 1..Len(st) : l # j => st[l].out # st[j].out
    /\ \A j \in 1..Len(st) - 1 :
          /\ st[j].i # -1 /\ st[j].i < Len(plugins[st[j].k].ins)
          /\ st[j + 1].out = plugins[st[j].k].ins[st[j].i + 1]

CreatedSound(c) ==
    /\ DOMAIN c \subseteq Uris \ given
    /\ \A u \in DOMAIN c : Made(c, u) /\ Based(c, u)

\* Nothing in w is cheaper than what the search has made, and it gives up
\* only on what is not in w.
DeadSound(w, d) == d \subseteq Uris \ given /\ \A x \in w : x[1] \notin d
CreatedBest(w, c) == \A x \in w : x[1] \in DOMAIN c => c[x[1]].cost <= x[2]
Past(f, k) == k < f.k \/ (k = f.k /\ f.i = -1)
FrameBest(w, f) ==
    \A k \in DOMAIN plugins : plugins[k].out = f.out /\ Past(f, k) =>
       \A o \in Offers(given, w, plugins[k]) :
          f.via # NULL /\ f.best <= Total(o, plugins[k], Len(plugins[k].ins))

Optimal ==
    /\ DeadSound(Ways(plugins, given), dead)
    /\ CreatedBest(Ways(plugins, given), created)
    /\ \A j \in 1..Len(stack) : FrameBest(Ways(plugins, given), stack[j])

SearchInv ==
    /\ plugins \in PluginLists /\ given \in Givens /\ target \in Targets /\ target \notin given
    /\ CreatedSound(created) /\ StackSound(created, stack)
    /\ Len(stack) > 0 => stack[1].out = target
    /\ Acyclic(plugins) => Optimal
    /\ Len(stack) = 0 /\ target \notin DOMAIN created => target \in dead

\* The references of the inputs that count
Held(n) ==
    \A u \in (IF found THEN Used(created) ELSE given) :
       refs[u] = IF u = target THEN n + 1 ELSE n

IInv ==
    /\ plugins \in PluginLists /\ given \in Givens /\ target \in Targets
    /\ phase \in {"create", "search", "map", "free", "done", "aborted", "passed NULL"}
    /\ phase = "create" => \A u \in given : refs[u] = 1
    /\ refs \in [Uris -> Int]
    /\ phase \in {"search", "map"} => \A u \in given : refs[u] = 2
    /\ phase = "free" => Held(2)
    /\ phase = "done" => Held(1)
    /\ phase = "create" => stack = << >> /\ dead = {} /\ created = << >> /\ ~found
    /\ phase = "search" => SearchInv /\ ~found
    /\ phase = "map" => found
    /\ phase \notin {"create", "search"} /\ target \in given =>
          found /\ created = [u \in {target} |-> [via |-> NULL, cost |-> 0]]
    /\ WellFounded /\ Cheapest

----------------------------------------------------------------------------
(* The cost of a plugin, input by input.                                    *)

\* A set of numbers that has 0 and each successor has all numbers.
LEMMA SetInduction ==
    ASSUME NEW T, 0 \in T, \A n \in Nat : n \in T => n + 1 \in T
    PROVE  Nat \subseteq T
<1> SUFFICES ASSUME Nat \ T # {} PROVE FALSE
  OBVIOUS
<1>1. PICK m \in Nat \ T : \A n \in Nat \ T : <<n, m>> \notin OpToRel(<, Nat)
  BY NatLessThanWellFounded, WFMin
<1>2. m # 0 /\ m - 1 \in Nat /\ m \in Nat
  OBVIOUS
<1>3. m - 1 \in T
  <2>1. <<m - 1, m>> \in OpToRel(<, Nat)
    BY <1>2 DEF OpToRel
  <2> QED BY <1>1, <1>2, <2>1
<1> QED BY <1>2, <1>3

LEMMA TotalDef ==
    ASSUME NEW c, NEW p, Len(p.ins) \in Nat
    PROVE  /\ Total(c, p, 0) = p.cost
           /\ \A n \in 1..Len(p.ins) : Total(c, p, n) = Total(c, p, n - 1) + Price(c, p.ins[n])
<1> DEFINE L == Len(p.ins)
           d(n) == Price(c, p.ins[n])
           Works(f, k) == f = [n \in 0..k |-> IF n = 0 THEN p.cost ELSE f[n - 1] + d(n)]
           T == {k \in Nat : \E f : Works(f, k)}
<1> HIDE DEF d
<1>1. 0 \in T
  <2> DEFINE f == [n \in 0..0 |-> p.cost]
  <2>1. f = [n \in 0..0 |-> IF n = 0 THEN p.cost ELSE f[n - 1] + d(n)]
    OBVIOUS
  <2> QED BY <2>1
<1>2. ASSUME NEW k \in Nat, k \in T PROVE k + 1 \in T
  <2>1. PICK f : Works(f, k)
    BY <1>2
  <2> DEFINE last == f[k] + d(k + 1)
             g == [n \in 0..(k + 1) |-> IF n <= k THEN f[n] ELSE last]
  <2>2. ASSUME NEW n \in 0..(k + 1)
        PROVE  g[n] = IF n = 0 THEN p.cost ELSE g[n - 1] + d(n)
    <3>1. CASE n = 0
      BY <2>1, <3>1
    <3>2. CASE n # 0 /\ n <= k
      <4>1. g[n] = f[n] /\ g[n - 1] = f[n - 1]
        BY <3>2
      <4>2. f[n] = f[n - 1] + d(n)
        BY <2>1, <3>2
      <4> QED BY <3>2, <4>1, <4>2
    <3>3. CASE n = k + 1
      <4>1. g[n] = last /\ g[n - 1] = f[k] /\ n # 0
        BY <3>3
      <4> QED BY <3>3, <4>1
    <3> QED BY <3>1, <3>2, <3>3
  <2>3. Works(g, k + 1)
    BY <2>2
  <2> HIDE DEF Works, g
  <2> QED BY <2>3
<1>3. PICK f : Works(f, L)
  <2> HIDE DEF T
  <2>1. L \in T
    BY <1>1, <1>2, SetInduction
  <2> QED BY <2>1 DEF T
<1> DEFINE h == CHOOSE e : Works(e, L)
<1>4. Works(h, L)
  BY <1>3
<1>5. \A n : Total(c, p, n) = h[n]
  BY DEF Total, d
<1> HIDE DEF h
<1>6. h[0] = p.cost /\ \A n \in 1..L : h[n] = h[n - 1] + d(n)
  BY <1>4
<1> QED BY <1>5, <1>6 DEF d

LEMMA TotalNat ==
    ASSUME NEW c, NEW p, Len(p.ins) \in Nat, p.cost \in Nat,
           NEW m \in 0..Len(p.ins), \A n \in 1..m : Price(c, p.ins[n]) \in Nat
    PROVE  Total(c, p, m) \in Nat
<1> DEFINE t(n) == Total(c, p, n)
           d(n) == Price(c, p.ins[n])
<1>1. t(0) = p.cost /\ \A n \in 1..Len(p.ins) : t(n) = t(n - 1) + d(n)
  BY TotalDef
<1>2. \A n \in 1..m : d(n) \in Nat
  OBVIOUS
<1> HIDE DEF t, d
<1> DEFINE T == {n \in Nat : n <= m => t(n) \in Nat}
<1>3. 0 \in T
  BY <1>1
<1>4. ASSUME NEW n \in Nat, n \in T PROVE n + 1 \in T
  <2> SUFFICES ASSUME n + 1 <= m PROVE t(n + 1) \in Nat
    OBVIOUS
  <2>1. t(n + 1) = t(n) + d(n + 1)
    BY <1>1
  <2>2. t(n) \in Nat /\ d(n + 1) \in Nat
    BY <1>2, <1>4
  <2> QED BY <2>1, <2>2
<1> HIDE DEF T
<1>5. Nat \subseteq T
  BY <1>3, <1>4, SetInduction
<1>6. m \in T
  BY <1>5
<1> QED BY <1>6 DEF T, t

\* The cost only depends on the prices of the inputs,
LEMMA TotalSame ==
    ASSUME NEW c, NEW e, NEW p, Len(p.ins) \in Nat,
           NEW m \in 0..Len(p.ins), \A n \in 1..m : Price(c, p.ins[n]) = Price(e, p.ins[n])
    PROVE  Total(c, p, m) = Total(e, p, m)
<1> DEFINE t(n) == Total(c, p, n)
           v(n) == Total(e, p, n)
           d(n) == Price(c, p.ins[n])
           g(n) == Price(e, p.ins[n])
<1>1. t(0) = p.cost /\ \A n \in 1..Len(p.ins) : t(n) = t(n - 1) + d(n)
  BY TotalDef
<1>2. v(0) = p.cost /\ \A n \in 1..Len(p.ins) : v(n) = v(n - 1) + g(n)
  BY TotalDef
<1>3. \A n \in 1..m : d(n) = g(n)
  OBVIOUS
<1> HIDE DEF t, d, v, g
<1> DEFINE T == {n \in Nat : n <= m => t(n) = v(n)}
<1>4. 0 \in T
  BY <1>1, <1>2
<1>5. ASSUME NEW n \in Nat, n \in T PROVE n + 1 \in T
  <2> SUFFICES ASSUME n + 1 <= m PROVE t(n + 1) = v(n + 1)
    OBVIOUS
  <2>1. t(n + 1) = t(n) + d(n + 1) /\ v(n + 1) = v(n) + g(n + 1)
    BY <1>1, <1>2
  <2>2. t(n) = v(n) /\ d(n + 1) = g(n + 1)
    BY <1>3, <1>5
  <2> QED BY <2>1, <2>2
<1> HIDE DEF T
<1>6. m \in T
  BY <1>4, <1>5, SetInduction
<1> QED BY <1>6 DEF T, t, v

\* and is lower where they are.
LEMMA TotalLower ==
    ASSUME NEW c, NEW e, NEW p, Len(p.ins) \in Nat, p.cost \in Int,
           \A n \in 1..Len(p.ins) :
              /\ Price(c, p.ins[n]) \in Int /\ Price(e, p.ins[n]) \in Int
              /\ Price(c, p.ins[n]) <= Price(e, p.ins[n])
    PROVE  Total(c, p, Len(p.ins)) <= Total(e, p, Len(p.ins))
<1> DEFINE m == Len(p.ins)
           t(n) == Total(c, p, n)
           v(n) == Total(e, p, n)
           d(n) == Price(c, p.ins[n])
           g(n) == Price(e, p.ins[n])
<1>1. t(0) = p.cost /\ \A n \in 1..m : t(n) = t(n - 1) + d(n)
  BY TotalDef
<1>2. v(0) = p.cost /\ \A n \in 1..m : v(n) = v(n - 1) + g(n)
  BY TotalDef
<1>3. \A n \in 1..m : d(n) \in Int /\ g(n) \in Int /\ d(n) <= g(n)
  OBVIOUS
<1>0. m \in Nat
  OBVIOUS
<1> HIDE DEF t, d, v, g, m
<1> DEFINE T == {n \in Nat : n <= m => t(n) \in Int /\ v(n) \in Int /\ t(n) <= v(n)}
<1>4. 0 \in T
  BY <1>1, <1>2
<1>5. ASSUME NEW n \in Nat, n \in T PROVE n + 1 \in T
  <2> SUFFICES ASSUME n + 1 <= m
               PROVE  t(n + 1) \in Int /\ v(n + 1) \in Int /\ t(n + 1) <= v(n + 1)
    OBVIOUS
  <2>1. t(n + 1) = t(n) + d(n + 1) /\ v(n + 1) = v(n) + g(n + 1)
    BY <1>0, <1>1, <1>2
  <2>2. t(n) \in Int /\ v(n) \in Int /\ t(n) <= v(n)
    BY <1>0, <1>5
  <2>3. d(n + 1) \in Int /\ g(n + 1) \in Int /\ d(n + 1) <= g(n + 1)
    BY <1>0, <1>3
  <2> QED BY <2>1, <2>2, <2>3
<1> HIDE DEF T
<1>6. m \in T
  BY <1>0, <1>4, <1>5, SetInduction
<1> QED BY <1>0, <1>6 DEF T, t, v, m

----------------------------------------------------------------------------
(* All ways to make something.                                              *)

LEMMA OfferPrices ==
    ASSUME NEW gv, NEW w \in SUBSET (Uris \X Nat), NEW p, NEW o \in Offers(gv, w, p), NEW x
    PROVE  Price(o, x) \in Nat
<1>1. CASE x \in DOMAIN o
  <2>1. << x, o[x].cost >> \in w
    BY <1>1 DEF Offers
  <2>2. o[x].cost \in Nat
    BY <2>1
  <2> QED BY <1>1, <2>2 DEF Price
<1>2. CASE x \notin DOMAIN o
  BY <1>2 DEF Price
<1> QED BY <1>1, <1>2

LEMMA OffersGrow ==
    ASSUME NEW gv, NEW w, NEW v, w \subseteq v, NEW p
    PROVE  Offers(gv, w, p) \subseteq Offers(gv, v, p)
<1> SUFFICES ASSUME NEW o \in Offers(gv, w, p) PROVE o \in Offers(gv, v, p)
  OBVIOUS
<1>1. /\ o \in [Inputs(p) \ gv -> [cost : {x[2] : x \in w}]]
      /\ \A x \in DOMAIN o : << x, o[x].cost >> \in w
  BY DEF Offers
<1>2. [cost : {x[2] : x \in w}] \subseteq [cost : {x[2] : x \in v}]
  OBVIOUS
<1>3. o \in [Inputs(p) \ gv -> [cost : {x[2] : x \in v}]]
  BY <1>1, <1>2
<1> QED BY <1>1, <1>3 DEF Offers

LEMMA PluginsTyped ==
    ASSUME NEW list \in PluginLists
    PROVE  /\ list \in Seq(PluginSet) /\ Len(list) \in Nat
           /\ \A p \in ToSet(list) :
                 /\ p # NULL /\ p \in PluginSet /\ p.out \in Uris /\ p.cost \in Nat
                 /\ p.ins \in Seq(Uris) /\ Len(p.ins) \in Nat
                 /\ Inputs(p) \subseteq Uris /\ \A n \in 1..Len(p.ins) : p.ins[n] \in Inputs(p)
<1>1. list \in Seq(PluginSet)
  BY InputAssumption DEF PluginSet
<1>2. ASSUME NEW p \in ToSet(list)
      PROVE  /\ p # NULL /\ p \in PluginSet /\ p.out \in Uris /\ p.cost \in Nat
             /\ p.ins \in Seq(Uris) /\ Len(p.ins) \in Nat
             /\ Inputs(p) \subseteq Uris /\ \A n \in 1..Len(p.ins) : p.ins[n] \in Inputs(p)
  <2>1. PICK k \in DOMAIN list : p = list[k]
    BY DEF ToSet
  <2>2. p \in PluginSet
    BY <1>1, <2>1
  <2>3. p # NULL
    BY <2>1, InputAssumption
  <2>4. p.out \in Uris /\ p.cost \in Nat /\ p.ins \in Seq(Uris)
    BY <2>2 DEF PluginSet
  <2>5. Inputs(p) \subseteq Uris /\ \A n \in 1..Len(p.ins) : p.ins[n] \in Inputs(p)
    BY <2>4 DEF Inputs, ToSet
  <2> QED BY <2>2, <2>3, <2>4, <2>5
<1> QED BY <1>1, <1>2

LEMMA WaysMade ==
    ASSUME NEW list \in PluginLists, NEW gv
    PROVE  /\ Ways(list, gv) \in SUBSET (Uris \X Nat)
           /\ \A w \in Ways(list, gv) : \E p \in ToSet(list) : \E o \in Offers(gv, Ways(list, gv), p) :
                 w = << p.out, Total(o, p, Len(p.ins)) >>
<1> DEFINE L == Len(list)
           add(w) == UNION {{<< p.out, Total(o, p, Len(p.ins)) >> : o \in Offers(gv, w, p)} :
                              p \in ToSet(list)}
           Works(f, k) == f = [n \in 0..k |-> IF n = 0 THEN {} ELSE f[n - 1] \cup add(f[n - 1])]
           T == {k \in Nat : \E f : Works(f, k)}
<1>0. L \in Nat
  BY PluginsTyped
<1> HIDE DEF add
<1>1. 0 \in T
  <2> DEFINE f == [n \in 0..0 |-> {}]
  <2>1. f = [n \in 0..0 |-> IF n = 0 THEN {} ELSE f[n - 1] \cup add(f[n - 1])]
    OBVIOUS
  <2> HIDE DEF f
  <2> QED BY <2>1
<1>2. ASSUME NEW k \in Nat, k \in T PROVE k + 1 \in T
  <2>1. PICK f : Works(f, k)
    BY <1>2
  <2> DEFINE last == f[k] \cup add(f[k])
             g == [n \in 0..(k + 1) |-> IF n <= k THEN f[n] ELSE last]
  <2>2. ASSUME NEW n \in 0..(k + 1)
        PROVE  g[n] = IF n = 0 THEN {} ELSE g[n - 1] \cup add(g[n - 1])
    <3>1. CASE n = 0
      BY <2>1, <3>1
    <3>2. CASE n # 0 /\ n <= k
      <4>1. g[n] = f[n] /\ g[n - 1] = f[n - 1]
        BY <3>2
      <4>2. f[n] = f[n - 1] \cup add(f[n - 1])
        <5> HIDE DEF g
        <5>1. n \in 0..k
          BY <3>2
        <5> QED BY <2>1, <3>2, <5>1
      <4> HIDE DEF g
      <4> QED BY <3>2, <4>1, <4>2
    <3>3. CASE n = k + 1
      <4>1. g[n] = last /\ g[n - 1] = f[k] /\ n # 0
        BY <3>3
      <4> HIDE DEF g
      <4> QED BY <3>3, <4>1
    <3> QED BY <3>1, <3>2, <3>3
  <2>3. g = [n \in 0..(k + 1) |-> g[n]]
    OBVIOUS
  <2>4. Works(g, k + 1)
    <3> HIDE DEF g
    <3> QED BY <2>2, <2>3
  <2> HIDE DEF Works, g
  <2> QED BY <2>4
<1>3. PICK f : Works(f, L)
  <2> HIDE DEF T
  <2>1. L \in T
    BY <1>0, <1>1, <1>2, SetInduction
  <2> QED BY <2>1 DEF T
<1> DEFINE h == CHOOSE e : Works(e, L)
<1>4. Works(h, L)
  BY <1>3
<1>5. Ways(list, gv) = h[L]
  BY DEF Ways, add
<1> HIDE DEF h
<1>6. h[0] = {} /\ \A n \in 1..L : h[n] = h[n - 1] \cup add(h[n - 1])
  BY <1>0, <1>4
<1> DEFINE Good(W) == /\ W \in SUBSET (Uris \X Nat)
                      /\ \A w \in W : \E p \in ToSet(list) : \E o \in Offers(gv, W, p) :
                            w = << p.out, Total(o, p, Len(p.ins)) >>
           U == {n \in Nat : n <= L => Good(h[n])}
<1>7. 0 \in U
  BY <1>6
<1>8. ASSUME NEW W, Good(W) PROVE Good(W \cup add(W))
  <2> DEFINE V == W \cup add(W)
  <2>1. ASSUME NEW w \in V
        PROVE  w \in Uris \X Nat /\ \E p \in ToSet(list) : \E o \in Offers(gv, V, p) :
                            w = << p.out, Total(o, p, Len(p.ins)) >>
    <3>1. PICK p \in ToSet(list) : \E o \in Offers(gv, W, p) :
                            w = << p.out, Total(o, p, Len(p.ins)) >>
      BY <1>8, <2>1 DEF add
    <3>2. PICK o \in Offers(gv, W, p) : w = << p.out, Total(o, p, Len(p.ins)) >>
      BY <3>1
    <3> HIDE DEF V
    <3>3. W \subseteq V
      BY DEF V
    <3>4. o \in Offers(gv, V, p)
      BY <3>3, OffersGrow
    <3>5. p.out \in Uris /\ p.cost \in Nat /\ Len(p.ins) \in Nat
      BY PluginsTyped
    <3>6. \A x : Price(o, x) \in Nat
      BY <1>8, OfferPrices
    <3>7. Total(o, p, Len(p.ins)) \in Nat
      BY <3>5, <3>6, TotalNat
    <3> QED BY <3>2, <3>4, <3>5, <3>7
  <2> QED BY <2>1
<1>9. ASSUME NEW n \in Nat, n \in U PROVE n + 1 \in U
  <2> SUFFICES ASSUME n + 1 <= L PROVE Good(h[n + 1])
    OBVIOUS
  <2>1. h[n + 1] = h[n] \cup add(h[n])
    BY <1>0, <1>6
  <2>2. Good(h[n])
    BY <1>0, <1>9
  <2> HIDE DEF Good
  <2> QED BY <1>8, <2>1, <2>2
<1>10. L \in U
  <2> HIDE DEF U
  <2> QED BY <1>0, <1>7, <1>9, SetInduction
<1> HIDE DEF L
<1> QED BY <1>0, <1>5, <1>10

----------------------------------------------------------------------------
(* Mappings that exist.                                                     *)

LEMMA PricesTyped ==
    ASSUME NEW c, CreatedSound(c), NEW x
    PROVE  Price(c, x) \in Nat
BY DEF CreatedSound, Made, Price

LEMMA TotalKept ==
    ASSUME NEW c, NEW d, NEW p, Len(p.ins) \in Nat, NEW m \in 0..Len(p.ins),
           \A n \in 1..m : p.ins[n] \in given \cup DOMAIN c,
           DOMAIN d \cap given = {}, DOMAIN c \subseteq DOMAIN d,
           \A x \in DOMAIN c : d[x] = c[x]
    PROVE  Total(c, p, m) = Total(d, p, m)
<1>1. ASSUME NEW n \in 1..m PROVE Price(c, p.ins[n]) = Price(d, p.ins[n])
  BY DEF Price
<1> QED BY <1>1, TotalSame

\* A mapping that is added is made from those before it.
LEMMA CreatedGrows ==
    ASSUME plugins \in PluginLists, NEW c, CreatedSound(c),
           NEW u \in Uris, u \notin given, u \notin DOMAIN c,
           NEW p \in ToSet(plugins), p.out = u, Inputs(p) \ given \subseteq DOMAIN c,
           NEW a, a = Total(c, p, Len(p.ins)),
           NEW d, DOMAIN d = DOMAIN c \cup {u}, \A x \in DOMAIN c : d[x] = c[x],
           d[u] = [via |-> p, cost |-> a]
    PROVE  CreatedSound(d)
<1>1. /\ DOMAIN d = DOMAIN c \cup {u} /\ \A x \in DOMAIN c : d[x] = c[x]
      /\ d[u] = [via |-> p, cost |-> a] /\ DOMAIN d \subseteq Uris \ given
  BY DEF CreatedSound
<1>2. ASSUME NEW q \in ToSet(plugins), Inputs(q) \ given \subseteq DOMAIN c
      PROVE  Total(d, q, Len(q.ins)) = Total(c, q, Len(q.ins)) /\ Total(c, q, Len(q.ins)) \in Nat
  <2>1. /\ Len(q.ins) \in Nat /\ q.cost \in Nat
        /\ \A n \in 1..Len(q.ins) : q.ins[n] \in given \cup DOMAIN c
    BY <1>2, PluginsTyped
  <2>2. Len(q.ins) \in 0..Len(q.ins)
    BY <2>1
  <2>3. Total(d, q, Len(q.ins)) = Total(c, q, Len(q.ins))
    <3>1. DOMAIN d \cap given = {} /\ DOMAIN c \subseteq DOMAIN d
      BY <1>1
    <3>2. PICK m \in 0..Len(q.ins) : m = Len(q.ins)
      BY <2>2
    <3>3. \A n \in 1..m : q.ins[n] \in given \cup DOMAIN c
      BY <2>1, <3>2
    <3>4. Total(c, q, m) = Total(d, q, m)
      BY <1>1, <2>1, <3>1, <3>3, TotalKept
    <3> QED BY <3>2, <3>4
  <2>4. Total(c, q, Len(q.ins)) \in Nat
    BY <2>1, <2>2, PricesTyped, TotalNat
  <2> QED BY <2>3, <2>4
<1>3. ASSUME NEW x \in DOMAIN d PROVE Made(d, x)
  <2>1. CASE x = u
    BY <1>1, <1>2, <2>1 DEF Made
  <2>2. CASE x \in DOMAIN c
    <3>1. Made(c, x)
      BY <2>2 DEF CreatedSound
    <3> QED BY <1>1, <1>2, <2>2, <3>1 DEF Made
  <2> QED BY <1>1, <2>1, <2>2
<1>4. ASSUME NEW x \in DOMAIN c PROVE Subs(d, x) = Subs(c, x) /\ Subs(c, x) \subseteq DOMAIN c
  <2>1. Made(c, x) /\ d[x] = c[x]
    BY <1>1 DEF CreatedSound
  <2> QED BY <2>1 DEF Made, Subs
<1>5. ASSUME NEW x \in DOMAIN d PROVE Based(d, x)
  <2>1. CASE x = u
    <3>1. Subs(d, x) \subseteq DOMAIN c
      BY <1>1, <2>1 DEF Subs
    <3>2. Closed(d, DOMAIN c)
      BY <1>4 DEF Closed
    <3> QED BY <1>1, <2>1, <3>1, <3>2 DEF Based
  <2>2. CASE x \in DOMAIN c
    <3>1. PICK T \in SUBSET DOMAIN c : Subs(c, x) \subseteq T /\ x \notin T /\ Closed(c, T)
      BY <2>2 DEF CreatedSound, Based
    <3>2. Closed(d, T)
      BY <1>4, <3>1 DEF Closed
    <3>3. Subs(d, x) \subseteq T
      BY <1>4, <2>2, <3>1
    <3> QED BY <1>1, <3>1, <3>2, <3>3 DEF Based
  <2> QED BY <1>1, <2>1, <2>2
<1> QED BY <1>1, <1>3, <1>5 DEF CreatedSound

\* Freeing the mappings that the target does not use leaves a construction.
\* What WellFounded says of the mapping d to the target
Construction(d) ==
    /\ target \in DOMAIN d
    /\ DOMAIN d = Reach(d, {target})
    /\ \A u \in DOMAIN d :
          /\ d[u].via \in ToSet(plugins) /\ d[u].via.out = u
          /\ Subs(d, u) \subseteq DOMAIN d
          /\ u \notin Reach(d, Subs(d, u))
          /\ d[u].cost = Total(d, d[u].via, Len(d[u].via.ins))

LEMMA KeptIsConstruction ==
    ASSUME plugins \in PluginLists, NEW c, CreatedSound(c), target \in DOMAIN c,
           NEW d, d = Kept(c)
    PROVE  Construction(d) /\ d[target] = c[target]
<1> DEFINE R == Reach(c, {target})
<1>1. R \subseteq DOMAIN c /\ target \in R
  BY DEF Reach
<1>2. DOMAIN d = R /\ \A u \in R : d[u] = c[u]
  BY DEF Kept
<1>3. ASSUME NEW u \in R PROVE Subs(d, u) = Subs(c, u) /\ Made(c, u) /\ Subs(c, u) \subseteq R
  <2>1. Made(c, u) /\ u \in DOMAIN c
    BY <1>1 DEF CreatedSound
  <2>2. c[u].via # NULL
    BY <2>1, PluginsTyped DEF Made
  <2>3. Subs(c, u) \subseteq DOMAIN c
    BY <2>1, <2>2 DEF Made, Subs
  <2>4. ASSUME NEW x \in Subs(c, u) PROVE x \in R
    <3>1. ASSUME NEW T \in SUBSET DOMAIN c, {target} \subseteq T, Closed(c, T) PROVE x \in T
      <4>1. u \in T
        BY <3>1 DEF Reach
      <4> QED BY <2>4, <3>1, <4>1 DEF Closed
    <3> QED BY <2>3, <3>1 DEF Reach
  <2> QED BY <1>2, <2>1, <2>4 DEF Subs
<1> HIDE DEF R
<1>4. ASSUME NEW T \in SUBSET R, {target} \subseteq T, Closed(d, T) PROVE R \subseteq T
  <2>1. Closed(c, T)
    BY <1>3, <1>4 DEF Closed
  <2>2. T \in SUBSET DOMAIN c
    BY <1>1
  <2> QED BY <1>4, <2>1, <2>2 DEF R, Reach
<1>5. DOMAIN d = Reach(d, {target})
  BY <1>2, <1>4 DEF Reach
<1>6. ASSUME NEW u \in R
      PROVE  /\ d[u].via \in ToSet(plugins) /\ d[u].via.out = u
             /\ Subs(d, u) \subseteq R
             /\ u \notin Reach(d, Subs(d, u))
             /\ d[u].cost = Total(d, d[u].via, Len(d[u].via.ins))
  <2>1. d[u] = c[u] /\ Made(c, u) /\ u \in DOMAIN c
    BY <1>1, <1>2, <1>3
  <2>2. d[u].via \in ToSet(plugins) /\ d[u].via.out = u /\ Subs(d, u) \subseteq R
    BY <1>3, <2>1 DEF Made
  <2>3. u \notin Reach(d, Subs(d, u))
    <3>1. PICK T \in SUBSET DOMAIN c : Subs(c, u) \subseteq T /\ u \notin T /\ Closed(c, T)
      BY <2>1 DEF CreatedSound, Based
    <3>2. Closed(d, T \cap R) /\ Subs(d, u) \subseteq T \cap R
      BY <1>3, <3>1 DEF Closed
    <3>3. T \cap R \in SUBSET DOMAIN d
      BY <1>2
    <3> QED BY <3>1, <3>2, <3>3 DEF Reach
  <2>4. d[u].cost = Total(d, d[u].via, Len(d[u].via.ins))
    <3> DEFINE p == d[u].via
    <3>1. p \in ToSet(plugins) /\ p # NULL /\ Len(p.ins) \in Nat
          /\ \A n \in 1..Len(p.ins) : p.ins[n] \in Inputs(p)
      BY <2>2, PluginsTyped
    <3>2. Inputs(p) \ given \subseteq R
      BY <2>2, <3>1 DEF Subs
    <3>3. c[u].cost = Total(c, p, Len(p.ins))
      BY <2>1 DEF Made
    <3>4. DOMAIN c \cap given = {}
      BY DEF CreatedSound
    <3> HIDE DEF p
    <3>5. ASSUME NEW n \in 1..Len(p.ins) PROVE Price(c, p.ins[n]) = Price(d, p.ins[n])
      <4> DEFINE y == p.ins[n]
      <4>1. y \in given \/ y \in R
        BY <3>1, <3>2
      <4> HIDE DEF y
      <4>2. Price(c, y) = Price(d, y)
        BY <1>1, <1>2, <3>4, <4>1 DEF Price
      <4> QED BY <4>2 DEF y
    <3>6. Len(p.ins) \in 0..Len(p.ins)
      BY <3>1
    <3>7. Total(c, p, Len(p.ins)) = Total(d, p, Len(p.ins))
      BY <3>1, <3>5, <3>6, TotalSame
    <3> QED BY <2>1, <3>3, <3>7 DEF p
  <2> QED BY <2>2, <2>3, <2>4
<1> QED BY <1>1, <1>2, <1>5, <1>6 DEF Construction

----------------------------------------------------------------------------
(* Frames.                                                                  *)

LEMMA TopReplaced ==
    ASSUME NEW c, NEW st, StackSound(c, st), Len(st) > 0,
           NEW g \in FrameSet, g.out = st[Len(st)].out, BestSound(c, g), TrySound(c, g),
           g.i # -1 => \A l \in 1..Len(st) : st[l].out \notin Inputs(plugins[g.k])
    PROVE  /\ StackSound(c, [st EXCEPT ![Len(st)] = g])
           /\ Len([st EXCEPT ![Len(st)] = g]) = Len(st)
           /\ \A j \in 1..Len(st) : [st EXCEPT ![Len(st)] = g][j] = IF j = Len(st) THEN g ELSE st[j]
<1> DEFINE n == Len(st)
           t == [st EXCEPT ![n] = g]
<1>1. st \in Seq(FrameSet) /\ n \in Nat /\ n > 0 /\ DOMAIN st = 1..n
  BY DEF StackSound
<1>2. t \in [1..n -> FrameSet] /\ \A j \in 1..n : t[j] = IF j = n THEN g ELSE st[j]
  BY <1>1
<1>3. t \in Seq(FrameSet) /\ Len(t) = n
  BY <1>1, ExceptSeq
<1>4. n = Len(st) /\ t = [st EXCEPT ![Len(st)] = g]
  OBVIOUS
<1> HIDE DEF t, n
<1>5. \A j \in 1..n : t[j].out = st[j].out
  BY <1>2, <1>4
<1>6. ASSUME NEW j \in 1..n
      PROVE  /\ t[j].out \notin given \cup DOMAIN c
             /\ BestSound(c, t[j]) /\ TrySound(c, t[j])
             /\ t[j].i # -1 => \A l \in 1..j : t[l].out \notin Inputs(plugins[t[j].k])
             /\ \A l \in 1..n : l # j => t[l].out # t[j].out
  <2>1. \A l \in 1..n : st[l].out \notin given \cup DOMAIN c
                        /\ (l # j => st[l].out # st[j].out)
    BY <1>4 DEF StackSound
  <2>2. CASE j = n
    <3>1. t[j] = g
      BY <1>2, <2>2
    <3> QED BY <1>4, <1>5, <2>1, <2>2, <3>1
  <2>3. CASE j # n
    <3>1. t[j] = st[j]
      BY <1>2, <2>3
    <3>2. /\ BestSound(c, st[j]) /\ TrySound(c, st[j])
          /\ st[j].i # -1 => \A l \in 1..j : st[l].out \notin Inputs(plugins[st[j].k])
      BY <1>4 DEF StackSound
    <3> QED BY <1>1, <1>5, <2>1, <3>1, <3>2
  <2> QED BY <2>2, <2>3
<1>7. ASSUME NEW j \in 1..n - 1
      PROVE  /\ t[j].i # -1 /\ t[j].i < Len(plugins[t[j].k].ins)
             /\ t[j + 1].out = plugins[t[j].k].ins[t[j].i + 1]
  <2>1. t[j] = st[j] /\ t[j + 1].out = st[j + 1].out
    BY <1>1, <1>2, <1>5
  <2> QED BY <1>4, <2>1 DEF StackSound
<1> QED BY <1>2, <1>3, <1>4, <1>6, <1>7 DEF StackSound

LEMMA TopPopped ==
    ASSUME NEW c, NEW st, StackSound(c, st), Len(st) > 0
    PROVE  /\ StackSound(c, SubSeq(st, 1, Len(st) - 1))
           /\ Len(SubSeq(st, 1, Len(st) - 1)) = Len(st) - 1
           /\ \A j \in 1..Len(st) - 1 : SubSeq(st, 1, Len(st) - 1)[j] = st[j]
<1> DEFINE n == Len(st)
           t == SubSeq(st, 1, n - 1)
<1>1. st \in Seq(FrameSet) /\ n \in Nat /\ n > 0 /\ DOMAIN st = 1..n
  BY DEF StackSound
<1>2. t \in Seq(FrameSet) /\ Len(t) = n - 1 /\ \A j \in 1..n - 1 : t[j] = st[j]
  BY <1>1, SubSeqProperties
<1>3. n = Len(st) /\ t = SubSeq(st, 1, Len(st) - 1)
  OBVIOUS
<1> HIDE DEF t, n
<1>4. StackSound(c, t)
  BY <1>1, <1>2, <1>3 DEF StackSound
<1> QED BY <1>2, <1>3, <1>4

LEMMA Pushed ==
    ASSUME NEW c, NEW st, StackSound(c, st), Len(st) > 0,
           NEW x \in Uris, x \notin given \cup DOMAIN c,
           st[Len(st)].i # -1, st[Len(st)].i < Len(plugins[st[Len(st)].k].ins),
           x = plugins[st[Len(st)].k].ins[st[Len(st)].i + 1],
           x \in Inputs(plugins[st[Len(st)].k])
    PROVE  /\ StackSound(c, Append(st, NewFrame(x)))
           /\ Len(Append(st, NewFrame(x))) = Len(st) + 1
           /\ \A j \in 1..Len(st) : Append(st, NewFrame(x))[j] = st[j]
           /\ Append(st, NewFrame(x))[Len(st) + 1] = NewFrame(x)
<1> DEFINE n == Len(st)
           g == NewFrame(x)
           t == Append(st, g)
<1>0. /\ g \in FrameSet /\ g.out = x /\ g.i = -1 /\ g.via = NULL
      /\ BestSound(c, g) /\ TrySound(c, g)
  BY DEF NewFrame, FrameSet, BestSound, TrySound
<1>1. st \in Seq(FrameSet) /\ n \in Nat /\ n > 0 /\ DOMAIN st = 1..n
  BY DEF StackSound
<1> HIDE DEF g
<1>2. /\ t \in Seq(FrameSet) /\ Len(t) = n + 1
      /\ \A j \in 1..n : t[j] = st[j]
      /\ t[n + 1] = g
  BY <1>0, <1>1
<1>3. n = Len(st) /\ t = Append(st, g)
  OBVIOUS
<1> HIDE DEF t, n
<1>4. \A l \in 1..n : st[l].out # x
  BY <1>1, <1>3 DEF StackSound
<1>5. ASSUME NEW j \in 1..n + 1
      PROVE  /\ t[j].out \notin given \cup DOMAIN c
             /\ BestSound(c, t[j]) /\ TrySound(c, t[j])
             /\ t[j].i # -1 => \A l \in 1..j : t[l].out \notin Inputs(plugins[t[j].k])
             /\ \A l \in 1..n + 1 : l # j => t[l].out # t[j].out
  <2>1. CASE j = n + 1
    <3>1. t[j] = g
      BY <1>2, <2>1
    <3> QED BY <1>0, <1>1, <1>2, <1>4, <2>1, <3>1
  <2>2. CASE j # n + 1
    <3>1. j \in 1..n /\ t[j] = st[j] /\ \A l \in 1..j : t[l] = st[l]
      BY <1>1, <1>2, <2>2
    <3>2. /\ st[j].out \notin given \cup DOMAIN c
          /\ BestSound(c, st[j]) /\ TrySound(c, st[j])
          /\ st[j].i # -1 => \A l \in 1..j : st[l].out \notin Inputs(plugins[st[j].k])
          /\ \A l \in 1..n : l # j => st[l].out # st[j].out
      BY <1>3, <3>1 DEF StackSound
    <3>3. ASSUME NEW l \in 1..n + 1, l # j PROVE t[l].out # t[j].out
      <4>1. CASE l = n + 1
        BY <1>0, <1>2, <1>4, <3>1, <4>1
      <4>2. CASE l # n + 1
        BY <1>1, <1>2, <3>1, <3>2, <3>3, <4>2
      <4> QED BY <4>1, <4>2
    <3> QED BY <3>1, <3>2, <3>3
  <2> QED BY <2>1, <2>2
<1>6. ASSUME NEW j \in 1..(n + 1) - 1
      PROVE  /\ t[j].i # -1 /\ t[j].i < Len(plugins[t[j].k].ins)
             /\ t[j + 1].out = plugins[t[j].k].ins[t[j].i + 1]
  <2>1. CASE j = n
    <3>1. t[j] = st[n] /\ t[j + 1].out = x
      BY <1>0, <1>1, <1>2, <2>1
    <3> QED BY <1>3, <3>1
  <2>2. CASE j # n
    <3>1. j \in 1..n - 1 /\ t[j] = st[j] /\ t[j + 1] = st[j + 1]
      BY <1>1, <1>2, <2>2
    <3> QED BY <1>3, <3>1 DEF StackSound
  <2> QED BY <2>1, <2>2
<1>7. StackSound(c, t)
  BY <1>2, <1>5, <1>6 DEF StackSound
<1> QED BY <1>2, <1>3, <1>7 DEF g

\* The frames do not notice a mapping that is added, unless it is theirs.
LEMMA StackKept ==
    ASSUME plugins \in PluginLists, NEW c, NEW d, NEW st, StackSound(c, st),
           NEW u, u \notin given, DOMAIN d = DOMAIN c \cup {u}, DOMAIN c \cap given = {},
           \A x \in DOMAIN c : d[x] = c[x],
           \A j \in 1..Len(st) : st[j].out # u
    PROVE  StackSound(d, st)
<1>1. ASSUME NEW j \in 1..Len(st)
      PROVE  BestSound(d, st[j]) /\ TrySound(d, st[j])
  <2>1. BestSound(c, st[j]) /\ TrySound(c, st[j])
    BY DEF StackSound
  <2>2. DOMAIN d \cap given = {} /\ DOMAIN c \subseteq DOMAIN d
    OBVIOUS
  <2> DEFINE f == st[j]
  <2> HIDE DEF f
  <2>3. BestSound(d, f)
    <3> SUFFICES ASSUME f.via # NULL
                 PROVE  /\ f.via \in ToSet(plugins) /\ f.via.out = f.out
                        /\ Inputs(f.via) \ given \subseteq DOMAIN d
                        /\ f.best = Total(d, f.via, Len(f.via.ins))
      BY DEF BestSound
    <3> DEFINE p == f.via
    <3>1. /\ p \in ToSet(plugins) /\ p.out = f.out
          /\ Inputs(p) \ given \subseteq DOMAIN c
          /\ f.best = Total(c, p, Len(p.ins))
      BY <2>1 DEF BestSound, f
    <3> HIDE DEF p
    <3>2. Len(p.ins) \in Nat /\ \A n \in 1..Len(p.ins) : p.ins[n] \in given \cup DOMAIN c
      BY <3>1, PluginsTyped
    <3>3. Len(p.ins) \in 0..Len(p.ins)
      BY <3>2
    <3>4. Total(c, p, Len(p.ins)) = Total(d, p, Len(p.ins))
      BY <2>2, <3>2, <3>3, TotalKept
    <3> QED BY <2>2, <3>1, <3>4 DEF p
  <2>4. TrySound(d, f)
    <3> SUFFICES ASSUME f.i # -1
                 PROVE  /\ f.i \in Nat /\ f.k \in DOMAIN plugins /\ plugins[f.k].out = f.out
                        /\ f.i <= Len(plugins[f.k].ins)
                        /\ \A n \in 1..f.i : plugins[f.k].ins[n] \in given \cup DOMAIN d
                        /\ f.cost = Total(d, plugins[f.k], f.i)
      BY DEF TrySound
    <3> DEFINE p == plugins[f.k]
    <3>1. /\ f.i \in Nat /\ f.k \in DOMAIN plugins /\ p.out = f.out
          /\ f.i <= Len(p.ins)
          /\ \A n \in 1..f.i : p.ins[n] \in given \cup DOMAIN c
          /\ f.cost = Total(c, p, f.i)
      BY <2>1 DEF TrySound, f
    <3>2. Len(p.ins) \in Nat
      <4>1. p \in ToSet(plugins)
        BY <3>1 DEF ToSet
      <4> QED BY <4>1, PluginsTyped
    <3> DEFINE m == f.i
    <3> HIDE DEF p
    <3>3. m \in 0..Len(p.ins) /\ \A n \in 1..m : p.ins[n] \in given \cup DOMAIN c
      BY <3>1, <3>2
    <3> HIDE DEF m
    <3>5. Total(c, p, m) = Total(d, p, m)
      BY <2>2, <3>2, <3>3, TotalKept, SMTT(60)
    <3>4. Total(c, p, f.i) = Total(d, p, f.i)
      BY <3>5 DEF m
    <3> QED BY <2>2, <3>1, <3>4 DEF p
  <2> QED BY <2>3, <2>4 DEF f
<1> QED BY <1>1 DEF StackSound

----------------------------------------------------------------------------
(* The steps of the search.                                                 *)

LEMMA FrameTyped ==
    ASSUME SearchInv, Searching
    PROVE  /\ stack \in Seq(FrameSet) /\ Len(stack) \in Nat /\ Len(stack) > 0
           /\ DOMAIN stack = 1..Len(stack)
           /\ Frame = stack[Len(stack)] /\ Frame \in FrameSet
           /\ Frame.out \in Uris /\ Frame.out \notin given \cup DOMAIN created
           /\ Frame.k \in Nat /\ Frame.i \in Int
           /\ BestSound(created, Frame) /\ TrySound(created, Frame)
           /\ Frame.i # -1 => \A l \in 1..Len(stack) : stack[l].out \notin Inputs(plugins[Frame.k])
<1>1. stack \in Seq(FrameSet)
  BY DEF SearchInv, StackSound
<1>2. Len(stack) \in Nat /\ Len(stack) > 0 /\ DOMAIN stack = 1..Len(stack)
  BY <1>1 DEF Searching
<1>3. Frame = stack[Len(stack)] /\ Frame \in FrameSet
  BY <1>1, <1>2 DEF Frame, Last
<1>4. Frame.out \in Uris /\ Frame.k \in Nat /\ Frame.i \in Int
  BY <1>3 DEF FrameSet
<1>5. Len(stack) \in 1..Len(stack)
  BY <1>2
<1> QED BY <1>1, <1>2, <1>3, <1>4, <1>5 DEF SearchInv, StackSound

LEMMA PluginOf ==
    ASSUME plugins \in PluginLists, NEW k \in DOMAIN plugins
    PROVE  /\ plugins[k] \in ToSet(plugins) /\ k \in Nat /\ k > 0 /\ k <= Len(plugins)
           /\ Len(plugins[k].ins) \in Nat
           /\ \A n \in 1..Len(plugins[k].ins) : plugins[k].ins[n] \in Inputs(plugins[k])
<1>1. plugins[k] \in ToSet(plugins)
  BY DEF ToSet
<1>2. plugins \in Seq(PluginSet)
  BY PluginsTyped
<1>3. k \in 1..Len(plugins) /\ Len(plugins) \in Nat
  BY <1>2
<1> QED BY <1>1, <1>3, PluginsTyped

LEMMA InvPrimed ==
    ASSUME UNCHANGED callers, SearchInv,
           CreatedSound(created'), StackSound(created', stack'),
           Len(stack') > 0 => stack'[1].out = target,
           Acyclic(plugins) =>
              /\ DeadSound(Ways(plugins, given), dead')
              /\ CreatedBest(Ways(plugins, given), created')
              /\ \A j \in 1..Len(stack') : FrameBest(Ways(plugins, given), stack'[j]),
           Len(stack') = 0 /\ target \notin DOMAIN created' => target \in dead'
    PROVE  SearchInv'
<1>1. plugins' = plugins /\ given' = given /\ target' = target
  BY DEF callers
<1>2. Acyclic(plugins)' => Optimal'
  BY <1>1 DEF Optimal, DeadSound, CreatedBest, FrameBest, Past
<1>3. CreatedSound(created)'
  BY <1>1 DEF CreatedSound, Made, Based, Subs, Closed
<1>4. StackSound(created, stack)'
  BY <1>1 DEF StackSound, BestSound, TrySound
<1> QED BY <1>1, <1>2, <1>3, <1>4 DEF SearchInv

\* When the plugins form no cycle, no way to make the output is ignored.
LEMMA NotIgnored ==
    ASSUME SearchInv, Searching, Acyclic(plugins),
           NEW W \in SUBSET (Uris \X Nat), DeadSound(W, dead),
           NEW p \in ToSet(plugins), p.out = Frame.out, NEW o \in Offers(given, W, p)
    PROVE  ~Ignored(p)
<1> SUFFICES ASSUME NEW y \in Inputs(p), y \in Visited \cup dead PROVE FALSE
  BY DEF Ignored
<1>1. Inputs(p) \subseteq Uris
  BY PluginsTyped DEF SearchInv
<1>2. y \notin given
  <2>1. CASE y \in dead
    BY <2>1 DEF DeadSound
  <2>2. CASE y \in Visited
    BY <2>2, FrameTyped DEF Visited, SearchInv, StackSound
  <2> QED BY <2>1, <2>2
<1>3. << y, o[y].cost >> \in W
  BY <1>2 DEF Offers
<1>4. y \notin dead
  BY <1>3 DEF DeadSound
<1>5. PICK j \in 1..Len(stack) : stack[j].out = y
  BY <1>4, FrameTyped DEF Visited
<1>6. PICK T \in SUBSET Uris : /\ y \notin T /\ Needs(plugins, y) \subseteq T
                               /\ \A x \in T : Needs(plugins, x) \subseteq T
  BY <1>1 DEF Acyclic
<1> DEFINE U == {l \in Nat : j + l <= Len(stack) => Needs(plugins, stack[j + l].out) \subseteq T}
<1>7. 0 \in U
  BY <1>5, <1>6
<1>8. ASSUME NEW l \in Nat, l \in U PROVE l + 1 \in U
  <2> SUFFICES ASSUME j + (l + 1) <= Len(stack)
               PROVE  Needs(plugins, stack[j + (l + 1)].out) \subseteq T
    OBVIOUS
  <2> DEFINE m == j + l
             q == plugins[stack[m].k]
  <2>1. m \in 1..Len(stack) - 1 /\ m + 1 = j + (l + 1) /\ m \in 1..Len(stack)
    BY FrameTyped
  <2>2. Needs(plugins, stack[m].out) \subseteq T
    BY <1>8, <2>1, FrameTyped
  <2> HIDE DEF m
  <2>3. /\ stack[m].i # -1 /\ stack[m].i < Len(q.ins) /\ stack[m + 1].out = q.ins[stack[m].i + 1]
        /\ TrySound(created, stack[m])
    BY <2>1 DEF SearchInv, StackSound
  <2>4. stack[m].k \in DOMAIN plugins /\ q.out = stack[m].out /\ stack[m].i \in Nat
    BY <2>3 DEF TrySound
  <2>5. /\ q \in ToSet(plugins) /\ Len(q.ins) \in Nat
        /\ \A n \in 1..Len(q.ins) : q.ins[n] \in Inputs(q)
    BY <2>4, PluginOf DEF SearchInv
  <2> HIDE DEF q
  <2>6. stack[m + 1].out \in Inputs(q)
    BY <2>3, <2>4, <2>5
  <2>7. stack[m + 1].out \in T
    BY <2>2, <2>4, <2>5, <2>6 DEF Needs
  <2> QED BY <1>6, <2>1, <2>7
<1>9. Len(stack) - j \in U
  <2> HIDE DEF U
  <2>1. Len(stack) - j \in Nat
    BY <1>5, FrameTyped
  <2> QED BY <1>7, <1>8, <2>1, SetInduction
<1>10. Needs(plugins, Frame.out) \subseteq T
  <2>1. j + (Len(stack) - j) = Len(stack)
    BY <1>5, FrameTyped
  <2> QED BY <1>9, <2>1, FrameTyped
<1>11. y \in Needs(plugins, Frame.out)
  BY DEF Needs
<1> QED BY <1>6, <1>10, <1>11

\* A frame that has considered all plugins has found the cheapest way.
LEMMA FrameDone ==
    ASSUME SearchInv, Searching, Acyclic(plugins), Frame.i = -1, Candidates = {},
           NEW w \in Ways(plugins, given), w[1] = Frame.out
    PROVE  Frame.via # NULL /\ Frame.best <= w[2]
<1> DEFINE W == Ways(plugins, given)
<1>1. W \in SUBSET (Uris \X Nat)
  BY WaysMade DEF SearchInv
<1>2. PICK p \in ToSet(plugins) : \E o \in Offers(given, W, p) : w = << p.out, Total(o, p, Len(p.ins)) >>
  BY WaysMade DEF SearchInv
<1>3. PICK o \in Offers(given, W, p) : w = << p.out, Total(o, p, Len(p.ins)) >>
  BY <1>2
<1>4. DeadSound(W, dead) /\ FrameBest(W, Frame)
  BY FrameTyped DEF SearchInv, Optimal
<1> HIDE DEF W
<1>5. p.out = Frame.out /\ w[2] = Total(o, p, Len(p.ins))
  BY <1>3
<1>6. ~Ignored(p)
  BY <1>1, <1>4, <1>5, NotIgnored
<1>7. PICK k \in DOMAIN plugins : p = plugins[k]
  BY DEF ToSet
<1>8. ~(k > Frame.k)
  BY <1>5, <1>6, <1>7 DEF Candidates
<1>9. Past(Frame, k)
  BY <1>7, <1>8, FrameTyped, PluginOf DEF Past, SearchInv
<1> QED BY <1>4, <1>5, <1>7, <1>9 DEF FrameBest

LEMMA CountZero == ASSUME NEW p PROVE Total(created, p, 0) = p.cost \/ Len(p.ins) \notin Nat
  BY TotalDef

\* The next plugin: those in between do not matter.
LEMMA ConsiderStep ==
    ASSUME SearchInv, UNCHANGED callers, Consider
    PROVE  SearchInv'
<1> DEFINE n == Len(stack)
           W == Ways(plugins, given)
<1>0. Searching /\ Frame.i = -1 /\ created' = created /\ dead' = dead
  BY DEF Consider
<1>1. PICK k \in Candidates :
         /\ \A j \in Candidates : k <= j
         /\ stack' = Top([Frame EXCEPT !.k = k, !.i = 0, !.cost = plugins[k].cost])
  BY DEF Consider
<1> DEFINE p == plugins[k]
           g == [Frame EXCEPT !.k = k, !.i = 0, !.cost = p.cost]
<1>2. k \in DOMAIN plugins /\ k > Frame.k /\ p.out = Frame.out /\ ~Ignored(p)
  BY DEF Candidates
<1>3. k \in Nat /\ Len(p.ins) \in Nat /\ p \in ToSet(plugins) /\ p.cost \in Nat
  BY <1>2, PluginOf, PluginsTyped DEF SearchInv
<1>4. /\ g \in FrameSet /\ g.out = Frame.out /\ g.k = k /\ g.i = 0 /\ g.cost = p.cost
      /\ g.via = Frame.via /\ g.best = Frame.best
  <2>1. Frame \in FrameSet /\ k \in Nat /\ 0 \in Int /\ p.cost \in Int
    BY <1>0, <1>3, FrameTyped
  <2> DEFINE cost == p.cost
             f == Frame
  <2> HIDE DEF p, f
  <2> HIDE DEF cost
  <2>2. f \in FrameSet /\ k \in Nat /\ 0 \in Int /\ cost \in Int
    BY <2>1 DEF f, cost
  <2>3. /\ [f EXCEPT !.k = k, !.i = 0, !.cost = cost] \in FrameSet
        /\ [f EXCEPT !.k = k, !.i = 0, !.cost = cost].out = f.out
        /\ [f EXCEPT !.k = k, !.i = 0, !.cost = cost].k = k
        /\ [f EXCEPT !.k = k, !.i = 0, !.cost = cost].i = 0
        /\ [f EXCEPT !.k = k, !.i = 0, !.cost = cost].cost = cost
        /\ [f EXCEPT !.k = k, !.i = 0, !.cost = cost].via = f.via
        /\ [f EXCEPT !.k = k, !.i = 0, !.cost = cost].best = f.best
    BY <2>2 DEF FrameSet
  <2> QED BY <2>3 DEF f, cost
<1>5. Total(created, p, 0) = p.cost
  BY <1>3, CountZero
<1>6. \A l \in 1..n : stack[l].out \notin Inputs(p)
  BY <1>0, <1>2, FrameTyped DEF Ignored, Visited
<1>7. stack' = [stack EXCEPT ![n] = g] /\ Frame = stack[n] /\ n = Len(stack) /\ n \in Nat /\ n > 0
  BY <1>0, <1>1, FrameTyped DEF Top
<1> HIDE DEF g
<1>8. BestSound(created, g)
  BY <1>0, <1>4, FrameTyped DEF BestSound
<1>9. TrySound(created, g)
  BY <1>2, <1>3, <1>4, <1>5 DEF TrySound
<1>10. /\ StackSound(created, stack') /\ Len(stack') = n
       /\ \A j \in 1..n : stack'[j] = IF j = n THEN g ELSE stack[j]
  <2> DEFINE t == [stack EXCEPT ![Len(stack)] = g]
  <2>1. /\ StackSound(created, stack) /\ Len(stack) > 0 /\ g \in FrameSet
        /\ g.out = stack[Len(stack)].out
        /\ g.i # -1 => \A l \in 1..Len(stack) : stack[l].out \notin Inputs(plugins[g.k])
    BY <1>4, <1>6, <1>7, <1>8, <1>9 DEF SearchInv
  <2>2. /\ StackSound(created, t) /\ Len(t) = Len(stack)
        /\ \A j \in 1..Len(stack) : t[j] = IF j = Len(stack) THEN g ELSE stack[j]
    BY <2>1, <1>8, <1>9, TopReplaced
  <2>3. stack' = t
    BY <1>7
  <2> HIDE DEF t
  <2> QED BY <1>7, <2>2, <2>3
<1>11. ASSUME Acyclic(plugins)
       PROVE  \A j \in 1..n : FrameBest(W, stack'[j])
  <2>1. Optimal /\ W \in SUBSET (Uris \X Nat)
    BY <1>11, WaysMade DEF SearchInv
  <2>2. FrameBest(W, Frame) /\ DeadSound(W, dead)
    BY <1>7, <2>1 DEF Optimal
  <2> HIDE DEF W
  <2>3. ASSUME NEW h \in DOMAIN plugins, plugins[h].out = g.out, Past(g, h),
               NEW o \in Offers(given, W, plugins[h])
        PROVE  Past(Frame, h)
    <3>1. h < k /\ h \in Nat /\ plugins[h] \in ToSet(plugins)
      BY <1>3, <1>4, <2>3, PluginOf DEF Past, SearchInv
    <3>2. ~Ignored(plugins[h])
      BY <1>0, <1>4, <1>11, <2>1, <2>2, <2>3, <3>1, NotIgnored
    <3>3. ~(h > Frame.k)
      BY <1>1, <1>3, <1>4, <2>3, <3>1, <3>2 DEF Candidates
    <3> QED BY <1>0, <3>1, <3>3, FrameTyped DEF Past
  <2>4. FrameBest(W, g)
    BY <1>4, <2>2, <2>3 DEF FrameBest
  <2> QED BY <1>7, <1>10, <2>1, <2>4 DEF Optimal, W
<1>12. Len(stack') > 0 => stack'[1].out = target
  BY <1>4, <1>7, <1>10 DEF SearchInv
<1> QED BY <1>0, <1>7, <1>10, <1>11, <1>12, InvPrimed DEF SearchInv, Optimal

\* An input that is given or exists is realised.
LEMMA RealisedStep ==
    ASSUME SearchInv, UNCHANGED callers, Searching, Frame.i >= 0, Frame.i < Len(Plugin.ins),
           NEW x, x = Plugin.ins[Frame.i + 1], x \in given \cup DOMAIN created,
           NEW a, a = Frame.cost + Price(created, x),
           NEW g \in FrameSet, g.out = Frame.out, g.k = Frame.k, g.i = Frame.i + 1, g.cost = a,
           g.via = Frame.via, g.best = Frame.best,
           stack' = Top(g), UNCHANGED <<dead, created>>
    PROVE  SearchInv'
<1> DEFINE n == Len(stack)
           W == Ways(plugins, given)
           p == plugins[Frame.k]
<1>0. created' = created /\ dead' = dead /\ Plugin = p
  BY DEF Plugin
<1>1. /\ Frame.i \in Nat /\ Frame.k \in DOMAIN plugins /\ p.out = Frame.out
      /\ Frame.i <= Len(p.ins) /\ Frame.i # -1
      /\ \A m \in 1..Frame.i : p.ins[m] \in given \cup DOMAIN created
      /\ Frame.cost = Total(created, p, Frame.i)
  BY FrameTyped DEF TrySound
<1>2. p \in ToSet(plugins) /\ Len(p.ins) \in Nat /\ p.cost \in Nat
  BY <1>1, PluginOf, PluginsTyped DEF SearchInv
<1>3. Total(created, p, Frame.i + 1) = Total(created, p, Frame.i) + Price(created, x)
  <2> DEFINE m == Frame.i
             L == Len(p.ins)
  <2>1. m \in Nat /\ m < L /\ L \in Nat
    BY <1>0, <1>1, <1>2
  <2> HIDE DEF m, L
  <2>2. m + 1 \in 1..L /\ (m + 1) - 1 = m
    BY <2>1
  <2>3. x = p.ins[m + 1]
    BY <1>0 DEF m
  <2> HIDE DEF p
  <2>4. \A l \in 1..L : Total(created, p, l) = Total(created, p, l - 1) + Price(created, p.ins[l])
    BY <1>2, TotalDef DEF L
  <2>5. Total(created, p, m + 1) = Total(created, p, m) + Price(created, x)
    BY <2>2, <2>3, <2>4
  <2> QED BY <2>5 DEF m
<1>5. /\ g \in FrameSet /\ g.out = Frame.out /\ g.k = Frame.k /\ g.i = Frame.i + 1 /\ g.cost = a
      /\ g.via = Frame.via /\ g.best = Frame.best
  OBVIOUS
<1>6. stack' = [stack EXCEPT ![n] = g] /\ Frame = stack[n] /\ n = Len(stack) /\ n \in Nat /\ n > 0
  BY FrameTyped DEF Top
<1>7. BestSound(created, g)
  BY <1>5, FrameTyped DEF BestSound
<1>8. TrySound(created, g)
  <2>1. Frame.i + 1 \in Nat /\ Frame.i + 1 <= Len(p.ins)
    BY <1>0, <1>1, <1>2
  <2>2. ASSUME NEW m \in 1..(Frame.i + 1) PROVE p.ins[m] \in given \cup DOMAIN created
    BY <1>0, <1>1
  <2> QED BY <1>1, <1>3, <1>5, <2>1, <2>2 DEF TrySound
<1>9. g.i # -1 => \A l \in 1..Len(stack) : stack[l].out \notin Inputs(plugins[g.k])
  BY <1>1, <1>5, FrameTyped
<1>10. /\ StackSound(created, stack') /\ Len(stack') = n
       /\ \A j \in 1..n : stack'[j] = IF j = n THEN g ELSE stack[j]
  <2> DEFINE t == [stack EXCEPT ![Len(stack)] = g]
  <2>1. /\ StackSound(created, stack) /\ Len(stack) > 0 /\ g \in FrameSet
        /\ g.out = stack[Len(stack)].out
        /\ g.i # -1 => \A l \in 1..Len(stack) : stack[l].out \notin Inputs(plugins[g.k])
    BY <1>5, <1>6, <1>7, <1>8, <1>9 DEF SearchInv
  <2>2. /\ StackSound(created, t) /\ Len(t) = Len(stack)
        /\ \A j \in 1..Len(stack) : t[j] = IF j = Len(stack) THEN g ELSE stack[j]
    BY <2>1, <1>7, <1>8, TopReplaced
  <2>3. stack' = t
    BY <1>6
  <2> HIDE DEF t
  <2> QED BY <1>6, <2>2, <2>3
<1>11. ASSUME Acyclic(plugins)
       PROVE  \A j \in 1..n : FrameBest(W, stack'[j])
  <2>1. \A j \in 1..n : FrameBest(W, stack[j])
    BY <1>11 DEF SearchInv, Optimal
  <2>2. FrameBest(W, g)
    <3>1. \A h \in DOMAIN plugins : Past(g, h) => Past(Frame, h)
      BY <1>1, <1>5 DEF Past
    <3>2. FrameBest(W, Frame)
      <4>1. n \in 1..n /\ Frame = stack[n]
        BY FrameTyped
      <4> QED BY <2>1, <4>1
    <3> HIDE DEF W
    <3> QED BY <1>5, <3>1, <3>2 DEF FrameBest
  <2> QED BY <1>6, <1>10, <2>1, <2>2
<1>12. Len(stack') > 0 => stack'[1].out = target
  <2>1. stack[1].out = target /\ 1 \in 1..n
    BY FrameTyped DEF SearchInv
  <2>2. stack'[1] = IF 1 = n THEN g ELSE stack[1]
    BY <1>10, <2>1
  <2> QED BY <1>5, <1>6, <2>1, <2>2
<1> QED BY <1>0, <1>6, <1>10, <1>11, <1>12, InvPrimed DEF SearchInv, Optimal

\* An input that has to be created is looked for.
LEMMA CalledStep ==
    ASSUME SearchInv, UNCHANGED callers, Searching, Frame.i >= 0, Frame.i < Len(Plugin.ins),
           NEW x, x = Plugin.ins[Frame.i + 1], x \notin given \cup DOMAIN created,
           stack' = Append(stack, NewFrame(x)), UNCHANGED <<dead, created>>
    PROVE  SearchInv'
<1> DEFINE n == Len(stack)
           W == Ways(plugins, given)
           p == plugins[Frame.k]
<1>0. created' = created /\ dead' = dead /\ Plugin = p
  BY DEF Plugin
<1>1. Frame.i \in Nat /\ Frame.i # -1 /\ Frame.k \in DOMAIN plugins
  BY FrameTyped DEF TrySound
<1>2. /\ p \in ToSet(plugins) /\ Len(p.ins) \in Nat /\ Inputs(p) \subseteq Uris
      /\ \A m \in 1..Len(p.ins) : p.ins[m] \in Inputs(p)
  BY <1>1, PluginOf, PluginsTyped DEF SearchInv
<1>3. x \in Inputs(p) /\ x \in Uris
  <2>1. Frame.i + 1 \in 1..Len(p.ins) /\ x = p.ins[Frame.i + 1]
    BY <1>0, <1>1, <1>2
  <2> QED BY <1>2, <2>1
<1>4. Frame = stack[n] /\ n = Len(stack) /\ n \in Nat /\ n > 0
  BY FrameTyped
<1>5. /\ StackSound(created, stack') /\ Len(stack') = n + 1
      /\ \A j \in 1..n : stack'[j] = stack[j]
      /\ stack'[n + 1] = NewFrame(x)
  BY <1>0, <1>1, <1>3, <1>4, Pushed DEF SearchInv
<1>6. ASSUME Acyclic(plugins)
      PROVE  \A j \in 1..n + 1 : FrameBest(W, stack'[j])
  <2>1. \A j \in 1..n : FrameBest(W, stack[j])
    BY <1>6 DEF SearchInv, Optimal
  <2>2. FrameBest(W, NewFrame(x))
    <3>1. \A h \in DOMAIN plugins : ~Past(NewFrame(x), h)
      BY PluginOf DEF Past, NewFrame, SearchInv
    <3> QED BY <3>1 DEF FrameBest
  <2>3. \A j \in 1..n + 1 : j \in 1..n \/ j = n + 1
    BY <1>4
  <2> QED BY <1>5, <2>1, <2>2, <2>3
<1>7. Len(stack') > 0 => stack'[1].out = target
  BY <1>4, <1>5 DEF SearchInv
<1>8. Acyclic(plugins) => /\ DeadSound(W, dead') /\ CreatedBest(W, created')
                          /\ \A j \in 1..Len(stack') : FrameBest(W, stack'[j])
  BY <1>0, <1>5, <1>6 DEF SearchInv, Optimal
<1>9. Len(stack') # 0 /\ CreatedSound(created') /\ StackSound(created', stack')
  <2>1. Len(stack') # 0
    BY <1>4, <1>5
  <2>2. CreatedSound(created') /\ StackSound(created', stack')
    <3>1. CreatedSound(created) /\ StackSound(created, stack')
      BY <1>5 DEF SearchInv
    <3> QED BY <1>0, <3>1
  <2> QED BY <2>1, <2>2
<1> QED BY <1>7, <1>8, <1>9, InvPrimed

LEMMA RealiseStep ==
    ASSUME SearchInv, UNCHANGED callers, Realise
    PROVE  phase' = "aborted" \/ SearchInv'
<1> DEFINE x == Plugin.ins[Frame.i + 1]
<1>1. /\ Searching /\ Frame.i >= 0 /\ Frame.i < Len(Plugin.ins) /\ UNCHANGED <<dead, created>>
      /\ \/ x \in given /\ stack' = Top([Frame EXCEPT !.i = @ + 1])
         \/ /\ x \notin given /\ x \in DOMAIN created
            /\ stack' = Top([Frame EXCEPT !.i = @ + 1, !.cost = Sum(@, created[x])])
         \/ x \notin given \cup DOMAIN created /\ stack' = Append(stack, NewFrame(x))
         \/ phase' = "aborted"
  BY DEF Realise
<1>2. Frame \in FrameSet /\ Frame.i \in Nat /\ Frame.cost \in Nat
  <2>1. /\ Frame.i \in Nat /\ Frame.k \in DOMAIN plugins
        /\ Frame.i <= Len(plugins[Frame.k].ins)
        /\ Frame.cost = Total(created, plugins[Frame.k], Frame.i)
    BY <1>1, FrameTyped DEF TrySound
  <2> DEFINE p == plugins[Frame.k]
             m == Frame.i
  <2>2. Len(p.ins) \in Nat /\ p.cost \in Nat
    BY <2>1, PluginOf, PluginsTyped DEF SearchInv
  <2> HIDE DEF p, m
  <2>3. m \in 0..Len(p.ins)
    BY <2>1, <2>2 DEF p, m
  <2>4. \A l \in 1..m : Price(created, p.ins[l]) \in Nat
    BY PricesTyped DEF SearchInv
  <2>5. Total(created, p, m) \in Nat
    BY <2>2, <2>3, <2>4, TotalNat
  <2> QED BY <1>1, <2>1, <2>5, FrameTyped DEF p, m
<1>3. DOMAIN created \cap given = {}
  BY DEF SearchInv, CreatedSound
<1>4. ASSUME x \in given, stack' = Top([Frame EXCEPT !.i = @ + 1]) PROVE SearchInv'
  <2> DEFINE f == Frame
             g == [f EXCEPT !.i = @ + 1]
             a == Frame.cost + Price(created, x)
  <2>1. a = f.cost /\ f \in FrameSet
    BY <1>2, <1>3, <1>4 DEF Price
  <2>2. Top(g) = stack'
    BY <1>4
  <2> HIDE DEF f
  <2>3. /\ g \in FrameSet /\ g.out = f.out /\ g.k = f.k /\ g.i = f.i + 1 /\ g.cost = f.cost
        /\ g.via = f.via /\ g.best = f.best
    BY <2>1 DEF FrameSet
  <2> HIDE DEF g
  <2>4. /\ g \in FrameSet /\ g.out = Frame.out /\ g.k = Frame.k /\ g.i = Frame.i + 1 /\ g.cost = a
        /\ g.via = Frame.via /\ g.best = Frame.best /\ x \in given \cup DOMAIN created
    BY <1>4, <2>1, <2>3 DEF f
  <2> HIDE DEF a, x
  <2>5. x = Plugin.ins[Frame.i + 1] /\ a = Frame.cost + Price(created, x)
    BY DEF a, x
  <2> QED BY <1>1, <2>2, <2>4, <2>5, RealisedStep
<1>5. ASSUME x \notin given, x \in DOMAIN created,
             stack' = Top([Frame EXCEPT !.i = @ + 1, !.cost = Sum(@, created[x])])
      PROVE  SearchInv'
  <2> DEFINE f == Frame
             a == Frame.cost + Price(created, x)
             g == [f EXCEPT !.i = @ + 1, !.cost = Sum(@, created[x])]
  <2>1. Sum(f.cost, created[x]) = a /\ f \in FrameSet /\ a \in Int
    BY <1>2, <1>5, PricesTyped DEF Price, Sum, SearchInv
  <2>2. Top(g) = stack'
    BY <1>5
  <2> HIDE DEF f
  <2> HIDE DEF a
  <2> DEFINE b == created[x]
  <2>6. Sum(f.cost, b) = a
    BY <2>1
  <2> DEFINE i == f.i + 1
  <2>8. i \in Int
    BY <1>2 DEF f
  <2>7. g = [f EXCEPT !.i = i, !.cost = a]
    BY <2>6 DEF b
  <2> HIDE DEF b, x
  <2> HIDE DEF i
  <2>3. /\ [f EXCEPT !.i = i, !.cost = a] \in FrameSet
        /\ [f EXCEPT !.i = i, !.cost = a].out = f.out
        /\ [f EXCEPT !.i = i, !.cost = a].k = f.k
        /\ [f EXCEPT !.i = i, !.cost = a].i = i
        /\ [f EXCEPT !.i = i, !.cost = a].cost = a
        /\ [f EXCEPT !.i = i, !.cost = a].via = f.via
        /\ [f EXCEPT !.i = i, !.cost = a].best = f.best
    BY <2>1, <2>8 DEF FrameSet
  <2> HIDE DEF g
  <2>4. /\ g \in FrameSet /\ g.out = Frame.out /\ g.k = Frame.k /\ g.i = Frame.i + 1 /\ g.cost = a
        /\ g.via = Frame.via /\ g.best = Frame.best /\ x \in given \cup DOMAIN created
    BY <1>5, <2>3, <2>7 DEF f, x, i
  <2>5. x = Plugin.ins[Frame.i + 1] /\ a = Frame.cost + Price(created, x)
    BY DEF a, x
  <2> QED BY <1>1, <2>2, <2>4, <2>5, RealisedStep
<1>6. ASSUME x \notin given \cup DOMAIN created, stack' = Append(stack, NewFrame(x)) PROVE SearchInv'
  <2> HIDE DEF x
  <2>1. x = Plugin.ins[Frame.i + 1]
    BY DEF x
  <2> QED BY <1>1, <1>6, <2>1, CalledStep
<1> QED BY <1>1, <1>4, <1>5, <1>6

\* A plugin whose inputs are realised is compared.
LEMMA CompareStep ==
    ASSUME SearchInv, UNCHANGED callers, Compare
    PROVE  SearchInv'
<1> DEFINE n == Len(stack)
           W == Ways(plugins, given)
           p == plugins[Frame.k]
           g == IF Cheaper(Frame) THEN [Frame EXCEPT !.i = -1, !.via = Plugin, !.best = Frame.cost]
                ELSE [Frame EXCEPT !.i = -1]
<1>0. /\ Searching /\ Frame.i >= 0 /\ Frame.i = Len(Plugin.ins) /\ created' = created /\ dead' = dead
      /\ Plugin = p /\ stack' = Top(g)
  BY DEF Compare, Plugin
<1>1. /\ Frame.k \in DOMAIN plugins /\ p.out = Frame.out
      /\ \A m \in 1..Len(p.ins) : p.ins[m] \in given \cup DOMAIN created
      /\ Frame.cost = Total(created, p, Len(p.ins))
  BY <1>0, FrameTyped DEF TrySound
<1>2. /\ p \in ToSet(plugins) /\ Len(p.ins) \in Nat /\ p.cost \in Nat /\ p \in PluginSet /\ p # NULL
      /\ \A m \in 1..Len(p.ins) : p.ins[m] \in Inputs(p)
  BY <1>1, PluginOf, PluginsTyped DEF SearchInv
<1>3. Frame.cost \in Nat
  <2>1. Len(p.ins) \in 0..Len(p.ins)
    BY <1>2
  <2>2. \A l \in 1..Len(p.ins) : Price(created, p.ins[l]) \in Nat
    BY PricesTyped DEF SearchInv
  <2>3. Total(created, p, Len(p.ins)) \in Nat
    <3> HIDE DEF p
    <3> QED BY <1>2, <2>1, <2>2, TotalNat
  <2> QED BY <1>1, <2>3
<1>4. /\ g \in FrameSet /\ g.out = Frame.out /\ g.k = Frame.k /\ g.i = -1
      /\ IF Cheaper(Frame) THEN g.via = p /\ g.best = Frame.cost
                           ELSE g.via = Frame.via /\ g.best = Frame.best
  <2> DEFINE f == Frame
             cost == f.cost
  <2>1. f \in FrameSet /\ cost \in Int /\ p \in {NULL} \cup PluginSet /\ Plugin = p
    BY <1>0, <1>2, <1>3, FrameTyped
  <2> HIDE DEF f
  <2> HIDE DEF cost, p
  <2> DEFINE none == -1
  <2>7. none \in Int
    OBVIOUS
  <2> HIDE DEF none
  <2>2. /\ [f EXCEPT !.i = none, !.via = p, !.best = cost] \in FrameSet
        /\ [f EXCEPT !.i = none, !.via = p, !.best = cost].out = f.out
        /\ [f EXCEPT !.i = none, !.via = p, !.best = cost].k = f.k
        /\ [f EXCEPT !.i = none, !.via = p, !.best = cost].i = none
        /\ [f EXCEPT !.i = none, !.via = p, !.best = cost].via = p
        /\ [f EXCEPT !.i = none, !.via = p, !.best = cost].best = cost
    BY <2>1, <2>7 DEF FrameSet
  <2>3. /\ [f EXCEPT !.i = none] \in FrameSet
        /\ [f EXCEPT !.i = none].out = f.out
        /\ [f EXCEPT !.i = none].k = f.k
        /\ [f EXCEPT !.i = none].i = none
        /\ [f EXCEPT !.i = none].via = f.via
        /\ [f EXCEPT !.i = none].best = f.best
    BY <2>1, <2>7 DEF FrameSet
  <2>4. g = IF Cheaper(Frame) THEN [f EXCEPT !.i = none, !.via = p, !.best = cost]
            ELSE [f EXCEPT !.i = none]
    BY <2>1 DEF f, cost, none
  <2> HIDE DEF g
  <2>5. CASE Cheaper(Frame)
    BY <2>2, <2>4, <2>5 DEF f, cost, none
  <2>6. CASE ~Cheaper(Frame)
    BY <2>3, <2>4, <2>6 DEF f, none
  <2> QED BY <2>5, <2>6
<1>5. stack' = [stack EXCEPT ![n] = g] /\ Frame = stack[n] /\ n = Len(stack) /\ n \in Nat /\ n > 0
  <2>1. stack' = Top(g)
    BY <1>0
  <2> HIDE DEF g
  <2> QED BY <1>0, <2>1, FrameTyped DEF Top
<1> HIDE DEF g
<1>6. BestSound(created, g)
  <2>1. CASE Cheaper(Frame)
    <3>1. Inputs(p) \ given \subseteq DOMAIN created
      <4>1. ASSUME NEW y \in Inputs(p) PROVE y \in given \cup DOMAIN created
        <5>1. PICK m \in DOMAIN p.ins : y = p.ins[m]
          BY <4>1 DEF Inputs, ToSet
        <5>2. m \in 1..Len(p.ins)
          BY <1>2, PluginsTyped DEF SearchInv
        <5> QED BY <1>1, <5>1, <5>2
      <4> QED BY <4>1
    <3> QED BY <1>1, <1>2, <1>4, <2>1, <3>1 DEF BestSound
  <2>2. CASE ~Cheaper(Frame)
    BY <1>0, <1>4, <2>2, FrameTyped DEF BestSound
  <2> QED BY <2>1, <2>2
<1>7. TrySound(created, g)
  BY <1>4 DEF TrySound
<1>8. /\ StackSound(created, stack') /\ Len(stack') = n
      /\ \A j \in 1..n : stack'[j] = IF j = n THEN g ELSE stack[j]
  <2> DEFINE t == [stack EXCEPT ![Len(stack)] = g]
  <2>1. /\ StackSound(created, stack) /\ Len(stack) > 0 /\ g \in FrameSet
        /\ g.out = stack[Len(stack)].out
        /\ g.i # -1 => \A l \in 1..Len(stack) : stack[l].out \notin Inputs(plugins[g.k])
    BY <1>4, <1>5 DEF SearchInv
  <2>2. /\ StackSound(created, t) /\ Len(t) = Len(stack)
        /\ \A j \in 1..Len(stack) : t[j] = IF j = Len(stack) THEN g ELSE stack[j]
    BY <2>1, <1>6, <1>7, TopReplaced
  <2>3. stack' = t
    BY <1>5
  <2> HIDE DEF t
  <2> QED BY <1>5, <2>2, <2>3
<1>9. ASSUME Acyclic(plugins)
      PROVE  \A j \in 1..n : FrameBest(W, stack'[j])
  <2>1. /\ \A j \in 1..n : FrameBest(W, stack[j])
        /\ CreatedBest(W, created) /\ W \in SUBSET (Uris \X Nat)
    BY <1>9, WaysMade DEF SearchInv, Optimal
  <2>2. n \in 1..n /\ Frame = stack[n]
    BY <1>0, FrameTyped
  <2>3. FrameBest(W, Frame)
    BY <2>1, <2>2
  <2> HIDE DEF W
  <2>4. ASSUME NEW o \in Offers(given, W, p)
        PROVE  Frame.cost <= Total(o, p, Len(p.ins)) /\ Total(o, p, Len(p.ins)) \in Nat
    <3>1. ASSUME NEW m \in 1..Len(p.ins)
          PROVE  /\ Price(created, p.ins[m]) \in Int /\ Price(o, p.ins[m]) \in Int
                 /\ Price(created, p.ins[m]) <= Price(o, p.ins[m])
      <4> DEFINE y == p.ins[m]
      <4>1. y \in Inputs(p) /\ y \in given \cup DOMAIN created
        BY <1>1, <1>2
      <4> HIDE DEF y
      <4>2. Price(created, y) \in Nat /\ Price(o, y) \in Nat
        BY <2>1, PricesTyped, OfferPrices DEF SearchInv
      <4>3. CASE y \in given
        <5>1. y \notin DOMAIN created
          BY <4>3 DEF SearchInv, CreatedSound
        <5> QED BY <4>2, <5>1 DEF Price, y
      <4>4. CASE y \notin given
        <5>1. y \in DOMAIN o /\ << y, o[y].cost >> \in W
          BY <4>1, <4>4 DEF Offers
        <5>2. y \in DOMAIN created
          BY <4>1, <4>4
        <5>3. created[y].cost <= o[y].cost
          BY <2>1, <5>1, <5>2 DEF CreatedBest
        <5> QED BY <4>2, <5>1, <5>2, <5>3 DEF Price, y
      <4> QED BY <4>3, <4>4
    <3>2. \A m \in 1..Len(p.ins) : Price(o, p.ins[m]) \in Nat
      BY <2>1, OfferPrices
    <3>3. Len(p.ins) \in 0..Len(p.ins) /\ Len(p.ins) \in Nat /\ p.cost \in Nat /\ p.cost \in Int
      BY <1>2
    <3> HIDE DEF p
    <3>4. Total(o, p, Len(p.ins)) \in Nat
      BY <3>2, <3>3, TotalNat
    <3>5. Total(created, p, Len(p.ins)) <= Total(o, p, Len(p.ins))
      BY <3>1, <3>3, TotalLower
    <3> QED BY <1>1, <3>4, <3>5
  <2>5. ASSUME NEW h \in DOMAIN plugins, plugins[h].out = g.out, Past(g, h),
               NEW o \in Offers(given, W, plugins[h])
        PROVE  g.via # NULL /\ g.best <= Total(o, plugins[h], Len(plugins[h].ins))
    <3>1. h = Frame.k \/ Past(Frame, h)
      BY <1>4, <2>5 DEF Past
    <3>2. ASSUME Past(Frame, h)
          PROVE  Frame.via # NULL /\ Frame.best <= Total(o, plugins[h], Len(plugins[h].ins))
      BY <1>4, <2>3, <2>5, <3>2 DEF FrameBest
    <3> DEFINE v == Total(o, plugins[h], Len(plugins[h].ins))
    <3>3. v \in Nat
      <4> DEFINE q == plugins[h]
      <4>1. Len(q.ins) \in 0..Len(q.ins) /\ Len(q.ins) \in Nat /\ q.cost \in Nat
        BY PluginOf, PluginsTyped DEF SearchInv
      <4> HIDE DEF q
      <4>2. \A m \in 1..Len(q.ins) : Price(o, q.ins[m]) \in Nat
        BY <2>1, <2>5, OfferPrices DEF q
      <4>3. Total(o, q, Len(q.ins)) \in Nat
        BY <4>1, <4>2, TotalNat
      <4> QED BY <4>3 DEF q
    <3>4. h = Frame.k => Frame.cost <= v
      BY <2>4, <2>5
    <3> HIDE DEF v
    <3>5. Frame.best \in Int
      BY <1>0, FrameTyped DEF FrameSet
    <3>6. CASE Cheaper(Frame)
      <4>1. g.via = p /\ g.best = Frame.cost /\ p # NULL
        BY <1>2, <1>4, <3>6
      <4>2. h # Frame.k => Frame.cost < Frame.best /\ Frame.best <= v
        BY <3>1, <3>2, <3>6 DEF Cheaper, v
      <4>3. Frame.cost <= v
        BY <1>3, <3>3, <3>4, <3>5, <4>2
      <4> QED BY <4>1, <4>3 DEF v
    <3>7. CASE ~Cheaper(Frame)
      <4>1. g.via = Frame.via /\ g.best = Frame.best /\ Frame.via # NULL /\ ~(Frame.cost < Frame.best)
        BY <1>4, <3>7 DEF Cheaper
      <4>2. h # Frame.k => Frame.best <= v
        BY <3>1, <3>2 DEF v
      <4>3. Frame.best <= v
        BY <1>3, <3>3, <3>4, <3>5, <4>1, <4>2
      <4> QED BY <4>1, <4>3 DEF v
    <3> QED BY <3>6, <3>7
  <2>6. FrameBest(W, g)
    BY <2>5 DEF FrameBest
  <2> QED BY <1>5, <1>8, <2>1, <2>6
<1>10. Len(stack') > 0 => stack'[1].out = target
  <2>1. stack[1].out = target /\ 1 \in 1..n
    BY <1>0, FrameTyped DEF SearchInv
  <2>2. stack'[1] = IF 1 = n THEN g ELSE stack[1]
    BY <1>8, <2>1
  <2> QED BY <1>4, <1>5, <2>1, <2>2
<1>11. Acyclic(plugins) => /\ DeadSound(W, dead') /\ CreatedBest(W, created')
                           /\ \A j \in 1..Len(stack') : FrameBest(W, stack'[j])
  BY <1>0, <1>8, <1>9 DEF SearchInv, Optimal
<1>12. Len(stack') # 0 /\ CreatedSound(created') /\ StackSound(created', stack')
  <2>1. Len(stack') # 0
    BY <1>5, <1>8
  <2>2. CreatedSound(created') /\ StackSound(created', stack')
    <3>1. CreatedSound(created) /\ StackSound(created, stack')
      BY <1>8 DEF SearchInv
    <3> QED BY <1>0, <3>1
  <2> QED BY <2>1, <2>2
<1> QED BY <1>10, <1>11, <1>12, InvPrimed

\* A call that fails: nothing in w makes its output, nor what needed it.
LEMMA FailStep ==
    ASSUME SearchInv, UNCHANGED callers, Fail
    PROVE  SearchInv'
<1> DEFINE n == Len(stack)
           W == Ways(plugins, given)
           t == SubSeq(stack, 1, Len(stack) - 1)
<1>0. /\ Searching /\ Frame.i = -1 /\ Candidates = {} /\ Frame.via = NULL
      /\ created' = created /\ dead' = dead \cup {Frame.out}
      /\ stack' = [j \in 1..(n - 1) |->
                     IF j = n - 1 THEN [stack[j] EXCEPT !.i = -1] ELSE stack[j]]
  BY DEF Fail
<1>1. Frame = stack[n] /\ n \in Nat /\ n > 0 /\ n \in 1..n /\ Frame.out \in Uris \ given
  BY <1>0, FrameTyped
<1>2. /\ StackSound(created, t) /\ Len(t) = n - 1 /\ \A j \in 1..n - 1 : t[j] = stack[j]
  BY <1>1, TopPopped DEF SearchInv
<1>3. Acyclic(plugins) => \A w \in W : w[1] # Frame.out
  BY <1>0, FrameDone
<1>4. Acyclic(plugins) => DeadSound(W, dead') /\ CreatedBest(W, created')
  <2> SUFFICES ASSUME Acyclic(plugins) PROVE DeadSound(W, dead') /\ CreatedBest(W, created')
    OBVIOUS
  <2>1. DeadSound(W, dead) /\ CreatedBest(W, created)
    BY DEF SearchInv, Optimal
  <2> HIDE DEF W
  <2> QED BY <1>0, <1>1, <1>3, <2>1 DEF DeadSound
<1> HIDE DEF t
<1>5. CASE n = 1
  <2>1. stack' \in Seq(FrameSet) /\ Len(stack') = 0
    <3>1. stack' = [j \in 1..0 |-> stack[j]]
      BY <1>0, <1>5
    <3>2. [j \in 1..0 |-> stack[j]] = << >>
      OBVIOUS
    <3> QED BY <3>1, <3>2
  <2>2. StackSound(created, stack')
    <3>1. 1..0 = {} /\ 1..0 - 1 = {}
      OBVIOUS
    <3> QED BY <2>1, <3>1 DEF StackSound
  <2>3. target \in dead'
    BY <1>0, <1>1, <1>5 DEF SearchInv
  <2>4. CreatedSound(created') /\ StackSound(created', stack')
    <3>1. CreatedSound(created) /\ StackSound(created, stack')
      BY <2>2 DEF SearchInv
    <3> QED BY <1>0, <3>1
  <2>5. \A j \in 1..Len(stack') : FrameBest(W, stack'[j])
    BY <2>1
  <2> QED BY <1>4, <2>1, <2>3, <2>4, <2>5, InvPrimed
<1>6. CASE n # 1
  <2> DEFINE m == n - 1
             f == stack[m]
             g == [f EXCEPT !.i = -1]
             p == plugins[f.k]
  <2>1. m \in Nat /\ m > 0 /\ m \in 1..n - 1 /\ m \in 1..n /\ m + 1 = n
    <3>1. n \in Nat /\ n > 0 /\ n # 1
      BY <1>1, <1>6
    <3> HIDE DEF n
    <3> QED BY <3>1
  <2>2. /\ f \in FrameSet /\ f.i # -1 /\ f.i < Len(p.ins) /\ stack[n].out = p.ins[f.i + 1]
        /\ BestSound(created, f) /\ TrySound(created, f)
    <3> HIDE DEF m
    <3>1. stack \in Seq(FrameSet) /\ stack[m] \in FrameSet
      BY <2>1 DEF SearchInv, StackSound
    <3> QED BY <2>1, <3>1 DEF SearchInv, StackSound
  <2>3. f.k \in DOMAIN plugins /\ f.i \in Nat /\ p.out = f.out
    BY <2>2 DEF TrySound
  <2>4. Frame.out \in Inputs(p)
    <3>1. Len(p.ins) \in Nat /\ \A l \in 1..Len(p.ins) : p.ins[l] \in Inputs(p)
      BY <2>3, PluginOf DEF SearchInv
    <3> DEFINE i == f.i
               L == Len(p.ins)
    <3>2. i \in Nat /\ i < L /\ L \in Nat
      BY <2>2, <2>3, <3>1
    <3> HIDE DEF i, L
    <3>3. i + 1 \in 1..L
      BY <3>2
    <3>4. Frame.out = p.ins[i + 1]
      BY <1>1, <2>2 DEF i
    <3> QED BY <3>1, <3>3, <3>4 DEF L
  <2>5. g \in FrameSet /\ g.out = f.out /\ g.k = f.k /\ g.i = -1 /\ g.via = f.via /\ g.best = f.best
    <3> DEFINE none == -1
    <3>1. none \in Int /\ f \in FrameSet
      BY <2>2
    <3> HIDE DEF none, f
    <3>2. /\ [f EXCEPT !.i = none] \in FrameSet
          /\ [f EXCEPT !.i = none].out = f.out
          /\ [f EXCEPT !.i = none].k = f.k
          /\ [f EXCEPT !.i = none].i = none
          /\ [f EXCEPT !.i = none].via = f.via
          /\ [f EXCEPT !.i = none].best = f.best
      BY <3>1 DEF FrameSet
    <3> QED BY <3>2 DEF none
  <2>6. stack' = [t EXCEPT ![m] = g] /\ Len(t) = m /\ t[m] = f
    <3>1. t \in Seq(FrameSet) /\ DOMAIN t = 1..m
      BY <1>2 DEF StackSound
    <3>2. \A j \in 1..m : t[j] = stack[j]
      BY <1>2
    <3> HIDE DEF g
    <3>3. stack' = [j \in 1..m |-> IF j = m THEN g ELSE stack[j]]
      BY <1>0, <2>1 DEF g
    <3> HIDE DEF m
    <3>4. DOMAIN stack' = 1..m /\ \A j \in 1..m : stack'[j] = IF j = m THEN g ELSE stack[j]
      BY <3>3
    <3>5. stack' = [t EXCEPT ![m] = g]
      BY <3>1, <3>2, <3>3
    <3> QED BY <1>2, <2>1, <3>2, <3>5 DEF m
  <2>7. /\ StackSound(created, stack') /\ Len(stack') = m
        /\ \A j \in 1..m : stack'[j] = IF j = m THEN g ELSE t[j]
    <3> HIDE DEF g
    <3> DEFINE v == [t EXCEPT ![Len(t)] = g]
    <3>1. BestSound(created, g) /\ TrySound(created, g)
      BY <2>2, <2>5 DEF BestSound, TrySound
    <3>2. /\ StackSound(created, t) /\ Len(t) > 0 /\ g \in FrameSet /\ g.out = t[Len(t)].out /\ g.i = -1
      BY <1>2, <2>1, <2>5, <2>6
    <3>3. /\ StackSound(created, v) /\ Len(v) = Len(t)
          /\ \A j \in 1..Len(t) : v[j] = IF j = Len(t) THEN g ELSE t[j]
      BY <3>1, <3>2, TopReplaced
    <3>4. stack' = v /\ Len(t) = m
      BY <2>6
    <3> HIDE DEF v
    <3> QED BY <3>3, <3>4
  <2>8. ASSUME Acyclic(plugins)
        PROVE  \A j \in 1..m : FrameBest(W, stack'[j])
    <3>1. \A j \in 1..n : FrameBest(W, stack[j])
      BY <2>8 DEF SearchInv, Optimal
    <3>2. FrameBest(W, f)
      BY <2>1, <3>1
    <3> HIDE DEF W
    <3>3. Offers(given, W, p) = {}
      <4> SUFFICES ASSUME NEW o \in Offers(given, W, p) PROVE FALSE
        OBVIOUS
      <4>1. << Frame.out, o[Frame.out].cost >> \in W
        BY <1>1, <2>4 DEF Offers
      <4> QED BY <1>3, <2>8, <4>1
    <3> HIDE DEF g
    <3>4. \A h \in DOMAIN plugins : Past(g, h) => h = f.k \/ Past(f, h)
      BY <2>5 DEF Past
    <3> HIDE DEF f
    <3>5. FrameBest(W, g)
      BY <2>5, <3>2, <3>3, <3>4 DEF FrameBest
    <3>6. ASSUME NEW j \in 1..m PROVE FrameBest(W, stack'[j])
      <4>1. j \in 1..n /\ j \in 1..n - 1
        BY <1>1
      <4> QED BY <1>2, <2>7, <3>1, <3>5, <4>1
    <3> QED BY <3>6
  <2>9. stack'[1].out = target
    <3> HIDE DEF g
    <3>1. stack[1].out = target /\ 1 \in 1..m /\ 1 \in 1..n - 1
      BY <1>1, <2>1 DEF SearchInv
    <3>2. stack'[1] = IF 1 = m THEN g ELSE stack[1]
      BY <1>2, <2>7, <3>1
    <3> QED BY <2>5, <3>1, <3>2
  <2>10. CreatedSound(created') /\ StackSound(created', stack')
    <3>1. CreatedSound(created) /\ StackSound(created, stack')
      BY <2>7 DEF SearchInv
    <3> QED BY <1>0, <3>1
  <2> QED BY <1>4, <2>1, <2>7, <2>8, <2>9, <2>10, InvPrimed
<1> QED BY <1>5, <1>6

\* A call that succeeds: its mapping is as cheap as any.
LEMMA SucceedStep ==
    ASSUME SearchInv, UNCHANGED callers, Succeed
    PROVE  SearchInv'
<1> DEFINE n == Len(stack)
           W == Ways(plugins, given)
           t == SubSeq(stack, 1, Len(stack) - 1)
           u == Frame.out
           p == Frame.via
           a == Frame.best
<1>0. /\ Searching /\ Frame.i = -1 /\ Candidates = {} /\ p # NULL
      /\ created' = [x \in DOMAIN created \cup {u} |->
                       IF x = u THEN [via |-> p, cost |-> a] ELSE created[x]]
      /\ stack' = t /\ dead' = dead
  BY DEF Succeed, Front
<1>1. /\ Frame = stack[n] /\ n \in Nat /\ n > 0 /\ n \in 1..n
      /\ u \in Uris /\ u \notin given /\ u \notin DOMAIN created /\ BestSound(created, Frame)
  BY <1>0, FrameTyped
<1>2. /\ StackSound(created, t) /\ Len(t) = n - 1 /\ \A j \in 1..n - 1 : t[j] = stack[j]
  BY <1>1, TopPopped DEF SearchInv
<1>3. /\ p \in ToSet(plugins) /\ p.out = u /\ Inputs(p) \ given \subseteq DOMAIN created
      /\ a = Total(created, p, Len(p.ins))
  BY <1>0, <1>1 DEF BestSound
<1>4. Acyclic(plugins) => \A w \in W : w[1] = u => a <= w[2]
  BY <1>0, FrameDone
<1>5. \A j \in 1..n - 1 : stack[j].out # u
  BY <1>1 DEF SearchInv, StackSound
<1> HIDE DEF t, u, p, a
<1>6. /\ DOMAIN created' = DOMAIN created \cup {u} /\ \A x \in DOMAIN created : created'[x] = created[x]
      /\ created'[u] = [via |-> p, cost |-> a]
  BY <1>0, <1>1
<1>7. CreatedSound(created')
  <2>1. /\ plugins \in PluginLists /\ CreatedSound(created)
        /\ u \in Uris /\ u \notin given /\ u \notin DOMAIN created
        /\ p \in ToSet(plugins) /\ p.out = u /\ Inputs(p) \ given \subseteq DOMAIN created
        /\ a = Total(created, p, Len(p.ins))
    BY <1>0, <1>1, <1>3 DEF SearchInv, u
  <2> QED BY <1>6, <2>1, CreatedGrows
<1>8. StackSound(created', stack')
  <2>1. DOMAIN created \cap given = {} /\ plugins \in PluginLists
    BY DEF SearchInv, CreatedSound
  <2>2. \A j \in 1..Len(t) : t[j].out # u
    BY <1>2, <1>5
  <2>3. StackSound(created', t)
    BY <1>1, <1>2, <1>6, <2>1, <2>2, StackKept
  <2> QED BY <1>0, <2>3
<1>9. ASSUME Acyclic(plugins)
      PROVE  /\ DeadSound(W, dead') /\ CreatedBest(W, created')
             /\ \A j \in 1..Len(stack') : FrameBest(W, stack'[j])
  <2>1. /\ DeadSound(W, dead) /\ CreatedBest(W, created)
        /\ \A j \in 1..n : FrameBest(W, stack[j])
    BY <1>9 DEF SearchInv, Optimal
  <2> HIDE DEF W
  <2>2. CreatedBest(W, created')
    <3> SUFFICES ASSUME NEW w \in W, w[1] \in DOMAIN created' PROVE created'[w[1]].cost <= w[2]
      BY DEF CreatedBest
    <3>1. CASE w[1] = u
      BY <1>4, <1>6, <1>9, <3>1 DEF W
    <3>2. CASE w[1] # u
      BY <1>6, <2>1, <3>2 DEF CreatedBest
    <3> QED BY <3>1, <3>2
  <2>3. ASSUME NEW j \in 1..Len(stack') PROVE FrameBest(W, stack'[j])
    <3>1. j \in 1..n - 1 /\ j \in 1..n
      BY <1>0, <1>1, <1>2
    <3> QED BY <1>0, <1>2, <2>1, <3>1
  <2> QED BY <1>0, <2>1, <2>2, <2>3
<1>10. Len(stack') > 0 => stack'[1].out = target
  <2> SUFFICES ASSUME Len(stack') > 0 PROVE stack'[1].out = target
    OBVIOUS
  <2>1. 1 \in 1..n - 1
    BY <1>0, <1>1, <1>2
  <2>2. stack'[1] = stack[1]
    BY <1>0, <1>2, <2>1
  <2> QED BY <1>1, <2>2 DEF SearchInv
<1>11. Len(stack') = 0 /\ target \notin DOMAIN created' => target \in dead'
  <2> SUFFICES ASSUME Len(stack') = 0 PROVE target \in DOMAIN created'
    OBVIOUS
  <2>1. n = 1
    BY <1>0, <1>1, <1>2
  <2>2. u = target
    BY <1>1, <2>1 DEF SearchInv, u
  <2> QED BY <1>6, <2>2
<1> QED BY <1>7, <1>8, <1>9, <1>10, <1>11, InvPrimed

----------------------------------------------------------------------------
(* The steps of dlite_mapping().                                            *)

LEMMA ResultKept ==
    ASSUME UNCHANGED <<callers, created, found>>, WellFounded
    PROVE  WellFounded'
<1>1. plugins' = plugins /\ given' = given /\ target' = target /\ created' = created /\ found' = found
  BY DEF callers
<1> QED BY <1>1 DEF WellFounded, Reach, Closed, Subs

LEMMA BestKept ==
    ASSUME UNCHANGED <<callers, created, found>>, Cheapest,
           phase' \notin {"create", "search", "aborted"} => phase \notin {"create", "search", "aborted"}
    PROVE  Cheapest'
<1>1. plugins' = plugins /\ given' = given /\ target' = target /\ created' = created /\ found' = found
  BY DEF callers
<1> QED BY <1>1 DEF Cheapest

LEMMA InputsTyped ==
    ASSUME IInv
    PROVE  given \subseteq Uris /\ target \in Uris
  BY InputAssumption DEF IInv

LEMMA AddTyped ==
    ASSUME NEW rc \in [Uris -> Int], NEW S, NEW n \in Int
    PROVE  /\ Add(rc, S, n) \in [Uris -> Int]
           /\ \A u \in Uris : Add(rc, S, n)[u] = IF u \in S THEN rc[u] + n ELSE rc[u]
  BY DEF Add

LEMMA InitIInv == Init => IInv
<1> SUFFICES ASSUME Init PROVE IInv
  OBVIOUS
<1>1. given \subseteq Uris
  BY InputAssumption DEF Init
<1> QED BY <1>1 DEF Init, IInv, WellFounded, Cheapest

LEMMA CreateIInv ==
    ASSUME IInv, UNCHANGED callers, Create
    PROVE  IInv'
<1>0. plugins' = plugins /\ given' = given /\ target' = target
  BY DEF callers
<1>1. /\ phase = "create" /\ refs' = Add(refs, given, 1) /\ dead' = {} /\ ~found
      /\ stack = << >> /\ created = << >>
      /\ plugins \in PluginLists /\ given \in Givens /\ target \in Targets
      /\ refs \in [Uris -> Int] /\ \A u \in given : refs[u] = 1
  BY DEF Create, IInv
<1>2. refs' \in [Uris -> Int] /\ \A u \in given : refs'[u] = 2
  BY <1>1, AddTyped, InputsTyped
<1>3. CASE target \in given
  <2>1. /\ created' = [u \in {target} |-> [via |-> NULL, cost |-> 0]]
        /\ found' = TRUE /\ phase' = "map"
    BY <1>3 DEF Create
  <2>2. Cheapest'
    <3>1. Ways(plugins, given) \in SUBSET (Uris \X Nat)
      BY <1>1, WaysMade
    <3>2. \A w \in Ways(plugins, given) : w[2] \in Nat
      BY <3>1
    <3>3. created'[target].cost = 0
      BY <2>1
    <3> QED BY <1>0, <2>1, <3>2, <3>3 DEF Cheapest
  <2>3. WellFounded'
    BY <1>0, <1>3 DEF WellFounded
  <2> QED BY <1>0, <1>1, <1>2, <1>3, <2>1, <2>2, <2>3 DEF IInv
<1>4. CASE target \notin given
  <2>1. stack' = << NewFrame(target) >> /\ phase' = "search" /\ created' = << >> /\ found' = FALSE
    BY <1>1, <1>4 DEF Create
  <2>2. CreatedSound(created')
    <3>1. DOMAIN created' = {}
      BY <2>1
    <3> QED BY <3>1 DEF CreatedSound
  <2> DEFINE f == NewFrame(target)
  <2>3. /\ f \in FrameSet /\ f.out = target /\ f.i = -1 /\ f.via = NULL /\ f.k = 0
    BY InputsTyped DEF NewFrame, FrameSet
  <2> HIDE DEF f
  <2>4. stack' \in Seq(FrameSet) /\ Len(stack') = 1 /\ stack'[1] = f
    BY <2>1, <2>3 DEF f
  <2>5. StackSound(created', stack')
    <3>1. BestSound(created', f) /\ TrySound(created', f)
      BY <2>3 DEF BestSound, TrySound
    <3>2. f.out \notin given \cup DOMAIN created'
      BY <1>4, <2>1, <2>3
    <3>3. \A j \in 1..Len(stack') : j = 1 /\ stack'[j] = f
      BY <2>4
    <3>4. 1..Len(stack') - 1 = {}
      BY <2>4
    <3>5. \A j \in 1..Len(stack') : \A l \in 1..Len(stack') : l = j
      BY <3>3
    <3> QED BY <2>3, <2>4, <3>1, <3>2, <3>3, <3>4, <3>5 DEF StackSound
  <2>6. Optimal'
    <3> DEFINE W == Ways(plugins, given)
    <3>1. DeadSound(W, dead') /\ CreatedBest(W, created')
      BY <1>1, <2>1 DEF DeadSound, CreatedBest
    <3>2. \A h \in DOMAIN plugins : ~Past(f, h)
      BY <1>1, <2>3, PluginOf DEF Past
    <3>3. \A j \in 1..Len(stack') : FrameBest(W, stack'[j])
      BY <2>4, <3>2 DEF FrameBest
    <3> QED BY <1>0, <3>1, <3>3 DEF Optimal, DeadSound, CreatedBest, FrameBest, Past
  <2>7. SearchInv'
    <3>1. CreatedSound(created)'
      BY <1>0, <2>2 DEF CreatedSound, Made, Based, Subs, Closed
    <3>2. StackSound(created, stack)'
      BY <1>0, <2>5 DEF StackSound, BestSound, TrySound
    <3> QED BY <1>0, <1>1, <1>4, <2>3, <2>4, <2>6, <3>1, <3>2 DEF SearchInv
  <2> QED BY <1>0, <1>1, <1>2, <1>4, <2>1, <2>7 DEF IInv, WellFounded, Cheapest
<1> QED BY <1>3, <1>4

LEMMA SearchIInv ==
    ASSUME IInv, UNCHANGED callers, Search
    PROVE  IInv'
<1>0. plugins' = plugins /\ given' = given /\ target' = target /\ found' = found /\ refs' = refs
  BY DEF callers, Search
<1>1. phase = "search" /\ SearchInv /\ ~found
  BY DEF Search, Consider, Realise, Compare, Fail, Succeed, Searching, IInv
<1>2. phase' = "aborted" \/ SearchInv'
  BY <1>1, ConsiderStep, RealiseStep, CompareStep, FailStep, SucceedStep DEF Search
<1>3. phase' = "aborted" \/ phase' = "search"
  BY <1>1 DEF Search, Consider, Realise, Compare, Fail, Succeed
<1>4. target \notin given
  BY <1>1 DEF SearchInv
<1>5. WellFounded' /\ Cheapest'
  BY <1>0, <1>1, <1>3 DEF WellFounded, Cheapest
<1> QED BY <1>0, <1>1, <1>2, <1>3, <1>4, <1>5 DEF IInv

LEMMA CreatedIInv ==
    ASSUME IInv, UNCHANGED callers, Created
    PROVE  IInv'
<1>0. plugins' = plugins /\ given' = given /\ target' = target /\ refs' = refs
  BY DEF callers, Created
<1>1. phase = "search" /\ stack = << >> /\ SearchInv /\ refs \in [Uris -> Int] /\ \A u \in given : refs[u] = 2
  BY DEF Created, IInv
<1>2. /\ target \notin given /\ CreatedSound(created) /\ plugins \in PluginLists
      /\ Acyclic(plugins) => Optimal
      /\ target \notin DOMAIN created => target \in dead
  <2>1. Len(stack) = 0
    BY <1>1
  <2> QED BY <1>1, <2>1 DEF SearchInv
<1>3. CASE target \in DOMAIN created
  <2>1. found' = TRUE /\ created' = Kept(created) /\ phase' = "map"
    BY <1>3 DEF Created
  <2>2. Construction(created') /\ created'[target] = created[target]
    BY <1>2, <1>3, <2>1, KeptIsConstruction
  <2>3. WellFounded'
    BY <1>0, <2>2 DEF Construction, WellFounded, Reach, Closed, Subs
  <2>4. Cheapest'
    <3>1. Acyclic(plugins) => \A w \in Ways(plugins, given) : w[1] = target => created[target].cost <= w[2]
      BY <1>2, <1>3 DEF Optimal, CreatedBest
    <3> QED BY <1>0, <2>1, <2>2, <3>1 DEF Cheapest
  <2> QED BY <1>0, <1>1, <1>2, <2>1, <2>3, <2>4 DEF IInv, SearchInv
<1>4. CASE target \notin DOMAIN created
  <2>1. found' = FALSE /\ created' = << >> /\ phase' = "free"
    <3>1. found' = (target \in DOMAIN created)
      BY DEF Created
    <3>2. (target \in DOMAIN created) = FALSE
      BY <1>4
    <3>3. found' = FALSE
      BY <3>1, <3>2
    <3>4. created' = << >> /\ phase' = "free"
      BY <3>3 DEF Created
    <3> QED BY <3>3, <3>4
  <2>2. Cheapest'
    <3>1. Acyclic(plugins) => \A w \in Ways(plugins, given) : w[1] # target
      BY <1>2, <1>4 DEF Optimal, DeadSound
    <3> QED BY <1>0, <3>1 DEF Cheapest
  <2>3. Held(2)'
    BY <1>0, <1>1, <1>2, <2>1 DEF Held
  <2> QED BY <1>0, <1>1, <1>2, <2>1, <2>2, <2>3 DEF IInv, SearchInv, WellFounded
<1> QED BY <1>3, <1>4

LEMMA MapIInv ==
    ASSUME IInv, UNCHANGED callers, Map
    PROVE  IInv'
<1>0. /\ plugins' = plugins /\ given' = given /\ target' = target
      /\ created' = created /\ found' = found
  BY DEF callers, Map
<1>1. /\ phase = "map" /\ found /\ refs \in [Uris -> Int] /\ \A u \in given : refs[u] = 2
      /\ target \in given => created = [u \in {target} |-> [via |-> NULL, cost |-> 0]]
      /\ given \subseteq Uris
  BY InputsTyped DEF Map, IInv
<1>2. phase' \in {"free", "passed NULL"}
  BY DEF Map
<1>3. WellFounded' /\ Cheapest'
  BY <1>0, <1>1, <1>2, ResultKept, BestKept DEF IInv
<1> DEFINE rc == Add(refs, GivenBack, -1)
           new == DOMAIN created \ given
<1>4. /\ rc \in [Uris -> Int]
      /\ \A u \in Uris : rc[u] = IF u \in GivenBack THEN refs[u] + -1 ELSE refs[u]
  BY <1>1, AddTyped
<1>5. \/ phase' = "free" /\ refs' = (IF target \in given THEN Add(rc, {target}, 1) ELSE Add(rc, new, 2))
      \/ phase' = "free" /\ target \notin given /\ refs' = Add(rc, new \ {target}, 2)
      \/ phase' = "passed NULL" /\ refs' = rc
  BY DEF Map
<1> HIDE DEF rc
<1>6. \A u \in Used(created) : u \in given /\ u \in Uris /\ rc[u] = 2
  <2> SUFFICES ASSUME NEW u \in Used(created)
               PROVE  u \in given /\ u \in Uris /\ rc[u] = 2
    OBVIOUS
  <2>1. u \in given /\ u \in Uris
    BY <1>1 DEF Used
  <2>2. u \notin GivenBack
    BY DEF GivenBack
  <2>3. rc[u] = refs[u] /\ refs[u] = 2
    BY <1>1, <1>4, <2>1, <2>2
  <2> QED BY <2>1, <2>3
<1>7. /\ Add(rc, {target}, 1) \in [Uris -> Int] /\ Add(rc, new, 2) \in [Uris -> Int]
      /\ Add(rc, new \ {target}, 2) \in [Uris -> Int]
      /\ \A u \in Uris : /\ Add(rc, {target}, 1)[u] = IF u \in {target} THEN rc[u] + 1 ELSE rc[u]
                         /\ Add(rc, new, 2)[u] = IF u \in new THEN rc[u] + 2 ELSE rc[u]
                         /\ Add(rc, new \ {target}, 2)[u] = IF u \in new \ {target} THEN rc[u] + 2 ELSE rc[u]
  BY <1>4, AddTyped
<1>8. refs' \in [Uris -> Int]
  BY <1>4, <1>5, <1>7
<1>9. phase' = "free" => Held(2)'
  <2> SUFFICES ASSUME phase' = "free", NEW u \in Used(created)
               PROVE  refs'[u] = IF u = target THEN 3 ELSE 2
    BY <1>0, <1>1 DEF Held, Used
  <2>1. u \in given /\ u \in Uris /\ rc[u] = 2 /\ u \notin new
    BY <1>6
  <2> HIDE DEF new
  <2>2. CASE target \in given
    <3>1. refs' = Add(rc, {target}, 1)
      BY <1>5, <2>2
    <3>2. Add(rc, {target}, 1)[u] = IF u \in {target} THEN rc[u] + 1 ELSE rc[u]
      BY <1>7, <2>1
    <3> QED BY <2>1, <3>1, <3>2
  <2>3. CASE target \notin given
    <3>1. u # target
      BY <2>1, <2>3
    <3>2. refs' = Add(rc, new, 2) \/ refs' = Add(rc, new \ {target}, 2)
      BY <1>5, <2>3
    <3>3. /\ Add(rc, new, 2)[u] = IF u \in new THEN rc[u] + 2 ELSE rc[u]
          /\ Add(rc, new \ {target}, 2)[u] = IF u \in new \ {target} THEN rc[u] + 2 ELSE rc[u]
      BY <1>7, <2>1
    <3> QED BY <2>1, <3>1, <3>2, <3>3
  <2> QED BY <2>2, <2>3
<1> QED BY <1>0, <1>1, <1>2, <1>3, <1>8, <1>9 DEF IInv

LEMMA FreeIInv ==
    ASSUME IInv, UNCHANGED callers, Free
    PROVE  IInv'
<1>0. /\ plugins' = plugins /\ given' = given /\ target' = target
      /\ created' = created /\ found' = found /\ phase = "free" /\ phase' = "done"
      /\ refs' = Add(refs, given, -1)
  BY DEF callers, Free
<1>1. refs \in [Uris -> Int] /\ given \subseteq Uris /\ Held(2)
  BY <1>0, InputsTyped DEF IInv
<1>2. WellFounded' /\ Cheapest'
  BY <1>0, ResultKept, BestKept DEF IInv
<1>3. refs' \in [Uris -> Int] /\ \A u \in given : refs'[u] = refs[u] + -1
  BY <1>0, <1>1, AddTyped
<1>4. Held(1)'
  <2> SUFFICES ASSUME NEW u \in (IF found THEN Used(created) ELSE given)
               PROVE  refs'[u] = IF u = target THEN 2 ELSE 1
    BY <1>0 DEF Held, Used
  <2>1. refs[u] = IF u = target THEN 3 ELSE 2
    BY <1>1 DEF Held
  <2>2. u \in given
    BY DEF Used
  <2> QED BY <1>3, <2>1, <2>2
<1> QED BY <1>0, <1>2, <1>3, <1>4 DEF IInv

LEMMA StutterIInv ==
    ASSUME IInv, UNCHANGED vars
    PROVE  IInv'
<1>0. /\ UNCHANGED callers /\ plugins' = plugins /\ given' = given /\ target' = target
      /\ created' = created /\ found' = found /\ phase' = phase /\ refs' = refs
      /\ stack' = stack /\ dead' = dead
  BY DEF vars, callers
<1>1. WellFounded' /\ Cheapest'
  BY <1>0, ResultKept, BestKept DEF IInv
<1>2. phase = "search" => SearchInv'
  <2> SUFFICES ASSUME phase = "search" PROVE SearchInv'
    OBVIOUS
  <2>1. SearchInv
    BY DEF IInv
  <2>2. CreatedSound(created') /\ StackSound(created', stack')
    <3>1. CreatedSound(created) /\ StackSound(created, stack)
      BY <2>1 DEF SearchInv
    <3> QED BY <1>0, <3>1
  <2>3. Acyclic(plugins) =>
              /\ DeadSound(Ways(plugins, given), dead')
              /\ CreatedBest(Ways(plugins, given), created')
              /\ \A j \in 1..Len(stack') : FrameBest(Ways(plugins, given), stack'[j])
    BY <1>0, <2>1 DEF SearchInv, Optimal
  <2> QED BY <1>0, <2>1, <2>2, <2>3, InvPrimed DEF SearchInv
<1>3. Held(1)' = Held(1) /\ Held(2)' = Held(2)
  BY <1>0 DEF Held, Used
<1> QED BY <1>0, <1>1, <1>2, <1>3 DEF IInv

LEMMA NextIInv == IInv /\ [Next]_vars => IInv'
<1> SUFFICES ASSUME IInv, [Next]_vars PROVE IInv'
  OBVIOUS
<1>1. CASE UNCHANGED vars
  BY <1>1, StutterIInv
<1>2. CASE Step
  BY <1>2, CreateIInv, SearchIInv, CreatedIInv, MapIInv, FreeIInv DEF Step
<1> QED BY <1>1, <1>2 DEF Next, Returned

LEMMA Invariance == Spec => []IInv
  BY InitIInv, NextIInv, PTL DEF Spec

----------------------------------------------------------------------------
(* The theorems.                                                            *)

\* What mapping_create_rec() finds is a finite construction from the inputs,
\* and dlite_mapping_free() is left with it alone.
THEOREM MappingIsWellFounded == Spec => []WellFounded
<1>1. IInv => WellFounded
  BY DEF IInv
<1> QED BY <1>1, Invariance, PTL

\* Where the plugins form no cycle, mapping_create_rec() gives up only on what
\* cannot be made, and nothing is cheaper than what it finds.
THEOREM MappingIsCheapest == Spec => []Cheapest
<1>1. IInv => Cheapest
  BY DEF IInv
<1> QED BY <1>1, Invariance, PTL

\* dlite_mapping() gives back the references to the inputs it used.
THEOREM InputsKept == Spec => []UsedInputsKept
<1>1. IInv => UsedInputsKept
  BY DEF IInv, UsedInputsKept, Held
<1> QED BY <1>1, Invariance, PTL
=============================================================================
