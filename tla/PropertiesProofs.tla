-------------------------- MODULE PropertiesProofs --------------------------
(* Machine-checked proofs about Properties: the memory of properties has the *)
(* size that the dimensions ask for, no string is lost, and every access     *)
(* outside of memory has one of the known causes, for every metadata, every  *)
(* value of the shape expressions and every number of instances, as long as  *)
(* the number of elements of a property is an int.                           *)
EXTENDS Properties, FiniteSetTheorems, WellFoundedInduction, TLAPS

----------------------------------------------------------------------------
(* Induction and the numbers of elements.                                   *)

\* Induction over the natural numbers, for a set of them.
LEMMA SetInduction ==
    ASSUME NEW T, 0 \in T, \A n \in Nat : n \in T => n + 1 \in T
    PROVE  Nat \subseteq T
<1> SUFFICES ASSUME Nat \ T # {} PROVE FALSE
  OBVIOUS
<1>1. PICK m \in Nat \ T : \A n \in Nat \ T : <<n, m>> \notin OpToRel(<, Nat)
  BY NatLessThanWellFounded, WFMin
<1>2. m # 0 /\ m - 1 \in Nat /\ m \in Nat
  OBVIOUS
<1>3. m - 1 \in T
  <2>1. <<m - 1, m>> \in OpToRel(<, Nat)
    BY <1>2 DEF OpToRel
  <2> QED BY <1>1, <1>2, <2>1
<1> QED BY <1>2, <1>3

\* The least element.
LEMMA MinIn ==
    ASSUME NEW S, S \subseteq Nat, S # {}
    PROVE  Min(S) \in S /\ \A n \in S : Min(S) <= n
<1>1. PICK m \in S : \A n \in S : <<n, m>> \notin OpToRel(<, Nat)
  BY NatLessThanWellFounded, WFMin
<1>2. ASSUME NEW n \in S PROVE m <= n
  <2>1. n \in Nat /\ m \in Nat
    OBVIOUS
  <2>2. ~(n < m)
    BY <1>1, <2>1 DEF OpToRel
  <2> QED BY <2>1, <2>2
<1>3. \E x \in S : \A y \in S : x <= y
  BY <1>2
<1> QED BY <1>3 DEF Min

\* The remainder of a division ...
LEMMA ModRange ==
    ASSUME NEW a \in Int, NEW n \in Nat, n > 0
    PROVE  a % n \in 0..(n - 1)
<1>1. a % n \in Int
  OBVIOUS
<1>2. a % n >= 0
  OBVIOUS
<1>3. a % n <= n - 1
  OBVIOUS
<1> QED BY <1>1, <1>2, <1>3

\* ... is unique.
LEMMA ModUnique ==
    ASSUME NEW a \in Int, NEW n \in Nat, n > 0, NEW q \in Int, NEW r \in 0..(n - 1),
           a = n * q + r
    PROVE  a % n = r
<1> DEFINE k == a \div n
           s == a % n
<1>1. s \in 0..(n - 1) /\ k \in Int
  BY ModRange
<1>2. a = n * k + s
  OBVIOUS
<1> HIDE DEF k, s
<1>3. n * (k - q) = r - s
  BY <1>1, <1>2
<1>4. k - q < 1
  <2> SUFFICES ASSUME k - q >= 1 PROVE FALSE
    BY <1>1
  <2>1. n * (k - q) >= n
    BY <1>1
  <2> QED BY <1>1, <1>3, <2>1
<1>5. k - q > -1
  <2> SUFFICES ASSUME k - q <= -1 PROVE FALSE
    BY <1>1
  <2>1. n * (k - q) <= -n
    BY <1>1
  <2> QED BY <1>1, <1>3, <2>1
<1>6. k = q
  BY <1>1, <1>4, <1>5
<1>7. s = r
  BY <1>1, <1>2, <1>6
<1> QED BY <1>7 DEF s

\* The product of a sequence is what multiplying its elements one by one gives.
LEMMA ProductDef ==
    ASSUME NEW s, Len(s) \in Nat, \A n \in 1..Len(s) : s[n] \in Int
    PROVE  \E f \in [0..Len(s) -> Int] :
              /\ Product(s) = f[Len(s)]
              /\ f[0] = 1
              /\ \A n \in 1..Len(s) : f[n] = f[n - 1] * s[n]
<1> DEFINE L == Len(s)
           Works(f, k) == f = [n \in 0..k |-> IF n = 0 THEN 1 ELSE f[n - 1] * s[n]]
           T == {k \in Nat : k <= L => \E f \in [0..k -> Int] : Works(f, k)}
<1> L \in Nat
  OBVIOUS
<1>1. 0 \in T
  <2> DEFINE f == [n \in 0..0 |-> 1]
  <2>1. f \in [0..0 -> Int] /\ Works(f, 0)
    OBVIOUS
  <2> QED BY <2>1
<1>2. ASSUME NEW k \in Nat, k \in T PROVE k + 1 \in T
  <2> SUFFICES ASSUME k + 1 <= L
               PROVE  \E g \in [0..(k + 1) -> Int] : Works(g, k + 1)
    OBVIOUS
  <2>1. PICK f \in [0..k -> Int] : Works(f, k)
    BY <1>2
  <2> DEFINE g == [n \in 0..(k + 1) |-> IF n <= k THEN f[n] ELSE f[k] * s[k + 1]]
  <2>2. f[k] \in Int /\ s[k + 1] \in Int
    OBVIOUS
  <2>3. f[k] * s[k + 1] \in Int
    BY <2>2
  <2>4. g \in [0..(k + 1) -> Int]
    BY <2>3
  <2>5. ASSUME NEW n \in 0..(k + 1)
        PROVE  g[n] = IF n = 0 THEN 1 ELSE g[n - 1] * s[n]
    <3>1. CASE n = 0
      BY <2>1, <3>1
    <3>2. CASE n # 0 /\ n <= k
      <4>1. g[n] = f[n] /\ g[n - 1] = f[n - 1]
        BY <3>2
      <4>2. f[n] = f[n - 1] * s[n]
        BY <2>1, <3>2
      <4> QED BY <3>2, <4>1, <4>2
    <3>3. CASE n = k + 1
      BY <3>3
    <3> QED BY <3>1, <3>2, <3>3
  <2>6. Works(g, k + 1)
    BY <2>5
  <2> QED BY <2>4, <2>6
<1>3. PICK f \in [0..L -> Int] : Works(f, L)
  <2> HIDE DEF T
  <2>1. L \in T
    BY <1>1, <1>2, SetInduction
  <2> QED BY <2>1 DEF T
<1> DEFINE h == CHOOSE e : Works(e, L)
<1>4. Works(h, L)
  BY <1>3
<1>5. Product(s) = h[L]
  BY DEF Product
<1> HIDE DEF h
<1>6. h[0] = 1 /\ \A n \in 1..L : h[n] = h[n - 1] * s[n]
  BY <1>4
<1>7. h \in [0..L -> Int]
  <2> DEFINE U == {k \in Nat : k <= L => h[k] \in Int}
  <2>1. 0 \in U
    BY <1>6
  <2>2. ASSUME NEW k \in Nat, k \in U PROVE k + 1 \in U
    <3> SUFFICES ASSUME k + 1 <= L PROVE h[k + 1] \in Int
      OBVIOUS
    <3>1. h[k] \in Int /\ s[k + 1] \in Int
      BY <2>2
    <3>2. h[k + 1] = h[k] * s[k + 1]
      BY <1>6
    <3> QED BY <3>1, <3>2
  <2> HIDE DEF U
  <2>3. Nat \subseteq U
    BY <2>1, <2>2, SetInduction
  <2>4. \A k \in 0..L : h[k] \in Int
    BY <2>3 DEF U
  <2> QED BY <1>4, <2>4
<1> QED BY <1>5, <1>6, <1>7

LEMMA ProductInt ==
    ASSUME NEW s, Len(s) \in Nat, \A n \in 1..Len(s) : s[n] \in Int
    PROVE  Product(s) \in Int
  BY ProductDef

\* Nothing negative comes of factors that are not.
LEMMA ProductNat ==
    ASSUME NEW s, Len(s) \in Nat, \A n \in 1..Len(s) : s[n] \in Nat
    PROVE  Product(s) \in Nat
<1>1. PICK f \in [0..Len(s) -> Int] : /\ Product(s) = f[Len(s)] /\ f[0] = 1
                                     /\ \A n \in 1..Len(s) : f[n] = f[n - 1] * s[n]
  BY ProductDef
<1> DEFINE T == {k \in Nat : k <= Len(s) => f[k] \in Nat}
<1>2. 0 \in T
  BY <1>1
<1>3. ASSUME NEW k \in Nat, k \in T PROVE k + 1 \in T
  <2> SUFFICES ASSUME k + 1 <= Len(s) PROVE f[k + 1] \in Nat
    OBVIOUS
  <2>1. f[k] \in Nat /\ s[k + 1] \in Nat
    BY <1>3
  <2>2. f[k + 1] = f[k] * s[k + 1]
    BY <1>1
  <2> QED BY <2>1, <2>2
<1> HIDE DEF T
<1>4. Nat \subseteq T
  BY <1>2, <1>3, SetInduction
<1> QED BY <1>1, <1>4 DEF T

\* The position of an element in row-major order, index by index.
LEMMA PositionDef ==
    ASSUME NEW s, Len(s) \in Nat, \A n \in 1..Len(s) : s[n] \in Int,
           NEW i, \A n \in 1..Len(s) : i[n] \in Int
    PROVE  \E f \in [0..Len(s) -> Int] :
              /\ Position(s, i) = f[Len(s)]
              /\ f[0] = 0
              /\ \A n \in 1..Len(s) : f[n] = f[n - 1] * s[n] + i[n]
<1> DEFINE L == Len(s)
           Works(f, k) == f = [n \in 0..k |-> IF n = 0 THEN 0 ELSE f[n - 1] * s[n] + i[n]]
           T == {k \in Nat : k <= L => \E f \in [0..k -> Int] : Works(f, k)}
<1> L \in Nat
  OBVIOUS
<1>1. 0 \in T
  <2> DEFINE f == [n \in 0..0 |-> 0]
  <2>1. f \in [0..0 -> Int]
    OBVIOUS
  <2>2. \A n \in 0..0 : (IF n = 0 THEN 0 ELSE f[n - 1] * s[n] + i[n]) = 0
    OBVIOUS
  <2>3. Works(f, 0)
    BY <2>2
  <2> QED BY <2>1, <2>3
<1>2. ASSUME NEW k \in Nat, k \in T PROVE k + 1 \in T
  <2> HIDE DEF Works
  <2> SUFFICES ASSUME k + 1 <= L
               PROVE  \E g \in [0..(k + 1) -> Int] : Works(g, k + 1)
    OBVIOUS
  <2>1. PICK f \in [0..k -> Int] : Works(f, k)
    BY <1>2
  <2> USE DEF Works
  <2> DEFINE g == [n \in 0..(k + 1) |-> IF n <= k THEN f[n] ELSE f[k] * s[k + 1] + i[k + 1]]
  <2>2. f[k] \in Int /\ s[k + 1] \in Int /\ i[k + 1] \in Int
    OBVIOUS
  <2>3. f[k] * s[k + 1] + i[k + 1] \in Int
    BY <2>2
  <2>4. g \in [0..(k + 1) -> Int]
    BY <2>3
  <2>5. ASSUME NEW n \in 0..(k + 1)
        PROVE  g[n] = IF n = 0 THEN 0 ELSE g[n - 1] * s[n] + i[n]
    <3>1. CASE n = 0
      BY <2>1, <3>1
    <3>2. CASE n # 0 /\ n <= k
      <4>1. g[n] = f[n] /\ g[n - 1] = f[n - 1]
        BY <3>2
      <4>2. f[n] = f[n - 1] * s[n] + i[n]
        BY <2>1, <3>2
      <4> QED BY <3>2, <4>1, <4>2
    <3>3. CASE n = k + 1
      BY <3>3
    <3> QED BY <3>1, <3>2, <3>3
  <2>6. Works(g, k + 1)
    BY <2>5
  <2> QED BY <2>4, <2>6
<1>3. PICK f \in [0..L -> Int] : Works(f, L)
  <2> HIDE DEF T
  <2>1. L \in T
    BY <1>1, <1>2, SetInduction
  <2> QED BY <2>1 DEF T
<1> DEFINE h == CHOOSE e : Works(e, L)
<1>4. Works(h, L)
  BY <1>3
<1>5. Position(s, i) = h[L]
  BY DEF Position
<1> HIDE DEF h
<1>6. h[0] = 0 /\ \A n \in 1..L : h[n] = h[n - 1] * s[n] + i[n]
  BY <1>4
<1>7. h \in [0..L -> Int]
  <2> DEFINE U == {k \in Nat : k <= L => h[k] \in Int}
  <2>1. 0 \in U
    BY <1>6
  <2>2. ASSUME NEW k \in Nat, k \in U PROVE k + 1 \in U
    <3> SUFFICES ASSUME k + 1 <= L PROVE h[k + 1] \in Int
      OBVIOUS
    <3>1. h[k] \in Int /\ s[k + 1] \in Int /\ i[k + 1] \in Int
      BY <2>2
    <3>2. h[k + 1] = h[k] * s[k + 1] + i[k + 1]
      BY <1>6
    <3> QED BY <3>1, <3>2
  <2> HIDE DEF U
  <2>3. Nat \subseteq U
    BY <2>1, <2>2, SetInduction
  <2>4. \A k \in 0..L : h[k] \in Int
    BY <2>3 DEF U
  <2> QED BY <1>4, <2>4
<1> QED BY <1>5, <1>6, <1>7

\* Products of ordered factors are ordered.
LEMMA Ordered ==
    ASSUME NEW a \in Int, NEW b \in Int, NEW c \in Nat, a <= b
    PROVE  a * c <= b * c
  OBVIOUS

\* The position of an index is in the block.
LEMMA PositionRange ==
    ASSUME NEW s, Len(s) \in Nat, \A n \in 1..Len(s) : s[n] \in Int,
           NEW i, \A n \in 1..Len(s) : i[n] \in Nat /\ i[n] < s[n]
    PROVE  Position(s, i) \in Nat /\ Position(s, i) < Product(s)
<1>0. \A n \in 1..Len(s) : s[n] \in Int /\ i[n] \in Int
  OBVIOUS
<1>1. PICK f \in [0..Len(s) -> Int] :
              /\ Product(s) = f[Len(s)] /\ f[0] = 1
              /\ \A n \in 1..Len(s) : f[n] = f[n - 1] * s[n]
  BY <1>0, ProductDef
<1>2. PICK g \in [0..Len(s) -> Int] :
              /\ Position(s, i) = g[Len(s)] /\ g[0] = 0
              /\ \A n \in 1..Len(s) : g[n] = g[n - 1] * s[n] + i[n]
  BY <1>0, PositionDef
<1> DEFINE T == {k \in Nat : k <= Len(s) => g[k] \in Nat /\ g[k] + 1 <= f[k]}
<1>3. 0 \in T
  BY <1>1, <1>2
<1>4. ASSUME NEW k \in Nat, k \in T PROVE k + 1 \in T
  <2> SUFFICES ASSUME k + 1 <= Len(s)
               PROVE  g[k + 1] \in Nat /\ g[k + 1] + 1 <= f[k + 1]
    OBVIOUS
  <2> DEFINE a == g[k]
             b == f[k]
             c == s[k + 1]
             j == i[k + 1]
  <2>1. a \in Nat /\ b \in Int /\ a + 1 <= b /\ c \in Nat /\ j \in Nat /\ j < c
    <3>1. k + 1 \in 1..Len(s) /\ a \in Nat /\ a + 1 <= b /\ b \in Int
      BY <1>4
    <3>2. c \in Int /\ j \in Nat /\ j < c
      BY <3>1
    <3> QED BY <3>1, <3>2
  <2>2. f[k + 1] = b * c /\ g[k + 1] = a * c + j
    BY <1>1, <1>2
  <2> HIDE DEF a, b, c, j
  <2>3. (a + 1) * c <= b * c
    BY <2>1, Ordered
  <2>4. (a + 1) * c = a * c + c /\ a * c \in Nat /\ b * c \in Int
    BY <2>1
  <2> DEFINE ac == a * c
             bc == b * c
  <2>5. ac + c <= bc /\ ac \in Nat /\ bc \in Int /\ f[k + 1] = bc /\ g[k + 1] = ac + j
    BY <2>2, <2>3, <2>4
  <2> HIDE DEF ac, bc
  <2> QED BY <2>1, <2>5
<1> HIDE DEF T
<1>5. Len(s) \in T
  BY <1>3, <1>4, SetInduction
<1>6. g[Len(s)] \in Nat /\ g[Len(s)] + 1 <= f[Len(s)] /\ f[Len(s)] \in Int
  BY <1>1, <1>5 DEF T
<1> QED BY <1>1, <1>2, <1>6

\* It does not depend on the first dimension.
LEMMA SamePosition ==
    ASSUME NEW s, Len(s) \in Nat, \A n \in 1..Len(s) : s[n] \in Int,
           NEW t, Len(t) = Len(s), \A n \in 1..Len(t) : t[n] \in Int,
           \A n \in 2..Len(s) : t[n] = s[n],
           NEW i, \A n \in 1..Len(s) : i[n] \in Int
    PROVE  Position(t, i) = Position(s, i)
<1>1. PICK f \in [0..Len(s) -> Int] :
              /\ Position(s, i) = f[Len(s)] /\ f[0] = 0
              /\ \A n \in 1..Len(s) : f[n] = f[n - 1] * s[n] + i[n]
  BY PositionDef
<1>2. PICK g \in [0..Len(t) -> Int] :
              /\ Position(t, i) = g[Len(t)] /\ g[0] = 0
              /\ \A n \in 1..Len(t) : g[n] = g[n - 1] * t[n] + i[n]
  BY PositionDef
<1> DEFINE T == {k \in Nat : k <= Len(s) => g[k] = f[k]}
<1>3. 0 \in T
  BY <1>1, <1>2
<1>4. ASSUME NEW k \in Nat, k \in T PROVE k + 1 \in T
  <2> SUFFICES ASSUME k + 1 <= Len(s) PROVE g[k + 1] = f[k + 1]
    OBVIOUS
  <2>1. g[k] = f[k]
    BY <1>4
  <2>2. f[k + 1] = f[k] * s[k + 1] + i[k + 1] /\ g[k + 1] = g[k] * t[k + 1] + i[k + 1]
    BY <1>1, <1>2
  <2>3. CASE k = 0
    BY <1>1, <1>2, <2>2, <2>3
  <2>4. CASE k > 0
    <3>1. t[k + 1] = s[k + 1]
      BY <2>4
    <3> QED BY <2>1, <2>2, <3>1
  <2> QED BY <2>3, <2>4
<1> HIDE DEF T
<1>5. Len(s) \in T
  BY <1>3, <1>4, SetInduction
<1> QED BY <1>1, <1>2, <1>5 DEF T

\* An index that is beyond the first dimension is behind the block.
LEMMA PositionBeyond ==
    ASSUME NEW s, Len(s) \in Nat, Len(s) > 0, \A n \in 1..Len(s) : s[n] \in Nat,
           NEW i, \A n \in 1..Len(s) : i[n] \in Nat, i[1] >= s[1]
    PROVE  Position(s, i) >= Product(s)
<1>0. \A n \in 1..Len(s) : s[n] \in Int /\ i[n] \in Int
  OBVIOUS
<1>1. PICK f \in [0..Len(s) -> Int] :
              /\ Product(s) = f[Len(s)] /\ f[0] = 1
              /\ \A n \in 1..Len(s) : f[n] = f[n - 1] * s[n]
  BY <1>0, ProductDef
<1>2. PICK g \in [0..Len(s) -> Int] :
              /\ Position(s, i) = g[Len(s)] /\ g[0] = 0
              /\ \A n \in 1..Len(s) : g[n] = g[n - 1] * s[n] + i[n]
  <2>1. \A n \in 1..Len(s) : s[n] \in Int
    BY <1>0
  <2>2. \A n \in 1..Len(s) : i[n] \in Int
    BY <1>0
  <2> QED BY <2>1, <2>2, PositionDef, Zenon
<1> DEFINE T == {k \in Nat : k + 1 <= Len(s) => g[k + 1] >= f[k + 1]}
<1>3. 0 \in T
  <2>1. f[1] = 1 * s[1] /\ g[1] = 0 * s[1] + i[1]
    BY <1>1, <1>2
  <2> QED BY <2>1
<1>4. ASSUME NEW k \in Nat, k \in T PROVE k + 1 \in T
  <2> SUFFICES ASSUME k + 2 <= Len(s) PROVE g[k + 2] >= f[k + 2]
    OBVIOUS
  <2> DEFINE a == g[k + 1]
             b == f[k + 1]
             c == s[k + 2]
             j == i[k + 2]
  <2>1. a \in Int /\ b \in Int /\ b <= a /\ c \in Nat /\ j \in Nat
    BY <1>4
  <2>2. f[k + 2] = b * c /\ g[k + 2] = a * c + j
    BY <1>1, <1>2
  <2> HIDE DEF a, b, c, j
  <2>3. b * c <= a * c
    BY <2>1, Ordered
  <2>4. a * c \in Int /\ b * c \in Int
    BY <2>1
  <2> DEFINE ac == a * c
             bc == b * c
  <2>5. bc <= ac /\ ac \in Int /\ bc \in Int /\ f[k + 2] = bc /\ g[k + 2] = ac + j
    BY <2>2, <2>3, <2>4
  <2> HIDE DEF ac, bc
  <2> QED BY <2>1, <2>5
<1> HIDE DEF T
<1>5. Len(s) - 1 \in T
  BY <1>3, <1>4, SetInduction
<1> QED BY <1>1, <1>2, <1>5 DEF T

\* Computed as a size_t and as an int, the number of elements is the same where
\* it is small enough, and right where it is an int.
LEMMA Sizes ==
    ASSUME NEW s, Product(s) \in Int
    PROVE  /\ SizeT(s) \in Nat /\ IntT(s) \in Int
           /\ IntT(s) < IntHalf
           /\ SizeT(s) < IntHalf => IntT(s) = SizeT(s)
           /\ Product(s) \in 0..(IntHalf - 1) =>
                 SizeT(s) = Product(s) /\ IntT(s) = Product(s)
<1> DEFINE a == Product(s)
           H == IntHalf
           n == 4 * H * H
           k == a \div n
           r == a % n
<1> H \in Nat /\ H > 1 /\ MaxMemb \in 0..(H - 1)
  BY PropertiesAssumption
<1> a \in Int
  OBVIOUS
<1> HIDE DEF a, H
<1>1. n \in Nat /\ n > 0 /\ n >= 2 * H
  <2>1. H * H >= H /\ H * H \in Nat
    OBVIOUS
  <2> QED BY <2>1
<1>2. r \in 0..(n - 1) /\ k \in Int /\ a = n * k + r
  <2> HIDE DEF n
  <2>1. r \in 0..(n - 1)
    BY <1>1, ModRange
  <2>2. k \in Int /\ a = n * k + r
    BY <1>1
  <2> QED BY <2>1, <2>2
<1>3. SizeT(s) = r /\ IntT(s) = ((a + H) % (2 * H)) - H
  BY DEF SizeT, IntT, a, H
<1>4. IntT(s) \in Int /\ IntT(s) < H
  <2>1. 2 * H \in Nat /\ 2 * H > 0 /\ a + H \in Int
    OBVIOUS
  <2>2. (a + H) % (2 * H) \in 0..(2 * H - 1)
    BY <2>1, ModRange
  <2> QED BY <1>3, <2>2
<1>5. ASSUME r < H PROVE IntT(s) = r
  <2> DEFINE q == 2 * H * k
  <2>1. q \in Int /\ a + H = 2 * H * q + (r + H) /\ r + H \in 0..(2 * H - 1)
    <3> HIDE DEF r, k
    <3>1. 2 * H * (2 * H * k) = n * k
      <4>1. H \in Int /\ k \in Int
        BY <1>2
      <4> HIDE DEF H
      <4> QED BY <4>1, Z3
    <3> QED BY <1>2, <1>5, <3>1
  <2>2. 2 * H \in Nat /\ 2 * H > 0 /\ a + H \in Int
    OBVIOUS
  <2> HIDE DEF q, r
  <2>3. (a + H) % (2 * H) = r + H
    BY <2>1, <2>2, ModUnique
  <2> QED BY <1>2, <1>3, <2>3
<1>6. ASSUME a \in 0..(H - 1) PROVE r = a
  <2> HIDE DEF n
  <2>1. a = n * 0 + a /\ a \in 0..(n - 1)
    BY <1>1, <1>6
  <2> QED BY <1>1, <2>1, ModUnique
<1> HIDE DEF r, n, k
<1> QED BY <1>2, <1>3, <1>4, <1>5, <1>6 DEF a, H

\* The property dimensions are integers.
LEMMA Shapes ==
    ASSUME NEW m \in Metas, NEW dims \in Dims(m), NEW p \in Props(m)
    PROVE  LET pd == PropDims(m, dims)[p]
           IN  /\ Len(pd) \in Nat /\ DOMAIN pd = 1..Len(pd)
               /\ \A j \in 1..Len(pd) : pd[j] \in Int
               /\ Product(pd) \in Int
<1> DEFINE shape == m.props[p].shape
           pd == PropDims(m, dims)[p]
<1>1. IsSequence(shape) /\ \A j \in DOMAIN shape : Value(shape[j], dims) \in Int
  BY MetasAssumption
<1>2. pd = [j \in DOMAIN shape |->
              IF Failing(shape[j]) THEN IntMin ELSE Value(shape[j], dims)]
  BY DEF PropDims
<1>3. Len(shape) \in Nat /\ DOMAIN shape = 1..Len(shape)
  <2> HIDE DEF shape
  <2> QED BY <1>1 DEF IsSequence
<1> HIDE DEF shape
<1>4. DOMAIN pd = 1..Len(shape) /\ \A j \in 1..Len(shape) : pd[j] \in Int
  BY <1>1, <1>2, <1>3, PropertiesAssumption DEF IntMin
<1>5. Len(pd) = Len(shape)
  BY <1>2, <1>3
<1> HIDE DEF pd
<1>6. Product(pd) \in Int
  BY <1>3, <1>4, <1>5, ProductInt
<1> QED BY <1>3, <1>4, <1>5, <1>6 DEF pd

\* Where nothing is negative and the number of elements fits, all agree.
LEMMA Fitting ==
    ASSUME Fits, NEW m \in Metas, NEW dims \in Dims(m), NEW p \in Props(m),
           \A j \in DOMAIN PropDims(m, dims)[p] : PropDims(m, dims)[p][j] >= 0
    PROVE  LET pd == PropDims(m, dims)[p]
           IN  /\ Product(pd) \in Nat
               /\ SizeT(pd) = Product(pd) /\ IntT(pd) = Product(pd)
               /\ Block(pd) = Product(pd)
<1> DEFINE pd == PropDims(m, dims)[p]
<1>1. Len(pd) \in Nat /\ DOMAIN pd = 1..Len(pd) /\ \A j \in 1..Len(pd) : pd[j] \in Int
  BY Shapes
<1>2. \A j \in DOMAIN pd : pd[j] >= 0
  OBVIOUS
<1>3. Product(pd) < IntHalf
  BY DEF Fits
<1> HIDE DEF pd
<1>4. Product(pd) \in Nat
  BY <1>1, <1>2, ProductNat
<1>5. Product(pd) \in 0..(IntHalf - 1)
  BY <1>3, <1>4, PropertiesAssumption
<1>6. SizeT(pd) = Product(pd) /\ IntT(pd) = Product(pd)
  BY <1>5, Sizes
<1>7. Block(pd) = Product(pd)
  BY <1>4, <1>6 DEF Block
<1> QED BY <1>4, <1>6, <1>7 DEF pd

----------------------------------------------------------------------------
(* Counting strings.                                                        *)

\* The memory of an instance of m
Memory(m, mem) == DOMAIN mem = Props(m) /\ \A p \in Props(m) : mem[p] \in Seq(Elems)

LEMMA PropsFinite ==
    ASSUME NEW m \in Metas
    PROVE  Len(m.props) \in Nat /\ Props(m) = 1..Len(m.props) /\ IsFiniteSet(Props(m))
<1> DEFINE ps == m.props
<1>1. IsSequence(ps)
  BY MetasAssumption
<1> HIDE DEF ps
<1>2. Len(ps) \in Nat /\ DOMAIN ps = 1..Len(ps)
  BY <1>1 DEF IsSequence
<1>3. IsFiniteSet(1..Len(ps))
  BY <1>2, FS_Interval
<1> QED BY <1>2, <1>3 DEF ps, Props

LEMMA PointersFinite ==
    ASSUME NEW m, NEW p, NEW b \in Seq(Elems)
    PROVE  IsFiniteSet(Pointers(m, p, b)) /\ Strings(m, p, b) \in Nat
<1>1. Len(b) \in Nat /\ DOMAIN b = 1..Len(b)
  OBVIOUS
<1>2. IsFiniteSet(1..Len(b))
  BY <1>1, FS_Interval
<1>3. Pointers(m, p, b) \in SUBSET (1..Len(b))
  BY <1>1 DEF Pointers
<1> QED BY <1>2, <1>3, FS_Subset, FS_CardinalityType DEF Strings

\* The strings of all properties but p
Others(m, mem, p) == UNION {{q} \X Pointers(m, q, mem[q]) : q \in Props(m) \ {p}}

LEMMA OthersFinite ==
    ASSUME NEW m \in Metas, NEW mem, Memory(m, mem), NEW p
    PROVE  IsFiniteSet(Others(m, mem, p))
<1> DEFINE Q == Props(m) \ {p}
           f == [q \in Q |-> {q} \X Pointers(m, q, mem[q])]
           F == {{q} \X Pointers(m, q, mem[q]) : q \in Q}
<1>1. IsFiniteSet(Q)
  BY PropsFinite, FS_Subset
<1>2. f \in Surjection(Q, F)
  <2>1. f \in [Q -> F]
    OBVIOUS
  <2>2. \A t \in F : \E q \in Q : f[q] = t
    OBVIOUS
  <2> QED BY <2>1, <2>2 DEF Surjection
<1>3. \A T \in F : IsFiniteSet(T)
  <2> SUFFICES ASSUME NEW q \in Q PROVE IsFiniteSet({q} \X Pointers(m, q, mem[q]))
    OBVIOUS
  <2>1. IsFiniteSet(Pointers(m, q, mem[q]))
    BY PointersFinite DEF Memory
  <2> QED BY <2>1, FS_Singleton, FS_Product
<1> HIDE DEF f, F, Q
<1>4. IsFiniteSet(F)
  BY <1>1, <1>2, FS_Surjection
<1>5. IsFiniteSet(UNION F)
  BY <1>3, <1>4, FS_UNION
<1> QED BY <1>5 DEF Others, F, Q

\* The strings of p and of all others are all strings.
LEMMA StringsSplit ==
    ASSUME NEW m \in Metas, NEW mem, Memory(m, mem), NEW p \in Props(m)
    PROVE  /\ Cardinality(Others(m, mem, p)) \in Nat /\ Strings(m, p, mem[p]) \in Nat
           /\ AllStrings(m, mem) = Cardinality(Others(m, mem, p)) + Strings(m, p, mem[p])
<1> DEFINE R == Others(m, mem, p)
           N == Pointers(m, p, mem[p])
           P == {p} \X N
<1>1. IsFiniteSet(R)
  BY OthersFinite
<1>2. IsFiniteSet(N)
  BY PointersFinite DEF Memory
<1>3. IsFiniteSet({p}) /\ Cardinality({p}) = 1
  BY FS_Singleton
<1>4. AllPointers(m, mem) = R \cup P /\ R \cap P = {}
  BY DEF AllPointers, Others
<1>5. Cardinality(R) \in Nat /\ Cardinality(N) \in Nat
  BY <1>1, <1>2, FS_CardinalityType
<1>6. Strings(m, p, mem[p]) = Cardinality(N)
  BY DEF Strings
<1> HIDE DEF R, N
<1>7. IsFiniteSet(P) /\ Cardinality(P) = Cardinality(N)
  <2>1. IsFiniteSet(P) /\ Cardinality(P) = Cardinality({p}) * Cardinality(N)
    BY <1>2, <1>3, FS_Product
  <2> QED BY <1>3, <1>5, <2>1
<1> HIDE DEF P
<1>8. Cardinality(R \cup P) = Cardinality(R) + Cardinality(P) - Cardinality({})
  BY <1>1, <1>4, <1>7, FS_Union
<1>9. Cardinality(R \cup P) = Cardinality(R) + Cardinality(N)
  BY <1>5, <1>7, <1>8, FS_EmptySet
<1> QED BY <1>4, <1>5, <1>6, <1>9 DEF AllStrings, R

\* Setting one property changes the number of strings by its own.
LEMMA SetBlock ==
    ASSUME NEW m \in Metas, NEW mem, Memory(m, mem), NEW new, Memory(m, new),
           NEW p \in Props(m), \A q \in Props(m) \ {p} : new[q] = mem[q]
    PROVE  /\ AllStrings(m, mem) \in Nat /\ AllStrings(m, new) \in Nat
           /\ AllStrings(m, new) = AllStrings(m, mem) + Strings(m, p, new[p])
                                  - Strings(m, p, mem[p])
<1>1. Others(m, new, p) = Others(m, mem, p)
  BY DEF Others
<1> QED BY <1>1, StringsSplit

LEMMA StringsNat ==
    ASSUME NEW m \in Metas, NEW mem, Memory(m, mem)
    PROVE  AllStrings(m, mem) \in Nat
<1>1. CASE Props(m) = {}
  <2>1. AllPointers(m, mem) = {}
    BY <1>1 DEF AllPointers
  <2> QED BY <2>1, FS_EmptySet DEF AllStrings
<1>2. CASE Props(m) # {}
  BY <1>2, StringsSplit
<1> QED BY <1>1, <1>2

\* Memory that is zeroed has no strings.
LEMMA ZeroStrings ==
    ASSUME NEW m, NEW mem,
           \A p \in Props(m) : \A i \in DOMAIN mem[p] : mem[p][i] = 0
    PROVE  AllStrings(m, mem) = 0
<1>1. AllPointers(m, mem) = {}
  BY DEF AllPointers, Pointers
<1> QED BY <1>1, FS_EmptySet DEF AllStrings

----------------------------------------------------------------------------
(* The steps.                                                               *)

\* An instance is not the absence of one.
LEMMA NotNone ==
    ASSUME NEW i, NEW l, Sound(i, l)
    PROVE  i # None
<1>1. DOMAIN i = Fields /\ "dims" \in Fields
  BY DEF Sound, Fields
<1>2. DOMAIN None = {"meta"}
  BY DEF None
<1> QED BY <1>1, <1>2

\* A step that changes one instance
LEMMA OneInstance ==
    ASSUME IInv, NEW x \in Insts, fault' = NoFault,
           DOMAIN inst' = Insts, live' \in [Insts -> Nat],
           \A y \in Insts \ {x} : inst'[y] = inst[y] /\ live'[y] = live[y],
           \/ inst'[x] = None /\ live'[x] = 0
           \/ /\ Sound(inst'[x], live'[x])
              /\ \A y \in Used \ {x} : inst'[x].meta = inst[y].meta
    PROVE  IInv'
<1>1. \A y \in Insts : IF inst'[y] = None THEN live'[y] = 0 ELSE Sound(inst'[y], live'[y])
  <2> SUFFICES ASSUME NEW y \in Insts
               PROVE  IF inst'[y] = None THEN live'[y] = 0 ELSE Sound(inst'[y], live'[y])
    OBVIOUS
  <2>1. CASE y = x
    BY <2>1, NotNone
  <2>2. CASE y # x
    BY <2>2 DEF IInv
  <2> QED BY <2>1, <2>2
<1>2. \A y, z \in Used' : inst'[y].meta = inst'[z].meta
  <2>1. ASSUME NEW y \in Used', NEW z \in Used', y # x, z # x
        PROVE  inst'[y].meta = inst'[z].meta
    BY <2>1 DEF Used, IInv
  <2>2. ASSUME NEW y \in Used', y # x, x \in Used'
        PROVE  inst'[y].meta = inst'[x].meta
    BY <2>2 DEF Used, IInv
  <2> QED BY <2>1, <2>2
<1>3. CallsSafe'
  BY DEF CallsSafe
<1>4. \A y \in Insts :
        (IF inst[y] = None THEN live[y] = 0 ELSE Sound(inst[y], live[y]))'
  BY <1>1 DEF Sound, Block, IntT, Product, AllStrings, AllPointers, Pointers, PropDims
<1> QED BY <1>2, <1>3, <1>4 DEF IInv

\* A step that changes nothing
LEMMA Nothing ==
    ASSUME IInv, UNCHANGED vars
    PROVE  IInv'
  BY DEF vars, IInv, Used, CallsSafe, Negative

\* A call that stops for one of the known causes
LEMMA StopSafe ==
    ASSUME IInv, NEW kind, NEW x, NEW p, Stop(kind, x, p),
           \/ Negative(x, p) \/ inst[x].torn
           \/ kind = "assert" /\ inst[x].mem[p] = <<>>
    PROVE  IInv'
<1>1. inst' = inst /\ live' = live /\ fault' = [kind |-> kind, inst |-> x, prop |-> p]
  BY DEF Stop
<1>2. CallsSafe'
  <2>1. fault'.inst = x /\ fault'.prop = p /\ fault'.kind = kind
    BY <1>1
  <2> QED BY <1>1, <2>1 DEF CallsSafe, Negative
<1> QED BY <1>1, <1>2 DEF IInv, Used

\* What the invariant says of one instance
LEMMA Known ==
    ASSUME IInv, NEW x \in Used
    PROVE  /\ x \in Insts /\ Sound(inst[x], live[x]) /\ live[x] \in Nat
           /\ DOMAIN inst = Insts
           /\ Memory(inst[x].meta, inst[x].mem)
  BY DEF IInv, Used, Sound, Memory

\* Where a block is too short something is negative.
LEMMA Short ==
    ASSUME Fits, IInv, NEW x \in Used, ~inst[x].torn, NEW p \in Props(inst[x].meta),
           SizeT(inst[x].pdims[p]) > Len(inst[x].mem[p])
    PROVE  Negative(x, p)
<1> DEFINE m == inst[x].meta
           pd == PropDims(m, inst[x].dims)[p]
<1>1. m \in Metas /\ inst[x].dims \in Dims(m) /\ inst[x].pdims[p] = pd
      /\ Len(inst[x].mem[p]) = Block(pd)
  BY Known DEF Sound
<1>2. \A j \in DOMAIN pd : pd[j] \in Int
  BY <1>1, Shapes
<1> SUFFICES ASSUME ~Negative(x, p) PROVE FALSE
  OBVIOUS
<1>3. \A j \in DOMAIN pd : pd[j] >= 0
  BY <1>1, <1>2 DEF Negative
<1>4. Product(pd) \in Nat /\ SizeT(pd) = Product(pd) /\ Block(pd) = Product(pd)
  BY <1>1, <1>3, Fitting
<1> HIDE DEF pd
<1> QED BY <1>1, <1>4

\* A new instance.  Everything that is allocated is small enough for an int.
LEMMA NewSound ==
    ASSUME NEW m \in Metas, NEW dims \in Dims(m), Creatable(m, dims)
    PROVE  /\ Sound(New(m, dims), 0) /\ AllStrings(m, New(m, dims).mem) = 0
           /\ New(m, dims).meta = m /\ New(m, dims).dims = dims /\ ~New(m, dims).torn
<1> DEFINE i == New(m, dims)
           P(p) == PropDims(m, dims)[p]
<1>1. /\ i.meta = m /\ i.dims = dims /\ i.pdims = PropDims(m, dims)
      /\ i.mem = [p \in Props(m) |-> [j \in 1..SizeT(P(p)) |-> 0]]
      /\ i.frozen = FALSE /\ i.dangling = {} /\ i.torn = FALSE /\ DOMAIN i = Fields
  BY DEF New, Fields
<1>2. ASSUME NEW p \in Props(m)
      PROVE  i.mem[p] \in Seq(Elems) /\ Len(i.mem[p]) = Block(P(p))
             /\ \A j \in DOMAIN i.mem[p] : i.mem[p][j] = 0
  <2> DEFINE n == SizeT(P(p))
  <2>1. n \in Nat /\ n < IntHalf
    <3>1. n \in Nat /\ n <= MaxMemb
      BY Shapes, Sizes DEF Creatable
    <3> QED BY <3>1, PropertiesAssumption
  <2>2. IntT(P(p)) = n
    BY <2>1, Shapes, Sizes
  <2>3. Block(P(p)) = n
    BY <2>1, <2>2 DEF Block
  <2>4. i.mem[p] = [j \in 1..n |-> 0]
    BY <1>1
  <2> HIDE DEF n, i
  <2> QED BY <2>1, <2>3, <2>4, PropertiesAssumption
<1>3. AllStrings(m, i.mem) = 0
  <2>1. \A p \in Props(m) : \A j \in DOMAIN i.mem[p] : i.mem[p][j] = 0
    BY <1>2
  <2> HIDE DEF i
  <2> QED BY <2>1, ZeroStrings
<1> HIDE DEF i
<1>4. Sound(i, 0)
  BY <1>1, <1>2, <1>3 DEF Sound
<1> QED BY <1>1, <1>3, <1>4 DEF i

LEMMA CreateStep ==
    ASSUME IInv, fault = NoFault, NEW x \in Insts, NEW m \in Metas, SameMeta(m),
           NEW dims \in Dims(m), Create(x, m, dims)
    PROVE  IInv'
<1>1. CASE Fail
  BY <1>1, Nothing DEF Fail
<1>2. CASE /\ Creatable(m, dims) /\ inst[x] = None
           /\ inst' = [inst EXCEPT ![x] = New(m, dims)]
           /\ UNCHANGED <<live, fault>>
  <2>1. DOMAIN inst = Insts /\ live \in [Insts -> Nat] /\ live[x] = 0
    BY <1>2 DEF IInv
  <2>2. inst'[x] = New(m, dims) /\ DOMAIN inst' = Insts
        /\ \A y \in Insts \ {x} : inst'[y] = inst[y]
    BY <1>2, <2>1
  <2>3. Sound(inst'[x], live'[x]) /\ inst'[x].meta = m
    BY <1>2, <2>1, <2>2, NewSound
  <2>4. \A y \in Used : inst[y].meta = m
    BY DEF SameMeta
  <2> QED BY <1>2, <2>1, <2>2, <2>3, <2>4, OneInstance
<1> QED BY <1>1, <1>2 DEF Create

LEMMA FreezeStep ==
    ASSUME IInv, fault = NoFault, NEW x \in Insts, Freeze(x)
    PROVE  IInv'
<1>1. x \in Used /\ inst' = [inst EXCEPT ![x].frozen = TRUE] /\ UNCHANGED <<live, fault>>
  BY DEF Freeze
<1>2. /\ x \in Insts /\ Sound(inst[x], live[x]) /\ live \in [Insts -> Nat]
      /\ DOMAIN inst = Insts /\ "frozen" \in Fields
  BY <1>1, Known DEF IInv, Fields
<1>3. DOMAIN inst' = Insts /\ inst'[x] = [inst[x] EXCEPT !.frozen = TRUE]
      /\ \A y \in Insts \ {x} : inst'[y] = inst[y]
  BY <1>1, <1>2
<1>4. /\ DOMAIN inst'[x] = Fields /\ inst'[x].frozen = TRUE
      /\ inst'[x].meta = inst[x].meta /\ inst'[x].dims = inst[x].dims
      /\ inst'[x].pdims = inst[x].pdims /\ inst'[x].mem = inst[x].mem
      /\ inst'[x].dangling = inst[x].dangling /\ inst'[x].torn = inst[x].torn
  BY <1>2, <1>3 DEF Sound
<1>5. Sound(inst'[x], live'[x])
  BY <1>1, <1>2, <1>4 DEF Sound
<1>6. \A y \in Used \ {x} : inst'[x].meta = inst[y].meta
  BY <1>1, <1>4 DEF IInv
<1> QED BY <1>1, <1>2, <1>3, <1>5, <1>6, OneInstance

\* The property that a call stops at is one of the instance.
LEMMA LeastProp ==
    ASSUME IInv, NEW x \in Used, NEW S, S \subseteq Props(inst[x].meta), S # {}
    PROVE  Min(S) \in S
<1>1. Props(inst[x].meta) \subseteq Nat
  <2>1. inst[x].meta \in Metas
    BY Known DEF Sound
  <2> QED BY <2>1, PropsFinite
<1> QED BY <1>1, MinIn

LEMMA FreeStep ==
    ASSUME Fits, IInv, fault = NoFault, NEW x \in Insts, Free(x)
    PROVE  IInv'
<1> DEFINE m == inst[x].meta
           short == {p \in Props(m) : /\ m.props[p].string /\ inst[x].mem[p] # <<>>
                                      /\ SizeT(inst[x].pdims[p]) > Len(inst[x].mem[p])}
           bad == inst[x].dangling \cup short
<1>1. x \in Used
  BY DEF Free
<1>2. Sound(inst[x], live[x]) /\ DOMAIN inst = Insts /\ live \in [Insts -> Nat]
  BY <1>1, Known DEF IInv
<1>3. CASE bad # {}
  <2> DEFINE kind == IF Min(bad) \in short THEN "bounds" ELSE "freed"
  <2>1. Stop(kind, x, Min(bad))
    BY <1>3 DEF Free
  <2>2. Min(bad) \in bad
    <3>1. bad \subseteq Props(m)
      BY <1>2 DEF Sound
    <3> HIDE DEF bad
    <3> QED BY <1>1, <1>3, <3>1, LeastProp
  <2>3. CASE inst[x].torn
    BY <2>1, <2>3, StopSafe
  <2>4. CASE ~inst[x].torn
    <3>1. inst[x].dangling = {}
      BY <1>2, <2>4 DEF Sound
    <3>2. Min(bad) \in short
      BY <2>2, <3>1
    <3> HIDE DEF bad, kind
    <3>3. Min(bad) \in Props(m) /\ SizeT(inst[x].pdims[Min(bad)]) > Len(inst[x].mem[Min(bad)])
      BY <3>2
    <3>4. Negative(x, Min(bad))
      BY <1>1, <2>4, <3>3, Short
    <3> QED BY <2>1, <3>4, StopSafe
  <2> QED BY <2>3, <2>4
<1>4. CASE bad = {}
  <2>1. /\ inst' = [inst EXCEPT ![x] = None] /\ fault' = fault
        /\ live' = [live EXCEPT ![x] = IF inst[x].torn THEN 0 ELSE live[x] - FreedStrings(x)]
    BY <1>4 DEF Free
  <2>2. live'[x] = 0
    <3>1. CASE inst[x].torn
      BY <1>2, <2>1, <3>1
    <3>2. CASE ~inst[x].torn
      <4>1. FreedStrings(x) = live[x] /\ live[x] \in Nat
        BY <1>2, <3>2 DEF Sound, FreedStrings
      <4> QED BY <1>2, <2>1, <3>2, <4>1
    <3> QED BY <1>2, <3>1, <3>2 DEF Sound
  <2>3. live' \in [Insts -> Nat] /\ \A y \in Insts \ {x} : live'[y] = live[y]
    BY <1>2, <2>1, <2>2
  <2>4. DOMAIN inst' = Insts /\ inst'[x] = None
        /\ \A y \in Insts \ {x} : inst'[y] = inst[y]
    BY <1>2, <2>1
  <2> QED BY <2>1, <2>2, <2>3, <2>4, OneInstance
<1> QED BY <1>3, <1>4

----------------------------------------------------------------------------
(* dlite_instance_set_dimension_sizes().                                    *)

\* A block of the size that is asked for
LEMMA ResizedBlock ==
    ASSUME NEW old \in Seq(Elems), NEW n \in Int
    PROVE  Resized(old, n) \in Seq(Elems)
           /\ Len(Resized(old, n)) = IF n > 0 THEN n ELSE 0
<1>1. CASE n <= 0
  BY <1>1 DEF Resized
<1>2. CASE n > 0
  <2>1. Resized(old, n) = [i \in 1..n |-> IF i <= Len(old) THEN old[i] ELSE 0]
    BY <1>2 DEF Resized
  <2>2. \A i \in 1..n : (IF i <= Len(old) THEN old[i] ELSE 0) \in Elems
    BY PropertiesAssumption
  <2> QED BY <1>2, <2>1, <2>2
<1> QED BY <1>1, <1>2

\* Any of the properties may be reallocated to the new property dimensions.
LEMMA ReallocatedMemory ==
    ASSUME IInv, NEW x \in Used, NEW dims \in Dims(inst[x].meta), NEW p
    PROVE  LET pd == PropDims(inst[x].meta, dims)
               mem == Reallocated(x, pd, p)
           IN  Memory(inst[x].meta, mem)
<1> DEFINE m == inst[x].meta
           pd == PropDims(m, dims)
           mem == Reallocated(x, pd, p)
<1>1. m \in Metas /\ Memory(m, inst[x].mem)
  BY Known DEF Sound
<1>2. ASSUME NEW q \in Props(m) PROVE mem[q] \in Seq(Elems)
  <2>1. IntT(pd[q]) \in Int
    BY <1>1, Shapes, Sizes
  <2>2. inst[x].mem[q] \in Seq(Elems)
    BY <1>1 DEF Memory
  <2>3. Resized(inst[x].mem[q], IntT(pd[q])) \in Seq(Elems)
    BY <2>1, <2>2, ResizedBlock
  <2>4. mem[q] \in {inst[x].mem[q], Resized(inst[x].mem[q], IntT(pd[q]))}
    BY DEF Reallocated
  <2> QED BY <2>2, <2>3, <2>4
<1>3. DOMAIN mem = Props(m)
  BY DEF Reallocated
<1> HIDE DEF mem
<1> QED BY <1>2, <1>3 DEF Memory, mem

\* When all are, every block has its size.
LEMMA ReallocatedSize ==
    ASSUME IInv, NEW x \in Used, ~inst[x].torn, NEW dims \in Dims(inst[x].meta),
           NEW q \in Props(inst[x].meta)
    PROVE  LET pd == PropDims(inst[x].meta, dims)
           IN  Len(Reallocated(x, pd, 0)[q]) = Block(pd[q])
<1> DEFINE m == inst[x].meta
           pd == PropDims(m, dims)
           old == inst[x].pdims
           b == Reallocated(x, pd, 0)[q]
<1>1. /\ m \in Metas /\ inst[x].dims \in Dims(m) /\ old = PropDims(m, inst[x].dims)
      /\ Len(inst[x].mem[q]) = Block(old[q]) /\ inst[x].mem[q] \in Seq(Elems)
  BY Known DEF Sound
<1>2. b = IF ~IsArray(m, q) \/ IntT(pd[q]) = IntT(old[q]) THEN inst[x].mem[q]
          ELSE Resized(inst[x].mem[q], IntT(pd[q]))
  BY DEF Reallocated
<1>3. CASE ~IsArray(m, q)
  <2>1. DOMAIN m.props[q].shape = {}
    BY <1>3 DEF IsArray
  <2>2. pd[q] = old[q]
    BY <1>1, <2>1 DEF PropDims
  <2> QED BY <1>1, <1>2, <1>3, <2>2
<1>4. CASE IsArray(m, q) /\ IntT(pd[q]) = IntT(old[q])
  <2>1. Block(pd[q]) = Block(old[q])
    BY <1>4 DEF Block
  <2> QED BY <1>1, <1>2, <1>4, <2>1
<1>5. CASE IsArray(m, q) /\ IntT(pd[q]) # IntT(old[q])
  <2>1. IntT(pd[q]) \in Int
    BY <1>1, Shapes, Sizes
  <2> QED BY <1>1, <1>2, <1>5, <2>1, ResizedBlock DEF Block
<1> QED BY <1>3, <1>4, <1>5

\* The strings that are cleared are those that no block points to any more.
LEMMA ClearedStrings ==
    ASSUME IInv, NEW x \in Used, ~inst[x].torn, NEW mem, Memory(inst[x].meta, mem)
    PROVE  Cleared(x, mem) = AllStrings(inst[x].meta, mem) /\ Cleared(x, mem) \in Nat
<1>1. inst[x].meta \in Metas /\ live[x] = AllStrings(inst[x].meta, inst[x].mem)
      /\ live[x] \in Nat
  BY Known DEF Sound
<1>2. AllStrings(inst[x].meta, mem) \in Nat
  BY <1>1, StringsNat
<1> QED BY <1>1, <1>2 DEF Cleared

LEMMA NewDimsType ==
    ASSUME IInv, NEW x \in Used, NEW d \in [1..inst[x].meta.ndims -> -1..MaxDim]
    PROVE  NewDims(x, d) \in Dims(inst[x].meta)
<1>1. inst[x].dims \in [1..inst[x].meta.ndims -> 0..MaxDim] /\ MaxDim \in Nat
  BY Known, PropertiesAssumption DEF Sound, Dims
<1> DEFINE N == inst[x].meta.ndims
           e == inst[x].dims
<1> HIDE DEF N, e
<1>2. ASSUME NEW n \in 1..N
      PROVE  (IF d[n] >= 0 THEN d[n] ELSE e[n]) \in 0..MaxDim
  <2>1. d[n] \in -1..MaxDim /\ e[n] \in 0..MaxDim /\ MaxDim \in Nat
    BY <1>1 DEF N, e
  <2>2. CASE d[n] >= 0
    BY <2>1, <2>2
  <2>3. CASE ~(d[n] >= 0)
    BY <2>1, <2>3
  <2> QED BY <2>2, <2>3
<1>3. DOMAIN d = 1..N
  BY DEF N
<1> QED BY <1>2, <1>3 DEF NewDims, Dims, N, e

\* The sizes are set.
LEMMA ResizeStep ==
    ASSUME IInv, fault = NoFault, NEW x \in Used, ~inst[x].torn,
           NEW dims \in Dims(inst[x].meta), NEW pd, pd = PropDims(inst[x].meta, dims),
           NEW mem, mem = Reallocated(x, pd, 0),
           inst' = [inst EXCEPT ![x].dims = dims, ![x].pdims = pd, ![x].mem = mem],
           live' = [live EXCEPT ![x] = Cleared(x, mem)], UNCHANGED fault
    PROVE  IInv'
<1> DEFINE m == inst[x].meta
<1>1. /\ x \in Insts /\ Sound(inst[x], live[x]) /\ live \in [Insts -> Nat]
      /\ DOMAIN inst = Insts /\ DOMAIN inst[x] = Fields /\ m \in Metas
  BY Known DEF IInv, Sound
<1>2. /\ DOMAIN inst' = Insts /\ \A y \in Insts \ {x} : inst'[y] = inst[y]
      /\ DOMAIN inst'[x] = Fields
  <2>1. DOMAIN inst' = Insts
    BY <1>1
  <2>2. \A y \in Insts \ {x} : inst'[y] = inst[y]
    BY <1>1
  <2>3. inst'[x] = [inst[x] EXCEPT !.dims = dims, !.pdims = pd, !.mem = mem]
    BY <1>1
  <2>4. DOMAIN inst'[x] = DOMAIN inst[x]
    BY <2>3
  <2> QED BY <1>1, <2>1, <2>2, <2>4
<1>3. /\ inst'[x].meta = m /\ inst'[x].dims = dims
      /\ inst'[x].pdims = pd /\ inst'[x].mem = mem
      /\ inst'[x].frozen = inst[x].frozen
      /\ inst'[x].dangling = inst[x].dangling /\ inst'[x].torn = inst[x].torn
  BY <1>1 DEF Fields
<1>4. Memory(m, mem)
  BY ReallocatedMemory
<1>5. Cleared(x, mem) = AllStrings(m, mem) /\ Cleared(x, mem) \in Nat
  BY <1>4, ClearedStrings
<1>6. /\ live' \in [Insts -> Nat] /\ live'[x] = AllStrings(m, mem)
      /\ \A y \in Insts \ {x} : live'[y] = live[y]
  BY <1>1, <1>5
<1>7. \A q \in Props(m) : Len(mem[q]) = Block(pd[q])
  BY ReallocatedSize
<1>8. Sound(inst'[x], live'[x])
  BY <1>1, <1>2, <1>3, <1>4, <1>6, <1>7 DEF Sound, Memory
<1>9. \A y \in Used \ {x} : inst'[x].meta = inst[y].meta
  BY <1>3 DEF IInv
<1> QED BY <1>1, <1>2, <1>6, <1>8, <1>9, OneInstance

\* No memory for a block: the instance is torn.
LEMMA ReallocFailsStep ==
    ASSUME IInv, fault = NoFault, NEW x \in Used, ~inst[x].torn,
           NEW dims \in Dims(inst[x].meta), NEW pd, pd = PropDims(inst[x].meta, dims),
           NEW p \in Props(inst[x].meta), ReallocFails(x, pd, p)
    PROVE  IInv'
<1> DEFINE m == inst[x].meta
           n == IntT(pd[p])
           mem == Reallocated(x, pd, p)
           k == IF n < Len(mem[p]) THEN n ELSE Len(mem[p])
           kept == [mem EXCEPT ![p] = SubSeq(mem[p], 1, k)]
           lost == [mem EXCEPT ![p] = <<>>]
           dang == IF mem[p] = <<>> THEN {} ELSE {p}
<1>1. /\ x \in Insts /\ Sound(inst[x], live[x]) /\ live \in [Insts -> Nat]
      /\ DOMAIN inst = Insts /\ DOMAIN inst[x] = Fields /\ m \in Metas
  BY Known DEF IInv, Sound
<1>2. Memory(m, mem)
  BY ReallocatedMemory
<1>3. /\ n > 0 /\ fault' = fault
      /\ inst' = [inst EXCEPT ![x].pdims = pd, ![x].mem = lost,
                              ![x].torn = TRUE, ![x].dangling = dang]
      /\ live' = [live EXCEPT ![x] = Cleared(x, kept)]
  BY DEF ReallocFails
<1>4. n \in Int
  BY <1>1, Shapes, Sizes
<1> HIDE DEF mem, n
<1>5. Memory(m, kept)
  <2>1. mem[p] \in Seq(Elems) /\ DOMAIN mem = Props(m)
    BY <1>2 DEF Memory
  <2>2. k \in 0..Len(mem[p])
    BY <1>3, <1>4, <2>1
  <2> HIDE DEF k
  <2>3. SubSeq(mem[p], 1, k) \in Seq(Elems)
    BY <2>1, <2>2
  <2> QED BY <1>2, <2>1, <2>3 DEF Memory
<1>6. Memory(m, lost)
  BY <1>2 DEF Memory
<1> HIDE DEF kept, lost, k
<1>7. Cleared(x, kept) \in Nat
  BY <1>5, ClearedStrings
<1>8. /\ live' \in [Insts -> Nat] /\ \A y \in Insts \ {x} : live'[y] = live[y]
  BY <1>1, <1>3, <1>7
<1>9. dang \subseteq Props(m)
  OBVIOUS
<1> HIDE DEF dang
<1>10. /\ DOMAIN inst' = Insts /\ \A y \in Insts \ {x} : inst'[y] = inst[y]
       /\ DOMAIN inst'[x] = Fields
  <2>1. DOMAIN inst' = Insts
    BY <1>1, <1>3
  <2>2. \A y \in Insts \ {x} : inst'[y] = inst[y]
    BY <1>1, <1>3
  <2>3. inst'[x] = [inst[x] EXCEPT !.pdims = pd, !.mem = lost, !.torn = TRUE,
                                  !.dangling = dang]
    BY <1>1, <1>3
  <2>4. DOMAIN inst'[x] = DOMAIN inst[x]
    BY <2>3
  <2> QED BY <1>1, <2>1, <2>2, <2>4
<1>11. /\ inst'[x].meta = m /\ inst'[x].dims = inst[x].dims
       /\ inst'[x].mem = lost /\ inst'[x].frozen = inst[x].frozen
       /\ inst'[x].dangling = dang /\ inst'[x].torn = TRUE
  BY <1>1, <1>3 DEF Fields
<1>12. Sound(inst'[x], live'[x])
  BY <1>1, <1>6, <1>9, <1>10, <1>11 DEF Sound, Memory
<1>13. \A y \in Used \ {x} : inst'[x].meta = inst[y].meta
  BY <1>11 DEF IInv
<1> QED BY <1>1, <1>3, <1>8, <1>10, <1>12, <1>13, OneInstance

LEMMA SetDimsStep ==
    ASSUME Fits, IInv, fault = NoFault, NEW x \in Used, ~inst[x].torn,
           NEW d \in [1..inst[x].meta.ndims -> -1..MaxDim], SetDims(x, d)
    PROVE  IInv'
<1> DEFINE m == inst[x].meta
           dims == NewDims(x, d)
           pd == PropDims(m, dims)
           faulty == {p \in Props(m) : ResizeFault(x, p, pd[p]) # "none"}
           mem == Reallocated(x, pd, 0)
<1>1. dims \in Dims(m)
  BY NewDimsType
<1>2. CASE Fail
  BY <1>2, Nothing DEF Fail
<1>3. CASE /\ inst' = [inst EXCEPT ![x].dims = dims, ![x].pdims = pd, ![x].mem = mem]
           /\ live' = [live EXCEPT ![x] = Cleared(x, mem)]
           /\ UNCHANGED fault
  <2>1. pd = PropDims(m, dims) /\ mem = Reallocated(x, pd, 0)
    OBVIOUS
  <2> HIDE DEF dims, pd, mem
  <2> QED BY <1>1, <1>3, <2>1, ResizeStep
<1>4. CASE /\ faulty # {}
           /\ Stop(ResizeFault(x, Min(faulty), pd[Min(faulty)]), x, Min(faulty))
  <2> DEFINE p == Min(faulty)
  <2>1. p \in faulty
    <3>1. faulty \subseteq Props(m)
      OBVIOUS
    <3> HIDE DEF faulty
    <3> QED BY <1>4, <3>1, LeastProp
  <2>2. p \in Props(m) /\ ResizeFault(x, p, pd[p]) # "none"
    BY <2>1
  <2>3. Stop(ResizeFault(x, p, pd[p]), x, p)
    BY <1>4
  <2> HIDE DEF faulty, p, pd
  <2>4. \/ IntT(inst[x].pdims[p]) < 0
        \/ inst[x].mem[p] = <<>> /\ ResizeFault(x, p, pd[p]) = "assert"
    BY <2>2 DEF ResizeFault
  <2>5. CASE inst[x].mem[p] = <<>> /\ ResizeFault(x, p, pd[p]) = "assert"
    BY <2>3, <2>5, StopSafe
  <2>6. CASE IntT(inst[x].pdims[p]) < 0
    <3> DEFINE old == PropDims(m, inst[x].dims)[p]
    <3>1. m \in Metas /\ inst[x].dims \in Dims(m) /\ inst[x].pdims[p] = old
      BY Known DEF Sound
    <3>2. \A j \in DOMAIN old : old[j] \in Int
      BY <2>2, <3>1, Shapes
    <3>3. Negative(x, p)
      <4> SUFFICES ASSUME ~Negative(x, p) PROVE FALSE
        OBVIOUS
      <4>1. \A j \in DOMAIN old : old[j] >= 0
        BY <3>1, <3>2 DEF Negative
      <4>2. IntT(old) \in Nat
        BY <2>2, <3>1, <4>1, Fitting
      <4> HIDE DEF old
      <4> QED BY <2>6, <3>1, <4>2
    <3> QED BY <2>3, <3>3, StopSafe
  <2> QED BY <2>4, <2>5, <2>6
<1>5. CASE \E p \in Props(m) : ReallocFails(x, pd, p)
  <2> HIDE DEF dims
  <2> QED BY <1>1, <1>5, ReallocFailsStep
<1> QED BY <1>2, <1>3, <1>4, <1>5 DEF SetDims

----------------------------------------------------------------------------
(* Setting and copying properties.                                          *)

LEMMA SetPropertyStep ==
    ASSUME Fits, IInv, fault = NoFault, NEW x \in Used, ~inst[x].torn,
           NEW p \in Props(inst[x].meta), SetProperty(x, p)
    PROVE  IInv'
<1> DEFINE m == inst[x].meta
           pd == PropDims(m, inst[x].dims)[p]
           n == SizeT(inst[x].pdims[p])
           old == inst[x].mem[p]
<1>1. /\ x \in Insts /\ Sound(inst[x], live[x]) /\ live \in [Insts -> Nat]
      /\ DOMAIN inst = Insts /\ DOMAIN inst[x] = Fields /\ m \in Metas
      /\ inst[x].dims \in Dims(m) /\ inst[x].pdims = PropDims(m, inst[x].dims)
      /\ Len(old) = Block(pd) /\ old \in Seq(Elems) /\ Memory(m, inst[x].mem)
      /\ live[x] = AllStrings(m, inst[x].mem)
  BY Known DEF IInv, Sound
<1>2. CASE Fail
  BY <1>2, Nothing DEF Fail
<1>3. CASE IsArray(m, p) /\ n > Len(old) /\ Stop("bounds", x, p)
  BY <1>3, Short, StopSafe
<1>4. ASSUME ~(IsArray(m, p) /\ n > Len(old)),
             NEW elems \in [1..n -> Elems], NEW k \in 0..n,
             NEW mem, mem = [i \in 1..n |-> IF i <= k THEN elems[i] ELSE old[i]],
             inst' = [inst EXCEPT ![x].mem[p] = mem],
             live' = [live EXCEPT ![x] = live[x] + Strings(m, p, mem) - Strings(m, p, old)],
             UNCHANGED fault
      PROVE  IInv'
  <2>1. n = SizeT(pd) /\ n \in Nat /\ IntT(pd) \in Int /\ IntT(pd) < IntHalf
        /\ (n < IntHalf => IntT(pd) = n)
    BY <1>1, Shapes, Sizes
  <2>2. n = Len(old) /\ n = Block(pd)
    <3>1. CASE IsArray(m, p)
      <4>1. n <= Block(pd)
        BY <1>1, <1>4, <2>1, <3>1
      <4>2. Block(pd) < IntHalf /\ Block(pd) \in Nat
        BY <2>1, PropertiesAssumption DEF Block
      <4> HIDE DEF n, pd, old
      <4>3. IntT(pd) = n
        BY <2>1, <4>1, <4>2, PropertiesAssumption
      <4> QED BY <1>1, <2>1, <4>3 DEF Block
    <3>2. CASE ~IsArray(m, p)
      <4>1. DOMAIN pd = {}
        <5>1. DOMAIN m.props[p].shape = {}
          BY <3>2 DEF IsArray
        <5>2. DOMAIN pd = DOMAIN m.props[p].shape
          BY DEF PropDims
        <5> QED BY <5>1, <5>2
      <4>2. Product(pd) = 1
        <5>1. Len(pd) \in Nat /\ DOMAIN pd = 1..Len(pd)
          BY <1>1, Shapes
        <5> HIDE DEF pd
        <5>2. Len(pd) = 0
          BY <4>1, <5>1
        <5> QED BY <5>2, ProductDef
      <4>3. SizeT(pd) = 1 /\ IntT(pd) = 1
        BY <4>2, Sizes, PropertiesAssumption
      <4> QED BY <1>1, <2>1, <4>3 DEF Block
    <3> QED BY <3>1, <3>2
  <2> HIDE DEF n, pd
  <2>3. mem \in Seq(Elems) /\ Len(mem) = n
    <3>1. \A i \in 1..n : (IF i <= k THEN elems[i] ELSE old[i]) \in Elems
      BY <1>1, <2>2
    <3>2. mem = [i \in 1..n |-> IF i <= k THEN elems[i] ELSE old[i]]
      BY <1>4
    <3> HIDE DEF old
    <3>3. mem \in [1..n -> Elems]
      BY <3>1, <3>2
    <3> QED BY <2>1, <3>3
  <2> DEFINE new == [inst[x].mem EXCEPT ![p] = mem]
  <2>4. Memory(m, new) /\ new[p] = mem /\ \A q \in Props(m) \ {p} : new[q] = inst[x].mem[q]
    BY <1>1, <2>3 DEF Memory
  <2>5. /\ DOMAIN inst' = Insts /\ inst'[x] = [inst[x] EXCEPT !.mem = new]
        /\ \A y \in Insts \ {x} : inst'[y] = inst[y]
    <3>1. DOMAIN inst' = Insts
      BY <1>1, <1>4
    <3>2. \A y \in Insts \ {x} : inst'[y] = inst[y]
      BY <1>1, <1>4
    <3>3. inst'[x] = [inst[x] EXCEPT !.mem = new]
      BY <1>1, <1>4
    <3> QED BY <3>1, <3>2, <3>3
  <2> HIDE DEF new
  <2>6. AllStrings(m, new) \in Nat
        /\ AllStrings(m, new) = live[x] + Strings(m, p, mem) - Strings(m, p, old)
    BY <1>1, <2>4, SetBlock
  <2>7. /\ live' \in [Insts -> Nat] /\ live'[x] = AllStrings(m, new)
        /\ \A y \in Insts \ {x} : live'[y] = live[y]
    BY <1>1, <1>4, <2>6
  <2>8. DOMAIN inst'[x] = Fields /\ inst'[x].mem = new
    BY <1>1, <2>5 DEF Fields
  <2>9. /\ inst'[x].meta = m /\ inst'[x].dims = inst[x].dims
        /\ inst'[x].pdims = inst[x].pdims
        /\ inst'[x].frozen = inst[x].frozen
        /\ inst'[x].dangling = inst[x].dangling /\ inst'[x].torn = inst[x].torn
    BY <1>1, <2>5
  <2>10. \A q \in Props(m) : Len(new[q]) = Block(inst[x].pdims[q])
    <3> SUFFICES ASSUME NEW q \in Props(m) PROVE Len(new[q]) = Block(inst[x].pdims[q])
      OBVIOUS
    <3>1. CASE q = p
      BY <1>1, <2>2, <2>3, <2>4, <3>1 DEF pd
    <3>2. CASE q # p
      BY <1>1, <2>4, <3>2 DEF Sound
    <3> QED BY <3>1, <3>2
  <2>11. Sound(inst'[x], live'[x])
    BY <1>1, <2>4, <2>7, <2>8, <2>9, <2>10 DEF Sound, Memory
  <2>12. \A y \in Used \ {x} : inst'[x].meta = inst[y].meta
    BY <2>9 DEF IInv
  <2> QED BY <1>1, <1>4, <2>5, <2>7, <2>11, <2>12, OneInstance
<1>5. ASSUME ~(IsArray(m, p) /\ n > Len(old)),
             NEW elems \in [1..n -> Elems], NEW k \in (IF m.props[p].string THEN 0..n ELSE {n}),
             LET mem == [i \in 1..n |-> IF i <= k THEN elems[i] ELSE old[i]] IN
             /\ inst' = [inst EXCEPT ![x].mem[p] = mem]
             /\ live' = [live EXCEPT ![x] = live[x] + Strings(m, p, mem) - Strings(m, p, old)]
             /\ UNCHANGED fault
      PROVE  IInv'
  <2>1. k \in 0..n
    <3>1. n \in Nat
      BY <1>1, Shapes, Sizes
    <3> HIDE DEF n
    <3> QED BY <1>5, <3>1
  <2> HIDE DEF n, old
  <2> QED BY <1>4, <1>5, <2>1
<1> QED BY <1>2, <1>3, <1>5 DEF SetProperty

\* What dlite_instance_copy() may write to
LEMMA TargetSound ==
    ASSUME IInv, NEW x \in Used, NEW y \in Insts \ {x}, Torn = {}, NEW t \in Target(x, y)
    PROVE  /\ Sound(t, live[y]) /\ ~t.torn
           /\ t.meta = inst[x].meta /\ t.dims = inst[x].dims
           /\ inst[y] # None => t = inst[y]
<1>1. Sound(inst[x], live[x])
  BY Known
<1>2. CASE inst[y] # None
  <2>1. y \in Used /\ t = inst[y] /\ inst[y].dims = inst[x].dims
    BY <1>2 DEF Used, Target
  <2>2. Sound(inst[y], live[y]) /\ inst[y].meta = inst[x].meta
    BY <2>1, Known DEF IInv
  <2>3. inst[y].torn \in BOOLEAN /\ ~inst[y].torn
    BY <2>1, <2>2 DEF Sound, Torn
  <2> QED BY <2>1, <2>2, <2>3
<1>3. CASE inst[y] = None
  <2>1. t = New(inst[x].meta, inst[x].dims) /\ Creatable(inst[x].meta, inst[x].dims)
    BY <1>3 DEF Target
  <2>2. inst[x].meta \in Metas /\ inst[x].dims \in Dims(inst[x].meta) /\ live[y] = 0
    BY <1>1, <1>3 DEF Sound, IInv
  <2> QED BY <1>3, <2>1, <2>2, NewSound
<1> QED BY <1>2, <1>3

\* Copying elements from one block to another of its size
LEMMA CopiedStep ==
    ASSUME IInv, fault = NoFault, NEW x \in Used, NEW y \in Insts \ {x}, Torn = {},
           NEW t \in Target(x, y), NEW p, NEW k, Copied(x, y, t, p, k)
    PROVE  IInv'
<1> DEFINE m == inst[x].meta
           mem == [q \in DOMAIN t.mem |-> [i \in DOMAIN t.mem[q] |->
                     IF q < p \/ (q = p /\ i <= k) THEN inst[x].mem[q][i] ELSE t.mem[q][i]]]
           u == [t EXCEPT !.mem = mem]
<1>1. /\ Sound(inst[x], live[x]) /\ x \in Insts /\ m \in Metas /\ live \in [Insts -> Nat]
      /\ DOMAIN inst = Insts /\ Memory(m, inst[x].mem)
  BY Known DEF IInv, Sound
<1>2. inst[x].torn \in BOOLEAN /\ ~inst[x].torn
  BY <1>1 DEF Torn, Sound
<1>3. Sound(t, live[y]) /\ ~t.torn /\ t.meta = m /\ t.dims = inst[x].dims
  BY TargetSound
<1>4. Memory(m, t.mem) /\ live[y] = AllStrings(m, t.mem) /\ DOMAIN t = Fields
  BY <1>3 DEF Sound, Memory
<1>5. /\ inst' = [inst EXCEPT ![y] = u] /\ fault' = fault
      /\ live' = [live EXCEPT ![y] = live[y] + AllStrings(m, mem) - AllStrings(m, t.mem)]
  BY <1>3 DEF Copied
<1>6. ASSUME NEW q \in Props(m)
      PROVE  mem[q] \in Seq(Elems) /\ Len(mem[q]) = Len(t.mem[q])
  <2> DEFINE b == t.mem[q]
             c == inst[x].mem[q]
  <2>1. b \in Seq(Elems) /\ c \in Seq(Elems) /\ q \in DOMAIN t.mem
    BY <1>1, <1>4 DEF Memory
  <2>2. Len(b) = Len(c)
    <3>1. t.pdims = PropDims(m, inst[x].dims) /\ Len(b) = Block(t.pdims[q])
      BY <1>3 DEF Sound
    <3>2. inst[x].pdims = PropDims(m, inst[x].dims) /\ Len(c) = Block(inst[x].pdims[q])
      BY <1>1, <1>2 DEF Sound
    <3> QED BY <3>1, <3>2
  <2>3. mem[q] = [i \in DOMAIN b |-> IF q < p \/ (q = p /\ i <= k) THEN c[i] ELSE b[i]]
    BY <2>1
  <2> HIDE DEF b, c, mem
  <2>4. DOMAIN b = 1..Len(b) /\ Len(b) \in Nat
    BY <2>1
  <2>5. \A i \in 1..Len(b) : b[i] \in Elems /\ c[i] \in Elems
    BY <2>1, <2>2
  <2>6. mem[q] \in [1..Len(b) -> Elems]
    BY <2>3, <2>4, <2>5
  <2>7. mem[q] \in Seq(Elems) /\ Len(mem[q]) = Len(b)
    BY <2>4, <2>6
  <2> QED BY <2>7 DEF b
<1>7. DOMAIN mem = Props(m)
  BY <1>4 DEF Memory
<1>8. /\ DOMAIN u = Fields /\ u.meta = m /\ u.dims = t.dims /\ u.pdims = t.pdims
      /\ u.mem = mem /\ u.frozen = t.frozen /\ u.dangling = t.dangling /\ u.torn = t.torn
  <2> HIDE DEF mem
  <2> QED BY <1>3, <1>4 DEF Fields
<1> HIDE DEF mem, u
<1>9. Memory(m, mem)
  BY <1>6, <1>7 DEF Memory
<1>10. AllStrings(m, mem) \in Nat /\ AllStrings(m, t.mem) \in Nat
  BY <1>1, <1>4, <1>9, StringsNat
<1>11. /\ live' \in [Insts -> Nat] /\ live'[y] = AllStrings(m, mem)
       /\ \A z \in Insts \ {y} : live'[z] = live[z]
  BY <1>1, <1>4, <1>5, <1>10
<1>12. /\ DOMAIN inst' = Insts /\ inst'[y] = u
       /\ \A z \in Insts \ {y} : inst'[z] = inst[z]
  BY <1>1, <1>5
<1>13. Sound(u, live'[y])
  BY <1>3, <1>6, <1>8, <1>9, <1>11 DEF Sound, Memory
<1>14. \A z \in Used \ {y} : inst'[y].meta = inst[z].meta
  BY <1>8, <1>12 DEF IInv
<1> QED BY <1>5, <1>11, <1>12, <1>13, <1>14, OneInstance

LEMMA CopyStep ==
    ASSUME IInv, fault = NoFault, NEW x \in Used, NEW y \in Insts \ {x}, Torn = {},
           Copy(x, y)
    PROVE  IInv'
<1> DEFINE m == inst[x].meta
           empty == {p \in Props(m) : inst[x].mem[p] = <<>>}
<1>1. CASE Fail
  BY <1>1, Nothing DEF Fail
<1>2. ASSUME NEW p \in empty, Stop("assert", x, p) PROVE IInv'
  BY <1>2, StopSafe
<1>3. CASE empty # {} /\ Stop("assert", x, Min(empty))
  <2>1. empty \subseteq Props(m)
    OBVIOUS
  <2> HIDE DEF empty
  <2>2. Min(empty) \in empty
    BY <1>3, <2>1, LeastProp
  <2> QED BY <1>2, <1>3, <2>2
<1>4. ASSUME NEW t \in Target(x, y), NEW p, NEW k, Copied(x, y, t, p, k) PROVE IInv'
  BY <1>4, CopiedStep
<1> QED BY <1>1, <1>2, <1>3, <1>4 DEF Copy

----------------------------------------------------------------------------
(* Changing sizes keeps the elements.                                       *)

\* What a step makes of an instance that stays: an instance with the same
\* sizes, or one that was resized.
ResizedTo(x, i) ==
  \E dims \in Dims(inst[x].meta) :
    LET pd == PropDims(inst[x].meta, dims) IN
    /\ i.meta = inst[x].meta /\ i.dims = dims /\ i.pdims = pd
    /\ i.mem = Reallocated(x, pd, 0)

StaysAs(x, i) ==
  \/ i = inst[x]
  \/ /\ ~inst[x].torn /\ i.meta = inst[x].meta
     /\ i.dims = inst[x].dims \/ ResizedTo(x, i)

LEMMA Stays ==
    ASSUME IInv, Next, NEW x \in Used, inst'[x] # None, ~inst'[x].torn
    PROVE  StaysAs(x, inst'[x])
<1>1. x \in Insts /\ DOMAIN inst = Insts
  BY DEF IInv, Used
<1>2. CASE UNCHANGED inst
  BY <1>2 DEF StaysAs
<1>3. ASSUME NEW y \in Insts, Free(y) PROVE StaysAs(x, inst'[x])
  <2>1. UNCHANGED inst \/ inst' = [inst EXCEPT ![y] = None]
    BY <1>3 DEF Free, Stop
  <2> QED BY <1>1, <2>1 DEF StaysAs
<1>4. ASSUME NEW y \in Insts, NEW m \in Metas, NEW dims \in Dims(m), Create(y, m, dims)
      PROVE  StaysAs(x, inst'[x])
  <2>1. inst[y] = None /\ (UNCHANGED inst \/ inst' = [inst EXCEPT ![y] = New(m, dims)])
    BY <1>4 DEF Create, Fail, vars
  <2>2. y # x
    BY <2>1 DEF Used
  <2> HIDE DEF New
  <2> QED BY <1>1, <2>1, <2>2 DEF StaysAs
<1>5. ASSUME NEW y \in Used PROVE Sound(inst[y], live[y]) /\ DOMAIN inst[y] = Fields
  BY Known DEF Sound
<1>6. ASSUME Torn = {}, NEW y \in Used PROVE ~inst[y].torn
  BY <1>6 DEF Torn
<1>7. ASSUME Torn = {}, NEW y \in Insts, Freeze(y) PROVE StaysAs(x, inst'[x])
  <2>1. inst' = [inst EXCEPT ![y].frozen = TRUE]
    BY <1>7 DEF Freeze
  <2>2. CASE y # x
    BY <1>1, <2>1, <2>2 DEF StaysAs
  <2>3. CASE y = x
    <3>1. inst'[x] = [inst[x] EXCEPT !.frozen = TRUE]
      BY <1>1, <2>1, <2>3
    <3>2. inst'[x].meta = inst[x].meta /\ inst'[x].dims = inst[x].dims
      BY <1>5, <3>1 DEF Fields
    <3> QED BY <1>6, <1>7, <3>2 DEF StaysAs
  <2> QED BY <2>2, <2>3
<1>8. ASSUME Torn = {}, NEW y \in Used, NEW d \in [1..inst[y].meta.ndims -> -1..MaxDim],
             SetDims(y, d)
      PROVE  StaysAs(x, inst'[x])
  <2> DEFINE m == inst[y].meta
             dims == NewDims(y, d)
             pd == PropDims(m, dims)
             mem == Reallocated(y, pd, 0)
  <2>1. dims \in Dims(m)
    BY NewDimsType
  <2>2. \/ UNCHANGED inst
        \/ inst' = [inst EXCEPT ![y].dims = dims, ![y].pdims = pd, ![y].mem = mem]
        \/ \E p \in Props(m) : ReallocFails(y, pd, p)
    BY <1>8 DEF SetDims, Fail, Stop, vars
  <2> HIDE DEF dims
  <2>3. CASE inst' = [inst EXCEPT ![y].dims = dims, ![y].pdims = pd, ![y].mem = mem]
    <3> HIDE DEF pd, mem
    <3>1. CASE y # x
      BY <1>1, <2>3, <3>1 DEF StaysAs
    <3>2. CASE y = x
      <4>1. inst'[x] = [inst[x] EXCEPT !.dims = dims, !.pdims = pd, !.mem = mem]
        BY <1>1, <2>3, <3>2
      <4>2. /\ inst'[x].meta = m /\ inst'[x].dims = dims
            /\ inst'[x].pdims = pd /\ inst'[x].mem = mem
        BY <1>5, <3>2, <4>1 DEF Fields
      <4>3. ResizedTo(x, inst'[x])
        BY <2>1, <3>2, <4>2 DEF ResizedTo, pd, mem
      <4> QED BY <1>6, <1>8, <3>2, <4>2, <4>3 DEF StaysAs
    <3> QED BY <3>1, <3>2
  <2>4. ASSUME NEW p \in Props(m), ReallocFails(y, pd, p) PROVE StaysAs(x, inst'[x])
    <3> DEFINE old == Reallocated(y, pd, p)
               lost == [old EXCEPT ![p] = <<>>]
               dang == IF old[p] = <<>> THEN {} ELSE {p}
    <3>1. inst' = [inst EXCEPT ![y].pdims = pd, ![y].mem = lost,
                               ![y].torn = TRUE, ![y].dangling = dang]
      BY <2>4 DEF ReallocFails
    <3> HIDE DEF lost, dang, pd, old
    <3>2. CASE y # x
      BY <1>1, <3>1, <3>2 DEF StaysAs
    <3>3. CASE y = x
      <4>1. inst'[x] = [inst[x] EXCEPT !.pdims = pd, !.mem = lost, !.torn = TRUE,
                                      !.dangling = dang]
        BY <1>1, <3>1, <3>3
      <4>2. inst'[x].torn = TRUE
        BY <1>5, <4>1 DEF Fields
      <4> QED BY <4>2
    <3> QED BY <3>2, <3>3
  <2> QED BY <1>2, <2>2, <2>3, <2>4
<1>9. ASSUME Torn = {}, NEW y \in Used, NEW p \in Props(inst[y].meta), SetProperty(y, p)
      PROVE  StaysAs(x, inst'[x])
  <2>1. UNCHANGED inst \/ \E mem : inst' = [inst EXCEPT ![y].mem[p] = mem]
    BY <1>9 DEF SetProperty, Fail, Stop, vars
  <2>2. ASSUME NEW mem, inst' = [inst EXCEPT ![y].mem[p] = mem]
        PROVE  StaysAs(x, inst'[x])
    <3>1. CASE y # x
      BY <1>1, <2>2, <3>1 DEF StaysAs
    <3>2. CASE y = x
      <4>1. inst'[x] = [inst[x] EXCEPT !.mem[p] = mem]
        BY <1>1, <2>2, <3>2
      <4>2. inst'[x].meta = inst[x].meta /\ inst'[x].dims = inst[x].dims
        BY <1>5, <4>1 DEF Fields
      <4> QED BY <1>6, <1>9, <4>2 DEF StaysAs
    <3> QED BY <3>1, <3>2
  <2> QED BY <1>2, <2>1, <2>2
<1>10. ASSUME Torn = {}, NEW w \in Used, NEW y \in Insts \ {w}, Copy(w, y)
       PROVE  StaysAs(x, inst'[x])
  <2>1. ASSUME NEW t \in Target(w, y), NEW p, NEW k, Copied(w, y, t, p, k)
        PROVE  StaysAs(x, inst'[x])
    <3> DEFINE mem == [q \in DOMAIN t.mem |-> [i \in DOMAIN t.mem[q] |->
                        IF q < p \/ (q = p /\ i <= k) THEN inst[w].mem[q][i] ELSE t.mem[q][i]]]
    <3>1. inst' = [inst EXCEPT ![y] = [t EXCEPT !.mem = mem]]
      BY <2>1 DEF Copied
    <3> HIDE DEF mem
    <3>2. CASE y # x
      BY <1>1, <3>1, <3>2 DEF StaysAs
    <3>3. CASE y = x
      <4>1. t = inst[x]
        BY <1>10, <3>3, TargetSound DEF Used
      <4>2. inst'[x] = [inst[x] EXCEPT !.mem = mem]
        BY <1>1, <3>1, <3>3, <4>1
      <4>3. inst'[x].meta = inst[x].meta /\ inst'[x].dims = inst[x].dims
        BY <1>5, <4>2 DEF Fields
      <4> QED BY <1>6, <1>10, <4>3 DEF StaysAs
    <3> QED BY <3>2, <3>3
  <2>2. \/ UNCHANGED inst
        \/ \E t \in Target(w, y) : \E p, k : Copied(w, y, t, p, k)
    BY <1>10 DEF Copy, Fail, Stop, vars
  <2> QED BY <1>2, <2>1, <2>2
<1> QED BY <1>3, <1>4, <1>7, <1>8, <1>9, <1>10 DEF Next

\* A block that is resized keeps what it had, and what is new is zero.
LEMMA ResizedElements ==
    ASSUME Fits, IInv, NEW x \in Used, ~inst[x].torn, NEW dims \in Dims(inst[x].meta),
           NEW p \in Props(inst[x].meta), IsArray(inst[x].meta, p), ~Negative(x, p),
           \A j \in DOMAIN PropDims(inst[x].meta, dims)[p] :
              PropDims(inst[x].meta, dims)[p][j] >= 0
    PROVE  LET pd == PropDims(inst[x].meta, dims)
               b == Reallocated(x, pd, 0)[p]
           IN  /\ Product(inst[x].pdims[p]) \in Nat
               /\ \A k \in 1..Product(pd[p]) :
                    b[k] = IF k <= Product(inst[x].pdims[p]) THEN inst[x].mem[p][k] ELSE 0
<1> DEFINE m == inst[x].meta
           pd == PropDims(m, dims)
           old == inst[x].pdims[p]
           mem == inst[x].mem[p]
           b == Reallocated(x, pd, 0)[p]
<1>1. /\ m \in Metas /\ inst[x].dims \in Dims(m) /\ inst[x].pdims = PropDims(m, inst[x].dims)
      /\ Len(mem) = Block(old) /\ mem \in Seq(Elems)
  BY Known DEF Sound
<1>2. /\ Product(old) \in Nat /\ IntT(old) = Product(old) /\ Block(old) = Product(old)
  <2>1. \A j \in DOMAIN old : old[j] \in Int
    BY <1>1, Shapes
  <2>2. \A j \in DOMAIN old : old[j] >= 0
    BY <2>1 DEF Negative
  <2> QED BY <1>1, <2>2, Fitting
<1>3. Product(pd[p]) \in Nat /\ IntT(pd[p]) = Product(pd[p])
  BY <1>1, Fitting
<1>4. b = IF IntT(pd[p]) = IntT(old) THEN mem ELSE Resized(mem, IntT(pd[p]))
  BY DEF Reallocated
<1> HIDE DEF b, pd, old, mem
<1>5. ASSUME NEW k \in 1..Product(pd[p])
      PROVE  b[k] = IF k <= Product(old) THEN mem[k] ELSE 0
  <2>1. CASE IntT(pd[p]) = IntT(old)
    BY <1>2, <1>3, <1>4, <2>1
  <2>2. CASE IntT(pd[p]) # IntT(old)
    <3>1. b = [i \in 1..IntT(pd[p]) |-> IF i <= Len(mem) THEN mem[i] ELSE 0]
      BY <1>3, <1>4, <2>2 DEF Resized
    <3> QED BY <1>1, <1>2, <1>3, <3>1
  <2> QED BY <2>1, <2>2
<1> QED BY <1>2, <1>5 DEF b, pd, old, mem

\* Where at most the first dimension changes, that is where they were.
LEMMA KeptElement ==
    ASSUME Fits, IInv, NEW x \in Used, ~inst[x].torn, NEW dims \in Dims(inst[x].meta),
           NEW p \in Props(inst[x].meta), IsArray(inst[x].meta, p), ~Negative(x, p),
           NEW new, new = PropDims(inst[x].meta, dims)[p],
           Tail(inst[x].pdims[p]) = Tail(new), NEW i \in Indices(new),
           NEW b, b = Reallocated(x, PropDims(inst[x].meta, dims), 0)[p]
    PROVE  At(b, new, i) = IF i \in Indices(inst[x].pdims[p])
                           THEN At(inst[x].mem[p], inst[x].pdims[p], i) ELSE 0
<1> DEFINE m == inst[x].meta
           old == inst[x].pdims[p]
           mem == inst[x].mem[p]
           L == Len(m.props[p].shape)
<1>1. m \in Metas /\ inst[x].dims \in Dims(m) /\ inst[x].pdims = PropDims(m, inst[x].dims)
  BY Known DEF Sound
<1>2. L \in Nat /\ L > 0 /\ DOMAIN m.props[p].shape = 1..L
  <2> DEFINE s == m.props[p].shape
  <2>1. IsSequence(s) /\ s # <<>>
    BY <1>1, MetasAssumption DEF IsArray
  <2> HIDE DEF s
  <2>2. Len(s) \in Nat /\ DOMAIN s = 1..Len(s)
    BY <2>1 DEF IsSequence
  <2>3. Len(s) # 0
    <3> SUFFICES ASSUME Len(s) = 0 PROVE FALSE
      OBVIOUS
    <3>1. s = [j \in 1..0 |-> s[j]]
      BY <2>1 DEF IsSequence
    <3> QED BY <2>1, <3>1
  <2> QED BY <2>2, <2>3 DEF s
<1>3. new \in Seq(Int) /\ Len(new) = L /\ DOMAIN new = 1..L
  <2>1. \A j \in DOMAIN new : new[j] \in Int
    BY <1>1, Shapes
  <2>2. new = [j \in DOMAIN m.props[p].shape |-> new[j]]
    BY DEF PropDims
  <2> HIDE DEF L
  <2> QED BY <1>2, <2>1, <2>2
<1>4. old \in Seq(Int) /\ Len(old) = L /\ DOMAIN old = 1..L
  <2>1. \A j \in DOMAIN old : old[j] \in Int
    BY <1>1, Shapes
  <2>2. old = [j \in DOMAIN m.props[p].shape |-> old[j]]
    BY <1>1 DEF PropDims
  <2> HIDE DEF L, old
  <2> QED BY <1>2, <2>1, <2>2
<1>5. \A n \in 1..L : old[n] \in Nat
  <2>1. \A n \in DOMAIN old : ~(old[n] < 0)
    BY DEF Negative
  <2> HIDE DEF old, L
  <2>2. \A n \in 1..L : old[n] \in Int
    BY <1>4
  <2> QED BY <1>4, <2>1, <2>2
<1>6. \A n \in 1..L : i[n] \in Nat /\ i[n] < new[n] /\ new[n] \in Int
  BY <1>3, PropertiesAssumption DEF Indices
<1>7. \A j \in DOMAIN new : new[j] >= 0
  BY <1>3, <1>6
<1>8. /\ Product(old) \in Nat
      /\ \A k \in 1..Product(new) : b[k] = IF k <= Product(old) THEN mem[k] ELSE 0
  BY <1>7, ResizedElements
<1> HIDE DEF L, old, mem
<1>9. \A n \in 2..L : new[n] = old[n]
  <2> SUFFICES ASSUME NEW n \in 2..L PROVE new[n] = old[n]
    OBVIOUS
  <2>1. n - 1 \in 1..(L - 1) /\ n = (n - 1) + 1
    BY <1>2
  <2>2. Tail(old)[n - 1] = old[(n - 1) + 1] /\ Tail(new)[n - 1] = new[(n - 1) + 1]
    BY <1>2, <1>3, <1>4, <2>1
  <2> QED BY <2>1, <2>2 DEF old
<1> DEFINE k == Position(new, i)
<1>10. k \in Nat /\ k < Product(new) /\ Product(new) \in Int
  <2>1. Len(new) \in Nat /\ \A n \in 1..Len(new) : new[n] \in Int
    BY <1>2, <1>3, <1>6
  <2>2. \A n \in 1..Len(new) : i[n] \in Nat /\ i[n] < new[n]
    BY <1>3, <1>6
  <2> QED BY <2>1, <2>2, PositionRange, ProductInt
<1>11. k = Position(old, i)
  <2>1. /\ Len(old) \in Nat /\ Len(new) = Len(old)
        /\ \A n \in 1..Len(old) : old[n] \in Int
        /\ \A n \in 1..Len(new) : new[n] \in Int
        /\ \A n \in 2..Len(old) : new[n] = old[n]
        /\ \A n \in 1..Len(old) : i[n] \in Int
    BY <1>2, <1>3, <1>4, <1>5, <1>6, <1>9
  <2> QED BY <2>1, SamePosition
<1>12. At(b, new, i) = IF k + 1 <= Product(old) THEN mem[k + 1] ELSE 0
  <2> HIDE DEF k
  <2>1. k + 1 \in 1..Product(new)
    BY <1>10
  <2>2. 1 + k = k + 1
    BY <1>10
  <2>3. At(b, new, i) = b[k + 1]
    BY <2>2 DEF At, k
  <2> QED BY <1>8, <2>1, <2>3
<1>13. CASE i \in Indices(old)
  <2>1. \A n \in 1..L : i[n] < old[n]
    BY <1>4, <1>13 DEF Indices
  <2>2. k < Product(old)
    <3>1. Len(old) \in Nat /\ \A n \in 1..Len(old) : old[n] \in Int
      BY <1>2, <1>4, <1>5
    <3>2. \A n \in 1..Len(old) : i[n] \in Nat /\ i[n] < old[n]
      BY <1>4, <1>6, <2>1
    <3> QED BY <1>11, <3>1, <3>2, PositionRange
  <2>3. At(mem, old, i) = mem[k + 1]
    <3> HIDE DEF k
    <3>1. 1 + k = k + 1
      BY <1>10
    <3> QED BY <1>11, <3>1 DEF At
  <2> HIDE DEF k
  <2>4. k + 1 <= Product(old)
    BY <1>8, <1>10, <2>2
  <2> QED BY <1>12, <1>13, <2>3, <2>4 DEF old, mem
<1>14. CASE i \notin Indices(old)
  <2>1. PICK n \in 1..L : ~(i[n] < old[n])
    <3>1. i \in [1..L -> 0..MaxDim]
      BY <1>3 DEF Indices
    <3> QED BY <1>4, <1>14, <3>1 DEF Indices
  <2>2. n = 1
    <3> SUFFICES ASSUME n # 1 PROVE FALSE
      OBVIOUS
    <3>1. n \in 2..L
      BY <1>2
    <3> QED BY <1>6, <1>9, <2>1, <3>1
  <2>3. i[1] >= old[1]
    BY <1>2, <1>5, <1>6, <2>1, <2>2
  <2>4. k >= Product(old)
    <3>1. Len(old) \in Nat /\ Len(old) > 0 /\ \A j \in 1..Len(old) : old[j] \in Nat
      BY <1>2, <1>4, <1>5
    <3>2. \A j \in 1..Len(old) : i[j] \in Nat
      BY <1>4, <1>6
    <3> QED BY <1>11, <2>3, <3>1, <3>2, PositionBeyond
  <2> HIDE DEF k
  <2>5. ~(k + 1 <= Product(old))
    BY <1>8, <1>10, <2>4
  <2> QED BY <1>12, <1>14, <2>5 DEF old, mem
<1> QED BY <1>13, <1>14

LEMMA SameDims ==
    ASSUME Fits, IInv, IInv', Next, NEW x \in Used, inst'[x] # None, ~inst'[x].torn,
           NEW p \in Props(inst[x].meta), inst'[x].dims = inst[x].dims
    PROVE  inst'[x].pdims[p] = inst[x].pdims[p] /\ Len(inst'[x].mem[p]) = Len(inst[x].mem[p])
<1>1. StaysAs(x, inst'[x])
  BY Stays
<1>2. CASE inst'[x] = inst[x]
  BY <1>2
<1>3. CASE ~inst[x].torn /\ inst'[x].meta = inst[x].meta
  <2>1. Sound(inst[x], live[x])
    BY Known
  <2>2. Sound(inst'[x], live'[x])
    BY DEF IInv, Used
  <2>3. /\ inst[x].pdims = PropDims(inst[x].meta, inst[x].dims)
        /\ Len(inst[x].mem[p]) = Block(inst[x].pdims[p])
    BY <1>3, <2>1 DEF Sound
  <2> DEFINE i == inst'[x]
             l == live'[x]
  <2>4. Sound(i, l) /\ ~i.torn /\ i.meta = inst[x].meta /\ i.dims = inst[x].dims
    BY <1>3, <2>2
  <2> HIDE DEF i, l
  <2>5. /\ i.pdims = PropDims(inst[x].meta, inst[x].dims)
        /\ Len(i.mem[p]) = Block(i.pdims[p])
    BY <2>4 DEF Sound
  <2>6. inst'[x].pdims = inst[x].pdims /\ Len(inst'[x].mem[p]) = Len(inst[x].mem[p])
    BY <2>3, <2>5 DEF i
  <2> QED BY <1>3, <2>6
<1> QED BY <1>1, <1>2, <1>3 DEF StaysAs

LEMMA OtherDims ==
    ASSUME Fits, IInv, IInv', Next, NEW x \in Used, inst'[x] # None, ~inst'[x].torn,
           NEW p \in Props(inst[x].meta), inst'[x].dims # inst[x].dims,
           IsArray(inst[x].meta, p), ~Negative(x, p),
           NEW new, new = inst'[x].pdims[p], Tail(inst[x].pdims[p]) = Tail(new),
           NEW i \in Indices(new)
    PROVE  At(inst'[x].mem[p], new, i) =
             (IF i \in Indices(inst[x].pdims[p])
              THEN At(inst[x].mem[p], inst[x].pdims[p], i) ELSE 0)
<1>1. ~inst[x].torn /\ ResizedTo(x, inst'[x])
  BY Stays DEF StaysAs
<1>2. PICK dims \in Dims(inst[x].meta) :
          /\ inst'[x].pdims = PropDims(inst[x].meta, dims)
          /\ inst'[x].mem = Reallocated(x, PropDims(inst[x].meta, dims), 0)
  BY <1>1 DEF ResizedTo
<1>3. /\ new = PropDims(inst[x].meta, dims)[p]
      /\ inst'[x].mem[p] = Reallocated(x, PropDims(inst[x].meta, dims), 0)[p]
  BY <1>2
<1> DEFINE b == inst'[x].mem[p]
<1>4. b = Reallocated(x, PropDims(inst[x].meta, dims), 0)[p]
  BY <1>3
<1> HIDE DEF b
<1>5. At(b, new, i) = IF i \in Indices(inst[x].pdims[p])
                      THEN At(inst[x].mem[p], inst[x].pdims[p], i) ELSE 0
  BY <1>1, <1>3, <1>4, KeptElement
<1> QED BY <1>5 DEF b

----------------------------------------------------------------------------
(* The invariant and the theorems.                                          *)

LEMMA InitIInv ==
    ASSUME Init
    PROVE  IInv
<1>1. Used = {}
  BY DEF Init, Used
<1>2. fault = NoFault /\ DOMAIN inst = Insts /\ live \in [Insts -> Nat]
      /\ \A x \in Insts : inst[x] = None /\ live[x] = 0
  BY DEF Init
<1> QED BY <1>1, <1>2 DEF IInv, CallsSafe

LEMMA NextIInv ==
    ASSUME Fits, IInv, Next
    PROVE  IInv'
<1> fault = NoFault
  BY DEF Next
<1>1. ASSUME NEW x \in Insts, Free(x) PROVE IInv'
  BY <1>1, FreeStep
<1>2. ASSUME Torn = {}, NEW x \in Used PROVE x \in Insts /\ ~inst[x].torn
  BY <1>2 DEF Torn, Used
<1>3. ASSUME NEW x \in Insts, NEW m \in Metas, SameMeta(m), NEW dims \in Dims(m),
             Create(x, m, dims)
      PROVE  IInv'
  BY <1>3, CreateStep
<1>4. ASSUME NEW x \in Insts, Freeze(x) PROVE IInv'
  BY <1>4, FreezeStep
<1>5. ASSUME Torn = {}, NEW x \in Used, NEW d \in [1..inst[x].meta.ndims -> -1..MaxDim],
             SetDims(x, d)
      PROVE  IInv'
  BY <1>2, <1>5, SetDimsStep
<1>6. ASSUME Torn = {}, NEW x \in Used, NEW p \in Props(inst[x].meta), SetProperty(x, p)
      PROVE  IInv'
  BY <1>2, <1>6, SetPropertyStep
<1>7. ASSUME Torn = {}, NEW x \in Used, NEW y \in Insts \ {x}, Copy(x, y)
      PROVE  IInv'
  BY <1>7, CopyStep
<1> QED BY <1>1, <1>3, <1>4, <1>5, <1>6, <1>7 DEF Next

\* Every step of dlite_instance_create(), _freeze(), _free(),
\* _set_dimension_sizes(), _set_property() and _copy() keeps the invariant:
\* blocks that have the size of the property dimensions, and strings that are
\* counted exactly, except in an instance whose reallocation failed.
THEOREM Invariance == ASSUME Fits PROVE Spec => []IInv
<1>1. Init => IInv
  BY InitIInv
<1>2. IInv /\ [Next]_vars => IInv'
  BY NextIInv, Nothing
<1> QED BY <1>1, <1>2, PTL DEF Spec

\* Every array has as many elements as the product of its dimensions, unless
\* one of them is negative, and the heap has exactly the strings that
\* properties point to: no resize, copy that stops half way or free loses one.
THEOREM MemoryIsExact == ASSUME Fits PROVE Spec => []MemoryExact
<1>1. IInv => MemoryExact
  <2> SUFFICES ASSUME IInv PROVE MemoryExact
    OBVIOUS
  <2>1. TypeOK
    <3>1. ASSUME NEW x \in Used PROVE Sound(inst[x], live[x])
      BY Known
    <3> QED BY <3>1 DEF TypeOK, IInv, Sound
  <2>2. \A x \in Insts \ Used : live[x] = 0
    BY DEF IInv, Used
  <2>3. ASSUME NEW x \in Used, ~inst[x].torn
        PROVE  /\ inst[x].pdims = PropDims(inst[x].meta, inst[x].dims)
               /\ \A p \in Props(inst[x].meta) :
                    ~Negative(x, p) => Len(inst[x].mem[p]) = Product(inst[x].pdims[p])
               /\ live[x] = AllStrings(inst[x].meta, inst[x].mem)
    <3>1. /\ inst[x].meta \in Metas /\ inst[x].dims \in Dims(inst[x].meta)
          /\ inst[x].pdims = PropDims(inst[x].meta, inst[x].dims)
          /\ \A p \in Props(inst[x].meta) : Len(inst[x].mem[p]) = Block(inst[x].pdims[p])
          /\ live[x] = AllStrings(inst[x].meta, inst[x].mem)
      BY <2>3, Known DEF Sound
    <3>2. ASSUME NEW p \in Props(inst[x].meta), ~Negative(x, p)
          PROVE  Block(inst[x].pdims[p]) = Product(inst[x].pdims[p])
      <4> DEFINE pd == PropDims(inst[x].meta, inst[x].dims)[p]
      <4>1. \A j \in DOMAIN pd : pd[j] \in Int
        BY <3>1, Shapes
      <4>2. \A j \in DOMAIN pd : pd[j] >= 0
        BY <3>1, <3>2, <4>1 DEF Negative
      <4> QED BY <3>1, <4>2, Fitting
    <3> QED BY <3>1, <3>2
  <2> QED BY <2>1, <2>2, <2>3 DEF MemoryExact
<1> QED BY <1>1, Invariance, PTL

\* No call reads or writes outside of memory or fails an assertion, unless a
\* shape expression has a negative value, a reallocation of the instance has
\* failed, or an array without elements is copied.
THEOREM CallsAreSafe == ASSUME Fits PROVE Spec => []CallsSafe
<1>1. IInv => CallsSafe
  BY DEF IInv
<1> QED BY <1>1, Invariance, PTL

\* dlite_instance_set_dimension_sizes() keeps every element of an array whose
\* index remains, and zeroes what is new, where at most the first dimension of
\* the array changed; no other call changes the size of a property.
THEOREM ResizingKeeps == ASSUME Fits PROVE Spec => ResizeKeeps
<1>1. IInv /\ IInv' /\ [Next]_vars =>
        [\A x \in Used : inst'[x] # None /\ ~inst'[x].torn =>
           \A p \in Props(inst[x].meta) :
             LET old == inst[x].pdims[p] new == inst'[x].pdims[p] IN
             /\ inst'[x].dims = inst[x].dims =>
                  new = old /\ Len(inst'[x].mem[p]) = Len(inst[x].mem[p])
             /\ inst'[x].dims # inst[x].dims /\ IsArray(inst[x].meta, p)
                  /\ Tail(old) = Tail(new) /\ ~Negative(x, p) =>
                  \A i \in Indices(new) :
                    At(inst'[x].mem[p], new, i) =
                      (IF i \in Indices(old) THEN At(inst[x].mem[p], old, i) ELSE 0)]_vars
  <2> SUFFICES ASSUME IInv, IInv', Next, NEW x \in Used, inst'[x] # None, ~inst'[x].torn,
                      NEW p \in Props(inst[x].meta)
               PROVE  LET old == inst[x].pdims[p] new == inst'[x].pdims[p] IN
                      /\ inst'[x].dims = inst[x].dims =>
                           new = old /\ Len(inst'[x].mem[p]) = Len(inst[x].mem[p])
                      /\ inst'[x].dims # inst[x].dims /\ IsArray(inst[x].meta, p)
                           /\ Tail(old) = Tail(new) /\ ~Negative(x, p) =>
                           \A i \in Indices(new) :
                             At(inst'[x].mem[p], new, i) =
                               (IF i \in Indices(old) THEN At(inst[x].mem[p], old, i) ELSE 0)
    OBVIOUS
  <2> DEFINE old == inst[x].pdims[p]
             new == inst'[x].pdims[p]
  <2>1. inst'[x].dims = inst[x].dims =>
          new = old /\ Len(inst'[x].mem[p]) = Len(inst[x].mem[p])
    BY SameDims
  <2>2. ASSUME inst'[x].dims # inst[x].dims, IsArray(inst[x].meta, p),
               Tail(old) = Tail(new), ~Negative(x, p), NEW i \in Indices(new)
        PROVE  At(inst'[x].mem[p], new, i) =
                 (IF i \in Indices(old) THEN At(inst[x].mem[p], old, i) ELSE 0)
    <3>1. new = inst'[x].pdims[p]
      OBVIOUS
    <3> HIDE DEF new
    <3> QED BY <2>2, <3>1, OtherDims
  <2> QED BY <2>1, <2>2
<1> QED BY <1>1, Invariance, PTL DEF Spec, ResizeKeeps
=============================================================================
