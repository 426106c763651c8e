---------------------------- MODULE InfixProofs -----------------------------
(* Machine-checked proofs about Infix: what the calculator of shape           *)
(* expressions accepts has balanced parentheses and one more value than       *)
(* operators, and its assertion fails on unbalanced parentheses only, for     *)
(* every set of values and of operators and texts of any length.              *)
EXTENDS Infix, FiniteSetTheorems, WellFoundedInduction,
        SequenceTheorems, TLAPS

\* Induction over the natural numbers, for a set of them.
LEMMA SetInduction ==
    ASSUME NEW T, 0 \in T, \A n \in Nat : n \in T => n + 1 \in T
    PROVE  Nat \subseteq T
<1> SUFFICES ASSUME Nat \ T # {} PROVE FALSE
  OBVIOUS
<1>1. PICK m \in Nat \ T : \A n \in Nat \ T : <<n, m>> \notin OpToRel(<, Nat)
  BY NatLessThanWellFounded, WFMin
<1>2. m # 0 /\ m - 1 \in Nat /\ m \in Nat
  OBVIOUS
<1>3. m - 1 \in T
  <2>1. <<m - 1, m>> \in OpToRel(<, Nat)
    BY <1>2 DEF OpToRel
  <2> QED BY <1>1, <1>2, <2>1
<1> QED BY <1>2, <1>3

----------------------------------------------------------------------------
(* Counting tokens.                                                         *)

\* One more position is counted or not.
LEMMA CountOne ==
    ASSUME NEW n \in Nat, NEW S, S \subseteq 1..n, NEW T, T \subseteq 1..(n + 1),
           \A k \in 1..n : k \in T <=> k \in S
    PROVE  /\ Cardinality(S) \in Nat
           /\ Cardinality(T) = Cardinality(S) + (IF n + 1 \in T THEN 1 ELSE 0)
<1>1. IsFiniteSet(S)
  <2>1. IsFiniteSet(1..n) /\ S \in SUBSET (1..n)
    BY FS_Interval
  <2> QED BY <2>1, FS_Subset
<1>2. Cardinality(S) \in Nat
  BY <1>1, FS_CardinalityType
<1>3. CASE n + 1 \in T
  <2>1. \A k \in 1..(n + 1) : k \in 1..n \/ k = n + 1
    OBVIOUS
  <2>2. n + 1 \notin 1..n /\ 1..n \subseteq 1..(n + 1)
    OBVIOUS
  <2>3. n + 1 \notin S
    BY <2>2
  <2>4. T \subseteq S \cup {n + 1}
    BY <2>1
  <2>5. S \cup {n + 1} \subseteq T
    BY <1>3
  <2>6. T = S \cup {n + 1}
    BY <2>4, <2>5
  <2> QED BY <1>1, <1>2, <1>3, <2>3, <2>6, FS_AddElement
<1>4. CASE n + 1 \notin T
  <2> SUFFICES T = S
    BY <1>2, <1>4
  <2>1. \A k \in 1..(n + 1) : k \in 1..n \/ k = n + 1
    OBVIOUS
  <2>2. T \subseteq 1..n
    BY <1>4, <2>1
  <2> QED BY <2>2
<1> QED BY <1>2, <1>3, <1>4

\* The last element of a sequence, and the others.
LEMMA FrontLast ==
    ASSUME NEW A, NEW s \in Seq(A), s # <<>>
    PROVE  /\ Len(s) \in Nat /\ Len(s) > 0 /\ Last(s) = s[Len(s)] /\ Last(s) \in A
           /\ Front(s) \in Seq(A) /\ Len(Front(s)) = Len(s) - 1
           /\ \A k \in 1..(Len(s) - 1) : Front(s)[k] = s[k]
<1> DEFINE n == Len(s) - 1
           u == SubSeq(s, 1, n)
<1>1. n \in Nat /\ Len(s) = n + 1 /\ \A i \in 1..Len(s) : s[i] \in A
  OBVIOUS
<1> HIDE DEF n
<1>2. \A i \in 1..n : s[i] \in A
  BY <1>1
<1>3. /\ u \in Seq(A) /\ Len(u) = IF 1 <= n THEN n - 1 + 1 ELSE 0
      /\ \A i \in 1..(n - 1 + 1) : u[i] = s[1 + i - 1]
  BY <1>1, <1>2, SubSeqProperties
<1>4. Front(s) = u
  BY DEF Front, n
<1> HIDE DEF u
<1>5. Len(u) = n /\ \A i \in 1..n : u[i] = s[i]
  BY <1>1, <1>3
<1>6. Last(s) = s[n + 1] /\ s[n + 1] \in A
  BY <1>1 DEF Last
<1> QED BY <1>1, <1>3, <1>4, <1>5, <1>6

\* The left parentheses on the stack of operators
Parens(o) == {k \in DOMAIN o : o[k] = "("}

LEMMA ParensNat ==
    ASSUME NEW A, NEW o \in Seq(A)
    PROVE  Cardinality(Parens(o)) \in Nat
<1>1. Len(o) \in Nat /\ Parens(o) \subseteq 1..Len(o)
  BY DEF Parens
<1>2. IsFiniteSet(1..Len(o)) /\ Parens(o) \in SUBSET (1..Len(o))
  BY <1>1, FS_Interval
<1> QED BY <1>2, FS_Subset, FS_CardinalityType

LEMMA ParensAppend ==
    ASSUME NEW A, NEW o \in Seq(A), NEW e \in A
    PROVE  Cardinality(Parens(Append(o, e))) =
             Cardinality(Parens(o)) + (IF e = "(" THEN 1 ELSE 0)
<1> DEFINE T == Parens(Append(o, e))
<1>1. Len(o) \in Nat /\ Parens(o) \subseteq 1..Len(o) /\ T \subseteq 1..(Len(o) + 1)
  BY DEF Parens
<1>2. \A k \in 1..Len(o) : k \in T <=> k \in Parens(o)
  BY DEF Parens
<1>3. Len(o) + 1 \in T <=> e = "("
  BY DEF Parens
<1> HIDE DEF T
<1>4. Cardinality(T) = Cardinality(Parens(o)) + (IF Len(o) + 1 \in T THEN 1 ELSE 0)
  BY <1>1, <1>2, CountOne
<1> QED BY <1>3, <1>4 DEF T

LEMMA ParensFront ==
    ASSUME NEW A, NEW o \in Seq(A), o # <<>>
    PROVE  Cardinality(Parens(o)) =
             Cardinality(Parens(Front(o))) + (IF Last(o) = "(" THEN 1 ELSE 0)
<1> DEFINE n == Len(o) - 1
           S == Parens(Front(o))
           T == Parens(o)
<1>1. /\ n \in Nat /\ n + 1 = Len(o) /\ Front(o) \in Seq(A) /\ Len(Front(o)) = n
      /\ \A k \in 1..n : Front(o)[k] = o[k]
      /\ Last(o) = o[n + 1]
  BY FrontLast
<1>2. S \subseteq 1..n /\ T \subseteq 1..(n + 1)
  BY <1>1 DEF Parens
<1>3. \A k \in 1..n : k \in T <=> k \in S
  BY <1>1 DEF Parens
<1>4. n + 1 \in T <=> Last(o) = "("
  BY <1>1 DEF Parens
<1> HIDE DEF n, S, T
<1>5. n \in Nat
  BY <1>1
<1>6. Cardinality(T) = Cardinality(S) + (IF n + 1 \in T THEN 1 ELSE 0)
  BY <1>2, <1>3, <1>5, CountOne
<1> QED BY <1>4, <1>6 DEF S, T

----------------------------------------------------------------------------
(* The loops.                                                               *)

Stackable == DOMAIN Precedence \cup {"("}
Statuses == {"reading", "done", "error", "abort", "trap"}

\* A calculation: the values may be any.
IsCalculation(c) == \E X : c \in [v : Seq(X), o : Seq(Stackable), st : Statuses]

\* A calculation with P left parentheses on the stack and D more values than
\* operators and parentheses
Good(c, P, D) ==
  /\ IsCalculation(c) /\ c.st = "reading"
  /\ Cardinality(Parens(c.o)) = P /\ Len(c.v) - Len(c.o) = D

Ended(c) == IsCalculation(c) /\ c.st \in {"error", "trap"}

\* eval() takes one value and one operator, or fails.
LEMMA EvalGood ==
    ASSUME NEW c, NEW P, NEW D, Good(c, P, D), c.o # <<>>
    PROVE  \/ Ended(Eval(c))
           \/ Good(Eval(c), P, D) /\ Len(Eval(c).o) = Len(c.o) - 1
<1>1. PICK X : c \in [v : Seq(X), o : Seq(Stackable), st : Statuses]
  BY DEF Good, IsCalculation
<1> DEFINE op == Last(c.o)
           n == Len(c.v)
           p == [c EXCEPT !.o = Front(@)]
<1>2. /\ Front(c.o) \in Seq(Stackable) /\ Len(Front(c.o)) = Len(c.o) - 1
      /\ Len(c.o) \in Nat /\ Len(c.v) \in Nat
  BY <1>1, FrontLast
<1>3. /\ p \in [v : Seq(X), o : Seq(Stackable), st : Statuses]
      /\ p.v = c.v /\ p.o = Front(c.o) /\ p.st = "reading"
  BY <1>1, <1>2 DEF Good
<1> HIDE DEF p
<1>4. ASSUME NEW st \in {"error", "trap"} PROVE Ended(Failed(p, st))
  <2>1. Failed(p, st) \in [v : Seq(X), o : Seq(Stackable), st : Statuses]
        /\ Failed(p, st).st = st
    BY <1>3 DEF Failed, Statuses
  <2> QED BY <2>1 DEF Ended, IsCalculation
<1>5. CASE op = "(" \/ n < 2
  <2>1. Eval(c) = Failed(p, "error")
    BY <1>5 DEF Eval, p
  <2>2. Ended(Failed(p, "error"))
    BY <1>4
  <2> QED BY <2>1, <2>2
<1>6. CASE ~(op = "(" \/ n < 2) /\ Divides(op, c.v[n])
  <2>1. Eval(c) = Failed(p, "trap")
    BY <1>6 DEF Eval, p
  <2>2. Ended(Failed(p, "trap"))
    BY <1>4
  <2> QED BY <2>1, <2>2
<1>7. CASE ~(op = "(" \/ n < 2) /\ ~Divides(op, c.v[n])
  <2> DEFINE b == BinaryEval(op, c.v[n - 1], c.v[n])
             w == Append(SubSeq(c.v, 1, n - 2), b)
             Y == X \cup {b}
             d == [p EXCEPT !.v = w]
  <2>1. Eval(c) = d
    BY <1>3, <1>7 DEF Eval, p
  <2> HIDE DEF b
  <2>2. w \in Seq(Y) /\ Len(w) = n - 1
    <3>1. c.v \in Seq(X) /\ n \in Nat /\ n >= 2
      BY <1>1, <1>7
    <3>2. SubSeq(c.v, 1, n - 2) \in Seq(X) /\ Len(SubSeq(c.v, 1, n - 2)) = n - 2
      BY <3>1
    <3> DEFINE u == SubSeq(c.v, 1, n - 2)
    <3>3. u \in Seq(Y) /\ b \in Y /\ Len(u) = n - 2
      BY <3>2
    <3> HIDE DEF u
    <3>4. Append(u, b) \in Seq(Y) /\ Len(Append(u, b)) = n - 1
      BY <3>1, <3>3
    <3> QED BY <3>4 DEF u
  <2> HIDE DEF w, Y
  <2>3. /\ d \in [v : Seq(Y), o : Seq(Stackable), st : Statuses]
        /\ d.v = w /\ d.o = Front(c.o) /\ d.st = "reading"
    BY <1>3, <2>2
  <2> HIDE DEF d
  <2>4. IsCalculation(d)
    BY <2>3 DEF IsCalculation
  <2>5. Cardinality(Parens(d.o)) = P
    <3>1. /\ Cardinality(Parens(c.o)) = Cardinality(Parens(Front(c.o)))
          /\ Cardinality(Parens(c.o)) = P
      <4>1. Cardinality(Parens(Front(c.o))) \in Nat
        BY <1>2, ParensNat
      <4>2. Cardinality(Parens(c.o)) = Cardinality(Parens(Front(c.o))) + 0
        BY <1>1, <1>7, ParensFront
      <4> QED BY <4>1, <4>2 DEF Good
    <3> QED BY <2>3, <3>1
  <2>6. Len(d.v) - Len(d.o) = D
    <3>1. Len(c.v) - Len(c.o) = D
      BY DEF Good
    <3>2. Len(d.v) = Len(c.v) - 1 /\ Len(d.o) = Len(c.o) - 1
      BY <1>2, <2>2, <2>3
    <3>3. (Len(c.v) - 1) - (Len(c.o) - 1) = Len(c.v) - Len(c.o)
      BY <1>2
    <3> QED BY <3>1, <3>2, <3>3
  <2>7. Good(d, P, D) /\ Len(d.o) = Len(c.o) - 1
    BY <1>2, <2>3, <2>4, <2>5, <2>6 DEF Good
  <2> QED BY <2>1, <2>7
<1> QED BY <1>5, <1>6, <1>7

\* One turn of the loop
Turn(d, p, left) ==
  IF d.st = "reading" /\ Len(d.o) > left /\ PrecedenceOf(Last(d.o)) >= p THEN Eval(d) ELSE d

\* The loop as a sequence of turns.
LEMMA EvaluatedDef ==
    ASSUME NEW c, NEW p, NEW left, Len(c.o) \in Nat
    PROVE  \E e : /\ Evaluated(c, p, left) = e[Len(c.o)] /\ e[0] = c
                  /\ \A k \in 1..Len(c.o) : e[k] = Turn(e[k - 1], p, left)
<1> DEFINE L == Len(c.o)
           Works(e, k) == e = [n \in 0..k |-> IF n = 0 THEN c ELSE Turn(e[n - 1], p, left)]
           T == {k \in Nat : \E e : Works(e, k)}
<1> L \in Nat
  OBVIOUS
<1>1. 0 \in T
  <2> DEFINE e == [n \in 0..0 |-> c]
  <2>1. \A n \in 0..0 : (IF n = 0 THEN c ELSE Turn(e[n - 1], p, left)) = c
    OBVIOUS
  <2>2. Works(e, 0)
    BY <2>1
  <2> QED BY <2>2
<1>2. ASSUME NEW k \in Nat, k \in T PROVE k + 1 \in T
  <2>1. PICK e : Works(e, k)
    BY <1>2
  <2> DEFINE g == [n \in 0..(k + 1) |-> IF n <= k THEN e[n] ELSE Turn(e[k], p, left)]
  <2>2. ASSUME NEW n \in 0..(k + 1)
        PROVE  g[n] = IF n = 0 THEN c ELSE Turn(g[n - 1], p, left)
    <3>1. CASE n = 0
      BY <2>1, <3>1
    <3>2. CASE n # 0 /\ n <= k
      <4>1. g[n] = e[n] /\ g[n - 1] = e[n - 1]
        BY <3>2
      <4>2. e[n] = Turn(e[n - 1], p, left)
        BY <2>1, <3>2
      <4> QED BY <3>2, <4>1, <4>2
    <3>3. CASE n = k + 1
      BY <3>3
    <3> QED BY <3>1, <3>2, <3>3
  <2>3. Works(g, k + 1)
    BY <2>2
  <2> HIDE DEF Works, g
  <2> QED BY <2>3
<1>3. \E e : Works(e, L)
  <2> HIDE DEF T
  <2>1. L \in T
    BY <1>1, <1>2, SetInduction
  <2> QED BY <2>1 DEF T
<1> DEFINE h == CHOOSE e : Works(e, L)
<1>4. Works(h, L)
  BY <1>3
<1>5. Evaluated(c, p, left) = h[L]
  BY DEF Evaluated, Turn
<1> HIDE DEF h
<1>6. h[0] = c /\ \A k \in 1..L : h[k] = Turn(h[k - 1], p, left)
  BY <1>4
<1> QED BY <1>5, <1>6

\* The loop fails, or takes as many values as operators and stops where it
\* should; it leaves as many operators as it is told to.
LEMMA EvaluatedGood ==
    ASSUME NEW c, NEW P, NEW D, Good(c, P, D), NEW p \in Int, NEW left \in Nat
    PROVE  LET d == Evaluated(c, p, left)
           IN  \/ Ended(d)
               \/ /\ Good(d, P, D)
                  /\ Len(d.o) <= left \/ ~(PrecedenceOf(Last(d.o)) >= p)
                  /\ Len(d.o) >= left \/ d.o = c.o
<1> DEFINE L == Len(c.o)
<1>1. c.o \in Seq(Stackable) /\ L \in Nat
  BY DEF Good, IsCalculation
<1>2. PICK e : /\ Evaluated(c, p, left) = e[L] /\ e[0] = c
               /\ \A k \in 1..L : e[k] = Turn(e[k - 1], p, left)
  BY <1>1, EvaluatedDef
<1> DEFINE Stopped(d) == Len(d.o) <= left \/ ~(PrecedenceOf(Last(d.o)) >= p)
           Right(d, k) == \/ Ended(d)
                          \/ /\ Good(d, P, D)
                             /\ Stopped(d) \/ Len(d.o) = L - k
                             /\ Len(d.o) >= left \/ d.o = c.o
           T == {k \in Nat : k <= L => Right(e[k], k)}
<1>3. 0 \in T
  BY <1>1, <1>2
<1>4. ASSUME NEW k \in Nat, k \in T PROVE k + 1 \in T
  <2> SUFFICES ASSUME k + 1 <= L PROVE Right(e[k + 1], k + 1)
    OBVIOUS
  <2> DEFINE d == e[k]
  <2>1. Right(d, k)
    BY <1>1, <1>4
  <2>2. e[k + 1] = Turn(d, p, left)
    BY <1>1, <1>2
  <2> HIDE DEF d
  <2>3. CASE Ended(d)
    BY <2>2, <2>3 DEF Ended, Turn
  <2>4. CASE Good(d, P, D) /\ Stopped(d) /\ ~Ended(d)
    <3>1. Len(d.o) \in Nat
      BY <2>4 DEF Good, IsCalculation
    <3>2. e[k + 1] = d
      BY <2>2, <2>4, <3>1 DEF Turn
    <3> QED BY <2>1, <2>4, <3>2
  <2>5. CASE Good(d, P, D) /\ ~Stopped(d) /\ ~Ended(d)
    <3>1. d.o \in Seq(Stackable) /\ Len(d.o) \in Nat /\ d.st = "reading"
      BY <2>5 DEF Good, IsCalculation
    <3>2. Len(d.o) > left /\ PrecedenceOf(Last(d.o)) >= p /\ Len(d.o) = L - k
      BY <2>1, <2>5, <3>1
    <3>3. d.o # <<>>
      BY <3>1, <3>2
    <3>4. e[k + 1] = Eval(d)
      BY <2>2, <3>1, <3>2 DEF Turn
    <3>5. \/ Ended(Eval(d))
          \/ Good(Eval(d), P, D) /\ Len(Eval(d).o) = Len(d.o) - 1
      BY <2>5, <3>3, EvalGood
    <3>6. Len(d.o) - 1 = L - (k + 1) /\ Len(d.o) - 1 >= left
      BY <1>1, <3>1, <3>2
    <3> HIDE DEF L
    <3> QED BY <3>4, <3>5, <3>6
  <2> QED BY <2>1, <2>3, <2>4, <2>5
<1> DEFINE d == e[L]
<1>5. Right(d, L)
  <2> HIDE DEF T
  <2>1. L \in T
    BY <1>1, <1>3, <1>4, SetInduction
  <2> QED BY <1>1, <2>1 DEF T
<1> HIDE DEF d
<1>6. Len(d.o) = L - L => Stopped(d)
  BY <1>1
<1> QED BY <1>2, <1>5, <1>6 DEF d

----------------------------------------------------------------------------
(* The invariant.                                                           *)

Opens(s) == {i \in 1..Len(s) : s[i] = Open}
Closes(s) == {i \in 1..Len(s) : s[i] = Close}

\* While a text is read, the left parentheses on the stack are those that are
\* open, they were never less than none, and there are as many more values
\* than operators on the stacks as among the tokens.
Consistent ==
  /\ read \in Seq(Tokens) /\ IsCalculation(Calculation)
  /\ Cardinality(Parens(ostack)) = Depth(read, Len(read))
  /\ \A k \in DOMAIN read : Depth(read, k) >= 0
  /\ Len(vstack) - (Len(ostack) - Cardinality(Parens(ostack))) =
       Cardinality(Numbers(read)) - Cardinality(Operators(read))

IInv == (status = "reading" => Consistent) /\ AcceptedIsBalanced

\* The kinds of tokens
LEMMA Kinds ==
    ASSUME NEW t \in Tokens
    PROVE  /\ t.type = "value" => t # Open /\ t # Close
           /\ t = Open => t.type = "op" /\ t # Close
           /\ t = Close => t.type = "op" /\ t # Open
           /\ t = Bad => t.type = "bad"
           /\ t.type = "op" /\ t \notin {Open, Close} => t.op \in Stackable /\ t.op # "("
           /\ t.type \in {"value", "op", "bad"}
<1>1. "(" \notin DOMAIN Precedence /\ ")" \notin DOMAIN Precedence
  BY DEF Precedence
<1>2. Open.type = "op" /\ Close.type = "op" /\ Bad.type = "bad"
      /\ Open.op = "(" /\ Close.op = ")"
  BY DEF Open, Close, Bad, Op
<1>3. CASE \E v \in Values : t = Number(v)
  BY <1>2, <1>3 DEF Number
<1>4. CASE \E o \in Used : t = Op(o)
  BY <1>1, <1>2, <1>4, InfixAssumption DEF Op, Stackable
<1>5. CASE t \in {Open, Close, Bad}
  BY <1>2, <1>5
<1> QED BY <1>3, <1>4, <1>5 DEF Tokens

\* The nesting of what was read does not change.
LEMMA SameDepth ==
    ASSUME NEW s \in Seq(Tokens), NEW t \in Tokens, NEW r, r = Append(s, t),
           NEW k \in 1..Len(s)
    PROVE  Depth(r, k) = Depth(s, k)
<1>1. \A i \in 1..k : r[i] = s[i]
  OBVIOUS
<1>2. {i \in 1..k : r[i] = Open} = {i \in 1..k : s[i] = Open}
  BY <1>1
<1>3. {i \in 1..k : r[i] = Close} = {i \in 1..k : s[i] = Close}
  BY <1>1
<1> QED BY <1>2, <1>3 DEF Depth

\* What one more token does to the counts.
LEMMA Counts ==
    ASSUME NEW s \in Seq(Tokens), NEW t \in Tokens, NEW r, r = Append(s, t)
    PROVE  /\ r \in Seq(Tokens) /\ Len(r) = Len(s) + 1 /\ DOMAIN r = 1..Len(r)
           /\ Depth(s, Len(s)) \in Int
           /\ Depth(r, Len(r)) = Depth(s, Len(s)) +
                (IF t = Open THEN 1 ELSE IF t = Close THEN -1 ELSE 0)
           /\ Cardinality(Numbers(s)) \in Nat /\ Cardinality(Operators(s)) \in Nat
           /\ Cardinality(Numbers(r)) = Cardinality(Numbers(s)) +
                (IF t.type = "value" THEN 1 ELSE 0)
           /\ Cardinality(Operators(r)) = Cardinality(Operators(s)) +
                (IF t.type = "op" /\ t \notin {Open, Close} THEN 1 ELSE 0)
<1> DEFINE n == Len(s)
<1>1. /\ n \in Nat /\ r \in Seq(Tokens) /\ Len(r) = n + 1 /\ DOMAIN r = 1..(n + 1)
      /\ DOMAIN s = 1..n /\ r[n + 1] = t /\ \A k \in 1..n : r[k] = s[k]
  OBVIOUS
<1> HIDE DEF n
<1>2. /\ Cardinality(Opens(s)) \in Nat
      /\ Cardinality(Opens(r)) = Cardinality(Opens(s)) + (IF t = Open THEN 1 ELSE 0)
  <2> DEFINE S == Opens(s)
             T == Opens(r)
  <2>1. S \subseteq 1..n /\ T \subseteq 1..(n + 1)
    BY <1>1 DEF Opens, n
  <2>2. \A k \in 1..n : k \in T <=> k \in S
    BY <1>1 DEF Opens, n
  <2>3. n + 1 \in T <=> t = Open
    BY <1>1 DEF Opens
  <2> HIDE DEF S, T
  <2>4. n \in Nat
    BY <1>1
  <2>5. Cardinality(S) \in Nat /\ Cardinality(T) = Cardinality(S) + (IF n + 1 \in T THEN 1 ELSE 0)
    BY <2>1, <2>2, <2>4, CountOne
  <2> QED BY <2>3, <2>5 DEF S, T
<1>3. /\ Cardinality(Closes(s)) \in Nat
      /\ Cardinality(Closes(r)) = Cardinality(Closes(s)) + (IF t = Close THEN 1 ELSE 0)
  <2> DEFINE S == Closes(s)
             T == Closes(r)
  <2>1. S \subseteq 1..n /\ T \subseteq 1..(n + 1)
    BY <1>1 DEF Closes, n
  <2>2. \A k \in 1..n : k \in T <=> k \in S
    BY <1>1 DEF Closes, n
  <2>3. n + 1 \in T <=> t = Close
    BY <1>1 DEF Closes
  <2> HIDE DEF S, T
  <2>4. n \in Nat
    BY <1>1
  <2>5. Cardinality(S) \in Nat /\ Cardinality(T) = Cardinality(S) + (IF n + 1 \in T THEN 1 ELSE 0)
    BY <2>1, <2>2, <2>4, CountOne
  <2> QED BY <2>3, <2>5 DEF S, T
<1>4. /\ Cardinality(Numbers(s)) \in Nat
      /\ Cardinality(Numbers(r)) = Cardinality(Numbers(s)) + (IF t.type = "value" THEN 1 ELSE 0)
  <2> DEFINE S == Numbers(s)
             T == Numbers(r)
  <2>1. S \subseteq 1..n /\ T \subseteq 1..(n + 1)
    BY <1>1 DEF Numbers
  <2>2. \A k \in 1..n : k \in T <=> k \in S
    BY <1>1 DEF Numbers
  <2>3. n + 1 \in T <=> t.type = "value"
    BY <1>1 DEF Numbers
  <2> HIDE DEF S, T
  <2>4. n \in Nat
    BY <1>1
  <2>5. Cardinality(S) \in Nat /\ Cardinality(T) = Cardinality(S) + (IF n + 1 \in T THEN 1 ELSE 0)
    BY <2>1, <2>2, <2>4, CountOne
  <2> QED BY <2>3, <2>5 DEF S, T
<1>5. /\ Cardinality(Operators(s)) \in Nat
      /\ Cardinality(Operators(r)) = Cardinality(Operators(s)) +
           (IF t.type = "op" /\ t \notin {Open, Close} THEN 1 ELSE 0)
  <2> DEFINE S == Operators(s)
             T == Operators(r)
  <2>1. S \subseteq 1..n /\ T \subseteq 1..(n + 1)
    BY <1>1 DEF Operators
  <2>2. \A k \in 1..n : k \in T <=> k \in S
    BY <1>1 DEF Operators
  <2>3. n + 1 \in T <=> t.type = "op" /\ t \notin {Open, Close}
    BY <1>1 DEF Operators
  <2> HIDE DEF S, T
  <2>4. n \in Nat
    BY <1>1
  <2>5. Cardinality(S) \in Nat /\ Cardinality(T) = Cardinality(S) + (IF n + 1 \in T THEN 1 ELSE 0)
    BY <2>1, <2>2, <2>4, CountOne
  <2> QED BY <2>3, <2>5 DEF S, T
<1>6. /\ Depth(s, n) = Cardinality(Opens(s)) - Cardinality(Closes(s))
      /\ Depth(r, n + 1) = Cardinality(Opens(r)) - Cardinality(Closes(r))
  BY <1>1 DEF Depth, Opens, Closes, n
<1>7. Open # Close
  BY DEF Open, Close, Op
<1>8. /\ Depth(s, n) \in Int
      /\ Depth(r, n + 1) = Depth(s, n) +
           (IF t = Open THEN 1 ELSE IF t = Close THEN -1 ELSE 0)
  <2>1. CASE t = Open
    BY <1>2, <1>3, <1>6, <1>7, <2>1
  <2>2. CASE t = Close
    BY <1>2, <1>3, <1>6, <1>7, <2>2
  <2>3. CASE t # Open /\ t # Close
    BY <1>2, <1>3, <1>6, <2>3
  <2> QED BY <2>1, <2>2, <2>3
<1> QED BY <1>1, <1>4, <1>5, <1>8 DEF n

----------------------------------------------------------------------------
(* The steps.                                                               *)

\* What a step leaves of a calculation is one.
LEMMA Becoming ==
    ASSUME NEW c, IsCalculation(c), vstack' = c.v, ostack' = c.o, status' \in Statuses
    PROVE  IsCalculation(Calculation')
<1>1. PICK X : c \in [v : Seq(X), o : Seq(Stackable), st : Statuses]
  BY DEF IsCalculation
<1>2. Calculation' = [v |-> c.v, o |-> c.o, st |-> status']
  BY DEF Calculation
<1>3. [v |-> c.v, o |-> c.o, st |-> status'] \in [v : Seq(X), o : Seq(Stackable), st : Statuses]
  BY <1>1
<1> QED BY <1>2, <1>3 DEF IsCalculation

\* The counts after a token that does not end the calculation
LEMMA Advance ==
    ASSUME Consistent, NEW t \in Tokens, read' = Append(read, t),
           NEW c, Good(c, Cardinality(Parens(ostack)) +
                            (IF t = Open THEN 1 ELSE IF t = Close THEN -1 ELSE 0),
                          Len(vstack) - Len(ostack) +
                            (IF t.type = "value" THEN 1 ELSE IF t.type = "op" THEN
                               IF t = Close THEN 1 ELSE -1 ELSE 0)),
           Becomes(c)
    PROVE  Consistent'
<1> DEFINE P == Cardinality(Parens(ostack))
           Q == Cardinality(Parens(c.o))
           s == read
           r == read'
<1>1. /\ s \in Seq(Tokens) /\ P = Depth(s, Len(s)) /\ \A k \in 1..Len(s) : Depth(s, k) >= 0
      /\ Len(vstack) - (Len(ostack) - P) = Cardinality(Numbers(s)) - Cardinality(Operators(s))
      /\ IsCalculation(Calculation)
  BY DEF Consistent
<1>2. vstack' = c.v /\ ostack' = c.o /\ status' = "reading" /\ IsCalculation(c)
      /\ c.o \in Seq(Stackable) /\ Len(c.o) \in Nat /\ Len(c.v) \in Nat
  BY DEF Becomes, Good, IsCalculation
<1>3. IsCalculation(Calculation')
  BY <1>2, Becoming DEF Statuses
<1>4. /\ r \in Seq(Tokens) /\ Len(r) = Len(s) + 1 /\ DOMAIN r = 1..Len(r)
      /\ Len(s) \in Nat
      /\ Depth(s, Len(s)) \in Int
      /\ \A k \in 1..Len(s) : Depth(r, k) = Depth(s, k)
      /\ Depth(r, Len(r)) = Depth(s, Len(s)) +
           (IF t = Open THEN 1 ELSE IF t = Close THEN -1 ELSE 0)
      /\ Cardinality(Numbers(s)) \in Nat /\ Cardinality(Operators(s)) \in Nat
      /\ Cardinality(Numbers(r)) = Cardinality(Numbers(s)) +
           (IF t.type = "value" THEN 1 ELSE 0)
      /\ Cardinality(Operators(r)) = Cardinality(Operators(s)) +
           (IF t.type = "op" /\ t \notin {Open, Close} THEN 1 ELSE 0)
  <2>1. s \in Seq(Tokens) /\ r = Append(s, t)
    BY <1>1
  <2> HIDE DEF r, s
  <2>2. Len(s) \in Nat
    BY <2>1
  <2>3. /\ r \in Seq(Tokens) /\ Len(r) = Len(s) + 1 /\ DOMAIN r = 1..Len(r)
    BY <2>1
  <2>4. Depth(s, Len(s)) \in Int /\ Len(r) = Len(s) + 1
    BY <2>1, Counts, Zenon
  <2>5. \A k \in 1..Len(s) : Depth(r, k) = Depth(s, k)
    BY <2>1, SameDepth
  <2>6. Depth(r, Len(r)) = Depth(s, Len(s)) +
           (IF t = Open THEN 1 ELSE IF t = Close THEN -1 ELSE 0)
    BY <2>1, Counts
  <2>7. /\ Cardinality(Numbers(s)) \in Nat /\ Cardinality(Operators(s)) \in Nat
        /\ Cardinality(Numbers(r)) = Cardinality(Numbers(s)) +
             (IF t.type = "value" THEN 1 ELSE 0)
        /\ Cardinality(Operators(r)) = Cardinality(Operators(s)) +
             (IF t.type = "op" /\ t \notin {Open, Close} THEN 1 ELSE 0)
    BY <2>1, Counts
  <2> QED BY <2>2, <2>3, <2>4, <2>5, <2>6, <2>7
<1>5. Len(vstack) \in Nat /\ Len(ostack) \in Nat /\ P \in Nat /\ Q \in Nat
  <2>1. \E X : vstack \in Seq(X) /\ ostack \in Seq(Stackable)
    BY <1>1 DEF IsCalculation, Calculation
  <2> QED BY <1>2, <2>1, ParensNat
<1>6. Q = P + (IF t = Open THEN 1 ELSE IF t = Close THEN -1 ELSE 0)
  BY DEF Good
<1>7. Len(c.v) - Len(c.o) = Len(vstack) - Len(ostack) +
        (IF t.type = "value" THEN 1 ELSE IF t.type = "op" THEN
           IF t = Close THEN 1 ELSE -1 ELSE 0)
  BY DEF Good
<1>8. Q = Depth(r, Len(r))
  BY <1>1, <1>4, <1>6
<1> HIDE DEF P, Q, s, r
<1>9. \A k \in DOMAIN r : Depth(r, k) >= 0
  <2> SUFFICES ASSUME NEW k \in 1..Len(r) PROVE Depth(r, k) >= 0
    BY <1>4
  <2>1. CASE k \in 1..Len(s)
    BY <1>1, <1>4, <2>1
  <2>2. CASE k = Len(r)
    BY <1>5, <1>8, <2>2
  <2> QED BY <1>4, <2>1, <2>2
<1>10. /\ t.type = "value" => t # Open /\ t # Close
       /\ t = Open => t.type = "op" /\ t # Close
       /\ t = Close => t.type = "op" /\ t # Open
       /\ t.type \in {"value", "op", "bad"}
  BY Kinds
<1> DEFINE V == Len(vstack)
           W == Len(c.v)
           A == Len(ostack)
           B == Len(c.o)
           M == Cardinality(Numbers(s))
           N == Cardinality(Numbers(r))
           J == Cardinality(Operators(s))
           K == Cardinality(Operators(r))
<1>11. /\ V \in Int /\ W \in Int /\ A \in Int /\ B \in Int /\ M \in Int /\ J \in Int
       /\ P \in Int /\ Q \in Int
       /\ V - (A - P) = M - J
       /\ Q = P + (IF t = Open THEN 1 ELSE IF t = Close THEN -1 ELSE 0)
       /\ W - B = V - A + (IF t.type = "value" THEN 1 ELSE IF t.type = "op" THEN
                             IF t = Close THEN 1 ELSE -1 ELSE 0)
       /\ N = M + (IF t.type = "value" THEN 1 ELSE 0)
       /\ K = J + (IF t.type = "op" /\ t \notin {Open, Close} THEN 1 ELSE 0)
  <2>1. V \in Int /\ W \in Int /\ A \in Int /\ B \in Int
    BY <1>2, <1>5
  <2>2. M \in Int /\ J \in Int /\ P \in Int /\ Q \in Int
    BY <1>4, <1>5
  <2>3. V - (A - P) = M - J
    BY <1>1
  <2>4. W - B = V - A + (IF t.type = "value" THEN 1 ELSE IF t.type = "op" THEN
                          IF t = Close THEN 1 ELSE -1 ELSE 0)
    BY <1>7
  <2>5. /\ N = M + (IF t.type = "value" THEN 1 ELSE 0)
        /\ K = J + (IF t.type = "op" /\ t \notin {Open, Close} THEN 1 ELSE 0)
    BY <1>4
  <2> HIDE DEF V, W, A, B, M, N, J, K
  <2> QED BY <1>6, <2>1, <2>2, <2>3, <2>4, <2>5
<1> HIDE DEF V, W, A, B, M, N, J, K
<1>12. W - (B - Q) = N - K
  <2>1. CASE t.type = "value"
    BY <1>10, <1>11, <2>1
  <2>2. CASE t = Open
    BY <1>10, <1>11, <2>2
  <2>3. CASE t = Close
    BY <1>10, <1>11, <2>3
  <2>4. CASE t.type = "op" /\ t # Open /\ t # Close
    BY <1>10, <1>11, <2>4
  <2>5. CASE t.type = "bad"
    BY <1>10, <1>11, <2>5
  <2> QED BY <1>10, <2>1, <2>2, <2>3, <2>4, <2>5
<1> QED BY <1>2, <1>3, <1>4, <1>8, <1>9, <1>12 DEF Consistent, Q, r, W, B, N, K

\* The calculation of a state
LEMMA Current ==
    ASSUME Consistent, status = "reading"
    PROVE  /\ Good(Calculation, Cardinality(Parens(ostack)), Len(vstack) - Len(ostack))
           /\ Calculation.v = vstack /\ Calculation.o = ostack /\ Calculation.st = status
           /\ ostack \in Seq(Stackable) /\ Len(ostack) \in Nat /\ Len(vstack) \in Nat
           /\ Cardinality(Parens(ostack)) \in Nat
           /\ \E X : vstack \in Seq(X)
<1>1. PICK X : Calculation \in [v : Seq(X), o : Seq(Stackable), st : Statuses]
  BY DEF Consistent, IsCalculation
<1>2. Calculation.v = vstack /\ Calculation.o = ostack /\ Calculation.st = status
  BY DEF Calculation
<1>3. ostack \in Seq(Stackable) /\ vstack \in Seq(X)
  BY <1>1, <1>2
<1>4. Cardinality(Parens(ostack)) \in Nat
  BY <1>3, ParensNat
<1> QED BY <1>1, <1>2, <1>3, <1>4 DEF Good, IsCalculation

\* A step that fails, and not by an assertion
LEMMA Failure ==
    ASSUME status' \in {"error", "trap"}
    PROVE  IInv'
  BY DEF IInv, AcceptedIsBalanced

\* A value, an operator or a left parenthesis goes on its stack.
LEMMA Pushed ==
    ASSUME NEW c, NEW P \in Nat, NEW D \in Int, Good(c, P, D)
    PROVE  /\ \A e : Good([c EXCEPT !.v = Append(@, e)], P, D + 1)
           /\ \A e \in Stackable :
                Good([c EXCEPT !.o = Append(@, e)], P + (IF e = "(" THEN 1 ELSE 0), D - 1)
<1>1. PICK X : c \in [v : Seq(X), o : Seq(Stackable), st : Statuses]
  BY DEF Good, IsCalculation
<1>2. c.v \in Seq(X) /\ c.o \in Seq(Stackable) /\ Len(c.v) \in Nat /\ Len(c.o) \in Nat
      /\ c.st = "reading" /\ Cardinality(Parens(c.o)) = P /\ Len(c.v) - Len(c.o) = D
  BY <1>1 DEF Good
<1>3. ASSUME NEW e PROVE Good([c EXCEPT !.v = Append(@, e)], P, D + 1)
  <2> DEFINE Y == X \cup {e}
             w == Append(c.v, e)
             d == [c EXCEPT !.v = w]
  <2>1. c.v \in Seq(Y) /\ e \in Y
    BY <1>2
  <2> HIDE DEF Y
  <2>2. w \in Seq(Y) /\ Len(w) = Len(c.v) + 1
    BY <2>1
  <2> HIDE DEF w
  <2>3. /\ d \in [v : Seq(Y), o : Seq(Stackable), st : Statuses]
        /\ d.v = w /\ d.o = c.o /\ d.st = "reading"
    BY <1>1, <1>2, <2>2
  <2> HIDE DEF d
  <2>4. IsCalculation(d)
    BY <2>3 DEF IsCalculation
  <2>5. Len(d.v) - Len(d.o) = D + 1
    <3>1. Len(d.v) = Len(c.v) + 1 /\ Len(d.o) = Len(c.o)
      BY <2>2, <2>3
    <3>2. (Len(c.v) + 1) - Len(c.o) = (Len(c.v) - Len(c.o)) + 1
      BY <1>2
    <3>3. Len(c.v) - Len(c.o) = D
      BY <1>2
    <3> QED BY <3>1, <3>2, <3>3
  <2>6. Good(d, P, D + 1)
    BY <1>2, <2>3, <2>4, <2>5 DEF Good
  <2> QED BY <2>6 DEF d, w
<1>4. ASSUME NEW e \in Stackable
      PROVE  Good([c EXCEPT !.o = Append(@, e)], P + (IF e = "(" THEN 1 ELSE 0), D - 1)
  <2> DEFINE w == Append(c.o, e)
             d == [c EXCEPT !.o = w]
  <2>1. w \in Seq(Stackable) /\ Len(w) = Len(c.o) + 1
    BY <1>2
  <2>2. Cardinality(Parens(w)) = P + (IF e = "(" THEN 1 ELSE 0)
    BY <1>2, ParensAppend
  <2> HIDE DEF w
  <2>3. /\ d \in [v : Seq(X), o : Seq(Stackable), st : Statuses]
        /\ d.v = c.v /\ d.o = w /\ d.st = "reading"
    BY <1>1, <1>2, <2>1
  <2> HIDE DEF d
  <2>4. IsCalculation(d)
    BY <2>3 DEF IsCalculation
  <2>5. Len(d.v) - Len(d.o) = D - 1
    <3>1. Len(d.v) = Len(c.v) /\ Len(d.o) = Len(c.o) + 1
      BY <2>1, <2>3
    <3>2. Len(c.v) - (Len(c.o) + 1) = (Len(c.v) - Len(c.o)) - 1
      BY <1>2
    <3>3. Len(c.v) - Len(c.o) = D
      BY <1>2
    <3> QED BY <3>1, <3>2, <3>3
  <2>6. Good(d, P + (IF e = "(" THEN 1 ELSE 0), D - 1)
    BY <2>2, <2>3, <2>4, <2>5 DEF Good
  <2> QED BY <2>6 DEF d, w
<1> QED BY <1>3, <1>4

\* A right parenthesis takes the last left one off the stack, or fails.
LEMMA Closed ==
    ASSUME NEW c, NEW P \in Nat, NEW D \in Int, Good(c, P, D), c.o # <<>>
    PROVE  Ended(CloseParent(c)) \/ Good(CloseParent(c), P - 1, D + 1)
<1> DEFINE d == Evaluated(c, 1, 1)
<1>1. \/ Ended(d)
      \/ /\ Good(d, P, D)
         /\ Len(d.o) >= 1 \/ d.o = c.o
  BY EvaluatedGood
<1>2. CloseParent(c) = IF d.st # "reading" THEN d
                       ELSE IF Last(d.o) = "(" THEN [d EXCEPT !.o = Front(@)]
                       ELSE Failed(d, "error")
  BY DEF CloseParent
<1> HIDE DEF d
<1>3. CASE Ended(d)
  BY <1>2, <1>3 DEF Ended
<1>4. CASE Good(d, P, D) /\ (Len(d.o) >= 1 \/ d.o = c.o)
  <2>1. PICK X : d \in [v : Seq(X), o : Seq(Stackable), st : Statuses]
    BY <1>4 DEF Good, IsCalculation
  <2>2. d.o # <<>> /\ d.st = "reading" /\ Cardinality(Parens(d.o)) = P
        /\ Len(d.v) - Len(d.o) = D /\ Len(d.v) \in Nat
    BY <1>4, <2>1 DEF Good
  <2>3. CASE Last(d.o) # "("
    <3>1. CloseParent(c) = Failed(d, "error")
      BY <1>2, <2>2, <2>3
    <3>2. Failed(d, "error") \in [v : Seq(X), o : Seq(Stackable), st : Statuses]
          /\ Failed(d, "error").st = "error"
      BY <2>1 DEF Failed, Statuses
    <3> QED BY <3>1, <3>2 DEF Ended, IsCalculation
  <2>4. CASE Last(d.o) = "("
    <3> DEFINE w == Front(d.o)
               b == [d EXCEPT !.o = w]
    <3>1. CloseParent(c) = b
      BY <1>2, <2>2, <2>4
    <3>2. w \in Seq(Stackable) /\ Len(w) = Len(d.o) - 1 /\ Len(d.o) \in Nat
      BY <2>1, <2>2, FrontLast
    <3>3. Cardinality(Parens(w)) = P - 1
      <4>1. Cardinality(Parens(w)) \in Nat
        BY <3>2, ParensNat
      <4>2. Cardinality(Parens(d.o)) = Cardinality(Parens(w)) + 1
        BY <2>1, <2>2, <2>4, ParensFront
      <4> QED BY <2>2, <4>1, <4>2
    <3> HIDE DEF w
    <3>4. /\ b \in [v : Seq(X), o : Seq(Stackable), st : Statuses]
          /\ b.v = d.v /\ b.o = w /\ b.st = "reading"
      BY <2>1, <2>2, <3>2
    <3> HIDE DEF b
    <3>5. IsCalculation(b)
      BY <3>4 DEF IsCalculation
    <3>6. Len(b.v) - Len(b.o) = D + 1
      BY <2>2, <3>2, <3>4
    <3>7. Good(b, P - 1, D + 1)
      BY <3>3, <3>4, <3>5, <3>6 DEF Good
    <3> QED BY <3>1, <3>7
  <2> QED BY <2>3, <2>4
<1> QED BY <1>1, <1>3, <1>4

LEMMA ReadStep ==
    ASSUME IInv, NEW t \in Tokens, ReadToken(t)
    PROVE  IInv'
<1> DEFINE c == Calculation
           P == Cardinality(Parens(ostack))
           D == Len(vstack) - Len(ostack)
<1>1. status = "reading" /\ Consistent /\ read' = Append(read, t)
  BY DEF ReadToken, IInv
<1>2. /\ Good(c, P, D) /\ P \in Nat /\ D \in Int
      /\ c.v = vstack /\ c.o = ostack /\ c.st = "reading"
      /\ ostack \in Seq(Stackable)
  BY <1>1, Current
<1>3. /\ t.type = "value" => t # Open /\ t # Close
      /\ t = Open => t.type = "op" /\ t # Close
      /\ t = Close => t.type = "op" /\ t # Open
      /\ t.type = "op" /\ t \notin {Open, Close} => t.op \in Stackable /\ t.op # "("
  BY Kinds
<1> DEFINE Opened == IF t = Open THEN 1 ELSE IF t = Close THEN -1 ELSE 0
           More == IF t.type = "value" THEN 1 ELSE IF t.type = "op" THEN
                     IF t = Close THEN 1 ELSE -1 ELSE 0
<1>4. ASSUME NEW d, Good(d, P + Opened, D + More), Becomes(d) PROVE IInv'
  <2>1. Consistent'
    BY <1>1, <1>4, Advance
  <2>2. status' = "reading"
    BY <1>4 DEF Becomes, Good
  <2> QED BY <2>1, <2>2 DEF IInv, AcceptedIsBalanced
<1>5. ASSUME NEW d, Ended(d), Becomes(d) PROVE IInv'
  <2>1. status' \in {"error", "trap"}
    BY <1>5 DEF Becomes, Ended
  <2> QED BY <2>1, Failure
<1> HIDE DEF c, P, D
<1>6. CASE t.type = "value" /\ Becomes([c EXCEPT !.v = Append(@, t.val)])
  <2> DEFINE d == [c EXCEPT !.v = Append(@, t.val)]
  <2>1. Good(d, P, D + 1)
    BY <1>2, Pushed
  <2>2. P + Opened = P /\ D + More = D + 1
    BY <1>2, <1>3, <1>6
  <2> HIDE DEF d, Opened, More
  <2>3. Becomes(d)
    BY <1>6 DEF d
  <2> QED BY <1>4, <2>1, <2>2, <2>3
<1>7. CASE t = Open /\ Becomes([c EXCEPT !.o = Append(@, "(")])
  <2> DEFINE d == [c EXCEPT !.o = Append(@, "(")]
  <2>1. Good(d, P + 1, D - 1)
    <3>1. "(" \in Stackable
      BY DEF Stackable
    <3>2. Good(d, P + (IF "(" = "(" THEN 1 ELSE 0), D - 1)
      BY <1>2, <3>1, Pushed
    <3> QED BY <3>2
  <2>2. P + Opened = P + 1 /\ D + More = D - 1
    BY <1>2, <1>3, <1>7
  <2> HIDE DEF d, Opened, More
  <2>3. Becomes(d)
    BY <1>7 DEF d
  <2> QED BY <1>4, <2>1, <2>2, <2>3
<1>8. CASE t = Close /\ Becomes(CloseParent(c))
  <2>1. CASE c.o # <<>>
    <3> DEFINE d == CloseParent(c)
    <3>1. Ended(d) \/ Good(d, P - 1, D + 1)
      BY <1>2, <2>1, Closed
    <3>2. P + Opened = P - 1 /\ D + More = D + 1
      BY <1>2, <1>3, <1>8
    <3> HIDE DEF d, Opened, More
    <3>3. Becomes(d)
      BY <1>8 DEF d
    <3> QED BY <1>4, <1>5, <3>1, <3>2, <3>3
  <2>2. CASE c.o = <<>>
    <3>1. status' = "abort"
      <4>1. CloseParent(c) = Failed(c, "abort")
        BY <2>2 DEF CloseParent
      <4>2. Failed(c, "abort").st = "abort"
        <5>1. \E X : c \in [v : Seq(X), o : Seq(Stackable), st : Statuses]
          BY <1>2 DEF Good, IsCalculation
        <5> QED BY <5>1 DEF Failed
      <4> QED BY <1>8, <4>1, <4>2 DEF Becomes
    <3>2. Depth(read, Len(read)) = 0
      <4>1. Parens(ostack) = {}
        BY <1>2, <2>2 DEF Parens
      <4> QED BY <1>1, <4>1, FS_EmptySet DEF Consistent
    <3>3. Depth(read', Len(read')) = -1
      <4> DEFINE r == read'
      <4>1. read \in Seq(Tokens) /\ r = Append(read, t)
        BY <1>1 DEF Consistent
      <4> HIDE DEF r
      <4>2. Depth(r, Len(r)) = Depth(read, Len(read)) +
              (IF t = Open THEN 1 ELSE IF t = Close THEN -1 ELSE 0)
        BY <4>1, Counts
      <4>3. Depth(r, Len(r)) = -1
        BY <1>3, <1>8, <3>2, <4>2
      <4> QED BY <4>3 DEF r
    <3>4. ~Balanced(read')
      BY <3>3 DEF Balanced
    <3>5. ~Balanced(read)'
      BY <3>4 DEF Balanced, Depth
    <3> QED BY <3>1, <3>5 DEF IInv, AcceptedIsBalanced
  <2> QED BY <2>1, <2>2
<1>9. CASE /\ t.type = "op" /\ t \notin {Open, Close}
           /\ LET d == Reduce(c, t.op) IN
              Becomes(IF d.st = "reading" THEN [d EXCEPT !.o = Append(@, t.op)] ELSE d)
  <2> DEFINE d == Reduce(c, t.op)
             b == [d EXCEPT !.o = Append(@, t.op)]
  <2>1. Ended(d) \/ Good(d, P, D)
    <3>1. Precedence[t.op] \in Int
      <4>1. t.op \in DOMAIN Precedence
        BY <1>3, <1>9 DEF Stackable
      <4> QED BY <4>1 DEF Precedence
    <3> QED BY <1>2, <3>1, EvaluatedGood DEF Reduce
  <2>2. t.op \in Stackable /\ t.op # "("
    BY <1>3, <1>9
  <2>3. P + Opened = P /\ D + More = D - 1
    BY <1>2, <1>3, <1>9
  <2>4. Becomes(IF d.st = "reading" THEN b ELSE d)
    BY <1>9
  <2> HIDE DEF d
  <2>5. CASE Ended(d)
    BY <1>5, <2>4, <2>5 DEF Ended
  <2>6. CASE Good(d, P, D)
    <3>1. Good(b, P + (IF t.op = "(" THEN 1 ELSE 0), D - 1)
      BY <1>2, <2>2, <2>6, Pushed
    <3>2. Good(b, P, D - 1)
      BY <1>2, <2>2, <3>1
    <3>3. d.st = "reading"
      BY <2>6 DEF Good
    <3> HIDE DEF b, Opened, More
    <3> QED BY <1>4, <2>3, <2>4, <3>2, <3>3
  <2> QED BY <2>1, <2>5, <2>6
<1>10. CASE t = Bad /\ Becomes(Failed(c, "error"))
  <2>1. PICK X : c \in [v : Seq(X), o : Seq(Stackable), st : Statuses]
    BY <1>2 DEF Good, IsCalculation
  <2>2. Failed(c, "error").st = "error"
    BY <2>1 DEF Failed
  <2> QED BY <1>10, <2>2, Failure DEF Becomes
<1> QED BY <1>6, <1>7, <1>8, <1>9, <1>10 DEF ReadToken, c

\* The end of the text: all operators are evaluated.
LEMMA FinishStep ==
    ASSUME IInv, Finish
    PROVE  IInv'
<1> DEFINE c == Calculation
           P == Cardinality(Parens(ostack))
           D == Len(vstack) - Len(ostack)
           d == ReduceAll(c)
<1>1. status = "reading" /\ Consistent /\ read' = read
  BY DEF Finish, IInv
<1>2. Good(c, P, D) /\ P \in Nat /\ D \in Int
  BY <1>1, Current
<1>3. \/ Ended(d)
      \/ Good(d, P, D) /\ (Len(d.o) <= 0 \/ ~(PrecedenceOf(Last(d.o)) >= 0))
  <2> HIDE DEF c, P, D
  <2> QED BY <1>2, EvaluatedGood DEF ReduceAll
<1>4. status' = IF d.st # "reading" THEN d.st ELSE IF Len(d.v) = 1 THEN "done" ELSE "error"
  BY DEF Finish
<1> HIDE DEF c, d
<1>5. CASE Ended(d)
  <2>1. status' \in {"error", "trap"}
    BY <1>4, <1>5 DEF Ended
  <2> QED BY <2>1, Failure
<1>6. CASE Good(d, P, D) /\ (Len(d.o) <= 0 \/ ~(PrecedenceOf(Last(d.o)) >= 0)) /\ Len(d.v) # 1
  <2>1. status' = "error"
    BY <1>4, <1>6 DEF Good
  <2> QED BY <2>1, Failure
<1>7. CASE Good(d, P, D) /\ (Len(d.o) <= 0 \/ ~(PrecedenceOf(Last(d.o)) >= 0)) /\ Len(d.v) = 1
  <2>1. PICK X : d \in [v : Seq(X), o : Seq(Stackable), st : Statuses]
    BY <1>7 DEF Good, IsCalculation
  <2>2. d.o = <<>>
    <3> SUFFICES ASSUME d.o # <<>> PROVE FALSE
      OBVIOUS
    <3>1. Last(d.o) \in Stackable /\ Len(d.o) \in Nat /\ Len(d.o) > 0
      BY <2>1, FrontLast
    <3>2. PrecedenceOf(Last(d.o)) >= 0
      BY <3>1 DEF PrecedenceOf, Precedence, Stackable
    <3> QED BY <1>7, <3>1, <3>2
  <2>3. P = 0 /\ D = 1
    <3>1. Parens(d.o) = {}
      BY <2>2 DEF Parens
    <3>2. Len(d.o) = 0
      BY <2>2
    <3> QED BY <1>7, <3>1, <3>2, FS_EmptySet DEF Good
  <2>4. Balanced(read)
    BY <1>1, <2>3 DEF Balanced, Consistent
  <2>5. Cardinality(Numbers(read)) = Cardinality(Operators(read)) + 1
    <3> DEFINE N == Cardinality(Numbers(read))
               K == Cardinality(Operators(read))
               V == Len(vstack)
               A == Len(ostack)
    <3>1. N \in Nat /\ K \in Nat
      <4>1. read \in Seq(Tokens) /\ Open \in Tokens
        BY <1>1 DEF Consistent, Tokens
      <4> QED BY <4>1, Counts
    <3>2. V \in Nat /\ A \in Nat
      BY <1>1, Current
    <3>3. V - (A - P) = N - K
      BY <1>1 DEF Consistent
    <3>4. V - A = 1 /\ P = 0
      BY <2>3
    <3> HIDE DEF N, K, V, A, P, D
    <3>5. N = K + 1
      BY <3>1, <3>2, <3>3, <3>4
    <3> QED BY <3>5 DEF N, K
  <2>6. Balanced(read)' /\ (Cardinality(Numbers(read)) = Cardinality(Operators(read)) + 1)'
    BY <1>1, <2>4, <2>5 DEF Balanced, Depth, Numbers, Operators
  <2>7. status' = "done"
    BY <1>4, <1>7 DEF Good
  <2> QED BY <2>6, <2>7 DEF IInv, AcceptedIsBalanced
<1> QED BY <1>3, <1>5, <1>6, <1>7

LEMMA InitIInv ==
    ASSUME Init
    PROVE  IInv
<1>1. read = <<>> /\ vstack = <<>> /\ ostack = <<>> /\ status = "reading"
  BY DEF Init
<1>2. read \in Seq(Tokens) /\ DOMAIN read = {} /\ Len(read) = 0
      /\ Len(vstack) = 0 /\ Len(ostack) = 0
  BY <1>1
<1>3. IsCalculation(Calculation)
  <2>1. Calculation \in [v : Seq({}), o : Seq(Stackable), st : Statuses]
    BY <1>1 DEF Calculation, Statuses
  <2> QED BY <2>1 DEF IsCalculation
<1>4. Parens(ostack) = {} /\ Numbers(read) = {} /\ Operators(read) = {}
  BY <1>1 DEF Parens, Numbers, Operators
<1>5. Depth(read, Len(read)) = 0
  <2>1. {i \in 1..Len(read) : read[i] = Open} = {} /\ {i \in 1..Len(read) : read[i] = Close} = {}
    BY <1>2
  <2>2. Depth(read, Len(read)) = Cardinality({}) - Cardinality({})
    BY <2>1 DEF Depth
  <2> QED BY <2>2, FS_EmptySet
<1>6. Consistent
  BY <1>2, <1>3, <1>4, <1>5, FS_EmptySet DEF Consistent
<1> QED BY <1>1, <1>6 DEF IInv, AcceptedIsBalanced

\* What infixcalc() calculates without an error has balanced parentheses and
\* one more value than operators, and the pop from an empty stack, which is an
\* assertion, happens on unbalanced parentheses only.
THEOREM AcceptedBalanced == Spec => []AcceptedIsBalanced
<1>1. Init => IInv
  BY InitIInv
<1>2. IInv /\ [Next]_vars => IInv'
  <2> SUFFICES ASSUME IInv, [Next]_vars PROVE IInv'
    OBVIOUS
  <2>1. CASE Finish
    BY <2>1, FinishStep
  <2>2. ASSUME NEW t \in Tokens, ReadToken(t) PROVE IInv'
    BY <2>2, ReadStep
  <2>3. CASE UNCHANGED vars
    BY <2>3 DEF vars, IInv, Consistent, AcceptedIsBalanced, Calculation, IsCalculation,
       Depth, Balanced, Numbers, Operators, Parens
  <2> QED BY <2>1, <2>2, <2>3 DEF Next
<1>3. IInv => AcceptedIsBalanced
  BY DEF IInv
<1> QED BY <1>1, <1>2, <1>3, PTL DEF Spec
=============================================================================
