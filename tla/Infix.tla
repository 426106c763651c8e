------------------------------- MODULE Infix --------------------------------
(***************************************************************************)
(* The calculator for the sizes of properties, such as "N*(M+1)"           *)
(* (src/src/utils/infixcalc.c): one left-to-right pass over the tokens     *)
(* with a stack of values and a stack of operators.  One step reads one    *)
(* token; Finish is what happens at the end of the text.                   *)
(***************************************************************************)
EXTENDS Integers, SequencesExt, FiniteSetsExt

CONSTANTS
  Values,    \* the numbers, and the values of variables, in expressions
  Used,      \* the operators in expressions
  MaxTokens  \* bound: tokens in an expression

Precedence ==
  [o \in {"|", "&", "=", "!", ">", "<", "+", "-", "*", "/", "%", "^"} |->
     CASE o = "|" -> 1 [] o = "&" -> 2 [] o = "=" -> 3 [] o = "!" -> 4
       [] o \in {">", "<"} -> 5 [] o \in {"+", "-"} -> 6
       [] o \in {"*", "/", "%"} -> 7 [] o = "^" -> 8]

ASSUME InfixAssumption ==
  Used \subseteq DOMAIN Precedence /\ Values \subseteq Int /\ MaxTokens \in Nat

\* A token: a value, an operator, a parenthesis or something else.
Number(v) == [type |-> "value", val |-> v]
Op(o) == [type |-> "op", op |-> o]
Open == Op("(")
Close == Op(")")
Bad == [type |-> "bad"]
Tokens == {Number(v) : v \in Values} \cup {Op(o) : o \in Used} \cup {Open, Close, Bad}

VARIABLES
  read,    \* the tokens read so far
  vstack,  \* values, the top one last
  ostack,  \* operators and left parentheses
  status,  \* "reading", "done", "error", "abort" (a failing assertion), "trap"
  result

vars == <<read, vstack, ostack, status, result>>

---------------------------------------------------------------------------
Truth(b) == IF b THEN 1 ELSE 0
Abs(a) == IF a < 0 THEN -a ELSE a
Sign(a) == IF a < 0 THEN -1 ELSE 1

\* binary_eval(), with the division of C.  "trap" is division by zero.
Quotient(a, b) == Sign(a) * Sign(b) * (Abs(a) \div Abs(b))
Divides(o, b) == o \in {"/", "%"} /\ b = 0
BinaryEval(o, a, b) ==
  CASE o = "|" -> Truth(a # 0 \/ b # 0)
    [] o = "&" -> Truth(a # 0 /\ b # 0)
    [] o = "=" -> Truth(a = b)
    [] o = "!" -> Truth(a # b)
    [] o = ">" -> Truth(a > b)
    [] o = "<" -> Truth(a < b)
    [] o = "+" -> a + b
    [] o = "-" -> a - b
    [] o = "*" -> a * b
    [] o = "/" -> Quotient(a, b)
    [] o = "%" -> a - b * Quotient(a, b)
    [] o = "^" -> IF b > 0 THEN a^b ELSE 1

\* The state of a calculation: [v, o, st].
Failed(c, st) == [c EXCEPT !.st = st]

\* Mutant of Eval: the operands are taken in the order they are popped.
EvalSwapped(c) ==
  LET op == Last(c.o)
      n == Len(c.v)
      p == [c EXCEPT !.o = Front(@)]
  IN  IF op = "(" \/ n < 2 THEN Failed(p, "error")
      ELSE IF Divides(op, c.v[n - 1]) THEN Failed(p, "trap")
      ELSE [p EXCEPT !.v = Append(SubSeq(@, 1, n - 2), BinaryEval(op, c.v[n], c.v[n - 1]))]

\* eval() of the operator popped from the operator stack.
Eval(c) ==
  LET op == Last(c.o)
      n == Len(c.v)
      p == [c EXCEPT !.o = Front(@)]
  IN  IF op = "(" \/ n < 2 THEN Failed(p, "error")
      ELSE IF Divides(op, c.v[n]) THEN Failed(p, "trap")
      ELSE [p EXCEPT !.v = Append(SubSeq(@, 1, n - 2), BinaryEval(op, c.v[n - 1], c.v[n]))]

\* A left parenthesis has precedence 0: only a right one takes it off.
PrecedenceOf(o) == IF o = "(" THEN 0 ELSE Precedence[o]

\* A loop that pops operators and evaluates them, as long as more than `left`
\* are on the stack and the top one has at least the precedence p.
Evaluated(c, p, left) ==
  LET loop[k \in 0..Len(c.o)] ==
        IF k = 0 THEN c
        ELSE LET d == loop[k - 1] IN
             IF d.st = "reading" /\ Len(d.o) > left /\ PrecedenceOf(Last(d.o)) >= p
             THEN Eval(d) ELSE d
  IN  loop[Len(c.o)]

\* The operators on the stack that bind as tightly as `o`, or more, come first.
Reduce(c, o) == Evaluated(c, Precedence[o], 0)

\* Mutant of CloseParent: the loop ends at an empty stack, too.
CloseParentLoose(c) ==
  LET d == Evaluated(c, 1, 0) IN
  IF d.st # "reading" \/ d.o = <<>> THEN d ELSE [d EXCEPT !.o = Front(@)]

\* A right parenthesis: the operators down to the left one.  The pop from an
\* empty stack is an assertion; where the last operator is none it is an error.
CloseParent(c) ==
  IF c.o = <<>> THEN Failed(c, "abort")
  ELSE LET d == Evaluated(c, 1, 1) IN
       IF d.st # "reading" THEN d
       ELSE IF Last(d.o) = "(" THEN [d EXCEPT !.o = Front(@)]
       ELSE Failed(d, "error")

ReduceAll(c) == Evaluated(c, 0, 0)

---------------------------------------------------------------------------
Calculation == [v |-> vstack, o |-> ostack, st |-> status]
Becomes(c) == vstack' = c.v /\ ostack' = c.o /\ status' = c.st

ReadToken(t) ==
  /\ status = "reading" /\ Len(read) < MaxTokens
  /\ read' = Append(read, t)
  /\ UNCHANGED result
  /\ \/ t.type = "value" /\ Becomes([Calculation EXCEPT !.v = Append(@, t.val)])
     \/ t = Open /\ Becomes([Calculation EXCEPT !.o = Append(@, "(")])
     \/ t = Close /\ Becomes(CloseParent(Calculation))
     \/ /\ t.type = "op" /\ t \notin {Open, Close}
        /\ LET c == Reduce(Calculation, t.op) IN
           Becomes(IF c.st = "reading" THEN [c EXCEPT !.o = Append(@, t.op)] ELSE c)
     \/ t = Bad /\ Becomes(Failed(Calculation, "error"))

Finish ==
  /\ status = "reading"
  /\ LET c == ReduceAll(Calculation) IN
     /\ vstack' = c.v /\ ostack' = c.o
     /\ status' = IF c.st # "reading" THEN c.st
                  ELSE IF Len(c.v) = 1 THEN "done" ELSE "error"
     /\ result' = IF status' = "done" THEN Last(c.v) ELSE result
  /\ UNCHANGED read

Init == read = <<>> /\ vstack = <<>> /\ ostack = <<>> /\ status = "reading" /\ result = 0

Next == Finish \/ \E t \in Tokens : ReadToken(t)

Spec == Init /\ [][Next]_vars

---------------------------------------------------------------------------
\* The nesting of parentheses after k tokens of s.
Depth(s, k) == Cardinality({i \in 1..k : s[i] = Open}) - Cardinality({i \in 1..k : s[i] = Close})
Balanced(s) == Depth(s, Len(s)) = 0 /\ \A k \in DOMAIN s : Depth(s, k) >= 0
Operators(s) == {k \in DOMAIN s : s[k].type = "op" /\ s[k] \notin {Open, Close}}
Numbers(s) == {k \in DOMAIN s : s[k].type = "value"}

\* What is calculated without an error has balanced parentheses and one more
\* value than operators, also if it is no expression; an assertion fails only
\* on parentheses that are not balanced.
AcceptedIsBalanced ==
  /\ status = "done" =>
       Balanced(read) /\ Cardinality(Numbers(read)) = Cardinality(Operators(read)) + 1
  /\ status = "abort" => ~Balanced(read)
=============================================================================
