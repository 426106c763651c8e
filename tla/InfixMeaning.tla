---------------------------- MODULE InfixMeaning ----------------------------
(***************************************************************************)
(* The reference for the calculator of module Infix: the value of an       *)
(* expression by its structure.                                            *)
(***************************************************************************)
EXTENDS Infix

\* The operator of an expression: the last of those with the least
\* precedence outside of parentheses.
Top(s) ==
  LET outer == {k \in Operators(s) : Depth(s, k) = 0}
      least == Min({Precedence[s[k].op] : k \in outer})
  IN  IF outer = {} THEN 0 ELSE Max({k \in outer : Precedence[s[k].op] = least})

\* The value of an expression: {} if it is none, or divides by zero.
RECURSIVE Meaning(_), WellFormed(_)
WellFormed(s) ==
  /\ Len(s) > 0 /\ Balanced(s) /\ \A k \in DOMAIN s : s[k] # Bad
  /\ IF Top(s) > 0
     THEN WellFormed(SubSeq(s, 1, Top(s) - 1)) /\ WellFormed(SubSeq(s, Top(s) + 1, Len(s)))
     ELSE \/ Len(s) = 1 /\ s[1].type = "value"
          \/ s[1] = Open /\ Last(s) = Close /\ WellFormed(SubSeq(s, 2, Len(s) - 1))
Meaning(s) ==
  IF Top(s) > 0
  THEN {BinaryEval(s[Top(s)].op, p[1], p[2]) :
          p \in {q \in Meaning(SubSeq(s, 1, Top(s) - 1)) \X Meaning(SubSeq(s, Top(s) + 1, Len(s))) :
                   ~Divides(s[Top(s)].op, q[2])}}
  ELSE IF Len(s) = 1 THEN {s[1].val} ELSE Meaning(SubSeq(s, 2, Len(s) - 1))

\* The calculator gives each expression its value by precedence, from left to
\* right among equals, whatever the nesting; it traps where the value divides
\* by zero, and refuses no expression.
ValueExact ==
  status # "reading" /\ WellFormed(read) =>
    IF Meaning(read) = {} THEN status = "trap" ELSE status = "done" /\ Meaning(read) = {result}
=============================================================================
