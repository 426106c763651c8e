----------------------------- MODULE MCMapping -----------------------------
(* All lists of up to five plugins from a pool that contains chains, cycles,*)
(* alternatives of different costs and plugins with two inputs.             *)
EXTENDS Mapping

CONSTANTS T, A, B, I, J

Via(o, i, c) == [out |-> o, ins |-> i, cost |-> c]
Pool == {Via(T, <<A>>, 3), Via(T, <<A, B>>, 1), Via(T, <<B, J>>, 1),
         Via(A, <<I>>, 5), Via(A, <<B>>, 1), Via(A, <<T>>, 1),
         Via(B, <<I>>, 1), Via(B, <<A>>, 1)}
GivenSets == {{I}, {I, J}, {A, I}}
Lists == {f \in UNION {[1..n -> Pool] : n \in 1..5} : IsInjective(f)}
=============================================================================
