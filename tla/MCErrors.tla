------------------------------ MODULE MCErrors ------------------------------
(* Blocks with two ErrCatch clauses (with or without a fall-through between *)
(* them), with ErrOther, with ErrElse and with ErrFinally, in the default   *)
(* modes and in two others.                                                 *)
EXTENDS Errors

MCLayouts == {<<Try, Catch(1), Catch(2), Finally>>,
              <<Try, Catch(1), Other, Else>>,
              <<Try, Finally>>}
Mode(w, o, a) == [warn |-> w, override |-> o, abort |-> a]
MCModes == {Mode("normal", "append", FALSE), Mode("error", "ignore-new", TRUE),
            Mode("ignore", "old", FALSE)}
DefaultMode == {Mode("normal", "append", FALSE)}
=============================================================================
