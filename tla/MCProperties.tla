---------------------------- MODULE MCProperties ----------------------------
EXTENDS Properties

MCValue(e, dims) ==
  CASE e = "N" -> dims[1] [] e = "M" -> dims[2] [] e = "N-1" -> dims[1] - 1 [] OTHER -> 0
MCFailing(e) == e = "bad"

Array(shape) == [shape |-> shape, string |-> FALSE]
Text(shape) == [shape |-> shape, string |-> TRUE]

\* A matrix and strings; an expression that may be negative, alone and twice,
\* and a scalar string; an expression that is refused, first and last.
MCMetas ==
  {[ndims |-> 2, props |-> <<Array(<<"M", "N">>), Text(<<"N">>)>>],
   [ndims |-> 1, props |-> <<Text(<<"N-1">>), Array(<<"N-1", "N-1">>), Text(<<>>)>>],
   [ndims |-> 1, props |-> <<Array(<<"bad", "N">>), Text(<<"N">>)>>],
   [ndims |-> 1, props |-> <<Text(<<"N">>), Array(<<"N", "bad">>)>>]}

ASSUME MCFits == Fits

MCSymmetry == Permutations(Insts)
=============================================================================
