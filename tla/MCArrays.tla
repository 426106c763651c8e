------------------------------ MODULE MCArrays ------------------------------
EXTENDS Arrays

\* One to three dimensions, with one that is empty and sizes that are no power
\* of two.
MCShapes == {<<6>>, <<5>>, <<2, 3>>, <<3, 4>>, <<3, 0>>, <<2, 2, 3>>}

MCMatrix == {<<3, 4>>}

\* Not empty, as in the tests of the repository, with steps up to two; counted
\* from the back only where the size is a power of two.
MCSlices(n) ==
  {sl \in {<<0, n, 1>>, <<1, n, 1>>, <<0, n - 1, 1>>, <<0, n, 2>>, <<1, n, 2>>,
           <<n, 0, -1>>, <<n - 1, 0, -1>>, <<n, 1, -1>>} :
     IF sl[3] > 0 THEN sl[1] < sl[2] ELSE sl[2] < sl[1]}
  \cup (IF n \in {2, 4} THEN {<<0, -1, 1>>, <<-1, 0, -1>>} ELSE {})

\* All of a dimension but its last element, counted from the back; every third
\* element of a dimension.
MCBack(n) == IF n > 1 THEN {<<0, n, 1>>, <<0, -1, 1>>} ELSE {}
MCThird(n) == IF n > 0 THEN {<<0, n, 1>>, <<0, n, 3>>} ELSE {}
=============================================================================
