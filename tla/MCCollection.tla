---------------------------- MODULE MCCollection ----------------------------
EXTENDS Collection
CONSTANTS A, B, D, label1, label2

MCColls == {A, B}
MCData == {D}
\* A may contain B and D, and B one of A and D.
MCEntries == {<<A, label1, B>>, <<A, label2, D>>, <<B, label1, D>>, <<B, label1, A>>}
MCSources == {{A, B}, {D}}

\* The run ends where a reference has been stolen.
NothingStolen == ~m.stolen
=============================================================================
