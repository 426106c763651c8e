------------------------------ MODULE MCInfix -------------------------------
EXTENDS InfixMeaning

MCValues == {0, 1, 2}
\* Operators of four precedences.
MCUsed == {"<", "-", "/", "^"}
=============================================================================
