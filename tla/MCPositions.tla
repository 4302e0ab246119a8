----------------------------- MODULE MCPositions ------------------------------
EXTENDS Positions

\* One start in each 4 MB, of all that an int can say.
MCStarts == {k * 4194304 : k \in 0 .. 511}
=============================================================================
