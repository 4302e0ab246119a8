------------------------------- MODULE MCFiles -------------------------------
EXTENDS Files, TLC

CONSTANTS h1, h2

\* Words that look like the addresses of data blocks.
MCData == {FirstData, FirstData + 1}
MCOneData == {FirstData}
\* A block, one across two, and the last direct one, which leaves a hole in a
\* file of at most one; with two words, all stay in the direct blocks.
MCHoles == {0, 1, (DIRECT - 1) * SLOTS}
MCOffsets == 0 .. (DIRECT * SLOTS - 1)

\* Callers are alike.
Symmetry == Permutations(Handles)
=============================================================================
