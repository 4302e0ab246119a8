------------------------------ MODULE MCFreeList ------------------------------
EXTENDS FreeList

\* A block of data all of whose words look like the address of a data block.
MCContents == {[i \in Slot |-> FirstData]}
=============================================================================
