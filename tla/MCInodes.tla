------------------------------- MODULE MCInodes -------------------------------
EXTENDS Inodes

\* Data whose words look like the address of a data block.
MCContents == {[i \in Slot |-> FirstData]}

MCDirect == DirectIdx
MCWithIndirect == 0 .. DIRECT
MCWithDouble == {0, DIRECT + 1}

\* What write stores and, with is_allocated unset, my_mkdir.
MCMData ==
  { [is_allocated |-> TRUE, file_type |-> REG_FILE, file_size |-> 2],
    [is_allocated |-> FALSE, file_type |-> DIR, file_size |-> 2] }

MCFileTypes == {REG_FILE, SPEC_FILE + 1}
MCDirTypes == {DIR, SPEC_FILE + 1}
=============================================================================
