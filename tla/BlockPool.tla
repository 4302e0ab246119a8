------------------------------ MODULE BlockPool ------------------------------
(***************************************************************************)
(* What the block allocator of src/layer1/data_structs.cpp promises its    *)
(* callers, whatever the shape of its list: a block is handed out at most  *)
(* once until it is given back, only blocks handed out are given back, and *)
(* no block appears or disappears.  A pool with no free block takes none   *)
(* back either: free_block refuses then.                                   *)
(***************************************************************************)
CONSTANT Blocks

VARIABLES
  free,      \* the blocks a caller may still be given
  allocated  \* the blocks callers hold

poolVars == <<free, allocated>>

Init ==
  /\ free \in SUBSET Blocks
  /\ allocated = {}

Acquire(b) ==
  /\ b \in free
  /\ free' = free \ {b}
  /\ allocated' = allocated \cup {b}

Release(b) ==
  /\ b \in allocated
  /\ free # {}
  /\ free' = free \cup {b}
  /\ allocated' = allocated \ {b}

Next == \E b \in Blocks : Acquire(b) \/ Release(b)

Spec == Init /\ [][Next]_poolVars
=============================================================================
