------------------------------ MODULE FileStore ------------------------------
(***************************************************************************)
(* What the i-list and the block allocator together promise: each block is *)
(* free, belongs to one inode or is lost for good; it is lost only where   *)
(* another one takes its place; and removing an inode returns all its      *)
(* blocks at once, or it is not removed.  Which inodes count as live is up *)
(* to the metadata that callers store, save that the root always does.     *)
(***************************************************************************)
CONSTANTS Blocks, Inodes, Root

VARIABLES
  free,   \* the blocks no inode has
  live,   \* the inodes in use
  blocks  \* the blocks of each inode

storeVars == <<free, live, blocks>>

Init ==
  /\ free \in SUBSET Blocks
  /\ live = {Root}
  /\ blocks = [n \in Inodes |-> {}]

\* An inode is created, or stored as live or not; its blocks stay.
Mark(n, l) ==
  /\ n # Root
  /\ live' = IF l THEN live \cup {n} ELSE live \ {n}
  /\ UNCHANGED <<free, blocks>>

Grow(n, b) ==
  /\ b \in free
  /\ free' = free \ {b}
  /\ blocks' = [blocks EXCEPT ![n] = @ \cup {b}]
  /\ UNCHANGED live

\* The block old of n is neither free nor anybody's from now on.
Replace(n, old, b) ==
  /\ old \in blocks[n]
  /\ b \in free
  /\ free' = free \ {b}
  /\ blocks' = [blocks EXCEPT ![n] = (@ \ {old}) \cup {b}]
  /\ UNCHANGED live

\* A store with no free block takes none back, as BlockPool's does not.
Remove(n) ==
  /\ n # Root
  /\ blocks[n] # {} => free # {}
  /\ free' = free \cup blocks[n]
  /\ blocks' = [blocks EXCEPT ![n] = {}]
  /\ live' = live \ {n}

Next ==
  \E n \in Inodes :
    \/ \E l \in BOOLEAN : Mark(n, l)
    \/ \E b \in Blocks : Grow(n, b)
    \/ \E old, b \in Blocks : Replace(n, old, b)
    \/ Remove(n)

Spec == Init /\ [][Next]_storeVars
=============================================================================
