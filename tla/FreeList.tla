------------------------------- MODULE FreeList -------------------------------
(***************************************************************************)
(* The block allocator as callers use it: a formatted partition, on which  *)
(* alloc_block and free_block are called in any order, and the blocks      *)
(* handed out are written with arbitrary data.  Each call of the code runs *)
(* to completion before the next one starts (there is one thread and no    *)
(* lock in src/), so each is one action.                                   *)
(***************************************************************************)
EXTENDS FreeListOps

CONSTANT DataContents \* what a caller may write into a block it holds

ASSUME ContentsAssumption == DataContents \subseteq Block

VARIABLES
  fs,        \* the superblock's free_head and the data blocks
  allocated, \* ghost: the blocks handed out and not given back
  last       \* ghost: the last call and what it returned

vars == <<fs, allocated, last>>

Call == [call : {"init_fs", "alloc_block", "free_block"}, ret : Int]

TypeOK ==
  /\ fs \in FreeListState
  /\ allocated \in SUBSET DataBlocks
  /\ last \in Call

Init ==
  /\ fs = InitFs
  /\ allocated = {}
  /\ last = [call |-> "init_fs", ret |-> 0]

Alloc ==
  LET r == AllocBlock(fs)
  IN  /\ fs' = r.fs
      /\ allocated' = allocated \cup ({r.ret} \ {-1})
      /\ last' = [call |-> "alloc_block", ret |-> r.ret]

\* Callers give back what they were handed, once.
Free(b) ==
  LET r == FreeBlock(fs, b)
  IN  /\ b \in allocated
      /\ fs' = r.fs
      /\ allocated' = IF r.ret = 0 THEN allocated \ {b} ELSE allocated
      /\ last' = [call |-> "free_block", ret |-> r.ret]

\* write_to_block on a block the caller holds.
WriteData(b, c) ==
  /\ b \in allocated
  /\ fs' = [fs EXCEPT !.disk[b] = c]
  /\ UNCHANGED <<allocated, last>>

Next ==
  \/ Alloc
  \/ \E b \in DataBlocks : Free(b)
  \/ \E b \in DataBlocks, c \in DataContents : WriteData(b, c)

Spec == Init /\ [][Next]_vars

\* A caller that wants a block keeps calling alloc_block.
RetryingSpec == Spec /\ WF_vars(Alloc)

-----------------------------------------------------------------------------
(* Safety *)

\* A block a caller holds is nowhere on the free list, so that alloc_block
\* cannot hand it out a second time.
AllocatedNotFree == allocated \cap FreeBlocks(fs) = {}

\* No block is on the list twice, so that two calls of alloc_block cannot
\* return the same one.
ListedOnce == EachListedOnce(fs)

\* read_free_list's walk from the head visits each node once and stops at a
\* null link.
ListIsChain == LinksFormChain(fs)

\* What a block holds changes, as long as a caller holds it, only by the
\* caller's own writes: no call about other blocks writes into it.
HeldDataKept ==
  [][\A b \in allocated \cap allocated' :
       fs'.disk[b] = fs.disk[b] \/ \E c \in DataContents : WriteData(b, c)]_vars

\* The allocator implements the abstract pool of blocks: in particular no call
\* loses a block or invents one.
Pool == INSTANCE BlockPool WITH Blocks <- DataBlocks, free <- FreeBlocks(fs)
PoolSpec == Pool!Spec

-----------------------------------------------------------------------------
(* Liveness *)

FailedAlloc == last = [call |-> "alloc_block", ret |-> -1]

\* alloc_block may return -1 for a filler entry while blocks are free, but a
\* caller that repeats the call is given a block.
RetrySucceeds ==
  FailedAlloc /\ FreeBlocks(fs) # {}
    ~> last.call = "alloc_block" /\ last.ret # -1

-----------------------------------------------------------------------------
(* What comments and documentation say and the code does not do *)

\* data_structs.cpp:18: the free list head is a valid block address or -1.
HeadIsBlockOrNull == fs.free_head \in DataBlocks \cup {Null}
=============================================================================
