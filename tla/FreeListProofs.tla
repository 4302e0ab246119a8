---------------------------- MODULE FreeListProofs ----------------------------
(***************************************************************************)
(* Theorems about FreeList, for every partition, block size, i-list and    *)
(* data area whose last node links to nothing (LinkedGeometry; the run     *)
(* MCShort shows what happens without it).                                 *)
(***************************************************************************)
EXTENDS FreeList, FreeListOpsProofs

(***************************************************************************)
(* The inductive invariant: the list is well formed, and what callers hold *)
(* is not on it.  Neither half is inductive alone: giving back a block     *)
(* keeps the list free of duplicates only because the block is not on it,  *)
(* and the block alloc_block hands out is nobody's only because it was on  *)
(* the list, once.                                                         *)
(***************************************************************************)
IInv ==
  /\ WellFormed(fs)
  /\ allocated \in SUBSET DataBlocks
  /\ last \in Call
  /\ AllocatedNotFree

\* init_fs establishes the invariant.
LEMMA InitIInv == LinkedGeometry /\ Init => IInv
BY InitWellFormed DEF Init, IInv, Call, AllocatedNotFree

\* Each call, by its contract, keeps the invariant and is a step of the pool.
LEMMA AllocStep ==
  ASSUME IInv, Alloc
  PROVE  IInv' /\ (Pool!Next \/ UNCHANGED Pool!poolVars)
<1> DEFINE r == AllocBlock(fs)
<1>1. /\ fs' = r.fs
      /\ allocated' = allocated \cup ({r.ret} \ {-1})
      /\ last' = [call |-> "alloc_block", ret |-> r.ret]
  BY DEF Alloc
<1>2. /\ WellFormed(r.fs)
      /\ \/ r.ret = Null /\ FreeBlocks(r.fs) = FreeBlocks(fs)
         \/ r.ret \in FreeBlocks(fs) /\ FreeBlocks(r.fs) = FreeBlocks(fs) \ {r.ret}
  BY AllocContract DEF IInv
<1> HIDE DEF r
<1>3. FreeBlocks(fs) \subseteq DataBlocks
  BY FreeBlocksAreData DEF IInv
<1>4. CASE r.ret = Null /\ FreeBlocks(r.fs) = FreeBlocks(fs)
  <2>1. allocated' = allocated /\ FreeBlocks(fs)' = FreeBlocks(fs)
    BY <1>1, <1>4 DEF Null
  <2>2. IInv'
    BY <1>1, <1>2, <1>4, <2>1 DEF IInv, Call, AllocatedNotFree, Null
  <2> QED BY <2>1, <2>2 DEF Pool!poolVars
<1>5. CASE r.ret \in FreeBlocks(fs) /\ FreeBlocks(r.fs) = FreeBlocks(fs) \ {r.ret}
  <2>1. r.ret \in DataBlocks /\ r.ret \in Nat /\ r.ret # -1
    BY <1>3, <1>5, DataBlocksPositive DEF Null
  <2>2. allocated' = allocated \cup {r.ret}
        /\ FreeBlocks(fs)' = FreeBlocks(fs) \ {r.ret}
    BY <1>1, <1>5, <2>1
  <2>3. last' \in Call
    BY <1>1, <2>1 DEF Call
  <2>4. IInv'
    BY <1>1, <1>2, <2>1, <2>2, <2>3 DEF IInv, AllocatedNotFree
  <2>5. Pool!Acquire(r.ret)
    BY <1>5, <2>2 DEF Pool!Acquire
  <2> QED BY <2>1, <2>4, <2>5 DEF Pool!Next
<1> QED BY <1>2, <1>4, <1>5

\* free_block of a held block keeps it, and is a release or refused.
LEMMA FreeStep ==
  ASSUME IInv, NEW b \in DataBlocks, Free(b)
  PROVE  IInv' /\ (Pool!Next \/ UNCHANGED Pool!poolVars)
<1> DEFINE r == FreeBlock(fs, b)
<1>1. /\ b \in allocated
      /\ fs' = r.fs
      /\ allocated' = IF r.ret = 0 THEN allocated \ {b} ELSE allocated
      /\ last' = [call |-> "free_block", ret |-> r.ret]
  BY DEF Free
<1>2. \/ r.ret = -1 /\ r.fs = fs
      \/ /\ r.ret = 0
         /\ WellFormed(r.fs)
         /\ FreeBlocks(fs) # {}
         /\ FreeBlocks(r.fs) = FreeBlocks(fs) \cup {b}
  BY <1>1, FreeContract DEF IInv, AllocatedNotFree
<1> HIDE DEF r
<1>3. last' \in Call
  BY <1>1, <1>2 DEF Call
<1>4. CASE r.ret = -1 /\ r.fs = fs
  <2>1. UNCHANGED <<fs, allocated>>
    BY <1>1, <1>4
  <2> QED BY <1>3, <2>1 DEF IInv, AllocatedNotFree, Pool!poolVars
<1>5. CASE /\ r.ret = 0
           /\ WellFormed(r.fs)
           /\ FreeBlocks(fs) # {}
           /\ FreeBlocks(r.fs) = FreeBlocks(fs) \cup {b}
  <2>1. FreeBlocks(fs)' = FreeBlocks(fs) \cup {b} /\ allocated' = allocated \ {b}
    BY <1>1, <1>5
  <2>2. IInv'
    BY <1>1, <1>3, <1>5, <2>1 DEF IInv, AllocatedNotFree
  <2>3. Pool!Release(b)
    BY <1>1, <1>5, <2>1 DEF Pool!Release
  <2> QED BY <2>2, <2>3 DEF Pool!Next
<1> QED BY <1>2, <1>4, <1>5

\* A caller's write into a block it holds does not reach the list.
LEMMA WriteStep ==
  ASSUME IInv, NEW b \in DataBlocks, NEW c \in DataContents, WriteData(b, c)
  PROVE  IInv' /\ UNCHANGED Pool!poolVars
<1>1. /\ b \in allocated
      /\ fs' = [fs EXCEPT !.disk[b] = c]
      /\ UNCHANGED <<allocated, last>>
  BY DEF WriteData
<1>2. WellFormed(fs') /\ FreeBlocks(fs') = FreeBlocks(fs)
  BY <1>1, WriteContract, ContentsAssumption DEF IInv, AllocatedNotFree
<1> QED BY <1>1, <1>2 DEF IInv, AllocatedNotFree, Pool!poolVars

\* Every step keeps the invariant and is a step of the pool or none.
LEMMA NextStep ==
  ASSUME IInv, [Next]_vars
  PROVE  IInv' /\ (Pool!Next \/ UNCHANGED Pool!poolVars)
<1>1. CASE Alloc
  BY <1>1, AllocStep
<1>2. ASSUME NEW b \in DataBlocks, Free(b)
      PROVE  IInv' /\ (Pool!Next \/ UNCHANGED Pool!poolVars)
  BY <1>2, FreeStep
<1>3. ASSUME NEW b \in DataBlocks, NEW c \in DataContents, WriteData(b, c)
      PROVE  IInv' /\ UNCHANGED Pool!poolVars
  BY <1>3, WriteStep
<1>4. CASE UNCHANGED vars
  BY <1>4 DEF vars, IInv, AllocatedNotFree, Pool!poolVars
<1> QED BY <1>1, <1>2, <1>3, <1>4 DEF Next

\* The invariant holds in every reachable state.
LEMMA Invariance == ASSUME LinkedGeometry PROVE Spec => []IInv
<1>1. Init => IInv
  BY InitIInv
<1>2. IInv /\ [Next]_vars => IInv'
  BY NextStep
<1> QED BY <1>1, <1>2, PTL DEF Spec

-----------------------------------------------------------------------------

\* alloc_block and free_block keep free_head a data block or null and words
\* words, whatever callers write into the blocks they hold.
THEOREM TypeCorrect == ASSUME LinkedGeometry PROVE Spec => []TypeOK
<1>1. IInv => TypeOK
  BY DEF IInv, TypeOK, WellFormed
<1> QED BY <1>1, Invariance, PTL

\* No block a caller holds is on the free list.
THEOREM NeverSharesBlocks == ASSUME LinkedGeometry PROVE Spec => []AllocatedNotFree
<1>1. IInv => AllocatedNotFree
  BY DEF IInv
<1> QED BY <1>1, Invariance, PTL

\* No block is on the free list twice.
THEOREM NeverListsTwice == ASSUME LinkedGeometry PROVE Spec => []ListedOnce
<1>1. IInv => ListedOnce
  BY DEF IInv, WellFormed, ListedOnce
<1> QED BY <1>1, Invariance, PTL

\* The nodes always form one chain that ends in a null link.
THEOREM StaysChain == ASSUME LinkedGeometry PROVE Spec => []ListIsChain
<1>1. IInv => ListIsChain
  BY DEF IInv, WellFormed, ListIsChain
<1> QED BY <1>1, Invariance, PTL

\* While a caller holds a block, only its own writes change the contents.
THEOREM KeepsHeldData == ASSUME LinkedGeometry PROVE Spec => HeldDataKept
<1> DEFINE Kept == \A b \in allocated \cap allocated' :
             fs'.disk[b] = fs.disk[b] \/ \E c \in DataContents : WriteData(b, c)
<1>1. IInv /\ Alloc => Kept
  BY AllocContract DEF IInv, AllocatedNotFree, Alloc
<1>2. ASSUME IInv, NEW b \in DataBlocks, Free(b) PROVE Kept
  <2>1. b \in DataBlocks \ FreeBlocks(fs)
    BY <1>2 DEF IInv, AllocatedNotFree, Free
  <2>2. fs' = fs \/ (/\ allocated' = allocated \ {b}
                    /\ \A d \in DataBlocks \ (FreeBlocks(fs) \cup {b}) :
                         fs'.disk[d] = fs.disk[d])
    BY <1>2, <2>1, FreeContract DEF IInv, Free
  <2> QED BY <1>2, <2>2 DEF IInv, AllocatedNotFree
<1>3. ASSUME IInv, NEW b \in DataBlocks, NEW c \in DataContents, WriteData(b, c)
      PROVE  Kept
  <2>1. \A d \in DataBlocks \ {b} : fs'.disk[d] = fs.disk[d]
    BY <1>3 DEF WriteData, IInv, WellFormed, FreeListState
  <2> QED BY <1>3, <2>1 DEF IInv
<1>4. IInv /\ [Next]_vars => [Kept]_vars
  BY <1>1, <1>2, <1>3 DEF Next
<1> QED BY <1>4, Invariance, PTL DEF Spec, HeldDataKept

\* The allocator implements the abstract pool of blocks.
THEOREM ImplementsPool == ASSUME LinkedGeometry PROVE Spec => PoolSpec
<1>1. Init => Pool!Init
  <2>1. ASSUME Init PROVE FreeBlocks(fs) \in SUBSET DataBlocks /\ allocated = {}
    BY <2>1, InitIInv, FreeBlocksAreData DEF IInv, Init
  <2> QED BY <2>1 DEF Pool!Init
<1>2. IInv /\ [Next]_vars => [Pool!Next]_(Pool!poolVars)
  BY NextStep
<1> QED BY <1>1, <1>2, Invariance, PTL DEF Spec, PoolSpec, Pool!Spec
=============================================================================
