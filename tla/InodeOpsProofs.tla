--------------------------- MODULE InodeOpsProofs ----------------------------
(***************************************************************************)
(* Facts about the operators of InodeOps that the proofs about the i-list, *)
(* files and directories share.                                            *)
(***************************************************************************)
EXTENDS InodeOps, FreeListOpsProofs

\* Inode numbers are naturals, and there is a root inode.
LEMMA InodeNumFacts ==
  /\ InodeNum \subseteq Nat
  /\ ROOT_INODE_NUM \in InodeNum
<1>1. INODES_PER_BLOCK * I_LIST_SIZE \in Nat \ {0}
  BY InodeAssumption, GeometryAssumption
<1> QED BY <1>1 DEF InodeNum, ROOT_INODE_NUM

\* Address indices are naturals, the direct ones first.
LEMMA AddrIdxFacts ==
  /\ AddrIdx \subseteq Nat
  /\ DirectIdx \subseteq AddrIdx
  /\ INODE_BLOCKS \in Nat
  /\ NoBlocks \in [AddrIdx -> Int]
BY InodeAssumption DEF AddrIdx, DirectIdx, INODE_BLOCKS, NoBlocks

\* What free_inode writes is an inode.
LEMMA ClearedIsInode == ClearedInode \in Inode
BY AddrIdxFacts DEF ClearedInode, Inode, MData, EMPTY, SPEC_FILE

\* The same of the whole i-list that init_fs writes.
LEMMA InitIListType == InitIList \in IList
BY AddrIdxFacts, InodeNumFacts
   DEF InitIList, IList, Inode, MData, EMPTY, DIR, SPEC_FILE

\* A number that alloc_inode returns is that of the least unallocated inode.
LEMMA LeastUnallocated ==
  ASSUME NEW il, Unallocated(il) # {}
  PROVE  /\ Least(Unallocated(il)) \in Unallocated(il)
         /\ Least(Unallocated(il)) \in InodeNum
<1>1. Unallocated(il) \in SUBSET Nat
  BY InodeNumFacts DEF Unallocated
<1>2. \E m \in Unallocated(il) : \A k \in Unallocated(il) : m <= k
  BY <1>1, LeastExists
<1>3. Least(Unallocated(il)) \in Unallocated(il)
  BY <1>2 DEF Least
<1> QED BY <1>3 DEF Unallocated

\* An inode's metadata stored in the i-list.
MDataStored(il, n, m) == [il EXCEPT ![n].m_data = m]

\* What alloc_inode returns, and leaves: nothing changed, or the metadata of one
\* unallocated inode, whose number it returns.
InodeTaken(r, il, t) ==
  \/ r.ret < 0 /\ r.ilist = il
  \/ /\ r.ret \in Unallocated(il)
     /\ r.ret \in InodeNum
     /\ t \in REG_FILE .. SPEC_FILE
     /\ \E m \in MData :
          /\ m.is_allocated = TRUE
          /\ m.file_type = t
          /\ r.ilist = MDataStored(il, r.ret, m)

\* These are all the cases.
LEMMA AllocInodeContract ==
  ASSUME NEW il \in IList, NEW t
  PROVE  InodeTaken(AllocInode(il, t), il, t)
<1> DEFINE n == Least(Unallocated(il))
           m == [il[n].m_data EXCEPT !.is_allocated = TRUE, !.file_type = t]
<1>1. CASE t \notin REG_FILE .. SPEC_FILE
  BY <1>1 DEF AllocInode, InodeTaken
<1>2. CASE t \in REG_FILE .. SPEC_FILE /\ Unallocated(il) = {}
  BY <1>2 DEF AllocInode, InodeTaken
<1>3. CASE t \in REG_FILE .. SPEC_FILE /\ Unallocated(il) # {}
  <2>1. n \in Unallocated(il) /\ n \in InodeNum
    BY <1>3, LeastUnallocated
  <2>2. il[n] \in Inode /\ il[n].m_data \in MData
    BY <2>1 DEF IList, Inode
  <2>3. t \in EMPTY .. SPEC_FILE
    BY <1>3 DEF REG_FILE, SPEC_FILE, EMPTY
  <2>4. m \in MData /\ m.is_allocated = TRUE /\ m.file_type = t
    BY <2>2, <2>3 DEF MData
  <2>5. /\ AllocInode(il, t).ret = n
        /\ AllocInode(il, t).ilist = MDataStored(il, n, m)
    BY <1>3, <2>1, <2>2 DEF AllocInode, MDataStored, IList, Inode, MData
  <2> HIDE DEF n, m
  <2> QED BY <1>3, <2>1, <2>4, <2>5 DEF InodeTaken
<1> QED BY <1>1, <1>2, <1>3

\* Its results are numbers.
LEMMA AllocInodeReturns == ASSUME NEW il, NEW t PROVE AllocInode(il, t).ret \in Int
<1> DEFINE n == Least(Unallocated(il))
<1>1. Unallocated(il) # {} => n \in Int
  <2> SUFFICES ASSUME Unallocated(il) # {} PROVE n \in Int
    OBVIOUS
  <2>1. n \in InodeNum
    BY LeastUnallocated
  <2> HIDE DEF n
  <2>2. n \in Nat
    BY <2>1, InodeNumFacts
  <2> QED BY <2>2
<1>2. \/ AllocInode(il, t).ret \in {-1, -2}
      \/ Unallocated(il) # {} /\ AllocInode(il, t).ret = n
  BY DEF AllocInode
<1> HIDE DEF n
<1> QED BY <1>1, <1>2

\* With a direct address, or none, free_inode does what free_block does.
LEMMA FreeAddrDirect ==
  ASSUME NEW s, NEW i \in AddrIdx, NEW b, i \notin DirectIdx => b = 0
  PROVE  FreeAddr(s, i, b) = FreeBlock(s, b)
<1>1. DIRECT \in Nat /\ AddrIdx = 0 .. (DIRECT + 2) /\ DirectIdx = 0 .. (DIRECT - 1)
  BY InodeAssumption DEF AddrIdx, INODE_BLOCKS, DirectIdx
<1>2. CASE i < DIRECT
  BY <1>1, <1>2 DEF FreeAddr
<1>3. CASE ~ (i < DIRECT)
  <2>1. b = 0 /\ i \in {DIRECT, DIRECT + 1, DIRECT + 2}
    BY <1>1, <1>3
  <2>2. FreeBlock(s, b) = Nothing(s)
    BY <2>1 DEF FreeBlock, Nothing
  <2>3. /\ FreeIndBlock(s, b) = Nothing(s)
        /\ FreeDIndBlock(s, b) = Nothing(s)
        /\ FreeTIndBlock(s, b) = Nothing(s)
    <3>1. NoBlockAt(b)
      BY <2>1, GeometryAssumption DEF NoBlockAt, DataBlocks, FirstData
    <3> QED BY <3>1 DEF FreeIndBlock, FreeDIndBlock, FreeTIndBlock, FreeTree
  <2>4. i = DIRECT => FreeAddr(s, i, b) = FreeIndBlock(s, b)
    BY <1>1 DEF FreeAddr
  <2>5. i = DIRECT + 1 => FreeAddr(s, i, b) = FreeDIndBlock(s, b)
    BY <1>1 DEF FreeAddr
  <2>6. i = DIRECT + 2 => FreeAddr(s, i, b) = FreeTIndBlock(s, b)
    BY <1>1 DEF FreeAddr
  <2> QED BY <2>1, <2>2, <2>3, <2>4, <2>5, <2>6
<1> QED BY <1>2, <1>3
=============================================================================
