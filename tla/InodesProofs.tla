---------------------------- MODULE InodesProofs ----------------------------
(***************************************************************************)
(* Theorems about Inodes, for every geometry whose last node links to      *)
(* nothing and callers whose files stay within the direct addresses (the   *)
(* runs stale and tree show what the indirect ones do).  What the free     *)
(* list does is used through the contracts of FreeListOpsProofs.           *)
(***************************************************************************)
EXTENDS Inodes, InodeOpsProofs

DirectFiles == FileIdx \subseteq DirectIdx

(***************************************************************************)
(* The inductive invariant.  GivenBackIsFree says what free_inode leaves   *)
(* behind while it runs: the blocks dealt with are on the free list, and   *)
(* because the list had a block of its own to begin with, so does the rest *)
(* of it; hence a free_block that fails is the first one of its            *)
(* free_inode to be asked for anything, and nothing has been given back.   *)
(***************************************************************************)
AddrsAreData ==
  \A n \in InodeNum, i \in AddrIdx :
    /\ Addr(n, i) \in DataBlocks \cup {0}
    /\ i \notin DirectIdx => Addr(n, i) = 0

GivenBackIsFree ==
  \A n \in InodeNum, i \in AddrIdx :
    Addr(n, i) # 0 /\ GivenBack(n, i) =>
      /\ Addr(n, i) \in FreeBlocks(fs)
      /\ FreeBlocks(fs) \ Owned # {}

RootLives == ilist[ROOT_INODE_NUM].m_data.is_allocated

IInv ==
  /\ TypeOK
  /\ WellFormed(fs)
  /\ AddrsAreData
  /\ HeldNotFree
  /\ OneOwner
  /\ RootLives
  /\ GivenBackIsFree

\* init_fs establishes the invariant.
LEMMA InitIInv == ASSUME LinkedGeometry, Init PROVE IInv
<1>1. WellFormed(fs)
  BY InitWellFormed DEF Init
<1>2. fs \in FreeListState
  BY <1>1 DEF WellFormed
<1>3. ilist \in IList
  BY InitIListType DEF Init
<1>4. TypeOK
  BY <1>2, <1>3 DEF TypeOK, Init
<1>5. \A n \in InodeNum, i \in AddrIdx : Addr(n, i) = 0
  BY DEF Init, InitIList, NoBlocks, Addr
<1>6. RootLives
  BY InodeNumFacts DEF Init, InitIList, RootLives
<1> QED BY <1>1, <1>4, <1>5, <1>6
        DEF IInv, AddrsAreData, HeldNotFree, OneOwner, GivenBackIsFree

-----------------------------------------------------------------------------
(* Each action keeps the invariant.  Steps that leave fs or the addresses  *)
(* alone are dispatched by a lemma of their own.                           *)

\* Only the metadata of an inode changes, and the root stays allocated.
LEMMA MDataStep ==
  ASSUME IInv, call = Idle, NEW n \in InodeNum, NEW m \in MData,
         n = ROOT_INODE_NUM => m.is_allocated,
         UNCHANGED <<fs, call>>,
         ilist' = [ilist EXCEPT ![n].m_data = m]
  PROVE  IInv'
<1>1. ilist \in IList
  BY DEF IInv, TypeOK
<1>2. ilist[n] \in [m_data : MData, block_addrs : [AddrIdx -> Int]]
  BY <1>1 DEF IList, Inode
<1>3. ilist' \in IList
  BY <1>1, <1>2 DEF IList, Inode
<1>4. \A k \in InodeNum :
        /\ ilist'[k].block_addrs = ilist[k].block_addrs
        /\ ilist'[k].m_data = IF k = n THEN m ELSE ilist[k].m_data
  BY <1>1, <1>2 DEF IList, Inode
<1>5. \A k \in InodeNum, i \in AddrIdx : Addr(k, i)' = Addr(k, i)
  BY <1>4 DEF Addr
<1>6. \A k, i : GivenBack(k, i)' = GivenBack(k, i)
  BY DEF GivenBack
<1>7. RootLives'
  BY <1>4, InodeNumFacts DEF IInv, RootLives
<1>8. \A k \in InodeNum, i \in AddrIdx : ~ GivenBack(k, i)
  BY InodeNumFacts DEF GivenBack, Idle
<1>9. TypeOK' /\ WellFormed(fs')
  BY <1>3 DEF IInv, TypeOK
<1>10. AddrsAreData' /\ OneOwner' /\ HeldNotFree' /\ GivenBackIsFree'
  BY <1>5, <1>6, <1>8 DEF IInv, AddrsAreData, OneOwner, HeldNotFree, GivenBackIsFree
<1> QED BY <1>7, <1>9, <1>10 DEF IInv

\* alloc_inode changes nothing, or the metadata of one unallocated inode.
LEMMA AllocateInodeStep ==
  ASSUME IInv, NEW t \in FileTypes, AllocateInode(t)
  PROVE  IInv' /\ \/ UNCHANGED vars
                  \/ \E n \in Unallocated(ilist), m \in MData :
                       /\ m.is_allocated
                       /\ UNCHANGED <<fs, call>>
                       /\ ilist' = [ilist EXCEPT ![n].m_data = m]
<1> DEFINE r == AllocInode(ilist, t)
<1>1. call = Idle /\ UNCHANGED <<fs, call>> /\ ilist' = r.ilist
  BY DEF AllocateInode
<1>2. ilist \in IList
  BY DEF IInv, TypeOK
<1> HIDE DEF r
<1>3. \/ r.ilist = ilist
      \/ /\ r.ret \in Unallocated(ilist)
         /\ \E m \in MData : m.is_allocated = TRUE /\ r.ilist = MDataStored(ilist, r.ret, m)
  <2>1. InodeTaken(r, ilist, t)
    BY <1>2, AllocInodeContract DEF r
  <2> QED BY <2>1, Zenon DEF InodeTaken
<1>4. CASE r.ilist = ilist
  <2>1. UNCHANGED vars
    BY <1>1, <1>4 DEF vars
  <2>2. IInv'
    BY <2>1 DEF vars, IInv, TypeOK, AddrsAreData, OneOwner, HeldNotFree,
                GivenBackIsFree, RootLives, Addr, GivenBack,
                Owned, BlocksOf
  <2> QED BY <2>1, <2>2
<1>5. ASSUME NEW n \in Unallocated(ilist), NEW m \in MData, m.is_allocated,
             r.ilist = MDataStored(ilist, n, m)
      PROVE  IInv' /\ UNCHANGED <<fs, call>> /\ ilist' = [ilist EXCEPT ![n].m_data = m]
  BY <1>1, <1>5, MDataStep DEF Unallocated, MDataStored
<1> QED BY <1>3, <1>4, <1>5

\* Entering free_inode's loop: nothing is given back yet.
LEMMA FreeInodeStartStep ==
  ASSUME IInv, NEW n \in InodeNum \ {ROOT_INODE_NUM}, FreeInodeStart(n)
  PROVE  IInv'
<1>1. call = Idle /\ call' = [n |-> n, i |-> 0] /\ UNCHANGED <<fs, ilist>>
  BY DEF FreeInodeStart
<1>2. \A k \in InodeNum, i \in AddrIdx : ~ GivenBack(k, i) /\ ~ GivenBack(k, i)'
  BY <1>1, InodeNumFacts, AddrIdxFacts DEF GivenBack, Idle
<1>3. TypeOK'
  BY <1>1, AddrIdxFacts DEF IInv, TypeOK
<1> QED BY <1>1, <1>2, <1>3
        DEF IInv, AddrsAreData, HeldNotFree, OneOwner, RootLives, GivenBackIsFree, Addr

\* One address: given back, or refused with nothing given back before.
LEMMA FreeInodeAddrStep ==
  ASSUME DirectFiles, IInv, FreeInodeAddr
  PROVE  IInv' /\ FreeBlocks(fs)' \ Owned = FreeBlocks(fs) \ Owned
<1> DEFINE b == Addr(call.n, call.i)
           r == FreeBlock(fs, b)
<1>1. call \in [n : InodeNum \ {ROOT_INODE_NUM}, i : 0 .. INODE_BLOCKS] /\ call.i \in AddrIdx
      /\ call.n \in InodeNum
  BY AddrIdxFacts DEF IInv, TypeOK, FreeInodeAddr, AddrIdx
<1>2. FreeAddr(fs, call.i, b) = r
  BY <1>1, FreeAddrDirect DEF IInv, AddrsAreData
<1>3. /\ fs' = r.fs
      /\ call' = IF r.ret = 0 THEN [call EXCEPT !.i = @ + 1] ELSE Idle
      /\ UNCHANGED ilist
  BY <1>2 DEF FreeInodeAddr, Addr
<1>4. \A k, i : Addr(k, i)' = Addr(k, i)
  BY <1>3 DEF Addr
<1>5. Owned' = Owned
  BY <1>4 DEF Owned, BlocksOf
<1>6. ilist' \in IList /\ AddrsAreData' /\ OneOwner' /\ RootLives'
  BY <1>3, <1>4 DEF IInv, TypeOK, AddrsAreData, OneOwner, RootLives
<1>7. b \in DataBlocks \cup {0} /\ (b # 0 => b \in Owned /\ b \notin FreeBlocks(fs))
  <2>1. ~ GivenBack(call.n, call.i)
    BY <1>1, AddrIdxFacts DEF GivenBack
  <2> QED BY <1>1, <2>1 DEF IInv, AddrsAreData, HeldNotFree, Owned, BlocksOf
<1>8. call.i + 1 \in 0 .. INODE_BLOCKS /\ call.i + 1 \in Nat
  BY <1>1, AddrIdxFacts DEF AddrIdx
<1>9. CASE r.ret = -1 /\ r.fs = fs /\ FreeBlocks(fs) = {}
  <2>1. call' = Idle /\ fs' = fs
    BY <1>3, <1>9
  <2>2. \A k \in InodeNum, i \in AddrIdx : ~ GivenBack(k, i)'
    BY <2>1, InodeNumFacts DEF GivenBack, Idle
  <2>3. TypeOK' /\ WellFormed(fs)'
    BY <1>6, <2>1 DEF IInv, TypeOK
  <2>4. HeldNotFree' /\ GivenBackIsFree'
    BY <1>9, <2>1, <2>2 DEF HeldNotFree, GivenBackIsFree
  <2> QED BY <1>6, <2>1, <2>3, <2>4 DEF IInv
<1>10. ASSUME r.ret = 0,
              WellFormed(r.fs),
              b # 0 => FreeBlocks(fs) # {},
              FreeBlocks(r.fs) = FreeBlocks(fs) \cup ({b} \ {0})
       PROVE  IInv' /\ FreeBlocks(fs)' \ Owned = FreeBlocks(fs) \ Owned
  <2>1. call' = [call EXCEPT !.i = call.i + 1] /\ fs' = r.fs
    BY <1>3, <1>10
  <2>2. call'.n = call.n /\ call'.i = call.i + 1
        /\ call' \in [n : InodeNum \ {ROOT_INODE_NUM}, i : 0 .. INODE_BLOCKS]
    BY <1>1, <1>8, <2>1
  <2>3. \A k \in InodeNum, i \in AddrIdx :
          GivenBack(k, i)' <=> GivenBack(k, i) \/ (k = call.n /\ i = call.i)
    BY <1>1, <2>2, AddrIdxFacts DEF GivenBack
  <2>4. TypeOK' /\ WellFormed(fs)'
    BY <1>6, <1>10, <2>1, <2>2 DEF TypeOK, WellFormed
  <2>5. FreeBlocks(fs)' = FreeBlocks(fs) \cup ({b} \ {0})
    BY <1>10, <2>1
  <2>6. FreeBlocks(fs)' \ Owned = FreeBlocks(fs) \ Owned
    BY <1>7, <2>5
  <2>7. HeldNotFree'
    <3> SUFFICES ASSUME NEW k \in InodeNum, NEW i \in AddrIdx,
                        Addr(k, i) # 0, ~ GivenBack(k, i)'
                 PROVE  Addr(k, i) \notin FreeBlocks(fs)'
      BY <1>4 DEF HeldNotFree
    <3>1. ~ GivenBack(k, i) /\ ~ (k = call.n /\ i = call.i)
      BY <2>3
    <3>2. Addr(k, i) \notin FreeBlocks(fs)
      BY <3>1 DEF IInv, HeldNotFree
    <3>3. Addr(k, i) # b
      BY <1>1, <3>1 DEF IInv, OneOwner
    <3> QED BY <2>5, <3>2, <3>3
  <2>8. b # 0 => FreeBlocks(fs) \ Owned # {}
    <3>1. CASE \E k \in InodeNum, i \in AddrIdx : Addr(k, i) # 0 /\ GivenBack(k, i)
      BY <3>1 DEF IInv, GivenBackIsFree
    <3>2. CASE ~ \E k \in InodeNum, i \in AddrIdx : Addr(k, i) # 0 /\ GivenBack(k, i)
      <4>1. FreeBlocks(fs) \cap Owned = {}
        BY <3>2 DEF IInv, HeldNotFree, Owned, BlocksOf
      <4> QED BY <1>10, <4>1
    <3> QED BY <3>1, <3>2
  <2>9. GivenBackIsFree'
    <3> SUFFICES ASSUME NEW k \in InodeNum, NEW i \in AddrIdx,
                        Addr(k, i) # 0, GivenBack(k, i)'
                 PROVE  Addr(k, i) \in FreeBlocks(fs)' /\ FreeBlocks(fs)' \ Owned # {}
      BY <1>4, <1>5 DEF GivenBackIsFree
    <3>1. CASE GivenBack(k, i)
      BY <2>5, <2>6, <3>1 DEF IInv, GivenBackIsFree
    <3>2. CASE k = call.n /\ i = call.i
      BY <2>5, <2>6, <2>8, <3>2
    <3> QED BY <2>3, <3>1, <3>2
  <2> QED BY <1>6, <2>4, <2>6, <2>7, <2>9 DEF IInv
<1>11. CASE b = 0
  <2>1. r.ret = 0 /\ r.fs = fs
    BY <1>11 DEF FreeBlock
  <2> QED BY <1>10, <1>11, <2>1 DEF IInv
<1>12. CASE b # 0
  <2>1. \/ r.ret = -1 /\ r.fs = fs /\ FreeBlocks(fs) = {}
        \/ /\ r.ret = 0
           /\ WellFormed(r.fs)
           /\ FreeBlocks(fs) # {}
           /\ FreeBlocks(r.fs) = FreeBlocks(fs) \cup {b}
    BY <1>7, <1>12, FreeContract DEF IInv
  <2> HIDE DEF r, b
  <2> QED BY <1>9, <1>10, <1>12, <2>1
<1> QED BY <1>11, <1>12

\* The end: every block is back on the list, and the inode is cleared.
LEMMA FreeInodeEndStep ==
  ASSUME IInv, FreeInodeEnd
  PROVE  /\ IInv'
         /\ call.n \in InodeNum
         /\ BlocksOf(call.n) \subseteq FreeBlocks(fs)
         /\ BlocksOf(call.n) # {} => FreeBlocks(fs) \ Owned # {}
<1>1. call.n \in InodeNum /\ call.i = INODE_BLOCKS /\ call' = Idle /\ fs' = fs
  BY DEF IInv, TypeOK, FreeInodeEnd
<1>2. \A i \in AddrIdx : GivenBack(call.n, i)
  BY <1>1, AddrIdxFacts DEF GivenBack, AddrIdx
<1>3. ilist \in IList
  BY DEF IInv, TypeOK
<1>4. ClearedInode \in Inode
  BY ClearedIsInode
<1>5. ilist' \in IList
  BY <1>3, <1>4 DEF FreeInodeEnd, IList
<1>6. \A k \in InodeNum :
        ilist'[k] = IF k = call.n THEN ClearedInode ELSE ilist[k]
  BY <1>1, <1>3 DEF FreeInodeEnd, IList
<1>7. \A k \in InodeNum, i \in AddrIdx :
        Addr(k, i)' = IF k = call.n THEN 0 ELSE Addr(k, i)
  BY <1>6 DEF Addr, ClearedInode, NoBlocks
<1>8. \A k \in InodeNum, i \in AddrIdx : ~ GivenBack(k, i)'
  BY <1>1, InodeNumFacts DEF GivenBack, Idle
<1>9. \A k \in InodeNum, i \in AddrIdx : k # call.n => ~ GivenBack(k, i)
  BY DEF GivenBack
<1>10. TypeOK' /\ WellFormed(fs)'
  BY <1>1, <1>5 DEF IInv, TypeOK
<1>11. AddrsAreData' /\ OneOwner'
  BY <1>7 DEF IInv, AddrsAreData, OneOwner
<1>12. HeldNotFree' /\ GivenBackIsFree'
  BY <1>1, <1>7, <1>8, <1>9 DEF IInv, HeldNotFree, GivenBackIsFree
<1>13. RootLives'
  <2>1. call.n # ROOT_INODE_NUM
    BY DEF IInv, TypeOK, FreeInodeEnd
  <2> QED BY <1>6, <2>1, InodeNumFacts DEF IInv, RootLives
<1>14. BlocksOf(call.n) \subseteq FreeBlocks(fs)
       /\ (BlocksOf(call.n) # {} => FreeBlocks(fs) \ Owned # {})
  BY <1>1, <1>2 DEF IInv, GivenBackIsFree, BlocksOf
<1> QED BY <1>1, <1>10, <1>11, <1>12, <1>13, <1>14 DEF IInv

\* While free_inode does not run, no inode names a free block.
LEMMA IdleSeparates ==
  ASSUME IInv, call = Idle
  PROVE  /\ \A n \in InodeNum, i \in AddrIdx : ~ GivenBack(n, i)
         /\ \A n \in InodeNum, i \in AddrIdx :
              Addr(n, i) # 0 => Addr(n, i) \in DataBlocks \ FreeBlocks(fs)
<1>1. \A n \in InodeNum, i \in AddrIdx : ~ GivenBack(n, i)
  BY InodeNumFacts DEF GivenBack, Idle
<1> QED BY <1>1 DEF IInv, HeldNotFree, AddrsAreData

\* A new block goes from the free list to one index of one inode, or the free
\* blocks and the i-list stay as they are.
BlockStored(n, i) ==
  \/ UNCHANGED ilist /\ FreeBlocks(fs)' = FreeBlocks(fs)
  \/ \E b \in FreeBlocks(fs) :
       /\ ilist' = [ilist EXCEPT ![n].block_addrs[i] = b]
       /\ FreeBlocks(fs)' = FreeBlocks(fs) \ {b}

\* What Grow and GiveBlock have in common.
StoresBlock(n, i) ==
  LET r == AllocInt(fs)
  IN  /\ call = Idle
      /\ fs' = r.fs
      /\ ilist' = IF r.ret # -1
                  THEN [ilist EXCEPT ![n].block_addrs[i] = r.ret]
                  ELSE ilist
      /\ call' = Idle \/ (n # ROOT_INODE_NUM /\ call' = [n |-> n, i |-> 0])

\* That is what they do, whatever the address was before, and whether or not
\* free_inode begins for want of a block.
LEMMA StoreBlockStep ==
  ASSUME IInv, NEW n \in InodeNum, NEW i \in DirectIdx, StoresBlock(n, i)
  PROVE  IInv' /\ BlockStored(n, i)
<1> DEFINE r == AllocInt(fs)
<1>1. /\ call = Idle
      /\ fs' = r.fs
      /\ ilist' = IF r.ret # -1
                  THEN [ilist EXCEPT ![n].block_addrs[i] = r.ret]
                  ELSE ilist
      /\ call' = Idle \/ (n # ROOT_INODE_NUM /\ call' = [n |-> n, i |-> 0])
  BY DEF StoresBlock
<1>2. /\ WellFormed(r.fs)
      /\ \/ r.ret = Null /\ FreeBlocks(r.fs) = FreeBlocks(fs)
         \/ r.ret \in FreeBlocks(fs) /\ FreeBlocks(r.fs) = FreeBlocks(fs) \ {r.ret}
  BY AllocIntContract DEF IInv
<1> HIDE DEF r
<1>3. i \in AddrIdx
  BY AddrIdxFacts
<1>4. ilist \in IList /\ TypeOK /\ RootLives
  BY DEF IInv, TypeOK
<1>5. \A k \in InodeNum, j \in AddrIdx : ~ GivenBack(k, j) /\ ~ GivenBack(k, j)'
  <2>1. \A k \in InodeNum, j \in AddrIdx : ~ GivenBack(k, j)
    BY <1>1, IdleSeparates
  <2>2. CASE call' = Idle
    BY <2>1, <2>2, InodeNumFacts DEF GivenBack, Idle
  <2>3. CASE call' = [n |-> n, i |-> 0]
    BY <2>1, <2>3, AddrIdxFacts DEF GivenBack
  <2> QED BY <1>1, <2>2, <2>3
<1>6. call' \in [n : InodeNum \ {ROOT_INODE_NUM}, i : 0 .. INODE_BLOCKS] \cup {Idle}
  BY <1>1, AddrIdxFacts
<1>7. CASE r.ret = Null /\ FreeBlocks(r.fs) = FreeBlocks(fs)
  <2>1. UNCHANGED ilist /\ FreeBlocks(fs)' = FreeBlocks(fs)
    BY <1>1, <1>7 DEF Null
  <2>2. \A k \in InodeNum, j \in AddrIdx : Addr(k, j)' = Addr(k, j)
    BY <2>1 DEF Addr
  <2>3. TypeOK' /\ WellFormed(fs)' /\ RootLives'
    BY <1>1, <1>2, <1>4, <1>6, <2>1 DEF TypeOK, WellFormed, RootLives
  <2>4. AddrsAreData' /\ HeldNotFree' /\ OneOwner' /\ GivenBackIsFree'
    BY <1>5, <2>1, <2>2
       DEF IInv, AddrsAreData, HeldNotFree, OneOwner, GivenBackIsFree
  <2> QED BY <2>1, <2>3, <2>4 DEF IInv, BlockStored
<1>8. CASE r.ret \in FreeBlocks(fs) /\ FreeBlocks(r.fs) = FreeBlocks(fs) \ {r.ret}
  <2>1. r.ret \in DataBlocks /\ r.ret \in Nat /\ r.ret # -1 /\ r.ret # 0
    <3>1. r.ret \in DataBlocks
      BY <1>8, FreeBlocksAreData DEF IInv
    <3> QED BY <3>1, DataBlocksPositive DEF Null, Empty
  <2>2. /\ ilist' = [ilist EXCEPT ![n].block_addrs[i] = r.ret]
        /\ FreeBlocks(fs)' = FreeBlocks(fs) \ {r.ret}
    BY <1>1, <1>8, <2>1
  <2>3. ilist[n] \in [m_data : MData, block_addrs : [AddrIdx -> Int]]
    BY <1>4 DEF IList, Inode
  <2>4. ilist' \in IList
    <3>1. [ilist[n].block_addrs EXCEPT ![i] = r.ret] \in [AddrIdx -> Int]
      BY <1>3, <2>1, <2>3
    <3>2. [ilist[n] EXCEPT !.block_addrs[i] = r.ret] \in Inode
      BY <2>3, <3>1 DEF Inode
    <3> QED BY <1>4, <2>2, <3>2 DEF IList
  <2>5. \A k \in InodeNum, j \in AddrIdx :
          Addr(k, j)' = IF k = n /\ j = i THEN r.ret ELSE Addr(k, j)
    BY <1>3, <1>4, <2>2, <2>3 DEF Addr, IList, Inode
  <2>6. \A k \in InodeNum : ilist'[k].m_data = ilist[k].m_data
    BY <1>4, <2>2, <2>3 DEF IList, Inode
  <2>7. TypeOK' /\ WellFormed(fs)'
    BY <1>1, <1>2, <1>4, <1>6, <2>4 DEF TypeOK, WellFormed
  <2>8. RootLives'
    BY <1>4, <2>6, InodeNumFacts DEF RootLives
  <2>9. \A k \in InodeNum, j \in AddrIdx : Addr(k, j) # r.ret
    BY <1>1, <1>8, <2>1, IdleSeparates
  <2>10. AddrsAreData'
    BY <1>3, <2>1, <2>5 DEF IInv, AddrsAreData
  <2>11. HeldNotFree' /\ GivenBackIsFree'
    BY <1>5, <2>2, <2>5 DEF IInv, HeldNotFree, GivenBackIsFree
  <2>12. OneOwner'
    BY <2>5, <2>9 DEF IInv, OneOwner
  <2>13. BlockStored(n, i)
    BY <1>8, <2>2 DEF BlockStored
  <2> QED BY <2>7, <2>8, <2>10, <2>11, <2>12, <2>13 DEF IInv
<1> QED BY <1>2, <1>7, <1>8

\* translate_pos's way to do it.
LEMMA GrowStep ==
  ASSUME DirectFiles, IInv, NEW n \in InodeNum, NEW i \in FileIdx, Grow(n, i)
  PROVE  IInv' /\ BlockStored(n, i)
<1>1. i \in DirectIdx
  BY DEF DirectFiles
<1>2. StoresBlock(n, i)
  BY Zenon DEF Grow, StoresBlock
<1> QED BY <1>1, <1>2, StoreBlockStep

\* And my_mkdir's.
LEMMA GiveBlockStep ==
  ASSUME IInv, NEW n \in InodeNum \ {ROOT_INODE_NUM}, GiveBlock(n)
  PROVE  IInv' /\ BlockStored(n, 0)
<1>1. 0 \in DirectIdx
  BY InodeAssumption DEF DirectIdx
<1>2. StoresBlock(n, 0)
  BY InodeNumFacts, Zenon DEF GiveBlock, StoresBlock
<1> QED BY <1>1, <1>2, StoreBlockStep

\* What write puts into a block of a file does not reach the free list.
LEMMA WriteDataStep ==
  ASSUME DirectFiles, IInv, NEW n \in InodeNum, NEW i \in FileIdx \cap DirectIdx,
         NEW c \in DataContents, WriteData(n, i, c)
  PROVE  IInv' /\ FreeBlocks(fs)' = FreeBlocks(fs) /\ UNCHANGED <<ilist, call>>
<1>1. /\ call = Idle
      /\ Addr(n, i) # 0
      /\ fs' = [fs EXCEPT !.disk[Addr(n, i)] = c]
      /\ UNCHANGED <<ilist, call>>
  BY DEF WriteData, Addr
<1>2. Addr(n, i) \in DataBlocks \ FreeBlocks(fs)
  BY <1>1, IdleSeparates, AddrIdxFacts
<1>3. WellFormed(fs') /\ FreeBlocks(fs') = FreeBlocks(fs)
  BY <1>1, <1>2, WriteContract, CallersAssumption DEF IInv
<1>4. \A k, j : Addr(k, j)' = Addr(k, j) /\ GivenBack(k, j)' = GivenBack(k, j)
  BY <1>1 DEF Addr, GivenBack
<1>5. Owned' = Owned
  BY <1>4 DEF Owned, BlocksOf
<1>6. TypeOK' /\ RootLives'
  BY <1>1, <1>3 DEF IInv, TypeOK, WellFormed, RootLives
<1>7. AddrsAreData' /\ HeldNotFree' /\ OneOwner' /\ GivenBackIsFree'
  BY <1>3, <1>4, <1>5 DEF IInv, AddrsAreData, HeldNotFree, OneOwner, GivenBackIsFree
<1> QED BY <1>1, <1>3, <1>6, <1>7 DEF IInv

\* Storing metadata leaves the blocks alone.
LEMMA WriteMDataStep ==
  ASSUME IInv, NEW n \in InodeNum \ {ROOT_INODE_NUM}, NEW m \in StoredMData,
         WriteMData(n, m)
  PROVE  IInv' /\ UNCHANGED fs /\ ilist' = [ilist EXCEPT ![n].m_data = m]
<1>1. m \in MData
  BY CallersAssumption
<1> QED BY <1>1, MDataStep DEF WriteMData

\* The invariant is about the variables only.
LEMMA StutterStep == ASSUME IInv, UNCHANGED vars PROVE IInv'
BY DEF vars, IInv, TypeOK, AddrsAreData, OneOwner, HeldNotFree, GivenBackIsFree,
       RootLives, Addr, GivenBack, Owned, BlocksOf

\* Every step keeps the invariant.
LEMMA NextStep == ASSUME DirectFiles, IInv, [Next]_vars PROVE IInv'
<1>1. ASSUME NEW t \in FileTypes, AllocateInode(t) PROVE IInv'
  BY <1>1, AllocateInodeStep
<1>2. ASSUME NEW n \in InodeNum \ {ROOT_INODE_NUM}, FreeInodeStart(n) PROVE IInv'
  BY <1>2, FreeInodeStartStep
<1>3. CASE FreeInodeAddr
  BY <1>3, FreeInodeAddrStep
<1>4. CASE FreeInodeEnd
  BY <1>4, FreeInodeEndStep
<1>5. ASSUME NEW n \in InodeNum, NEW i \in FileIdx, Grow(n, i) PROVE IInv'
  BY <1>5, GrowStep
<1>6. ASSUME NEW n \in InodeNum, NEW i \in FileIdx \cap DirectIdx,
             NEW c \in DataContents, WriteData(n, i, c)
      PROVE  IInv'
  BY <1>6, WriteDataStep
<1>7. ASSUME NEW n \in InodeNum \ {ROOT_INODE_NUM}, NEW m \in StoredMData,
             WriteMData(n, m)
      PROVE  IInv'
  BY <1>7, WriteMDataStep
<1>8. ASSUME NEW n \in InodeNum \ {ROOT_INODE_NUM}, GiveBlock(n) PROVE IInv'
  BY <1>8, GiveBlockStep
<1>9. CASE UNCHANGED vars
  BY <1>9, StutterStep
<1> QED BY <1>1, <1>2, <1>3, <1>4, <1>5, <1>6, <1>7, <1>8, <1>9 DEF Next

\* The invariant holds in every reachable state.
LEMMA Invariance == ASSUME LinkedGeometry, DirectFiles PROVE Spec => []IInv
<1>1. Init => IInv
  BY InitIInv
<1>2. IInv /\ [Next]_vars => IInv'
  BY NextStep
<1> QED BY <1>1, <1>2, PTL DEF Spec

-----------------------------------------------------------------------------

\* The i-list keeps its types: in particular free_inode's loop stays in range.
THEOREM TypeCorrect == ASSUME LinkedGeometry, DirectFiles PROVE Spec => []TypeOK
<1>1. IInv => TypeOK
  BY DEF IInv
<1> QED BY <1>1, Invariance, PTL

\* A block that an inode names is not on the free list, save those free_inode
\* has given back and not yet cleared.
THEOREM FilesKeepBlocks == ASSUME LinkedGeometry, DirectFiles PROVE Spec => []HeldNotFree
<1>1. IInv => HeldNotFree
  BY DEF IInv
<1> QED BY <1>1, Invariance, PTL

\* No two addresses of the i-list are the same block.
THEOREM NoSharedBlocks == ASSUME LinkedGeometry, DirectFiles PROVE Spec => []OneOwner
<1>1. IInv => OneOwner
  BY DEF IInv
<1> QED BY <1>1, Invariance, PTL

-----------------------------------------------------------------------------
(* The refinement of FileStore.  Each lemma matches one kind of step.      *)

Live == {n \in InodeNum : ilist[n].m_data.is_allocated}
Free == FreeBlocks(fs) \ Owned
Blocks == [n \in InodeNum |-> BlocksOf(n)]

StoreStep == Store!Next \/ UNCHANGED <<Free, Live, Blocks>>

\* The same addresses mean the same owners.
LEMMA SameAddrs ==
  ASSUME \A n \in InodeNum, i \in AddrIdx : Addr(n, i)' = Addr(n, i)
  PROVE  Owned' = Owned /\ Blocks' = Blocks
<1>1. \A n \in InodeNum : BlocksOf(n)' = BlocksOf(n)
  BY DEF BlocksOf
<1> QED BY <1>1 DEF Owned, Blocks

\* Metadata that changes may make an inode live, or not, and moves no block.
LEMMA MarkStep ==
  ASSUME ilist \in IList, NEW n \in InodeNum \ {ROOT_INODE_NUM}, NEW m \in MData,
         UNCHANGED fs, ilist' = [ilist EXCEPT ![n].m_data = m]
  PROVE  StoreStep
<1>1. \A k \in InodeNum :
        /\ ilist'[k].block_addrs = ilist[k].block_addrs
        /\ ilist'[k].m_data = IF k = n THEN m ELSE ilist[k].m_data
  BY DEF IList, Inode
<1>2. \A k \in InodeNum, i \in AddrIdx : Addr(k, i)' = Addr(k, i)
  BY <1>1 DEF Addr
<1>3. Owned' = Owned /\ Blocks' = Blocks
  BY <1>2, SameAddrs
<1>4. Free' = Free
  BY <1>3 DEF Free
<1>5. m.is_allocated \in BOOLEAN
  BY DEF MData
<1>6. Live' = IF m.is_allocated THEN Live \cup {n} ELSE Live \ {n}
  BY <1>1, <1>5 DEF Live
<1>7. Store!Mark(n, m.is_allocated)
  BY <1>3, <1>4, <1>6 DEF Store!Mark, Free, Live, Blocks
<1> QED BY <1>5, <1>7 DEF StoreStep, Store!Next

\* alloc_inode that finds an inode makes it live; it is not the root.
LEMMA CreateStep ==
  ASSUME IInv, NEW t \in FileTypes, AllocateInode(t)
  PROVE  StoreStep
<1>1. CASE UNCHANGED vars
  <2>1. \A n, i : Addr(n, i)' = Addr(n, i)
    BY <1>1 DEF vars, Addr
  <2>2. Owned' = Owned /\ Blocks' = Blocks
    BY <2>1, SameAddrs
  <2> QED BY <1>1, <2>2 DEF vars, StoreStep, Free, Live
<1>2. ASSUME NEW n \in Unallocated(ilist), NEW m \in MData, m.is_allocated,
             UNCHANGED <<fs, call>>, ilist' = [ilist EXCEPT ![n].m_data = m]
      PROVE  StoreStep
  <2>1. ilist \in IList /\ n \in InodeNum \ {ROOT_INODE_NUM}
    BY <1>2 DEF IInv, TypeOK, RootLives, Unallocated
  <2> QED BY <1>2, <2>1, MarkStep
<1> QED BY <1>1, <1>2, AllocateInodeStep

\* The inode's loop moves nothing until it ends.
LEMMA LoopStep == ASSUME DirectFiles, IInv, FreeInodeAddr PROVE StoreStep
<1>1. UNCHANGED ilist
  BY DEF FreeInodeAddr
<1>2. \A n, i : Addr(n, i)' = Addr(n, i)
  BY <1>1 DEF Addr
<1>3. Owned' = Owned /\ Blocks' = Blocks /\ Live' = Live
  BY <1>1, <1>2, SameAddrs DEF Live
<1>4. Free' = Free
  BY <1>3, FreeInodeAddrStep DEF Free
<1> QED BY <1>3, <1>4 DEF StoreStep

\* The end of free_inode removes the inode and frees its blocks at once.
LEMMA RemoveStep == ASSUME IInv, FreeInodeEnd PROVE StoreStep
<1>0. PICK n \in InodeNum : n = call.n
  BY FreeInodeEndStep
<1>1. /\ BlocksOf(n) \subseteq FreeBlocks(fs)
      /\ BlocksOf(n) # {} => Free # {}
  BY <1>0, FreeInodeEndStep DEF Free
<1>2. n # ROOT_INODE_NUM
  BY <1>0 DEF IInv, TypeOK, FreeInodeEnd
<1>3. ilist \in IList
  BY DEF IInv, TypeOK
<1>4. \A k \in InodeNum :
        ilist'[k] = IF k = n THEN ClearedInode ELSE ilist[k]
  BY <1>0, <1>3 DEF FreeInodeEnd, IList
<1>5. \A k \in InodeNum, i \in AddrIdx :
        Addr(k, i)' = IF k = n THEN 0 ELSE Addr(k, i)
  BY <1>4 DEF Addr, ClearedInode, NoBlocks
<1>6. \A k \in InodeNum : BlocksOf(k)' = IF k = n THEN {} ELSE BlocksOf(k)
  BY <1>5 DEF BlocksOf
<1>7. \A k \in InodeNum : k # n => BlocksOf(k) \cap BlocksOf(n) = {}
  BY <1>1 DEF IInv, OneOwner, BlocksOf
<1>8. Owned' = Owned \ BlocksOf(n)
  BY <1>1, <1>6, <1>7 DEF Owned
<1>9. Free' = Free \cup BlocksOf(n)
  <2>1. FreeBlocks(fs)' = FreeBlocks(fs)
    BY DEF FreeInodeEnd
  <2> QED BY <1>1, <1>8, <2>1 DEF Free
<1>10. Live' = Live \ {n}
  BY <1>4 DEF Live, ClearedInode
<1>11. Blocks' = [Blocks EXCEPT ![n] = {}]
  BY <1>1, <1>6 DEF Blocks
<1>12. Store!Remove(n)
  BY <1>0, <1>1, <1>2, <1>9, <1>10, <1>11 DEF Store!Remove, Free, Live, Blocks
<1> QED BY <1>0, <1>12 DEF StoreStep, Store!Next

\* An inode gets one free block, for none or in the place of another one.
LEMMA AppendStep ==
  ASSUME IInv, call = Idle, NEW n \in InodeNum, NEW i \in AddrIdx, BlockStored(n, i)
  PROVE  StoreStep
<1>1. CASE UNCHANGED ilist /\ FreeBlocks(fs)' = FreeBlocks(fs)
  <2>1. \A k, j : Addr(k, j)' = Addr(k, j)
    BY <1>1 DEF Addr
  <2> QED BY <1>1, <2>1, SameAddrs DEF StoreStep, Free, Live
<1>2. ASSUME NEW b \in FreeBlocks(fs),
             ilist' = [ilist EXCEPT ![n].block_addrs[i] = b],
             FreeBlocks(fs)' = FreeBlocks(fs) \ {b}
      PROVE  StoreStep
  <2> DEFINE old == Addr(n, i)
  <2>1. /\ ilist \in IList
        /\ ilist[n] \in [m_data : MData, block_addrs : [AddrIdx -> Int]]
    BY DEF IInv, TypeOK, IList, Inode
  <2>3. b # 0 /\ b \in DataBlocks
    <3>1. b \in DataBlocks
      BY <1>2, FreeBlocksAreData DEF IInv
    <3> QED BY <3>1, DataBlocksPositive DEF Empty
  <2>4. \A k \in InodeNum, j \in AddrIdx :
          Addr(k, j)' = IF k = n /\ j = i THEN b ELSE Addr(k, j)
    BY <1>2, <2>1 DEF Addr, IList, Inode
  <2>2. \A k \in InodeNum, j \in AddrIdx :
          Addr(k, j) = old /\ old # 0 => k = n /\ j = i
    BY DEF IInv, OneOwner
  <2>5. \A k \in InodeNum :
          BlocksOf(k)' = IF k = n THEN (BlocksOf(k) \ {old}) \cup {b} ELSE BlocksOf(k)
    BY <2>2, <2>3, <2>4 DEF BlocksOf
  <2>6. Owned' = (Owned \ {old}) \cup {b}
    <3>1. \A k \in InodeNum : k # n => old \notin BlocksOf(k)
      BY <2>2 DEF BlocksOf
    <3> HIDE DEF old
    <3> QED BY <2>5, <3>1 DEF Owned
  <2>7. b \notin Owned /\ old \notin FreeBlocks(fs)
    <3>1. b \notin Owned /\ (old # 0 => old \notin FreeBlocks(fs))
      BY <1>2, IdleSeparates DEF Owned, BlocksOf
    <3>2. 0 \notin FreeBlocks(fs)
      BY FreeBlocksAreData, DataBlocksPositive DEF IInv, Empty
    <3> QED BY <3>1, <3>2
  <2>8. b \in Free /\ Free' = Free \ {b}
    BY <1>2, <2>6, <2>7 DEF Free
  <2>9. Live' = Live
    <3>1. \A k \in InodeNum : ilist'[k].m_data = ilist[k].m_data
      BY <1>2, <2>1 DEF IList, Inode
    <3> QED BY <3>1 DEF Live
  <2>10. Blocks' = [Blocks EXCEPT ![n] = (@ \ {old}) \cup {b}]
    BY <2>5 DEF Blocks
  <2>11. CASE old = 0
    <3>1. Blocks' = [Blocks EXCEPT ![n] = @ \cup {b}]
      BY <2>10, <2>11 DEF Blocks, BlocksOf
    <3>2. Store!Grow(n, b)
      BY <2>8, <2>9, <3>1 DEF Store!Grow, Free, Live, Blocks
    <3> QED BY <2>3, <3>2 DEF StoreStep, Store!Next
  <2>12. CASE old # 0
    <3>1. old \in BlocksOf(n) /\ old \in DataBlocks
      BY <2>12 DEF BlocksOf, IInv, AddrsAreData
    <3> HIDE DEF old
    <3>2. Store!Replace(n, old, b)
      BY <2>8, <2>9, <2>10, <3>1 DEF Store!Replace, Free, Live, Blocks
    <3> QED BY <2>3, <3>1, <3>2 DEF StoreStep, Store!Next
  <2> QED BY <2>11, <2>12
<1> QED BY <1>1, <1>2 DEF BlockStored

\* Every step is one of FileStore, or leaves what FileStore sees alone.
LEMMA StoreNextStep ==
  ASSUME DirectFiles, IInv, [Next]_vars PROVE StoreStep
<1>1. ASSUME NEW t \in FileTypes, AllocateInode(t) PROVE StoreStep
  BY <1>1, CreateStep
<1>2. ASSUME UNCHANGED <<fs, ilist>> PROVE StoreStep
  <2>1. \A k, j : Addr(k, j)' = Addr(k, j)
    BY <1>2 DEF Addr
  <2> QED BY <1>2, <2>1, SameAddrs DEF StoreStep, Free, Live
<1>3. CASE FreeInodeAddr
  BY <1>3, LoopStep
<1>4. CASE FreeInodeEnd
  BY <1>4, RemoveStep
<1>5. ASSUME NEW n \in InodeNum, NEW i \in FileIdx, Grow(n, i) PROVE StoreStep
  <2>1. call = Idle /\ i \in AddrIdx
    BY <1>5, CallersAssumption DEF Grow
  <2> QED BY <1>5, <2>1, GrowStep, AppendStep
<1>6. ASSUME NEW n \in InodeNum, NEW i \in FileIdx \cap DirectIdx,
             NEW c \in DataContents, WriteData(n, i, c)
      PROVE  StoreStep
  <2>1. FreeBlocks(fs)' = FreeBlocks(fs) /\ UNCHANGED ilist
    BY <1>6, WriteDataStep
  <2>2. \A k, j : Addr(k, j)' = Addr(k, j)
    BY <2>1 DEF Addr
  <2> QED BY <2>1, <2>2, SameAddrs DEF StoreStep, Free, Live
<1>7. ASSUME NEW n \in InodeNum \ {ROOT_INODE_NUM}, NEW m \in StoredMData,
             WriteMData(n, m)
      PROVE  StoreStep
  <2>1. ilist \in IList /\ m \in MData
    BY CallersAssumption DEF IInv, TypeOK
  <2> QED BY <1>7, <2>1, WriteMDataStep, MarkStep
<1>8. ASSUME NEW n, FreeInodeStart(n) PROVE UNCHANGED <<fs, ilist>>
  BY <1>8 DEF FreeInodeStart
<1>9. ASSUME NEW n \in InodeNum \ {ROOT_INODE_NUM}, GiveBlock(n) PROVE StoreStep
  <2>1. call = Idle /\ 0 \in AddrIdx
    <3>1. 0 \in DirectIdx
      BY InodeAssumption DEF DirectIdx
    <3> QED BY <1>9, <3>1, AddrIdxFacts DEF GiveBlock
  <2> QED BY <1>9, <2>1, GiveBlockStep, AppendStep
<1> QED BY <1>1, <1>2, <1>3, <1>4, <1>5, <1>6, <1>7, <1>8, <1>9 DEF Next, vars

\* The i-list and the allocator implement FileStore: a file's blocks are its
\* own until it is removed, and then all free again, or one is replaced.
THEOREM ImplementsStore ==
  ASSUME LinkedGeometry, DirectFiles PROVE Spec => StoreSpec
<1>1. Init => Store!Init
  <2>1. ASSUME Init PROVE Free \in SUBSET DataBlocks
    BY <2>1, InitIInv, FreeBlocksAreData DEF IInv, Free
  <2>2. ASSUME Init PROVE Live = {ROOT_INODE_NUM}
    BY <2>2, InodeNumFacts DEF Init, InitIList, Live
  <2>3. ASSUME Init PROVE Blocks = [n \in InodeNum |-> {}]
    BY <2>3 DEF Init, InitIList, NoBlocks, Blocks, BlocksOf, Addr
  <2> QED BY <2>1, <2>2, <2>3 DEF Store!Init, Free, Live, Blocks
<1>2. IInv /\ [Next]_vars => [Store!Next]_(Store!storeVars)
  BY StoreNextStep DEF StoreStep, Store!storeVars, Free, Live, Blocks
<1> QED BY <1>1, <1>2, Invariance, PTL DEF Spec, StoreSpec, Store!Spec
=============================================================================
