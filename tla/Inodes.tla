-------------------------------- MODULE Inodes --------------------------------
(***************************************************************************)
(* The i-list and the block allocator under it, as the file code above     *)
(* them uses both: alloc_inode, free_inode, read_inode, write_inode and    *)
(* write_inode_mdata of src/layer1/data_structs.cpp, the last two as       *)
(* translate_pos.cpp, write.cpp and mkdir.cpp of src/layer2 call them.     *)
(* The calls come in any order, as in the tests: nothing ties what one     *)
(* stores to what another one returned.                                    *)
(*                                                                         *)
(* free_inode calls into the free list once per block address and may      *)
(* return early, so each turn of its loop is a step of its own; the        *)
(* variable call says how far it is, and nothing else runs meanwhile.      *)
(***************************************************************************)
EXTENDS InodeOps

CONSTANTS
  FileIdx,      \* the address indices that files use
  FileTypes,    \* what callers pass to alloc_inode
  StoredMData,  \* the metadata callers give to write_inode_mdata
  DataContents  \* what callers write into a block of a file

ASSUME CallersAssumption ==
  /\ FileIdx \subseteq AddrIdx
  /\ FileTypes \subseteq Int
  /\ StoredMData \subseteq MData
  /\ DataContents \subseteq Block

VARIABLES
  fs,    \* the superblock's free_head and the data blocks
  ilist, \* the inodes
  call   \* free_inode's argument and loop index, or Idle

vars == <<fs, ilist, call>>

Idle == [n |-> -1, i |-> 0]

TypeOK ==
  /\ fs \in FreeListState
  /\ ilist \in IList
  /\ call \in [n : InodeNum \ {ROOT_INODE_NUM}, i : 0 .. INODE_BLOCKS] \cup {Idle}

Init ==
  /\ fs = InitFs
  /\ ilist = InitIList
  /\ call = Idle

AllocateInode(t) ==
  LET r == AllocInode(ilist, t)
  IN  /\ call = Idle
      /\ ilist' = r.ilist
      /\ UNCHANGED <<fs, call>>

\* The root inode and numbers beyond the i-list are refused, without effect;
\* the inode need not be allocated.
FreeInodeStart(n) ==
  /\ call = Idle
  /\ call' = [n |-> n, i |-> 0]
  /\ UNCHANGED <<fs, ilist>>

\* A Slip, as in FreeListOps: what free_block returns is not looked at.
SlipResultIgnored ==
  /\ call # Idle
  /\ call.i < INODE_BLOCKS
  /\ fs' = FreeAddr(fs, call.i, ilist[call.n].block_addrs[call.i]).fs
  /\ call' = [call EXCEPT !.i = @ + 1]
  /\ UNCHANGED ilist

\* One turn of the loop.  The zeroed address is in a local copy of the i-list
\* block, which an early return drops.
FreeInodeAddr ==
  LET r == FreeAddr(fs, call.i, ilist[call.n].block_addrs[call.i])
  IN  /\ call # Idle
      /\ call.i < INODE_BLOCKS
      /\ fs' = r.fs
      /\ call' = IF r.ret = 0 THEN [call EXCEPT !.i = @ + 1] ELSE Idle
      /\ UNCHANGED ilist

\* The metadata is reset, and not the addresses.
SlipAddrsKept ==
  /\ call # Idle
  /\ call.i = INODE_BLOCKS
  /\ ilist' = [ilist EXCEPT ![call.n].m_data = ClearedInode.m_data]
  /\ call' = Idle
  /\ UNCHANGED fs

FreeInodeEnd ==
  /\ call # Idle
  /\ call.i = INODE_BLOCKS
  /\ ilist' = [ilist EXCEPT ![call.n] = ClearedInode]
  /\ call' = Idle
  /\ UNCHANGED fs

\* access_inode_direct_block_num for a write, on an inode read_inode gave: an
\* empty address gets a new block, and write_inode stores it.
Grow(n, i) ==
  LET r == AllocInt(fs)
  IN  /\ call = Idle
      /\ ilist[n].m_data.is_allocated
      /\ ilist[n].block_addrs[i] = 0
      /\ fs' = r.fs
      /\ ilist' = IF r.ret # -1
                  THEN [ilist EXCEPT ![n].block_addrs[i] = r.ret]
                  ELSE ilist
      /\ UNCHANGED call

\* my_mkdir for the inode it just filled in: write_inode stores the new block,
\* whether or not there is an address already; without a block, free_inode.
GiveBlock(n) ==
  LET r == AllocInt(fs)
  IN  /\ call = Idle
      /\ ilist[n].m_data.file_type = DIR
      /\ fs' = r.fs
      /\ ilist' = IF r.ret # -1
                  THEN [ilist EXCEPT ![n].block_addrs[0] = r.ret]
                  ELSE ilist
      /\ call' = IF r.ret # -1 THEN Idle ELSE [n |-> n, i |-> 0]

\* write fills a block of a file that is not a directory.
WriteData(n, i, c) ==
  /\ call = Idle
  /\ ilist[n].m_data.is_allocated
  /\ ilist[n].m_data.file_type # DIR
  /\ ilist[n].block_addrs[i] # 0
  /\ fs' = [fs EXCEPT !.disk[ilist[n].block_addrs[i]] = c]
  /\ UNCHANGED <<ilist, call>>

\* write_inode_mdata stores what it is given: write's copy of the metadata, of
\* an inode that may have been removed since, or my_mkdir's, in which nothing has
\* set is_allocated.
WriteMData(n, m) ==
  /\ call = Idle
  /\ ilist' = [ilist EXCEPT ![n].m_data = m]
  /\ UNCHANGED <<fs, call>>

Next ==
  \/ \E t \in FileTypes : AllocateInode(t)
  \/ \E n \in InodeNum \ {ROOT_INODE_NUM} : FreeInodeStart(n)
  \/ FreeInodeAddr
  \/ FreeInodeEnd
  \/ \E n \in InodeNum, i \in FileIdx : Grow(n, i)
  \/ \E n \in InodeNum, i \in FileIdx \cap DirectIdx, c \in DataContents :
       WriteData(n, i, c)
  \/ \E n \in InodeNum \ {ROOT_INODE_NUM} : GiveBlock(n)
  \/ \E n \in InodeNum \ {ROOT_INODE_NUM}, m \in StoredMData : WriteMData(n, m)

Spec == Init /\ [][Next]_vars

-----------------------------------------------------------------------------
(* Whose blocks are whose *)

Addr(n, i) == ilist[n].block_addrs[i]

\* free_inode has already dealt with this address, which the i-list still has.
GivenBack(n, i) == n = call.n /\ i < call.i

BlocksOf(n) == {Addr(n, i) : i \in AddrIdx} \ {0}
Owned == UNION {BlocksOf(n) : n \in InodeNum}

-----------------------------------------------------------------------------
(* Safety *)

\* A block that an inode names is not on the free list, except while free_inode
\* is dealing with that inode, and then if it has been given back.
HeldNotFree ==
  LET F == FreeBlocks(fs)
  IN  \A n \in InodeNum, i \in AddrIdx :
        Addr(n, i) # 0 /\ ~ GivenBack(n, i) => Addr(n, i) \notin F

\* No block is named twice: by two inodes, or at two indices of one.
OneOwner ==
  \A n, m \in InodeNum, i, j \in AddrIdx :
    Addr(n, i) # 0 /\ Addr(n, i) = Addr(m, j) => n = m /\ i = j

\* Blocks only move between the free list and one inode, and a removed inode's
\* all at once: free_inode gives back every block or none.  One block may be
\* lost at a time, where an address is replaced.
Store == INSTANCE FileStore
  WITH Blocks <- DataBlocks,
       Inodes <- InodeNum,
       Root <- ROOT_INODE_NUM,
       free <- FreeBlocks(fs) \ Owned,
       live <- {n \in InodeNum : ilist[n].m_data.is_allocated},
       blocks <- [n \in InodeNum |-> BlocksOf(n)]
StoreSpec == Store!Spec

-----------------------------------------------------------------------------
(* What comments say and the code does not do *)

\* data_structs.hpp:112: alloc_block removes the block it returns from the free
\* list.
AllocRemoves ==
  [][\A n \in InodeNum, i \in FileIdx :
       Grow(n, i) /\ ilist' # ilist => ilist'[n].block_addrs[i] \notin FreeBlocks(fs')]_vars

\* data_structs.cpp:18: the address of no block is -1, so that the links of the
\* free list lead from block to block and end there, also when free_inode has
\* freed a tree of blocks.
ListReadable == LinksFormChain(fs)
=============================================================================
