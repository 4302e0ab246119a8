------------------------------- MODULE InodeOps -------------------------------
(***************************************************************************)
(* The i-list of src/layer1/data_structs.cpp as pure operators: what       *)
(* init_fs writes there, the scan of alloc_inode, and what free_inode does *)
(* with one of an inode's block addresses.                                 *)
(*                                                                         *)
(* An i-list is a function from inode numbers to inodes; of the metadata   *)
(* it keeps the fields the code decides on.  An inode has DIRECT direct    *)
(* addresses (12 in the code), then a single, a double and a triple        *)
(* indirect one; address 0 means no block.                                 *)
(***************************************************************************)
EXTENDS FreeListOps

CONSTANTS
  INODES_PER_BLOCK, \* inodes of an i-list block, BLOCK_SIZE / sizeof(Inode)
  DIRECT            \* direct addresses of an inode

ASSUME InodeAssumption ==
  /\ I_LIST_SIZE > 0
  /\ INODES_PER_BLOCK \in Nat \ {0}
  /\ DIRECT \in Nat \ {0}

InodeNum == 0 .. (INODES_PER_BLOCK * I_LIST_SIZE - 1)
ROOT_INODE_NUM == 0

INODE_BLOCKS == DIRECT + 3
AddrIdx == 0 .. (INODE_BLOCKS - 1)
DirectIdx == 0 .. (DIRECT - 1)

\* FILE_TYPE
EMPTY == -1
REG_FILE == 0
DIR == 1
SPEC_FILE == 2

MData == [is_allocated : BOOLEAN, file_type : EMPTY .. SPEC_FILE, file_size : Int]
Inode == [m_data : MData, block_addrs : [AddrIdx -> Int]]
IList == [InodeNum -> Inode]

NoBlocks == [i \in AddrIdx |-> 0]

\* init_fs, step 2: the root inode, and only it, is allocated.
InitIList ==
  [n \in InodeNum |->
     [m_data |-> [is_allocated |-> n = ROOT_INODE_NUM,
                  file_type |-> DIR,
                  file_size |-> -1],
      block_addrs |-> NoBlocks]]

-----------------------------------------------------------------------------
(* alloc_inode: the first unallocated inode, of which nothing is reset *)

Unallocated(ilist) == {n \in InodeNum : ~ ilist[n].m_data.is_allocated}

\* A Slip, as in FreeListOps: the range of file_type is not checked.
SlipAnyType(ilist, file_type) ==
  IF Unallocated(ilist) = {} THEN [ret |-> -2, ilist |-> ilist]
  ELSE LET n == Least(Unallocated(ilist))
       IN  [ret |-> n,
            ilist |-> [ilist EXCEPT ![n].m_data.is_allocated = TRUE,
                                    ![n].m_data.file_type = file_type]]

AllocInode(ilist, file_type) ==
  IF file_type \notin REG_FILE .. SPEC_FILE THEN [ret |-> -1, ilist |-> ilist]
  ELSE IF Unallocated(ilist) = {} THEN [ret |-> -2, ilist |-> ilist]
  ELSE LET n == Least(Unallocated(ilist))
       IN  [ret |-> n,
            ilist |-> [ilist EXCEPT ![n].m_data.is_allocated = TRUE,
                                    ![n].m_data.file_type = file_type]]

\* A Slip: -1, the free list's null, for an address that is none.
SlipNullAddrs ==
  [m_data |-> [is_allocated |-> FALSE, file_type |-> EMPTY, file_size |-> -1],
   block_addrs |-> [i \in AddrIdx |-> Null]]

\* The inode free_inode writes back when all its addresses are dealt with.
ClearedInode ==
  [m_data |-> [is_allocated |-> FALSE, file_type |-> EMPTY, file_size |-> -1],
   block_addrs |-> NoBlocks]

-----------------------------------------------------------------------------
(* free_inode's way with the address b at index i, by the kind of address *)

Nothing(s) == [ret |-> 0, fs |-> s]

\* An address behind which there is no block to read: none at all, or a wild
\* word of a block never initialised, whose use is undefined and left out.
NoBlockAt(b) == b \notin DataBlocks

\* The loop over the entries compares free_block's result with BLOCK_SIZE,
\* which it never is: it returns after the first entry.
FreeIndBlock(s, b) ==
  IF NoBlockAt(b) THEN Nothing(s) ELSE FreeBlock(s, s.disk[b][0])

\* Every entry is given to FreeEntry and its result ignored; then the block
\* itself is freed, and its old contents are written over what that left there.
FreeTree(s, b, FreeEntry(_, _)) ==
  LET after[i \in 0 .. SLOTS] ==
        IF i = 0 THEN s ELSE FreeEntry(after[i - 1], s.disk[b][i - 1]).fs
      freed == FreeBlock(after[SLOTS], b).fs
  IN  IF NoBlockAt(b) THEN Nothing(s)
      ELSE [ret |-> 0, fs |-> [freed EXCEPT !.disk[b] = s.disk[b]]]

FreeDIndBlock(s, b) == FreeTree(s, b, FreeIndBlock)
FreeTIndBlock(s, b) == FreeTree(s, b, FreeDIndBlock)

FreeAddr(s, i, b) ==
  CASE i < DIRECT     -> FreeBlock(s, b)
    [] i = DIRECT     -> FreeIndBlock(s, b)
    [] i = DIRECT + 1 -> FreeDIndBlock(s, b)
    [] i = DIRECT + 2 -> FreeTIndBlock(s, b)
=============================================================================
