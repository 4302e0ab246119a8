----------------------------- MODULE FreeListOps -----------------------------
(***************************************************************************)
(* The System V style free list of src/layer1/data_structs.cpp as pure     *)
(* operators: init_fs's formatting loop, alloc_block and free_block.       *)
(*                                                                         *)
(* A free-list state is a record s with the superblock's field free_head   *)
(* and disk, the data blocks of in_mem_disk seen as arrays of words        *)
(* (Block.ind_blocks).  A block on the list is a NODE, whose word 0 links  *)
(* to the next node and whose other words are ENTRIES, or it is named by   *)
(* an entry.  The code's two sentinels keep their values: -1 is the null   *)
(* link (and the filler of an entry beyond the partition), 0 an emptied    *)
(* entry.                                                                  *)
(***************************************************************************)
EXTENDS Integers

CONSTANTS
  PARTITION_SIZE, \* blocks of the partition
  SLOTS,          \* words of a block, BLOCK_SIZE / sizeof(long) in the code
  I_LIST_SIZE,    \* init_fs's arguments: blocks of the i-list ...
  D_BLOCK_SIZE    \* ... and data blocks

(***************************************************************************)
(* What init_fs itself demands of its arguments, for a partition that has  *)
(* data blocks at all.                                                     *)
(***************************************************************************)
ASSUME GeometryAssumption ==
  /\ PARTITION_SIZE \in Nat
  /\ SLOTS \in Nat /\ SLOTS > 1
  /\ I_LIST_SIZE \in Nat
  /\ D_BLOCK_SIZE \in Nat /\ D_BLOCK_SIZE > 0
  /\ I_LIST_SIZE + D_BLOCK_SIZE + 1 <= PARTITION_SIZE

Null == -1
Empty == 0

FirstData == I_LIST_SIZE + 1
DataBlocks == FirstData .. (PARTITION_SIZE - 1)

Slot == 0 .. (SLOTS - 1)
EntrySlot == 1 .. (SLOTS - 1)
Block == [Slot -> Int]

FreeListState ==
  [free_head : DataBlocks \cup {Null}, disk : [DataBlocks -> Block]]

Least(S) == CHOOSE i \in S : \A j \in S : i <= j

-----------------------------------------------------------------------------
(* init_fs, step 3 *)

\* The k-th node of the formatting loop: each next node is SLOTS + 1 further.
NodeAddr(k) == FirstData + k * (SLOTS + 1)

\* The loop reaches its iteration k, and writes a node there.
Iterates(k) == k * SLOTS < D_BLOCK_SIZE /\ NodeAddr(k) < PARTITION_SIZE

NodeCount == CHOOSE n \in 1 .. D_BLOCK_SIZE : Iterates(n - 1) /\ ~ Iterates(n)

\* The link of the last node written leaves the partition and becomes null.
\* init_fs needs this and does not demand it; data blocks that reach to the end
\* of the partition are enough.
LinkedGeometry == NodeAddr(NodeCount) >= PARTITION_SIZE

InPartition(a) == IF a < PARTITION_SIZE THEN a ELSE Null

FormattedNode(b) ==
  [i \in Slot |-> InPartition(IF i = 0 THEN b + SLOTS + 1 ELSE b + i)]

ZeroBlock == [i \in Slot |-> 0]

InitFs ==
  [free_head |-> FirstData,
   disk |-> [b \in DataBlocks |->
               IF \E k \in 0 .. NodeCount - 1 : b = NodeAddr(k)
               THEN FormattedNode(b)
               ELSE ZeroBlock]]

-----------------------------------------------------------------------------
(* alloc_block and free_block: the value returned, and the state left behind *)

HeadNode(s) == s.disk[s.free_head]

FilledEntries(s) == {i \in EntrySlot : HeadNode(s)[i] # Empty}
EmptyEntries(s) == {i \in EntrySlot : HeadNode(s)[i] = Empty}

SetEntry(s, i, w) == [s EXCEPT !.disk[s.free_head] = [HeadNode(s) EXCEPT ![i] = w]]

\* (The definitions named Slip... are faults a change to the code could bring
\* in; no specification uses them, and PROJECT.json says which property of which
\* run notices each one.)

\* The zeroed entry is not written back.
SlipEntryKept(s) ==
  LET i == Least(FilledEntries(s))
  IN  [ret |-> HeadNode(s)[i], fs |-> s]

\* An entry is written back only if a block came out of it.
SlipFillerKept(s) ==
  LET i == Least(FilledEntries(s))
  IN  [ret |-> HeadNode(s)[i],
       fs |-> IF HeadNode(s)[i] = Null THEN s ELSE SetEntry(s, i, Empty)]

\* The first entry of the head node that is not zero is zeroed and returned.
TakeEntry(s) ==
  LET i == Least(FilledEntries(s))
  IN  [ret |-> HeadNode(s)[i], fs |-> SetEntry(s, i, Empty)]

\* The link is read from the wrong word.
SlipLinkMisread(s) == [ret |-> s.free_head, fs |-> [s EXCEPT !.free_head = HeadNode(s)[1]]]

\* The superblock with the new head is not written.
SlipHeadKept(s) == [ret |-> s.free_head, fs |-> s]

\* The head node has no entry left: the node itself is handed out.
TakeHead(s) == [ret |-> s.free_head, fs |-> [s EXCEPT !.free_head = HeadNode(s)[0]]]

AllocBlock(s) ==
  IF s.free_head = Null THEN [ret |-> -1, fs |-> s]
  ELSE IF FilledEntries(s) # {} THEN TakeEntry(s)
  ELSE TakeHead(s)

\* What is told of an int: -1 and the block numbers, in as many values.  A word
\* (a long) holds an int in its lower half and anything above it.
INT_VALUES == PARTITION_SIZE + 1

AsInt(w) == IF w % INT_VALUES = INT_VALUES - 1 THEN -1 ELSE w % INT_VALUES

\* int new_block_num = alloc_block(): the file code drops the upper half.
AllocInt(s) == LET r == AllocBlock(s) IN [ret |-> AsInt(r.ret), fs |-> r.fs]

\* The loop over the entries does not stop at the first zeroed one.
SlipEveryEntry(s, b) ==
  [ret |-> 0,
   fs |-> [s EXCEPT !.disk[s.free_head] =
             [i \in Slot |-> IF i \in EmptyEntries(s) THEN b ELSE HeadNode(s)[i]]]]

\* The freed block fills the first zeroed entry of the head node.
PutEntry(s, b) ==
  LET i == Least(EmptyEntries(s))
  IN  [ret |-> 0, fs |-> SetEntry(s, i, b)]

\* The head is moved before the link to the old one is taken.
SlipSelfLinked(s, b) ==
  [ret |-> 0,
   fs |-> [free_head |-> b,
           disk |-> [s.disk EXCEPT ![b] = [ZeroBlock EXCEPT ![0] = b]]]]

\* The new head is written as the last node of a list.
SlipUnlinked(s, b) ==
  [ret |-> 0,
   fs |-> [free_head |-> b,
           disk |-> [s.disk EXCEPT ![b] = [ZeroBlock EXCEPT ![0] = Null]]]]

\* No zeroed entry: the freed block becomes the head, linked to the old one.
PutHead(s, b) ==
  [ret |-> 0,
   fs |-> [free_head |-> b,
           disk |-> [s.disk EXCEPT ![b] = [ZeroBlock EXCEPT ![0] = s.free_head]]]]

FreeBlock(s, b) ==
  IF b = 0 THEN [ret |-> 0, fs |-> s]
  ELSE IF s.free_head = Null THEN [ret |-> -1, fs |-> s]
  ELSE IF EmptyEntries(s) # {} THEN PutEntry(s, b)
  ELSE PutHead(s, b)

-----------------------------------------------------------------------------
(* What is on the list *)

Link(s, n) == s.disk[n][0]

\* S contains the head and, with each node, the node it links to.
LinkClosed(s, S) ==
  /\ s.free_head # Null => s.free_head \in S
  /\ \A n \in S : Link(s, n) # Null => Link(s, n) \in S

(***************************************************************************)
(* The nodes read_free_list visits: those every link-closed set contains.  *)
(* If the links leave the data area no set of data blocks is closed and    *)
(* this is all of DataBlocks.                                              *)
(***************************************************************************)
Nodes(s) ==
  LET closed == {S \in SUBSET DataBlocks : LinkClosed(s, S)}
  IN  {b \in DataBlocks : \A S \in closed : b \in S}

Named(w) == w \notin {Empty, Null}

\* The addresses the entries of the nodes in S name.
EntriesOf(s, S) == {w \in {s.disk[n][i] : n \in S, i \in EntrySlot} : Named(w)}

FreeBlocks(s) == LET N == Nodes(s) IN N \cup EntriesOf(s, N)

\* No address is named by two entries, or is both a node's and an entry's.
EachListedOnce(s) ==
  LET N == Nodes(s)
  IN  \A n \in N, i \in EntrySlot : Named(s.disk[n][i]) =>
        /\ s.disk[n][i] \notin N
        /\ \A m \in N, j \in EntrySlot :
             s.disk[m][j] = s.disk[n][i] => m = n /\ j = i

\* Nodes link to nodes, no two to the same one, none to the head.
LinksFormChain(s) ==
  LET N == Nodes(s)
  IN  /\ \A n \in N : Link(s, n) \in N \cup {Null}
      /\ \A n \in N : Link(s, n) # s.free_head
      /\ \A n, m \in N : Link(s, n) = Link(s, m) => n = m
      /\ N # {} => \E n \in N : Link(s, n) = Null
=============================================================================
