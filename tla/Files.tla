-------------------------------- MODULE Files --------------------------------
(***************************************************************************)
(* Files as src/layer2 keeps them: callers hold a COPY of an inode, which  *)
(* read_inode gave them, and pass it to write and read                     *)
(* (src/layer2/write.cpp, read.cpp, translate_pos.cpp).  write changes the *)
(* copy, the i-list and the data blocks; nothing tells other copies.       *)
(*                                                                         *)
(* The unit of offsets and sizes is the word, so that a block holds SLOTS  *)
(* of them.  Each call is one action; inside write, the loops run over     *)
(* blocks and end at the first failure, with what they did left in place.  *)
(***************************************************************************)
EXTENDS FileOps

CONSTANTS
  Handles,   \* the variables of type Inode that callers keep
  Offsets,   \* where they write ...
  Sizes,     \* ... how much ...
  Data,      \* ... and which words
  Exclusive  \* no two of them hold the same inode, and none is freed when held

\* Writes begin at a direct block: else the loop over the hole would read a
\* block_num nobody has set.
ASSUME FilesAssumption ==
  /\ Offsets \subseteq 0 .. (DIRECT * SLOTS - 1)
  /\ Sizes \subseteq Nat \ {0}
  /\ Data \subseteq Nat
  /\ Exclusive \in BOOLEAN

VARIABLES
  fs,    \* the superblock's free_head and the data blocks
  ilist, \* the inodes
  held,  \* of each handle, the inode's number and the copy, or Closed
  data   \* ghost: the words each file was given, by position

vars == <<fs, ilist, held, data>>

Closed == [n |-> -1]
OpenFile == [n : InodeNum, inode : Inode]
IsOpen(h) == held[h] # Closed

\* Nothing is ever stored beyond the direct blocks.
Pos == 0 .. (DIRECT * SLOTS - 1)
Unwritten == -1

TypeOK ==
  /\ fs \in FreeListState
  /\ ilist \in IList
  /\ held \in [Handles -> OpenFile \cup {Closed}]
  /\ data \in [InodeNum -> [Pos -> Data \cup {Unwritten}]]

Init ==
  /\ fs = InitFs
  /\ ilist = InitIList
  /\ held = [h \in Handles |-> Closed]
  /\ data = [n \in InodeNum |-> [p \in Pos |-> Unwritten]]

-----------------------------------------------------------------------------
(* write, on a state s of the disk and one open file, as in FileOps, and   *)
(* the words the file was given, data                                      *)

\* A whole block is written where a part of it was meant.
SlipPadded(s, block, pos, end, d) ==
  [s EXCEPT
     !.fs.disk[block] = [i \in Slot |-> d],
     !.data = [p \in Pos |-> IF p \in pos .. end - 1 THEN d ELSE @[p]]]

\* write_to_block of the words from pos up to, and not including, end.
StoreWords(s, block, pos, end, d) ==
  LET new(i) == (pos \div SLOTS) * SLOTS + i
  IN  [s EXCEPT
         !.fs.disk[block] = [i \in Slot |-> IF new(i) \in pos .. end - 1 THEN d ELSE @[i]],
         !.data = [p \in Pos |-> IF p \in pos .. end - 1 THEN d ELSE @[p]]]

\* The loop over the hole advances idx and translates offset: of the blocks
\* between the end of the file and offset, none is allocated.
FillHole(s, offset) ==
  LET idx == ((s.inode.m_data.file_size + SLOTS) \div SLOTS) * SLOTS
      t == TranslatePos(s, offset, TRUE)
  IN  IF idx < offset THEN [ok |-> t.block # 0, s |-> t.s] ELSE [ok |-> TRUE, s |-> s]

SmallerOf(a, b) == IF a < b THEN a ELSE b
LargerOf(a, b) == IF a > b THEN a ELSE b

\* One turn of the loop over the blocks to write: the k-th from offset's on.
WriteBlock(s, k, offset, end, d) ==
  LET start == LargerOf(offset, (offset \div SLOTS + k) * SLOTS)
      t == TranslatePos(s, start, TRUE)
  IN  IF t.block = 0 THEN [ok |-> FALSE, s |-> t.s]
      ELSE [ok |-> TRUE,
            s |-> StoreWords(t.s, t.block, start,
                             SmallerOf(end, (start \div SLOTS + 1) * SLOTS), d)]

WriteBlocks(s, offset, end, d) ==
  LET count == (end - 1) \div SLOTS - offset \div SLOTS + 1
      after[k \in 0 .. count] ==
        IF k = 0 THEN FillHole(s, offset)
        ELSE IF ~ after[k - 1].ok THEN after[k - 1]
        ELSE WriteBlock(after[k - 1].s, k - 1, offset, end, d)
  IN  after[count]

\* The new size is left in the copy.
SlipSizeUnstored(s, end) == [s EXCEPT !.inode.m_data.file_size = LargerOf(end, @)]

\* write_inode_mdata of the copy's metadata, all of it.
StoreSize(s, end) ==
  LET m == [s.inode.m_data EXCEPT !.file_size = LargerOf(end, @)]
  IN  [s EXCEPT !.inode.m_data = m, !.ilist[s.n].m_data = m]

\* read, of one word: what it returns and the word.
ReadWord(h, p) ==
  LET block == TranslatePos([fs |-> fs, inode |-> held[h].inode], p, FALSE).block
  IN  IF held[h].inode.m_data.file_size <= p THEN [ret |-> 0, word |-> Unwritten]
      ELSE IF block = 0 THEN [ret |-> -22, word |-> Unwritten]
      ELSE [ret |-> 0, word |-> fs.disk[block][p % SLOTS]]

-----------------------------------------------------------------------------
(* The calls *)

MayHold(n) == Exclusive => \A h \in Handles : held[h].n # n

\* alloc_inode and then read_inode, as the tests do.
Create(h) ==
  LET r == AllocInode(ilist, REG_FILE)
  IN  /\ ~ IsOpen(h)
      /\ r.ret >= 0
      /\ MayHold(r.ret)
      /\ ilist' = r.ilist
      /\ held' = [held EXCEPT ![h] = [n |-> r.ret, inode |-> ilist'[r.ret]]]
      /\ UNCHANGED <<fs, data>>

\* read_inode and open: directories and unallocated inodes are refused.
Open(h, n) ==
  /\ ~ IsOpen(h)
  /\ ilist[n].m_data.is_allocated
  /\ ilist[n].m_data.file_type # DIR
  /\ MayHold(n)
  /\ held' = [held EXCEPT ![h] = [n |-> n, inode |-> ilist[n]]]
  /\ UNCHANGED <<fs, ilist, data>>

\* close changes nothing; the caller forgets its copy.
Close(h) ==
  /\ IsOpen(h)
  /\ held' = [held EXCEPT ![h] = Closed]
  /\ UNCHANGED <<fs, ilist, data>>

\* A write that cannot go on returns -errno, and nothing has set errno.
DoWrite(h, offset, size, d) ==
  LET n == held[h].n
      s == [fs |-> fs, ilist |-> ilist, n |-> n, inode |-> held[h].inode, data |-> data[n]]
      r == WriteBlocks(s, offset, offset + size, d)
  IN  IF r.ok THEN [ret |-> 0, s |-> StoreSize(r.s, offset + size)]
      ELSE [ret |-> 0, s |-> r.s]

Write(h, offset, size, d) ==
  LET s == DoWrite(h, offset, size, d).s
  IN  /\ IsOpen(h)
      /\ fs' = s.fs
      /\ ilist' = s.ilist
      /\ held' = [held EXCEPT ![h].inode = s.inode]
      /\ data' = [data EXCEPT ![s.n] = s.data]

Remove(n) ==
  LET r == FreeInode(fs, ilist, n)
  IN  /\ ilist[n].m_data.is_allocated
      /\ MayHold(n)
      /\ fs' = r.fs
      /\ ilist' = r.ilist
      /\ data' = IF r.ret = 0
                 THEN [data EXCEPT ![n] = [p \in Pos |-> Unwritten]]
                 ELSE data
      /\ UNCHANGED held

Next ==
  \/ \E h \in Handles : Create(h) \/ Close(h)
  \/ \E h \in Handles, n \in InodeNum : Open(h, n)
  \/ \E h \in Handles, offset \in Offsets, size \in Sizes, d \in Data :
       Write(h, offset, size, d)
  \/ \E n \in InodeNum \ {ROOT_INODE_NUM} : Remove(n)

Spec == Init /\ [][Next]_vars

-----------------------------------------------------------------------------
(* Safety, for callers that share no inode                                 *)

\* What was written to a file, as far as its size covers it, is what a read of
\* it returns: whatever became of other files, of writes that failed halfway,
\* and of the blocks the file had before it was removed and made anew.
ReadBack ==
  \A h \in Handles, p \in Pos :
    IsOpen(h) /\ p < held[h].inode.m_data.file_size
              /\ data[held[h].n][p] # Unwritten
      => ReadWord(h, p) = [ret |-> 0, word |-> data[held[h].n][p]]

\* The copy a caller holds never differs from the i-list, so that what write
\* decides from the copy, and the metadata it stores from it, is right.
CopyIsCurrent ==
  \A h \in Handles : IsOpen(h) => held[h].inode = ilist[held[h].n]

\* write.h:10-11: write allocates a block only where the i-node has none: the
\* address of a block of a file stays until the file is removed.
AddressesStay ==
  [][\A n \in InodeNum, i \in AddrIdx :
       ilist[n].block_addrs[i] # 0 /\ ilist'[n].m_data.is_allocated
         => ilist'[n].block_addrs[i] = ilist[n].block_addrs[i]]_vars

-----------------------------------------------------------------------------
(* What a test says and the code does not do *)

\* test_file_gpt.cpp:50-54: a write that returned 0 is read back.
WriteReported ==
  [][\A h \in Handles, offset \in Offsets, size \in Sizes, d \in Data :
       Write(h, offset, size, d) /\ DoWrite(h, offset, size, d).ret = 0
         => \A p \in offset .. offset + size - 1 : ReadWord(h, p)' = [ret |-> 0, word |-> d]]_vars
=============================================================================
