------------------------------ MODULE Directory -------------------------------
(***************************************************************************)
(* Paths and directories: namei and read_directory of                      *)
(* src/layer2/l2helper.cpp, my_mkdir (mkdir.cpp) and readdir, over the     *)
(* i-list and the allocator, while files are created, written and removed. *)
(*                                                                         *)
(* A path is a sequence of slashes and names.  A directory entry fills one *)
(* word here (16 in the code), so that a block holds at least two; where   *)
(* it goes over words of other use, two: the second stands for the rest.   *)
(*                                                                         *)
(* my_mkdir may write into the free list, and the calls go on with what    *)
(* they then read there.  Once it has gone over a node (struck) the list   *)
(* may say anything.  Only a call that leaves the data blocks, by a link   *)
(* or an address that is none of theirs, ends the model (wrecked).         *)
(***************************************************************************)
EXTENDS FileOps, Sequences

CONSTANTS
  Names,        \* what paths are made of, besides slashes
  LongNames,    \* those of them longer than NAME_MAX
  Paths,        \* the paths callers use
  Data,         \* the words callers write into files
  Tails,        \* what the later words of an entry say: letters, zeros or padding
  USHORT_BLOCKS \* 2^16 / BLOCK_SIZE, the reach of an unsigned short offset

Slash == 0
Dot == 1
DotDot == 2

ASSUME DirectoryAssumption ==
  /\ Names \subseteq Nat \ {0} /\ {Dot, DotDot} \subseteq Names
  /\ LongNames \subseteq Names
  /\ Paths \subseteq Seq(Names \cup {Slash})
  /\ Data \subseteq Nat /\ Tails \subseteq Int
  /\ USHORT_BLOCKS \in Nat \ {0}

VARIABLES
  fs,      \* the superblock's free_head and the data blocks
  ilist,   \* the inodes
  struck,  \* an entry has gone over the words of a node of the free list
  wrecked  \* a call has left the data blocks: it stopped the program, or wrote
           \* over the superblock, the i-list or memory that is not the disk's

vars == <<fs, ilist, struck, wrecked>>

\* free_head may be a word that was never an address.
RawState == [free_head : Int, disk : [DataBlocks -> Block]]

\* The root, which is never written through its address nor freed, may be given
\* any block number by a list that has been struck.
TypeOK ==
  /\ fs \in RawState
  /\ ilist \in IList
  /\ \A n \in InodeNum, i \in AddrIdx :
       \/ ilist[n].block_addrs[i] \in DataBlocks \cup {0}
       \/ n = ROOT_INODE_NUM /\ struck
  /\ struck \in BOOLEAN
  /\ wrecked \in BOOLEAN

Init ==
  /\ fs = InitFs
  /\ ilist = InitIList
  /\ struck = FALSE
  /\ wrecked = FALSE

\* errno.h; a call returns the negative.
ENOENT == 2
EEXIST == 17
ENOTDIR == 20
EINVAL == 22
ENOSPC == 28

-----------------------------------------------------------------------------
(* Paths *)

Absolute(path) == path # <<>> /\ path[1] = Slash

\* tokenize_path: empty components are dropped.
Components(path) == SelectSeq(path, LAMBDA c : c # Slash)

LastSlash(path) ==
  CHOOSE i \in DOMAIN path :
    path[i] = Slash /\ \A j \in i + 1 .. Len(path) : path[j] # Slash

ParentPath(path) ==
  IF LastSlash(path) = 1 THEN <<Slash>> ELSE SubSeq(path, 1, LastSlash(path) - 1)

DirName(path) == SubSeq(path, LastSlash(path) + 1, Len(path))

-----------------------------------------------------------------------------
(* Looking up *)

\* The number of bytes read_from_block returns is taken for an error, so that
\* the loop ends in its first turn: an entry is never returned.
ReadDirectory(inode) ==
  IF inode.m_data.file_type # DIR THEN -ENOTDIR
  ELSE IF inode.m_data.file_size <= 0 THEN 0
  ELSE IF inode.block_addrs[0] = 0 THEN -1
  ELSE WORD_SIZE

\* The last component is not looked up, and . and .. of the root are skipped.
\* The first other one ends the walk, for the root has no entries to compare it
\* with: the inode found is always the root.
Namei(il, path) ==
  LET c == Components(path)
      walked == {c[i] : i \in 1 .. Len(c) - 1}
      res == ReadDirectory(il[ROOT_INODE_NUM])
  IN  IF ~ Absolute(path) THEN -EINVAL
      ELSE IF ~ il[ROOT_INODE_NUM].m_data.is_allocated THEN -4
      ELSE IF walked \subseteq {Dot, DotDot} THEN 0
      ELSE IF res # 0 THEN res
      ELSE -ENOENT

Readdir(il, path) ==
  IF Namei(il, path) # 0 THEN Namei(il, path)
  ELSE ReadDirectory(il[ROOT_INODE_NUM])

-----------------------------------------------------------------------------
(* The free list as the calls read it *)

\* A link that is no block ends what can be reached without leaving the data
\* blocks.  An entry counts by its lower half, whatever my_mkdir wrote above it; an
\* emptied one that has something above it is no longer empty, and gives no block.
LinkRead(w) == IF w \in DataBlocks THEN w ELSE Null
EntryRead(w) == IF w # Empty /\ AsInt(w) = 0 THEN Null ELSE AsInt(w)

BlockRead(c) == [i \in Slot |-> IF i = 0 THEN LinkRead(c[0]) ELSE EntryRead(c[i])]

AsRead(s) ==
  [free_head |-> LinkRead(s.free_head),
   disk |-> [b \in DataBlocks |-> BlockRead(s.disk[b])]]

Free(s) == FreeBlocks(AsRead(s))

-----------------------------------------------------------------------------
(* my_mkdir *)

\* What it returns before it changes anything, or 0.
Refusal(il, path) ==
  IF ~ Absolute(path) THEN -EINVAL
  ELSE IF DirName(path) = <<>> \/ DirName(path)[1] \in LongNames THEN -EINVAL
  ELSE IF Namei(il, ParentPath(path)) # 0 THEN Namei(il, ParentPath(path))
  ELSE IF il[ROOT_INODE_NUM].m_data.file_type # DIR THEN -ENOTDIR
  ELSE IF Namei(il, path) = 0 THEN -EEXIST
  ELSE 0

\* A word of an entry: the inode number, and above it letters of the name.
EntryWord(n, name) == n + INT_VALUES * name

\* The topmost byte of a word w replaced by a byte t: what is below it stays.
TopByte == INT_VALUES * INT_VALUES

\* A Slip, as in FreeListOps: the lower half is what is written over.
SlipLowByteSet(w, t) == w - (w % INT_VALUES) + t

TopByteSet(w, t) == (w % TopByte) + TopByte * t

\* The new entry goes to position.offset, an unsigned short.  -1 becomes 2^16-1:
\* the entry's first byte is the last one of a block, the others begin the next.
EntryBlocks(block, offset) ==
  IF offset >= 0 THEN {block} ELSE {block + USHORT_BLOCKS - 1, block + USHORT_BLOCKS}

WriteEntry(s, block, offset, n, name, tail) ==
  LET written == [s.disk[block] EXCEPT ![offset] = EntryWord(n, name)]
      stray(b) == CASE b = block + USHORT_BLOCKS - 1 ->
                         [s.disk[b] EXCEPT ![SLOTS - 1] = TopByteSet(@, n % 256)]
                    [] b = block + USHORT_BLOCKS ->
                         [s.disk[b] EXCEPT ![0] = EntryWord(n \div 256, name), ![1] = tail]
                    [] OTHER -> s.disk[b]
  IN  IF offset >= 0 THEN [s EXCEPT !.disk[block] = written]
      ELSE [s EXCEPT !.disk = [b \in DataBlocks |-> stray(b)]]

\* It goes over words of a node of the list.  (Of the block before, whose last word
\* loses its top byte, no call reads that byte.)
Strikes(s, block, offset) ==
  offset < 0 /\ block + USHORT_BLOCKS \in Nodes(AsRead(s))

\* The head of the list is no block: to read it is to read outside the disk,
\* for a letter of a name puts it 2^24 blocks or more away.
HeadIsStray(s) == s.free_head \notin DataBlocks \cup {Null}

Wreck == [ret |-> 0, wrecked |-> TRUE]

\* A call that came to its end.
Returned(x, s, il) ==
  [ret |-> x, fs |-> s, ilist |-> il, struck |-> FALSE, wrecked |-> FALSE]

\* The metadata my_mkdir stores; nothing has set is_allocated.
DirMData(set) == [is_allocated |-> set, file_type |-> DIR, file_size |-> 2]

\* A Slip: the metadata goes to the parent as well.
SlipParentSized(il, n, set) ==
  [il EXCEPT ![n].m_data = DirMData(set),
             ![ROOT_INODE_NUM].m_data.file_size = 2]

StoreDirMData(il, n, set) == [il EXCEPT ![n].m_data = DirMData(set)]

\* A Slip: the inode is not given back.
SlipInodeKept(s, il, n) == Returned(-ENOSPC, s, il)

\* There is no block for the directory: free_inode, whatever it returns.
GiveUp(s, il, n) ==
  LET f == FreeInode(s, il, n)
  IN  Returned(-ENOSPC, f.fs, f.ilist)

\* .. and . into the new block, the block into the inode, and the entry where
\* translate_pos finds a place in the parent, or says that it found none.
LinkDirectory(s, il, parent, n, name, tail, block) ==
  LET dotted == [s EXCEPT !.disk[block][0] = EntryWord(ROOT_INODE_NUM, DotDot),
                          !.disk[block][1] = EntryWord(n, Dot)]
      pos == parent.m_data.file_size
      idx == Translate!AddrIndex(Translate!BlockNum(pos * WORD_SIZE))
      t == TranslatePos([fs |-> dotted,
                         ilist |-> [il EXCEPT ![n].block_addrs[0] = block],
                         n |-> ROOT_INODE_NUM,
                         inode |-> parent], pos, TRUE)
  IN  IF \/ parent.block_addrs[idx] = 0 /\ HeadIsStray(dotted)
         \/ ~ (EntryBlocks(t.block, t.offset) \subseteq DataBlocks)
      THEN Wreck
      ELSE [Returned(0, WriteEntry(t.s.fs, t.block, t.offset, n, name, tail), t.s.ilist)
              EXCEPT !.struck = Strikes(t.s.fs, t.block, t.offset)]

\* alloc_inode's -2 is not tested for, and write_inode_mdata refuses it.  Block 0
\* is the superblock, and a list that was struck may give a block of the i-list:
\* . and .. go over it.
MyMkdir(s, il, path, set, tail) ==
  LET refused == Refusal(il, path)
      new == AllocInode(il, DIR)
      sized == StoreDirMData(new.ilist, new.ret, set)
      a == AllocInt(s)
  IN  IF refused # 0 THEN Returned(refused, s, il)
      ELSE IF new.ret < 0 THEN Returned(-1, s, il)
      ELSE IF HeadIsStray(s) THEN Wreck
      ELSE IF a.ret = -1 THEN GiveUp(a.fs, sized, new.ret)
      ELSE IF a.ret \notin DataBlocks THEN Wreck
      ELSE LinkDirectory(a.fs, sized, il[ROOT_INODE_NUM], new.ret,
                         DirName(path)[1], tail, a.ret)

-----------------------------------------------------------------------------
(* The calls *)

\* What a call leaves.
Leaves(f, il, strikes) ==
  /\ fs' = f
  /\ ilist' = il
  /\ struck' = (struck \/ strikes)
  /\ wrecked' = FALSE

Wrecks == wrecked' = TRUE /\ UNCHANGED <<fs, ilist, struck>>

Mkdir(path, set, tail) ==
  LET r == MyMkdir(fs, ilist, path, set, tail)
  IN  /\ ~ wrecked
      /\ IF r.wrecked THEN Wrecks ELSE Leaves(r.fs, r.ilist, r.struck)

\* alloc_inode, as tests make files.
CreateFile ==
  /\ ~ wrecked
  /\ Leaves(fs, AllocInode(ilist, REG_FILE).ilist, FALSE)

\* write of a block full of d at the start of a file that read_inode gave.
WriteFile(n, d) ==
  LET t == TranslatePos([fs |-> fs, ilist |-> ilist, n |-> n, inode |-> ilist[n]], 0, TRUE)
  IN  /\ ~ wrecked
      /\ ilist[n].m_data.is_allocated
      /\ ilist[n].m_data.file_type # DIR
      /\ IF \/ ilist[n].block_addrs[0] = 0 /\ HeadIsStray(fs)
            \/ t.block \notin DataBlocks \cup {0}
         THEN Wrecks
         ELSE IF t.block = 0 THEN Leaves(t.s.fs, t.s.ilist, FALSE)
         ELSE Leaves([t.s.fs EXCEPT !.disk[t.block] = [i \in Slot |-> d]],
                     [t.s.ilist EXCEPT ![n].m_data.file_size = SLOTS],
                     FALSE)

\* free_inode.
Remove(n) ==
  LET r == FreeInode(fs, ilist, n)
  IN  /\ ~ wrecked
      /\ IF HeadIsStray(fs) /\ ilist[n].block_addrs # NoBlocks THEN Wrecks
         ELSE Leaves(r.fs, r.ilist, FALSE)

\* What comes after a wreck is not modelled.
Wrecked == wrecked /\ UNCHANGED vars

\* A call of my_mkdir finds any value in the is_allocated it stores.
Next ==
  \/ \E path \in Paths, set \in BOOLEAN, tail \in Tails : Mkdir(path, set, tail)
  \/ CreateFile
  \/ \E n \in InodeNum, d \in Data : WriteFile(n, d)
  \/ \E n \in InodeNum \ {ROOT_INODE_NUM} : Remove(n)
  \/ Wrecked

Spec == Init /\ [][Next]_vars

-----------------------------------------------------------------------------
(* Safety *)

BlocksOf(il, n) == {il[n].block_addrs[i] : i \in AddrIdx} \ {0}

\* The number of bytes that read_directory takes for an error never gets to a
\* caller: the root's size stays -1, whatever is made in it.
ErrorsAreNegative ==
  \A path \in Paths : Namei(ilist, path) <= 0 /\ Readdir(ilist, path) <= 0

\* A block that an inode names is not one that the next calls could be given, and
\* no other inode names it: also when my_mkdir fails, when the inode of a directory
\* is handed out again, and when entries went over blocks in use or the last byte
\* of a node.  Once one went over the words of a node nothing is promised.
BlocksHeldOnce ==
  LET F == Free(fs)
  IN  ~ struck =>
        \A n \in InodeNum :
          /\ BlocksOf(ilist, n) \cap F = {}
          /\ \A m \in InodeNum \ {n} : BlocksOf(ilist, n) \cap BlocksOf(ilist, m) = {}

\* A my_mkdir that fails after it began changes nothing; or it has given the inode
\* back with every block that was still in it; or none of that, which happens only
\* to an inode with blocks and at an empty list, and the inode keeps its blocks.
FailedMkdirAllOrNone ==
  [][\A path \in Paths, set \in BOOLEAN, tail \in Tails :
       LET n == AllocInode(ilist, DIR).ret
           r == MyMkdir(fs, ilist, path, set, tail)
       IN  /\ ~ struck
           /\ Refusal(ilist, path) = 0 /\ r.ret # 0
           /\ Mkdir(path, set, tail)
           =>
             \/ n < 0 /\ UNCHANGED vars
             \/ /\ n >= 0
                /\ ilist' = [ilist EXCEPT ![n] = ClearedInode]
                /\ Free(fs') = Free(fs) \cup BlocksOf(ilist, n)
             \/ /\ n >= 0
                /\ BlocksOf(ilist, n) # {} /\ Free(fs) = {}
                /\ ilist' = [ilist EXCEPT ![n].m_data = DirMData(set)]
                /\ Free(fs') = {}]_vars

-----------------------------------------------------------------------------
(* What comments and tests say and the code does not do *)

\* mkdir.cpp:109: the new entry goes to the parent directory: my_mkdir writes
\* into no block that another inode has, if the parent has a block for entries.
OthersUntouched ==
  [][\A path \in Paths, set \in BOOLEAN, tail \in Tails :
       /\ ~ struck
       /\ Mkdir(path, set, tail)
       /\ ilist'[ROOT_INODE_NUM].block_addrs[0] # 0
       =>
         \A n \in InodeNum \ (Unallocated(ilist) \cup {ROOT_INODE_NUM}) :
           \A b \in BlocksOf(ilist, n) : fs'.disk[b] = fs.disk[b]]_vars

\* test_gpt.cpp:122: after free_inode the inode is deallocated: so it is after a
\* my_mkdir that found no block and called it.
GivenUpIsUnallocated ==
  [][\A path \in Paths, set \in BOOLEAN, tail \in Tails :
       Mkdir(path, set, tail) /\ MyMkdir(fs, ilist, path, set, tail).ret = -ENOSPC
         => AllocInode(ilist, DIR).ret \in Unallocated(ilist')]_vars
=============================================================================
