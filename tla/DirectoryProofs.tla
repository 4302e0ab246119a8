--------------------------- MODULE DirectoryProofs ----------------------------
(***************************************************************************)
(* Theorems about Directory, for every geometry and every set of paths and *)
(* names.  What looking up returns rests on the metadata of the root       *)
(* alone, which no call changes, whatever the stray writes of my_mkdir do. *)
(*                                                                         *)
(* That no block has two owners rests on how the calls read the free list  *)
(* (AsRead): on that list alloc_block and free_block do what they do on    *)
(* one nobody wrote into, and a stray write of my_mkdir at most takes an   *)
(* entry out of it, until one goes over the words of a node (struck).      *)
(* Then only the types are left.  The geometry is one whose last node      *)
(* links to nothing (LinkedGeometry).                                      *)
(***************************************************************************)
EXTENDS Directory, FileOpsProofs

RootMData == [is_allocated |-> TRUE, file_type |-> DIR, file_size |-> -1]

\* The i-list still has a root inode, with the metadata init_fs gave it.
RootKept(il) ==
  /\ DOMAIN il = InodeNum
  /\ "m_data" \in DOMAIN il[ROOT_INODE_NUM]
  /\ il[ROOT_INODE_NUM].m_data = RootMData

\* The state that translate_pos is given.
Given(f, il, n, inode) == [fs |-> f, ilist |-> il, n |-> n, inode |-> inode]

RootIntact == RootKept(ilist)

\* Each block has one owner, or can be allocated.
Kept(f, il) == f \in RawState /\ Separate(AsRead(f), il)

\* The addresses of the inode n are those of data blocks, or none.
HoldsData(il, n) ==
  \A i \in AddrIdx :
    /\ il[n].block_addrs[i] \in DataBlocks \cup {0}
    /\ i \notin DirectIdx => il[n].block_addrs[i] = 0

\* What is left when the list has been struck: the root may be given any number.
Typed(f, il) ==
  /\ f \in RawState /\ il \in IList
  /\ \A n \in InodeNum \ {ROOT_INODE_NUM} : HoldsData(il, n)

\* The inductive invariant: the offset of the stray writes comes from the root's
\* size, and the blocks are apart while no node has been struck.
DInv ==
  /\ RootKept(ilist)
  /\ Typed(fs, ilist)
  /\ ~ struck => Kept(fs, ilist)
  /\ struck \in BOOLEAN /\ wrecked \in BOOLEAN

-----------------------------------------------------------------------------
(* The i-list *)

\* Changing another inode, in whatever way, keeps the root.
LEMMA OthersKeepRoot ==
  ASSUME NEW il, NEW n, NEW inode, n # ROOT_INODE_NUM, RootKept(il)
  PROVE  RootKept([il EXCEPT ![n] = inode])
BY InodeNumFacts DEF RootKept

\* Storing a block address of any inode keeps the root's metadata.
LEMMA AddrKeepsRoot ==
  ASSUME NEW il, NEW n, NEW i, NEW b, RootKept(il)
  PROVE  RootKept(AddrStored(il, n, i, b))
<1> DEFINE jl == [il EXCEPT ![n].block_addrs[i] = b]
<1> USE DEF AddrStored
<1>1. CASE n # ROOT_INODE_NUM
  BY <1>1, OthersKeepRoot
<1>2. CASE n = ROOT_INODE_NUM
  <2>1. DOMAIN jl = InodeNum
    BY DEF RootKept
  <2>2. jl[ROOT_INODE_NUM] = [il[ROOT_INODE_NUM] EXCEPT !.block_addrs[i] = b]
    BY <1>2, InodeNumFacts DEF RootKept
  <2>3. /\ "m_data" \in DOMAIN jl[ROOT_INODE_NUM]
        /\ jl[ROOT_INODE_NUM].m_data = il[ROOT_INODE_NUM].m_data
    BY <2>2 DEF RootKept
  <2> QED BY <2>1, <2>3 DEF RootKept
<1> QED BY <1>1, <1>2

\* alloc_inode never chooses the root, and leaves it alone.
LEMMA AllocInodeKeepsRoot ==
  ASSUME NEW il, NEW file_type, RootKept(il)
  PROVE  /\ RootKept(AllocInode(il, file_type).ilist)
         /\ AllocInode(il, file_type).ret # ROOT_INODE_NUM
<1> DEFINE r == AllocInode(il, file_type)
           n == Least(Unallocated(il))
<1>1. CASE file_type \notin REG_FILE .. SPEC_FILE
  BY <1>1 DEF AllocInode, ROOT_INODE_NUM
<1>2. CASE file_type \in REG_FILE .. SPEC_FILE /\ Unallocated(il) = {}
  BY <1>2 DEF AllocInode, ROOT_INODE_NUM
<1>3. CASE file_type \in REG_FILE .. SPEC_FILE /\ Unallocated(il) # {}
  <2>1. Unallocated(il) \in SUBSET Nat
    BY InodeNumFacts DEF Unallocated
  <2>2. \E m \in Unallocated(il) : \A k \in Unallocated(il) : m <= k
    BY <1>3, <2>1, LeastExists
  <2>3. n \in Unallocated(il)
    BY <2>2 DEF Least
  <2>4. n # ROOT_INODE_NUM
    BY <2>3 DEF Unallocated, RootKept, RootMData
  <2>5. r.ret = n
    BY <1>3 DEF AllocInode
  <2>6. r.ilist = [il EXCEPT ![n].m_data.is_allocated = TRUE,
                             ![n].m_data.file_type = file_type]
    BY <1>3 DEF AllocInode
  <2>7. RootKept(r.ilist)
    BY <2>4, <2>6, InodeNumFacts DEF RootKept
  <2> QED BY <2>4, <2>5, <2>7
<1> QED BY <1>1, <1>2, <1>3

\* free_inode of another inode keeps the root.
LEMMA FreeInodeKeepsRoot ==
  ASSUME NEW s, NEW il, NEW n, n # ROOT_INODE_NUM, RootKept(il)
  PROVE  RootKept(FreeInode(s, il, n).ilist)
<1>1. \/ FreeInode(s, il, n).ilist = il
      \/ FreeInode(s, il, n).ilist = [il EXCEPT ![n] = ClearedInode]
  BY DEF FreeInode
<1> QED BY <1>1, OthersKeepRoot

\* translate_pos of a write stores block addresses only.
LEMMA TranslatePosKeepsRoot ==
  ASSUME NEW f, NEW il, NEW n, NEW inode, NEW pos, RootKept(il)
  PROVE  RootKept(TranslatePos(Given(f, il, n, inode), pos, TRUE).s.ilist)
<1> DEFINE idx == Translate!AddrIndex(Translate!BlockNum(pos * WORD_SIZE))
           s == Given(f, il, n, inode)
           at == AccessDirect(s, idx, TRUE)
<1>1. TranslatePos(s, pos, TRUE).s = at
  BY DEF TranslatePos
<1>2. {"fs", "ilist", "n", "inode"} \subseteq DOMAIN s /\ s.ilist = il /\ s.n = n
  BY DEF Given
<1> HIDE DEF idx, s
<1>3. DirectAccessed(at, s, idx)
  BY <1>2, AccessDirectContract
<1> HIDE DEF at
<1>4. at.ilist = il \/ \E b : at.ilist = AddrStored(il, n, idx, b)
  BY <1>2, <1>3, Zenon DEF DirectAccessed
<1>5. RootKept(at.ilist)
  BY <1>4, AddrKeepsRoot, Zenon
<1> QED BY <1>1, <1>5 DEF s

-----------------------------------------------------------------------------
(* The calls, and the root *)

\* init_fs makes the root so.
LEMMA InitKeepsRoot == ASSUME Init PROVE RootKept(ilist)
BY InodeNumFacts DEF Init, InitIList, RootKept, RootMData, NoBlocks

\* The new inode with the metadata of a directory.
Sized(il, set) ==
  StoreDirMData(AllocInode(il, DIR).ilist, AllocInode(il, DIR).ret, set)

\* What my_mkdir leaves, one case at a time: a wreck, a call that stops early, one
\* that gives up, or a directory.
MkdirLeaves(f, il, path, set, tail) ==
  LET n == AllocInode(ilist, DIR).ret
      a == AllocInt(fs)
      r == MyMkdir(fs, ilist, path, set, tail)
      gone == GiveUp(a.fs, Sized(ilist, set), n)
      linked == LinkDirectory(a.fs, Sized(ilist, set), ilist[ROOT_INODE_NUM],
                              n, DirName(path)[1], tail, a.ret)
  IN  \/ /\ r.ret = 0
         /\ HeadIsStray(fs) \/ a.ret # -1
         /\ wrecked' = TRUE /\ struck' = struck /\ f = fs /\ il = ilist
      \/ /\ Refusal(ilist, path) # 0 \/ n < 0
         /\ wrecked' = FALSE /\ struck' = (struck \/ FALSE) /\ f = fs /\ il = ilist
      \/ /\ Refusal(ilist, path) = 0 /\ ~ (n < 0) /\ ~ HeadIsStray(fs) /\ a.ret = -1
         /\ wrecked' = FALSE /\ struck' = (struck \/ FALSE)
         /\ f = gone.fs /\ il = gone.ilist
      \/ /\ Refusal(ilist, path) = 0 /\ ~ (n < 0) /\ ~ HeadIsStray(fs)
         /\ a.ret # -1 /\ a.ret \in DataBlocks
         /\ linked # Wreck /\ r.ret = linked.ret
         /\ wrecked' = FALSE /\ struck' = (struck \/ linked.struck)
         /\ f = linked.fs /\ il = linked.ilist

\* These are all the cases.
LEMMA MkdirCases ==
  ASSUME NEW path, NEW set, NEW tail, Mkdir(path, set, tail)
  PROVE  MkdirLeaves(fs', ilist', path, set, tail)
<1> DEFINE n == AllocInode(ilist, DIR).ret
           a == AllocInt(fs)
           r == MyMkdir(fs, ilist, path, set, tail)
           gone == GiveUp(a.fs, Sized(ilist, set), n)
           linked == LinkDirectory(a.fs, Sized(ilist, set), ilist[ROOT_INODE_NUM],
                                   n, DirName(path)[1], tail, a.ret)
           kept(x) == Returned(x, fs, ilist)
<1>1. IF r.wrecked THEN Wrecks ELSE Leaves(r.fs, r.ilist, r.struck)
  BY Zenon DEF Mkdir
<1>2. r = IF Refusal(ilist, path) # 0 THEN kept(Refusal(ilist, path))
          ELSE IF n < 0 THEN kept(-1)
          ELSE IF HeadIsStray(fs) THEN Wreck
          ELSE IF a.ret = -1 THEN gone
          ELSE IF a.ret \notin DataBlocks THEN Wreck
          ELSE linked
  BY Zenon DEF MyMkdir, Sized
<1>3. gone.wrecked = FALSE /\ gone.struck = FALSE
  BY DEF GiveUp, Returned
<1>4. linked = Wreck \/ linked.wrecked = FALSE
  BY DEF LinkDirectory, Returned
<1>5. /\ Wreck.wrecked = TRUE /\ Wreck.ret = 0
      /\ \A x : /\ kept(x).wrecked = FALSE /\ kept(x).struck = FALSE
               /\ kept(x).fs = fs /\ kept(x).ilist = ilist
  BY DEF Wreck, Returned
<1> HIDE DEF n, a, r, gone, linked, kept
<1>6. \/ r = Wreck
      \/ /\ Refusal(ilist, path) # 0 \/ n < 0
         /\ \E x : r = kept(x)
      \/ /\ Refusal(ilist, path) = 0 /\ ~ (n < 0) /\ ~ HeadIsStray(fs) /\ a.ret = -1
         /\ r = gone
      \/ /\ Refusal(ilist, path) = 0 /\ ~ (n < 0) /\ ~ HeadIsStray(fs)
         /\ a.ret # -1 /\ a.ret \in DataBlocks
         /\ r = linked
  BY <1>2, Zenon
<1>7. \/ /\ r = Wreck
         /\ wrecked' = TRUE /\ struck' = struck /\ fs' = fs /\ ilist' = ilist
      \/ /\ r # Wreck /\ r.wrecked = FALSE
         /\ wrecked' = FALSE /\ struck' = (struck \/ r.struck)
         /\ fs' = r.fs /\ ilist' = r.ilist
  <2>1. r = Wreck \/ r.wrecked = FALSE
    BY <1>3, <1>4, <1>5, <1>6
  <2>2. r.wrecked = TRUE \/ r.wrecked = FALSE
    BY <1>5, <2>1
  <2> QED BY <1>1, <1>5, <2>1, <2>2, Zenon DEF Wrecks, Leaves
<1>8. r = Wreck => HeadIsStray(fs) \/ a.ret # -1
  BY <1>2, <1>3, <1>5
<1>9. \/ /\ r.ret = 0
         /\ HeadIsStray(fs) \/ a.ret # -1
         /\ wrecked' = TRUE /\ struck' = struck /\ fs' = fs /\ ilist' = ilist
      \/ /\ Refusal(ilist, path) # 0 \/ n < 0
         /\ wrecked' = FALSE /\ struck' = (struck \/ FALSE)
         /\ fs' = fs /\ ilist' = ilist
      \/ /\ Refusal(ilist, path) = 0 /\ ~ (n < 0) /\ ~ HeadIsStray(fs) /\ a.ret = -1
         /\ wrecked' = FALSE /\ struck' = (struck \/ FALSE)
         /\ fs' = gone.fs /\ ilist' = gone.ilist
      \/ /\ Refusal(ilist, path) = 0 /\ ~ (n < 0) /\ ~ HeadIsStray(fs)
         /\ a.ret # -1 /\ a.ret \in DataBlocks
         /\ linked # Wreck /\ r.ret = linked.ret
         /\ wrecked' = FALSE /\ struck' = (struck \/ linked.struck)
         /\ fs' = linked.fs /\ ilist' = linked.ilist
  BY <1>3, <1>5, <1>6, <1>7, <1>8, Zenon
<1> QED BY <1>9, Zenon DEF n, a, r, gone, linked, MkdirLeaves

\* What my_mkdir's last part leaves: the word for each part of it.
Dotted(s, n, block) ==
  [s EXCEPT !.disk[block][0] = EntryWord(ROOT_INODE_NUM, DotDot),
            !.disk[block][1] = EntryWord(n, Dot)]

\* If it is no wreck, it stays within the data blocks.
LinkMade(r, s, il, parent, n, name, tail, block) ==
  LET pos == parent.m_data.file_size
      idx == Translate!AddrIndex(Translate!BlockNum(pos * WORD_SIZE))
      t == TranslatePos(Given(Dotted(s, n, block), AddrStored(il, n, 0, block),
                              ROOT_INODE_NUM, parent), pos, TRUE)
  IN  /\ ~ (parent.block_addrs[idx] = 0 /\ HeadIsStray(Dotted(s, n, block)))
      /\ EntryBlocks(t.block, t.offset) \subseteq DataBlocks
      /\ r.ret = 0
      /\ r.fs = WriteEntry(t.s.fs, t.block, t.offset, n, name, tail)
      /\ r.ilist = t.s.ilist
      /\ r.struck = Strikes(t.s.fs, t.block, t.offset)

\* These are all the cases.
LEMMA LinkCases ==
  ASSUME NEW s, NEW il, NEW parent, NEW n, NEW name, NEW tail, NEW block,
         LinkDirectory(s, il, parent, n, name, tail, block) # Wreck
  PROVE  LinkMade(LinkDirectory(s, il, parent, n, name, tail, block),
                  s, il, parent, n, name, tail, block)
<1> DEFINE r == LinkDirectory(s, il, parent, n, name, tail, block)
           pos == parent.m_data.file_size
           idx == Translate!AddrIndex(Translate!BlockNum(pos * WORD_SIZE))
           t == TranslatePos(Given(Dotted(s, n, block), AddrStored(il, n, 0, block),
                                   ROOT_INODE_NUM, parent), pos, TRUE)
           stray == parent.block_addrs[idx] = 0 /\ HeadIsStray(Dotted(s, n, block))
           inside == EntryBlocks(t.block, t.offset) \subseteq DataBlocks
           strikes == Strikes(t.s.fs, t.block, t.offset)
           made == [Returned(0, WriteEntry(t.s.fs, t.block, t.offset, n, name, tail),
                             t.s.ilist)
                      EXCEPT !.struck = strikes]
<1>1. r = IF stray \/ ~ inside THEN Wreck ELSE made
  BY Zenon DEF LinkDirectory, Given, Dotted, AddrStored
<1>2. r # Wreck
  OBVIOUS
<1> HIDE DEF r, stray, inside, strikes
<1>3. ~ stray /\ inside /\ r = made
  BY <1>1, <1>2
<1> HIDE DEF t
<1>4. /\ r.ret = 0
      /\ r.fs = WriteEntry(t.s.fs, t.block, t.offset, n, name, tail)
      /\ r.ilist = t.s.ilist
      /\ r.struck = strikes
  BY <1>3 DEF Returned
<1> QED BY <1>3, <1>4, Zenon DEF LinkMade, r, stray, inside, strikes, t

\* my_mkdir changes the new inode, and addresses of the root.
LEMMA MkdirKeepsRoot ==
  ASSUME RootKept(ilist), NEW path, NEW set, NEW tail, Mkdir(path, set, tail)
  PROVE  RootKept(ilist')
<1> DEFINE n == AllocInode(ilist, DIR).ret
           sized == Sized(ilist, set)
           a == AllocInt(fs)
           parent == ilist[ROOT_INODE_NUM]
           name == DirName(path)[1]
           linked == LinkDirectory(a.fs, sized, parent, n, name, tail, a.ret)
<1>1. \/ ilist' = ilist
      \/ ilist' = GiveUp(a.fs, sized, n).ilist
      \/ linked # Wreck /\ ilist' = linked.ilist
  BY MkdirCases, Zenon DEF MkdirLeaves
<1>2. RootKept(AllocInode(ilist, DIR).ilist) /\ n # ROOT_INODE_NUM
  BY AllocInodeKeepsRoot
<1>3. RootKept(sized)
  <2> DEFINE new == AllocInode(ilist, DIR)
             inode == [new.ilist[n] EXCEPT !.m_data = DirMData(set)]
  <2>1. sized = [new.ilist EXCEPT ![n] = inode]
    BY DEF Sized, StoreDirMData
  <2> HIDE DEF inode, sized, n
  <2> QED BY <1>2, <2>1, OthersKeepRoot
<1> HIDE DEF n, sized, a, parent, name
<1>4. RootKept(GiveUp(a.fs, sized, n).ilist)
  BY <1>2, <1>3, FreeInodeKeepsRoot DEF GiveUp, Returned
<1>5. ASSUME linked # Wreck PROVE RootKept(linked.ilist)
  <2> DEFINE s == Given(Dotted(a.fs, n, a.ret), AddrStored(sized, n, 0, a.ret),
                        ROOT_INODE_NUM, parent)
  <2>1. RootKept(AddrStored(sized, n, 0, a.ret))
    BY <1>3, AddrKeepsRoot
  <2>2. RootKept(TranslatePos(s, parent.m_data.file_size, TRUE).s.ilist)
    BY <2>1, TranslatePosKeepsRoot
  <2> DEFINE jl == TranslatePos(s, parent.m_data.file_size, TRUE).s.ilist
  <2>3. linked.ilist = jl
    <3>1. LinkMade(linked, a.fs, sized, parent, n, name, tail, a.ret)
      BY <1>5, LinkCases
    <3> HIDE DEF linked
    <3> QED BY <3>1, Zenon DEF LinkMade
  <2>4. RootKept(jl)
    BY <2>2
  <2> HIDE DEF linked, jl
  <2> QED BY <2>3, <2>4
<1> HIDE DEF linked
<1> QED BY <1>1, <1>4, <1>5

\* write changes an inode that is no directory.
LEMMA WriteFileKeepsRoot ==
  ASSUME RootKept(ilist), NEW n, NEW d, WriteFile(n, d)
  PROVE  RootKept(ilist')
<1> DEFINE s == Given(fs, ilist, n, ilist[n])
           jl == TranslatePos(s, 0, TRUE).s.ilist
<1>1. n # ROOT_INODE_NUM
  BY DEF WriteFile, RootKept, RootMData
<1>2. RootKept(jl)
  BY TranslatePosKeepsRoot
<1>3. ilist' = ilist \/ ilist' = jl \/ ilist' = [jl EXCEPT ![n].m_data.file_size = SLOTS]
  BY Zenon DEF WriteFile, Given, Leaves, Wrecks
<1> HIDE DEF jl
<1>4. RootKept([jl EXCEPT ![n].m_data.file_size = SLOTS])
  BY <1>1, <1>2, OthersKeepRoot
<1> QED BY <1>2, <1>3, <1>4

\* Every call keeps the root's metadata.
LEMMA NextKeepsRoot ==
  ASSUME RootKept(ilist), [Next]_vars
  PROVE  RootKept(ilist')
<1>1. ASSUME NEW path \in Paths, NEW set \in BOOLEAN, NEW tail \in Tails,
             Mkdir(path, set, tail)
      PROVE  RootKept(ilist')
  BY <1>1, MkdirKeepsRoot
<1>2. ASSUME CreateFile PROVE RootKept(ilist')
  BY <1>2, AllocInodeKeepsRoot DEF CreateFile, Leaves
<1>3. ASSUME NEW n \in InodeNum, NEW d \in Data, WriteFile(n, d)
      PROVE  RootKept(ilist')
  BY <1>3, WriteFileKeepsRoot
<1>4. ASSUME NEW n \in InodeNum \ {ROOT_INODE_NUM}, Remove(n)
      PROVE  RootKept(ilist')
  BY <1>4, FreeInodeKeepsRoot DEF Remove, Leaves, Wrecks
<1>5. CASE UNCHANGED vars
  BY <1>5 DEF vars
<1> QED BY <1>1, <1>2, <1>3, <1>4, <1>5 DEF Next, Wrecked

\* Whatever is made, written and removed, the root's metadata is what init_fs
\* made it: in particular its size, on which reading a directory depends.
LEMMA RootIsKept == Spec => []RootIntact
<1>1. Init => RootIntact
  BY InitKeepsRoot DEF RootIntact
<1>2. RootIntact /\ [Next]_vars => RootIntact'
  BY NextKeepsRoot DEF RootIntact
<1> QED BY <1>1, <1>2, PTL DEF Spec

-----------------------------------------------------------------------------
(* Looking up *)

\* With such a root, nothing that reads a directory returns a byte count, and
\* namei finds the root, finds nothing, or refuses the path.
LEMMA LookupResults ==
  ASSUME NEW il, NEW path, RootKept(il)
  PROVE  /\ ReadDirectory(il[ROOT_INODE_NUM]) = 0
         /\ Namei(il, path) \in {0, -ENOENT, -EINVAL}
         /\ Readdir(il, path) = Namei(il, path)
<1>1. ReadDirectory(il[ROOT_INODE_NUM]) = 0
  BY DEF ReadDirectory, RootKept, RootMData
<1>2. Namei(il, path) \in {0, -ENOENT, -EINVAL}
  BY <1>1 DEF Namei, RootKept, RootMData
<1>3. Readdir(il, path) = Namei(il, path)
  BY <1>1, <1>2 DEF Readdir
<1> QED BY <1>1, <1>2, <1>3

\* l2helper.cpp:54: for every geometry and every path, the number of bytes that
\* read_directory takes for an error is never what namei or readdir returns.
THEOREM NoByteCounts == Spec => []ErrorsAreNegative
<1>1. RootIntact => ErrorsAreNegative
  <2> SUFFICES ASSUME RootKept(ilist), NEW path \in Paths
               PROVE  Namei(ilist, path) <= 0 /\ Readdir(ilist, path) <= 0
    BY DEF ErrorsAreNegative, RootIntact
  <2>1. /\ Namei(ilist, path) \in {0, -ENOENT, -EINVAL}
        /\ Readdir(ilist, path) = Namei(ilist, path)
    BY LookupResults
  <2> QED BY <2>1 DEF ENOENT, EINVAL
<1> QED BY <1>1, RootIsKept, PTL

-----------------------------------------------------------------------------
(* Words, and how they are read *)

\* An address or a sentinel is read as what it is.
LEMMA ProperWords ==
  /\ \A w \in DataBlocks \cup {Null} : LinkRead(w) = w
  /\ \A w \in DataBlocks \cup {Empty, Null} : EntryRead(w) = w
<1>1. Empty = 0 /\ Null = -1
  BY DEF Empty, Null
<1> QED BY <1>1, AsIntFacts, DataBlocksPositive DEF LinkRead, EntryRead

\* What a word is read as.
LEMMA ReadFacts ==
  ASSUME NEW w \in Int
  PROVE  /\ LinkRead(w) \in DataBlocks \cup {Null}
         /\ LinkRead(w) \in {w, Null}
         /\ EntryRead(w) \in Int
         /\ EntryRead(w) = Empty <=> w = Empty
         /\ w # Empty =>
              \/ AsInt(EntryRead(w)) = AsInt(w)
              \/ AsInt(EntryRead(w)) = -1 /\ AsInt(w) = 0
<1>1. AsInt(w) \in Int /\ AsInt(0) = 0 /\ AsInt(-1) = -1
  BY AsIntFacts
<1>2. AsInt(AsInt(w)) = AsInt(w)
  <2>1. INT_VALUES \in Nat /\ INT_VALUES > 1
    BY GeometryAssumption DEF INT_VALUES
  <2>2. CASE w % INT_VALUES = INT_VALUES - 1
    BY <1>1, <2>2 DEF AsInt
  <2>3. CASE w % INT_VALUES # INT_VALUES - 1
    <3> DEFINE m == w % INT_VALUES
    <3>1. m \in 0 .. INT_VALUES - 1
      BY <2>1
    <3>2. AsInt(w) = m
      BY <2>3 DEF AsInt
    <3> HIDE DEF m
    <3>3. m % INT_VALUES = m
      BY <2>1, <3>1
    <3> QED BY <2>3, <3>2, <3>3 DEF AsInt, m
  <2> QED BY <2>2, <2>3
<1> QED BY <1>1, <1>2 DEF LinkRead, EntryRead, Empty, Null

\* A multiple of the divisor adds nothing to what is left over.
LEMMA SameRemainder ==
  ASSUME NEW w \in Int, NEW v \in Nat \ {0}, NEW e \in Int
  PROVE  (w + v * e) % v = w % v
<1> DEFINE p == v * e
           x == w + p
           a == w \div v
           b == x \div v
           k == w % v
           l == x % v
           c == a + e - b
<1>1. p \in Int /\ x \in Int
  OBVIOUS
<1>2. x = w + p /\ p = v * e
  OBVIOUS
<1> HIDE DEF p, x
<1>3. /\ a \in Int /\ b \in Int /\ c \in Int
      /\ w = v * a + k /\ k \in 0 .. v - 1
      /\ x = v * b + l /\ l \in 0 .. v - 1
  BY <1>1
<1>4. k = l <=> (w + v * e) % v = w % v
  BY <1>2
<1>5. c = a + e - b
  OBVIOUS
<1> HIDE DEF a, b, k, l, c
<1>6. v * c = v * a + v * e - v * b
  BY <1>3, <1>5
<1>7. v * c = l - k
  BY <1>1, <1>2, <1>3, <1>6
<1>8. ~ (c >= 1)
  <2>1. c >= 1 => v * c >= v
    BY <1>3
  <2> QED BY <1>3, <1>7, <2>1
<1>9. ~ (c <= -1)
  <2>1. c <= -1 => v * c <= -v
    BY <1>3
  <2> QED BY <1>3, <1>7, <2>1
<1>10. c = 0 /\ v * 0 = 0
  BY <1>3, <1>8, <1>9
<1> QED BY <1>3, <1>4, <1>7, <1>10

\* Writing the topmost byte leaves the lower half of a word.
LEMMA TopByteAbove ==
  ASSUME NEW w \in Int, NEW k \in Nat
  PROVE  TopByteSet(w, k) \in Int /\ AsInt(TopByteSet(w, k)) = AsInt(w)
<1> DEFINE v == INT_VALUES
           q == w \div (v * v)
           d == k - q
           x == TopByteSet(w, k)
<1>1. v \in Nat \ {0} /\ v * v \in Nat \ {0}
  BY GeometryAssumption DEF INT_VALUES
<1>2. q \in Int /\ w = (v * v) * q + (w % (v * v)) /\ w % (v * v) \in Nat
  <2> DEFINE vv == v * v
  <2>1. vv \in Nat \ {0}
    BY <1>1
  <2> HIDE DEF vv
  <2>2. w = vv * (w \div vv) + (w % vv) /\ w \div vv \in Int /\ w % vv \in Nat
    BY <2>1
  <2> QED BY <2>2 DEF vv
<1>3. x = (w % (v * v)) + (v * v) * k
  BY DEF TopByteSet, TopByte
<1> HIDE DEF v, q, x
<1>4. d \in Int /\ (v * v) * d = (v * v) * k - (v * v) * q
  BY <1>1, <1>2
<1>5. x = w + (v * v) * d
  BY <1>1, <1>2, <1>3, <1>4
<1>6. x \in Int /\ x = w + v * (v * d)
  BY <1>1, <1>4, <1>5
<1>7. x % v = w % v
  <2> DEFINE e == v * d
  <2>1. e \in Int
    BY <1>1, <1>4
  <2>2. x = w + v * e
    BY <1>6
  <2> HIDE DEF e
  <2> QED BY <1>1, <2>1, <2>2, SameRemainder
<1> QED BY <1>6, <1>7 DEF AsInt, v, x

\* A word of an entry is one.
LEMMA EntryWordIsInt ==
  ASSUME NEW k \in Int, NEW name \in Int PROVE EntryWord(k, name) \in Int
<1>1. INT_VALUES \in Int
  BY GeometryAssumption DEF INT_VALUES
<1>2. INT_VALUES * name \in Int
  BY <1>1
<1> QED BY <1>2 DEF EntryWord

-----------------------------------------------------------------------------
(* The list as the calls read it *)

\* The words of a block as they are read.
LEMMA BlockReadFacts ==
  ASSUME NEW c \in Block
  PROVE  /\ BlockRead(c) \in Block
         /\ BlockRead(c)[0] = LinkRead(c[0])
         /\ \A i \in EntrySlot : BlockRead(c)[i] = EntryRead(c[i])
<1>1. EntrySlot \subseteq Slot /\ 0 \in Slot /\ 0 \notin EntrySlot /\ Slot \subseteq Int
  BY GeometryAssumption DEF EntrySlot, Slot
<1>2. \A i \in Slot : c[i] \in Int
  BY DEF Block
<1>3. LinkRead(c[0]) \in Int
  BY <1>1, <1>2, ReadFacts, DataBlocksPositive DEF Null
<1>4. \A i \in Slot : EntryRead(c[i]) \in Int
  BY <1>2, ReadFacts
<1> QED BY <1>1, <1>3, <1>4 DEF BlockRead, Block

\* The list as it is read is one, as to its type.
LEMMA AsReadFacts ==
  ASSUME NEW s \in RawState
  PROVE  /\ AsRead(s) \in FreeListState
         /\ AsRead(s).free_head = LinkRead(s.free_head)
         /\ \A b \in DataBlocks : AsRead(s).disk[b] = BlockRead(s.disk[b])
         /\ ~ HeadIsStray(s) => /\ s.free_head \in DataBlocks \cup {Null}
                                /\ AsRead(s).free_head = s.free_head
<1>1. s.free_head \in Int /\ s.disk \in [DataBlocks -> Block]
  BY DEF RawState
<1>2. LinkRead(s.free_head) \in DataBlocks \cup {Null}
  BY <1>1, ReadFacts
<1>3. \A b \in DataBlocks : BlockRead(s.disk[b]) \in Block
  BY <1>1, BlockReadFacts
<1>4. AsRead(s) \in FreeListState
  BY <1>2, <1>3 DEF AsRead, FreeListState
<1> QED BY <1>4, ProperWords DEF AsRead, HeadIsStray

\* It is known by its parts.
LEMMA AsReadIs ==
  ASSUME NEW s \in RawState, NEW t \in FreeListState,
         t.free_head = LinkRead(s.free_head),
         \A b \in DataBlocks : t.disk[b] = BlockRead(s.disk[b])
  PROVE  AsRead(s) = t
<1>1. t.disk = [b \in DataBlocks |-> BlockRead(s.disk[b])]
  BY DEF FreeListState
<1> QED BY <1>1 DEF AsRead, FreeListState

\* A block written is read as what was written.
LEMMA WriteReads ==
  ASSUME NEW s \in RawState, NEW b \in DataBlocks, NEW c \in Block
  PROVE  LET t == [s EXCEPT !.disk[b] = c]
         IN  t \in RawState /\ AsRead(t) = [AsRead(s) EXCEPT !.disk[b] = BlockRead(c)]
<1> DEFINE t == [s EXCEPT !.disk[b] = c]
           r == [AsRead(s) EXCEPT !.disk[b] = BlockRead(c)]
<1>1. /\ t \in RawState /\ t.free_head = s.free_head
      /\ \A d \in DataBlocks : t.disk[d] = IF d = b THEN c ELSE s.disk[d]
  BY DEF RawState
<1>2. /\ AsRead(s) \in FreeListState
      /\ AsRead(s).free_head = LinkRead(s.free_head)
      /\ \A d \in DataBlocks : AsRead(s).disk[d] = BlockRead(s.disk[d])
  BY AsReadFacts
<1>3. BlockRead(c) \in Block
  BY BlockReadFacts
<1>4. /\ r \in FreeListState /\ r.free_head = LinkRead(s.free_head)
      /\ \A d \in DataBlocks :
           r.disk[d] = IF d = b THEN BlockRead(c) ELSE BlockRead(s.disk[d])
  BY <1>2, <1>3 DEF FreeListState
<1> HIDE DEF t, r
<1>5. AsRead(t) = r
  BY <1>1, <1>4, AsReadIs
<1> QED BY <1>1, <1>5 DEF t, r

\* The same head, with the same entries emptied.
LEMMA SameHead ==
  ASSUME NEW s \in RawState, s.free_head \in DataBlocks
  PROVE  /\ AsRead(s).free_head = s.free_head
         /\ HeadNode(s) \in Block
         /\ HeadNode(AsRead(s)) = BlockRead(HeadNode(s))
         /\ FilledEntries(AsRead(s)) = FilledEntries(s)
         /\ EmptyEntries(AsRead(s)) = EmptyEntries(s)
<1>1. HeadNode(s) \in Block
  BY DEF RawState, HeadNode
<1>2. AsRead(s).free_head = s.free_head
  BY AsReadFacts, ProperWords
<1>3. HeadNode(AsRead(s)) = BlockRead(HeadNode(s))
  BY <1>2, AsReadFacts DEF HeadNode
<1>4. \A i \in EntrySlot : HeadNode(AsRead(s))[i] = Empty <=> HeadNode(s)[i] = Empty
  <2> TAKE i \in EntrySlot
  <2>1. HeadNode(s)[i] \in Int
    BY <1>1 DEF Block, EntrySlot, Slot
  <2>2. HeadNode(AsRead(s))[i] = EntryRead(HeadNode(s)[i])
    BY <1>1, <1>3, BlockReadFacts
  <2> QED BY <2>1, <2>2, ReadFacts
<1> QED BY <1>1, <1>2, <1>3, <1>4 DEF FilledEntries, EmptyEntries

\* An entry of the head is written as it is read.
LEMMA SetEntryReads ==
  ASSUME NEW s \in RawState, s.free_head \in DataBlocks, NEW i \in EntrySlot,
         NEW w \in DataBlocks \cup {Empty}
  PROVE  LET t == SetEntry(s, i, w)
         IN  /\ t \in RawState
             /\ t.free_head = s.free_head
             /\ AsRead(t) = SetEntry(AsRead(s), i, w)
<1> DEFINE h == s.free_head
           c == [HeadNode(s) EXCEPT ![i] = w]
           t == SetEntry(s, i, w)
           q == AsRead(s)
           e == [HeadNode(q) EXCEPT ![i] = w]
<1>1. /\ q.free_head = h
      /\ HeadNode(s) \in Block
      /\ HeadNode(q) = BlockRead(HeadNode(s))
  BY SameHead
<1>2. EntrySlot \subseteq Slot /\ 0 \in Slot /\ 0 \notin EntrySlot
  BY GeometryAssumption DEF EntrySlot, Slot
<1>3. w \in Int /\ EntryRead(w) = w
  BY ProperWords, DataBlocksPositive DEF Empty
<1>4. c \in Block /\ c[0] = HeadNode(s)[0]
      /\ \A j \in EntrySlot : c[j] = IF j = i THEN w ELSE HeadNode(s)[j]
  BY <1>1, <1>2, <1>3 DEF Block
<1>5. BlockRead(c) = e
  <2> DEFINE k == HeadNode(s)
             l == BlockRead(k)
             m == BlockRead(c)
  <2>1. e = [l EXCEPT ![i] = w]
    BY <1>1
  <2>2. /\ k \in Block /\ c \in Block
        /\ c[0] = k[0] /\ \A j \in EntrySlot : c[j] = IF j = i THEN w ELSE k[j]
    BY <1>1, <1>4
  <2> HIDE DEF c, e, k
  <2>3. /\ l \in [Slot -> Int] /\ m \in [Slot -> Int]
        /\ l[0] = LinkRead(k[0]) /\ m[0] = LinkRead(c[0])
        /\ \A j \in EntrySlot : l[j] = EntryRead(k[j]) /\ m[j] = EntryRead(c[j])
    BY <2>2, BlockReadFacts DEF Block
  <2> HIDE DEF l, m
  <2>4. e \in [Slot -> Int] /\ \A j \in Slot : e[j] = IF j = i THEN w ELSE l[j]
    BY <1>2, <1>3, <2>1, <2>3
  <2>5. m[0] = e[0]
    BY <1>2, <2>2, <2>3, <2>4
  <2>6. \A j \in EntrySlot : m[j] = e[j]
    BY <1>2, <1>3, <2>2, <2>3, <2>4
  <2>7. \A j \in Slot : j = 0 \/ j \in EntrySlot
    BY DEF Slot, EntrySlot
  <2>8. m = e
    BY <2>3, <2>4, <2>5, <2>6, <2>7
  <2> QED BY <2>8 DEF m
<1>6. t = [s EXCEPT !.disk[h] = c] /\ SetEntry(q, i, w) = [q EXCEPT !.disk[h] = e]
  BY <1>1 DEF SetEntry
<1>7. [s EXCEPT !.disk[h] = c].free_head = h
  BY DEF RawState
<1> HIDE DEF t, h, c, q, e
<1>8. t \in RawState /\ AsRead(t) = [q EXCEPT !.disk[h] = BlockRead(c)]
  BY <1>4, <1>6, WriteReads DEF q, h
<1> QED BY <1>5, <1>6, <1>7, <1>8 DEF t, h, q

-----------------------------------------------------------------------------
(* The allocator, on the list as it is read *)

\* What alloc_block does to a list s that was written into, and to the same list as
\* it is read: the same, but where the latter gives none the former may give 0.
ReadAlike(r, q) ==
  /\ r.fs \in RawState
  /\ AsRead(r.fs) = q.fs
  /\ r.ret \in Int
  /\ r.ret = q.ret \/ (r.ret = 0 /\ q.ret = -1)
  /\ r.ret = -1 => ~ HeadIsStray(r.fs)

\* It is given such a list as long as it can read the head.
LEMMA AllocReads ==
  ASSUME NEW s \in RawState, ~ HeadIsStray(s)
  PROVE  ReadAlike(AllocInt(s), AllocInt(AsRead(s)))
<1> DEFINE q == AsRead(s)
           h == s.free_head
<1>1. /\ q \in FreeListState
      /\ h \in DataBlocks \cup {Null}
      /\ q.free_head = h
  BY AsReadFacts
<1>2. Null \notin DataBlocks /\ Null = -1 /\ AsInt(-1) = -1
  BY DataBlocksPositive, AsIntFacts DEF Null
<1>3. CASE h = Null
  <2>1. AllocInt(s) = [ret |-> -1, fs |-> s] /\ AllocInt(q) = [ret |-> -1, fs |-> q]
    BY <1>1, <1>2, <1>3 DEF AllocInt, AllocBlock
  <2> HIDE DEF q
  <2> QED BY <2>1 DEF ReadAlike, q
<1>4. CASE h # Null
  <2>1. h \in DataBlocks
    BY <1>1, <1>4
  <2>2. /\ q.free_head = h
        /\ HeadNode(s) \in Block
        /\ HeadNode(q) = BlockRead(HeadNode(s))
        /\ FilledEntries(q) = FilledEntries(s)
    BY <2>1, SameHead
  <2>3. CASE FilledEntries(s) # {}
    <3> DEFINE i == Least(FilledEntries(s))
               w == HeadNode(s)[i]
               t == SetEntry(s, i, Empty)
               p == SetEntry(q, i, Empty)
    <3>1. i \in FilledEntries(s)
      BY <2>3, LeastIsMember DEF FilledEntries
    <3>2. i \in EntrySlot /\ w # Empty /\ w \in Int
      BY <2>2, <3>1 DEF FilledEntries, Block, EntrySlot, Slot
    <3>3. t \in RawState /\ t.free_head = h /\ AsRead(t) = p
      BY <2>1, <3>2, SetEntryReads
    <3>4. HeadNode(q)[i] = EntryRead(w)
      BY <2>2, <3>2, BlockReadFacts
    <3>5. /\ AllocInt(s) = [ret |-> AsInt(w), fs |-> t]
          /\ AllocInt(q) = [ret |-> AsInt(EntryRead(w)), fs |-> p]
      BY <1>4, <2>2, <2>3, <3>4 DEF AllocInt, AllocBlock, TakeEntry
    <3> HIDE DEF q, h, i, w, t, p
    <3>6. /\ AsInt(w) \in Int
          /\ \/ AsInt(EntryRead(w)) = AsInt(w)
             \/ AsInt(EntryRead(w)) = -1 /\ AsInt(w) = 0
      BY <3>2, ReadFacts, AsIntFacts
    <3>7. ~ HeadIsStray(t)
      BY <2>1, <3>3 DEF HeadIsStray
    <3> QED BY <3>3, <3>5, <3>6, <3>7 DEF ReadAlike, q
  <2>4. CASE FilledEntries(s) = {}
    <3> DEFINE w == HeadNode(s)[0]
               t == [s EXCEPT !.free_head = w]
               p == [q EXCEPT !.free_head = LinkRead(w)]
    <3>1. 0 \in Slot
      BY GeometryAssumption DEF Slot
    <3>2. w \in Int /\ HeadNode(q)[0] = LinkRead(w)
      BY <2>2, <3>1, BlockReadFacts DEF Block
    <3>3. AsInt(h) = h
      BY <2>1, AsIntFacts
    <3>4. AllocInt(s) = [ret |-> h, fs |-> t] /\ AllocInt(q) = [ret |-> h, fs |-> p]
      BY <1>4, <2>2, <2>4, <3>2, <3>3 DEF AllocInt, AllocBlock, TakeHead
    <3>5. t \in RawState /\ t.free_head = w /\ t.disk = s.disk
      BY <3>2 DEF RawState
    <3>6. LinkRead(w) \in DataBlocks \cup {Null}
      BY <3>2, ReadFacts
    <3>7. p \in FreeListState /\ p.free_head = LinkRead(w) /\ p.disk = q.disk
      BY <1>1, <3>6 DEF FreeListState
    <3>8. \A b \in DataBlocks : q.disk[b] = BlockRead(s.disk[b])
      BY AsReadFacts
    <3> HIDE DEF q, h, w, t, p
    <3>9. AsRead(t) = p
      BY <3>5, <3>7, <3>8, AsReadIs
    <3>10. h # -1 /\ h \in Int
      BY <1>2, <2>1, DataBlocksPositive
    <3> QED BY <3>4, <3>5, <3>9, <3>10 DEF ReadAlike, q
  <2> QED BY <2>3, <2>4
<1> QED BY <1>3, <1>4

\* What free_block does to a list as it is, and as it is read: the same.
FreedAlike(r, q) ==
  /\ r.fs \in RawState /\ ~ HeadIsStray(r.fs)
  /\ AsRead(r.fs) = q.fs
  /\ r.ret = q.ret

\* The same of what frees a block.
LEMMA FreeReads ==
  ASSUME NEW s \in RawState, ~ HeadIsStray(s), NEW b \in DataBlocks \cup {0}
  PROVE  FreedAlike(FreeBlock(s, b), FreeBlock(AsRead(s), b))
<1> DEFINE q == AsRead(s)
           h == s.free_head
<1>1. /\ q \in FreeListState
      /\ h \in DataBlocks \cup {Null}
      /\ q.free_head = h
  BY AsReadFacts
<1>2. CASE b = 0
  <2>1. FreeBlock(s, b) = [ret |-> 0, fs |-> s] /\ FreeBlock(q, b) = [ret |-> 0, fs |-> q]
    BY <1>2 DEF FreeBlock
  <2> HIDE DEF q
  <2> QED BY <2>1 DEF FreedAlike, q
<1>3. CASE b # 0 /\ h = Null
  <2>1. FreeBlock(s, b) = [ret |-> -1, fs |-> s] /\ FreeBlock(q, b) = [ret |-> -1, fs |-> q]
    BY <1>1, <1>3 DEF FreeBlock
  <2> HIDE DEF q
  <2> QED BY <2>1 DEF FreedAlike, q
<1>4. CASE b # 0 /\ h # Null
  <2>1. h \in DataBlocks /\ b \in DataBlocks
    BY <1>1, <1>4
  <2>2. EmptyEntries(q) = EmptyEntries(s)
    BY <2>1, SameHead
  <2>3. CASE EmptyEntries(s) # {}
    <3> DEFINE i == Least(EmptyEntries(s))
               t == SetEntry(s, i, b)
               p == SetEntry(q, i, b)
    <3>1. i \in EntrySlot
      BY <2>3, LeastIsMember DEF EmptyEntries
    <3>2. t \in RawState /\ t.free_head = h /\ AsRead(t) = p
      BY <2>1, <3>1, SetEntryReads
    <3>3. FreeBlock(s, b) = [ret |-> 0, fs |-> t] /\ FreeBlock(q, b) = [ret |-> 0, fs |-> p]
      BY <1>1, <1>4, <2>2, <2>3 DEF FreeBlock, PutEntry
    <3> HIDE DEF q, h, i, t, p
    <3>4. ~ HeadIsStray(t)
      BY <2>1, <3>2 DEF HeadIsStray
    <3> QED BY <3>2, <3>3, <3>4 DEF FreedAlike, q
  <2>4. CASE EmptyEntries(s) = {}
    <3> DEFINE c == [ZeroBlock EXCEPT ![0] = h]
               t == [free_head |-> b, disk |-> [s.disk EXCEPT ![b] = c]]
               p == [free_head |-> b, disk |-> [q.disk EXCEPT ![b] = c]]
    <3>1. FreeBlock(s, b) = [ret |-> 0, fs |-> t] /\ FreeBlock(q, b) = [ret |-> 0, fs |-> p]
      BY <1>1, <1>4, <2>2, <2>4 DEF FreeBlock, PutHead
    <3>2. 0 \in Slot /\ h \in Int
      <4>1. 0 \in Slot
        BY GeometryAssumption DEF Slot
      <4>2. DataBlocks \subseteq Nat
        BY DataBlocksPositive
      <4> HIDE DEF h
      <4> QED BY <2>1, <4>1, <4>2
    <3>3. c \in Block /\ c[0] = h /\ \A j \in EntrySlot : c[j] = 0
      BY <3>2 DEF ZeroBlock, Block, EntrySlot, Slot
    <3>4. BlockRead(c) = c
      <4>1. EntryRead(0) = 0 /\ LinkRead(h) = h
        BY <2>1, ProperWords DEF Empty
      <4>2. \A j \in Slot : j = 0 \/ j \in EntrySlot
        BY DEF Slot, EntrySlot
      <4>3. BlockRead(c) \in Block /\ \A j \in Slot : BlockRead(c)[j] = c[j]
        BY <3>3, <4>1, <4>2, BlockReadFacts
      <4> HIDE DEF c
      <4> QED BY <3>3, <4>3 DEF Block
    <3>5. b \in Int
      BY <2>1, DataBlocksPositive
    <3>6. /\ t \in RawState /\ t.free_head = b
          /\ \A d \in DataBlocks : t.disk[d] = IF d = b THEN c ELSE s.disk[d]
      BY <3>3, <3>5 DEF RawState
    <3>7. /\ p \in FreeListState /\ p.free_head = b
          /\ \A d \in DataBlocks : p.disk[d] = IF d = b THEN c ELSE q.disk[d]
      BY <1>1, <2>1, <3>3 DEF FreeListState
    <3>8. LinkRead(b) = b /\ \A d \in DataBlocks : q.disk[d] = BlockRead(s.disk[d])
      BY <2>1, ProperWords, AsReadFacts
    <3> HIDE DEF q, h, c, t, p
    <3>9. AsRead(t) = p
      BY <3>4, <3>6, <3>7, <3>8, AsReadIs
    <3>10. ~ HeadIsStray(t)
      BY <2>1, <3>6 DEF HeadIsStray
    <3> QED BY <3>1, <3>6, <3>9, <3>10 DEF FreedAlike, q
  <2> QED BY <2>3, <2>4
<1> QED BY <1>2, <1>3, <1>4

\* So free_inode does the same, given the addresses of data blocks.
LEMMA FreeInodeReads ==
  ASSUME NEW s \in RawState, ~ HeadIsStray(s),
         NEW il, NEW n \in InodeNum, HoldsData(il, n)
  PROVE  LET r == FreeInode(s, il, n)
             q == FreeInode(AsRead(s), il, n)
         IN  FreedAlike(r, q) /\ r.ilist = q.ilist
<1> DEFINE addrs == il[n].block_addrs
<1>1. PICK after :
        /\ after[0] = Nothing(s)
        /\ \A i \in AddrIdx : after[i + 1] = FreeTurn(after[i], i, addrs)
        /\ FreeInode(s, il, n) =
             [ret |-> after[INODE_BLOCKS].ret,
              fs |-> after[INODE_BLOCKS].fs,
              ilist |-> IF after[INODE_BLOCKS].ret = 0
                        THEN [il EXCEPT ![n] = ClearedInode] ELSE il]
  BY FreeInodeLoop
<1>2. PICK seen :
        /\ seen[0] = Nothing(AsRead(s))
        /\ \A i \in AddrIdx : seen[i + 1] = FreeTurn(seen[i], i, addrs)
        /\ FreeInode(AsRead(s), il, n) =
             [ret |-> seen[INODE_BLOCKS].ret,
              fs |-> seen[INODE_BLOCKS].fs,
              ilist |-> IF seen[INODE_BLOCKS].ret = 0
                        THEN [il EXCEPT ![n] = ClearedInode] ELSE il]
  BY FreeInodeLoop
<1> DEFINE T == {k \in Nat : FreedAlike(after[k], seen[k])}
<1>3. 0 \in T
  BY <1>1, <1>2 DEF FreedAlike, Nothing
<1>4. ASSUME NEW k \in Nat, k < INODE_BLOCKS, k \in T PROVE k + 1 \in T
  <2>1. k \in AddrIdx
    BY <1>4, AddrIdxFacts DEF AddrIdx
  <2> DEFINE r == after[k]
             q == seen[k]
             b == addrs[k]
  <2>2. FreedAlike(r, q)
    BY <1>4
  <2>3. b \in DataBlocks \cup {0} /\ (k \notin DirectIdx => b = 0)
    BY <2>1 DEF HoldsData
  <2>4. /\ after[k + 1] = FreeTurn(r, k, addrs)
        /\ seen[k + 1] = FreeTurn(q, k, addrs)
    BY <1>1, <1>2, <2>1
  <2>5. /\ FreeTurn(r, k, addrs) = IF r.ret # 0 THEN r ELSE FreeBlock(r.fs, b)
        /\ FreeTurn(q, k, addrs) = IF q.ret # 0 THEN q ELSE FreeBlock(q.fs, b)
    BY <2>1, <2>3, FreeAddrDirect DEF FreeTurn
  <2> HIDE DEF r, q, b
  <2>6. FreedAlike(FreeBlock(r.fs, b), FreeBlock(q.fs, b))
    BY <2>2, <2>3, FreeReads DEF FreedAlike
  <2>7. FreedAlike(FreeTurn(r, k, addrs), FreeTurn(q, k, addrs))
    BY <2>2, <2>5, <2>6, Zenon DEF FreedAlike
  <2> QED BY <2>4, <2>7
<1> HIDE DEF T
<1>5. INODE_BLOCKS \in T
  BY <1>3, <1>4, AddrIdxFacts, UpTo
<1>6. FreedAlike(after[INODE_BLOCKS], seen[INODE_BLOCKS])
  BY <1>5 DEF T
<1> DEFINE r == FreeInode(s, il, n)
           q == FreeInode(AsRead(s), il, n)
           x == after[INODE_BLOCKS]
           y == seen[INODE_BLOCKS]
           cleared == [il EXCEPT ![n] = ClearedInode]
<1>7. /\ r = [ret |-> x.ret, fs |-> x.fs,
              ilist |-> IF x.ret = 0 THEN cleared ELSE il]
      /\ q = [ret |-> y.ret, fs |-> y.fs,
              ilist |-> IF y.ret = 0 THEN cleared ELSE il]
  BY <1>1, <1>2
<1>8. FreedAlike(x, y)
  BY <1>6
<1> HIDE DEF r, q, x, y, cleared
<1>9. r.ret = x.ret /\ q.ret = y.ret /\ r.fs = x.fs /\ q.fs = y.fs /\ x.ret = y.ret
      /\ r.ilist = q.ilist
  BY <1>7, <1>8 DEF FreedAlike
<1> QED BY <1>8, <1>9 DEF FreedAlike, r, q

-----------------------------------------------------------------------------
(* The blocks, on the list as it is read *)

\* Only what an inode's addresses are matters.
LEMMA SameAddrsKept ==
  ASSUME NEW f, NEW il, Kept(f, il), NEW jl \in IList,
         \A k \in InodeNum : jl[k].block_addrs = il[k].block_addrs
  PROVE  Kept(f, jl)
BY SameAddrsSeparate DEF Kept, Separate

\* A list that is cut short keeps the blocks apart.
LEMMA CutSeparate ==
  ASSUME NEW f, NEW il, Separate(f, il), NEW g, Cut(f, g)
  PROVE  Separate(g, il)
<1>1. WellFormed(g) /\ FreeBlocks(g) \subseteq FreeBlocks(f)
  BY CutContract DEF Separate
<1> QED BY <1>1 DEF Separate, HeldNotFree

\* So does the list that init_fs makes, as it is read.
LEMMA InitKept == ASSUME LinkedGeometry PROVE Kept(InitFs, InitIList)
<1>1. Separate(InitFs, InitIList) /\ WellFormed(InitFs)
  BY InitSeparate DEF Separate
<1>2. InitFs \in FreeListState /\ Nodes(InitFs) \subseteq DataBlocks
  BY <1>1, NodesAreData DEF WellFormed
<1>3. InitFs \in RawState /\ InitFs.free_head \in DataBlocks \cup {Null}
  <2>1. InitFs.free_head \in DataBlocks \cup {Null} /\ DataBlocks \cup {Null} \subseteq Int
    BY <1>2, DataBlocksPositive DEF FreeListState, Null
  <2> QED BY <1>2, <2>1 DEF FreeListState, RawState
<1> DEFINE s == InitFs
           t == AsRead(s)
<1>4. /\ t \in FreeListState /\ t.free_head = s.free_head
      /\ \A b \in DataBlocks : t.disk[b] = BlockRead(s.disk[b])
  BY <1>3, AsReadFacts, ProperWords
<1>5. \A n \in Nodes(s), i \in EntrySlot : s.disk[n][i] \in DataBlocks \cup {Empty, Null}
  BY <1>1 DEF WellFormed
<1>6. \A n \in Nodes(s) : s.disk[n] \in Block
  BY <1>2 DEF FreeListState
<1> HIDE DEF s, t
<1>7. 0 \in Slot
  BY GeometryAssumption DEF Slot
<1>8. ASSUME NEW n \in Nodes(s)
      PROVE  /\ Link(t, n) \in {Link(s, n), Null}
             /\ \A i \in EntrySlot : t.disk[n][i] = s.disk[n][i]
  <2>1. s.disk[n] \in Block /\ s.disk[n][0] \in Int /\ n \in DataBlocks
    BY <1>2, <1>6, <1>7 DEF Block, s
  <2>2. t.disk[n] = BlockRead(s.disk[n])
    BY <1>4, <2>1
  <2>3. /\ t.disk[n][0] = LinkRead(s.disk[n][0])
        /\ \A i \in EntrySlot : t.disk[n][i] = EntryRead(s.disk[n][i])
    BY <2>1, <2>2, BlockReadFacts
  <2>4. LinkRead(s.disk[n][0]) \in {s.disk[n][0], Null}
    BY <2>1, ReadFacts
  <2>5. \A i \in EntrySlot : EntryRead(s.disk[n][i]) = s.disk[n][i]
    BY <1>5, ProperWords
  <2> QED BY <2>3, <2>4, <2>5 DEF Link
<1>9. Cut(s, t)
  BY <1>4, <1>8 DEF Cut
<1> QED BY <1>1, <1>3, <1>9, CutSeparate DEF Kept, s, t

\* A block that is not free may be written over.
LEMMA WriteKept ==
  ASSUME NEW f, NEW il, Kept(f, il), NEW b \in DataBlocks \ Free(f), NEW c \in Block
  PROVE  /\ Kept([f EXCEPT !.disk[b] = c], il)
         /\ Free([f EXCEPT !.disk[b] = c]) = Free(f)
         /\ [f EXCEPT !.disk[b] = c].free_head = f.free_head
<1> DEFINE g == [f EXCEPT !.disk[b] = c]
           s == AsRead(f)
           d == BlockRead(c)
           t == [s EXCEPT !.disk[b] = d]
<1>1. g \in RawState /\ AsRead(g) = t
  BY WriteReads DEF Kept
<1>2. d \in Block /\ Separate(s, il) /\ WellFormed(s)
  BY BlockReadFacts DEF Kept, Separate
<1>3. g.free_head = f.free_head
  BY DEF Kept, RawState
<1>4. b \in DataBlocks \ FreeBlocks(s)
  BY DEF Free
<1> HIDE DEF d, s, g
<1>5. Separate(t, il) /\ FreeBlocks(t) = FreeBlocks(s)
  BY <1>2, <1>4, WriteSeparate, WriteContract
<1> HIDE DEF t
<1> QED BY <1>1, <1>3, <1>5 DEF Kept, Free, g, s

\* alloc_block, for the address i of the inode n: it fails, or gives 0, and every
\* block stays where it is; or it gives a block that nobody has.
GrownKept(r, f, il, n, i) ==
  \/ /\ r.ret = -1 \/ r.ret = 0
     /\ Kept(r.fs, il) /\ Free(r.fs) = Free(f)
     /\ r.ret = -1 => ~ HeadIsStray(r.fs)
  \/ /\ r.ret # -1 /\ r.ret # 0
     /\ r.ret \in DataBlocks \ Free(r.fs)
     /\ Kept(r.fs, AddrStored(il, n, i, r.ret))

\* There is nothing else that it does.
LEMMA GrowKept ==
  ASSUME NEW f, NEW il, Kept(f, il), ~ HeadIsStray(f),
         NEW n \in InodeNum, NEW i \in DirectIdx
  PROVE  GrownKept(AllocInt(f), f, il, n, i)
<1> DEFINE r == AllocInt(f)
           q == AllocInt(AsRead(f))
<1>1. ReadAlike(r, q)
  BY AllocReads DEF Kept
<1>2. Grown(q, AsRead(f), il, n, i)
  BY GrowSeparate DEF Kept
<1>3. q.ret # -1 => q.ret # 0
  BY <1>2, DataBlocksPositive DEF Grown, Empty
<1> HIDE DEF r, q
<1>4. CASE q.ret = -1
  <2>1. Separate(q.fs, il) /\ FreeBlocks(q.fs) = FreeBlocks(AsRead(f))
    BY <1>2, <1>4 DEF Grown
  <2>2. r.ret = -1 \/ r.ret = 0
    BY <1>1, <1>4 DEF ReadAlike
  <2>3. Kept(r.fs, il) /\ Free(r.fs) = Free(f)
    BY <1>1, <2>1 DEF ReadAlike, Kept, Free
  <2> QED BY <1>1, <2>2, <2>3 DEF GrownKept, ReadAlike, r
<1>5. CASE q.ret # -1
  <2>1. q.ret \in DataBlocks \ FreeBlocks(q.fs) /\ Separate(q.fs, AddrStored(il, n, i, q.ret))
    BY <1>2, <1>5 DEF Grown
  <2>2. r.ret = q.ret
    BY <1>1, <1>5 DEF ReadAlike
  <2>3. r.ret \in DataBlocks \ Free(r.fs) /\ Kept(r.fs, AddrStored(il, n, i, r.ret))
    BY <1>1, <2>1, <2>2 DEF ReadAlike, Kept, Free
  <2> QED BY <1>3, <1>5, <2>2, <2>3 DEF GrownKept, r
<1> QED BY <1>4, <1>5

\* What free_inode leaves: the inode cleared and its blocks free, or, at an empty
\* list, nothing changed; the blocks are apart.
FreedKept(r, f, il, n) ==
  LET B == InodeBlocks(il[n].block_addrs)
  IN  /\ Kept(r.fs, r.ilist)
      /\ \/ /\ r.ilist = [il EXCEPT ![n] = ClearedInode]
            /\ Free(r.fs) = Free(f) \cup B
         \/ r.ilist = il /\ Free(r.fs) = Free(f) /\ Free(f) = {} /\ B # {}

\* It leaves nothing else.
LEMMA FreeKept ==
  ASSUME NEW f, NEW il, Kept(f, il), NEW n \in InodeNum,
         HeadIsStray(f) => il[n].block_addrs = NoBlocks
  PROVE  FreedKept(FreeInode(f, il, n), f, il, n)
<1> DEFINE r == FreeInode(f, il, n)
           B == InodeBlocks(il[n].block_addrs)
           cleared == [il EXCEPT ![n] = ClearedInode]
<1>1. /\ f \in RawState /\ Separate(AsRead(f), il) /\ il \in IList
      /\ AddrsAreData(il) /\ HoldsData(il, n)
  BY DEF Kept, Separate, AddrsAreData, HoldsData
<1>2. CASE il[n].block_addrs = NoBlocks
  <2>1. \A i \in AddrIdx : il[n].block_addrs[i] = 0
    BY <1>2 DEF NoBlocks
  <2>2. r.fs = f /\ r.ilist = cleared
    BY <2>1, FreeInodeWithoutBlocks
  <2>3. FreeInode(AsRead(f), il, n).fs = AsRead(f)
        /\ FreeInode(AsRead(f), il, n).ilist = cleared
    BY <2>1, FreeInodeWithoutBlocks
  <2>4. FreedApart(FreeInode(AsRead(f), il, n), AsRead(f), il, n)
    BY <1>1, FreeSeparate
  <2>5. Separate(AsRead(f), cleared)
    BY <2>3, <2>4, Zenon DEF FreedApart
  <2>6. B = {}
    BY <2>1 DEF InodeBlocks
  <2> HIDE DEF r, B, cleared
  <2>7. Kept(r.fs, r.ilist) /\ Free(r.fs) = Free(f) \cup B
    BY <1>1, <2>2, <2>5, <2>6 DEF Kept
  <2> QED BY <2>2, <2>7, Zenon DEF FreedKept, r, B, cleared
<1>3. CASE ~ HeadIsStray(f) /\ il[n].block_addrs # NoBlocks
  <2> DEFINE q == FreeInode(AsRead(f), il, n)
  <2>1. FreedAlike(r, q) /\ r.ilist = q.ilist
    BY <1>1, <1>3, FreeInodeReads
  <2>2. FreedApart(q, AsRead(f), il, n)
    BY <1>1, FreeSeparate
  <2>3. InodeFreed(q, AsRead(f), il, n)
    BY <1>1, SeparateOwn, FreeInodeContract DEF Separate
  <2>4. B # {}
    <3> SUFFICES ASSUME B = {} PROVE FALSE
      OBVIOUS
    <3>1. il[n].block_addrs \in [AddrIdx -> Int]
      BY <1>1 DEF IList, Inode
    <3>2. \A i \in AddrIdx : il[n].block_addrs[i] = 0
      BY DEF InodeBlocks
    <3> QED BY <1>3, <3>1, <3>2 DEF NoBlocks
  <2> HIDE DEF r, q, B, cleared
  <2>5. Kept(r.fs, r.ilist)
    BY <2>1, <2>2, Zenon DEF FreedAlike, FreedApart, Kept
  <2>6. \/ q.ilist = il /\ q.fs = AsRead(f) /\ FreeBlocks(AsRead(f)) = {}
        \/ q.ilist = cleared /\ FreeBlocks(q.fs) = FreeBlocks(AsRead(f)) \cup B
    BY <2>3, Zenon DEF InodeFreed, B, cleared
  <2>7. \/ r.ilist = il /\ Free(r.fs) = Free(f) /\ Free(f) = {}
        \/ r.ilist = cleared /\ Free(r.fs) = Free(f) \cup B
    BY <2>1, <2>6 DEF FreedAlike, Free
  <2> QED BY <2>4, <2>5, <2>7, Zenon DEF FreedKept, r, B, cleared
<1> QED BY <1>2, <1>3

\* The entry at offset -1 goes over the last byte of one block and the beginning
\* of the next: of any other word the lower half stays.
LEMMA StrayWords ==
  ASSUME NEW f \in RawState, NEW block \in Int,
         EntryBlocks(block, -1) \subseteq DataBlocks,
         NEW n \in Nat, NEW name \in Int, NEW tail \in Int
  PROVE  LET g == WriteEntry(f, block, -1, n, name, tail)
         IN  /\ g \in RawState /\ g.free_head = f.free_head
             /\ \A b \in DataBlocks \ {block + USHORT_BLOCKS} :
                  /\ g.disk[b][0] = f.disk[b][0]
                  /\ \A i \in EntrySlot : AsInt(g.disk[b][i]) = AsInt(f.disk[b][i])
<1> DEFINE b1 == block + USHORT_BLOCKS - 1
           b2 == block + USHORT_BLOCKS
           w1 == TopByteSet(f.disk[b1][SLOTS - 1], n % 256)
           w2 == EntryWord(n \div 256, name)
           over(b) == CASE b = b1 -> [f.disk[b] EXCEPT ![SLOTS - 1] = w1]
                        [] b = b2 -> [f.disk[b] EXCEPT ![0] = w2, ![1] = tail]
                        [] OTHER -> f.disk[b]
           d == [b \in DataBlocks |-> over(b)]
           g == [f EXCEPT !.disk = d]
<1>1. WriteEntry(f, block, -1, n, name, tail) = g
  <2>1. ~ (-1 >= 0)
    OBVIOUS
  <2> QED BY <2>1 DEF WriteEntry
<1>2. f.free_head \in Int /\ f.disk \in [DataBlocks -> Block]
  BY DEF RawState
<1>3. b1 \in DataBlocks /\ b2 \in DataBlocks /\ b1 # b2
  <2>1. USHORT_BLOCKS \in Int
    BY DirectoryAssumption
  <2>2. EntryBlocks(block, -1) = {b1, b2}
    BY DEF EntryBlocks
  <2> QED BY <2>1, <2>2
<1>4. /\ SLOTS - 1 \in EntrySlot
      /\ 0 \notin EntrySlot /\ EntrySlot \subseteq Slot
  BY GeometryAssumption DEF Slot, EntrySlot
<1>5. \A b \in DataBlocks, i \in Slot : f.disk[b][i] \in Int
  BY <1>2 DEF Block
<1>6. w1 \in Int /\ AsInt(w1) = AsInt(f.disk[b1][SLOTS - 1])
  <2>1. n % 256 \in Nat /\ f.disk[b1][SLOTS - 1] \in Int
    BY <1>3, <1>4, <1>5
  <2> QED BY <2>1, TopByteAbove
<1>7. w2 \in Int
  <2>1. n \div 256 \in Int
    OBVIOUS
  <2> QED BY <2>1, EntryWordIsInt
<1> HIDE DEF b1, b2, w1, w2
<1>8. ASSUME NEW b \in DataBlocks
      PROVE  /\ over(b) \in Block
             /\ b # b2 =>
                  /\ over(b)[0] = f.disk[b][0]
                  /\ \A i \in EntrySlot :
                       over(b)[i] = IF b = b1 /\ i = SLOTS - 1 THEN w1 ELSE f.disk[b][i]
  <2>1. f.disk[b] \in [Slot -> Int]
    BY <1>2 DEF Block
  <2>2. CASE b = b1
    BY <1>3, <1>4, <1>6, <2>1, <2>2 DEF Block
  <2>3. CASE b = b2
    BY <1>3, <1>7, <2>1, <2>3 DEF Block
  <2>4. CASE b # b1 /\ b # b2
    BY <2>1, <2>4 DEF Block
  <2> QED BY <2>2, <2>3, <2>4
<1> HIDE DEF over
<1>9. d \in [DataBlocks -> Block] /\ \A b \in DataBlocks : d[b] = over(b)
  BY <1>8
<1>10. g.disk = d /\ g.free_head = f.free_head /\ g \in RawState
  BY <1>2, <1>9 DEF RawState
<1> HIDE DEF d, g
<1>11. ASSUME NEW b \in DataBlocks \ {b2}
       PROVE  /\ g.disk[b][0] = f.disk[b][0]
              /\ \A i \in EntrySlot : AsInt(g.disk[b][i]) = AsInt(f.disk[b][i])
  BY <1>6, <1>8, <1>9, <1>10
<1> QED BY <1>1, <1>10, <1>11 DEF b2

\* The list is cut short by it at most, if that next block is no node.
LEMMA StrayKept ==
  ASSUME NEW f, NEW il, Kept(f, il), NEW block \in Int,
         EntryBlocks(block, -1) \subseteq DataBlocks,
         ~ Strikes(f, block, -1),
         NEW n \in Nat, NEW name \in Int, NEW tail \in Int
  PROVE  Kept(WriteEntry(f, block, -1, n, name, tail), il)
<1> DEFINE g == WriteEntry(f, block, -1, n, name, tail)
           s == AsRead(f)
           t == AsRead(g)
<1>1. f \in RawState /\ Separate(s, il)
  BY DEF Kept
<1>2. /\ g \in RawState /\ g.free_head = f.free_head
      /\ \A b \in DataBlocks \ {block + USHORT_BLOCKS} :
           /\ g.disk[b][0] = f.disk[b][0]
           /\ \A i \in EntrySlot : AsInt(g.disk[b][i]) = AsInt(f.disk[b][i])
  BY <1>1, StrayWords
<1>3. block + USHORT_BLOCKS \notin Nodes(s)
  <2>1. -1 < 0
    OBVIOUS
  <2> QED BY <2>1 DEF Strikes
<1> HIDE DEF g
<1>4. /\ t \in FreeListState /\ t.free_head = s.free_head
      /\ \A b \in DataBlocks : t.disk[b] = BlockRead(g.disk[b])
      /\ \A b \in DataBlocks : s.disk[b] = BlockRead(f.disk[b])
  BY <1>1, <1>2, AsReadFacts
<1>5. Nodes(s) \subseteq DataBlocks
  <2>1. WellFormed(s)
    BY <1>1 DEF Separate
  <2> QED BY <2>1, NodesAreData
<1>6. \A b \in DataBlocks : f.disk[b] \in Block /\ g.disk[b] \in Block
  BY <1>1, <1>2 DEF RawState
<1> HIDE DEF s, t
<1>7. ASSUME NEW b \in Nodes(s)
      PROVE  /\ Link(t, b) = Link(s, b)
             /\ \A i \in EntrySlot :
                  \/ t.disk[b][i] = s.disk[b][i]
                  \/ {t.disk[b][i], s.disk[b][i]} \subseteq {Empty, Null}
  <2>1. b \in DataBlocks \ {block + USHORT_BLOCKS} /\ f.disk[b] \in Block /\ g.disk[b] \in Block
    BY <1>3, <1>5, <1>6
  <2>2. /\ Link(t, b) = LinkRead(g.disk[b][0]) /\ Link(s, b) = LinkRead(f.disk[b][0])
        /\ \A i \in EntrySlot : /\ t.disk[b][i] = EntryRead(g.disk[b][i])
                                /\ s.disk[b][i] = EntryRead(f.disk[b][i])
    BY <1>4, <2>1, BlockReadFacts DEF Link
  <2>3. Link(t, b) = Link(s, b)
    BY <1>2, <2>1, <2>2
  <2>4. ASSUME NEW i \in EntrySlot
        PROVE  \/ t.disk[b][i] = s.disk[b][i]
               \/ {t.disk[b][i], s.disk[b][i]} \subseteq {Empty, Null}
    <3> DEFINE v == f.disk[b][i]
               w == g.disk[b][i]
    <3>1. AsInt(w) = AsInt(v) /\ AsInt(Empty) = 0
      BY <1>2, <2>1, AsIntFacts DEF Empty
    <3>2. t.disk[b][i] = EntryRead(w) /\ s.disk[b][i] = EntryRead(v)
      BY <2>2
    <3> HIDE DEF v, w
    <3> QED BY <3>1, <3>2 DEF EntryRead, Empty, Null
  <2> QED BY <2>3, <2>4
<1>8. Cut(s, t)
  BY <1>4, <1>7 DEF Cut
<1>9. Separate(t, il)
  BY <1>1, <1>8, CutSeparate
<1> QED BY <1>2, <1>9 DEF Kept, g, t

-----------------------------------------------------------------------------
(* Names and offsets *)

\* The name that my_mkdir gives to a directory is no slash.
LEMMA NameIsPositive ==
  ASSUME NEW path \in Paths, Absolute(path), DirName(path) # <<>>
  PROVE  DirName(path)[1] \in Nat \ {0}
<1>1. path \in Seq(Names \cup {Slash}) /\ Names \subseteq Nat \ {0}
  BY DirectoryAssumption
<1> DEFINE len == Len(path)
           slashes == {i \in 1 .. len : path[i] = Slash}
           back == {len - i : i \in slashes}
           last == LastSlash(path)
<1>2. len \in Nat /\ DOMAIN path = 1 .. len /\ 1 \in slashes
  BY <1>1 DEF Absolute
<1>3. back \in SUBSET Nat /\ back # {}
  BY <1>2
<1>4. PICK m \in back : \A k \in back : m <= k
  <2> HIDE DEF back
  <2> QED BY <1>3, LeastExists
<1>5. PICK i \in slashes : m = len - i
  BY <1>4
<1>6. \A j \in i + 1 .. len : path[j] # Slash
  <2> SUFFICES ASSUME NEW j \in i + 1 .. len, path[j] = Slash PROVE FALSE
    OBVIOUS
  <2>1. j \in slashes
    BY <1>2, <1>5
  <2>2. len - i <= len - j
    BY <1>4, <1>5, <2>1
  <2> QED BY <1>2, <1>5, <2>2
<1>7. last \in 1 .. len /\ \A j \in last + 1 .. len : path[j] # Slash
  <2>1. \E k \in DOMAIN path :
          path[k] = Slash /\ \A j \in k + 1 .. Len(path) : path[j] # Slash
    BY <1>2, <1>5, <1>6
  <2> QED BY <1>2, <2>1 DEF LastSlash
<1> HIDE DEF len, slashes, back, last
<1>8. DirName(path) = SubSeq(path, last + 1, len)
  BY DEF DirName, last, len
<1>9. last + 1 <= len
  <2> SUFFICES ASSUME ~ (last + 1 <= len) PROVE FALSE
    OBVIOUS
  <2>1. DirName(path) = <<>>
    BY <1>1, <1>2, <1>7, <1>8 DEF len
  <2> QED BY <2>1
<1>10. DirName(path)[1] = path[last + 1]
  BY <1>1, <1>2, <1>7, <1>8, <1>9 DEF len
<1>11. last + 1 \in 1 .. len /\ path[last + 1] # Slash
  BY <1>2, <1>7, <1>9
<1>12. path[last + 1] \in Names \cup {Slash}
  BY <1>1, <1>2, <1>11
<1> QED BY <1>1, <1>10, <1>11, <1>12

\* The size of the root, -1, is given to translate_pos: the first block is meant,
\* and the offset is negative.
LEMMA TranslateMinusOne ==
  ASSUME NEW s
  PROVE  LET at == AccessDirect(s, 0, TRUE)
         IN  /\ Translate!AddrIndex(Translate!BlockNum((-1) * WORD_SIZE)) = 0
             /\ TranslatePos(s, -1, TRUE) =
                  [s |-> at, block |-> at.inode.block_addrs[0], offset |-> -1]
<1>1. SLOTS \in Nat /\ SLOTS > 1 /\ WORD_SIZE \in Nat \ {0} /\ DIRECT \in Nat \ {0}
  BY GeometryAssumption, InodeAssumption, WordAssumption
<1>2. (-1) * WORD_SIZE \in Int /\ (-1) * WORD_SIZE < 0 /\ -((-1) * WORD_SIZE) = WORD_SIZE
  BY <1>1
<1>3. Translate!BlockNum((-1) * WORD_SIZE) = 0
  <2>1. SLOTS * WORD_SIZE \in Nat \ {0} /\ WORD_SIZE < SLOTS * WORD_SIZE
    <3>1. WORD_SIZE * 2 <= WORD_SIZE * SLOTS
      BY <1>1, ProductMonotone
    <3> QED BY <1>1, <3>1
  <2>2. WORD_SIZE \div (SLOTS * WORD_SIZE) = 0
    <3> DEFINE d == SLOTS * WORD_SIZE
    <3>1. d \in Nat \ {0} /\ WORD_SIZE < d /\ d * 0 = 0
      BY <2>1
    <3> HIDE DEF d
    <3>2. WORD_SIZE \div d = 0
      BY <1>1, <3>1, QuotientUnique
    <3> QED BY <3>2 DEF d
  <2>3. Translate!BlockNum((-1) * WORD_SIZE)
          = -((-((-1) * WORD_SIZE)) \div (SLOTS * WORD_SIZE))
    BY <1>2, Zenon DEF Translate!BlockNum, Translate!CDiv
  <2> QED BY <1>2, <2>2, <2>3
<1>4. Translate!AddrIndex(0) = 0
  BY <1>1 DEF Translate!AddrIndex
<1>5. Translate!CMod(-1, SLOTS) = -1
  <2>1. 1 \div SLOTS = 0
    BY <1>1, QuotientUnique
  <2>2. Translate!CDiv(-1, SLOTS) = 0
    BY <2>1 DEF Translate!CDiv
  <2> QED BY <1>1, <2>2 DEF Translate!CMod
<1>6. 0 < DIRECT
  BY <1>1
<1> DEFINE idx == Translate!AddrIndex(Translate!BlockNum((-1) * WORD_SIZE))
           at == AccessDirect(s, idx, TRUE)
<1>7. idx = 0
  BY <1>3, <1>4
<1>8. TranslatePos(s, -1, TRUE) =
        [s |-> at,
         block |-> IF idx < DIRECT THEN at.inode.block_addrs[idx] ELSE ThroughIndirect,
         offset |-> Translate!CMod(-1, SLOTS)]
  BY Zenon DEF TranslatePos
<1> HIDE DEF idx
<1>9. idx < DIRECT
  BY <1>6, <1>7
<1>10. TranslatePos(s, -1, TRUE) =
         [s |-> at, block |-> at.inode.block_addrs[idx], offset |-> -1]
  BY <1>5, <1>8, <1>9, Zenon
<1> QED BY <1>7, <1>10, Zenon DEF idx

-----------------------------------------------------------------------------
(* The calls, and the blocks *)

\* An address stored where there was none, and none is stored, changes none.
LEMMA NoneStoredKept ==
  ASSUME NEW f, NEW il, Kept(f, il), NEW n \in InodeNum, NEW i \in AddrIdx,
         il[n].block_addrs[i] = 0
  PROVE  Kept(f, AddrStored(il, n, i, 0))
<1> DEFINE jl == AddrStored(il, n, i, 0)
<1>1. il \in IList
  BY DEF Kept, Separate
<1>2. jl \in IList /\ \A k \in InodeNum, j \in AddrIdx :
        jl[k].block_addrs[j] = IF k = n /\ j = i THEN 0 ELSE il[k].block_addrs[j]
  BY <1>1, AddrStoredFacts
<1> HIDE DEF jl
<1>3. \A k \in InodeNum : jl[k].block_addrs = il[k].block_addrs
  <2> TAKE k \in InodeNum
  <2>1. jl[k].block_addrs \in [AddrIdx -> Int] /\ il[k].block_addrs \in [AddrIdx -> Int]
    BY <1>1, <1>2 DEF IList, Inode
  <2>2. \A j \in AddrIdx : jl[k].block_addrs[j] = il[k].block_addrs[j]
    BY <1>2
  <2> QED BY <2>1, <2>2
<1>4. Kept(f, jl)
  BY <1>2, <1>3, SameAddrsKept
<1> QED BY <1>4 DEF jl

\* access_inode_direct_block_num for a write, given the inode as it is stored.
AccessKept(at, f) ==
  /\ Kept(at.fs, at.ilist)
  /\ at.inode.block_addrs[0] \in Int
  /\ at.inode.block_addrs[0] # 0
       => at.inode.block_addrs[0] \in DataBlocks \ Free(at.fs)

\* It finds a block, takes one, or fails.
LEMMA AccessDirectKept ==
  ASSUME NEW f, NEW il, Kept(f, il), NEW n \in InodeNum,
         il[n].block_addrs[0] = 0 => ~ HeadIsStray(f)
  PROVE  AccessKept(AccessDirect(Given(f, il, n, il[n]), 0, TRUE), f)
<1> DEFINE given == Given(f, il, n, il[n])
           at == AccessDirect(given, 0, TRUE)
           b == at.inode.block_addrs[0]
           a == AllocInt(f)
<1>1. 0 \in DirectIdx /\ 0 \in AddrIdx
  BY InodeAssumption, AddrIdxFacts DEF DirectIdx
<1>2. DirectAccessed(at, given, 0)
  <2>1. {"fs", "ilist", "n", "inode"} \subseteq DOMAIN given
    BY DEF Given
  <2> HIDE DEF given
  <2> QED BY <2>1, AccessDirectContract
<1>3. /\ given.fs = f /\ given.ilist = il /\ given.n = n /\ given.inode = il[n]
  BY DEF Given
<1> SUFFICES AccessKept(at, f)
  OBVIOUS
<1> HIDE DEF given, at
<1>4. \/ /\ il[n].block_addrs[0] # 0
         /\ at.fs = f /\ at.ilist = il /\ at.inode = il[n]
      \/ /\ il[n].block_addrs[0] = 0 /\ a.ret = -1
         /\ at.fs = a.fs /\ at.ilist = il /\ at.inode = il[n]
      \/ /\ il[n].block_addrs[0] = 0 /\ a.ret # -1
         /\ at.fs = a.fs
         /\ at.ilist = AddrStored(il, n, 0, a.ret)
         /\ at.inode = InodeGiven(il[n], 0, a.ret)
  BY <1>2, <1>3, Zenon DEF DirectAccessed
<1>5. ASSUME il[n].block_addrs[0] = 0 PROVE GrownKept(a, f, il, n, 0)
  BY <1>1, <1>5, GrowKept
<1>6. il[n] \in Inode /\ il[n].block_addrs[0] \in Int
  BY <1>1 DEF Kept, Separate, IList, Inode
<1> HIDE DEF a
<1>7. CASE /\ il[n].block_addrs[0] # 0
           /\ at.fs = f /\ at.ilist = il /\ at.inode = il[n]
  <2>1. b \in DataBlocks \ Free(f)
    BY <1>1, <1>7, HeldIsData DEF Kept, Free
  <2> QED BY <1>6, <1>7, <2>1 DEF AccessKept
<1>8. CASE /\ il[n].block_addrs[0] = 0 /\ a.ret = -1
           /\ at.fs = a.fs /\ at.ilist = il /\ at.inode = il[n]
  BY <1>5, <1>6, <1>8 DEF AccessKept, GrownKept
<1>9. CASE /\ il[n].block_addrs[0] = 0 /\ a.ret # -1
           /\ at.fs = a.fs
           /\ at.ilist = AddrStored(il, n, 0, a.ret)
           /\ at.inode = InodeGiven(il[n], 0, a.ret)
  <2>1. b = a.ret
    BY <1>1, <1>6, <1>9 DEF InodeGiven, Inode
  <2>2. CASE a.ret = 0
    <3>1. Kept(a.fs, il)
      BY <1>5, <1>9, <2>2 DEF GrownKept
    <3>2. Kept(a.fs, AddrStored(il, n, 0, 0))
      BY <1>1, <1>9, <3>1, NoneStoredKept
    <3> QED BY <1>9, <2>1, <2>2, <3>2 DEF AccessKept
  <2>3. CASE a.ret # 0
    <3>1. /\ a.ret \in DataBlocks \ Free(a.fs)
          /\ Kept(a.fs, AddrStored(il, n, 0, a.ret))
      BY <1>5, <1>9, <2>3 DEF GrownKept
    <3>2. a.ret \in Int
      <4>1. DataBlocks \subseteq Int
        BY DataBlocksPositive
      <4> QED BY <3>1, <4>1, Zenon
    <3> QED BY <1>9, <2>1, <3>1, <3>2 DEF AccessKept
  <2> QED BY <2>2, <2>3
<1> QED BY <1>4, <1>7, <1>8, <1>9

\* . and .. are a block written.
LEMMA DottedIsWrite ==
  ASSUME NEW s \in RawState, NEW n \in Int, NEW block \in DataBlocks
  PROVE  \E c \in Block : Dotted(s, n, block) = [s EXCEPT !.disk[block] = c]
<1> DEFINE c == [s.disk[block] EXCEPT ![0] = EntryWord(ROOT_INODE_NUM, DotDot),
                                      ![1] = EntryWord(n, Dot)]
<1>1. s.disk \in [DataBlocks -> Block] /\ s.disk[block] \in [Slot -> Int]
  BY DEF RawState, Block
<1>2. EntryWord(ROOT_INODE_NUM, DotDot) \in Int /\ EntryWord(n, Dot) \in Int
  BY EntryWordIsInt DEF ROOT_INODE_NUM, DotDot, Dot
<1>3. c \in Block
  BY <1>1, <1>2 DEF Block
<1>4. Dotted(s, n, block) = [s EXCEPT !.disk[block] = c]
  BY <1>1 DEF RawState, Dotted
<1> HIDE DEF c
<1> QED BY <1>3, <1>4

\* What my_mkdir's last part leaves when the size of the root is -1.
LinkedAtMinusOne(r, s, il, parent, n, name, tail, block) ==
  LET given == Given(Dotted(s, n, block), AddrStored(il, n, 0, block),
                     ROOT_INODE_NUM, parent)
      at == AccessDirect(given, 0, TRUE)
      b == at.inode.block_addrs[0]
  IN  /\ ~ (parent.block_addrs[0] = 0 /\ HeadIsStray(Dotted(s, n, block)))
      /\ EntryBlocks(b, -1) \subseteq DataBlocks
      /\ r.fs = WriteEntry(at.fs, b, -1, n, name, tail)
      /\ r.ilist = at.ilist
      /\ r.struck = Strikes(at.fs, b, -1)

\* It is, in the copy of the root.
LEMMA LinkAtMinusOne ==
  ASSUME NEW s, NEW il, NEW n, NEW parent, parent.m_data.file_size = -1,
         NEW name, NEW tail, NEW block,
         LinkDirectory(s, il, parent, n, name, tail, block) # Wreck
  PROVE  LinkedAtMinusOne(LinkDirectory(s, il, parent, n, name, tail, block),
                          s, il, parent, n, name, tail, block)
<1> DEFINE r == LinkDirectory(s, il, parent, n, name, tail, block)
           dotted == Dotted(s, n, block)
           given == Given(dotted, AddrStored(il, n, 0, block), ROOT_INODE_NUM, parent)
           at == AccessDirect(given, 0, TRUE)
           pos == parent.m_data.file_size
           t == TranslatePos(given, pos, TRUE)
           idx == Translate!AddrIndex(Translate!BlockNum(pos * WORD_SIZE))
<1>1. LinkMade(r, s, il, parent, n, name, tail, block)
  BY LinkCases
<1>2. /\ ~ (parent.block_addrs[idx] = 0 /\ HeadIsStray(dotted))
      /\ EntryBlocks(t.block, t.offset) \subseteq DataBlocks
      /\ r.fs = WriteEntry(t.s.fs, t.block, t.offset, n, name, tail)
      /\ r.ilist = t.s.ilist
      /\ r.struck = Strikes(t.s.fs, t.block, t.offset)
  <2> HIDE DEF r
  <2> QED BY <1>1, Zenon DEF LinkMade
<1>3. t = TranslatePos(given, -1, TRUE)
      /\ idx = Translate!AddrIndex(Translate!BlockNum((-1) * WORD_SIZE))
  BY Zenon
<1> HIDE DEF t, given, r, idx, pos, dotted
<1>4. idx = 0 /\ t = [s |-> at, block |-> at.inode.block_addrs[0], offset |-> -1]
  BY <1>3, TranslateMinusOne, Zenon
<1> HIDE DEF at
<1>5. t.s = at /\ t.block = at.inode.block_addrs[0] /\ t.offset = -1
  BY <1>4
<1>6. /\ ~ (parent.block_addrs[0] = 0 /\ HeadIsStray(dotted))
      /\ EntryBlocks(at.inode.block_addrs[0], -1) \subseteq DataBlocks
      /\ r.fs = WriteEntry(at.fs, at.inode.block_addrs[0], -1, n, name, tail)
      /\ r.ilist = at.ilist
      /\ r.struck = Strikes(at.fs, at.inode.block_addrs[0], -1)
  BY <1>2, <1>4, <1>5
<1> QED BY <1>6, Zenon DEF LinkedAtMinusOne, r, at, given, dotted

\* my_mkdir's last part, with the copy of the root that it read at first: the
\* blocks of s are apart, and the new directory n has been given one of them.
LEMMA LinkDirectoryKept ==
  ASSUME NEW s, NEW il \in IList, NEW n \in InodeNum \ {ROOT_INODE_NUM}, NEW parent,
         parent = il[ROOT_INODE_NUM], parent.m_data.file_size = -1,
         NEW name \in Int, NEW tail \in Int,
         NEW block \in DataBlocks \ Free(s),
         Kept(s, AddrStored(il, n, 0, block)),
         LinkDirectory(s, il, parent, n, name, tail, block) # Wreck,
         ~ LinkDirectory(s, il, parent, n, name, tail, block).struck
  PROVE  LET r == LinkDirectory(s, il, parent, n, name, tail, block)
         IN  Kept(r.fs, r.ilist)
<1> DEFINE r == LinkDirectory(s, il, parent, n, name, tail, block)
           jl == AddrStored(il, n, 0, block)
           dotted == Dotted(s, n, block)
           given == Given(dotted, jl, ROOT_INODE_NUM, parent)
           at == AccessDirect(given, 0, TRUE)
<1>1. n \in Nat \ {0} /\ ROOT_INODE_NUM \in InodeNum
  BY InodeNumFacts DEF ROOT_INODE_NUM
<1>2. Kept(dotted, jl)
  <2>1. s \in RawState /\ n \in Int
    BY <1>1 DEF Kept
  <2>2. PICK c \in Block : dotted = [s EXCEPT !.disk[block] = c]
    BY <2>1, DottedIsWrite
  <2> HIDE DEF dotted, jl
  <2> QED BY <2>2, WriteKept DEF jl
<1>3. /\ ~ (parent.block_addrs[0] = 0 /\ HeadIsStray(dotted))
      /\ EntryBlocks(at.inode.block_addrs[0], -1) \subseteq DataBlocks
      /\ r.fs = WriteEntry(at.fs, at.inode.block_addrs[0], -1, n, name, tail)
      /\ r.ilist = at.ilist
      /\ ~ Strikes(at.fs, at.inode.block_addrs[0], -1)
  <2>1. LinkedAtMinusOne(r, s, il, parent, n, name, tail, block)
    BY LinkAtMinusOne
  <2>2. ~ r.struck
    OBVIOUS
  <2> HIDE DEF r
  <2> QED BY <2>1, <2>2, Zenon DEF LinkedAtMinusOne
<1>4. parent = jl[ROOT_INODE_NUM]
  <2>1. block \in Int /\ 0 \in AddrIdx
    BY DataBlocksPositive, InodeAssumption DEF AddrIdx, INODE_BLOCKS
  <2> QED BY <1>1, <2>1, AddrStoredFacts
<1>5. AccessKept(at, dotted)
  <2>1. at = AccessDirect(Given(dotted, jl, ROOT_INODE_NUM, jl[ROOT_INODE_NUM]), 0, TRUE)
    BY <1>4, Zenon
  <2>2. jl[ROOT_INODE_NUM].block_addrs[0] = 0 => ~ HeadIsStray(dotted)
    BY <1>3, <1>4, Zenon
  <2> HIDE DEF dotted, jl, at, given
  <2> QED BY <1>1, <1>2, <2>1, <2>2, AccessDirectKept
<1> HIDE DEF r, at, jl, dotted, given
<1>6. Kept(at.fs, at.ilist) /\ at.inode.block_addrs[0] \in Int /\ n \in Nat
  BY <1>1, <1>5 DEF AccessKept
<1>7. Kept(WriteEntry(at.fs, at.inode.block_addrs[0], -1, n, name, tail), at.ilist)
  BY <1>3, <1>6, StrayKept
<1> QED BY <1>3, <1>7, Zenon DEF r

\* The inode of a new directory is one that was not allocated; it is not the root,
\* and no address of any inode has changed.
LEMMA NewDirectory ==
  ASSUME NEW il \in IList, RootKept(il), NEW set \in BOOLEAN,
         ~ (AllocInode(il, DIR).ret < 0)
  PROVE  LET n == AllocInode(il, DIR).ret
         IN  /\ n \in InodeNum \ {ROOT_INODE_NUM}
             /\ n \in Unallocated(il)
             /\ Sized(il, set) \in IList
             /\ \A k \in InodeNum : Sized(il, set)[k].block_addrs = il[k].block_addrs
             /\ \A k \in InodeNum \ {n} : Sized(il, set)[k] = il[k]
             /\ Sized(il, set) = [il EXCEPT ![n].m_data = DirMData(set)]
<1> DEFINE new == AllocInode(il, DIR)
           n == new.ret
           sized == Sized(il, set)
<1>1. PICK m \in MData : /\ n \in Unallocated(il) /\ n \in InodeNum
                        /\ new.ilist = MDataStored(il, n, m)
  <2>1. InodeTaken(new, il, DIR)
    BY AllocInodeContract
  <2> QED BY <2>1, Zenon DEF InodeTaken
<1>2. n # ROOT_INODE_NUM
  BY AllocInodeKeepsRoot
<1>3. DirMData(set) \in MData
  BY DEF DirMData, MData, EMPTY, DIR, SPEC_FILE
<1>4. sized = MDataStored(new.ilist, n, DirMData(set))
  BY DEF Sized, StoreDirMData, MDataStored
<1> HIDE DEF new, n, sized
<1>5. /\ new.ilist \in IList
      /\ \A k \in InodeNum : new.ilist[k].block_addrs = il[k].block_addrs
      /\ \A k \in InodeNum \ {n} : new.ilist[k] = il[k]
  BY <1>1, MDataStoredFacts
<1>6. /\ sized \in IList
      /\ \A k \in InodeNum : sized[k].block_addrs = new.ilist[k].block_addrs
      /\ \A k \in InodeNum \ {n} : sized[k] = new.ilist[k]
  <2>1. n \in InodeNum /\ DirMData(set) \in MData /\ new.ilist \in IList
    BY <1>1, <1>3, <1>5
  <2> DEFINE base == new.ilist
             m2 == DirMData(set)
             jl == MDataStored(base, n, m2)
  <2> HIDE DEF base, m2
  <2>2. n \in InodeNum /\ m2 \in MData /\ base \in IList
    BY <2>1, Zenon DEF base, m2
  <2>3. /\ jl \in IList
        /\ \A k \in InodeNum : jl[k].block_addrs = base[k].block_addrs
        /\ \A k \in InodeNum \ {n} : jl[k] = base[k]
    BY <2>2, MDataStoredFacts
  <2> HIDE DEF jl
  <2>4. sized = jl
    BY <1>4, Zenon DEF jl, base, m2
  <2> QED BY <2>3, <2>4, Zenon DEF base
<1>7. /\ sized \in IList
      /\ \A k \in InodeNum : sized[k].block_addrs = il[k].block_addrs
      /\ \A k \in InodeNum \ {n} : sized[k] = il[k]
  BY <1>5, <1>6
<1>8. sized = [il EXCEPT ![n].m_data = DirMData(set)]
  <2> DEFINE m2 == DirMData(set)
             once == [il[n] EXCEPT !.m_data = m]
             base == [il EXCEPT ![n] = once]
             twice == [base[n] EXCEPT !.m_data = m2]
             jl == [base EXCEPT ![n] = twice]
             kl == [il EXCEPT ![n] = [il[n] EXCEPT !.m_data = m2]]
  <2>1. sized = jl
    BY <1>1, <1>4, Zenon DEF MDataStored
  <2>2. il \in [InodeNum -> Inode] /\ n \in InodeNum /\ il[n] \in Inode
    BY <1>1 DEF IList
  <2>3. base[n] = once
    BY <2>2
  <2>4. once = [m_data |-> m, block_addrs |-> il[n].block_addrs]
    BY <2>2 DEF Inode
  <2> HIDE DEF once, m2
  <2>5. twice = [il[n] EXCEPT !.m_data = m2]
    BY <2>2, <2>3, <2>4 DEF Inode
  <2> HIDE DEF twice
  <2>6. jl = kl
    BY <2>2, <2>5
  <2> QED BY <2>1, <2>6 DEF m2
<1> QED BY <1>1, <1>2, <1>7, <1>8 DEF new, n, sized

\* my_mkdir, unless its entry goes over a node.
LEMMA MkdirKept ==
  ASSUME RootKept(ilist), ~ struck => Kept(fs, ilist), ~ struck',
         NEW path \in Paths, NEW set \in BOOLEAN, NEW tail \in Tails,
         Mkdir(path, set, tail)
  PROVE  Kept(fs', ilist')
<1> DEFINE n == AllocInode(ilist, DIR).ret
           sized == Sized(ilist, set)
           a == AllocInt(fs)
           parent == ilist[ROOT_INODE_NUM]
           name == DirName(path)[1]
           gone == GiveUp(a.fs, sized, n)
           linked == LinkDirectory(a.fs, sized, parent, n, name, tail, a.ret)
<1>1. \/ struck' = struck /\ fs' = fs /\ ilist' = ilist
      \/ struck' = (struck \/ FALSE) /\ fs' = fs /\ ilist' = ilist
      \/ /\ Refusal(ilist, path) = 0 /\ ~ (n < 0) /\ ~ HeadIsStray(fs)
         /\ \/ /\ a.ret = -1
               /\ struck' = (struck \/ FALSE) /\ fs' = gone.fs /\ ilist' = gone.ilist
            \/ /\ a.ret # -1 /\ a.ret \in DataBlocks /\ linked # Wreck
               /\ struck' = (struck \/ linked.struck)
               /\ fs' = linked.fs /\ ilist' = linked.ilist
  BY MkdirCases, Zenon DEF MkdirLeaves
<1>2. Kept(fs, ilist)
  <2> HIDE DEF linked, gone, a, n
  <2>1. ~ struck
    BY <1>1
  <2> QED BY <2>1
<1>3. CASE fs' = fs /\ ilist' = ilist
  BY <1>2, <1>3
<1>4. CASE /\ Refusal(ilist, path) = 0 /\ ~ (n < 0) /\ ~ HeadIsStray(fs)
           /\ \/ a.ret = -1 /\ fs' = gone.fs /\ ilist' = gone.ilist
              \/ /\ a.ret # -1 /\ a.ret \in DataBlocks /\ linked # Wreck
                 /\ struck' = (struck \/ linked.struck)
                 /\ fs' = linked.fs /\ ilist' = linked.ilist
  <2>1. ilist \in IList
    BY <1>2 DEF Kept, Separate
  <2>2. name \in Int /\ tail \in Int
    <3>1. Absolute(path) /\ DirName(path) # <<>>
      BY <1>4 DEF Refusal, EINVAL
    <3>2. tail \in Int
      BY DirectoryAssumption
    <3> QED BY <3>1, <3>2, NameIsPositive
  <2>3. /\ n \in InodeNum \ {ROOT_INODE_NUM}
        /\ sized \in IList
        /\ \A k \in InodeNum : sized[k].block_addrs = ilist[k].block_addrs
        /\ \A k \in InodeNum \ {n} : sized[k] = ilist[k]
    BY <1>4, <2>1, NewDirectory
  <2>4. parent = sized[ROOT_INODE_NUM] /\ parent.m_data.file_size = -1
    BY <2>3, InodeNumFacts DEF RootKept, RootMData
  <2> HIDE DEF n, sized, parent, name, a
  <2>5. Kept(fs, sized)
    BY <1>2, <2>3, SameAddrsKept
  <2>6. GrownKept(a, fs, sized, n, 0)
    <3>1. 0 \in DirectIdx
      BY InodeAssumption DEF DirectIdx
    <3> QED BY <1>4, <2>3, <2>5, <3>1, GrowKept DEF a
  <2>7. CASE a.ret = -1
    <3>1. Kept(a.fs, sized) /\ ~ HeadIsStray(a.fs)
      BY <2>6, <2>7, DataBlocksPositive DEF GrownKept
    <3>2. Kept(FreeInode(a.fs, sized, n).fs, FreeInode(a.fs, sized, n).ilist)
      BY <2>3, <3>1, FreeKept, Zenon DEF FreedKept
    <3>3. Kept(gone.fs, gone.ilist)
      BY <3>2 DEF GiveUp, Returned
    <3> HIDE DEF gone
    <3> QED BY <1>4, <2>7, <3>3
  <2>8. CASE a.ret # -1
    <3>1. /\ a.ret \in DataBlocks /\ linked # Wreck /\ ~ linked.struck
          /\ fs' = linked.fs /\ ilist' = linked.ilist
      <4> HIDE DEF linked, gone
      <4>1. /\ a.ret \in DataBlocks /\ linked # Wreck
            /\ struck' = (struck \/ linked.struck)
            /\ fs' = linked.fs /\ ilist' = linked.ilist
        BY <1>4, <2>8
      <4> QED BY <4>1, Zenon
    <3>2. a.ret # 0
      BY <3>1, DataBlocksPositive DEF Empty
    <3>3. a.ret \in DataBlocks \ Free(a.fs) /\ Kept(a.fs, AddrStored(sized, n, 0, a.ret))
      BY <2>6, <2>8, <3>2 DEF GrownKept
    <3>4. Kept(linked.fs, linked.ilist)
      BY <2>2, <2>3, <2>4, <3>1, <3>3, LinkDirectoryKept
    <3> HIDE DEF linked
    <3> QED BY <3>1, <3>4
  <2> QED BY <2>7, <2>8
<1> QED BY <1>1, <1>3, <1>4

\* alloc_inode changes no address.
LEMMA CreateFileAddrs ==
  ASSUME ilist \in IList, CreateFile
  PROVE  /\ fs' = fs /\ ilist' \in IList
         /\ \A k \in InodeNum : ilist'[k].block_addrs = ilist[k].block_addrs
<1> DEFINE r == AllocInode(ilist, REG_FILE)
<1>1. \/ r.ilist = ilist
      \/ r.ret \in InodeNum /\ \E m \in MData : r.ilist = MDataStored(ilist, r.ret, m)
  <2>1. InodeTaken(r, ilist, REG_FILE)
    BY AllocInodeContract
  <2> QED BY <2>1, Zenon DEF InodeTaken
<1>2. fs' = fs /\ ilist' = r.ilist
  BY DEF CreateFile, Leaves
<1> HIDE DEF r
<1> QED BY <1>1, <1>2, MDataStoredFacts

\* The state that write of a block is given.
WriteGiven(n) == Given(fs, ilist, n, ilist[n])

\* What it leaves: nothing changed, or the block not found, or filled.
WriteLeaves(n, d) ==
  LET at == AccessDirect(WriteGiven(n), 0, TRUE)
      b == at.inode.block_addrs[0]
  IN  \/ fs' = fs /\ ilist' = ilist
      \/ /\ ilist[n].block_addrs[0] = 0 => ~ HeadIsStray(fs)
         /\ \/ /\ b = 0
               /\ fs' = at.fs /\ ilist' = at.ilist
            \/ /\ b \in DataBlocks
               /\ fs' = [at.fs EXCEPT !.disk[b] = [i \in Slot |-> d]]
               /\ ilist' = [at.ilist EXCEPT ![n].m_data.file_size = SLOTS]

\* These are all the cases.
LEMMA WriteFileCases ==
  ASSUME NEW n \in InodeNum, NEW d \in Data, WriteFile(n, d) PROVE WriteLeaves(n, d)
<1> DEFINE given == WriteGiven(n)
           t == TranslatePos(given, 0, TRUE)
           at == AccessDirect(given, 0, TRUE)
           b == at.inode.block_addrs[0]
           full == [i \in Slot |-> d]
           away == ilist[n].block_addrs[0] = 0 /\ HeadIsStray(fs)
           inside == t.block \notin DataBlocks \cup {0}
<1>1. t.s = at /\ t.block = b
  <2>1. 0 \in DirectWords /\ 0 \div SLOTS = 0
    <3>1. SLOTS \in Nat \ {0} /\ DIRECT \in Nat \ {0}
      BY GeometryAssumption, InodeAssumption
    <3>2. DIRECT * SLOTS \in Nat /\ DIRECT * SLOTS > 0
      BY <3>1
    <3> QED BY <3>1, <3>2, QuotientUnique DEF DirectWords
  <2> HIDE DEF given
  <2> QED BY <2>1, TranslateDirect
<1>2. IF away \/ inside THEN Wrecks
      ELSE IF t.block = 0 THEN Leaves(t.s.fs, t.s.ilist, FALSE)
      ELSE Leaves([t.s.fs EXCEPT !.disk[t.block] = full],
                  [t.s.ilist EXCEPT ![n].m_data.file_size = SLOTS],
                  FALSE)
  BY Zenon DEF WriteFile, Given, WriteGiven
<1> HIDE DEF t, at, full, away
<1>3. \/ fs' = fs /\ ilist' = ilist
      \/ /\ ~ away
         /\ \/ /\ b = 0
               /\ fs' = at.fs /\ ilist' = at.ilist
            \/ /\ b \in DataBlocks
               /\ fs' = [at.fs EXCEPT !.disk[b] = full]
               /\ ilist' = [at.ilist EXCEPT ![n].m_data.file_size = SLOTS]
  BY <1>1, <1>2 DEF Wrecks, Leaves
<1> QED BY <1>3, Zenon DEF WriteLeaves, at, full, away

\* The size is stored, and no address changes.
LEMMA SizedWriteFacts ==
  ASSUME NEW il \in IList, NEW n \in InodeNum
  PROVE  LET jl == [il EXCEPT ![n].m_data.file_size = SLOTS]
         IN  /\ jl \in IList
             /\ \A k \in InodeNum : jl[k].block_addrs = il[k].block_addrs
<1> DEFINE m == [il[n].m_data EXCEPT !.file_size = SLOTS]
           jl == MDataStored(il, n, m)
<1>1. il[n].m_data \in MData /\ SLOTS \in Int
  BY GeometryAssumption DEF IList, Inode
<1>2. m \in MData
  BY <1>1 DEF MData
<1>3. jl = [il EXCEPT ![n].m_data.file_size = SLOTS]
  BY DEF MDataStored
<1> HIDE DEF m, jl
<1>4. /\ jl \in IList
      /\ \A k \in InodeNum : jl[k].block_addrs = il[k].block_addrs
  BY <1>2, MDataStoredFacts DEF jl
<1> QED BY <1>3, <1>4

\* write of a block: a block that is not free is found or taken, and filled.
LEMMA WriteFileKept ==
  ASSUME Kept(fs, ilist), NEW n \in InodeNum, NEW d \in Data, WriteFile(n, d)
  PROVE  Kept(fs', ilist')
<1> DEFINE at == AccessDirect(WriteGiven(n), 0, TRUE)
           b == at.inode.block_addrs[0]
           full == [i \in Slot |-> d]
           f == [at.fs EXCEPT !.disk[b] = full]
           jl == [at.ilist EXCEPT ![n].m_data.file_size = SLOTS]
<1>1. \/ fs' = fs /\ ilist' = ilist
      \/ /\ ilist[n].block_addrs[0] = 0 => ~ HeadIsStray(fs)
         /\ \/ b = 0 /\ fs' = at.fs /\ ilist' = at.ilist
            \/ b \in DataBlocks /\ fs' = f /\ ilist' = jl
  BY WriteFileCases, Zenon DEF WriteLeaves
<1>2. CASE fs' = fs /\ ilist' = ilist
  BY <1>2
<1>3. CASE /\ ilist[n].block_addrs[0] = 0 => ~ HeadIsStray(fs)
           /\ \/ b = 0 /\ fs' = at.fs /\ ilist' = at.ilist
              \/ b \in DataBlocks /\ fs' = f /\ ilist' = jl
  <2>1. AccessKept(at, fs)
    BY <1>3, AccessDirectKept, Zenon DEF WriteGiven
  <2>2. full \in Block
    BY DirectoryAssumption DEF Block
  <2> HIDE DEF at, full
  <2>3. CASE b = 0 /\ fs' = at.fs /\ ilist' = at.ilist
    BY <2>1, <2>3 DEF AccessKept
  <2>4. CASE b \in DataBlocks /\ fs' = f /\ ilist' = jl
    <3>1. b # 0
      BY <2>4, DataBlocksPositive DEF Empty
    <3>2. Kept(at.fs, at.ilist) /\ b \in DataBlocks \ Free(at.fs)
      BY <2>1, <3>1 DEF AccessKept
    <3>3. Kept(f, at.ilist) /\ at.ilist \in IList
      BY <2>2, <3>2, WriteKept DEF Kept, Separate
    <3>4. jl \in IList /\ \A k \in InodeNum : jl[k].block_addrs = at.ilist[k].block_addrs
      BY <3>3, SizedWriteFacts
    <3> HIDE DEF f, jl
    <3>5. Kept(f, jl)
      BY <3>3, <3>4, SameAddrsKept
    <3> QED BY <2>4, <3>5
  <2> QED BY <1>3, <2>3, <2>4
<1> QED BY <1>1, <1>2, <1>3

\* free_inode.
LEMMA RemoveKept ==
  ASSUME Kept(fs, ilist), NEW n \in InodeNum, Remove(n) PROVE Kept(fs', ilist')
<1> DEFINE r == FreeInode(fs, ilist, n)
           stray == HeadIsStray(fs) /\ ilist[n].block_addrs # NoBlocks
<1>1. IF stray THEN Wrecks ELSE Leaves(r.fs, r.ilist, FALSE)
  BY Zenon DEF Remove
<1>2. CASE stray
  <2>1. fs' = fs /\ ilist' = ilist
    BY <1>1, <1>2 DEF Wrecks
  <2> QED BY <2>1
<1>3. CASE ~ stray
  <2>1. Kept(r.fs, r.ilist)
    BY <1>3, FreeKept, Zenon DEF FreedKept
  <2> HIDE DEF r, stray
  <2> QED BY <1>1, <1>3, <2>1 DEF Leaves
<1> QED BY <1>2, <1>3

\* Only my_mkdir strikes a node.
LEMMA StaysUnstruck ==
  ASSUME struck \in BOOLEAN, NEW n,
         Remove(n) \/ \E d \in Data : WriteFile(n, d)
  PROVE  struck' = struck
<1>1. struck' = struck \/ struck' = (struck \/ FALSE)
  BY Zenon DEF Remove, WriteFile, Leaves, Wrecks
<1> QED BY <1>1

\* Every call keeps the blocks apart, unless an entry goes over a node.
LEMMA NextKept ==
  ASSUME RootKept(ilist), ~ struck => Kept(fs, ilist), struck \in BOOLEAN,
         ~ struck', [Next]_vars
  PROVE  Kept(fs', ilist')
<1>1. ASSUME NEW path \in Paths, NEW set \in BOOLEAN, NEW tail \in Tails,
             Mkdir(path, set, tail)
      PROVE  Kept(fs', ilist')
  BY <1>1, MkdirKept
<1>2. ASSUME CreateFile PROVE Kept(fs', ilist')
  <2>1. Kept(fs, ilist)
    BY <1>2 DEF CreateFile, Leaves
  <2>2. ilist \in IList
    BY <2>1 DEF Kept, Separate
  <2> QED BY <1>2, <2>1, <2>2, CreateFileAddrs, SameAddrsKept
<1>3. ASSUME NEW n \in InodeNum, NEW d \in Data, WriteFile(n, d)
      PROVE  Kept(fs', ilist')
  <2>1. struck' = struck
    BY <1>3, StaysUnstruck
  <2> QED BY <1>3, <2>1, WriteFileKept
<1>4. ASSUME NEW n \in InodeNum \ {ROOT_INODE_NUM}, Remove(n)
      PROVE  Kept(fs', ilist')
  <2>1. struck' = struck
    BY <1>4, StaysUnstruck
  <2> QED BY <1>4, <2>1, RemoveKept
<1>5. CASE UNCHANGED vars
  BY <1>5 DEF vars
<1> QED BY <1>1, <1>2, <1>3, <1>4, <1>5 DEF Next, Wrecked

-----------------------------------------------------------------------------
(* The calls, and the types *)

\* Blocks that are apart are data blocks.
LEMMA KeptIsTyped == ASSUME NEW f, NEW il, Kept(f, il) PROVE Typed(f, il)
BY DEF Kept, Separate, AddrsAreData, Typed, HoldsData

\* The addresses matter, and that the rest has its type.
LEMMA SameAddrsTyped ==
  ASSUME NEW f, NEW il, Typed(f, il), NEW g \in RawState, NEW jl \in IList,
         \A k \in InodeNum : jl[k].block_addrs = il[k].block_addrs
  PROVE  Typed(g, jl)
BY DEF Typed, HoldsData

\* A first address stored.
LEMMA StoredTyped ==
  ASSUME NEW f, NEW il, Typed(f, il), NEW g \in RawState,
         NEW n \in InodeNum, NEW b \in Int,
         n = ROOT_INODE_NUM \/ b \in DataBlocks \cup {0}
  PROVE  Typed(g, AddrStored(il, n, 0, b))
<1> DEFINE jl == AddrStored(il, n, 0, b)
<1>1. 0 \in DirectIdx /\ 0 \in AddrIdx
  BY InodeAssumption, AddrIdxFacts DEF DirectIdx
<1>2. jl \in IList /\ \A k \in InodeNum, j \in AddrIdx :
        jl[k].block_addrs[j] = IF k = n /\ j = 0 THEN b ELSE il[k].block_addrs[j]
  BY <1>1, AddrStoredFacts DEF Typed
<1> HIDE DEF jl
<1>3. ASSUME NEW k \in InodeNum \ {ROOT_INODE_NUM} PROVE HoldsData(jl, k)
  BY <1>1, <1>2 DEF Typed, HoldsData
<1>4. Typed(g, jl)
  BY <1>2, <1>3 DEF Typed
<1> QED BY <1>4 DEF jl

\* A block written.
LEMMA WriteTyped ==
  ASSUME NEW f, NEW il, Typed(f, il), NEW b \in DataBlocks, NEW c \in Block
  PROVE  Typed([f EXCEPT !.disk[b] = c], il)
<1>1. [f EXCEPT !.disk[b] = c] \in RawState
  BY WriteReads DEF Typed
<1> QED BY <1>1 DEF Typed

\* access_inode_direct_block_num for a write, given the inode as it is stored.
LEMMA AccessTyped ==
  ASSUME NEW f, NEW il, Typed(f, il), NEW n \in InodeNum,
         il[n].block_addrs[0] = 0 => ~ HeadIsStray(f)
  PROVE  LET at == AccessDirect(Given(f, il, n, il[n]), 0, TRUE)
             b == at.inode.block_addrs[0]
         IN  /\ b \in Int
             /\ n = ROOT_INODE_NUM \/ b \in DataBlocks \cup {0} => Typed(at.fs, at.ilist)
<1> DEFINE given == Given(f, il, n, il[n])
           at == AccessDirect(given, 0, TRUE)
           b == at.inode.block_addrs[0]
           a == AllocInt(f)
<1>1. f \in RawState /\ il \in IList /\ 0 \in AddrIdx
  BY InodeAssumption DEF Typed, AddrIdx, INODE_BLOCKS
<1>2. DirectAccessed(at, given, 0)
  <2>1. {"fs", "ilist", "n", "inode"} \subseteq DOMAIN given
    BY DEF Given
  <2> HIDE DEF given
  <2> QED BY <2>1, AccessDirectContract
<1>3. /\ given.fs = f /\ given.ilist = il /\ given.n = n /\ given.inode = il[n]
  BY DEF Given
<1>4. ASSUME il[n].block_addrs[0] = 0 PROVE a.fs \in RawState /\ a.ret \in Int
  BY <1>1, <1>4, AllocReads DEF ReadAlike
<1> SUFFICES /\ b \in Int
             /\ n = ROOT_INODE_NUM \/ b \in DataBlocks \cup {0} => Typed(at.fs, at.ilist)
  OBVIOUS
<1> HIDE DEF given, at
<1>5. \/ /\ il[n].block_addrs[0] # 0
         /\ at.fs = f /\ at.ilist = il /\ at.inode = il[n]
      \/ /\ il[n].block_addrs[0] = 0 /\ a.ret = -1
         /\ at.fs = a.fs /\ at.ilist = il /\ at.inode = il[n]
      \/ /\ il[n].block_addrs[0] = 0 /\ a.ret # -1
         /\ at.fs = a.fs
         /\ at.ilist = AddrStored(il, n, 0, a.ret)
         /\ at.inode = InodeGiven(il[n], 0, a.ret)
  BY <1>2, <1>3, Zenon DEF DirectAccessed
<1>6. il[n] \in Inode /\ il[n].block_addrs[0] \in Int
  BY <1>1 DEF IList, Inode
<1> HIDE DEF a
<1>7. CASE /\ il[n].block_addrs[0] # 0
           /\ at.fs = f /\ at.ilist = il /\ at.inode = il[n]
  BY <1>6, <1>7
<1>8. CASE /\ il[n].block_addrs[0] = 0 /\ a.ret = -1
           /\ at.fs = a.fs /\ at.ilist = il /\ at.inode = il[n]
  <2>1. Typed(a.fs, il)
    BY <1>4, <1>8 DEF Typed
  <2> QED BY <1>6, <1>8, <2>1
<1>9. CASE /\ il[n].block_addrs[0] = 0 /\ a.ret # -1
           /\ at.fs = a.fs
           /\ at.ilist = AddrStored(il, n, 0, a.ret)
           /\ at.inode = InodeGiven(il[n], 0, a.ret)
  <2>1. b = a.ret
    BY <1>1, <1>6, <1>9 DEF InodeGiven, Inode
  <2>2. ASSUME n = ROOT_INODE_NUM \/ b \in DataBlocks \cup {0}
        PROVE  Typed(a.fs, AddrStored(il, n, 0, a.ret))
    BY <1>4, <1>9, <2>1, <2>2, StoredTyped
  <2> QED BY <1>4, <1>9, <2>1, <2>2
<1> QED BY <1>5, <1>7, <1>8, <1>9

\* free_inode.
LEMMA FreeTyped ==
  ASSUME NEW f, NEW il, Typed(f, il), NEW n \in InodeNum \ {ROOT_INODE_NUM},
         HeadIsStray(f) => il[n].block_addrs = NoBlocks
  PROVE  Typed(FreeInode(f, il, n).fs, FreeInode(f, il, n).ilist)
<1> DEFINE r == FreeInode(f, il, n)
           cleared == [il EXCEPT ![n] = ClearedInode]
<1>1. f \in RawState /\ il \in IList /\ HoldsData(il, n)
  BY DEF Typed
<1>2. r.fs \in RawState
  <2>1. CASE il[n].block_addrs = NoBlocks
    <3>1. \A i \in AddrIdx : il[n].block_addrs[i] = 0
      BY <2>1 DEF NoBlocks
    <3> QED BY <1>1, <3>1, FreeInodeWithoutBlocks
  <2>2. CASE ~ HeadIsStray(f)
    <3>1. FreedAlike(r, FreeInode(AsRead(f), il, n))
      BY <1>1, <2>2, FreeInodeReads
    <3> HIDE DEF r
    <3> QED BY <3>1 DEF FreedAlike
  <2> QED BY <2>1, <2>2
<1>3. r.ilist = il \/ r.ilist = cleared
  BY DEF FreeInode
<1>4. /\ cleared \in IList
      /\ \A k \in InodeNum \ {n} : cleared[k] = il[k]
      /\ \A j \in AddrIdx : cleared[n].block_addrs[j] = 0
  BY <1>1, ClearedFacts
<1> HIDE DEF r, cleared
<1>5. \A k \in InodeNum \ {ROOT_INODE_NUM} : HoldsData(cleared, k)
  BY <1>4 DEF Typed, HoldsData
<1>6. Typed(r.fs, r.ilist)
  BY <1>2, <1>3, <1>4, <1>5 DEF Typed
<1> QED BY <1>6 DEF r

\* my_mkdir's last part.
LEMMA LinkTyped ==
  ASSUME NEW s \in RawState, NEW il, Typed(s, il),
         NEW n \in InodeNum \ {ROOT_INODE_NUM}, NEW parent,
         parent = il[ROOT_INODE_NUM], parent.m_data.file_size = -1,
         NEW name \in Int, NEW tail \in Int, NEW block \in DataBlocks,
         LinkDirectory(s, il, parent, n, name, tail, block) # Wreck
  PROVE  LET r == LinkDirectory(s, il, parent, n, name, tail, block)
         IN  Typed(r.fs, r.ilist) /\ r.struck \in BOOLEAN
<1> DEFINE r == LinkDirectory(s, il, parent, n, name, tail, block)
           jl == AddrStored(il, n, 0, block)
           dotted == Dotted(s, n, block)
           given == Given(dotted, jl, ROOT_INODE_NUM, parent)
           at == AccessDirect(given, 0, TRUE)
           b == at.inode.block_addrs[0]
<1>1. n \in Nat \ {0} /\ ROOT_INODE_NUM \in InodeNum
  BY InodeNumFacts DEF ROOT_INODE_NUM
<1>2. block \in Int /\ 0 \in AddrIdx /\ il \in IList
  BY DataBlocksPositive, InodeAssumption DEF Typed, AddrIdx, INODE_BLOCKS
<1>3. Typed(s, jl)
  BY <1>2, StoredTyped
<1>4. Typed(dotted, jl)
  BY <1>1, <1>3, DottedIsWrite, WriteTyped
<1>5. parent = jl[ROOT_INODE_NUM]
  BY <1>1, <1>2, AddrStoredFacts
<1>6. /\ ~ (parent.block_addrs[0] = 0 /\ HeadIsStray(dotted))
      /\ EntryBlocks(b, -1) \subseteq DataBlocks
      /\ r.fs = WriteEntry(at.fs, b, -1, n, name, tail)
      /\ r.ilist = at.ilist
      /\ r.struck = Strikes(at.fs, b, -1)
  <2>1. LinkedAtMinusOne(r, s, il, parent, n, name, tail, block)
    BY LinkAtMinusOne
  <2> HIDE DEF r
  <2> QED BY <2>1, Zenon DEF LinkedAtMinusOne
<1>7. b \in Int /\ Typed(at.fs, at.ilist)
  <2>1. at = AccessDirect(Given(dotted, jl, ROOT_INODE_NUM, jl[ROOT_INODE_NUM]), 0, TRUE)
    BY <1>5, Zenon
  <2>2. jl[ROOT_INODE_NUM].block_addrs[0] = 0 => ~ HeadIsStray(dotted)
    BY <1>5, <1>6, Zenon
  <2> HIDE DEF dotted, jl, at, given
  <2> QED BY <1>1, <1>4, <2>1, <2>2, AccessTyped
<1> HIDE DEF r, at, b
<1>8. WriteEntry(at.fs, b, -1, n, name, tail) \in RawState
  <2>1. at.fs \in RawState /\ n \in Nat
    BY <1>1, <1>7 DEF Typed
  <2> QED BY <1>6, <1>7, <2>1, StrayWords
<1>9. Strikes(at.fs, b, -1) \in BOOLEAN
  BY DEF Strikes
<1>10. Typed(r.fs, r.ilist) /\ r.struck \in BOOLEAN
  <2>1. Typed(WriteEntry(at.fs, b, -1, n, name, tail), at.ilist)
    BY <1>7, <1>8 DEF Typed
  <2> QED BY <1>6, <1>9, <2>1
<1> QED BY <1>10, Zenon DEF r

\* my_mkdir.
LEMMA MkdirTyped ==
  ASSUME RootKept(ilist), Typed(fs, ilist), struck \in BOOLEAN,
         NEW path \in Paths, NEW set \in BOOLEAN, NEW tail \in Tails,
         Mkdir(path, set, tail)
  PROVE  Typed(fs', ilist') /\ struck' \in BOOLEAN
<1> DEFINE n == AllocInode(ilist, DIR).ret
           sized == Sized(ilist, set)
           a == AllocInt(fs)
           parent == ilist[ROOT_INODE_NUM]
           name == DirName(path)[1]
           gone == GiveUp(a.fs, sized, n)
           linked == LinkDirectory(a.fs, sized, parent, n, name, tail, a.ret)
<1>1. \/ struck' = struck /\ fs' = fs /\ ilist' = ilist
      \/ struck' = (struck \/ FALSE) /\ fs' = fs /\ ilist' = ilist
      \/ /\ Refusal(ilist, path) = 0 /\ ~ (n < 0) /\ ~ HeadIsStray(fs)
         /\ \/ /\ a.ret = -1
               /\ struck' = (struck \/ FALSE) /\ fs' = gone.fs /\ ilist' = gone.ilist
            \/ /\ a.ret # -1 /\ a.ret \in DataBlocks /\ linked # Wreck
               /\ struck' = (struck \/ linked.struck)
               /\ fs' = linked.fs /\ ilist' = linked.ilist
  BY MkdirCases, Zenon DEF MkdirLeaves
<1>2. CASE fs' = fs /\ ilist' = ilist /\ struck' = struck
  BY <1>2
<1>3. CASE fs' = fs /\ ilist' = ilist /\ struck' = (struck \/ FALSE)
  BY <1>3
<1>4. CASE /\ Refusal(ilist, path) = 0 /\ ~ (n < 0) /\ ~ HeadIsStray(fs)
           /\ \/ /\ a.ret = -1
                 /\ struck' = (struck \/ FALSE) /\ fs' = gone.fs /\ ilist' = gone.ilist
              \/ /\ a.ret # -1 /\ a.ret \in DataBlocks /\ linked # Wreck
                 /\ struck' = (struck \/ linked.struck)
                 /\ fs' = linked.fs /\ ilist' = linked.ilist
  <2>1. ilist \in IList /\ fs \in RawState
    BY DEF Typed
  <2>2. name \in Int /\ tail \in Int
    <3>1. Absolute(path) /\ DirName(path) # <<>>
      BY <1>4 DEF Refusal, EINVAL
    <3>2. tail \in Int
      BY DirectoryAssumption
    <3> QED BY <3>1, <3>2, NameIsPositive
  <2>3. /\ n \in InodeNum \ {ROOT_INODE_NUM}
        /\ sized \in IList
        /\ \A k \in InodeNum : sized[k].block_addrs = ilist[k].block_addrs
        /\ \A k \in InodeNum \ {n} : sized[k] = ilist[k]
    BY <1>4, <2>1, NewDirectory
  <2>4. parent = sized[ROOT_INODE_NUM] /\ parent.m_data.file_size = -1
    BY <2>3, InodeNumFacts DEF RootKept, RootMData
  <2>5. ReadAlike(a, AllocInt(AsRead(fs)))
    BY <1>4, <2>1, AllocReads
  <2> HIDE DEF n, sized, parent, name, a
  <2>6. a.fs \in RawState
    BY <2>5 DEF ReadAlike
  <2>7. Typed(a.fs, sized)
    BY <2>3, <2>6, SameAddrsTyped
  <2>8. CASE a.ret = -1
    <3>1. ~ HeadIsStray(a.fs)
      BY <2>5, <2>8 DEF ReadAlike
    <3>2. Typed(FreeInode(a.fs, sized, n).fs, FreeInode(a.fs, sized, n).ilist)
      BY <2>3, <2>7, <3>1, FreeTyped
    <3>3. Typed(gone.fs, gone.ilist)
      BY <3>2 DEF GiveUp, Returned
    <3> HIDE DEF gone
    <3> QED BY <1>4, <2>8, <3>3
  <2>9. CASE a.ret # -1
    <3>1. /\ a.ret \in DataBlocks /\ linked # Wreck
          /\ struck' = (struck \/ linked.struck)
          /\ fs' = linked.fs /\ ilist' = linked.ilist
      <4> HIDE DEF linked, gone
      <4> QED BY <1>4, <2>9
    <3>2. Typed(linked.fs, linked.ilist) /\ linked.struck \in BOOLEAN
      BY <2>2, <2>3, <2>4, <2>6, <2>7, <3>1, LinkTyped
    <3> HIDE DEF linked
    <3> QED BY <3>1, <3>2
  <2> QED BY <2>8, <2>9
<1> QED BY <1>1, <1>2, <1>3, <1>4

\* write of a block: if it is not one of the data blocks, that is a wreck.
LEMMA WriteFileTyped ==
  ASSUME Typed(fs, ilist), NEW n \in InodeNum, NEW d \in Data, WriteFile(n, d)
  PROVE  Typed(fs', ilist')
<1> DEFINE at == AccessDirect(WriteGiven(n), 0, TRUE)
           b == at.inode.block_addrs[0]
           full == [i \in Slot |-> d]
           f == [at.fs EXCEPT !.disk[b] = full]
           jl == [at.ilist EXCEPT ![n].m_data.file_size = SLOTS]
<1>1. \/ fs' = fs /\ ilist' = ilist
      \/ /\ ilist[n].block_addrs[0] = 0 => ~ HeadIsStray(fs)
         /\ \/ b = 0 /\ fs' = at.fs /\ ilist' = at.ilist
            \/ b \in DataBlocks /\ fs' = f /\ ilist' = jl
  BY WriteFileCases, Zenon DEF WriteLeaves
<1>2. CASE fs' = fs /\ ilist' = ilist
  BY <1>2
<1>3. CASE /\ ilist[n].block_addrs[0] = 0 => ~ HeadIsStray(fs)
           /\ \/ b = 0 /\ fs' = at.fs /\ ilist' = at.ilist
              \/ b \in DataBlocks /\ fs' = f /\ ilist' = jl
  <2>1. b \in DataBlocks \cup {0} => Typed(at.fs, at.ilist)
    BY <1>3, AccessTyped, Zenon DEF WriteGiven
  <2>2. full \in Block
    BY DirectoryAssumption DEF Block
  <2> HIDE DEF at, full
  <2>3. CASE b = 0 /\ fs' = at.fs /\ ilist' = at.ilist
    BY <2>1, <2>3
  <2>4. CASE b \in DataBlocks /\ fs' = f /\ ilist' = jl
    <3>1. Typed(f, at.ilist) /\ at.ilist \in IList /\ f \in RawState
      BY <2>1, <2>2, <2>4, WriteTyped DEF Typed
    <3>2. jl \in IList /\ \A k \in InodeNum : jl[k].block_addrs = at.ilist[k].block_addrs
      BY <3>1, SizedWriteFacts
    <3> HIDE DEF f, jl
    <3>3. Typed(f, jl)
      BY <3>1, <3>2, SameAddrsTyped
    <3> QED BY <2>4, <3>3
  <2> QED BY <1>3, <2>3, <2>4
<1> QED BY <1>1, <1>2, <1>3

\* Every call keeps the types.
LEMMA NextTyped ==
  ASSUME RootKept(ilist), Typed(fs, ilist), struck \in BOOLEAN, [Next]_vars
  PROVE  Typed(fs', ilist') /\ struck' \in BOOLEAN
<1>1. ASSUME NEW path \in Paths, NEW set \in BOOLEAN, NEW tail \in Tails,
             Mkdir(path, set, tail)
      PROVE  Typed(fs', ilist') /\ struck' \in BOOLEAN
  BY <1>1, MkdirTyped
<1>2. ASSUME CreateFile PROVE Typed(fs', ilist') /\ struck' \in BOOLEAN
  <2>1. ilist \in IList /\ fs \in RawState
    BY DEF Typed
  <2>2. struck' \in BOOLEAN
    BY <1>2 DEF CreateFile, Leaves
  <2> QED BY <1>2, <2>1, <2>2, CreateFileAddrs, SameAddrsTyped
<1>3. ASSUME NEW n \in InodeNum, NEW d \in Data, WriteFile(n, d)
      PROVE  Typed(fs', ilist') /\ struck' \in BOOLEAN
  BY <1>3, WriteFileTyped, StaysUnstruck
<1>4. ASSUME NEW n \in InodeNum \ {ROOT_INODE_NUM}, Remove(n)
      PROVE  Typed(fs', ilist') /\ struck' \in BOOLEAN
  <2> DEFINE r == FreeInode(fs, ilist, n)
             stray == HeadIsStray(fs) /\ ilist[n].block_addrs # NoBlocks
  <2>1. IF stray THEN Wrecks ELSE Leaves(r.fs, r.ilist, FALSE)
    BY <1>4, Zenon DEF Remove
  <2>2. CASE stray
    <3>1. fs' = fs /\ ilist' = ilist
      BY <2>1, <2>2 DEF Wrecks
    <3> QED BY <1>4, <3>1, StaysUnstruck
  <2>3. CASE ~ stray
    <3>1. Typed(r.fs, r.ilist)
      BY <2>3, FreeTyped
    <3> HIDE DEF r, stray
    <3>2. fs' = r.fs /\ ilist' = r.ilist
      BY <2>1, <2>3 DEF Leaves
    <3> QED BY <1>4, <3>1, <3>2, StaysUnstruck
  <2> QED BY <2>2, <2>3
<1>5. CASE UNCHANGED vars
  BY <1>5 DEF vars
<1> QED BY <1>1, <1>2, <1>3, <1>4, <1>5 DEF Next, Wrecked

\* A call leaves the data blocks, or does not.
LEMMA NextWrecks ==
  ASSUME wrecked \in BOOLEAN, [Next]_vars PROVE wrecked' \in BOOLEAN
<1>1. ASSUME NEW path \in Paths, NEW set \in BOOLEAN, NEW tail \in Tails,
             Mkdir(path, set, tail)
      PROVE  wrecked' \in BOOLEAN
  <2>1. wrecked' = TRUE \/ wrecked' = FALSE
    BY <1>1, MkdirCases, Zenon DEF MkdirLeaves
  <2> QED BY <2>1
<1>2. ASSUME CreateFile PROVE wrecked' \in BOOLEAN
  BY <1>2 DEF CreateFile, Leaves
<1>3. ASSUME NEW n \in InodeNum, NEW d \in Data, WriteFile(n, d)
      PROVE  wrecked' \in BOOLEAN
  <2>1. wrecked' = TRUE \/ wrecked' = FALSE
    BY <1>3, Zenon DEF WriteFile, Leaves, Wrecks
  <2> QED BY <2>1
<1>4. ASSUME NEW n \in InodeNum \ {ROOT_INODE_NUM}, Remove(n)
      PROVE  wrecked' \in BOOLEAN
  BY <1>4 DEF Remove, Leaves, Wrecks
<1>5. CASE UNCHANGED vars
  BY <1>5 DEF vars
<1> QED BY <1>1, <1>2, <1>3, <1>4, <1>5 DEF Next, Wrecked

\* Every reachable state satisfies the inductive invariant.
LEMMA DInvHolds == ASSUME LinkedGeometry PROVE Spec => []DInv
<1>1. Init => DInv
  <2> SUFFICES ASSUME Init PROVE DInv
    OBVIOUS
  <2>1. fs = InitFs /\ ilist = InitIList /\ struck = FALSE /\ wrecked = FALSE
    BY DEF Init
  <2>2. Kept(fs, ilist)
    BY <2>1, InitKept
  <2> QED BY <2>1, <2>2, InitKeepsRoot, KeptIsTyped DEF DInv
<1>2. DInv /\ [Next]_vars => DInv'
  BY NextKeepsRoot, NextTyped, NextKept, NextWrecks DEF DInv
<1> QED BY <1>1, <1>2, PTL DEF Spec

-----------------------------------------------------------------------------
(* Blocks and inodes *)

\* The data blocks and the i-list stay what the code takes them for, whatever is
\* written over them and whatever a struck list gives out: an address of an inode
\* is that of a data block, or none, save that the root is given any number then.
THEOREM TypeCorrect == ASSUME LinkedGeometry PROVE Spec => []TypeOK
<1>1. DInv => TypeOK
  <2> SUFFICES ASSUME DInv PROVE TypeOK
    OBVIOUS
  <2>1. ASSUME NEW n \in InodeNum, NEW i \in AddrIdx
        PROVE  \/ ilist[n].block_addrs[i] \in DataBlocks \cup {0}
               \/ n = ROOT_INODE_NUM /\ struck
    <3>1. CASE n # ROOT_INODE_NUM
      BY <3>1 DEF DInv, Typed, HoldsData
    <3>2. CASE ~ struck
      BY <3>2 DEF DInv, Kept, Separate, AddrsAreData
    <3> QED BY <3>1, <3>2
  <2> QED BY <2>1 DEF DInv, Typed, TypeOK
<1> QED BY <1>1, DInvHolds, PTL

\* mkdir.cpp:80 to :117: until an entry goes over the words of a node, no block has
\* two owners, and none that an inode names is on the list as the calls read it,
\* also after a my_mkdir that failed and when an entry's first byte was written over
\* the last one of a node.
THEOREM BlocksStayApart == ASSUME LinkedGeometry PROVE Spec => []BlocksHeldOnce
<1>1. DInv => BlocksHeldOnce
  <2> SUFFICES ASSUME DInv, ~ struck PROVE BlocksHeldOnce
    BY DEF BlocksHeldOnce
  <2>1. HeldNotFree(AsRead(fs), ilist) /\ OneOwner(ilist)
    BY DEF DInv, Kept, Separate
  <2>2. ASSUME NEW n \in InodeNum, NEW m \in InodeNum, n # m
        PROVE  BlocksOf(ilist, n) \cap BlocksOf(ilist, m) = {}
    BY <2>1, <2>2 DEF OneOwner, BlocksOf
  <2>3. ASSUME NEW n \in InodeNum PROVE BlocksOf(ilist, n) \cap Free(fs) = {}
    BY <2>1 DEF HeldNotFree, BlocksOf, Free
  <2> QED BY <2>2, <2>3 DEF BlocksHeldOnce
<1> QED BY <1>1, DInvHolds, PTL

\* What a my_mkdir that finds no block leaves of the new inode n.
GivenUp(f, il, n, set) ==
  \/ /\ n \in Nat
     /\ il = [ilist EXCEPT ![n] = ClearedInode]
     /\ Free(f) = Free(fs) \cup BlocksOf(ilist, n)
  \/ /\ n \in Nat
     /\ BlocksOf(ilist, n) # {} /\ Free(fs) = {}
     /\ il = [ilist EXCEPT ![n].m_data = DirMData(set)]
     /\ Free(f) = {}

\* free_inode gives the inode back with its blocks, or fails and gives back nothing.
LEMMA GiveUpContract ==
  ASSUME RootKept(ilist), Kept(fs, ilist), NEW path \in Paths, NEW set \in BOOLEAN,
         NEW tail \in Tails, Mkdir(path, set, tail),
         Refusal(ilist, path) = 0,
         ~ (AllocInode(ilist, DIR).ret < 0),
         ~ HeadIsStray(fs), AllocInt(fs).ret = -1
  PROVE  GivenUp(fs', ilist', AllocInode(ilist, DIR).ret, set)
<1> DEFINE n == AllocInode(ilist, DIR).ret
           sized == Sized(ilist, set)
           a == AllocInt(fs)
           gone == GiveUp(a.fs, sized, n)
           r == FreeInode(a.fs, sized, n)
           cleared == [sized EXCEPT ![n] = ClearedInode]
<1>1. fs' = gone.fs /\ ilist' = gone.ilist
  BY MkdirCases, Zenon DEF MkdirLeaves
<1>2. ilist \in IList
  BY DEF Kept, Separate
<1>3. /\ n \in InodeNum /\ n \in Nat
      /\ sized \in IList
      /\ \A k \in InodeNum : sized[k].block_addrs = ilist[k].block_addrs
      /\ sized = [ilist EXCEPT ![n].m_data = DirMData(set)]
  BY <1>2, NewDirectory, InodeNumFacts
<1>4. a.ret = -1
  OBVIOUS
<1>5. gone.fs = r.fs /\ gone.ilist = r.ilist
  BY DEF GiveUp, Returned
<1>6. cleared = [ilist EXCEPT ![n] = ClearedInode]
  <2> DEFINE inode == [ilist[n] EXCEPT !.m_data = DirMData(set)]
  <2>1. sized = [ilist EXCEPT ![n] = inode]
    BY <1>3
  <2> HIDE DEF inode, sized, n
  <2> QED BY <2>1
<1> SUFFICES GivenUp(fs', ilist', n, set)
  OBVIOUS
<1> HIDE DEF n, sized, a, gone
<1>7. Kept(fs, sized)
  BY <1>2, <1>3, SameAddrsKept
<1>8. GrownKept(a, fs, sized, n, 0)
  <2>1. 0 \in DirectIdx
    BY InodeAssumption DEF DirectIdx
  <2> QED BY <1>3, <1>7, <2>1, GrowKept DEF a
<1>9. Kept(a.fs, sized) /\ Free(a.fs) = Free(fs) /\ ~ HeadIsStray(a.fs)
  BY <1>4, <1>8 DEF GrownKept
<1>10. InodeBlocks(sized[n].block_addrs) = BlocksOf(ilist, n)
  BY <1>3 DEF InodeBlocks, BlocksOf
<1>11. \/ r.ilist = cleared /\ Free(r.fs) = Free(fs) \cup BlocksOf(ilist, n)
       \/ /\ r.ilist = sized /\ Free(r.fs) = Free(fs) /\ Free(fs) = {}
          /\ BlocksOf(ilist, n) # {}
  <2> DEFINE B == InodeBlocks(sized[n].block_addrs)
  <2>1. \/ r.ilist = cleared /\ Free(r.fs) = Free(a.fs) \cup B
        \/ r.ilist = sized /\ Free(r.fs) = Free(a.fs) /\ Free(a.fs) = {} /\ B # {}
    <3>1. FreedKept(r, a.fs, sized, n)
      BY <1>3, <1>9, FreeKept
    <3> HIDE DEF r
    <3> QED BY <3>1, Zenon DEF FreedKept
  <2> HIDE DEF r, cleared, B
  <2>2. B = BlocksOf(ilist, n)
    BY <1>10 DEF B
  <2> QED BY <1>9, <2>1, <2>2
<1> HIDE DEF r, cleared
<1> QED BY <1>1, <1>3, <1>5, <1>6, <1>11 DEF GivenUp

\* mkdir.cpp:82: a my_mkdir that fails after it began changes nothing, or gives the
\* inode back with all its blocks, or, at an empty list, leaves it allocated with
\* the blocks that it had: if no entry has gone over the words of a node before.
THEOREM FailureIsAllOrNone == ASSUME LinkedGeometry PROVE Spec => FailedMkdirAllOrNone
<1> DEFINE Outcome(path, set) ==
      LET n == AllocInode(ilist, DIR).ret
      IN  \/ n < 0 /\ UNCHANGED vars
          \/ /\ n >= 0
             /\ ilist' = [ilist EXCEPT ![n] = ClearedInode]
             /\ Free(fs') = Free(fs) \cup BlocksOf(ilist, n)
          \/ /\ n >= 0
             /\ BlocksOf(ilist, n) # {} /\ Free(fs) = {}
             /\ ilist' = [ilist EXCEPT ![n].m_data = DirMData(set)]
             /\ Free(fs') = {}
<1>1. ASSUME DInv, NEW path \in Paths, NEW set \in BOOLEAN,
             NEW tail \in Tails, ~ struck,
             Refusal(ilist, path) = 0,
             MyMkdir(fs, ilist, path, set, tail).ret # 0,
             Mkdir(path, set, tail)
      PROVE  Outcome(path, set)
  <2> DEFINE n == AllocInode(ilist, DIR).ret
             a == AllocInt(fs)
             r == MyMkdir(fs, ilist, path, set, tail)
             linked == LinkDirectory(a.fs, Sized(ilist, set), ilist[ROOT_INODE_NUM],
                                     n, DirName(path)[1], tail, a.ret)
  <2>1. \/ /\ n < 0
           /\ wrecked' = FALSE /\ struck' = (struck \/ FALSE) /\ fs' = fs /\ ilist' = ilist
        \/ ~ (n < 0) /\ ~ HeadIsStray(fs) /\ a.ret = -1
        \/ linked # Wreck /\ r.ret = linked.ret
    BY <1>1, MkdirCases, Zenon DEF MkdirLeaves
  <2>2. CASE /\ n < 0
             /\ wrecked' = FALSE /\ struck' = (struck \/ FALSE) /\ fs' = fs /\ ilist' = ilist
    <3>1. wrecked = FALSE /\ struck = FALSE
      BY <1>1 DEF DInv, Mkdir
    <3> HIDE DEF n
    <3> QED BY <2>2, <3>1 DEF vars, n
  <2>3. CASE ~ (n < 0) /\ ~ HeadIsStray(fs) /\ a.ret = -1
    <3>1. GivenUp(fs', ilist', n, set)
      BY <1>1, <2>3, GiveUpContract DEF DInv
    <3>2. n \in Nat => n >= 0
      OBVIOUS
    <3> HIDE DEF n
    <3> QED BY <3>1, <3>2, Zenon DEF GivenUp, n
  <2>4. CASE linked # Wreck /\ r.ret = linked.ret
    <3>1. linked.ret = 0
      BY <2>4 DEF LinkDirectory, Returned
    <3> HIDE DEF linked, r
    <3> QED BY <1>1, <2>4, <3>1 DEF r
  <2> QED BY <2>1, <2>2, <2>3, <2>4
<1> DEFINE AllOrNone ==
      \A path \in Paths, set \in BOOLEAN, tail \in Tails :
        /\ ~ struck
        /\ Refusal(ilist, path) = 0 /\ MyMkdir(fs, ilist, path, set, tail).ret # 0
        /\ Mkdir(path, set, tail)
        => Outcome(path, set)
<1>2. DInv /\ [Next]_vars => [AllOrNone]_vars
  <2> HIDE DEF Outcome
  <2> QED BY <1>1, Zenon
<1> HIDE DEF AllOrNone
<1>3. Spec => [][AllOrNone]_vars
  BY <1>2, DInvHolds, PTL DEF Spec
<1> QED BY <1>3 DEF FailedMkdirAllOrNone, AllOrNone
=============================================================================
