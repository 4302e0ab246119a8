----------------------------- MODULE FilesProofs ------------------------------
(***************************************************************************)
(* Theorems about Files, for every geometry whose last node links to       *)
(* nothing, callers that share no inode, and writes that stay within the   *)
(* direct blocks (the runs shared and short show what others do).  What    *)
(* the allocator and the i-list do is used through the contracts of        *)
(* FileOpsProofs.                                                          *)
(***************************************************************************)
EXTENDS Files, FileOpsProofs

DirectWrites == \A offset \in Offsets, size \in Sizes : offset + size <= DIRECT * SLOTS

\* What the theorems assume.
Callers == LinkedGeometry /\ DirectWrites /\ Exclusive = TRUE

-----------------------------------------------------------------------------
(* The inductive invariant, its first part on a state f of the free list,  *)
(* an i-list il and the words dt that the files were given.                *)

FileWords == [Pos -> Data \cup {Unwritten}]
NoWords == [p \in Pos |-> Unwritten]

\* The address of the block that has the word at p.
BlockOf(inode, p) == inode.block_addrs[p \div SLOTS]

\* Every word a file was given is in a block of the file, whatever its size is
\* and whoever has read the inode.
Stored(f, il, dt) ==
  \A n \in InodeNum, p \in Pos :
    dt[n][p] # Unwritten =>
      /\ BlockOf(il[n], p) # 0
      /\ f.disk[BlockOf(il[n], p)][p % SLOTS] = dt[n][p]

\* An inode that alloc_inode may choose has no block, and nothing was written.
UnusedIsEmpty(il, dt) ==
  \A n \in Unallocated(il) :
    /\ \A i \in AddrIdx : il[n].block_addrs[i] = 0
    /\ \A p \in Pos : dt[n][p] = Unwritten

Sound(f, il, dt) ==
  /\ Separate(f, il)
  /\ dt \in [InodeNum -> FileWords]
  /\ Stored(f, il, dt)
  /\ UnusedIsEmpty(il, dt)

\* The copies: of allocated inodes, current, and each of another inode.
HeldType == held \in [Handles -> OpenFile \cup {Closed}]
HeldAllocated == \A h \in Handles : IsOpen(h) => ilist[held[h].n].m_data.is_allocated
HeldByOne ==
  \A h, g \in Handles : IsOpen(h) /\ IsOpen(g) /\ held[h].n = held[g].n => h = g

IInv ==
  /\ Sound(fs, ilist, data)
  /\ HeldType
  /\ HeldAllocated
  /\ HeldByOne
  /\ CopyIsCurrent

-----------------------------------------------------------------------------
(* Sound, and what one change of the disk or the i-list does to it *)

\* The words of a file are those behind its direct addresses.
LEMMA PosAreDirect == Pos = DirectWords
BY DEF Pos, DirectWords

\* A word never written is told apart from what callers write.
LEMMA UnwrittenIsNoData ==
  /\ Unwritten \notin Data
  /\ Data \subseteq Int
  /\ NoWords \in FileWords
BY FilesAssumption DEF Unwritten, NoWords, FileWords

\* A formatted partition with no file written.
LEMMA InitSound ==
  ASSUME LinkedGeometry
  PROVE  Sound(InitFs, InitIList, [n \in InodeNum |-> NoWords])
<1> DEFINE dt == [n \in InodeNum |-> NoWords]
<1>1. dt \in [InodeNum -> FileWords]
  BY UnwrittenIsNoData
<1>2. \A n \in InodeNum, p \in Pos : dt[n][p] = Unwritten
  BY DEF NoWords
<1>3. \A n \in InodeNum, i \in AddrIdx : InitIList[n].block_addrs[i] = 0
  BY DEF InitIList, NoBlocks
<1> HIDE DEF dt
<1>4. Stored(InitFs, InitIList, dt)
  BY <1>2 DEF Stored
<1>5. UnusedIsEmpty(InitIList, dt)
  BY <1>2, <1>3 DEF UnusedIsEmpty, Unallocated
<1> QED BY <1>1, <1>4, <1>5, InitSeparate DEF Sound, dt

\* A word that was given is in a block that is not free.
LEMMA StoredBlock ==
  ASSUME NEW f, NEW il, NEW dt, Sound(f, il, dt), NEW n \in InodeNum, NEW p \in Pos,
         dt[n][p] # Unwritten
  PROVE  /\ p \div SLOTS \in AddrIdx
         /\ BlockOf(il[n], p) # 0
         /\ BlockOf(il[n], p) \in DataBlocks \ FreeBlocks(f)
         /\ f.disk[BlockOf(il[n], p)][p % SLOTS] = dt[n][p]
<1>1. p \div SLOTS \in AddrIdx
  BY PosAreDirect, DirectWordFacts
<1> QED BY <1>1, HeldIsData DEF Sound, Stored, BlockOf

\* Metadata changes: of an inode that stays, or becomes, allocated.
LEMMA MDataSound ==
  ASSUME NEW f, NEW il, NEW dt, Sound(f, il, dt), NEW n \in InodeNum, NEW m \in MData,
         m.is_allocated = TRUE
  PROVE  Sound(f, MDataStored(il, n, m), dt)
<1> DEFINE jl == MDataStored(il, n, m)
<1>1. il \in IList
  BY DEF Sound, Separate
<1>2. /\ jl \in IList
      /\ \A k \in InodeNum : jl[k].block_addrs = il[k].block_addrs
      /\ \A k \in InodeNum \ {n} : jl[k] = il[k]
      /\ jl[n].m_data = m
  BY <1>1, MDataStoredFacts
<1> HIDE DEF jl
<1>3. Separate(f, jl)
  BY <1>2, SameAddrsSeparate DEF Sound, Separate
<1>4. Stored(f, jl, dt)
  BY <1>2 DEF Sound, Stored, BlockOf
<1>5. Unallocated(jl) \subseteq Unallocated(il)
  BY <1>2 DEF Unallocated
<1>6. UnusedIsEmpty(jl, dt)
  BY <1>2, <1>5 DEF Sound, UnusedIsEmpty, Unallocated
<1> QED BY <1>3, <1>4, <1>6 DEF Sound, jl

\* A block that alloc_block returns is given to an inode in use.
LEMMA GrowSound ==
  ASSUME NEW f, NEW il, NEW dt, Sound(f, il, dt), NEW n \in InodeNum,
         il[n].m_data.is_allocated, NEW i \in DirectIdx, il[n].block_addrs[i] = 0
  PROVE  LET r == AllocInt(f)
         IN  \/ r.ret = -1 /\ Sound(r.fs, il, dt)
             \/ /\ r.ret # -1
                /\ r.ret \in DataBlocks
                /\ r.ret # 0
                /\ Sound(r.fs, AddrStored(il, n, i, r.ret), dt)
<1> DEFINE r == AllocInt(f)
           jl == AddrStored(il, n, i, r.ret)
<1>1. \/ r.ret = -1 /\ Separate(r.fs, il) /\ FreeBlocks(r.fs) = FreeBlocks(f)
      \/ /\ r.ret # -1
         /\ r.ret \in DataBlocks \ FreeBlocks(r.fs)
         /\ Separate(r.fs, jl)
  <2>1. Separate(f, il)
    BY DEF Sound
  <2>2. Grown(r, f, il, n, i)
    BY <2>1, GrowSeparate
  <2> QED BY <2>2, Zenon DEF Grown
<1>2. \A b \in DataBlocks \ FreeBlocks(f) : r.fs.disk[b] = f.disk[b]
  BY AllocIntContract DEF Sound, Separate
<1>3. \A k \in InodeNum, p \in Pos : dt[k][p] # Unwritten =>
        /\ BlockOf(il[k], p) # 0
        /\ r.fs.disk[BlockOf(il[k], p)][p % SLOTS] = dt[k][p]
  BY <1>2, StoredBlock
<1>4. CASE r.ret = -1 /\ Separate(r.fs, il)
  <2> HIDE DEF r
  <2>1. Sound(r.fs, il, dt)
    BY <1>3, <1>4 DEF Sound, Stored
  <2> QED BY <1>4, <2>1 DEF r
<1>5. CASE /\ r.ret # -1
           /\ r.ret \in DataBlocks
           /\ Separate(r.fs, jl)
  <2> HIDE DEF r
  <2>1. r.ret \in Int /\ r.ret # 0
    <3>1. r.ret \in Nat /\ r.ret # 0
      BY <1>5, DataBlocksPositive DEF Null, Empty
    <3> QED BY <3>1
  <2>2. i \in AddrIdx /\ il \in IList
    BY AddrIdxFacts DEF Sound, Separate
  <2>3. /\ \A k \in InodeNum, j \in AddrIdx :
             jl[k].block_addrs[j] =
               IF k = n /\ j = i THEN r.ret ELSE il[k].block_addrs[j]
        /\ \A k \in InodeNum : jl[k].m_data = il[k].m_data
    BY <2>1, <2>2, AddrStoredFacts
  <2> HIDE DEF jl
  <2>4. Stored(r.fs, jl, dt)
    <3> SUFFICES ASSUME NEW k \in InodeNum, NEW p \in Pos, dt[k][p] # Unwritten
                 PROVE  BlockOf(jl[k], p) = BlockOf(il[k], p)
      BY <1>3 DEF Stored
    <3>1. p \div SLOTS \in AddrIdx /\ BlockOf(il[k], p) # 0
      BY StoredBlock
    <3> QED BY <2>3, <3>1 DEF BlockOf
  <2>5. Unallocated(jl) = Unallocated(il)
    BY <2>3 DEF Unallocated
  <2>6. UnusedIsEmpty(jl, dt)
    BY <2>3, <2>5 DEF Sound, UnusedIsEmpty, Unallocated
  <2>7. Sound(r.fs, jl, dt)
    BY <1>5, <2>4, <2>6 DEF Sound
  <2> QED BY <1>5, <2>1, <2>7 DEF r, jl
<1> QED BY <1>1, <1>4, <1>5

\* An inode is removed with all its blocks, or nothing happens.
LEMMA RemoveSound ==
  ASSUME NEW f, NEW il, NEW dt, Sound(f, il, dt), NEW n \in InodeNum
  PROVE  LET r == FreeInode(f, il, n)
         IN  Sound(r.fs, r.ilist, IF r.ret = 0 THEN [dt EXCEPT ![n] = NoWords] ELSE dt)
<1> DEFINE r == FreeInode(f, il, n)
           dt2 == IF r.ret = 0 THEN [dt EXCEPT ![n] = NoWords] ELSE dt
<1>1. /\ Separate(r.fs, r.ilist)
      /\ \/ r.ret # 0 /\ r.fs = f /\ r.ilist = il
         \/ r.ret = 0 /\ r.ilist = [il EXCEPT ![n] = ClearedInode]
      /\ \A k \in InodeNum \ {n}, i \in AddrIdx :
           il[k].block_addrs[i] # 0
             => r.fs.disk[il[k].block_addrs[i]] = f.disk[il[k].block_addrs[i]]
  <2>1. Separate(f, il)
    BY DEF Sound
  <2>2. FreedApart(r, f, il, n)
    BY <2>1, FreeSeparate
  <2> QED BY <2>2, Zenon DEF FreedApart
<1> HIDE DEF r
<1>2. CASE r.ret # 0 /\ r.fs = f /\ r.ilist = il
  BY <1>2 DEF r
<1>3. CASE r.ret = 0 /\ r.ilist = [il EXCEPT ![n] = ClearedInode]
  <2> DEFINE jl == [il EXCEPT ![n] = ClearedInode]
  <2>1. /\ \A k \in InodeNum \ {n} : jl[k] = il[k]
        /\ \A j \in AddrIdx : jl[n].block_addrs[j] = 0
    BY ClearedFacts DEF Sound, Separate
  <2> HIDE DEF jl
  <2>2. /\ dt2 \in [InodeNum -> FileWords]
        /\ \A k \in InodeNum : dt2[k] = IF k = n THEN NoWords ELSE dt[k]
    BY <1>3, UnwrittenIsNoData DEF Sound
  <2> HIDE DEF dt2
  <2>3. \A p \in Pos : NoWords[p] = Unwritten
    BY DEF NoWords
  <2>4. Stored(r.fs, jl, dt2)
    <3> SUFFICES ASSUME NEW k \in InodeNum, NEW p \in Pos, dt2[k][p] # Unwritten
                 PROVE  /\ BlockOf(jl[k], p) # 0
                        /\ r.fs.disk[BlockOf(jl[k], p)][p % SLOTS] = dt2[k][p]
      BY DEF Stored
    <3>1. k # n /\ dt2[k] = dt[k] /\ jl[k] = il[k]
      BY <2>1, <2>2, <2>3
    <3>2. /\ p \div SLOTS \in AddrIdx
          /\ BlockOf(il[k], p) # 0
          /\ f.disk[BlockOf(il[k], p)][p % SLOTS] = dt[k][p]
      BY <3>1, StoredBlock
    <3>3. r.fs.disk[BlockOf(il[k], p)] = f.disk[BlockOf(il[k], p)]
      BY <1>1, <3>1, <3>2 DEF BlockOf
    <3> QED BY <3>1, <3>2, <3>3
  <2>5. UnusedIsEmpty(jl, dt2)
    BY <2>1, <2>2, <2>3 DEF Sound, UnusedIsEmpty, Unallocated
  <2> QED BY <1>1, <1>3, <2>2, <2>4, <2>5 DEF Sound, jl, r, dt2
<1> QED BY <1>1, <1>2, <1>3

-----------------------------------------------------------------------------
(* write_to_block *)

\* The words of a block, and those the file was given, after a write of d from
\* pos up to end.
BlockWritten(block, pos, end, d) ==
  [i \in Slot |-> IF (pos \div SLOTS) * SLOTS + i \in pos .. end - 1 THEN d ELSE block[i]]
WordsGiven(words, pos, end, d) ==
  [p \in Pos |-> IF p \in pos .. end - 1 THEN d ELSE words[p]]

\* Which words of the file are which of the block's.
LEMMA BlockWords ==
  ASSUME NEW pos \in Pos, NEW end \in Nat, end <= (pos \div SLOTS + 1) * SLOTS,
         NEW p \in Pos
  PROVE  /\ p \in pos .. end - 1 => p \div SLOTS = pos \div SLOTS
         /\ p \div SLOTS = pos \div SLOTS => (pos \div SLOTS) * SLOTS + (p % SLOTS) = p
<1> DEFINE q == pos \div SLOTS
           u == p \div SLOTS
           m == p % SLOTS
<1>1. SLOTS \in Nat \ {0}
  BY GeometryAssumption
<1>2. /\ pos \in Nat /\ q \in Nat
      /\ p \in Nat /\ u \in Nat /\ m \in Nat
      /\ SLOTS * q <= pos
      /\ p = SLOTS * u + m
  <2>1. pos \in Nat /\ p \in Nat
    BY PosAreDirect, DirectWordFacts
  <2>2. p = SLOTS * u + m /\ m \in Slot
    BY PosAreDirect, DirectWordFacts
  <2>3. m \in Nat
    BY <1>1, <2>2 DEF Slot
  <2> QED BY <1>1, <2>1, <2>2, <2>3, QuotientBounds
<1>3. end <= (q + 1) * SLOTS
  OBVIOUS
<1>4. SLOTS * q \in Nat /\ q * SLOTS = SLOTS * q /\ (q + 1) * SLOTS = SLOTS * q + SLOTS
  BY <1>1, <1>2
<1>5. ASSUME p \in pos .. end - 1 PROVE u = q
  <2>1. SLOTS * q <= p /\ p < SLOTS * q + SLOTS
    <3> HIDE DEF q, u, m
    <3>1. pos <= p /\ p < end
      BY <1>2, <1>5
    <3> QED BY <1>1, <1>2, <1>3, <1>4, <3>1
  <2> QED BY <1>1, <1>2, <2>1, QuotientUnique
<1>6. ASSUME u = q PROVE q * SLOTS + m = p
  <2> HIDE DEF q, u, m
  <2> QED BY <1>1, <1>2, <1>4, <1>6
<1> QED BY <1>5, <1>6

\* Part of one block of a file is written, up to end, which is in the same block.
LEMMA StoreSound ==
  ASSUME NEW f, NEW il, NEW dt, Sound(f, il, dt), NEW n \in InodeNum,
         il[n].m_data.is_allocated, NEW d \in Data,
         NEW pos \in Pos, NEW end \in Nat, end <= (pos \div SLOTS + 1) * SLOTS,
         BlockOf(il[n], pos) # 0
  PROVE  LET b == BlockOf(il[n], pos)
         IN  /\ WordsGiven(dt[n], pos, end, d) \in FileWords
             /\ Sound([f EXCEPT !.disk[b] = BlockWritten(f.disk[b], pos, end, d)], il,
                      [dt EXCEPT ![n] = WordsGiven(dt[n], pos, end, d)])
<1> DEFINE b == BlockOf(il[n], pos)
           c == BlockWritten(f.disk[b], pos, end, d)
           w == WordsGiven(dt[n], pos, end, d)
           g == [f EXCEPT !.disk[b] = c]
           dt2 == [dt EXCEPT ![n] = w]
<1>1. f \in FreeListState /\ dt \in [InodeNum -> FileWords] /\ Separate(f, il)
  BY DEF Sound, Separate, WellFormed
<1>2. pos \div SLOTS \in AddrIdx /\ b \in DataBlocks \ FreeBlocks(f)
  BY PosAreDirect, DirectWordFacts, HeldIsData DEF Sound, BlockOf
<1>3. w \in FileWords
  BY <1>1 DEF WordsGiven, FileWords
<1>4. c \in Block
  <2>1. f.disk[b] \in [Slot -> Int]
    BY <1>1, <1>2 DEF FreeListState, Block
  <2> HIDE DEF b
  <2> QED BY <2>1, UnwrittenIsNoData DEF BlockWritten, Block
<1>5. Separate(g, il)
  <2> HIDE DEF b, c
  <2> QED BY <1>1, <1>2, <1>4, WriteSeparate
<1>6. \A e \in DataBlocks : g.disk[e] = IF e = b THEN c ELSE f.disk[e]
  <2> HIDE DEF b, c
  <2> QED BY <1>1, <1>2 DEF FreeListState
<1>7. /\ dt2 \in [InodeNum -> FileWords]
      /\ \A k \in InodeNum : dt2[k] = IF k = n THEN w ELSE dt[k]
  <2> HIDE DEF w
  <2> QED BY <1>1, <1>3
<1>8. /\ \A p \in Pos : w[p] = IF p \in pos .. end - 1 THEN d ELSE dt[n][p]
      /\ \A i \in Slot : c[i] = IF (pos \div SLOTS) * SLOTS + i \in pos .. end - 1
                                THEN d ELSE f.disk[b][i]
  BY DEF WordsGiven, BlockWritten
<1> HIDE DEF b, c, w, g, dt2
<1>9. Stored(g, il, dt2)
  <2> SUFFICES ASSUME NEW k \in InodeNum, NEW p \in Pos, dt2[k][p] # Unwritten
               PROVE  /\ BlockOf(il[k], p) # 0
                      /\ g.disk[BlockOf(il[k], p)][p % SLOTS] = dt2[k][p]
    BY DEF Stored
  <2>1. p \div SLOTS \in AddrIdx /\ p % SLOTS \in Slot
    BY PosAreDirect, DirectWordFacts
  <2>2. CASE k = n /\ p \in pos .. end - 1
    <3>1. p \div SLOTS = pos \div SLOTS /\ (pos \div SLOTS) * SLOTS + (p % SLOTS) = p
      BY <2>2, BlockWords
    <3>2. BlockOf(il[k], p) = b
      BY <2>2, <3>1 DEF BlockOf, b
    <3>3. c[p % SLOTS] = d
      BY <1>8, <2>1, <2>2, <3>1
    <3>4. dt2[k][p] = d
      BY <1>7, <1>8, <2>2
    <3> QED BY <1>2, <1>6, <3>2, <3>3, <3>4 DEF b
  <2>3. CASE ~ (k = n /\ p \in pos .. end - 1)
    <3>1. dt2[k][p] = dt[k][p]
      BY <1>7, <1>8, <2>3
    <3>2. /\ BlockOf(il[k], p) # 0
          /\ BlockOf(il[k], p) \in DataBlocks
          /\ f.disk[BlockOf(il[k], p)][p % SLOTS] = dt[k][p]
      BY <3>1, StoredBlock
    <3>3. CASE BlockOf(il[k], p) # b
      BY <1>6, <3>1, <3>2, <3>3
    <3>4. CASE BlockOf(il[k], p) = b
      <4>1. k = n /\ p \div SLOTS = pos \div SLOTS
        BY <1>1, <1>2, <2>1, <3>2, <3>4 DEF Separate, OneOwner, BlockOf, b
      <4>2. (pos \div SLOTS) * SLOTS + (p % SLOTS) = p
        BY <4>1, BlockWords
      <4>3. c[p % SLOTS] = f.disk[b][p % SLOTS]
        BY <1>8, <2>1, <2>3, <4>1, <4>2
      <4> QED BY <1>6, <3>1, <3>2, <3>4, <4>3
    <3> QED BY <3>3, <3>4
  <2> QED BY <2>2, <2>3
<1>10. UnusedIsEmpty(il, dt2)
  BY <1>7 DEF Sound, UnusedIsEmpty, Unallocated
<1>11. Sound(g, il, dt2)
  BY <1>5, <1>7, <1>9, <1>10 DEF Sound
<1> QED BY <1>3, <1>11 DEF b, c, w, g, dt2

-----------------------------------------------------------------------------
(* write.  Its loop keeps, of the state s of the disk and the file n: that *)
(* everything is sound, that the copy is current, that no other inode      *)
(* changes and that no address of n's goes away.                           *)

InWrite(s, il, dt, n) ==
  /\ DOMAIN s = {"fs", "ilist", "n", "inode", "data"}
  /\ s.n = n
  /\ s.inode = s.ilist[n]
  /\ s.data \in FileWords
  /\ Sound(s.fs, s.ilist, [dt EXCEPT ![n] = s.data])
  /\ s.ilist[n].m_data.is_allocated
  /\ \A k \in InodeNum \ {n} : s.ilist[k] = il[k]
  /\ \A i \in AddrIdx :
       il[n].block_addrs[i] # 0 => s.ilist[n].block_addrs[i] = il[n].block_addrs[i]

\* What translate_pos returns to a write: its state and the block of the position.
Translated(found, il, dt, n, pos) ==
  /\ InWrite(found.s, il, dt, n)
  /\ found.block = BlockOf(found.s.ilist[n], pos)

\* translate_pos may find a block for the file.
LEMMA TranslateStep ==
  ASSUME NEW il, NEW dt, NEW n \in InodeNum,
         NEW s, InWrite(s, il, dt, n), NEW pos \in Pos
  PROVE  Translated(TranslatePos(s, pos, TRUE), il, dt, n, pos)
<1> DEFINE idx == pos \div SLOTS
           t == AccessDirect(s, idx, TRUE)
           r == AllocInt(s.fs)
<1>1. idx \in DirectIdx /\ idx \in AddrIdx
  BY PosAreDirect, DirectWordFacts
<1>2. /\ TranslatePos(s, pos, TRUE).s = t
      /\ TranslatePos(s, pos, TRUE).block = t.inode.block_addrs[idx]
  BY PosAreDirect, TranslateDirect
<1>3. /\ DOMAIN t = DOMAIN s
      /\ \A x \in DOMAIN s \ {"fs", "ilist", "inode"} : t[x] = s[x]
      /\ \/ /\ s.inode.block_addrs[idx] # 0
            /\ t.fs = s.fs /\ t.ilist = s.ilist /\ t.inode = s.inode
         \/ /\ s.inode.block_addrs[idx] = 0 /\ r.ret = -1
            /\ t.fs = r.fs /\ t.ilist = s.ilist /\ t.inode = s.inode
         \/ /\ s.inode.block_addrs[idx] = 0 /\ r.ret # -1
            /\ t.fs = r.fs
            /\ t.ilist = AddrStored(s.ilist, s.n, idx, r.ret)
            /\ t.inode = InodeGiven(s.inode, idx, r.ret)
  <2>1. DirectAccessed(t, s, idx)
    BY AccessDirectContract DEF InWrite
  <2> QED BY <2>1, Zenon DEF DirectAccessed
<1>4. s.ilist \in IList /\ s.ilist[n].m_data.is_allocated
  BY DEF InWrite, Sound, Separate
<1> HIDE DEF idx, t
<1>5. DOMAIN t = {"fs", "ilist", "n", "inode", "data"} /\ t.n = n /\ t.data = s.data
  BY <1>3 DEF InWrite
<1>6. InWrite(t, il, dt, n)
  <2>1. CASE s.inode.block_addrs[idx] # 0 /\ t.fs = s.fs /\ t.ilist = s.ilist /\ t.inode = s.inode
    BY <1>5, <2>1 DEF InWrite
  <2>2. CASE s.inode.block_addrs[idx] = 0
    <3> DEFINE dt2 == [dt EXCEPT ![n] = s.data]
    <3>1. Sound(s.fs, s.ilist, dt2) /\ s.ilist[n].block_addrs[idx] = 0
      BY <2>2 DEF InWrite
    <3> HIDE DEF dt2
    <3>2. \/ r.ret = -1 /\ Sound(r.fs, s.ilist, dt2)
          \/ /\ r.ret # -1
             /\ r.ret \in DataBlocks
             /\ r.ret # 0
             /\ Sound(r.fs, AddrStored(s.ilist, n, idx, r.ret), dt2)
      BY <1>1, <1>4, <3>1, GrowSound
    <3> HIDE DEF r
    <3>3. CASE r.ret = -1 /\ t.fs = r.fs /\ t.ilist = s.ilist /\ t.inode = s.inode
      BY <1>5, <3>2, <3>3 DEF InWrite, dt2
    <3>4. CASE /\ r.ret # -1
               /\ t.fs = r.fs
               /\ t.ilist = AddrStored(s.ilist, s.n, idx, r.ret)
               /\ t.inode = InodeGiven(s.inode, idx, r.ret)
      <4>1. r.ret \in Int
        <5>1. r.ret \in Nat
          BY <3>2, <3>4, DataBlocksPositive
        <5> QED BY <5>1
      <4> DEFINE jl == AddrStored(s.ilist, n, idx, r.ret)
      <4>2. /\ \A k \in InodeNum, j \in AddrIdx :
                 jl[k].block_addrs[j] =
                   IF k = n /\ j = idx THEN r.ret ELSE s.ilist[k].block_addrs[j]
            /\ \A k \in InodeNum : jl[k].m_data = s.ilist[k].m_data
            /\ \A k \in InodeNum \ {n} : jl[k] = s.ilist[k]
            /\ jl[n] = InodeGiven(s.ilist[n], idx, r.ret)
        BY <1>1, <1>4, <4>1, AddrStoredFacts
      <4> HIDE DEF jl
      <4>3. t.ilist = jl /\ t.inode = jl[n]
        BY <3>4, <4>2 DEF InWrite, jl
      <4>4. \A i \in AddrIdx :
              il[n].block_addrs[i] # 0 => jl[n].block_addrs[i] = il[n].block_addrs[i]
        BY <3>1, <4>2 DEF InWrite
      <4>5. Sound(t.fs, jl, [dt EXCEPT ![n] = t.data])
        BY <1>5, <3>2, <3>4 DEF jl, dt2
      <4> QED BY <1>5, <4>2, <4>3, <4>4, <4>5 DEF InWrite
    <3> QED BY <1>3, <2>2, <3>3, <3>4
  <2> QED BY <1>3, <2>1, <2>2
<1>7. t.inode.block_addrs[idx] = BlockOf(t.ilist[n], pos)
  BY <1>6 DEF InWrite, BlockOf, idx
<1> QED BY <1>2, <1>6, <1>7, Zenon DEF Translated

\* write_to_block into the block that translate_pos found.
LEMMA StoreStep ==
  ASSUME NEW il, NEW dt \in [InodeNum -> FileWords], NEW n \in InodeNum,
         NEW s, InWrite(s, il, dt, n), NEW d \in Data,
         NEW pos \in Pos, NEW end \in Nat, end <= (pos \div SLOTS + 1) * SLOTS,
         NEW b, b = BlockOf(s.ilist[n], pos), b # 0
  PROVE  InWrite(StoreWords(s, b, pos, end, d), il, dt, n)
<1> DEFINE t == StoreWords(s, b, pos, end, d)
           g == [s.fs EXCEPT !.disk[b] = BlockWritten(s.fs.disk[b], pos, end, d)]
           w == WordsGiven(s.data, pos, end, d)
           t1 == [s EXCEPT !.fs = g, !.data = w]
           dt2 == [dt EXCEPT ![n] = s.data]
<1>1. t = t1
  BY Zenon DEF StoreWords, BlockWritten, WordsGiven
<1>2. dt2[n] = s.data
  OBVIOUS
<1>3. /\ Sound(s.fs, s.ilist, dt2)
      /\ s.ilist[n].m_data.is_allocated
  BY DEF InWrite
<1>4. w \in FileWords /\ Sound(g, s.ilist, [dt2 EXCEPT ![n] = w])
  <2> HIDE DEF dt2
  <2> QED BY <1>2, <1>3, StoreSound
<1>5. [dt2 EXCEPT ![n] = w] = [dt EXCEPT ![n] = w]
  <2> HIDE DEF w
  <2> QED OBVIOUS
<1> HIDE DEF t, g, w, dt2
<1>6. /\ DOMAIN t = DOMAIN s
      /\ t.fs = g /\ t.data = w
      /\ t.n = s.n /\ t.ilist = s.ilist /\ t.inode = s.inode
  BY <1>1 DEF InWrite
<1> HIDE DEF t1
<1> QED BY <1>4, <1>5, <1>6 DEF InWrite, t

\* A write that stays within the direct blocks, and the number of blocks it
\* writes to.
InReach(offset, end) ==
  /\ offset \in Nat /\ end \in Nat
  /\ offset < end /\ end <= DIRECT * SLOTS
BlockCount(offset, end) == (end - 1) \div SLOTS - offset \div SLOTS + 1

\* A write within the direct blocks is a number of turns, at least one.
LEMMA BlockCountFacts ==
  ASSUME NEW offset, NEW end, InReach(offset, end)
  PROVE  BlockCount(offset, end) \in Nat
<1>1. SLOTS \in Nat \ {0} /\ offset \in Nat /\ end - 1 \in Nat /\ offset <= end - 1
  BY GeometryAssumption DEF InReach
<1>2. offset \div SLOTS \in Nat /\ (end - 1) \div SLOTS \in Nat
  BY <1>1, QuotientBounds
<1>3. offset \div SLOTS <= (end - 1) \div SLOTS
  BY <1>1, QuotientMonotone
<1> QED BY <1>2, <1>3 DEF BlockCount

\* Each block's part of the write starts behind the direct addresses.
LEMMA StartIsDirect ==
  ASSUME NEW offset, NEW end, InReach(offset, end),
         NEW k \in Nat, k < BlockCount(offset, end)
  PROVE  LargerOf(offset, (offset \div SLOTS + k) * SLOTS) \in Pos
<1> DEFINE q == offset \div SLOTS
           e == (end - 1) \div SLOTS
<1>1. SLOTS \in Nat \ {0} /\ offset \in Nat /\ end - 1 \in Nat /\ DIRECT * SLOTS \in Nat
  BY GeometryAssumption, InodeAssumption DEF InReach
<1>2. q \in Nat /\ e \in Nat /\ SLOTS * e <= end - 1
  BY <1>1, QuotientBounds
<1>3. k < e - q + 1
  BY DEF BlockCount
<1> HIDE DEF q, e
<1>4. q + k \in Nat /\ q + k <= e
  BY <1>2, <1>3
<1>5. SLOTS * (q + k) <= SLOTS * e /\ (q + k) * SLOTS = SLOTS * (q + k)
  BY <1>1, <1>2, <1>4, ProductMonotone
<1>6. SLOTS * (q + k) \in Nat /\ SLOTS * e \in Nat
  BY <1>1, <1>2, <1>4
<1>7. (q + k) * SLOTS \in Nat /\ (q + k) * SLOTS < DIRECT * SLOTS
  BY <1>1, <1>2, <1>5, <1>6 DEF InReach
<1>8. offset < DIRECT * SLOTS
  BY <1>1 DEF InReach
<1> DEFINE start == (q + k) * SLOTS
<1> HIDE DEF start
<1>9. LargerOf(offset, start) \in 0 .. (DIRECT * SLOTS - 1)
  BY <1>1, <1>7, <1>8 DEF LargerOf, start
<1> QED BY <1>9 DEF Pos, start, q

\* One turn of the loop.
LEMMA WriteBlockStep ==
  ASSUME NEW il, NEW dt \in [InodeNum -> FileWords], NEW n \in InodeNum,
         NEW s, InWrite(s, il, dt, n), NEW d \in Data,
         NEW offset, NEW end, InReach(offset, end),
         NEW k \in Nat, k < BlockCount(offset, end)
  PROVE  InWrite(WriteBlock(s, k, offset, end, d).s, il, dt, n)
<1> DEFINE start == LargerOf(offset, (offset \div SLOTS + k) * SLOTS)
           t == TranslatePos(s, start, TRUE)
           stop == SmallerOf(end, (start \div SLOTS + 1) * SLOTS)
<1>1. start \in Pos
  BY StartIsDirect
<1>2. \/ WriteBlock(s, k, offset, end, d).s = t.s
      \/ /\ t.block # 0
         /\ WriteBlock(s, k, offset, end, d).s = StoreWords(t.s, t.block, start, stop, d)
  BY DEF WriteBlock
<1> HIDE DEF start
<1>3. InWrite(t.s, il, dt, n) /\ t.block = BlockOf(t.s.ilist[n], start)
  <2>1. Translated(t, il, dt, n, start)
    BY <1>1, TranslateStep
  <2> QED BY <2>1, Zenon DEF Translated
<1>4. stop \in Nat /\ stop <= (start \div SLOTS + 1) * SLOTS
  <2> DEFINE next == (start \div SLOTS + 1) * SLOTS
  <2>1. start \div SLOTS \in Nat /\ SLOTS \in Nat
    BY <1>1, PosAreDirect, DirectWordFacts, GeometryAssumption DEF DirectIdx
  <2>2. next \in Nat /\ end \in Nat
    BY <2>1 DEF InReach
  <2> HIDE DEF next
  <2> QED BY <2>2 DEF SmallerOf, next
<1> HIDE DEF t, stop
<1>5. t.block # 0 => InWrite(StoreWords(t.s, t.block, start, stop, d), il, dt, n)
  BY <1>1, <1>3, <1>4, StoreStep
<1> QED BY <1>2, <1>3, <1>5

\* What the loop does after k turns, k > 0; and the states after the first m.
WriteTurn(r, k, offset, end, d) ==
  IF ~ r.ok THEN r ELSE WriteBlock(r.s, k, offset, end, d)

WriteTurns(after, m, s, offset, end, d) ==
  after = [k \in 0 .. m |-> IF k = 0 THEN FillHole(s, offset)
                            ELSE WriteTurn(after[k - 1], k - 1, offset, end, d)]

\* There are such states, for any number of turns.
LEMMA WriteTurnsExist ==
  ASSUME NEW s, NEW offset, NEW end, NEW d, NEW m \in Nat
  PROVE  \E after : WriteTurns(after, m, s, offset, end, d)
<1> DEFINE T == {k \in Nat : \E after : WriteTurns(after, k, s, offset, end, d)}
<1>1. 0 \in T
  <2>1. WriteTurns([i \in 0 .. 0 |-> FillHole(s, offset)], 0, s, offset, end, d)
    BY DEF WriteTurns
  <2> QED BY <2>1
<1>2. ASSUME NEW k \in Nat, k \in T PROVE k + 1 \in T
  <2>1. PICK f : WriteTurns(f, k, s, offset, end, d)
    BY <1>2
  <2> DEFINE g == [i \in 0 .. k + 1 |->
                     IF i = k + 1 THEN WriteTurn(f[k], k, offset, end, d) ELSE f[i]]
  <2>2. ASSUME NEW i \in 0 .. k + 1
        PROVE  g[i] = IF i = 0 THEN FillHole(s, offset)
                      ELSE WriteTurn(g[i - 1], i - 1, offset, end, d)
    <3>1. CASE i = k + 1
      <4>1. g[i] = WriteTurn(f[k], k, offset, end, d) /\ g[i - 1] = f[k] /\ i - 1 = k /\ i # 0
        BY <3>1
      <4> QED BY <4>1
    <3>2. CASE i # k + 1 /\ i # 0
      <4>1. i \in 0 .. k /\ i - 1 \in 0 .. k
        BY <3>2
      <4>2. g[i] = f[i] /\ g[i - 1] = f[i - 1]
        BY <3>2, <4>1
      <4> QED BY <2>1, <3>2, <4>1, <4>2 DEF WriteTurns
    <3>3. CASE i = 0
      <4>1. g[0] = f[0] /\ 0 \in 0 .. k
        BY <3>3
      <4> QED BY <2>1, <3>3, <4>1 DEF WriteTurns
    <3> QED BY <3>1, <3>2, <3>3
  <2>3. WriteTurns(g, k + 1, s, offset, end, d)
    <3>1. g = [i \in 0 .. k + 1 |-> g[i]]
      OBVIOUS
    <3> HIDE DEF g
    <3> QED BY <2>2, <3>1 DEF WriteTurns
  <2> QED BY <2>3
<1> HIDE DEF T
<1>3. m \in T
  BY <1>1, <1>2, UpTo
<1> QED BY <1>3 DEF T

\* The whole loop.
LEMMA WriteBlocksStep ==
  ASSUME NEW il, NEW dt \in [InodeNum -> FileWords], NEW n \in InodeNum,
         NEW s, InWrite(s, il, dt, n), NEW d \in Data,
         NEW offset, NEW end, InReach(offset, end)
  PROVE  InWrite(WriteBlocks(s, offset, end, d).s, il, dt, n)
<1> DEFINE count == BlockCount(offset, end)
           after == CHOOSE f : WriteTurns(f, count, s, offset, end, d)
           T == {k \in Nat : InWrite(after[k].s, il, dt, n)}
<1>1. count \in Nat
  BY BlockCountFacts
<1>2. WriteTurns(after, count, s, offset, end, d)
  <2> HIDE DEF count
  <2> QED BY <1>1, WriteTurnsExist
<1>3. WriteBlocks(s, offset, end, d) = after[count]
  BY Zenon DEF WriteBlocks, WriteTurns, WriteTurn, BlockCount
<1> HIDE DEF after, count
<1>4. after[0] = FillHole(s, offset)
  BY <1>1, <1>2 DEF WriteTurns
<1>5. ASSUME NEW k \in Nat, k < count
      PROVE  after[k + 1] = WriteTurn(after[k], k, offset, end, d)
  <2>1. k + 1 \in 0 .. count /\ k + 1 # 0 /\ (k + 1) - 1 = k
    BY <1>1, <1>5
  <2> QED BY <1>2, <2>1 DEF WriteTurns
<1>6. 0 \in T
  <2>1. offset \in Pos
    BY GeometryAssumption, InodeAssumption DEF InReach, Pos
  <2>2. InWrite(TranslatePos(s, offset, TRUE).s, il, dt, n)
    <3>1. Translated(TranslatePos(s, offset, TRUE), il, dt, n, offset)
      BY <2>1, TranslateStep
    <3> QED BY <3>1, Zenon DEF Translated
  <2>3. FillHole(s, offset).s = TranslatePos(s, offset, TRUE).s \/ FillHole(s, offset).s = s
    BY DEF FillHole
  <2>4. InWrite(after[0].s, il, dt, n)
    BY <1>4, <2>2, <2>3
  <2> QED BY <2>4
<1>7. ASSUME NEW k \in Nat, k < count, k \in T PROVE k + 1 \in T
  <2>1. InWrite(after[k].s, il, dt, n)
    BY <1>7
  <2>2. InWrite(WriteBlock(after[k].s, k, offset, end, d).s, il, dt, n)
    BY <1>7, <2>1, WriteBlockStep DEF count
  <2>3. InWrite(after[k + 1].s, il, dt, n)
    BY <1>5, <1>7, <2>1, <2>2 DEF WriteTurn
  <2> QED BY <2>3
<1> HIDE DEF T
<1>8. count \in T
  BY <1>1, <1>6, <1>7, UpTo
<1> QED BY <1>3, <1>8 DEF T

\* write_inode_mdata: the new size goes to the copy and to the i-list.
LEMMA StoreSizeStep ==
  ASSUME NEW il, NEW dt, NEW n \in InodeNum,
         NEW s, InWrite(s, il, dt, n), NEW end \in Int
  PROVE  InWrite(StoreSize(s, end), il, dt, n)
<1> DEFINE m == [s.inode.m_data EXCEPT !.file_size = LargerOf(end, @)]
           jl == [s.ilist EXCEPT ![s.n].m_data = m]
           inode == [s.inode EXCEPT !.m_data = m]
           t1 == [s EXCEPT !.inode = inode, !.ilist = jl]
           t == StoreSize(s, end)
<1>1. t = t1
  BY Zenon DEF StoreSize
<1>2. s.ilist \in IList /\ s.ilist[n] = s.inode /\ s.inode.m_data.is_allocated /\ s.n = n
  BY DEF InWrite, Sound, Separate
<1>3. s.inode.m_data \in MData
  BY <1>2 DEF IList, Inode
<1>4. m \in MData /\ m.is_allocated = TRUE
  <2>1. LargerOf(end, s.inode.m_data.file_size) \in Int
    BY <1>3 DEF LargerOf, MData
  <2> QED BY <1>2, <1>3, <2>1 DEF MData
<1>5. jl = MDataStored(s.ilist, n, m) /\ inode = InodeSized(s.ilist[n], m)
  <2> HIDE DEF m
  <2> QED BY <1>2 DEF MDataStored, InodeSized
<1> HIDE DEF m, jl, inode, t
<1>6. /\ \A k \in InodeNum : jl[k].block_addrs = s.ilist[k].block_addrs
      /\ \A k \in InodeNum \ {n} : jl[k] = s.ilist[k]
      /\ jl[n].m_data = m
      /\ jl[n] = inode
  BY <1>2, <1>4, <1>5, MDataStoredFacts
<1>7. Sound(s.fs, jl, [dt EXCEPT ![n] = s.data])
  <2> DEFINE dt2 == [dt EXCEPT ![n] = s.data]
  <2>1. Sound(s.fs, s.ilist, dt2)
    BY DEF InWrite
  <2> HIDE DEF dt2
  <2>2. Sound(s.fs, MDataStored(s.ilist, n, m), dt2)
    BY <1>4, <2>1, MDataSound
  <2> QED BY <1>5, <2>2 DEF dt2
<1>8. /\ DOMAIN t = DOMAIN s
      /\ t.fs = s.fs /\ t.n = s.n /\ t.data = s.data
      /\ t.ilist = jl /\ t.inode = inode
  BY <1>1 DEF InWrite
<1> HIDE DEF t1
<1> QED BY <1>4, <1>6, <1>7, <1>8 DEF InWrite, t

\* A call of write by a caller whose copy is current.
LEMMA WriteEffect ==
  ASSUME Callers, IInv, NEW h \in Handles, IsOpen(h),
         NEW offset \in Offsets, NEW size \in Sizes, NEW d \in Data
  PROVE  InWrite(DoWrite(h, offset, size, d).s, ilist, data, held[h].n)
<1> DEFINE n == held[h].n
           s == [fs |-> fs, ilist |-> ilist, n |-> n, inode |-> held[h].inode, data |-> data[n]]
           end == offset + size
           r == WriteBlocks(s, offset, end, d)
<1>1. n \in InodeNum /\ held[h].inode = ilist[n] /\ ilist[n].m_data.is_allocated
  BY DEF IInv, HeldType, HeldAllocated, CopyIsCurrent, IsOpen, OpenFile
<1>2. data \in [InodeNum -> FileWords] /\ Sound(fs, ilist, data)
  BY DEF IInv, Sound
<1>3. InReach(offset, end)
  <2>1. offset \in Nat /\ size \in Nat \ {0} /\ end <= DIRECT * SLOTS
    BY FilesAssumption, GeometryAssumption, InodeAssumption DEF Callers, DirectWrites
  <2> QED BY <2>1 DEF InReach
<1>4. InWrite(s, ilist, data, n)
  <2>1. [data EXCEPT ![n] = data[n]] = data
    BY <1>1, <1>2
  <2>2. /\ DOMAIN s = {"fs", "ilist", "n", "inode", "data"}
        /\ s.fs = fs /\ s.ilist = ilist /\ s.n = n /\ s.inode = held[h].inode
        /\ s.data = data[n]
    OBVIOUS
  <2> HIDE DEF s, n
  <2> QED BY <1>1, <1>2, <2>1, <2>2 DEF InWrite
<1>5. \/ DoWrite(h, offset, size, d).s = r.s
      \/ DoWrite(h, offset, size, d).s = StoreSize(r.s, end)
  BY DEF DoWrite
<1> HIDE DEF s, n
<1>6. InWrite(r.s, ilist, data, n)
  <2> HIDE DEF end
  <2> QED BY <1>1, <1>2, <1>3, <1>4, WriteBlocksStep
<1>7. end \in Int
  BY <1>3 DEF InReach
<1> HIDE DEF r, end
<1>8. InWrite(StoreSize(r.s, end), ilist, data, n)
  BY <1>1, <1>6, <1>7, StoreSizeStep
<1> QED BY <1>5, <1>6, <1>8 DEF n

-----------------------------------------------------------------------------
(* Each call keeps the invariant, and the addresses of blocks *)

AddressesKept ==
  \A n \in InodeNum, i \in AddrIdx :
    ilist[n].block_addrs[i] # 0 /\ ilist'[n].m_data.is_allocated
      => ilist'[n].block_addrs[i] = ilist[n].block_addrs[i]

\* A closed handle is told apart from one that holds an inode.
LEMMA ClosedIsNoFile == \A x \in OpenFile : x # Closed /\ x.n \in InodeNum /\ x.n # -1
<1>1. -1 \notin InodeNum
  BY InodeNumFacts
<1> QED BY <1>1 DEF OpenFile, Closed

\* A handle that was closed gets the copy of an inode that no other one holds.
LEMMA OpenHeld ==
  ASSUME HeldType, HeldAllocated, HeldByOne, CopyIsCurrent,
         NEW h \in Handles, ~ IsOpen(h), NEW n \in InodeNum,
         \A g \in Handles : held[g].n # n,
         NEW jl \in IList, jl[n].m_data.is_allocated,
         \A k \in InodeNum \ {n} : jl[k] = ilist[k],
         ilist' = jl,
         held' = [held EXCEPT ![h] = [n |-> n, inode |-> jl[n]]]
  PROVE  (HeldType /\ HeldAllocated /\ HeldByOne /\ CopyIsCurrent)'
<1> DEFINE file == [n |-> n, inode |-> jl[n]]
<1>1. file \in OpenFile /\ file.n = n /\ file.inode = jl[n]
  BY DEF OpenFile, IList
<1> HIDE DEF file
<1>2. \A g \in Handles : held'[g] = IF g = h THEN file ELSE held[g]
  BY DEF HeldType, file
<1>3. held' \in [Handles -> OpenFile \cup {Closed}]
  BY <1>1 DEF HeldType, file
<1>4. \A g \in Handles : g # h => (IsOpen(g)' <=> IsOpen(g)) /\ held'[g] = held[g]
  BY <1>2 DEF IsOpen
<1>5. \A g \in Handles \ {h} : IsOpen(g) => held[g].n \in InodeNum \ {n}
  BY ClosedIsNoFile DEF HeldType, IsOpen
<1>6. HeldAllocated' /\ CopyIsCurrent'
  BY <1>1, <1>2, <1>4, <1>5 DEF HeldAllocated, CopyIsCurrent
<1>7. HeldByOne'
  BY <1>1, <1>2, <1>4, <1>5 DEF HeldByOne
<1> QED BY <1>3, <1>6, <1>7 DEF HeldType

\* alloc_inode: the new file has no block, and no handle holds it.
LEMMA CreateStep ==
  ASSUME Callers, IInv, NEW h \in Handles, Create(h)
  PROVE  IInv' /\ AddressesKept
<1> DEFINE r == AllocInode(ilist, REG_FILE)
<1>1. /\ ~ IsOpen(h) /\ r.ret >= 0 /\ \A g \in Handles : held[g].n # r.ret
      /\ ilist' = r.ilist
      /\ held' = [held EXCEPT ![h] = [n |-> r.ret, inode |-> ilist'[r.ret]]]
      /\ UNCHANGED <<fs, data>>
  BY DEF Create, MayHold, Callers
<1>2. ilist \in IList /\ Sound(fs, ilist, data)
  BY DEF IInv, Sound, Separate
<1> HIDE DEF r
<1>3. \/ r.ret < 0 /\ r.ilist = ilist
      \/ /\ r.ret \in InodeNum
         /\ \E m \in MData : m.is_allocated = TRUE /\ r.ilist = MDataStored(ilist, r.ret, m)
  <2>1. InodeTaken(r, ilist, REG_FILE)
    BY <1>2, AllocInodeContract DEF r
  <2> QED BY <2>1, Zenon DEF InodeTaken
<1>4. ~ (r.ret < 0)
  <2>1. r.ret \in Int
    BY AllocInodeReturns DEF r
  <2> QED BY <1>1, <2>1
<1>5. PICK m \in MData : m.is_allocated = TRUE /\ r.ilist = MDataStored(ilist, r.ret, m)
  BY <1>3, <1>4
<1>6. Sound(fs, r.ilist, data)
  <2>1. r.ret \in InodeNum
    BY <1>3, <1>4
  <2> QED BY <1>2, <1>5, <2>1, MDataSound
<1>7. /\ r.ilist \in IList
      /\ \A k \in InodeNum : r.ilist[k].block_addrs = ilist[k].block_addrs
      /\ \A k \in InodeNum \ {r.ret} : r.ilist[k] = ilist[k]
      /\ r.ilist[r.ret].m_data.is_allocated
      /\ r.ret \in InodeNum
  BY <1>2, <1>3, <1>4, <1>5, MDataStoredFacts
<1>8. (HeldType /\ HeldAllocated /\ HeldByOne /\ CopyIsCurrent)'
  BY <1>1, <1>7, OpenHeld DEF IInv
<1>9. AddressesKept
  BY <1>1, <1>7 DEF AddressesKept
<1> QED BY <1>1, <1>6, <1>8, <1>9 DEF IInv

\* read_inode: the handle gets what the i-list has.
LEMMA OpenStep ==
  ASSUME Callers, IInv, NEW h \in Handles, NEW n \in InodeNum, Open(h, n)
  PROVE  IInv' /\ AddressesKept
<1>1. /\ ~ IsOpen(h) /\ ilist[n].m_data.is_allocated /\ \A g \in Handles : held[g].n # n
      /\ held' = [held EXCEPT ![h] = [n |-> n, inode |-> ilist[n]]]
      /\ UNCHANGED <<fs, ilist, data>>
  BY DEF Open, MayHold, Callers
<1>2. ilist \in IList
  BY DEF IInv, Sound, Separate
<1>3. (HeldType /\ HeldAllocated /\ HeldByOne /\ CopyIsCurrent)'
  BY <1>1, <1>2, OpenHeld DEF IInv
<1> QED BY <1>1, <1>3 DEF IInv, AddressesKept

\* The caller drops its copy.
LEMMA CloseStep ==
  ASSUME IInv, NEW h \in Handles, Close(h)
  PROVE  IInv' /\ AddressesKept
<1>1. held' = [held EXCEPT ![h] = Closed] /\ UNCHANGED <<fs, ilist, data>>
  BY DEF Close
<1>2. /\ HeldType'
      /\ \A g \in Handles : held'[g] = IF g = h THEN Closed ELSE held[g]
  BY <1>1 DEF IInv, HeldType
<1>3. \A g \in Handles : IsOpen(g)' => IsOpen(g) /\ held'[g] = held[g]
  BY <1>2 DEF IsOpen
<1>4. (HeldAllocated /\ HeldByOne /\ CopyIsCurrent)'
  BY <1>1, <1>3 DEF IInv, HeldAllocated, HeldByOne, CopyIsCurrent
<1> QED BY <1>1, <1>2, <1>4 DEF IInv, AddressesKept

\* write: the copy it updates is the one that holds the inode.
LEMMA WriteStep ==
  ASSUME Callers, IInv, NEW h \in Handles, NEW offset \in Offsets, NEW size \in Sizes,
         NEW d \in Data, Write(h, offset, size, d)
  PROVE  IInv' /\ AddressesKept
<1> DEFINE s == DoWrite(h, offset, size, d).s
           n == held[h].n
<1>1. /\ IsOpen(h)
      /\ fs' = s.fs
      /\ ilist' = s.ilist
      /\ held' = [held EXCEPT ![h].inode = s.inode]
      /\ data' = [data EXCEPT ![s.n] = s.data]
  BY DEF Write
<1>2. InWrite(s, ilist, data, n)
  BY <1>1, WriteEffect
<1>3. held[h] \in OpenFile /\ n \in InodeNum /\ held \in [Handles -> OpenFile \cup {Closed}]
  BY <1>1 DEF IInv, HeldType, IsOpen, OpenFile
<1> HIDE DEF s
<1>4. Sound(fs, ilist, data)'
  BY <1>1, <1>2 DEF InWrite
<1>5. /\ ilist'[n].m_data.is_allocated
      /\ s.inode = ilist'[n]
      /\ s.inode \in Inode
      /\ \A k \in InodeNum \ {n} : ilist'[k] = ilist[k]
      /\ \A i \in AddrIdx :
           ilist[n].block_addrs[i] # 0 => ilist'[n].block_addrs[i] = ilist[n].block_addrs[i]
  BY <1>1, <1>2, <1>3, <1>4 DEF InWrite, Sound, Separate, IList
<1> DEFINE file == [held[h] EXCEPT !.inode = s.inode]
<1>6. file \in OpenFile /\ file.n = n /\ file.inode = s.inode
  BY <1>3, <1>5 DEF OpenFile
<1>7. held' = [held EXCEPT ![h] = file]
  BY <1>1
<1> HIDE DEF file
<1>8. /\ held' \in [Handles -> OpenFile \cup {Closed}]
      /\ \A g \in Handles : held'[g] = IF g = h THEN file ELSE held[g]
  BY <1>3, <1>6, <1>7
<1>9. \A g \in Handles : (IsOpen(g)' <=> IsOpen(g)) /\ held'[g].n = held[g].n
  BY <1>1, <1>6, <1>8, ClosedIsNoFile DEF IsOpen
<1>10. \A g \in Handles \ {h} : IsOpen(g) => held[g].n \in InodeNum \ {n}
  BY <1>1, ClosedIsNoFile DEF IInv, HeldType, HeldByOne, IsOpen
<1>11. HeldByOne'
  BY <1>9 DEF IInv, HeldByOne
<1>12. HeldAllocated' /\ CopyIsCurrent'
  BY <1>5, <1>6, <1>8, <1>9, <1>10 DEF IInv, HeldAllocated, CopyIsCurrent
<1>13. AddressesKept
  BY <1>3, <1>5 DEF AddressesKept
<1> QED BY <1>4, <1>8, <1>11, <1>12, <1>13 DEF IInv, HeldType

\* free_inode: of an inode that no handle holds.
LEMMA RemoveStep ==
  ASSUME Callers, IInv, NEW n \in InodeNum, Remove(n)
  PROVE  IInv' /\ AddressesKept
<1> DEFINE r == FreeInode(fs, ilist, n)
<1>1. /\ \A g \in Handles : held[g].n # n
      /\ fs' = r.fs /\ ilist' = r.ilist /\ held' = held
      /\ data' = IF r.ret = 0 THEN [data EXCEPT ![n] = NoWords] ELSE data
  BY DEF Remove, MayHold, Callers, NoWords
<1>2. Sound(fs, ilist, data) /\ Separate(fs, ilist) /\ ilist \in IList
  BY DEF IInv, Sound, Separate
<1>3. Sound(r.fs, r.ilist, IF r.ret = 0 THEN [data EXCEPT ![n] = NoWords] ELSE data)
  BY <1>2, RemoveSound
<1>4. r.ilist = ilist \/ r.ilist = [ilist EXCEPT ![n] = ClearedInode]
  <2>1. FreedApart(r, fs, ilist, n)
    BY <1>2, FreeSeparate
  <2> QED BY <2>1, Zenon DEF FreedApart
<1> HIDE DEF r
<1>5. Sound(fs, ilist, data)'
  BY <1>1, <1>3
<1>6. /\ \A k \in InodeNum \ {n} : ilist'[k] = ilist[k]
      /\ ilist'[n] = ilist[n] \/ ilist'[n].m_data.is_allocated = FALSE
  <2> DEFINE jl == [ilist EXCEPT ![n] = ClearedInode]
  <2>1. /\ \A k \in InodeNum \ {n} : jl[k] = ilist[k]
        /\ jl[n].m_data.is_allocated = FALSE
    BY <1>2, ClearedFacts
  <2> HIDE DEF jl
  <2>2. ilist' = ilist \/ ilist' = jl
    BY <1>1, <1>4 DEF jl
  <2> QED BY <2>1, <2>2
<1>7. \A g \in Handles : (IsOpen(g)' <=> IsOpen(g)) /\ held'[g] = held[g]
  BY <1>1 DEF IsOpen
<1>8. \A g \in Handles : IsOpen(g) => held[g].n \in InodeNum \ {n}
  BY <1>1, ClosedIsNoFile DEF IInv, HeldType, IsOpen
<1>9. (HeldType /\ HeldAllocated /\ HeldByOne /\ CopyIsCurrent)'
  BY <1>1, <1>6, <1>7, <1>8
     DEF IInv, HeldType, HeldAllocated, HeldByOne, CopyIsCurrent
<1>10. AddressesKept
  BY <1>6 DEF AddressesKept
<1> QED BY <1>5, <1>9, <1>10 DEF IInv

\* A formatted partition satisfies the invariant.
LEMMA InitIInv == ASSUME Callers, Init PROVE IInv
<1>1. data = [n \in InodeNum |-> NoWords]
  BY DEF Init, NoWords
<1>2. Sound(fs, ilist, data)
  BY <1>1, InitSound DEF Init, Callers
<1>3. HeldType /\ \A h \in Handles : ~ IsOpen(h)
  BY DEF Init, HeldType, IsOpen
<1> QED BY <1>2, <1>3 DEF IInv, HeldAllocated, HeldByOne, CopyIsCurrent

\* Every call keeps the invariant, and keeps addresses where they are.
LEMMA NextStep == ASSUME Callers, IInv, Next PROVE IInv' /\ AddressesKept
<1>1. ASSUME NEW h \in Handles, Create(h) PROVE IInv' /\ AddressesKept
  BY <1>1, CreateStep
<1>2. ASSUME NEW h \in Handles, Close(h) PROVE IInv' /\ AddressesKept
  BY <1>2, CloseStep
<1>3. ASSUME NEW h \in Handles, NEW n \in InodeNum, Open(h, n)
      PROVE  IInv' /\ AddressesKept
  BY <1>3, OpenStep
<1>4. ASSUME NEW h \in Handles, NEW offset \in Offsets, NEW size \in Sizes,
             NEW d \in Data, Write(h, offset, size, d)
      PROVE  IInv' /\ AddressesKept
  BY <1>4, WriteStep
<1>5. ASSUME NEW n \in InodeNum \ {ROOT_INODE_NUM}, Remove(n)
      PROVE  IInv' /\ AddressesKept
  BY <1>5, RemoveStep
<1> QED BY <1>1, <1>2, <1>3, <1>4, <1>5 DEF Next

\* So does doing nothing.
LEMMA StutterStep == ASSUME IInv, UNCHANGED vars PROVE IInv'
BY DEF vars, IInv, HeldType, HeldAllocated, HeldByOne, CopyIsCurrent, IsOpen

\* The invariant holds throughout.
LEMMA Invariance == ASSUME Callers PROVE Spec => []IInv
<1>1. Init => IInv
  BY InitIInv
<1>2. IInv /\ [Next]_vars => IInv'
  BY NextStep, StutterStep
<1> QED BY <1>1, <1>2, PTL DEF Spec

-----------------------------------------------------------------------------
(* What it implies *)

\* Every state is of its type: in particular every block address that the calls
\* use, and every word of a file, is one.
THEOREM TypeCorrect == ASSUME Callers PROVE Spec => []TypeOK
<1>1. IInv => TypeOK
  BY DEF IInv, Sound, Separate, WellFormed, HeldType, FileWords, TypeOK
<1> QED BY <1>1, Invariance, PTL

\* read_inode.cpp, write.cpp: a caller's copy of an inode that no other caller has
\* stays what the i-list holds, through every write, also one that fails halfway.
THEOREM CopiesStayCurrent == ASSUME Callers PROVE Spec => []CopyIsCurrent
<1>1. IInv => CopyIsCurrent
  BY DEF IInv
<1> QED BY <1>1, Invariance, PTL

\* A word of a file, within its size, is read as it was last written.
LEMMA WordIsRead ==
  ASSUME IInv, NEW h \in Handles, NEW p \in Pos, IsOpen(h),
         p < held[h].inode.m_data.file_size,
         data[held[h].n][p] # Unwritten
  PROVE  ReadWord(h, p) = [ret |-> 0, word |-> data[held[h].n][p]]
<1> DEFINE n == held[h].n
           s == [fs |-> fs, inode |-> held[h].inode]
           idx == p \div SLOTS
<1>1. n \in InodeNum /\ held[h].inode = ilist[n]
  BY ClosedIsNoFile DEF IInv, HeldType, CopyIsCurrent, IsOpen
<1>2. /\ BlockOf(ilist[n], p) # 0
      /\ fs.disk[BlockOf(ilist[n], p)][p % SLOTS] = data[n][p]
  BY <1>1 DEF IInv, Sound, Stored
<1>3. TranslatePos(s, p, FALSE).block = AccessDirect(s, idx, FALSE).inode.block_addrs[idx]
  BY PosAreDirect, TranslateDirect
<1>4. AccessDirect(s, idx, FALSE) = s
  BY DEF AccessDirect
<1>5. TranslatePos(s, p, FALSE).block = BlockOf(ilist[n], p)
  <2>1. s.inode = ilist[n]
    BY <1>1
  <2> HIDE DEF s, n
  <2> QED BY <1>3, <1>4, <2>1 DEF BlockOf
<1>6. ~ (held[h].inode.m_data.file_size <= p)
  <2>1. held[h].inode.m_data.file_size \in Int
    BY <1>1 DEF IInv, Sound, Separate, IList, Inode, MData
  <2>2. p \in Int
    BY PosAreDirect, DirectWordFacts
  <2> QED BY <2>1, <2>2
<1> QED BY <1>2, <1>5, <1>6 DEF ReadWord

\* read.cpp, write.cpp: what read returns of a file is what was last written
\* there, whatever other files and failed writes did in between, and whatever the
\* blocks held before.
THEOREM FilesAreReadBack == ASSUME Callers PROVE Spec => []ReadBack
<1>1. IInv => ReadBack
  BY WordIsRead DEF ReadBack
<1> QED BY <1>1, Invariance, PTL

\* write.h:10-11: no write replaces a block that the file has.
THEOREM BlocksStay == ASSUME Callers PROVE Spec => AddressesStay
<1>1. IInv /\ [Next]_vars => [AddressesKept]_vars
  BY NextStep
<1>2. Spec => [][AddressesKept]_vars
  BY <1>1, Invariance, PTL DEF Spec
<1> QED BY <1>2 DEF AddressesKept, AddressesStay
=============================================================================
