---------------------------- MODULE FileOpsProofs ----------------------------
(***************************************************************************)
(* What the operators of FileOps do, for every geometry: free_inode's loop *)
(* over the addresses, access_inode_direct_block_num, and the arithmetic   *)
(* of translate_pos within the direct blocks.  The proofs about files and  *)
(* directories rest on these contracts.                                    *)
(***************************************************************************)
EXTENDS FileOps, InodeOpsProofs

-----------------------------------------------------------------------------
(* free_inode *)

\* One turn of the loop, after which s becomes:
FreeTurn(r, i, addrs) == IF r.ret # 0 THEN r ELSE FreeAddr(r.fs, i, addrs[i])

\* The states after each of the first m turns.
FreeTurns(after, m, s, addrs) ==
  after = [i \in 0 .. m |-> IF i = 0 THEN Nothing(s)
                            ELSE FreeTurn(after[i - 1], i - 1, addrs)]

\* There are such states, for any number of turns.
LEMMA FreeTurnsExist ==
  ASSUME NEW s, NEW addrs, NEW m \in Nat
  PROVE  \E after : FreeTurns(after, m, s, addrs)
<1> DEFINE T == {k \in Nat : \E after : FreeTurns(after, k, s, addrs)}
<1>1. 0 \in T
  <2>1. FreeTurns([i \in 0 .. 0 |-> Nothing(s)], 0, s, addrs)
    BY DEF FreeTurns
  <2> QED BY <2>1
<1>2. ASSUME NEW k \in Nat, k \in T PROVE k + 1 \in T
  <2>1. PICK f : FreeTurns(f, k, s, addrs)
    BY <1>2
  <2> DEFINE g == [i \in 0 .. k + 1 |->
                     IF i = k + 1 THEN FreeTurn(f[k], k, addrs) ELSE f[i]]
  <2>2. \A i \in 0 .. k + 1 :
          g[i] = IF i = 0 THEN Nothing(s) ELSE FreeTurn(g[i - 1], i - 1, addrs)
    <3> SUFFICES ASSUME NEW i \in 0 .. k + 1
                 PROVE  g[i] = IF i = 0 THEN Nothing(s)
                               ELSE FreeTurn(g[i - 1], i - 1, addrs)
      OBVIOUS
    <3>1. CASE i = k + 1
      <4>1. g[i] = FreeTurn(f[k], k, addrs) /\ g[i - 1] = f[k] /\ i - 1 = k /\ i # 0
        BY <3>1
      <4> QED BY <4>1
    <3>2. CASE i # k + 1 /\ i # 0
      <4>1. i \in 0 .. k /\ i - 1 \in 0 .. k
        BY <3>2
      <4>2. g[i] = f[i] /\ g[i - 1] = f[i - 1]
        BY <3>2, <4>1
      <4> QED BY <2>1, <3>2, <4>1, <4>2 DEF FreeTurns
    <3>3. CASE i = 0
      <4>1. g[0] = f[0] /\ 0 \in 0 .. k
        BY <3>3
      <4> QED BY <2>1, <3>3, <4>1 DEF FreeTurns
    <3> QED BY <3>1, <3>2, <3>3
  <2>3. FreeTurns(g, k + 1, s, addrs)
    <3>1. g = [i \in 0 .. k + 1 |-> g[i]]
      OBVIOUS
    <3> HIDE DEF g
    <3> QED BY <2>2, <3>1 DEF FreeTurns
  <2> QED BY <2>3
<1> HIDE DEF T
<1>3. m \in T
  BY <1>1, <1>2, UpTo
<1> QED BY <1>3 DEF T

\* What free_inode returns is the state after the last of them.
LEMMA FreeInodeLoop ==
  ASSUME NEW s, NEW il, NEW n
  PROVE  \E after :
           /\ after[0] = Nothing(s)
           /\ \A i \in AddrIdx :
                after[i + 1] = FreeTurn(after[i], i, il[n].block_addrs)
           /\ FreeInode(s, il, n) =
                [ret |-> after[INODE_BLOCKS].ret,
                 fs |-> after[INODE_BLOCKS].fs,
                 ilist |-> IF after[INODE_BLOCKS].ret = 0
                           THEN [il EXCEPT ![n] = ClearedInode] ELSE il]
<1> DEFINE addrs == il[n].block_addrs
           after == CHOOSE g : FreeTurns(g, INODE_BLOCKS, s, addrs)
<1>1. FreeTurns(after, INODE_BLOCKS, s, addrs)
  BY FreeTurnsExist, AddrIdxFacts
<1>2. FreeInode(s, il, n) =
        [ret |-> after[INODE_BLOCKS].ret,
         fs |-> after[INODE_BLOCKS].fs,
         ilist |-> IF after[INODE_BLOCKS].ret = 0
                   THEN [il EXCEPT ![n] = ClearedInode] ELSE il]
  BY Zenon DEF FreeInode, FreeTurns, FreeTurn
<1> HIDE DEF after, addrs
<1>3. after[0] = Nothing(s)
  BY <1>1, AddrIdxFacts DEF FreeTurns
<1>4. ASSUME NEW i \in AddrIdx PROVE after[i + 1] = FreeTurn(after[i], i, addrs)
  <2>1. i + 1 \in 0 .. INODE_BLOCKS /\ i + 1 # 0 /\ (i + 1) - 1 = i
    BY AddrIdxFacts DEF AddrIdx
  <2> QED BY <1>1, <2>1 DEF FreeTurns
<1> QED BY <1>2, <1>3, <1>4 DEF addrs

(***************************************************************************)
(* What the i-list's addresses must be for an inode's blocks to be its     *)
(* own, in a state f of the free list and an i-list il.                    *)
(***************************************************************************)
AddrsAreData(il) ==
  \A n \in InodeNum, i \in AddrIdx :
    /\ il[n].block_addrs[i] \in DataBlocks \cup {0}
    /\ i \notin DirectIdx => il[n].block_addrs[i] = 0

HeldNotFree(f, il) ==
  \A n \in InodeNum, i \in AddrIdx :
    il[n].block_addrs[i] # 0 => il[n].block_addrs[i] \notin FreeBlocks(f)

OneOwner(il) ==
  \A n, m \in InodeNum, i, j \in AddrIdx :
    il[n].block_addrs[i] # 0 /\ il[n].block_addrs[i] = il[m].block_addrs[j]
      => n = m /\ i = j

\* The blocks at the first k addresses, and at all of them.
FirstBlocks(addrs, k) == {addrs[i] : i \in {j \in AddrIdx : j < k}} \ {0}
InodeBlocks(addrs) == {addrs[i] : i \in AddrIdx} \ {0}

\* What the loop has done after k turns: it has returned the blocks of these
\* turns, or failed at the first one with nothing done.
FreedSoFar(r, k, s, addrs) ==
  \/ r.ret = -1 /\ r.fs = s /\ FreeBlocks(s) = {}
  \/ /\ r.ret = 0
     /\ WellFormed(r.fs)
     /\ FreeBlocks(r.fs) = FreeBlocks(s) \cup FirstBlocks(addrs, k)
     /\ FirstBlocks(addrs, k) = {} => r.fs = s
     /\ \A d \in DataBlocks \ (FreeBlocks(s) \cup FirstBlocks(addrs, k)) :
          r.fs.disk[d] = s.disk[d]

\* The addresses free_inode may be given: of data blocks that are not free, no
\* two the same, and no indirect ones.
OwnAddrs(s, addrs) ==
  /\ \A i \in AddrIdx :
       /\ addrs[i] \in (DataBlocks \ FreeBlocks(s)) \cup {0}
       /\ i \notin DirectIdx => addrs[i] = 0
  /\ \A i, j \in AddrIdx : addrs[i] # 0 /\ addrs[i] = addrs[j] => i = j

\* One turn does one block more, or fails before any is returned.
LEMMA FreeTurnStep ==
  ASSUME NEW s, WellFormed(s), NEW addrs, OwnAddrs(s, addrs),
         NEW k \in AddrIdx, NEW r, FreedSoFar(r, k, s, addrs)
  PROVE  FreedSoFar(FreeTurn(r, k, addrs), k + 1, s, addrs)
<1> DEFINE b == addrs[k]
           t == FreeBlock(r.fs, b)
           B == FirstBlocks(addrs, k)
<1>1. CASE r.ret = -1 /\ r.fs = s /\ FreeBlocks(s) = {}
  BY <1>1 DEF FreeTurn, FreedSoFar
<1>2. CASE /\ r.ret = 0
           /\ WellFormed(r.fs)
           /\ FreeBlocks(r.fs) = FreeBlocks(s) \cup B
           /\ B = {} => r.fs = s
           /\ \A d \in DataBlocks \ (FreeBlocks(s) \cup B) : r.fs.disk[d] = s.disk[d]
  <2>1. FreeTurn(r, k, addrs) = t
    BY <1>2, FreeAddrDirect DEF FreeTurn, OwnAddrs
  <2>2. FirstBlocks(addrs, k + 1) = B \cup ({b} \ {0})
    <3>1. \A j \in AddrIdx : j < k + 1 <=> j < k \/ j = k
      BY AddrIdxFacts
    <3>2. {j \in AddrIdx : j < k + 1} = {j \in AddrIdx : j < k} \cup {k}
      BY <3>1
    <3> QED BY <3>2 DEF FirstBlocks
  <2>3. CASE b = 0
    <3>1. t.ret = 0 /\ t.fs = r.fs
      BY <2>3 DEF FreeBlock
    <3>2. FirstBlocks(addrs, k + 1) = B
      BY <2>2, <2>3
    <3> HIDE DEF t, b, B
    <3> QED BY <1>2, <2>1, <3>1, <3>2 DEF FreedSoFar
  <2>4. CASE b # 0
    <3>1. b \in DataBlocks /\ b \notin FreeBlocks(s)
      BY <2>4 DEF OwnAddrs
    <3>2. b \notin B
      BY <2>4, AddrIdxFacts DEF OwnAddrs, FirstBlocks
    <3>3. b \in DataBlocks \ FreeBlocks(r.fs)
      BY <1>2, <3>1, <3>2
    <3>4. \/ t.ret = -1 /\ t.fs = r.fs /\ FreeBlocks(r.fs) = {}
          \/ /\ t.ret = 0
             /\ WellFormed(t.fs)
             /\ FreeBlocks(r.fs) # {}
             /\ FreeBlocks(t.fs) = FreeBlocks(r.fs) \cup {b}
             /\ \A d \in DataBlocks \ (FreeBlocks(r.fs) \cup {b}) :
                  t.fs.disk[d] = r.fs.disk[d]
      BY <1>2, <3>3, FreeContract
    <3>5. FirstBlocks(addrs, k + 1) = B \cup {b} /\ B \cup {b} # {}
      BY <2>2, <2>4
    <3> HIDE DEF t, b, B
    <3>6. CASE t.ret = -1 /\ t.fs = r.fs /\ FreeBlocks(r.fs) = {}
      BY <1>2, <2>1, <3>6 DEF FreedSoFar
    <3>7. CASE /\ t.ret = 0
               /\ WellFormed(t.fs)
               /\ FreeBlocks(t.fs) = FreeBlocks(r.fs) \cup {b}
               /\ \A d \in DataBlocks \ (FreeBlocks(r.fs) \cup {b}) :
                    t.fs.disk[d] = r.fs.disk[d]
      <4>1. FreeBlocks(t.fs) = FreeBlocks(s) \cup (B \cup {b})
        BY <1>2, <3>7
      <4>2. \A d \in DataBlocks \ (FreeBlocks(s) \cup (B \cup {b})) :
              t.fs.disk[d] = s.disk[d]
        BY <1>2, <3>7
      <4> QED BY <2>1, <3>5, <3>7, <4>1, <4>2 DEF FreedSoFar
    <3> QED BY <3>4, <3>6, <3>7
  <2> QED BY <2>3, <2>4
<1> QED BY <1>1, <1>2 DEF FreedSoFar

\* What free_inode of the inode n may return, and leave: all its blocks returned
\* and the inode cleared, or nothing changed, because no block is free.
InodeFreed(r, s, il, n) ==
  LET B == InodeBlocks(il[n].block_addrs)
  IN  \/ r.ret = -1 /\ r.fs = s /\ r.ilist = il /\ FreeBlocks(s) = {}
      \/ /\ r.ret = 0
         /\ r.ilist = [il EXCEPT ![n] = ClearedInode]
         /\ WellFormed(r.fs)
         /\ FreeBlocks(r.fs) = FreeBlocks(s) \cup B
         /\ \A d \in DataBlocks \ (FreeBlocks(s) \cup B) : r.fs.disk[d] = s.disk[d]

\* free_inode, given addresses of that kind, does nothing else.
LEMMA FreeInodeContract ==
  ASSUME NEW s, WellFormed(s), NEW il, NEW n, OwnAddrs(s, il[n].block_addrs)
  PROVE  InodeFreed(FreeInode(s, il, n), s, il, n)
<1> DEFINE addrs == il[n].block_addrs
           r == FreeInode(s, il, n)
<1>1. PICK after :
        /\ after[0] = Nothing(s)
        /\ \A i \in AddrIdx : after[i + 1] = FreeTurn(after[i], i, addrs)
        /\ FreeInode(s, il, n) =
             [ret |-> after[INODE_BLOCKS].ret,
              fs |-> after[INODE_BLOCKS].fs,
              ilist |-> IF after[INODE_BLOCKS].ret = 0
                        THEN [il EXCEPT ![n] = ClearedInode] ELSE il]
  BY FreeInodeLoop
<1> HIDE DEF addrs
<1> DEFINE T == {k \in Nat : FreedSoFar(after[k], k, s, addrs)}
           last == after[INODE_BLOCKS]
<1>2. 0 \in T
  <2>1. FirstBlocks(addrs, 0) = {}
    BY AddrIdxFacts DEF FirstBlocks
  <2>2. after[0].ret = 0 /\ after[0].fs = s
    BY <1>1 DEF Nothing
  <2> QED BY <2>1, <2>2 DEF FreedSoFar
<1>3. ASSUME NEW k \in Nat, k < INODE_BLOCKS, k \in T PROVE k + 1 \in T
  <2>1. k \in AddrIdx
    BY <1>3, AddrIdxFacts DEF AddrIdx
  <2>2. FreedSoFar(after[k + 1], k + 1, s, addrs)
    BY <1>1, <1>3, <2>1, FreeTurnStep DEF addrs
  <2> QED BY <2>2
<1>4. FreedSoFar(last, INODE_BLOCKS, s, addrs)
  <2> HIDE DEF T
  <2>1. INODE_BLOCKS \in T
    BY <1>2, <1>3, AddrIdxFacts, UpTo
  <2> QED BY <2>1 DEF T
<1>5. FirstBlocks(addrs, INODE_BLOCKS) = InodeBlocks(addrs)
  BY AddrIdxFacts DEF FirstBlocks, InodeBlocks, AddrIdx
<1>6. /\ r.ret = last.ret
      /\ r.fs = last.fs
      /\ r.ilist = IF last.ret = 0 THEN [il EXCEPT ![n] = ClearedInode] ELSE il
  BY <1>1
<1> HIDE DEF r, last
<1> QED BY <1>4, <1>5, <1>6 DEF FreedSoFar, InodeFreed, addrs, r

\* An inode without blocks is cleared, whatever the state of the free list.
LEMMA FreeInodeWithoutBlocks ==
  ASSUME NEW s, NEW il, NEW n, \A i \in AddrIdx : il[n].block_addrs[i] = 0
  PROVE  /\ FreeInode(s, il, n).fs = s
         /\ FreeInode(s, il, n).ilist = [il EXCEPT ![n] = ClearedInode]
<1>1. PICK after :
        /\ after[0] = Nothing(s)
        /\ \A i \in AddrIdx : after[i + 1] = FreeTurn(after[i], i, il[n].block_addrs)
        /\ FreeInode(s, il, n) =
             [ret |-> after[INODE_BLOCKS].ret,
              fs |-> after[INODE_BLOCKS].fs,
              ilist |-> IF after[INODE_BLOCKS].ret = 0
                        THEN [il EXCEPT ![n] = ClearedInode] ELSE il]
  BY FreeInodeLoop
<1> DEFINE T == {k \in Nat : after[k] = Nothing(s)}
<1>2. 0 \in T
  BY <1>1
<1>3. ASSUME NEW k \in Nat, k < INODE_BLOCKS, k \in T PROVE k + 1 \in T
  <2>1. k \in AddrIdx
    BY <1>3, AddrIdxFacts DEF AddrIdx
  <2>2. FreeTurn(Nothing(s), k, il[n].block_addrs) = FreeBlock(s, 0)
    BY <2>1, FreeAddrDirect DEF FreeTurn, Nothing
  <2>3. FreeBlock(s, 0) = Nothing(s)
    BY DEF FreeBlock, Nothing
  <2> QED BY <1>1, <1>3, <2>1, <2>2, <2>3
<1>4. after[INODE_BLOCKS] = Nothing(s)
  <2> HIDE DEF T
  <2>1. INODE_BLOCKS \in T
    BY <1>2, <1>3, AddrIdxFacts, UpTo
  <2> QED BY <2>1 DEF T
<1> QED BY <1>1, <1>4 DEF Nothing

-----------------------------------------------------------------------------
(* translate_pos, as far as the direct blocks reach *)

\* What \div is, for a positive divisor.
LEMMA QuotientBounds ==
  ASSUME NEW x \in Nat, NEW d \in Nat \ {0}
  PROVE  /\ x \div d \in Nat
         /\ d * (x \div d) <= x
         /\ x < d * (x \div d) + d
OBVIOUS

\* What is left over is less than the divisor.
LEMMA RemainderBounds ==
  ASSUME NEW x \in Nat, NEW d \in Nat \ {0}
  PROVE  x % d \in 0 .. d - 1 /\ x = d * (x \div d) + (x % d)
<1>1. x % d \in 0 .. d - 1
  OBVIOUS
<1>2. x % d = x - d * (x \div d)
  OBVIOUS
<1>3. d * (x \div d) \in Nat
  BY QuotientBounds
<1> DEFINE p == d * (x \div d)
           m == x % d
<1>4. m = x - p /\ p \in Nat /\ m \in 0 .. d - 1
  BY <1>1, <1>2, <1>3
<1> HIDE DEF p, m
<1>5. x = p + m
  BY <1>4
<1> QED BY <1>1, <1>5 DEF p, m

\* Multiples of larger numbers are no smaller.
LEMMA ProductMonotone ==
  ASSUME NEW a \in Nat, NEW b \in Nat, NEW d \in Nat, a <= b
  PROVE  d * a <= d * b
OBVIOUS

\* The quotient is the only number with these bounds.
LEMMA QuotientUnique ==
  ASSUME NEW x \in Nat, NEW d \in Nat \ {0}, NEW q \in Nat,
         d * q <= x, x < d * q + d
  PROVE  x \div d = q
<1> DEFINE p == x \div d
<1>1. p \in Nat /\ d * p <= x /\ x < d * p + d
  BY QuotientBounds
<1> HIDE DEF p
<1>2. ASSUME NEW a \in Nat, NEW c \in Nat, a < c PROVE d * a + d <= d * c
  <2>1. a + 1 <= c
    BY <1>2
  <2>2. d * (a + 1) <= d * c
    BY <2>1, ProductMonotone
  <2>3. d * (a + 1) = d * a + d
    OBVIOUS
  <2> QED BY <2>2, <2>3
<1>3. d * p \in Nat /\ d * q \in Nat
  BY <1>1
<1>4. CASE p < q
  <2>1. d * p + d <= d * q
    BY <1>1, <1>2, <1>4
  <2> QED BY <1>1, <1>3, <2>1
<1>5. CASE q < p
  <2>1. d * q + d <= d * p
    BY <1>1, <1>2, <1>5
  <2> QED BY <1>1, <1>3, <2>1
<1> QED BY <1>1, <1>4, <1>5 DEF p

\* Larger numbers have no smaller quotients.
LEMMA QuotientMonotone ==
  ASSUME NEW x \in Nat, NEW y \in Nat, x <= y, NEW d \in Nat \ {0}
  PROVE  x \div d <= y \div d
<1> DEFINE p == x \div d
           q == y \div d
<1>1. /\ p \in Nat /\ q \in Nat
      /\ d * p <= x
      /\ y < d * q + d
  BY QuotientBounds
<1> HIDE DEF p, q
<1>2. SUFFICES ASSUME q + 1 <= p PROVE FALSE
  BY <1>1 DEF p, q
<1>3. d * (q + 1) <= d * p /\ d * (q + 1) = d * q + d
  BY <1>1, <1>2, ProductMonotone
<1>4. d * p \in Nat /\ d * q \in Nat
  BY <1>1
<1> QED BY <1>1, <1>3, <1>4

\* A number of words divided into blocks, counted in bytes on both sides.
LEMMA QuotientOfMultiples ==
  ASSUME NEW x \in Nat, NEW d \in Nat \ {0}, NEW w \in Nat \ {0}
  PROVE  (x * w) \div (d * w) = x \div d
<1> DEFINE q == x \div d
<1>1. q \in Nat /\ d * q <= x /\ x + 1 <= d * q + d
  BY QuotientBounds
<1>2. d * q \in Nat /\ d * q + d \in Nat
  BY <1>1
<1> HIDE DEF q
<1>3. w * (d * q) <= w * x /\ w * (x + 1) <= w * (d * q + d)
  BY <1>1, <1>2, ProductMonotone
<1>4. /\ w * (d * q) = (d * w) * q
      /\ w * (d * q + d) = (d * w) * q + d * w
      /\ w * (x + 1) = x * w + w
      /\ w * x = x * w
  BY <1>1, <1>2
<1>5. /\ x * w \in Nat
      /\ d * w \in Nat \ {0}
      /\ (d * w) * q \in Nat
  BY <1>1
<1>6. (d * w) * q <= x * w /\ x * w < (d * w) * q + d * w
  BY <1>3, <1>4, <1>5
<1>7. (x * w) \div (d * w) = q
  BY <1>1, <1>5, <1>6, QuotientUnique
<1> QED BY <1>7 DEF q

\* The words behind the direct addresses.
DirectWords == 0 .. (DIRECT * SLOTS - 1)

\* The block and the place in it of such a word.
LEMMA DirectWordFacts ==
  ASSUME NEW pos \in DirectWords
  PROVE  /\ pos \in Nat
         /\ pos \div SLOTS \in DirectIdx
         /\ pos \div SLOTS \in AddrIdx
         /\ pos \div SLOTS < DIRECT
         /\ pos % SLOTS \in Slot
         /\ pos = SLOTS * (pos \div SLOTS) + (pos % SLOTS)
<1> DEFINE q == pos \div SLOTS
<1>1. SLOTS \in Nat \ {0} /\ DIRECT \in Nat \ {0}
  BY GeometryAssumption, InodeAssumption
<1>2. DIRECT * SLOTS \in Nat /\ DIRECT * SLOTS = SLOTS * DIRECT
  BY <1>1
<1>3. pos \in Nat /\ pos < SLOTS * DIRECT
  BY <1>2 DEF DirectWords
<1>4. q \in Nat /\ SLOTS * q <= pos
  BY <1>1, <1>3, QuotientBounds
<1>5. pos % SLOTS \in Slot /\ pos = SLOTS * q + (pos % SLOTS)
  BY <1>1, <1>3, RemainderBounds DEF Slot
<1> HIDE DEF q
<1>6. q < DIRECT
  <2>1. SUFFICES ASSUME DIRECT <= q PROVE FALSE
    BY <1>1, <1>4
  <2>2. SLOTS * DIRECT <= SLOTS * q
    BY <1>1, <1>4, <2>1, ProductMonotone
  <2>3. SLOTS * q \in Nat /\ SLOTS * DIRECT \in Nat
    BY <1>1, <1>4
  <2> QED BY <1>3, <1>4, <2>2, <2>3
<1>7. q \in DirectIdx
  BY <1>1, <1>4, <1>6 DEF DirectIdx
<1> QED BY <1>3, <1>5, <1>6, <1>7, AddrIdxFacts DEF q

\* A word behind the direct addresses is found at the index its block has.
LEMMA TranslateDirect ==
  ASSUME NEW s, NEW pos \in DirectWords, NEW is_write
  PROVE  LET at == AccessDirect(s, pos \div SLOTS, is_write)
         IN  /\ TranslatePos(s, pos, is_write).s = at
             /\ TranslatePos(s, pos, is_write).block =
                  at.inode.block_addrs[pos \div SLOTS]
<1>1. SLOTS \in Nat \ {0} /\ WORD_SIZE \in Nat \ {0} /\ DIRECT \in Nat \ {0}
  BY GeometryAssumption, InodeAssumption, WordAssumption
<1>2. pos \in Nat /\ pos \div SLOTS < DIRECT
  BY DirectWordFacts
<1>3. pos * WORD_SIZE \in Nat /\ ~ (pos * WORD_SIZE < 0)
  BY <1>1, <1>2
<1>4. Translate!BlockNum(pos * WORD_SIZE) = pos \div SLOTS
  <2>1. Translate!BlockNum(pos * WORD_SIZE) = (pos * WORD_SIZE) \div (SLOTS * WORD_SIZE)
    BY <1>3, Zenon DEF Translate!BlockNum, Translate!CDiv
  <2> QED BY <1>1, <1>2, <2>1, QuotientOfMultiples
<1>5. Translate!AddrIndex(pos \div SLOTS) = pos \div SLOTS
  BY <1>2, Zenon DEF Translate!AddrIndex
<1> QED BY <1>2, <1>4, <1>5, Zenon DEF TranslatePos

-----------------------------------------------------------------------------
(* Changes of the i-list *)

\* A block address stored in an inode, and in the i-list.
InodeGiven(inode, i, b) == [inode EXCEPT !.block_addrs[i] = b]
AddrStored(il, n, i, b) == [il EXCEPT ![n].block_addrs[i] = b]

\* What access_inode_direct_block_num leaves of a record s when it writes: the
\* same, or what a call of alloc_block that failed leaves, or a new address in the
\* copy and in the i-list.
DirectAccessed(t, s, idx) ==
  LET r == AllocInt(s.fs)
  IN  /\ DOMAIN t = DOMAIN s
      /\ \A x \in DOMAIN s \ {"fs", "ilist", "inode"} : t[x] = s[x]
      /\ \/ /\ s.inode.block_addrs[idx] # 0
            /\ t.fs = s.fs /\ t.ilist = s.ilist /\ t.inode = s.inode
         \/ /\ s.inode.block_addrs[idx] = 0 /\ r.ret = -1
            /\ t.fs = r.fs /\ t.ilist = s.ilist /\ t.inode = s.inode
         \/ /\ s.inode.block_addrs[idx] = 0 /\ r.ret # -1
            /\ t.fs = r.fs
            /\ t.ilist = AddrStored(s.ilist, s.n, idx, r.ret)
            /\ t.inode = InodeGiven(s.inode, idx, r.ret)

\* These are all the cases.
LEMMA AccessDirectContract ==
  ASSUME NEW s, {"fs", "ilist", "n", "inode"} \subseteq DOMAIN s, NEW idx
  PROVE  DirectAccessed(AccessDirect(s, idx, TRUE), s, idx)
<1> DEFINE r == AllocInt(s.fs)
           jl == [s.ilist EXCEPT ![s.n].block_addrs[idx] = r.ret]
           new == [s.inode EXCEPT !.block_addrs[idx] = r.ret]
           t == AccessDirect(s, idx, TRUE)
           t1 == [s EXCEPT !.fs = r.fs]
           t2 == [s EXCEPT !.fs = r.fs, !.inode = new, !.ilist = jl]
<1>1. \/ s.inode.block_addrs[idx] # 0 /\ t = s
      \/ s.inode.block_addrs[idx] = 0 /\ r.ret = -1 /\ t = t1
      \/ s.inode.block_addrs[idx] = 0 /\ r.ret # -1 /\ t = t2
  BY Zenon DEF AccessDirect
<1>2. jl = AddrStored(s.ilist, s.n, idx, r.ret) /\ new = InodeGiven(s.inode, idx, r.ret)
  BY Zenon DEF AddrStored, InodeGiven
<1>3. /\ DOMAIN t1 = DOMAIN s
      /\ t1.fs = r.fs /\ t1.ilist = s.ilist /\ t1.inode = s.inode
      /\ \A x \in DOMAIN s \ {"fs"} : t1[x] = s[x]
  <2> HIDE DEF r
  <2> QED OBVIOUS
<1>4. /\ DOMAIN t2 = DOMAIN s
      /\ t2.fs = r.fs /\ t2.ilist = jl /\ t2.inode = new
      /\ \A x \in DOMAIN s \ {"fs", "ilist", "inode"} : t2[x] = s[x]
  <2> HIDE DEF r, jl, new
  <2> QED OBVIOUS
<1> HIDE DEF t, t1, t2, r, jl, new
<1>5. CASE s.inode.block_addrs[idx] # 0 /\ t = s
  BY <1>5 DEF DirectAccessed, t, r
<1>6. CASE s.inode.block_addrs[idx] = 0 /\ r.ret = -1 /\ t = t1
  BY <1>3, <1>6 DEF DirectAccessed, t, r
<1>7. CASE s.inode.block_addrs[idx] = 0 /\ r.ret # -1 /\ t = t2
  BY <1>2, <1>4, <1>7 DEF DirectAccessed, t, r
<1> QED BY <1>1, <1>5, <1>6, <1>7

\* Storing an address changes that address of that inode.
LEMMA AddrStoredFacts ==
  ASSUME NEW il \in IList, NEW n \in InodeNum, NEW i \in AddrIdx, NEW b \in Int
  PROVE  LET jl == AddrStored(il, n, i, b)
         IN  /\ jl \in IList
             /\ \A k \in InodeNum, j \in AddrIdx :
                  jl[k].block_addrs[j] =
                    IF k = n /\ j = i THEN b ELSE il[k].block_addrs[j]
             /\ \A k \in InodeNum : jl[k].m_data = il[k].m_data
             /\ \A k \in InodeNum \ {n} : jl[k] = il[k]
             /\ jl[n] = InodeGiven(il[n], i, b)
<1> DEFINE addrs == [il[n].block_addrs EXCEPT ![i] = b]
           inode == [m_data |-> il[n].m_data, block_addrs |-> addrs]
           jl == [il EXCEPT ![n] = inode]
<1>1. il[n] \in [m_data : MData, block_addrs : [AddrIdx -> Int]]
  BY DEF IList, Inode
<1>2. addrs \in [AddrIdx -> Int] /\ inode \in Inode
  BY <1>1 DEF Inode
<1>3. InodeGiven(il[n], i, b) = inode
  BY <1>1 DEF InodeGiven
<1>4. AddrStored(il, n, i, b) = jl
  <2>1. [il[n] EXCEPT !.block_addrs[i] = b] = inode
    BY <1>3 DEF InodeGiven
  <2> QED BY <2>1 DEF AddrStored
<1>5. \A j \in AddrIdx : addrs[j] = IF j = i THEN b ELSE il[n].block_addrs[j]
  BY <1>1
<1>6. \A k \in InodeNum : jl[k] = IF k = n THEN inode ELSE il[k]
  BY DEF IList
<1>7. jl \in IList
  BY <1>2 DEF IList
<1>8. inode.block_addrs = addrs /\ inode.m_data = il[n].m_data
  OBVIOUS
<1> HIDE DEF addrs, inode, jl
<1> QED BY <1>3, <1>4, <1>5, <1>6, <1>7, <1>8

\* Metadata stored in an inode.
InodeSized(inode, m) == [inode EXCEPT !.m_data = m]

\* Storing metadata changes no address and no other inode.
LEMMA MDataStoredFacts ==
  ASSUME NEW il \in IList, NEW n \in InodeNum, NEW m \in MData
  PROVE  LET jl == MDataStored(il, n, m)
         IN  /\ jl \in IList
             /\ \A k \in InodeNum : jl[k].block_addrs = il[k].block_addrs
             /\ \A k \in InodeNum \ {n} : jl[k] = il[k]
             /\ jl[n].m_data = m
             /\ jl[n] = InodeSized(il[n], m)
<1>1. il[n] \in [m_data : MData, block_addrs : [AddrIdx -> Int]]
  BY DEF IList, Inode
<1> DEFINE inode == [il[n] EXCEPT !.m_data = m]
           jl == [il EXCEPT ![n] = inode]
<1>2. inode.block_addrs = il[n].block_addrs /\ inode.m_data = m /\ inode \in Inode
  BY <1>1 DEF Inode
<1>3. \A k \in InodeNum : jl[k] = IF k = n THEN inode ELSE il[k]
  BY DEF IList
<1>4. jl \in IList
  BY <1>2 DEF IList
<1>5. MDataStored(il, n, m) = jl
  BY DEF MDataStored
<1> HIDE DEF inode, jl
<1>6. jl[n] = inode
  BY <1>3
<1> QED BY <1>2, <1>3, <1>4, <1>5, <1>6 DEF inode, InodeSized

\* Clearing an inode leaves it unallocated, without blocks, and the others alone.
LEMMA ClearedFacts ==
  ASSUME NEW il \in IList, NEW n \in InodeNum
  PROVE  LET jl == [il EXCEPT ![n] = ClearedInode]
         IN  /\ jl \in IList
             /\ \A k \in InodeNum \ {n} : jl[k] = il[k]
             /\ jl[n] = ClearedInode
             /\ \A j \in AddrIdx : jl[n].block_addrs[j] = 0
             /\ jl[n].m_data.is_allocated = FALSE
<1>1. \A j \in AddrIdx : ClearedInode.block_addrs[j] = 0
  BY DEF ClearedInode, NoBlocks
<1>2. ClearedInode.m_data.is_allocated = FALSE
  BY DEF ClearedInode
<1> QED BY <1>1, <1>2, ClearedIsInode DEF IList

-----------------------------------------------------------------------------
(* Each block is free or has one owner *)

Separate(f, il) ==
  /\ WellFormed(f)
  /\ il \in IList
  /\ AddrsAreData(il)
  /\ HeldNotFree(f, il)
  /\ OneOwner(il)

\* init_fs separates them.
LEMMA InitSeparate == ASSUME LinkedGeometry PROVE Separate(InitFs, InitIList)
<1>1. \A n \in InodeNum, i \in AddrIdx : InitIList[n].block_addrs[i] = 0
  BY DEF InitIList, NoBlocks
<1> QED BY <1>1, InitWellFormed, InitIListType
        DEF Separate, AddrsAreData, HeldNotFree, OneOwner

\* An inode that names a block names a data block that is not free.
LEMMA HeldIsData ==
  ASSUME NEW f, NEW il, Separate(f, il), NEW n \in InodeNum, NEW i \in AddrIdx,
         il[n].block_addrs[i] # 0
  PROVE  il[n].block_addrs[i] \in DataBlocks \ FreeBlocks(f)
BY DEF Separate, AddrsAreData, HeldNotFree

\* Only what an inode's addresses are matters.
LEMMA SameAddrsSeparate ==
  ASSUME NEW f, NEW il, Separate(f, il), NEW g, NEW jl \in IList, WellFormed(g),
         FreeBlocks(g) = FreeBlocks(f),
         \A k \in InodeNum : jl[k].block_addrs = il[k].block_addrs
  PROVE  Separate(g, jl)
BY DEF Separate, AddrsAreData, HeldNotFree, OneOwner

\* A block that alloc_block returns is given to an inode, whatever that one named
\* there before; or alloc_block returns none.
Grown(r, f, il, n, i) ==
  \/ r.ret = -1 /\ Separate(r.fs, il) /\ FreeBlocks(r.fs) = FreeBlocks(f)
  \/ /\ r.ret # -1
     /\ r.ret \in DataBlocks \ FreeBlocks(r.fs)
     /\ Separate(r.fs, AddrStored(il, n, i, r.ret))

\* alloc_block for a direct address keeps the blocks apart.
LEMMA GrowSeparate ==
  ASSUME NEW f, NEW il, Separate(f, il), NEW n \in InodeNum, NEW i \in DirectIdx
  PROVE  Grown(AllocInt(f), f, il, n, i)
<1> DEFINE r == AllocInt(f)
           jl == AddrStored(il, n, i, r.ret)
<1>1. /\ WellFormed(r.fs)
      /\ \/ r.ret = Null /\ FreeBlocks(r.fs) = FreeBlocks(f)
         \/ r.ret \in FreeBlocks(f) /\ FreeBlocks(r.fs) = FreeBlocks(f) \ {r.ret}
  BY AllocIntContract DEF Separate
<1> HIDE DEF r
<1>2. CASE r.ret = Null /\ FreeBlocks(r.fs) = FreeBlocks(f)
  <2>1. Separate(r.fs, il)
    BY <1>1, <1>2, SameAddrsSeparate DEF Separate
  <2> QED BY <1>2, <2>1 DEF Null, r, Grown
<1>3. CASE r.ret \in FreeBlocks(f) /\ FreeBlocks(r.fs) = FreeBlocks(f) \ {r.ret}
  <2>1. r.ret \in DataBlocks /\ r.ret \in Nat /\ r.ret # 0 /\ r.ret # -1
    <3>1. r.ret \in DataBlocks
      BY <1>3, FreeBlocksAreData DEF Separate
    <3> QED BY <3>1, DataBlocksPositive DEF Null, Empty
  <2>2. i \in AddrIdx /\ il \in IList
    BY AddrIdxFacts DEF Separate
  <2>3. /\ jl \in IList
        /\ \A k \in InodeNum, j \in AddrIdx :
             jl[k].block_addrs[j] =
               IF k = n /\ j = i THEN r.ret ELSE il[k].block_addrs[j]
    <3> DEFINE b == r.ret
    <3>1. b \in Int
      BY <2>1
    <3> HIDE DEF b
    <3>2. LET kl == AddrStored(il, n, i, b)
          IN  /\ kl \in IList
              /\ \A k \in InodeNum, j \in AddrIdx :
                   kl[k].block_addrs[j] =
                     IF k = n /\ j = i THEN b ELSE il[k].block_addrs[j]
      BY <2>2, <3>1, AddrStoredFacts
    <3> QED BY <3>2, Zenon DEF b
  <2> HIDE DEF jl
  <2>4. AddrsAreData(jl)
    BY <2>1, <2>3 DEF Separate, AddrsAreData
  <2>5. HeldNotFree(r.fs, jl)
    BY <1>3, <2>1, <2>3 DEF Separate, HeldNotFree
  <2>6. OneOwner(jl)
    <3>1. \A k \in InodeNum, j \in AddrIdx : il[k].block_addrs[j] # r.ret
      BY <1>3, <2>1 DEF Separate, HeldNotFree
    <3> QED BY <2>3, <3>1 DEF Separate, OneOwner
  <2>7. Separate(r.fs, jl)
    BY <1>1, <2>3, <2>4, <2>5, <2>6 DEF Separate
  <2> QED BY <1>3, <2>1, <2>7 DEF r, jl, Grown
<1> QED BY <1>1, <1>2, <1>3

\* The words of a block that is not free may be written.
LEMMA WriteSeparate ==
  ASSUME NEW f, NEW il, Separate(f, il), NEW b \in DataBlocks \ FreeBlocks(f),
         NEW c \in Block
  PROVE  Separate([f EXCEPT !.disk[b] = c], il)
<1>1. /\ WellFormed([f EXCEPT !.disk[b] = c])
      /\ FreeBlocks([f EXCEPT !.disk[b] = c]) = FreeBlocks(f)
  BY WriteContract DEF Separate
<1> HIDE DEF WellFormed
<1> QED BY <1>1, SameAddrsSeparate DEF Separate

\* free_inode is given addresses as FreeInodeContract wants them.
LEMMA SeparateOwn ==
  ASSUME NEW f, NEW il, Separate(f, il), NEW n \in InodeNum
  PROVE  OwnAddrs(f, il[n].block_addrs)
BY HeldIsData DEF Separate, AddrsAreData, OneOwner, OwnAddrs

\* free_inode: the inode's blocks are free and it has none, or nothing changes,
\* and the blocks of others keep their words.
FreedApart(r, f, il, n) ==
  /\ Separate(r.fs, r.ilist)
  /\ \/ r.ret # 0 /\ r.fs = f /\ r.ilist = il
     \/ r.ret = 0 /\ r.ilist = [il EXCEPT ![n] = ClearedInode]
  /\ \A k \in InodeNum \ {n}, i \in AddrIdx :
       il[k].block_addrs[i] # 0
         => r.fs.disk[il[k].block_addrs[i]] = f.disk[il[k].block_addrs[i]]

\* free_inode keeps them apart as well.
LEMMA FreeSeparate ==
  ASSUME NEW f, NEW il, Separate(f, il), NEW n \in InodeNum
  PROVE  FreedApart(FreeInode(f, il, n), f, il, n)
<1> DEFINE r == FreeInode(f, il, n)
           B == InodeBlocks(il[n].block_addrs)
           jl == [il EXCEPT ![n] = ClearedInode]
<1>1. \/ r.ret = -1 /\ r.fs = f /\ r.ilist = il
      \/ /\ r.ret = 0
         /\ r.ilist = jl
         /\ WellFormed(r.fs)
         /\ FreeBlocks(r.fs) = FreeBlocks(f) \cup B
         /\ \A d \in DataBlocks \ (FreeBlocks(f) \cup B) : r.fs.disk[d] = f.disk[d]
  <2>1. WellFormed(f) /\ OwnAddrs(f, il[n].block_addrs)
    BY SeparateOwn DEF Separate
  <2>2. InodeFreed(r, f, il, n)
    BY <2>1, FreeInodeContract
  <2> QED BY <2>2, Zenon DEF InodeFreed
<1>2. \A k \in InodeNum \ {n}, i \in AddrIdx :
        il[k].block_addrs[i] # 0 => il[k].block_addrs[i] \notin B
  BY DEF Separate, OneOwner, InodeBlocks
<1>3. il \in IList
  BY DEF Separate
<1>4. /\ jl \in IList
      /\ \A k \in InodeNum \ {n} : jl[k] = il[k]
      /\ \A j \in AddrIdx : jl[n].block_addrs[j] = 0
  BY <1>3, ClearedFacts
<1> HIDE DEF r, B, jl
<1>5. CASE r.ret = -1 /\ r.fs = f /\ r.ilist = il
  BY <1>5 DEF r, FreedApart
<1>6. CASE /\ r.ret = 0
           /\ r.ilist = jl
           /\ WellFormed(r.fs)
           /\ FreeBlocks(r.fs) = FreeBlocks(f) \cup B
           /\ \A d \in DataBlocks \ (FreeBlocks(f) \cup B) : r.fs.disk[d] = f.disk[d]
  <2>1. AddrsAreData(jl) /\ OneOwner(jl)
    BY <1>4 DEF Separate, AddrsAreData, OneOwner
  <2>2. HeldNotFree(r.fs, jl)
    BY <1>2, <1>4, <1>6 DEF Separate, HeldNotFree
  <2>3. Separate(r.fs, r.ilist)
    BY <1>4, <1>6, <2>1, <2>2 DEF Separate
  <2>4. \A k \in InodeNum \ {n}, i \in AddrIdx :
          il[k].block_addrs[i] # 0
            => r.fs.disk[il[k].block_addrs[i]] = f.disk[il[k].block_addrs[i]]
    BY <1>2, <1>6, HeldIsData
  <2> QED BY <1>6, <2>3, <2>4 DEF r, jl, FreedApart
<1> QED BY <1>1, <1>5, <1>6
=============================================================================
