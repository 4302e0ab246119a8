-------------------------- MODULE FreeListOpsProofs --------------------------
(***************************************************************************)
(* What alloc_block and free_block do to a well-formed free list, for      *)
(* every geometry.  The three contracts AllocContract, FreeContract and    *)
(* WriteContract are all that the proofs about a caller need.              *)
(***************************************************************************)
EXTENDS FreeListOps, WellFoundedInduction, TLAPS

(***************************************************************************)
(* The shape of the list that every operation keeps: its links stay in the *)
(* data area, its entries name data blocks or are sentinels, it is a chain *)
(* and lists no block twice.                                               *)
(***************************************************************************)
WellFormed(s) ==
  /\ s \in FreeListState
  /\ LinkClosed(s, Nodes(s))
  /\ \A n \in Nodes(s), i \in EntrySlot :
       s.disk[n][i] \in DataBlocks \cup {Empty, Null}
  /\ LinksFormChain(s)
  /\ EachListedOnce(s)

-----------------------------------------------------------------------------
(* Least elements *)

LessThan == {ss \in Nat \X Nat : ss[1] < ss[2]}

\* A set of naturals that has a member has a least one.
LEMMA LeastExists ==
  ASSUME NEW T \in SUBSET Nat, T # {}
  PROVE  \E m \in T : \A k \in T : m <= k
<1>1. IsWellFoundedOn(LessThan, Nat)
  BY NatLessThanWellFounded, Zenon DEF OpToRel, LessThan
<1>2. PICK m \in T : \A k \in T : ~ (<<k, m>> \in LessThan)
  BY <1>1, WFMin, Zenon
<1>3. \A k, l \in Nat : k < l => <<k, l>> \in LessThan
  BY DEF LessThan
<1>4. \A k \in T : ~ (k < m)
  BY <1>2, <1>3
<1>5. \A k \in T : m <= k
  BY <1>4
<1> QED BY <1>5

\* Induction over a set of naturals, as far as m: what a loop that makes m turns
\* needs, the library's theorems about predicates being out of reach.
LEMMA UpTo ==
  ASSUME NEW T, 0 \in T, NEW m \in Nat,
         \A k \in Nat : k < m /\ k \in T => k + 1 \in T
  PROVE  m \in T
<1> DEFINE Out == {k \in 0 .. m : k \notin T}
<1>1. CASE Out = {}
  BY <1>1
<1>2. CASE Out # {}
  <2>1. Out \in SUBSET Nat
    OBVIOUS
  <2>2. PICK k \in Out : \A j \in Out : k <= j
    <3> HIDE DEF Out
    <3> QED BY <1>2, <2>1, LeastExists
  <2>3. k \in Nat /\ k <= m /\ k # 0 /\ k \notin T
    OBVIOUS
  <2>4. k - 1 \in Nat /\ k - 1 < m /\ k - 1 \notin Out
    BY <2>2, <2>3
  <2>5. k - 1 \in T
    BY <2>3, <2>4
  <2> QED BY <2>3, <2>4, <2>5
<1> QED BY <1>1, <1>2

\* Least(S) is a member of S, whatever set of words' indices S is.
LEMMA LeastIsMember ==
  ASSUME NEW T \in SUBSET EntrySlot, T # {}
  PROVE  Least(T) \in T
<1>1. T \in SUBSET Nat
  BY GeometryAssumption DEF EntrySlot
<1>2. \E m \in T : \A k \in T : m <= k
  BY <1>1, LeastExists
<1> QED BY <1>2 DEF Least

-----------------------------------------------------------------------------
(* The nodes of the list: no induction over the links is needed, because   *)
(* Nodes(s) is the smallest link-closed set of data blocks.                *)

\* Data blocks are positive numbers, told apart from both sentinels.
LEMMA DataBlocksPositive ==
  /\ DataBlocks \subseteq Nat
  /\ Empty \notin DataBlocks
  /\ Null \notin DataBlocks
  /\ FirstData \in DataBlocks
BY GeometryAssumption DEF DataBlocks, FirstData, Empty, Null

\* The nodes are in every link-closed set of data blocks.
LEMMA NodesAreLeast ==
  ASSUME NEW s, NEW S \in SUBSET DataBlocks, LinkClosed(s, S)
  PROVE  Nodes(s) \subseteq S
BY Zenon DEF Nodes

\* Every node of the list is a data block.
LEMMA NodesAreData == ASSUME NEW s PROVE Nodes(s) \subseteq DataBlocks
BY DEF Nodes

\* When some set of data blocks is link-closed, the nodes are.
LEMMA NodesAreClosed ==
  ASSUME NEW s, NEW S \in SUBSET DataBlocks, LinkClosed(s, S)
  PROVE  LinkClosed(s, Nodes(s))
<1>1. s.free_head # Null => s.free_head \in Nodes(s)
  BY Zenon DEF Nodes, LinkClosed
<1>2. ASSUME NEW n \in Nodes(s), Link(s, n) # Null PROVE Link(s, n) \in Nodes(s)
  <2>1. Link(s, n) \in DataBlocks
    BY <1>2, NodesAreLeast, Zenon DEF LinkClosed
  <2>2. ASSUME NEW R \in SUBSET DataBlocks, LinkClosed(s, R) PROVE Link(s, n) \in R
    BY <1>2, <2>2, NodesAreLeast, Zenon DEF LinkClosed
  <2> QED BY <2>1, <2>2, Zenon DEF Nodes
<1> QED BY <1>1, <1>2, Zenon DEF LinkClosed

\* A state with the same head, and the same links from the nodes, has the
\* same nodes.
LEMMA SameLinksSameNodes ==
  ASSUME NEW s, NEW t, LinkClosed(s, Nodes(s)),
         t.free_head = s.free_head,
         \A n \in Nodes(s) : Link(t, n) = Link(s, n)
  PROVE  Nodes(t) = Nodes(s) /\ LinkClosed(t, Nodes(t))
<1>1. LinkClosed(t, Nodes(s))
  BY Zenon DEF LinkClosed
<1>2. Nodes(t) \subseteq Nodes(s) /\ LinkClosed(t, Nodes(t))
  BY <1>1, NodesAreLeast, NodesAreClosed, NodesAreData, Zenon
<1>3. LinkClosed(s, Nodes(t))
  <2>1. ASSUME NEW n \in Nodes(t), Link(s, n) # Null PROVE Link(s, n) \in Nodes(t)
    BY <1>2, <2>1, Zenon DEF LinkClosed
  <2> QED BY <1>2, <2>1, Zenon DEF LinkClosed
<1> QED BY <1>2, <1>3, NodesAreLeast, NodesAreData, Zenon

\* When the head is taken off, the other nodes stay.
LEMMA NodesAfterPop ==
  ASSUME NEW s, NEW t, WellFormed(s), s.free_head # Null,
         t.free_head = Link(s, s.free_head), t.disk = s.disk
  PROVE  Nodes(t) = Nodes(s) \ {s.free_head} /\ LinkClosed(t, Nodes(t))
<1> DEFINE h == s.free_head
<1>0. \A n : Link(t, n) = Link(s, n)
  BY DEF Link
<1>1. LinkClosed(t, Nodes(s) \ {h})
  <2>1. h \in Nodes(s)
    BY DEF WellFormed, LinkClosed
  <2>2. \A n \in Nodes(s) : Link(s, n) \in Nodes(s) \cup {Null} /\ Link(s, n) # h
    BY DEF WellFormed, LinksFormChain
  <2> QED BY <1>0, <2>1, <2>2 DEF LinkClosed
<1>2. Nodes(t) \subseteq Nodes(s) \ {h} /\ LinkClosed(t, Nodes(t))
  BY <1>1, NodesAreLeast, NodesAreClosed, NodesAreData
<1>3. LinkClosed(s, Nodes(t) \cup {h})
  BY <1>0, <1>2 DEF LinkClosed
<1>4. Nodes(t) \cup {h} \in SUBSET DataBlocks
  BY NodesAreData DEF WellFormed, FreeListState
<1> QED BY <1>2, <1>3, <1>4, NodesAreLeast

\* When a block that is not a node is pushed, it joins the nodes.
LEMMA NodesAfterPush ==
  ASSUME NEW s, NEW t, NEW b \in DataBlocks, WellFormed(s), s.free_head # Null,
         b \notin Nodes(s),
         t.free_head = b, Link(t, b) = s.free_head,
         \A n \in Nodes(s) : Link(t, n) = Link(s, n)
  PROVE  Nodes(t) = Nodes(s) \cup {b} /\ LinkClosed(t, Nodes(t))
<1>0. LinkClosed(s, Nodes(s))
  BY DEF WellFormed
<1>1. LinkClosed(t, Nodes(s) \cup {b})
  BY <1>0 DEF LinkClosed
<1>2. Nodes(t) \subseteq Nodes(s) \cup {b} /\ LinkClosed(t, Nodes(t))
  BY <1>1, NodesAreLeast, NodesAreClosed, NodesAreData
<1>3. b \in Nodes(t) /\ s.free_head \in Nodes(t)
  <2>1. b # Null
    BY DataBlocksPositive
  <2>2. b \in Nodes(t)
    BY <1>2, <2>1 DEF LinkClosed
  <2> QED BY <1>2, <2>2 DEF LinkClosed
<1>4. LinkClosed(s, Nodes(t) \cap Nodes(s))
  BY <1>0, <1>2, <1>3 DEF LinkClosed
<1>5. Nodes(s) \subseteq Nodes(t)
  BY <1>4, NodesAreLeast, NodesAreData
<1> QED BY <1>2, <1>3, <1>5

-----------------------------------------------------------------------------
(* The blocks on the list *)

\* Free blocks are the nodes and what their entries name.
LEMMA InFreeBlocks ==
  ASSUME NEW s, NEW b
  PROVE  b \in FreeBlocks(s) <=>
           \/ b \in Nodes(s)
           \/ \E n \in Nodes(s), i \in EntrySlot : b = s.disk[n][i] /\ Named(b)
BY DEF FreeBlocks, EntriesOf

\* A well-formed list holds data blocks only.
LEMMA FreeBlocksAreData ==
  ASSUME NEW s, WellFormed(s) PROVE FreeBlocks(s) \subseteq DataBlocks
BY InFreeBlocks, NodesAreData DEF WellFormed, Named

\* A list with a head has a free block.
LEMMA HeadIsFree ==
  ASSUME NEW s, WellFormed(s), s.free_head # Null
  PROVE  s.free_head \in Nodes(s) /\ s.free_head \in DataBlocks
BY NodesAreData DEF WellFormed, LinkClosed

-----------------------------------------------------------------------------
(* One entry of the head node changes *)

\* Writing one entry of the head node changes that word and nothing else.
LEMMA SetEntryEffect ==
  ASSUME NEW s \in FreeListState, s.free_head \in DataBlocks,
         NEW i \in EntrySlot, NEW w \in Int
  PROVE  LET t == SetEntry(s, i, w)
         IN  /\ t \in FreeListState
             /\ t.free_head = s.free_head
             /\ \A n \in DataBlocks, j \in Slot :
                  t.disk[n][j] =
                    IF n = s.free_head /\ j = i THEN w ELSE s.disk[n][j]
             /\ \A n \in DataBlocks \ {s.free_head} : t.disk[n] = s.disk[n]
<1> DEFINE h == s.free_head
           blk == [s.disk[h] EXCEPT ![i] = w]
           t == SetEntry(s, i, w)
<1>1. i \in Slot /\ 0 \in Slot
  BY GeometryAssumption DEF EntrySlot, Slot
<1>2. s.disk \in [DataBlocks -> Block]
  BY DEF FreeListState
<1>3. s.disk[h] \in [Slot -> Int]
  BY <1>2 DEF Block
<1>4. blk \in [Slot -> Int] /\ \A j \in Slot : blk[j] = IF j = i THEN w ELSE s.disk[h][j]
  BY <1>1, <1>3
<1>5. t.free_head = h /\ t.disk = [s.disk EXCEPT ![h] = blk]
  BY DEF SetEntry, HeadNode, FreeListState
<1>6. t.disk \in [DataBlocks -> Block]
  BY <1>2, <1>4, <1>5 DEF Block
<1>7. t \in FreeListState
  BY <1>5, <1>6 DEF SetEntry, FreeListState
<1>8. \A n \in DataBlocks : t.disk[n] = IF n = h THEN blk ELSE s.disk[n]
  BY <1>2, <1>5
<1> QED BY <1>4, <1>5, <1>7, <1>8

\* Writing an entry of the head keeps the list well formed, if what is written
\* is not a block on the list already.
LEMMA SetEntryKeepsShape ==
  ASSUME NEW s, WellFormed(s), s.free_head # Null,
         NEW i \in EntrySlot, NEW w \in DataBlocks \cup {Empty, Null},
         w \notin FreeBlocks(s)
  PROVE  LET t == SetEntry(s, i, w)
         IN  WellFormed(t) /\ Nodes(t) = Nodes(s)
<1> DEFINE h == s.free_head
           t == SetEntry(s, i, w)
           N == Nodes(s)
<1>0. s \in FreeListState /\ h \in DataBlocks /\ h \in N /\ N \subseteq DataBlocks
  BY HeadIsFree, NodesAreData DEF WellFormed
<1>1. w \in Int
  BY DataBlocksPositive DEF Empty, Null
<1>2. EntrySlot \subseteq Slot /\ 0 \in Slot /\ 0 \notin EntrySlot
  BY GeometryAssumption DEF EntrySlot, Slot
<1>3. /\ t \in FreeListState
      /\ t.free_head = h
      /\ \A n \in DataBlocks, j \in Slot :
           t.disk[n][j] = IF n = h /\ j = i THEN w ELSE s.disk[n][j]
  BY <1>0, <1>1, SetEntryEffect
<1>4. \A n \in N : Link(t, n) = Link(s, n)
  BY <1>0, <1>2, <1>3 DEF Link
<1>5. Nodes(t) = N /\ LinkClosed(t, Nodes(t))
  BY <1>3, <1>4, SameLinksSameNodes DEF WellFormed
<1>6. \A n \in N, j \in EntrySlot :
        t.disk[n][j] = IF n = h /\ j = i THEN w ELSE s.disk[n][j]
  BY <1>0, <1>2, <1>3
<1>7. \A n \in N, j \in EntrySlot : t.disk[n][j] \in DataBlocks \cup {Empty, Null}
  BY <1>6 DEF WellFormed
<1>8. LinksFormChain(t)
  BY <1>3, <1>4, <1>5 DEF WellFormed, LinksFormChain
<1>9. EachListedOnce(t)
  <2>1. w \notin N /\ \A n \in N, j \in EntrySlot : Named(w) => s.disk[n][j] # w
    BY InFreeBlocks
  <2>2. EachListedOnce(s)
    BY DEF WellFormed
  <2>3. ASSUME NEW n \in N, NEW j \in EntrySlot, Named(t.disk[n][j])
        PROVE  t.disk[n][j] \notin N
    BY <1>6, <2>1, <2>2, <2>3 DEF EachListedOnce
  <2>4. ASSUME NEW n \in N, NEW j \in EntrySlot, Named(t.disk[n][j]),
               NEW m \in N, NEW k \in EntrySlot, t.disk[m][k] = t.disk[n][j]
        PROVE  m = n /\ k = j
    <3>1. CASE n = h /\ j = i
      BY <1>6, <2>1, <2>4, <3>1
    <3>2. CASE m = h /\ k = i
      BY <1>6, <2>1, <2>4, <3>2
    <3>3. CASE ~ (n = h /\ j = i) /\ ~ (m = h /\ k = i)
      <4>1. t.disk[n][j] = s.disk[n][j] /\ t.disk[m][k] = s.disk[m][k]
        BY <1>6, <3>3
      <4> QED BY <2>2, <2>4, <4>1 DEF EachListedOnce
    <3> QED BY <3>1, <3>2, <3>3
  <2> QED BY <1>5, <2>3, <2>4, Zenon DEF EachListedOnce
<1> QED BY <1>3, <1>5, <1>7, <1>8, <1>9 DEF WellFormed

\* Zeroing an entry takes the block it names off the list; a filler names none.
LEMMA TakeEntryContract ==
  ASSUME NEW s, WellFormed(s), s.free_head # Null, FilledEntries(s) # {}
  PROVE  LET r == TakeEntry(s)
         IN  /\ WellFormed(r.fs)
             /\ \/ r.ret = Null /\ FreeBlocks(r.fs) = FreeBlocks(s)
                \/ /\ r.ret \in FreeBlocks(s)
                   /\ FreeBlocks(r.fs) = FreeBlocks(s) \ {r.ret}
             /\ \A b \in DataBlocks \ FreeBlocks(s) : r.fs.disk[b] = s.disk[b]
<1> DEFINE h == s.free_head
           i == Least(FilledEntries(s))
           t == SetEntry(s, i, Empty)
           v == s.disk[h][i]
           N == Nodes(s)
<1>0. s \in FreeListState /\ h \in DataBlocks /\ h \in N /\ N \subseteq DataBlocks
  BY HeadIsFree, NodesAreData DEF WellFormed
<1>1. i \in EntrySlot /\ v # Empty
  BY LeastIsMember DEF FilledEntries, HeadNode
<1>2. v \in DataBlocks \cup {Null}
  BY <1>0, <1>1 DEF WellFormed
<1>3. Empty \notin FreeBlocks(s)
  BY FreeBlocksAreData, DataBlocksPositive
<1>4. WellFormed(t) /\ Nodes(t) = N
  BY <1>1, <1>3, SetEntryKeepsShape
<1>5. EntrySlot \subseteq Slot /\ Empty \in Int
  BY DEF EntrySlot, Slot, Empty
<1>6. /\ \A n \in DataBlocks, j \in Slot :
           t.disk[n][j] = IF n = h /\ j = i THEN Empty ELSE s.disk[n][j]
      /\ \A b \in DataBlocks \ {h} : t.disk[b] = s.disk[b]
  BY <1>0, <1>1, <1>5, SetEntryEffect
<1>7. \A n \in N, j \in EntrySlot :
        t.disk[n][j] = IF n = h /\ j = i THEN Empty ELSE s.disk[n][j]
  BY <1>0, <1>5, <1>6
<1>8. TakeEntry(s).ret = v /\ TakeEntry(s).fs = t
  BY DEF TakeEntry, HeadNode
<1>9. \A b : b \in FreeBlocks(t) <=> b \in FreeBlocks(s) /\ b # v
  <2>1. ASSUME NEW b, b \in FreeBlocks(t) PROVE b \in FreeBlocks(s)
    BY <1>4, <1>7, <2>1, InFreeBlocks DEF Named
  <2>2. ASSUME NEW b, b \in FreeBlocks(s), b # v PROVE b \in FreeBlocks(t)
    BY <1>4, <1>7, <2>2, InFreeBlocks
  <2>3. v \notin FreeBlocks(t)
    <3>1. CASE v = Null
      BY <1>4, <3>1, FreeBlocksAreData, DataBlocksPositive
    <3>2. CASE Named(v)
      <4>1. v \notin N /\ \A n \in N, j \in EntrySlot : s.disk[n][j] = v => n = h /\ j = i
        BY <1>0, <1>1, <3>2 DEF WellFormed, EachListedOnce
      <4> QED BY <1>1, <1>4, <1>7, <4>1, InFreeBlocks
    <3> QED BY <1>1, <3>1, <3>2 DEF Named
  <2> QED BY <2>1, <2>2, <2>3
<1>10. v = Null => FreeBlocks(t) = FreeBlocks(s)
  BY <1>9, FreeBlocksAreData, DataBlocksPositive
<1>11. v # Null => v \in FreeBlocks(s) /\ FreeBlocks(t) = FreeBlocks(s) \ {v}
  BY <1>0, <1>1, <1>9, InFreeBlocks DEF Named
<1>12. \A b \in DataBlocks \ FreeBlocks(s) : t.disk[b] = s.disk[b]
  BY <1>0, <1>6, InFreeBlocks
<1> QED BY <1>4, <1>8, <1>10, <1>11, <1>12

\* With no entry left the head itself goes, and the rest of the list stays.
LEMMA TakeHeadContract ==
  ASSUME NEW s, WellFormed(s), s.free_head # Null, FilledEntries(s) = {}
  PROVE  LET r == TakeHead(s)
         IN  /\ WellFormed(r.fs)
             /\ r.ret \in FreeBlocks(s)
             /\ FreeBlocks(r.fs) = FreeBlocks(s) \ {r.ret}
             /\ r.fs.disk = s.disk
<1> DEFINE h == s.free_head
           t == TakeHead(s).fs
           N == Nodes(s)
<1>0. s \in FreeListState /\ h \in DataBlocks /\ h \in N /\ N \subseteq DataBlocks
  BY HeadIsFree, NodesAreData DEF WellFormed
<1>1. Link(s, h) \in DataBlocks \cup {Null}
  BY <1>0 DEF WellFormed, LinksFormChain
<1>2. t.free_head = Link(s, h) /\ t.disk = s.disk /\ t \in FreeListState
  BY <1>0, <1>1 DEF TakeHead, HeadNode, Link, FreeListState
<1>3. Nodes(t) = N \ {h} /\ LinkClosed(t, Nodes(t))
  BY <1>2, NodesAfterPop
<1>4. \A n : Link(t, n) = Link(s, n)
  BY <1>2 DEF Link
<1>5. LinksFormChain(t)
  <2>1. LinksFormChain(s)
    BY DEF WellFormed
  <2>2. \A n \in N \ {h} : Link(s, n) \in (N \ {h}) \cup {Null}
    BY <2>1 DEF LinksFormChain
  <2>3. \A n \in N \ {h} : Link(s, n) # Link(s, h)
    BY <1>0, <2>1 DEF LinksFormChain
  <2>4. N \ {h} # {} => \E n \in N \ {h} : Link(s, n) = Null
    <3>1. CASE Link(s, h) = Null
      <4>1. LinkClosed(t, {})
        BY <1>2, <3>1 DEF LinkClosed
      <4> QED BY <1>3, <4>1, NodesAreLeast
    <3>2. CASE Link(s, h) # Null
      BY <1>0, <2>1, <3>2 DEF LinksFormChain
    <3> QED BY <3>1, <3>2
  <2> QED BY <1>2, <1>3, <1>4, <2>1, <2>2, <2>3, <2>4 DEF LinksFormChain
<1>6. EachListedOnce(t)
  BY <1>2, <1>3 DEF WellFormed, EachListedOnce
<1>7. WellFormed(t)
  BY <1>2, <1>3, <1>5, <1>6 DEF WellFormed
<1>8. \A j \in EntrySlot : s.disk[h][j] = Empty
  BY DEF FilledEntries, HeadNode
<1>9. \A b : b \in FreeBlocks(t) <=> b \in FreeBlocks(s) /\ b # h
  <2>1. h \notin FreeBlocks(t)
    <3>1. \A n \in N, j \in EntrySlot : Named(s.disk[n][j]) => s.disk[n][j] # h
      BY <1>0 DEF WellFormed, EachListedOnce
    <3> QED BY <1>2, <1>3, <3>1, InFreeBlocks
  <2> QED BY <1>2, <1>3, <1>8, <2>1, InFreeBlocks DEF Named
<1>10. TakeHead(s).ret = h
  BY DEF TakeHead
<1> QED BY <1>0, <1>2, <1>7, <1>9, <1>10, InFreeBlocks

\* alloc_block: what it returns is -1 or a free block, and the free blocks are
\* the ones before without it; no other block's contents change.
LEMMA AllocContract ==
  ASSUME NEW s, WellFormed(s)
  PROVE  LET r == AllocBlock(s)
         IN  /\ WellFormed(r.fs)
             /\ \/ r.ret = Null /\ FreeBlocks(r.fs) = FreeBlocks(s)
                \/ /\ r.ret \in FreeBlocks(s)
                   /\ FreeBlocks(r.fs) = FreeBlocks(s) \ {r.ret}
             /\ \A b \in DataBlocks \ FreeBlocks(s) : r.fs.disk[b] = s.disk[b]
<1>1. CASE s.free_head = Null
  BY <1>1 DEF AllocBlock, Null
<1>2. CASE s.free_head # Null /\ FilledEntries(s) # {}
  BY <1>2, TakeEntryContract DEF AllocBlock
<1>3. CASE s.free_head # Null /\ FilledEntries(s) = {}
  BY <1>3, TakeHeadContract DEF AllocBlock
<1> QED BY <1>1, <1>2, <1>3

\* The lower half of a word is in the range of an int, and all there is of -1 and
\* of the numbers of blocks.
LEMMA AsIntFacts ==
  /\ \A w \in Int : AsInt(w) \in Int
  /\ \A w \in DataBlocks \cup {0, -1} : AsInt(w) = w
<1>1. PARTITION_SIZE \in Nat /\ PARTITION_SIZE > 0 /\ INT_VALUES = PARTITION_SIZE + 1
  BY GeometryAssumption DEF INT_VALUES
<1>2. ASSUME NEW w \in Int PROVE w % INT_VALUES \in Int /\ AsInt(w) \in Int
  BY <1>1 DEF AsInt
<1>3. ASSUME NEW w \in 0 .. PARTITION_SIZE - 1 PROVE AsInt(w) = w
  <2>1. w % INT_VALUES = w /\ w # INT_VALUES - 1
    BY <1>1
  <2> QED BY <2>1 DEF AsInt
<1>4. AsInt(-1) = -1
  <2>1. (-1) % INT_VALUES = INT_VALUES - 1
    BY <1>1
  <2> QED BY <2>1 DEF AsInt
<1>5. DataBlocks \cup {0} \subseteq 0 .. PARTITION_SIZE - 1
  BY <1>1, GeometryAssumption DEF DataBlocks, FirstData
<1> QED BY <1>2, <1>3, <1>4, <1>5

\* On a well-formed list the int is all of what alloc_block returns.
LEMMA AllocIntContract ==
  ASSUME NEW s, WellFormed(s)
  PROVE  LET r == AllocInt(s)
         IN  /\ WellFormed(r.fs)
             /\ \/ r.ret = Null /\ FreeBlocks(r.fs) = FreeBlocks(s)
                \/ /\ r.ret \in FreeBlocks(s)
                   /\ FreeBlocks(r.fs) = FreeBlocks(s) \ {r.ret}
             /\ \A b \in DataBlocks \ FreeBlocks(s) : r.fs.disk[b] = s.disk[b]
<1> DEFINE q == AllocBlock(s)
<1>1. q.ret \in DataBlocks \cup {0, -1}
  BY AllocContract, FreeBlocksAreData DEF Null
<1>2. AllocInt(s).fs = q.fs /\ AllocInt(s).ret = q.ret
  BY <1>1, AsIntFacts DEF AllocInt
<1> HIDE DEF q
<1> QED BY <1>2, AllocContract DEF q

\* A block that is not on the list fills a zeroed entry.
LEMMA PutEntryContract ==
  ASSUME NEW s, WellFormed(s), s.free_head # Null, EmptyEntries(s) # {},
         NEW b \in DataBlocks \ FreeBlocks(s)
  PROVE  LET t == PutEntry(s, b).fs
         IN  /\ WellFormed(t)
             /\ FreeBlocks(t) = FreeBlocks(s) \cup {b}
             /\ \A d \in DataBlocks \ FreeBlocks(s) : t.disk[d] = s.disk[d]
<1> DEFINE h == s.free_head
           i == Least(EmptyEntries(s))
           t == SetEntry(s, i, b)
           N == Nodes(s)
<1>0. s \in FreeListState /\ h \in DataBlocks /\ h \in N /\ N \subseteq DataBlocks
  BY HeadIsFree, NodesAreData DEF WellFormed
<1>1. i \in EntrySlot /\ s.disk[h][i] = Empty
  BY LeastIsMember DEF EmptyEntries, HeadNode
<1>2. WellFormed(t) /\ Nodes(t) = N
  BY <1>1, SetEntryKeepsShape
<1>3. EntrySlot \subseteq Slot /\ b \in Int /\ Named(b)
  BY DataBlocksPositive DEF EntrySlot, Slot, Named
<1>4. /\ \A n \in DataBlocks, j \in Slot :
           t.disk[n][j] = IF n = h /\ j = i THEN b ELSE s.disk[n][j]
      /\ \A d \in DataBlocks \ {h} : t.disk[d] = s.disk[d]
  BY <1>0, <1>1, <1>3, SetEntryEffect
<1>5. \A n \in N, j \in EntrySlot :
        t.disk[n][j] = IF n = h /\ j = i THEN b ELSE s.disk[n][j]
  BY <1>0, <1>3, <1>4
<1>6. \A d : d \in FreeBlocks(t) <=> d \in FreeBlocks(s) \/ d = b
  <2>1. ASSUME NEW d, d \in FreeBlocks(t) PROVE d \in FreeBlocks(s) \/ d = b
    BY <1>2, <1>5, <2>1, InFreeBlocks
  <2>2. b \in FreeBlocks(t)
    BY <1>0, <1>1, <1>2, <1>3, <1>5, InFreeBlocks
  <2>3. ASSUME NEW d, d \in FreeBlocks(s) PROVE d \in FreeBlocks(t)
    BY <1>1, <1>2, <1>5, <2>3, InFreeBlocks DEF Named
  <2> QED BY <2>1, <2>2, <2>3
<1>7. \A d \in DataBlocks \ FreeBlocks(s) : t.disk[d] = s.disk[d]
  BY <1>0, <1>4, InFreeBlocks
<1> QED BY <1>2, <1>6, <1>7 DEF PutEntry

\* With no zeroed entry, a block that is not on the list becomes its head.
LEMMA PutHeadContract ==
  ASSUME NEW s, WellFormed(s), s.free_head # Null,
         NEW b \in DataBlocks \ FreeBlocks(s)
  PROVE  LET t == PutHead(s, b).fs
         IN  /\ WellFormed(t)
             /\ FreeBlocks(t) = FreeBlocks(s) \cup {b}
             /\ \A d \in DataBlocks \ {b} : t.disk[d] = s.disk[d]
<1> DEFINE h == s.free_head
           blk == [ZeroBlock EXCEPT ![0] = h]
           t == PutHead(s, b).fs
           N == Nodes(s)
<1>0. s \in FreeListState /\ h \in DataBlocks /\ h \in N /\ N \subseteq DataBlocks
  BY HeadIsFree, NodesAreData DEF WellFormed
<1>1. b \in DataBlocks /\ b \notin N /\ b # h
  BY <1>0, InFreeBlocks
<1>2. EntrySlot \subseteq Slot /\ 0 \in Slot /\ 0 \notin EntrySlot /\ h \in Int
  <2>1. EntrySlot \subseteq Slot /\ 0 \in Slot /\ 0 \notin EntrySlot
    BY GeometryAssumption DEF EntrySlot, Slot
  <2>2. h \in Nat
    BY <1>0, DataBlocksPositive, Zenon
  <2> QED BY <2>1, <2>2
<1>3. /\ blk \in [Slot -> Int]
      /\ blk[0] = h
      /\ \A j \in EntrySlot : blk[j] = Empty
  BY <1>2 DEF ZeroBlock, Empty
<1>4. t.free_head = b /\ t.disk = [s.disk EXCEPT ![b] = blk]
  BY DEF PutHead
<1>5. s.disk \in [DataBlocks -> Block]
  BY <1>0 DEF FreeListState
<1>6. t \in FreeListState
  <2>1. [s.disk EXCEPT ![b] = blk] \in [DataBlocks -> Block]
    BY <1>3, <1>5 DEF Block
  <2> QED BY <1>1, <2>1 DEF PutHead, FreeListState
<1>7. \A d \in DataBlocks : t.disk[d] = IF d = b THEN blk ELSE s.disk[d]
  BY <1>4, <1>5
<1>8. Link(t, b) = h /\ \A n \in N : Link(t, n) = Link(s, n)
  BY <1>0, <1>1, <1>3, <1>7 DEF Link
<1>9. Nodes(t) = N \cup {b} /\ LinkClosed(t, Nodes(t))
  BY <1>1, <1>4, <1>8, NodesAfterPush
<1>10. \A n \in N \cup {b}, j \in EntrySlot :
         t.disk[n][j] = IF n = b THEN Empty ELSE s.disk[n][j]
  BY <1>0, <1>3, <1>7
<1>11. LinksFormChain(t)
  <2>1. LinksFormChain(s)
    BY DEF WellFormed
  <2>2. \A n \in N \cup {b} : Link(t, n) \in N \cup {b} \cup {Null}
    BY <1>0, <1>8, <2>1 DEF LinksFormChain
  <2>3. \A n \in N \cup {b} : Link(t, n) # b
    BY <1>1, <1>8, <2>1, DataBlocksPositive DEF LinksFormChain
  <2>4. \A n, m \in N \cup {b} : Link(t, n) = Link(t, m) => n = m
    BY <1>8, <2>1 DEF LinksFormChain
  <2>5. \E n \in N \cup {b} : Link(t, n) = Null
    BY <1>0, <1>8, <2>1 DEF LinksFormChain
  <2> QED BY <1>4, <1>9, <2>2, <2>3, <2>4, <2>5, Zenon DEF LinksFormChain
<1>12. EachListedOnce(t)
  <2>1. \A n \in N, j \in EntrySlot : Named(s.disk[n][j]) => s.disk[n][j] # b
    BY InFreeBlocks
  <2>2. ~ Named(Empty)
    BY DEF Named
  <2>3. EachListedOnce(s)
    BY DEF WellFormed
  <2>4. ASSUME NEW n \in N \cup {b}, NEW j \in EntrySlot, Named(t.disk[n][j])
        PROVE  /\ n \in N /\ t.disk[n][j] = s.disk[n][j]
               /\ t.disk[n][j] \notin N \cup {b}
    BY <1>10, <2>1, <2>2, <2>3, <2>4 DEF EachListedOnce
  <2>5. ASSUME NEW n \in N \cup {b}, NEW j \in EntrySlot, Named(t.disk[n][j]),
               NEW m \in N \cup {b}, NEW k \in EntrySlot, t.disk[m][k] = t.disk[n][j]
        PROVE  m = n /\ k = j
    <3>1. /\ n \in N /\ t.disk[n][j] = s.disk[n][j]
          /\ m \in N /\ t.disk[m][k] = s.disk[m][k]
      BY <2>4, <2>5
    <3> QED BY <2>3, <2>5, <3>1 DEF EachListedOnce
  <2>6. \A n \in Nodes(t), j \in EntrySlot :
          Named(t.disk[n][j]) => t.disk[n][j] \notin Nodes(t)
    BY <1>9, <2>4
  <2>7. \A n \in Nodes(t), j \in EntrySlot : Named(t.disk[n][j]) =>
          \A m \in Nodes(t), k \in EntrySlot :
            t.disk[m][k] = t.disk[n][j] => m = n /\ k = j
    BY <1>9, <2>5
  <2> QED BY <2>6, <2>7, Zenon DEF EachListedOnce
<1>13. \A n \in N \cup {b}, j \in EntrySlot :
         t.disk[n][j] \in DataBlocks \cup {Empty, Null}
  BY <1>10 DEF WellFormed
<1>14. WellFormed(t)
  BY <1>6, <1>9, <1>11, <1>12, <1>13 DEF WellFormed
<1>15. \A d : d \in FreeBlocks(t) <=> d \in FreeBlocks(s) \/ d = b
  <2>1. ASSUME NEW d, d \in FreeBlocks(t) PROVE d \in FreeBlocks(s) \/ d = b
    BY <1>9, <1>10, <2>1, InFreeBlocks DEF Named
  <2>2. ASSUME NEW d, d \in FreeBlocks(s) PROVE d \in FreeBlocks(t)
    BY <1>1, <1>9, <1>10, <2>2, InFreeBlocks
  <2>3. b \in FreeBlocks(t)
    BY <1>9, InFreeBlocks
  <2> QED BY <2>1, <2>2, <2>3
<1> QED BY <1>7, <1>14, <1>15

\* A list without a head has no free block.
LEMMA NoHeadNoneFree ==
  ASSUME NEW s, WellFormed(s), s.free_head = Null
  PROVE  FreeBlocks(s) = {}
<1>1. LinkClosed(s, {})
  BY DEF LinkClosed
<1>2. Nodes(s) = {}
  BY <1>1, NodesAreLeast
<1>3. \A b : b \notin FreeBlocks(s)
  BY <1>2, InFreeBlocks
<1> QED BY <1>3

\* free_block of a block that is not on the list: it is refused and nothing
\* changes, because the list is empty, or the block joins the free ones and no
\* other block's contents change unless it is on the list.
LEMMA FreeContract ==
  ASSUME NEW s, WellFormed(s), NEW b \in DataBlocks \ FreeBlocks(s)
  PROVE  LET r == FreeBlock(s, b)
         IN  \/ r.ret = -1 /\ r.fs = s /\ FreeBlocks(s) = {}
             \/ /\ r.ret = 0
                /\ WellFormed(r.fs)
                /\ FreeBlocks(s) # {}
                /\ FreeBlocks(r.fs) = FreeBlocks(s) \cup {b}
                /\ \A d \in DataBlocks \ (FreeBlocks(s) \cup {b}) :
                     r.fs.disk[d] = s.disk[d]
<1>0. b # 0
  BY DataBlocksPositive DEF Empty
<1>1. CASE s.free_head = Null
  BY <1>0, <1>1, NoHeadNoneFree DEF FreeBlock
<1>2. CASE s.free_head # Null /\ EmptyEntries(s) # {}
  <2>1. FreeBlock(s, b) = PutEntry(s, b) /\ PutEntry(s, b).ret = 0
    BY <1>0, <1>2 DEF FreeBlock, PutEntry
  <2> QED BY <1>2, <2>1, PutEntryContract, HeadIsFree, InFreeBlocks
<1>3. CASE s.free_head # Null /\ EmptyEntries(s) = {}
  <2>1. FreeBlock(s, b) = PutHead(s, b) /\ PutHead(s, b).ret = 0
    BY <1>0, <1>3 DEF FreeBlock, PutHead
  <2> QED BY <1>3, <2>1, PutHeadContract, HeadIsFree, InFreeBlocks
<1> QED BY <1>1, <1>2, <1>3

\* What is written into a block that is not on the list does not matter to it.
LEMMA WriteContract ==
  ASSUME NEW s, WellFormed(s), NEW b \in DataBlocks \ FreeBlocks(s),
         NEW c \in Block
  PROVE  LET t == [s EXCEPT !.disk[b] = c]
         IN  WellFormed(t) /\ FreeBlocks(t) = FreeBlocks(s)
<1> DEFINE t == [s EXCEPT !.disk[b] = c]
           N == Nodes(s)
<1>1. b \notin N /\ N \subseteq DataBlocks /\ s \in FreeListState
  BY InFreeBlocks, NodesAreData DEF WellFormed
<1>2. t.free_head = s.free_head /\ t.disk = [s.disk EXCEPT ![b] = c]
  BY <1>1 DEF FreeListState
<1>3. t \in FreeListState
  <2>1. [s.disk EXCEPT ![b] = c] \in [DataBlocks -> Block]
    BY <1>1 DEF FreeListState
  <2> QED BY <1>1, <1>2, <2>1 DEF FreeListState
<1>4. \A n \in N : t.disk[n] = s.disk[n]
  BY <1>1, <1>2 DEF FreeListState
<1> HIDE DEF t
<1>5. Nodes(t) = N /\ LinkClosed(t, Nodes(t))
  BY <1>2, <1>4, SameLinksSameNodes DEF WellFormed, Link
<1>6. LinksFormChain(t)
  BY <1>2, <1>4, <1>5 DEF WellFormed, LinksFormChain, Link
<1>7. EachListedOnce(t)
  BY <1>4, <1>5 DEF WellFormed, EachListedOnce
<1>8. WellFormed(t)
  BY <1>3, <1>4, <1>5, <1>6, <1>7 DEF WellFormed
<1>9. \A d : d \in FreeBlocks(t) <=> d \in FreeBlocks(s)
  BY <1>4, <1>5, InFreeBlocks
<1> QED BY <1>8, <1>9 DEF t

-----------------------------------------------------------------------------
(* A list cut short *)

\* The last node of a list is the only one that links to nothing.
LEMMA LastNodeIsUnique ==
  ASSUME NEW s, LinkClosed(s, Nodes(s)),
         NEW n \in Nodes(s), NEW m \in Nodes(s),
         Link(s, n) = Null, Link(s, m) = Null
  PROVE  n = m
<1> DEFINE N == Nodes(s)
           Onward(R) == \A x \in R : Link(s, x) # Null => Link(s, x) \in R
           \* The nodes from which m is reached.
           A == {x \in N : \A R \in SUBSET N : x \in R /\ Onward(R) => m \in R}
<1>1. Onward(N) /\ (s.free_head # Null => s.free_head \in N) /\ N \subseteq DataBlocks
  BY NodesAreData DEF LinkClosed
<1>2. ASSUME s.free_head # Null PROVE s.free_head \in A
  <2> SUFFICES ASSUME NEW R \in SUBSET N, s.free_head \in R, Onward(R) PROVE m \in R
    BY <1>1, <1>2
  <2>1. LinkClosed(s, R)
    BY DEF LinkClosed
  <2> QED BY <1>1, <2>1, NodesAreLeast
<1>3. ASSUME NEW x \in A, Link(s, x) # Null PROVE Link(s, x) \in A
  <2>1. Link(s, x) \in N
    BY <1>1, <1>3
  <2>2. ASSUME NEW R \in SUBSET N, Link(s, x) \in R, Onward(R) PROVE m \in R
    <3>1. x \in R \cup {x} /\ Onward(R \cup {x}) /\ R \cup {x} \in SUBSET N
      BY <2>2
    <3>2. m \in R \cup {x}
      BY <3>1
    <3> QED BY <1>3, <3>2
  <2> QED BY <2>1, <2>2
<1>4. LinkClosed(s, A)
  BY <1>2, <1>3 DEF LinkClosed
<1>5. n \in A
  BY <1>1, <1>4, NodesAreLeast
<1>6. {n} \in SUBSET N /\ n \in {n} /\ Onward({n})
  OBVIOUS
<1> QED BY <1>5, <1>6

\* What t may differ in from the list s: links lost, and entries that give no
\* block in either.
Cut(s, t) ==
  /\ t \in FreeListState
  /\ t.free_head = s.free_head
  /\ \A n \in Nodes(s) :
       /\ Link(t, n) \in {Link(s, n), Null}
       /\ \A i \in EntrySlot :
            \/ t.disk[n][i] = s.disk[n][i]
            \/ {t.disk[n][i], s.disk[n][i]} \subseteq {Empty, Null}

\* A list cut short is one, of fewer blocks.
LEMMA CutContract ==
  ASSUME NEW s, WellFormed(s), NEW t, Cut(s, t)
  PROVE  WellFormed(t) /\ FreeBlocks(t) \subseteq FreeBlocks(s)
<1> DEFINE N == Nodes(s)
           M == Nodes(t)
<1>1. N \subseteq DataBlocks /\ LinkClosed(s, N)
  BY NodesAreData DEF WellFormed
<1>2. LinkClosed(t, N)
  BY <1>1 DEF LinkClosed, Cut
<1>3. M \subseteq N /\ LinkClosed(t, M)
  BY <1>1, <1>2, NodesAreLeast, NodesAreClosed
<1>4. \A n \in M : Link(t, n) \in {Link(s, n), Null}
  BY <1>3 DEF Cut
<1>5. \A n \in M, i \in EntrySlot :
        Named(t.disk[n][i]) => t.disk[n][i] = s.disk[n][i]
  BY <1>3 DEF Cut, Named
<1>6. ASSUME NEW n \in M, NEW i \in EntrySlot
      PROVE  t.disk[n][i] \in DataBlocks \cup {Empty, Null}
  BY <1>3 DEF Cut, WellFormed
<1>7. LinksFormChain(t)
  <2>1. LinksFormChain(s)
    BY DEF WellFormed
  <2>2. \A n \in M : Link(t, n) \in M \cup {Null}
    BY <1>3 DEF LinkClosed
  <2>3. M # {} => t.free_head # Null
    <3>1. t.free_head = Null => LinkClosed(t, {})
      BY DEF LinkClosed
    <3> QED BY <3>1, NodesAreLeast
  <2>4. \A n \in M : Link(t, n) # t.free_head
    BY <1>3, <1>4, <2>1, <2>3 DEF LinksFormChain, Cut
  <2>5. ASSUME NEW n \in M, NEW m \in M, Link(t, n) = Link(t, m) PROVE n = m
    <3>1. CASE Link(t, n) = Null
      BY <1>3, <2>5, <3>1, LastNodeIsUnique
    <3>2. CASE Link(t, n) # Null
      BY <1>3, <1>4, <2>1, <2>5, <3>2 DEF LinksFormChain
    <3> QED BY <3>1, <3>2
  <2>6. ASSUME M # {} PROVE \E n \in M : Link(t, n) = Null
    <3> SUFFICES ASSUME \A n \in M : Link(t, n) # Null PROVE FALSE
      OBVIOUS
    <3>1. \A n \in M : Link(t, n) = Link(s, n)
      BY <1>4
    <3>2. LinkClosed(s, M)
      BY <1>3, <3>1 DEF LinkClosed, Cut
    <3>3. M = N
      BY <1>1, <1>3, <3>2, NodesAreLeast
    <3>4. PICK n \in M : Link(s, n) = Null
      BY <2>1, <2>6, <3>3 DEF LinksFormChain
    <3> QED BY <3>1, <3>4
  <2> HIDE DEF M
  <2>7. /\ \A n \in M : Link(t, n) \in M \cup {Null}
        /\ \A n \in M : Link(t, n) # t.free_head
        /\ \A n, m \in M : Link(t, n) = Link(t, m) => n = m
        /\ M # {} => \E n \in M : Link(t, n) = Null
    BY <2>2, <2>4, <2>5, <2>6
  <2> QED BY <2>7, Zenon DEF LinksFormChain, M
<1>8. EachListedOnce(t)
  <2>1. EachListedOnce(s)
    BY DEF WellFormed
  <2>2. ASSUME NEW n \in M, NEW i \in EntrySlot, Named(t.disk[n][i])
        PROVE  t.disk[n][i] \notin M
    BY <1>3, <1>5, <2>1, <2>2 DEF EachListedOnce
  <2>3. ASSUME NEW n \in M, NEW i \in EntrySlot, Named(t.disk[n][i]),
               NEW m \in M, NEW j \in EntrySlot, t.disk[m][j] = t.disk[n][i]
        PROVE  m = n /\ j = i
    <3>1. t.disk[n][i] = s.disk[n][i] /\ t.disk[m][j] = s.disk[m][j]
      BY <1>5, <2>3
    <3> QED BY <1>3, <2>1, <2>3, <3>1 DEF EachListedOnce
  <2> QED BY <2>2, <2>3, Zenon DEF EachListedOnce
<1>9. WellFormed(t)
  BY <1>3, <1>6, <1>7, <1>8 DEF WellFormed, Cut
<1>10. ASSUME NEW b, b \in FreeBlocks(t) PROVE b \in FreeBlocks(s)
  BY <1>3, <1>5, <1>10, InFreeBlocks
<1> QED BY <1>9, <1>10

-----------------------------------------------------------------------------
(* init_fs *)

\* A product with a natural factor grows with the other factor.
LEMMA ProductMonotonic ==
  ASSUME NEW k \in Nat, NEW l \in Nat, k <= l, NEW m \in Nat
  PROVE  k * m <= l * m /\ (k < l => k * m + m <= l * m)
<1>1. PICK d \in Nat : l = k + d
  <2>1. l - k \in Nat /\ l = k + (l - k)
    OBVIOUS
  <2> QED BY <2>1
<1>2. l * m = k * m + d * m
  BY <1>1
<1>3. d * m \in Nat /\ k * m \in Nat
  BY <1>1
<1>4. ASSUME k < l PROVE d * m >= m
  <2>1. PICK e \in Nat : d = e + 1
    <3>1. d - 1 \in Nat /\ d = (d - 1) + 1
      BY <1>1, <1>4
    <3> QED BY <3>1
  <2>2. d * m = e * m + m /\ e * m \in Nat
    BY <2>1
  <2> QED BY <2>2
<1> QED BY <1>2, <1>3, <1>4

\* The addresses of two nodes' words agree only for the same word of the same
\* node: nodes are SLOTS + 1 apart and have SLOTS words.
LEMMA WordsDisjoint ==
  ASSUME NEW k \in Nat, NEW l \in Nat, NEW i \in Slot, NEW j \in Slot,
         NodeAddr(k) + i = NodeAddr(l) + j
  PROVE  k = l /\ i = j
<1>1. SLOTS + 1 \in Nat /\ FirstData \in Nat
  BY GeometryAssumption DEF FirstData
<1>2. i \in Nat /\ j \in Nat /\ i < SLOTS + 1 /\ j < SLOTS + 1
  BY GeometryAssumption DEF Slot
<1>3. k * (SLOTS + 1) \in Nat /\ l * (SLOTS + 1) \in Nat
  BY <1>1
<1>4. k * (SLOTS + 1) + i = l * (SLOTS + 1) + j
  BY <1>1, <1>2, <1>3 DEF NodeAddr
<1>5. ~ (k < l)
  BY <1>1, <1>2, <1>3, <1>4, ProductMonotonic
<1>6. ~ (l < k)
  BY <1>1, <1>2, <1>3, <1>4, ProductMonotonic
<1>7. k = l
  BY <1>5, <1>6
<1> QED BY <1>2, <1>3, <1>4, <1>7

\* init_fs's loop ends, having written at least one node.
LEMMA NodeCountExists ==
  /\ NodeCount \in Nat \ {0}
  /\ Iterates(NodeCount - 1)
  /\ ~ Iterates(NodeCount)
<1>1. Iterates(0)
  BY GeometryAssumption DEF Iterates, NodeAddr, FirstData
<1>2. ~ Iterates(D_BLOCK_SIZE)
  <2>1. D_BLOCK_SIZE * 1 <= D_BLOCK_SIZE * SLOTS
    <3>1. 1 * D_BLOCK_SIZE <= SLOTS * D_BLOCK_SIZE
      BY GeometryAssumption, ProductMonotonic
    <3> QED BY <3>1, GeometryAssumption
  <2> QED BY <2>1, GeometryAssumption DEF Iterates
<1> DEFINE T == {n \in Nat : ~ Iterates(n)}
<1>3. PICK n \in T : \A k \in T : n <= k
  <2>1. T \in SUBSET Nat /\ T # {}
    BY <1>2, GeometryAssumption
  <2> QED BY <2>1, LeastExists
<1>4. n \in 1 .. D_BLOCK_SIZE /\ ~ Iterates(n)
  BY <1>1, <1>2, <1>3, GeometryAssumption
<1>5. Iterates(n - 1)
  <2>1. n - 1 \in Nat /\ ~ (n <= n - 1)
    BY <1>4, GeometryAssumption
  <2> QED BY <1>3, <2>1
<1>6. \E m \in 1 .. D_BLOCK_SIZE : Iterates(m - 1) /\ ~ Iterates(m)
  BY <1>4, <1>5
<1>7. NodeCount \in 1 .. D_BLOCK_SIZE /\ Iterates(NodeCount - 1) /\ ~ Iterates(NodeCount)
  BY <1>6 DEF NodeCount
<1> QED BY <1>7, GeometryAssumption

\* The data area filling the rest of the partition is enough for its last node
\* to be linked to nothing.
LEMMA FullPartitionIsLinked ==
  ASSUME I_LIST_SIZE + D_BLOCK_SIZE + 1 = PARTITION_SIZE
  PROVE  LinkedGeometry
<1>1. NodeCount \in Nat /\ ~ Iterates(NodeCount)
  BY NodeCountExists
<1>2. NodeCount * (SLOTS + 1) = NodeCount * SLOTS + NodeCount
      /\ NodeCount * SLOTS \in Nat
  BY <1>1, GeometryAssumption
<1>3. CASE NodeAddr(NodeCount) >= PARTITION_SIZE
  BY <1>3 DEF LinkedGeometry
<1>4. CASE NodeCount * SLOTS >= D_BLOCK_SIZE
  BY <1>1, <1>2, <1>4, GeometryAssumption DEF LinkedGeometry, NodeAddr, FirstData
<1>5. NodeAddr(NodeCount) \in Nat
  BY <1>1, <1>2, GeometryAssumption DEF NodeAddr, FirstData
<1> QED BY <1>1, <1>2, <1>3, <1>4, <1>5, GeometryAssumption DEF Iterates

\* Where the formatting loop of init_fs puts its nodes.
LEMMA NodeAddrFacts ==
  ASSUME NEW k \in 0 .. NodeCount - 1
  PROVE  /\ k \in Nat
         /\ NodeAddr(k) \in DataBlocks
         /\ NodeAddr(k + 1) = NodeAddr(k) + SLOTS + 1
         /\ k + 1 < NodeCount => NodeAddr(k + 1) < PARTITION_SIZE
<1>1. NodeCount \in Nat \ {0} /\ NodeAddr(NodeCount - 1) < PARTITION_SIZE
  BY NodeCountExists DEF Iterates
<1>2. k \in Nat /\ NodeCount - 1 \in Nat /\ k <= NodeCount - 1
  BY <1>1
<1>3. SLOTS + 1 \in Nat /\ FirstData \in Nat /\ PARTITION_SIZE \in Nat
  BY GeometryAssumption DEF FirstData
<1>4. ASSUME NEW l \in Nat PROVE NodeAddr(l) \in Nat /\ NodeAddr(l) >= FirstData
  <2>1. l * (SLOTS + 1) \in Nat
    BY <1>3
  <2> QED BY <1>3, <2>1 DEF NodeAddr
<1>5. ASSUME NEW l \in Nat, l <= NodeCount - 1 PROVE NodeAddr(l) < PARTITION_SIZE
  <2>1. l * (SLOTS + 1) <= (NodeCount - 1) * (SLOTS + 1)
    BY <1>2, <1>3, <1>5, ProductMonotonic
  <2>2. l * (SLOTS + 1) \in Nat /\ (NodeCount - 1) * (SLOTS + 1) \in Nat
    BY <1>2, <1>3
  <2> QED BY <1>1, <1>3, <2>1, <2>2 DEF NodeAddr
<1>6. NodeAddr(k) \in DataBlocks
  BY <1>2, <1>3, <1>4, <1>5 DEF DataBlocks
<1>7. NodeAddr(k + 1) = NodeAddr(k) + SLOTS + 1
  <2>1. (k + 1) * (SLOTS + 1) = k * (SLOTS + 1) + (SLOTS + 1) /\ k * (SLOTS + 1) \in Nat
    BY <1>2, <1>3
  <2> QED BY <1>3, <2>1, GeometryAssumption DEF NodeAddr
<1> QED BY <1>1, <1>2, <1>5, <1>6, <1>7

\* The words of the nodes init_fs writes.
LEMMA FormattedWords ==
  ASSUME LinkedGeometry, NEW k \in 0 .. NodeCount - 1
  PROVE  /\ Link(InitFs, NodeAddr(k)) =
              IF k = NodeCount - 1 THEN Null ELSE NodeAddr(k + 1)
         /\ \A i \in EntrySlot :
              InitFs.disk[NodeAddr(k)][i] = InPartition(NodeAddr(k) + i)
<1>1. NodeCount \in Nat \ {0} /\ NodeAddr(k) \in DataBlocks
  BY NodeCountExists, NodeAddrFacts
<1>2. InitFs.disk[NodeAddr(k)] = FormattedNode(NodeAddr(k))
  BY <1>1, Zenon DEF InitFs
<1>3. EntrySlot \subseteq Slot /\ 0 \in Slot /\ 0 \notin EntrySlot
  BY GeometryAssumption DEF EntrySlot, Slot
<1>4. Link(InitFs, NodeAddr(k)) = InPartition(NodeAddr(k) + SLOTS + 1)
  BY <1>2, <1>3 DEF Link, FormattedNode
<1>5. \A i \in EntrySlot : InitFs.disk[NodeAddr(k)][i] = InPartition(NodeAddr(k) + i)
  BY <1>2, <1>3 DEF FormattedNode
<1>6. NodeAddr(k + 1) = NodeAddr(k) + SLOTS + 1
  BY NodeAddrFacts
<1>7. CASE k = NodeCount - 1
  <2>1. NodeAddr(k + 1) >= PARTITION_SIZE
    BY <1>1, <1>7 DEF LinkedGeometry
  <2>2. NodeAddr(k + 1) \in Int /\ PARTITION_SIZE \in Int
    <3>1. NodeAddr(k) \in Nat
      BY <1>1, DataBlocksPositive, Zenon
    <3> QED BY <1>6, <3>1, GeometryAssumption
  <2> QED BY <1>4, <1>5, <1>6, <1>7, <2>1, <2>2 DEF InPartition
<1>8. CASE k # NodeCount - 1
  <2>1. NodeAddr(k + 1) < PARTITION_SIZE
    BY <1>1, <1>8, NodeAddrFacts
  <2> QED BY <1>4, <1>5, <1>6, <1>8, <2>1 DEF InPartition
<1> QED BY <1>7, <1>8

\* The nodes init_fs writes are the nodes of its list.
LEMMA InitNodes ==
  ASSUME LinkedGeometry
  PROVE  /\ Nodes(InitFs) = {NodeAddr(k) : k \in 0 .. NodeCount - 1}
         /\ LinkClosed(InitFs, Nodes(InitFs))
<1> DEFINE W == {NodeAddr(k) : k \in 0 .. NodeCount - 1}
<1>1. NodeCount \in Nat \ {0}
  BY NodeCountExists
<1>2. InitFs.free_head = FirstData /\ NodeAddr(0) = FirstData /\ FirstData # Null
  <2>1. NodeAddr(0) = FirstData
    BY GeometryAssumption DEF NodeAddr, FirstData
  <2> QED BY <2>1, DataBlocksPositive DEF InitFs
<1>3. W \subseteq DataBlocks
  BY NodeAddrFacts
<1>4. LinkClosed(InitFs, W)
  <2>1. FirstData \in W
    BY <1>1, <1>2
  <2>2. ASSUME NEW k \in 0 .. NodeCount - 1, Link(InitFs, NodeAddr(k)) # Null
        PROVE  Link(InitFs, NodeAddr(k)) \in W
    <3>1. k # NodeCount - 1 /\ Link(InitFs, NodeAddr(k)) = NodeAddr(k + 1)
      BY <2>2, FormattedWords
    <3>2. k + 1 \in 0 .. NodeCount - 1
      BY <1>1, <3>1
    <3> QED BY <3>1, <3>2
  <2> QED BY <1>2, <2>1, <2>2 DEF LinkClosed
<1>5. Nodes(InitFs) \subseteq W /\ LinkClosed(InitFs, Nodes(InitFs))
  BY <1>3, <1>4, NodesAreLeast, NodesAreClosed
<1> DEFINE T == {k \in 0 .. NodeCount - 1 : NodeAddr(k) \notin Nodes(InitFs)}
<1>6. T = {}
  <2> SUFFICES ASSUME T # {} PROVE FALSE
    OBVIOUS
  <2>1. PICK m \in T : \A k \in T : m <= k
    <3>1. T \in SUBSET Nat
      BY <1>1
    <3> QED BY <3>1, LeastExists
  <2>2. m # 0
    BY <1>2, <1>5, <2>1 DEF LinkClosed
  <2>3. m - 1 \in 0 .. NodeCount - 1 /\ m - 1 # NodeCount - 1 /\ ~ (m <= m - 1)
        /\ (m - 1) + 1 = m
    BY <1>1, <2>1, <2>2
  <2>4. NodeAddr(m - 1) \in Nodes(InitFs)
    BY <2>1, <2>3
  <2>5. Link(InitFs, NodeAddr(m - 1)) = NodeAddr(m)
    BY <2>3, FormattedWords
  <2>6. NodeAddr(m) \in DataBlocks /\ NodeAddr(m) # Null
    BY <2>1, NodeAddrFacts, DataBlocksPositive
  <2>7. NodeAddr(m) \in Nodes(InitFs)
    BY <1>5, <2>4, <2>5, <2>6 DEF LinkClosed
  <2> QED BY <2>1, <2>7
<1> QED BY <1>5, <1>6

\* The list init_fs makes is well formed.
LEMMA InitWellFormed ==
  ASSUME LinkedGeometry
  PROVE  WellFormed(InitFs)
<1> DEFINE W == {NodeAddr(k) : k \in 0 .. NodeCount - 1}
<1>1. NodeCount \in Nat \ {0}
  BY NodeCountExists
<1>2. Nodes(InitFs) = W /\ LinkClosed(InitFs, W)
  BY InitNodes
<1>3. EntrySlot \subseteq Slot /\ 0 \in Slot /\ 0 \notin EntrySlot
  BY GeometryAssumption DEF EntrySlot, Slot
<1>4. FirstData \in DataBlocks /\ NodeAddr(0) = FirstData
  BY DataBlocksPositive, GeometryAssumption DEF NodeAddr, FirstData
<1>5. InitFs \in FreeListState
  <2>1. ASSUME NEW b \in DataBlocks PROVE FormattedNode(b) \in Block
    <3>1. b \in Nat
      BY DataBlocksPositive, Zenon
    <3>2. \A i \in Slot : InPartition(IF i = 0 THEN b + SLOTS + 1 ELSE b + i) \in Int
      BY <3>1, GeometryAssumption DEF Slot, InPartition, Null
    <3> QED BY <3>2 DEF FormattedNode, Block
  <2>2. ZeroBlock \in Block
    BY DEF ZeroBlock, Block
  <2>3. InitFs.disk \in [DataBlocks -> Block]
    BY <2>1, <2>2 DEF InitFs
  <2> QED BY <1>4, <2>3 DEF InitFs, FreeListState
<1>6. ASSUME NEW k \in 0 .. NodeCount - 1, NEW i \in EntrySlot
      PROVE  InitFs.disk[NodeAddr(k)][i] \in DataBlocks \cup {Null}
             /\ (InitFs.disk[NodeAddr(k)][i] # Null =>
                   InitFs.disk[NodeAddr(k)][i] = NodeAddr(k) + i)
  <2>1. NodeAddr(k) \in FirstData .. (PARTITION_SIZE - 1)
    BY NodeAddrFacts DEF DataBlocks
  <2>2. FirstData \in Nat /\ PARTITION_SIZE \in Nat /\ i \in Nat
    BY GeometryAssumption DEF FirstData, EntrySlot
  <2>3. InPartition(NodeAddr(k) + i) \in DataBlocks \cup {Null}
        /\ (InPartition(NodeAddr(k) + i) # Null =>
              InPartition(NodeAddr(k) + i) = NodeAddr(k) + i)
    BY <2>1, <2>2 DEF InPartition, DataBlocks
  <2> QED BY <2>3, FormattedWords
<1>7. \A n \in W, i \in EntrySlot :
        InitFs.disk[n][i] \in DataBlocks \cup {Empty, Null}
  BY <1>6
<1>8. LinksFormChain(InitFs)
  <2>1. \A n \in W : Link(InitFs, n) \in W \cup {Null}
    BY <1>2 DEF LinkClosed
  <2>2. ASSUME NEW k \in 0 .. NodeCount - 1, NEW l \in 0 .. NodeCount - 1,
               Link(InitFs, NodeAddr(k)) = NodeAddr(l)
        PROVE  l = k + 1
    <3>1. NodeAddr(l) # Null
      BY NodeAddrFacts, DataBlocksPositive
    <3>2. NodeAddr(k + 1) = NodeAddr(l) /\ k + 1 \in Nat /\ l \in Nat
      BY <1>1, <2>2, <3>1, FormattedWords
    <3>3. NodeAddr(l) \in Nat
      BY NodeAddrFacts, DataBlocksPositive, Zenon
    <3>4. NodeAddr(k + 1) + 0 = NodeAddr(l) + 0
      BY <3>2
    <3> QED BY <1>3, <3>2, <3>4, WordsDisjoint
  <2>3. ASSUME NEW k \in 0 .. NodeCount - 1, Link(InitFs, NodeAddr(k)) = FirstData
        PROVE  FALSE
    <3>1. 0 = k + 1
      BY <1>1, <1>4, <2>2, <2>3
    <3> QED BY <1>1, <3>1
  <2>4. ASSUME NEW k \in 0 .. NodeCount - 1, NEW l \in 0 .. NodeCount - 1,
               Link(InitFs, NodeAddr(k)) = Link(InitFs, NodeAddr(l))
        PROVE  k = l
    <3>1. CASE Link(InitFs, NodeAddr(k)) = Null
      <4>1. \A j \in 0 .. NodeCount - 2 : Link(InitFs, NodeAddr(j)) # Null
        <5> TAKE j \in 0 .. NodeCount - 2
        <5>1. j \in 0 .. NodeCount - 1 /\ j # NodeCount - 1
              /\ j + 1 \in 0 .. NodeCount - 1
          BY <1>1
        <5> QED BY <5>1, FormattedWords, NodeAddrFacts, DataBlocksPositive
      <4>2. k \notin 0 .. NodeCount - 2 /\ l \notin 0 .. NodeCount - 2
        BY <2>4, <3>1, <4>1
      <4> QED BY <1>1, <4>2
    <3>2. CASE Link(InitFs, NodeAddr(k)) # Null
      <4>1. PICK m \in 0 .. NodeCount - 1 : Link(InitFs, NodeAddr(k)) = NodeAddr(m)
        BY <2>1, <3>2
      <4>2. m = k + 1 /\ m = l + 1
        BY <2>2, <2>4, <4>1
      <4> QED BY <1>1, <4>2
    <3> QED BY <3>1, <3>2
  <2>5. \E n \in W : Link(InitFs, n) = Null
    BY <1>1, FormattedWords
  <2>6. \A n, m \in W : Link(InitFs, n) = Link(InitFs, m) => n = m
    BY <2>4
  <2>7. \A n \in W : Link(InitFs, n) # InitFs.free_head
    BY <2>3 DEF InitFs
  <2> QED BY <1>2, <2>1, <2>5, <2>6, <2>7 DEF LinksFormChain
<1>9. EachListedOnce(InitFs)
  <2>1. ASSUME NEW k \in 0 .. NodeCount - 1, NEW i \in EntrySlot,
               Named(InitFs.disk[NodeAddr(k)][i])
        PROVE  InitFs.disk[NodeAddr(k)][i] = NodeAddr(k) + i
    BY <1>6, <2>1 DEF Named
  <2>2. ASSUME NEW k \in 0 .. NodeCount - 1, NEW i \in EntrySlot,
               Named(InitFs.disk[NodeAddr(k)][i])
        PROVE  InitFs.disk[NodeAddr(k)][i] \notin W
    <3> SUFFICES ASSUME NEW l \in 0 .. NodeCount - 1,
                        InitFs.disk[NodeAddr(k)][i] = NodeAddr(l)
                 PROVE  FALSE
      OBVIOUS
    <3>1. NodeAddr(l) \in Nat /\ k \in Nat /\ l \in Nat
      BY NodeAddrFacts, DataBlocksPositive, Zenon
    <3>2. NodeAddr(k) + i = NodeAddr(l) + 0
      BY <2>1, <2>2, <3>1
    <3>3. i = 0
      BY <1>3, <3>1, <3>2, WordsDisjoint
    <3> QED BY <1>3, <3>3
  <2>3. ASSUME NEW k \in 0 .. NodeCount - 1, NEW i \in EntrySlot,
               Named(InitFs.disk[NodeAddr(k)][i]),
               NEW l \in 0 .. NodeCount - 1, NEW j \in EntrySlot,
               InitFs.disk[NodeAddr(l)][j] = InitFs.disk[NodeAddr(k)][i]
        PROVE  l = k /\ j = i
    <3>1. NodeAddr(k) + i = NodeAddr(l) + j
      BY <2>1, <2>3
    <3>2. k \in Nat /\ l \in Nat /\ i \in Slot /\ j \in Slot
      BY <1>3, NodeAddrFacts
    <3> QED BY <3>1, <3>2, WordsDisjoint
  <2>4. \A n \in W, i \in EntrySlot :
          Named(InitFs.disk[n][i]) => InitFs.disk[n][i] \notin W
    BY <2>2
  <2>5. \A n \in W, i \in EntrySlot : Named(InitFs.disk[n][i]) =>
          \A m \in W, j \in EntrySlot :
            InitFs.disk[m][j] = InitFs.disk[n][i] => m = n /\ j = i
    BY <2>3
  <2> QED BY <1>2, <2>4, <2>5, Zenon DEF EachListedOnce
<1> QED BY <1>2, <1>5, <1>7, <1>8, <1>9 DEF WellFormed
=============================================================================
