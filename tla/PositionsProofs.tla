--------------------------- MODULE PositionsProofs ----------------------------
(***************************************************************************)
(* What the arithmetic of TranslateOps does for every size of blocks and   *)
(* addresses: up to where it finds the address that the comments promise,  *)
(* what it finds from there on, and what becomes of offsets that are no    *)
(* ints.                                                                   *)
(***************************************************************************)
EXTENDS Positions, TLAPS

-----------------------------------------------------------------------------
(* Quotients *)

\* What \div is, for a positive divisor.
LEMMA QuotientBounds ==
  ASSUME NEW x \in Nat, NEW d \in Nat \ {0}
  PROVE  /\ x \div d \in Nat
         /\ d * (x \div d) <= x
         /\ x < d * (x \div d) + d
OBVIOUS

\* Multiples of larger numbers are no smaller.
LEMMA ProductMonotone ==
  ASSUME NEW a \in Nat, NEW b \in Nat, NEW d \in Nat, a <= b
  PROVE  d * a <= d * b
OBVIOUS

\* What is less than m times the divisor has a quotient less than m.
LEMMA SmallQuotient ==
  ASSUME NEW x \in Nat, NEW d \in Nat \ {0}, NEW m \in Nat, x < d * m
  PROVE  x \div d < m
<1> DEFINE q == x \div d
<1>1. q \in Nat /\ d * q <= x
  BY QuotientBounds
<1>2. SUFFICES ASSUME m <= q PROVE FALSE
  BY <1>1
<1>3. d * m <= d * q
  BY <1>1, <1>2, ProductMonotone
<1>4. d * m \in Nat /\ d * q \in Nat
  BY <1>1
<1> QED BY <1>1, <1>3, <1>4

\* What is at least m times the divisor has a quotient of at least m.
LEMMA LargeQuotient ==
  ASSUME NEW x \in Nat, NEW d \in Nat \ {0}, NEW m \in Nat, d * m <= x
  PROVE  x \div d \in Nat /\ m <= x \div d
<1> DEFINE q == x \div d
<1>1. q \in Nat /\ x < d * q + d
  BY QuotientBounds
<1> HIDE DEF q
<1>2. SUFFICES ASSUME q < m PROVE FALSE
  BY <1>1 DEF q
<1>3. d * (q + 1) <= d * m
  BY <1>1, <1>2, ProductMonotone
<1>4. d * (q + 1) = d * q + d /\ d * m \in Nat /\ d * q \in Nat
  BY <1>1
<1> QED BY <1>1, <1>3, <1>4

-----------------------------------------------------------------------------
(* Offsets and blocks *)

\* mkdir.cpp:112 passes the size of the root, -1: the block is the first one, and
\* the offset is negative.
THEOREM MinusOneIsInFirstBlock ==
  ASSUME PositionGeometry, BLOCK_SIZE > 1
  PROVE  BlockNum(-1) = 0 /\ BlockOffset(-1) = -1
<1>1. BLOCK_SIZE \in Nat /\ BLOCK_SIZE > 1
  BY DEF PositionGeometry
<1>2. 1 \div BLOCK_SIZE = 0
  <2>1. 1 \div BLOCK_SIZE \in Nat /\ 1 < BLOCK_SIZE * 1
    BY <1>1, QuotientBounds
  <2>2. 1 \div BLOCK_SIZE < 1
    BY <1>1, <2>1, SmallQuotient
  <2> QED BY <2>1, <2>2
<1>3. CDiv(-1, BLOCK_SIZE) = 0
  BY <1>1, <1>2 DEF CDiv
<1> QED BY <1>1, <1>3 DEF BlockNum, BlockOffset, CMod

-----------------------------------------------------------------------------
(* Indices *)

\* As far as the unparenthesised divisors divide to nothing.
Reach == BLOCK_SIZE * BLOCK_ADDR_SIZE

\* There the quotient of single indirect blocks is 0,
LEMMA DivSingleIsZero ==
  ASSUME PositionGeometry, NEW x \in Nat, x < Reach
  PROVE  DivSingle(x) = 0
<1>1. BLOCK_SIZE \in Nat \ {0} /\ BLOCK_ADDR_SIZE \in Nat \ {0}
  BY DEF PositionGeometry
<1> DEFINE q == x \div BLOCK_SIZE
<1>2. q \in Nat /\ q < BLOCK_ADDR_SIZE
  BY <1>1, QuotientBounds, SmallQuotient DEF Reach
<1> HIDE DEF q
<1>3. q < BLOCK_ADDR_SIZE * 1
  BY <1>1, <1>2
<1>4. q \div BLOCK_ADDR_SIZE \in Nat /\ q \div BLOCK_ADDR_SIZE < 1
  BY <1>1, <1>2, <1>3, QuotientBounds, SmallQuotient
<1>5. q \div BLOCK_ADDR_SIZE = 0
  BY <1>4
<1> QED BY <1>5 DEF DivSingle, q

\* and so is that of double indirect ones.
LEMMA DivDoubleIsZero ==
  ASSUME PositionGeometry, NEW x \in Nat, x < Reach
  PROVE  DivDouble(x) = 0
<1>1. BLOCK_SIZE \in Nat \ {0} /\ BLOCK_ADDR_SIZE \in Nat \ {0}
  BY DEF PositionGeometry
<1>2. DivSingle(x) * BLOCK_SIZE = 0
  BY <1>1, DivSingleIsZero
<1>3. 0 \div BLOCK_ADDR_SIZE = 0
  BY <1>1
<1> QED BY <1>2, <1>3 DEF DivDouble

\* A block has no more addresses than bytes.
LEMMA SinglesInReach ==
  ASSUME PositionGeometry
  PROVE  Singles \in Nat /\ Doubles \in Nat /\ Singles <= Reach /\ Reach \in Nat
<1>1. BLOCK_SIZE \in Nat \ {0} /\ BLOCK_ADDR_SIZE \in Nat \ {0}
  BY DEF PositionGeometry
<1> DEFINE q == BLOCK_SIZE \div BLOCK_ADDR_SIZE
<1>2. q \in Nat /\ BLOCK_ADDR_SIZE * q <= BLOCK_SIZE
  BY <1>1, QuotientBounds
<1>3. q * 1 <= q * BLOCK_ADDR_SIZE
  BY <1>1, <1>2, ProductMonotone
<1>4. BLOCK_SIZE * 1 <= BLOCK_SIZE * BLOCK_ADDR_SIZE
  BY <1>1, ProductMonotone
<1>5. q * BLOCK_ADDR_SIZE = BLOCK_ADDR_SIZE * q /\ BLOCK_ADDR_SIZE * q \in Nat
  BY <1>1, <1>2
<1>6. q * q \in Nat /\ BLOCK_SIZE * BLOCK_ADDR_SIZE \in Nat
  BY <1>1, <1>2
<1>7. q <= BLOCK_SIZE * BLOCK_ADDR_SIZE
  BY <1>1, <1>2, <1>3, <1>4, <1>5, <1>6
<1> QED BY <1>2, <1>6, <1>7 DEF Singles, Doubles, AddrsPerBlock, Reach

\* data_structs.hpp:65 is right about the blocks up to Reach beyond the single
\* indirect ones, and not further than the double indirect ones.
THEOREM IndexWithinReach ==
  ASSUME PositionGeometry, NEW b \in Nat,
         b < DIRECT_NUM + Singles + Reach,
         b < DIRECT_NUM + Singles + Doubles
  PROVE  AddrIndex(b) = DocumentedIndex(b)
<1>1. DIRECT_NUM \in Nat /\ Singles \in Nat /\ Doubles \in Nat
      /\ Singles <= Reach /\ Reach \in Nat
  BY SinglesInReach DEF PositionGeometry
<1>2. CASE b < DIRECT_NUM
  BY <1>2 DEF AddrIndex, DocumentedIndex
<1>3. CASE ~ (b < DIRECT_NUM) /\ b - DIRECT_NUM < Singles
  <2>1. b - DIRECT_NUM \in Nat /\ b - DIRECT_NUM < Reach
    BY <1>1, <1>3
  <2>2. DivSingle(b - DIRECT_NUM) = 0
    BY <2>1, DivSingleIsZero
  <2>3. AddrIndex(b) = SingleIdx + DivSingle(b - DIRECT_NUM)
    BY <1>3 DEF AddrIndex
  <2>4. b < DIRECT_NUM + Singles
    BY <1>1, <1>3
  <2> QED BY <1>1, <1>3, <2>2, <2>3, <2>4 DEF DocumentedIndex, SingleIdx
<1>4. CASE ~ (b < DIRECT_NUM) /\ ~ (b - DIRECT_NUM < Singles)
  <2>1. /\ b - DIRECT_NUM - Singles \in Nat
        /\ b - DIRECT_NUM - Singles < Reach
        /\ b - DIRECT_NUM - Singles < Doubles
    BY <1>1, <1>4
  <2>2. DivDouble(b - DIRECT_NUM - Singles) = 0
    BY <2>1, DivDoubleIsZero
  <2>3. AddrIndex(b) = DoubleIdx + DivDouble(b - DIRECT_NUM - Singles)
    BY <1>4, <2>1 DEF AddrIndex
  <2>4. ~ (b < DIRECT_NUM + Singles) /\ b < DIRECT_NUM + Singles + Doubles
    BY <1>1, <1>4
  <2> QED BY <1>1, <1>4, <2>2, <2>3, <2>4 DEF DocumentedIndex, DoubleIdx
<1> QED BY <1>2, <1>3, <1>4

\* From Reach on, the quotient is no longer 0, but at once a block's worth of
\* addresses.
LEMMA DivDoubleBeyondReach ==
  ASSUME PositionGeometry, NEW x \in Nat, Reach <= x
  PROVE  DivDouble(x) \in Nat /\ AddrsPerBlock <= DivDouble(x)
<1>1. BLOCK_SIZE \in Nat \ {0} /\ BLOCK_ADDR_SIZE \in Nat \ {0}
  BY DEF PositionGeometry
<1> DEFINE q == x \div BLOCK_SIZE
           s == q \div BLOCK_ADDR_SIZE
<1>2. q \in Nat /\ BLOCK_ADDR_SIZE <= q
  BY <1>1, LargeQuotient DEF Reach
<1> HIDE DEF q
<1>3. s \in Nat /\ 1 <= s
  <2>1. BLOCK_ADDR_SIZE * 1 <= q
    BY <1>1, <1>2
  <2> QED BY <1>1, <1>2, <2>1, LargeQuotient
<1> HIDE DEF s
<1>4. BLOCK_SIZE * 1 <= BLOCK_SIZE * s
  BY <1>1, <1>3, ProductMonotone
<1>5. s * BLOCK_SIZE \in Nat /\ BLOCK_SIZE <= s * BLOCK_SIZE
  BY <1>1, <1>3, <1>4
<1>6. BLOCK_ADDR_SIZE * AddrsPerBlock <= BLOCK_SIZE /\ AddrsPerBlock \in Nat
  BY <1>1, QuotientBounds DEF AddrsPerBlock
<1>7. BLOCK_ADDR_SIZE * AddrsPerBlock <= s * BLOCK_SIZE
  <2>1. BLOCK_ADDR_SIZE * AddrsPerBlock \in Nat
    BY <1>1, <1>6
  <2> QED BY <1>1, <1>5, <1>6, <2>1
<1>8. DivDouble(x) = (s * BLOCK_SIZE) \div BLOCK_ADDR_SIZE
  BY DEF DivDouble, DivSingle, s, q
<1> DEFINE p == s * BLOCK_SIZE
<1> HIDE DEF p
<1>9. p \in Nat /\ BLOCK_ADDR_SIZE * AddrsPerBlock <= p /\ DivDouble(x) = p \div BLOCK_ADDR_SIZE
  BY <1>5, <1>7, <1>8 DEF p
<1> QED BY <1>1, <1>6, <1>9, LargeQuotient

\* translate_pos.cpp:74: for every block of the double indirect range from Reach
\* on, the index is as far behind 13 as a block has addresses, or farther: with
\* the code's sizes it is 525 at least, and block_addrs has 15 entries.
THEOREM IndexBeyondReach ==
  ASSUME PositionGeometry, NEW b \in Nat,
         DIRECT_NUM + Singles + Reach <= b,
         b < DIRECT_NUM + Singles + Doubles
  PROVE  DoubleIdx + AddrsPerBlock <= AddrIndex(b)
<1>1. DIRECT_NUM \in Nat /\ Singles \in Nat /\ Doubles \in Nat
      /\ Singles <= Reach /\ Reach \in Nat
  BY SinglesInReach DEF PositionGeometry
<1> DEFINE x == b - DIRECT_NUM - Singles
<1>2. x \in Nat /\ Reach <= x /\ x < Doubles
  BY <1>1
<1>3. ~ (b < DIRECT_NUM) /\ ~ (b - DIRECT_NUM < Singles)
  BY <1>1
<1>4. AddrIndex(b) = DoubleIdx + DivDouble(x)
  BY <1>2, <1>3 DEF AddrIndex
<1>5. AddrsPerBlock \in Nat /\ DivDouble(x) \in Nat /\ AddrsPerBlock <= DivDouble(x)
  BY <1>1, <1>2, DivDoubleBeyondReach DEF Singles
<1> HIDE DEF x
<1> QED BY <1>1, <1>4, <1>5 DEF DoubleIdx

-----------------------------------------------------------------------------
(* Offsets that are no ints *)

\* The first that is none becomes the lowest int, and so on up to -1.
LEMMA BeyondIntIsNegative ==
  ASSUME INT_MAX \in Nat, NEW o \in Nat, INT_MAX < o, o <= 2 * INT_MAX + 1
  PROVE  ToInt(o) = o - (2 * INT_MAX + 2)
<1> DEFINE values == 2 * INT_MAX + 2
           x == o + INT_MAX + 1
           q == x \div values
<1>1. /\ values \in Nat \ {0} /\ x \in Nat
      /\ values * 1 <= x /\ x < values * 2
  OBVIOUS
<1>2. ToInt(o) = o - values * q
  BY DEF ToInt
<1> HIDE DEF values, x
<1>3. q \in Nat /\ 1 <= q
  BY <1>1, LargeQuotient
<1>4. q < 2
  BY <1>1, SmallQuotient
<1> HIDE DEF q
<1>5. q = 1
  BY <1>3, <1>4
<1>6. ToInt(o) = o - values
  BY <1>1, <1>2, <1>5
<1> QED BY <1>6 DEF values

\* write.cpp:30, read.cpp:27: from 2^31 on, and up to the last block below 2^32, the
\* index that translate_pos uses is negative, before the start of block_addrs.
THEOREM IndexBeyondInt ==
  ASSUME PositionGeometry, INT_MAX \in Nat,
         NEW o \in Nat, INT_MAX < o, o <= 2 * INT_MAX + 2 - BLOCK_SIZE
  PROVE  AddrIndex(BlockNum(ToInt(o))) < 0
<1>1. BLOCK_SIZE \in Nat \ {0} /\ DIRECT_NUM \in Nat
  BY DEF PositionGeometry
<1>2. o <= 2 * INT_MAX + 1
  BY <1>1
<1> DEFINE t == ToInt(o)
           u == 2 * INT_MAX + 2 - o
           q == u \div BLOCK_SIZE
<1>3. t = - u /\ u \in Nat /\ BLOCK_SIZE * 1 <= u
  BY <1>1, <1>2, BeyondIntIsNegative
<1> HIDE DEF u
<1>4. q \in Nat /\ 1 <= q
  BY <1>1, <1>3, LargeQuotient
<1>5. BlockNum(t) = - q
  <2>1. t < 0 /\ - t = u
    BY <1>1, <1>3
  <2> HIDE DEF t
  <2> QED BY <2>1 DEF BlockNum, CDiv
<1> HIDE DEF q, t
<1>6. BlockNum(t) < DIRECT_NUM /\ BlockNum(t) < 0
  BY <1>1, <1>4, <1>5
<1>7. AddrIndex(BlockNum(t)) = BlockNum(t)
  BY <1>6 DEF AddrIndex
<1> QED BY <1>6, <1>7 DEF t
=============================================================================
