----------------------------- MODULE TranslateOps -----------------------------
(***************************************************************************)
(* Which block address of an inode an offset in its file means: the        *)
(* arithmetic of src/layer2/translate_pos.cpp, with the macros of          *)
(* translate_pos.h expanded as the preprocessor expands them.              *)
(*                                                                         *)
(* SINGLE_INDIRECT_BLOCK_NUM is the text BLOCK_SIZE / BLOCK_ADDR_SIZE, and *)
(* the other two are products of such texts, all without parentheses.      *)
(* Where they stand after / or % the operators associate to the left:      *)
(* x / SINGLE_INDIRECT_BLOCK_NUM divides by both sizes.  Where they are    *)
(* compared with, or subtracted, they mean what their names say.           *)
(***************************************************************************)
EXTENDS Integers

CONSTANTS
  BLOCK_SIZE,      \* bytes of a block
  BLOCK_ADDR_SIZE, \* bytes of a block address
  DIRECT_NUM       \* direct addresses of an inode

\* What the theorems about these operators assume of the sizes.
PositionGeometry ==
  /\ BLOCK_ADDR_SIZE \in Nat \ {0}
  /\ BLOCK_SIZE \in Nat \ {0}
  /\ DIRECT_NUM \in Nat \ {0}

\* C's / and %, which round towards zero, for a positive divisor.
CDiv(x, d) == IF x < 0 THEN -((-x) \div d) ELSE x \div d
CMod(x, d) == x - d * CDiv(x, d)

\* infile_block_num and position->offset.
BlockNum(infile_offset) == CDiv(infile_offset, BLOCK_SIZE)
BlockOffset(infile_offset) == CMod(infile_offset, BLOCK_SIZE)

\* The addresses of a block, and so the blocks behind each kind of address.
AddrsPerBlock == BLOCK_SIZE \div BLOCK_ADDR_SIZE
Singles == AddrsPerBlock
Doubles == AddrsPerBlock * AddrsPerBlock

\* x / SINGLE_INDIRECT_BLOCK_NUM, and the two others.
DivSingle(x) == (x \div BLOCK_SIZE) \div BLOCK_ADDR_SIZE
DivDouble(x) == (DivSingle(x) * BLOCK_SIZE) \div BLOCK_ADDR_SIZE
DivTriple(x) == (DivDouble(x) * BLOCK_SIZE) \div BLOCK_ADDR_SIZE

\* The first indices of the indirect addresses.
SingleIdx == DIRECT_NUM
DoubleIdx == DIRECT_NUM + 1
TripleIdx == DIRECT_NUM + 2

\* The index in block_addrs that translate_pos uses for block b of a file.  The
\* triple range has no end here: with blocks of 4096 bytes it is beyond int.
AddrIndex(b) ==
  LET single == b - DIRECT_NUM
      double == single - Singles
      triple == double - Doubles
  IN  IF b < DIRECT_NUM THEN b
      ELSE IF single < Singles THEN SingleIdx + DivSingle(single)
      ELSE IF double < Doubles THEN DoubleIdx + DivDouble(double)
      ELSE TripleIdx + DivTriple(triple)

\* The index that the comment on block_addrs (data_structs.hpp:65) names for it.
DocumentedIndex(b) ==
  IF b < DIRECT_NUM THEN b
  ELSE IF b < DIRECT_NUM + Singles THEN SingleIdx
  ELSE IF b < DIRECT_NUM + Singles + Doubles THEN DoubleIdx
  ELSE TripleIdx
=============================================================================
