------------------------------- MODULE Positions -------------------------------
(***************************************************************************)
(* A caller of translate_pos (src/layer2/translate_pos.cpp) that moves     *)
(* about in a file: it goes on to the next block, as the loops of read and *)
(* write do, or starts a call somewhere else.  Both count in off_t, and    *)
(* translate_pos takes an int.                                             *)
(***************************************************************************)
EXTENDS TranslateOps

CONSTANTS
  INT_MAX, \* the largest int
  OFF_MAX, \* how far calls go (a bound: off_t goes further)
  Starts   \* where calls of read and write start

VARIABLE offset

\* The conversion of an off_t to the parameter infile_offset.
ToInt(x) ==
  LET values == 2 * INT_MAX + 2
  IN  IF x <= INT_MAX THEN x ELSE x - values * ((x + INT_MAX + 1) \div values)

Init == offset = 0

Seek(start) == offset' = start

\* The loops advance by what was left of the block.  Before the first block of a
\* file there is none to go on from.
NextBlock ==
  LET left == BLOCK_SIZE - BlockOffset(ToInt(offset))
  IN  /\ ToInt(offset) >= 0
      /\ offset <= OFF_MAX - left
      /\ offset' = offset + left

Next == NextBlock \/ \E start \in Starts : Seek(start)

Spec == Init /\ [][Next]_offset

\* data_structs.hpp:65: an offset is found through the direct addresses, then
\* index 12, 13 and 14, as the number of its block demands.
IndexDocumented ==
  AddrIndex(BlockNum(ToInt(offset))) = DocumentedIndex(BlockNum(offset))
=============================================================================
