------------------------------- MODULE FileOps --------------------------------
(***************************************************************************)
(* What the calls of src/layer2 are made of, as pure operators on a state  *)
(* s of the disk and one open file: s.fs, s.ilist, the inode's number s.n  *)
(* and the caller's copy of it, s.inode.  Also free_inode as one step.     *)
(*                                                                         *)
(* Offsets count words here, SLOTS of them to a block; TranslateOps is     *)
(* given them as bytes.                                                    *)
(***************************************************************************)
EXTENDS InodeOps

CONSTANT WORD_SIZE \* bytes of a word, sizeof(long) in the code

ASSUME WordAssumption == WORD_SIZE \in Nat \ {0}

Translate == INSTANCE TranslateOps
  WITH BLOCK_SIZE <- SLOTS * WORD_SIZE,
       BLOCK_ADDR_SIZE <- WORD_SIZE,
       DIRECT_NUM <- DIRECT

\* A Slip, as in FreeListOps: the new address is stored, and not in the copy.
SlipCopyKept(s, idx, is_write) ==
  LET r == AllocInt(s.fs)
  IN  IF s.inode.block_addrs[idx] # 0 \/ ~ is_write THEN s
      ELSE IF r.ret = -1 THEN [s EXCEPT !.fs = r.fs]
      ELSE [s EXCEPT !.fs = r.fs, !.ilist[s.n].block_addrs[idx] = r.ret]

AccessDirect(s, idx, is_write) ==
  LET r == AllocInt(s.fs)
  IN  IF s.inode.block_addrs[idx] # 0 \/ ~ is_write THEN s
      ELSE IF r.ret = -1 THEN [s EXCEPT !.fs = r.fs]
      ELSE [s EXCEPT !.fs = r.fs,
                     !.inode.block_addrs[idx] = r.ret,
                     !.ilist[s.n].block_addrs[idx] = r.ret]

\* Block 0 means failure, and it is all there is behind an indirect block:
\* access_inode_indirect_block_num takes the bytes it has read for an error.
ThroughIndirect == 0

\* Where the word at pos is: block and offset (in words), and the state after.
TranslatePos(s, pos, is_write) ==
  LET b == Translate!BlockNum(pos * WORD_SIZE)
      idx == Translate!AddrIndex(b)
      at == AccessDirect(s, idx, is_write)
  IN  [s |-> at,
       block |-> IF idx < DIRECT THEN at.inode.block_addrs[idx] ELSE ThroughIndirect,
       offset |-> Translate!CMod(pos, SLOTS)]

-----------------------------------------------------------------------------
(* free_inode, in one step: its loop over the addresses ends at a failure  *)

FreeInode(s, il, n) ==
  LET after[i \in 0 .. INODE_BLOCKS] ==
        IF i = 0 THEN Nothing(s)
        ELSE IF after[i - 1].ret # 0 THEN after[i - 1]
        ELSE FreeAddr(after[i - 1].fs, i - 1, il[n].block_addrs[i - 1])
      r == after[INODE_BLOCKS]
  IN  [ret |-> r.ret,
       fs |-> r.fs,
       ilist |-> IF r.ret = 0 THEN [il EXCEPT ![n] = ClearedInode] ELSE il]
=============================================================================
