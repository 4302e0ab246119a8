# A verification development for linux-filesystem-on-fuse

TLA+ modules that model the block allocator, the i-list, the files and the directories
of this system, TLC configurations that check them on small partitions, and theorems about them,
for every partition, that TLAPS checks. Every definition is translated from the
code under `src/src` and `src/include`; `PROJECT.json` names the lines for each
one (`map`), the runs, the known disagreements between code and comments
(`findings`), what is hard to test in this code (`hazards`) and the main theorems.

## 1. The system

One process, one thread, a disk in memory. Nothing is connected to FUSE
(`main.cpp` is a stub), nothing persists, and there is no lock, callback or
message: a call runs to its end before the next begins. What is hard here is not
concurrency but long sequences of calls, boundaries, failures in the middle of a
call, and copies of inodes that callers keep across calls.

| Component | State | Operations | Uses | What makes it correct |
|---|---|---|---|---|
| Disk interface (`layer0/disk_interface.cpp`) | `in_mem_disk`, 1000 blocks of 4096 bytes | `read_from_block`, `write_to_block`, clipped at the end of the block | - | bytes of one block only are touched |
| Superblock and free list (`layer1/data_structs.cpp`) | `free_head`; nodes and entries stored in the free blocks themselves | `init_fs`, `alloc_block`, `free_block`, `read_free_list` | disk | a block is free or held, never both, never listed twice; none is lost; the list ends |
| I-list (`layer1/data_structs.cpp`) | inodes: allocated flag, type, size, 15 block addresses | `alloc_inode`, `free_inode`, `free_ind_block`, `free_d_ind_block`, `free_t_ind_block`, `read_inode`, `write_inode`, `write_inode_mdata` | free list, disk | every block has one owner; a removed file gives all its blocks back or none |
| Offsets to blocks (`layer2/translate_pos.cpp`) | the caller's copy of an inode, indirect blocks | `translate_pos` and what it calls | i-list, free list, disk | an offset means the same block to every call; a new address is stored |
| Files (`layer2/read.cpp`, `write.cpp`, `open.cpp`, `close.cpp`) | the caller's copy of an inode | `read`, `write`, `open`, `close` | translate_pos, i-list, disk | what was written is read; the size covers it; nobody else's file changes |
| Paths and directories (`layer2/l2helper.cpp`, `mkdir.cpp`, `readdir.cpp`) | directory entries in data blocks | `namei`, `read_directory`, `my_mkdir`, `readdir` | all of the above | a directory made can be found; its inode is its own; a failed `my_mkdir` gives back all of its inode or nothing; other files' blocks stay as they are |
| `mknod.cpp`, `unlink.cpp`, `main.cpp` | - | none: empty or stubs | - | - |

The free list is a System V list. A free block is a NODE, whose first word links to
the next node and whose other words are ENTRIES naming free blocks, or it is named
by an entry. `alloc_block` takes the first non-zero entry of the head node, or the
head node itself when it has none; `free_block` fills a zeroed entry of the head
node, or makes the freed block the new head.

`PROJECT.json` lists the hazards at their lines. The gravest: a block listed twice or
both free and held after a long mixture of calls (`data_structs.cpp:342`, `:383`),
`free_inode` giving up halfway (`:172`), inodes that count as unallocated while they have
a block (`mkdir.cpp:58`) and are reused without a reset (`data_structs.cpp:114`), the
three edge cases of `init_fs` (`:76`, `:77`, `:82`), the exhausted list (`:363`),
`free_ind_block`'s wrong comparison (`:408`), indirect blocks used without having been
initialised (`translate_pos.cpp:19`), stale inode copies (`write.cpp:43`, `translate_pos.cpp:5`,
`:12`), blocks written
after they are freed (`data_structs.cpp:433`), the unparenthesised divisors
(`translate_pos.cpp:74`), and the place of a new directory entry (`mkdir.cpp:112`).

## 2. Modules

| Module | Models | Notes |
|---|---|---|
| `FreeListOps` | `init_fs` (superblock, free list), `alloc_block`, `free_block`, `read_free_list`, as operators on a record `[free_head, disk]` | no variables, no recursion: shared by everything above |
| `BlockPool` | abstract: a set of free and a set of held blocks | what the allocator promises |
| `FreeList` | the allocator and arbitrary callers: `Alloc`, `Free`, `WriteData` | refines `BlockPool` |
| `FreeListOpsProofs`, `FreeListProofs` | theorems about the operators and about `FreeList` | |
| `InodeOps` | the i-list of `init_fs`, `alloc_inode`, what `free_inode` does with one address, the recursive frees | extends `FreeListOps` |
| `FileStore` | abstract: free blocks, inodes that count as in use, the blocks of each | what i-list and allocator promise together |
| `Inodes` | the i-list over the allocator, with the use that files and `my_mkdir` make of both | refines `FileStore` |
| `InodeOpsProofs`, `InodesProofs` | lemmas about the operators, theorems about `Inodes` | |
| `TranslateOps` | the arithmetic of `translate_pos` and the macros of `translate_pos.h` | pure; block and address sizes are constants |
| `Positions` | a caller of `translate_pos` that goes through a file or starts somewhere else, and the conversion of its offset to int | at the code's own sizes |
| `PositionsProofs` | theorems about `TranslateOps` and the conversion | |
| `FileOps` | `access_inode_direct_block_num`, `translate_pos` and `free_inode` as operators on the disk and one open file | extends `InodeOps`, instantiates `TranslateOps` |
| `FileOpsProofs` | lemmas: what `free_inode` and `access_inode_direct_block_num` do, the arithmetic within the direct blocks, and that blocks stay apart | used by the proofs about files and directories |
| `Files` | `write`, `read`, `open`, `close`, over callers that keep copies of inodes | extends `FileOps`; each call one action |
| `FilesProofs` | theorems about `Files` | |
| `Directory` | `tokenize_path`, `namei`, `read_directory`, `readdir`, `my_mkdir`, among files created, written and removed | extends `FileOps`; each call one action |
| `DirectoryProofs` | theorems about `Directory` | |
| `MCFreeList`, `MCInodes`, `MCFiles`, `MCPositions`, `MCDirectory` | values for the constants | |

How state corresponds to the code:

* `fs.free_head` is the superblock's `free_head`; `fs.disk` is the data area of
  `in_mem_disk`, each block an array of words (`Block.ind_blocks`). The superblock's
  sizes are the constants. Words keep the code's two sentinels: -1 is the null link
  and the filler of entries beyond the partition, 0 an emptied entry.
* `ilist` is the i-list, of each inode the fields the code decides on.
* `call` in `Inodes` is the argument and loop index of a running `free_inode`. Its
  loop calls the free list once per address and may return early, so that each turn is
  a step, and the properties are demanded between the turns too; no other call runs
  meanwhile. All other calls are one action each.
* `held` in `Files` is, of each variable of type `Inode` that a caller keeps, the copy
  that `read_inode` put there; `write` changes that copy, the i-list and the blocks.
  `data` is a ghost: the words each file was given. `WriteBlocks` is the loop of
  `write`: it ends at the first failure and leaves what it did. Offsets and sizes
  count words, so that a block of SLOTS words has partial writes and writes across
  its end. `Exclusive` restricts callers: no two copies of one inode at a time.
* `offset` in `Positions` is the off_t of `read` and `write`, in bytes, and `ToInt` what
  `translate_pos` gets of it: its parameter is an int, and the value wraps. The macros
  are expanded as the preprocessor does: `x / DOUBLE_INDIRECT_BLOCK_NUM` is
  `x / 4096 / 8 * 4096 / 8`, from left to right.
* `StoredMData` in `Inodes` is the metadata that callers of `write_inode_mdata` pass: what
  `write` has in its copy, and what `my_mkdir` fills in, where nothing sets `is_allocated`.
  `WriteMData` stores it for any inode at any time, and `GiveBlock` is the rest of
  `my_mkdir`: a block for index 0, whether or not an address is there, or `free_inode`. An
  unallocated inode may thus have a block and a size, and `alloc_inode` may choose it.
* A word of the disk is a long, and the file code keeps block numbers in ints.
  `FreeListOps!AsInt` is that conversion, with as many int values as there are blocks, and -1;
  `AllocInt` is `int x = alloc_block()`.
* `Directory` has `fs`, `ilist`, `struck` and `wrecked`; a call that returns without a change is a
  stuttering step. A path is a sequence of slashes and names, an entry one word, whose lower
  half, the int, is the inode number and whose upper half holds letters. Two things decide
  what its operators look like. The root's
  size is -1 and no code changes it, so that no directory is ever read: `namei` yields
  the root or an error. And that -1, as the offset of the new entry, becomes 65535 in
  `write_to_block`: `WriteEntry` puts the entry's first byte at the end of the
  block `USHORT_BLOCKS - 1` after the parent's and the rest at the start of the next, over
  two words of it: the code's entry covers 16, of which the first has the inode number's
  upper bytes and letters of the name, hence names no block, and the others letters, the
  zeros behind the name or padding that nothing has set, hence anything (`Tails`). When
  `translate_pos` finds no block for the parent, `my_mkdir` ignores it and counts from block 0.
  `is_allocated`, which `my_mkdir` leaves unset in the metadata it stores, is
  TRUE or FALSE as each call of `Mkdir` finds it.
* `Directory` does not stop where an entry has been written into the free list: `alloc_block`,
  `free_block` and everything above them go on with the words that are there. `struck` tells
  that the block an entry went over was a node of the list: from then on letters and padding
  count as block numbers.
  `wrecked` becomes TRUE only where a call leaves the data blocks: the head of the list is a word made
  of letters, which as a block number is 2^24 or more, so that reading it is reading
  outside `in_mem_disk`; a list that says so gives block 0, the superblock, or any other block
  outside the data area for `.` and `..` or for a file's data; or the entry
  falls on the superblock, the i-list or behind the data area. What the program does after
  that is undefined, or no longer about this data structure, and nothing is said of it.
* `allocated` and `last` in `FreeList` are ghosts: what callers hold, and the result
  of the last call.

`FreeListOps!Nodes` says which blocks are nodes as the least set of data blocks closed
under links, rather than by a walk: no recursive operator is then needed, and
the proofs reason about closed sets. `LinksFormChain` says that the walk of
`read_free_list` over them visits each once and stops.

A definition named `Slip...` is a fault a change could bring in; no specification uses
it. `PROJECT.json` pairs each with a property (`mutants`), which must notice it when it
replaces the definition named there.

## 3. Runs

The properties, as the modules' comments state them, and the runs that check them:

| Run | Shows |
|---|---|
| `free_list` | `TypeOK`, `AllocatedNotFree`, `ListedOnce`, `ListIsChain`, `HeldDataKept`: no order of calls puts a held block on the list, lists a block twice, bends the chain, or writes into a block that somebody else holds. `PoolSpec`: `FreeList` implements `BlockPool`; no call loses a block. `RetrySucceeds`: a caller that repeats a failed `alloc_block` is served while blocks are free |
| `inodes` | `TypeOK`, `HeldNotFree`, `OneOwner`: files and directories with direct addresses keep their blocks to themselves, also while `free_inode` runs or gives up, and also those that the metadata calls unallocated. `StoreSpec`: `Inodes` implements `FileStore`; `free_inode` is all or nothing, and a block is lost only where another one replaces it |
| `files` | `ReadBack`, `CopyIsCurrent`, `AddressesStay`, `TypeOK`: callers that share no inode read what they wrote, through holes, writes that fail in the middle, removal and reuse of blocks |
| `directory` | `FailedMkdirAllOrNone`: a `my_mkdir` that fails after it took an inode, on a full i-list or an empty free list, changes nothing, or gives the inode back with all its blocks; or, if the inode had blocks and the list is empty, keeps it with all of them. `BlocksHeldOnce`: no block gets two owners, and none that an inode has can be handed out, also when a directory's inode counts as unallocated and is handed out again, and when entries have gone over blocks in use or the last byte of a node. Both are claimed until an entry has gone over the words of a node (`struck`); the run goes on behind that point, too, where what holds is `ErrorsAreNegative`, that the byte count which `read_directory` takes for an error never reaches a caller, and `TypeOK` |
| `short` | violated: `free_head` becomes 0 when the data area ends before the partition (`data_structs.cpp:18` against `:77`) |
| `stale` | violated: `alloc_block` returns a block that is still listed (`data_structs.hpp:112`), because a stale word of an indirect block was freed |
| `shared` | violated: with two copies of one inode, a write replaces the address of a block that has data (`write.h:10` against `translate_pos.cpp:5`) |
| `reported` | violated: a write that `alloc_block` gave no block returns 0 (`test_file_gpt.cpp:50` against `write.cpp:31`); in the trace it met a filler entry, and a block is still free |
| `tree` | violated: removing a file with a double indirect address writes over a link of the free list (`data_structs.cpp:18` against `:433`) |
| `index` | violated: from offset 136,364,032 on, the index is 525 or more, outside the 15 entries of `block_addrs`, where the comment says 13 (`data_structs.hpp:65` against `translate_pos.cpp:74`) |
| `entry` | violated: `my_mkdir`, whose parent has its block, writes the new entry into another file's, with a free list that no entry has gone over before (`mkdir.cpp:109` against `:117`) |
| `kept` | violated: a `my_mkdir` that found no block leaves its inode allocated: it was given the inode of an earlier directory, which counted as unallocated (`mkdir.cpp:58`) and still had its block, and `free_inode` failed as well (`test_gpt.cpp:122` against `mkdir.cpp:82`) |

Bounds. In `free_list`, SLOTS = 3 gives a node a link and two entries: the smallest node in
which "first zeroed entry", "last entry" and "no entry left" differ. Six data blocks are
formatted as two nodes, the second with filler entries, so that a node is handed out
with another one behind it, freed blocks become nodes again, and the list runs dry.
Nothing is cut off: the reachable states are finite because the blocks are. The data
that callers write (`MCContents`) is one block full of words that look like a data
block's address, the worst case for a list that lives in the blocks.

In `inodes`, four data blocks of two words, two direct addresses and three inodes: two
files to mix up besides the root, and a file that needs two turns of `free_inode`'s
loop. FileTypes includes one type that `alloc_inode` rejects, StoredMData an allocated
file and an unallocated directory. In `short` the
data area is two blocks of seven. In `stale`, files may use the single indirect
address too, and in `tree` the double indirect one.

In `files`, blocks have two words, files three direct addresses, and two callers
write two words at a block, across two, or at the last direct block, which leaves a
hole in a small file; four data blocks are too few for both. The words written are
the addresses of data blocks. In `shared` and `reported` a word at a time is
enough; `shared` has `Exclusive` FALSE. `FilesAssumption` keeps the start of a write in the direct blocks:
elsewhere the loop over the hole (`write.cpp:19-24`) decides on a `block_num` that
nothing has set.

`index` has the code's own 4096, 8 and 12 and the whole range of int, where TLC's own
integers end as well; calls start at each multiple of 4 MB and go on block by block.
`OFF_MAX` bounds the offsets. What becomes of those beyond int is left to a theorem.

`directory` and `entry` have three inodes and five data blocks, so that both i-list and free
list get full. With `USHORT_BLOCKS` 3 (16 in the code), a stray entry counted from the
root's block, 2 or 3, or from block 0 when the root got none, falls onto data blocks:
nodes of the list, or data of files, as the calls before made them. With the root in a later
block it falls behind them. `MCTails` has zero, as behind a short name, and a data block's number,
which lists one block twice or lists one in use. The run has 21,000 states and takes about two
minutes. `kept` has one inode more and one block fewer. The ten paths are those `my_mkdir` refuses,
each for another reason, and two it does not.

Fairness. Only `free_list` assumes any, for `RetrySucceeds`: WF of `Alloc` alone, the
caller's loop that repeats `alloc_block`. The code schedules nothing by itself, and the property is about
that caller; nothing is assumed of the other calls, which may come in between for ever.

Deadlock is checked in every run.

## 4. Proofs

For every value of the constants, under the assumptions the modules name:

* `GeometryAssumption`: what `init_fs` tests of its arguments (and that there is a
  data block, and a block has two words); `InodeAssumption`, `WordAssumption`,
  `ContentsAssumption`, `CallersAssumption`, `FilesAssumption`, `DirectoryAssumption`: types and
  what the runs' bounds say of callers.
* `LinkedGeometry`, a hypothesis of each theorem about blocks: the last node's link is out of the
  partition, hence null. `init_fs` needs it and does not test it; the run `short` shows
  what happens without it. `FullPartitionIsLinked` proves it of every partition that
  i-list and data area fill.
* `DirectFiles`, a hypothesis of those about `Inodes`: files stay within the direct
  addresses. Runs `stale` and `tree` show that the theorems fail otherwise.
* `Callers`, the hypothesis of those about `Files`: `LinkedGeometry`; `Exclusive`, callers share no
  inode (the run `shared` shows what happens when they do); and `DirectWrites`, writes
  end within the direct blocks. One that goes on takes a block for the indirect address, and
  removing the file then frees whatever words that block holds (the run `stale`).
* `PositionGeometry`, the hypothesis of those about positions: sizes are positive.

The argument for the allocator. `WellFormed(s)` collects the shape that every call
keeps: links stay in the data area, entries name data blocks or are sentinels, the
nodes form a chain, and nothing is listed twice. Three contracts
(`AllocContract`, `FreeContract`, `WriteContract` in `FreeListOpsProofs`) say what each
operator does to a well-formed list and to the set of free blocks;
`InitWellFormed` says that the formatting loop establishes it. The inductive invariant
of `FreeList` is `WellFormed(fs)` with `AllocatedNotFree`. Neither is inductive alone:
giving back a block keeps the list free of duplicates only because the block is not on
it, and a block handed out is nobody's only because it was listed, once. Type
correctness, the three list invariants, `HeldDataKept` and `PoolSpec` follow.

The argument for the i-list. `IInv` of `InodesProofs` uses the same contracts. Its one
surprising part is `GivenBackIsFree`: while `free_inode` runs, the blocks dealt with
are on the list, and some free block is nobody's. So `free_block` can fail only at
the first block of a file; then nothing has been given back, and dropping the local copy
of the inode is harmless. That is why `free_inode` is all or nothing (`ImplementsStore`)
although its error path undoes nothing. Nothing in `IInv` speaks of `is_allocated`, but for the root's:
metadata may be stored for any other inode at any time.

The argument for positions. `IndexWithinReach` needs that a chain of divisions,
`x / B / A * B / A`, stays 0 as long as the first two steps give 0, that is below
`Reach` = B * A (32768 blocks); the documented index needs it to stay 0 for all of the double
indirect range, B / A squared (262144 blocks). From `Reach` on the chain is B / A = 512 at once, and
more later (`IndexBeyondReach`): the index is 525 or more, so that `translate_pos.cpp:5` reads
memory outside `block_addrs`. `IndexBeyondInt` is about the conversion: offsets from 2^31 on become
negative, and so does the index, up to the last block below 2^32.

Two loops inside one call. `free_inode` and `write` are single actions in `Files` and
`Directory`, whose loops are recursive functions (`after`). Induction over a predicate is
out of the provers' reach here, over a set of numbers it is not: `UpTo` (in `FreeListOpsProofs`,
from the well-foundedness of the naturals) says that a set that has 0 and, with k < m, k + 1, has m.
`FreeTurnsExist` and `WriteTurnsExist` use it to show that the recursive function exists,
`FreeInodeContract` and `WriteBlocksStep` to carry a loop invariant through it. For
`free_inode` this one is `FreedSoFar`: the blocks of the first k addresses are free, or the very
first `free_block` failed, on an empty list, and nothing has changed.

The argument for files. `Separate`, the part that directories share, says that the list is
well formed, addresses are of data blocks that are not free, and no two are the
same. `Stored` ties the words a file was given to the blocks at its addresses,
for all words and not only those that its size covers: a write that failed in the
middle has stored words beyond the size, which a later write makes readable.
`ReadBack` itself is not inductive for that reason; nor is `CopyIsCurrent`, which needs
`HeldByOne` (no other copy of the inode exists) and `HeldAllocated` (a held inode is not
handed out again). `UnusedIsEmpty` says that a file made anew has none of the old one's blocks.
The invariant `IInv` is their conjunction. Each change of the disk has one lemma that keeps
`Sound`: a block taken, words written, an inode cleared. The same steps show `AddressesStay`:
an address is stored only where the copy, hence the i-list, has 0.

The argument for directories. `ErrorsAreNegative` rests on the root's metadata alone:
`RootIntact`, that it is what `init_fs` wrote, is kept by every call whatever the stray
writes do to blocks, because `alloc_inode` takes unallocated inodes, `write` refuses
directories, `free_inode` refuses inode 0 and `translate_pos` stores addresses only.
A property of the results alone says nothing about the state after a call, so that it
is not inductive.

The other three need to say what a list is worth into which entries have been written. `AsRead` is the
list as the calls read it: a link that names no data block counts as the end, since whoever
follows it leaves the data blocks; an entry counts by its lower half, which is all the file code keeps of it.
The invariant is `DInv`: `RootKept`; `Typed`, which every call keeps on any list and is what `TypeOK`
needs of a list that says anything; and, unless `struck`, `Kept`: `AsRead` of the list is well formed and
`Separate` from what the inodes have. `AllocReads`, `FreeReads` and `FreeInodeReads` show that a call on
the list and the same call on `AsRead` of it keep in step, so that the allocator's contracts apply
although the list itself is well formed no longer. That leaves the stray writes. Their
offset comes from the root's size (`TranslateMinusOne`). The words at a block's start matter only
if that block is a node, and then the list is `struck`, of which nothing but `Typed` is claimed. The
byte at a block's end changes only what is above the lower half (`TopByteAbove`), unless the word
is a link, which cannot be, a block having two words at least. So all that a stray write can do to
`AsRead` of an unstruck list is to make a filler of an emptied entry: the free blocks are the same, or fewer
(`CutContract` in `FreeListOpsProofs`, `StrayKept`). Such an entry is no longer zero; it yields block 0, over
which `.` and `..` then go (`wrecked`).

`FailedMkdirAllOrNone` follows from the contracts. A failed `alloc_block` leaves the set
of free blocks as it was, even where it zeroes a filler entry; then `free_inode` gives back all blocks of
the inode, or, with the list empty, none. In the second case the inode is still there, with its
blocks, as allocated as the unset `is_allocated` says: `my_mkdir` ignores it (`mkdir.cpp:82`), and the run `kept`
shows the case. It takes an inode that had blocks before `my_mkdir` got it; a new one is always
given back.

Every safety property of the passing runs is a theorem. The inductive invariants of `Files` and
`Directory` were checked with TLC, on the runs' constants, before they were proved.

Left to TLC: `RetrySucceeds` (liveness under fairness, which the provers do not have); the runs that
find a violation; and everything behind indirect addresses, where the properties do not hold.

## 5. Not modelled, and the plan

Abstractions: metadata fields nothing decides on, time stamps, messages. Reading or
writing a whole block in layer 1 cannot fail (`read_from_block` returns the clipped
size), so that the error returns on `res != BLOCK_SIZE` are unreachable and left out. A
write to a block number outside the partition is undefined in C++; the operators
treat it as without effect, and `Directory`, the only one that reaches one, ends there (`wrecked`).

Of `Files`: `open`'s permission test (every file has mode -1, since only `my_mkdir` stores
a mode, so that the test asks for uid 0 or flags 7); arguments that `write` and
`read` refuse (a null pointer, a directory, size 0), which change nothing. What `ReadBack`
leaves open is what the unwritten rest of a block reads as: the code clears no block.
-errno counts as 0, since nothing in the program sets it.

Of indirect blocks: `access_inode_indirect_block_num` takes the 4096 bytes it has read for
an error, so that nothing behind an indirect block is ever reached or stored; the lines
after that (`translate_pos.cpp:24-31`) and the inner indices are unreachable. `free_ind_block`
and its two callers do run, over what such a block happens to hold.
A word there that names no data block is left out (`NoBlockAt`).

Known and modelled, without a run of their own, since each follows from one line:
an entry of -1 that `alloc_block` returns as a failure with blocks free
(`data_structs.cpp:333`); the block between two nodes that is on no list (`:76`);
`free_block` refusing every block once the list is empty (`:363`); the indirect block that
`free_ind_block` does not give back (`:408`); a name in the root that `my_mkdir` takes to
exist already, because `namei` does not look at the last component (`l2helper.cpp:96`).

`mknod.cpp`, `unlink.cpp` and `main.cpp` have no code to model.

Planned, in this order:

1. An abstract specification of files (what `read` returns as a function of what was written),
   with `Files` shown to implement it.
2. A theorem about the result of one `write`: if it found all its blocks, all its words are there.
3. A caller that gives back a block twice (`data_structs.cpp:350`).
