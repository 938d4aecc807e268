------------------------------- MODULE Balloc -------------------------------
(***************************************************************************)
(* The block allocator of kern/fs.c: balloc() and bfree() over the free    *)
(* bitmap, which takes one bitmap block for every BPB blocks of the disk.  *)
(* balloc() remembers where it last found a free block (lastballoc,        *)
(* lastbi) and starts the next search there.  A step is one round of its   *)
(* inner loop.                                                             *)
(***************************************************************************)
EXTENDS Integers

CONSTANTS
  BPB,     \* bits in a bitmap block
  SIZE,    \* sb.size: blocks of the file system
  NMETA    \* the blocks mkfs uses up: boot, super, log, inode, bitmap blocks

ASSUME BallocAssumption ==
  /\ BPB \in Nat \ {0} /\ SIZE \in Nat \ {0}
  /\ NMETA \in 0 .. SIZE - 1

\* The last bitmap block has bits for blocks past the end of the disk.
NBITS == BPB * ((SIZE + BPB - 1) \div BPB)
Bit == 0 .. NBITS - 1

VARIABLES
  used,                \* the bits that are set
  lastballoc, lastbi,  \* where the last block was found
  pc, b, bi,           \* the running search
  ret                  \* the block it returned

vars == <<used, lastballoc, lastbi, pc, b, bi, ret>>

Init ==
  /\ used = 0 .. NMETA - 1
  /\ lastballoc = 0 /\ lastbi = 0
  /\ pc = "idle" /\ b = 0 /\ bi = 0 /\ ret = 0

\* balloc() is called.
balloc ==
  /\ pc = "idle"
  /\ pc' = "search"
  /\ b' = lastballoc /\ bi' = lastbi
  /\ UNCHANGED <<used, lastballoc, lastbi, ret>>

\* Mutant: the bit is not looked at.
FoundUnchecked ==
  /\ pc = "search"
  /\ used' = used \cup {b + bi}
  /\ lastballoc' = b /\ lastbi' = bi
  /\ ret' = b + bi
  /\ pc' = "idle"
  /\ UNCHANGED <<b, bi>>

\* A free block: mark it, clear it, remember the place.
Found ==
  /\ pc = "search"
  /\ b + bi \notin used
  /\ used' = used \cup {b + bi}
  /\ lastballoc' = b /\ lastbi' = bi
  /\ ret' = b + bi
  /\ pc' = "idle"
  /\ UNCHANGED <<b, bi>>

\* The next index of the bitmap block, back to zero at the end of the block
\* or of the disk.
NextBi == IF bi + 1 >= BPB \/ b + bi + 1 >= SIZE THEN 0 ELSE bi + 1

\* Mutant: the last bitmap block is left out.
NextBSkipsLast == IF b + 2 * BPB >= SIZE THEN 0 ELSE b + BPB

\* The first block of the next bitmap block, back to zero at the end.
NextB == IF b + BPB >= SIZE THEN 0 ELSE b + BPB

\* Mutant: the search does not stop at lastballoc.
TryNextNoStop ==
  /\ pc = "search"
  /\ b + bi \in used
  /\ bi' = NextBi
  /\ b' = IF NextBi = lastbi THEN NextB ELSE b
  /\ UNCHANGED <<used, lastballoc, lastbi, pc, ret>>

\* A block in use: try the next bit; back at lastbi, the next bitmap block;
\* back at lastballoc, panic.
TryNext ==
  /\ pc = "search"
  /\ b + bi \in used
  /\ \/ /\ NextBi # lastbi
        /\ bi' = NextBi
        /\ UNCHANGED <<pc, b>>
     \/ /\ NextBi = lastbi
        /\ NextB # lastballoc
        /\ b' = NextB /\ bi' = lastbi
        /\ UNCHANGED pc
     \/ /\ NextBi = lastbi
        /\ NextB = lastballoc
        /\ pc' = "panic"
        /\ UNCHANGED <<b, bi>>
  /\ UNCHANGED <<used, lastballoc, lastbi, ret>>

\* bfree() of a block that was allocated.
bfree(blk) ==
  /\ pc = "idle"
  /\ blk \in used
  /\ used' = used \ {blk}
  /\ UNCHANGED <<lastballoc, lastbi, pc, b, bi, ret>>

Next ==
  \/ balloc
  \/ Found
  \/ TryNext
  \/ \E blk \in Bit \ 0 .. NMETA - 1 : bfree(blk)

Spec == Init /\ [][Next]_vars

-----------------------------------------------------------------------------
\* balloc() returns a block that was free, and leaves every other bit alone:
\* no block is ever given out twice, and the metadata blocks never are.
FreshBlockReturned ==
  [][pc = "search" /\ pc' = "idle" =>
       ret' \notin used /\ used' = used \cup {ret'} /\ ret' >= NMETA]_vars

\* balloc() gives up only when every block of the disk is in use: wherever it
\* starts, the two wrapping loops visit them all.
PanicsOnlyWhenFull == pc = "panic" => 0 .. SIZE - 1 \subseteq used

\* Every search ends.
SearchEnds == pc = "search" ~> pc # "search"

\* A block that balloc() returns is on the disk, as its wrap "if we either
\* exceed the disk size of the bytes per block" is there to ensure.
BlockOnDisk == ret < SIZE
=============================================================================
