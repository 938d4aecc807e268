------------------------------ MODULE BufCache ------------------------------
(***************************************************************************)
(* The buffer cache of kern/bio.c over the block device (blkrw() of        *)
(* kern/usbblk.c).  bwrite() only marks a buffer dirty: data reaches the   *)
(* disk when bflush() runs (the sync system call) or when bget() has to    *)
(* recycle a dirty buffer.                                                 *)
(*                                                                         *)
(* The operators take and return the state of one buffer, so that module   *)
(* Log can build its steps from them.                                      *)
(***************************************************************************)
EXTENDS Integers, Sequences

CONSTANTS
  NBUF,      \* number of buffers
  Block,     \* the blocks of the disk; the code never uses block 0
  Content,   \* what a block may hold
  Zero       \* what every block holds at first

ASSUME NBufAssumption == NBUF \in Nat \ {0}
ASSUME BlockAssumption == Block \subseteq Nat \ {0}
ASSUME ContentAssumption == Zero \in Content

Buf == 1 .. NBUF
NoBlock == 0      \* blockno of a buffer that was never used

VARIABLES
  buf,       \* for each buffer: blockno, valid and dirty flags, refcnt, data
  mru,       \* the buffers in the order of the list, head.next first
  disk,      \* what the device holds
  last,      \* what was last written to each block: what a read must return
  panicked

cacheVars == <<buf, mru, disk, last, panicked>>

\* The zeroed bcache and the list binit() makes of it.
EmptyCache ==
  [b \in Buf |-> [blockno |-> NoBlock, valid |-> FALSE, dirty |-> FALSE,
                  refcnt |-> 0, data |-> Zero]]
InitialList == [i \in 1 .. NBUF |-> NBUF + 1 - i]

CacheInit ==
  /\ buf = EmptyCache
  /\ mru = InitialList
  /\ disk = [blk \in Block |-> Zero]
  /\ last = disk
  /\ panicked = FALSE

-----------------------------------------------------------------------------
\* Mutant: the block is not written.
DiskAfterNone(r) == disk

\* blkrw() on a dirty buffer writes the disk; on any other it reads it.
DiskAfter(r) == IF r.dirty THEN [disk EXCEPT ![r.blockno] = r.data] ELSE disk
blkrw(r) ==
  IF r.dirty
    THEN [r EXCEPT !.dirty = FALSE, !.valid = TRUE]
    ELSE [r EXCEPT !.data = disk[r.blockno], !.valid = TRUE]

Before(b, c) == \E i, j \in 1 .. NBUF : i <= j /\ mru[i] = b /\ mru[j] = c
IsFirst(S, b) == b \in S /\ \A c \in S : Before(b, c)
IsLast(S, b) == b \in S /\ \A c \in S : Before(c, b)

Cached(blk) == {b \in Buf : buf[b].blockno = blk}
Unused == {b \in Buf : buf[b].refcnt = 0}
\* Mutant: buffers in use are not left alone.
CleanOrInUse == {b \in Buf : ~buf[b].dirty}

Clean == {b \in Unused : ~buf[b].dirty}

\* A buffer recycled for blk and then filled from the disk by bread().
Recycled(blk) ==
  [blockno |-> blk, valid |-> TRUE, dirty |-> FALSE, refcnt |-> 1, data |-> disk[blk]]

\* bread() of a block that has a buffer; bread() reads it if it is not valid.
BreadCached(blk, b) ==
  LET r == [buf[b] EXCEPT !.refcnt = @ + 1] IN
  /\ IsFirst(Cached(blk), b)
  /\ buf' = [buf EXCEPT ![b] = IF r.valid THEN r ELSE blkrw(r)]
  /\ UNCHANGED <<disk, panicked>>

\* bread() of a block that has none: the least recently used clean buffer,
BreadClean(blk, b) ==
  /\ Cached(blk) = {}
  /\ IsLast(Clean, b)
  /\ buf' = [buf EXCEPT ![b] = Recycled(blk)]
  /\ UNCHANGED <<disk, panicked>>

\* or the least recently used dirty one, written out first.
BreadEvict(blk, b) ==
  /\ Cached(blk) = {} /\ Clean = {}
  /\ IsLast(Unused, b)
  /\ disk' = DiskAfter(buf[b])
  /\ buf' = [buf EXCEPT ![b] = Recycled(blk)]
  /\ UNCHANGED panicked

\* bread(blk) returns buffer b.
bread(blk, b) ==
  /\ BreadCached(blk, b) \/ BreadClean(blk, b) \/ BreadEvict(blk, b)
  /\ UNCHANGED <<mru, last>>

\* bread(blk) finds every buffer in use.
BreadPanic(blk) ==
  /\ Cached(blk) = {} /\ Unused = {}
  /\ panicked' = TRUE
  /\ UNCHANGED <<buf, mru, disk, last>>

\* Mutant: the buffer is not marked dirty.
ModifiedClean(r, v) == [r EXCEPT !.data = v]

\* The caller changes the data of a buffer and calls bwrite() or log_write().
Modified(r, v) == [r EXCEPT !.data = v, !.dirty = TRUE]

\* brelse() drops a reference; the last one moves the buffer to the front.
Released(r) == [r EXCEPT !.refcnt = @ - 1]
ToFront(list, b) == <<b>> \o SelectSeq(list, LAMBDA c : c # b)
ReleasedMru(list, b) == IF buf[b].refcnt = 1 THEN ToFront(list, b) ELSE list

\* brelse(b)
brelse(b) ==
  /\ buf[b].refcnt > 0
  /\ buf' = [buf EXCEPT ![b] = Released(@)]
  /\ mru' = ReleasedMru(mru, b)
  /\ UNCHANGED <<disk, last, panicked>>

\* bwrite(b) by a caller that holds b and has changed its data to v.
bwrite(b, v) ==
  /\ buf[b].refcnt > 0
  /\ buf' = [buf EXCEPT ![b] = Modified(@, v)]
  /\ last' = [last EXCEPT ![buf[b].blockno] = v]
  /\ UNCHANGED <<mru, disk, panicked>>

\* bflush(): every dirty buffer is written.
bflush ==
  /\ buf' = [b \in Buf |-> IF buf[b].dirty THEN blkrw(buf[b]) ELSE buf[b]]
  /\ disk' = [blk \in Block |->
                IF \E b \in Cached(blk) : buf[b].dirty
                  THEN buf[CHOOSE b \in Cached(blk) : buf[b].dirty].data
                  ELSE disk[blk]]
  /\ UNCHANGED <<mru, last, panicked>>

-----------------------------------------------------------------------------
CONSTANT MaxRef    \* bound on the references to one buffer

CacheNext ==
  /\ ~panicked
  /\ \/ \E blk \in Block, b \in Buf : buf[b].refcnt < MaxRef /\ bread(blk, b)
     \/ \E blk \in Block : BreadPanic(blk)
     \/ \E b \in Buf : brelse(b)
     \/ \E b \in Buf, v \in Content : bwrite(b, v)
     \/ bflush

CacheSpec == CacheInit /\ [][CacheNext]_cacheVars

-----------------------------------------------------------------------------
Buffer == [blockno : Block \cup {NoBlock}, valid : BOOLEAN, dirty : BOOLEAN,
           refcnt : Nat, data : Content]

CacheTypeOK ==
  /\ buf \in [Buf -> Buffer]
  /\ disk \in [Block -> Content]
  /\ last \in [Block -> Content]
  /\ panicked \in BOOLEAN

\* A block is never in two buffers, which could then disagree.
OneBufferPerBlock ==
  \A b, c \in Buf :
    buf[b].blockno = buf[c].blockno /\ buf[b].blockno # NoBlock => b = c

\* bread() gives the data last written to the block, by whichever of cache
\* hit, disk read or write-back and reload it comes: every buffer a caller
\* holds is valid and current.
ReadsSeeLastWrite ==
  \A b \in Buf : buf[b].refcnt > 0 =>
    buf[b].valid /\ buf[b].data = last[buf[b].blockno]

\* No write is dropped: what is not on the disk is in a dirty buffer.
NoWriteLost ==
  \A blk \in Block : disk[blk] = last[blk] \/
    \E b \in Buf : buf[b].blockno = blk /\ buf[b].dirty /\ buf[b].data = last[blk]

\* A buffer in use is never recycled for another block, and its data never
\* changes but by a write of a holder.
HeldBufferKept ==
  [][\A b \in Buf : buf[b].refcnt > 0 =>
       /\ buf'[b].blockno = buf[b].blockno
       /\ buf'[b].data # buf[b].data => buf'[b].dirty]_cacheVars

\* After bflush() the disk holds everything ever written.
FlushWritesAll == [][bflush => disk' = last]_cacheVars
=============================================================================
