-------------------------------- MODULE Log --------------------------------
(***************************************************************************)
(* The write-ahead log of kern/log.c, over the buffer cache.  One file     *)
(* system call at a time runs between begin_op() and end_op(), because the *)
(* kernel is not preemptive and no such call sleeps.  What can happen in   *)
(* the middle is a crash: every call of bread() and every buffer that      *)
(* bflush() writes is a step of its own, so that a crash can fall between  *)
(* any two disk writes.                                                    *)
(*                                                                         *)
(* The contents of a block are a sequence: the block numbers in the log    *)
(* header, the transaction and the block it was written for in any other.  *)
(***************************************************************************)
EXTENDS BufCache

CONSTANTS
  LogStart,      \* block number of the log header
  LOGSIZE,       \* entries of the header; blocks of the log
  MAXOPBLOCKS,   \* blocks a file system call writes at most
  Home,          \* the blocks outside the log
  MaxTx,         \* bound on the number of transactions
  MaxCrash       \* bound on the number of crashes

\* Mutant: every entry goes to the first block of the log.
LogBlockFirst(tail) == LogStart + 1

LogBlock(tail) == LogStart + tail

ASSUME LogAssumption ==
  /\ LogStart \in Nat \ {0} /\ LOGSIZE \in Nat
  /\ MAXOPBLOCKS \in Nat \ {0} /\ MAXOPBLOCKS < LOGSIZE - 1
  /\ Home \cap LogStart .. LogBlock(LOGSIZE - 1) = {}
  /\ MaxTx \in Nat /\ MaxCrash \in Nat

\* The blocks are on the disk, and commit() has the two buffers it copies with.
ASSUME LogDiskAssumption ==
  /\ Home \cup LogStart .. LogBlock(MAXOPBLOCKS) \subseteq Block
  /\ NBUF >= 2

\* A block can hold what the calls write, and a header; a header of zeroes has
\* no entries.
ASSUME LogContentAssumption ==
  /\ Zero = <<>>
  /\ \A t \in 1 .. MaxTx, h \in Home : <<t, h>> \in Content
  /\ \A n \in 0 .. MAXOPBLOCKS : [1 .. n -> Home] \subseteq Content

VARIABLES
  lh,           \* log.lh: the blocks logged, in order
  outstanding, committing,
  pc, tail,     \* where the running call is in log.c, and its loop counter
  lbuf, dbuf,   \* the buffers it holds: of a log block, of a home block
  tx,           \* number of the transaction that runs or ran last
  crashes,      \* crashes so far
  hist,         \* what Home held after each call since the last sync
  synced,       \* what Home held at the last sync
  touched,      \* has the disk been written since then?
  fresh         \* nothing happened since a crash that found it untouched

log == <<lh, outstanding, committing>>
ghosts == <<tx, crashes, hist, synced, touched, fresh>>
logVars == <<cacheVars, log, pc, tail, lbuf, dbuf, ghosts>>

HomeState == [h \in Home |-> last[h]]

LogInit ==
  /\ CacheInit
  /\ lh = <<>> /\ outstanding = 0 /\ committing = FALSE
  /\ pc = "idle" /\ tail = 1 /\ lbuf = 1 /\ dbuf = 1
  /\ tx = 0 /\ crashes = 0
  /\ hist = {HomeState} /\ synced = HomeState
  /\ touched = FALSE /\ fresh = FALSE

Goto(label) == pc' = label
DiskTouched == touched' = (touched \/ disk' # disk)

-----------------------------------------------------------------------------
\* begin_op(), for the system call number tx+1.  It spins for ever while the
\* log is being committed or has no room.
begin_op ==
  /\ pc = "idle" /\ tx < MaxTx
  /\ ~committing
  /\ Len(lh) + (outstanding + 1) * MAXOPBLOCKS <= LOGSIZE
  /\ outstanding' = outstanding + 1
  /\ tx' = tx + 1
  /\ fresh' = FALSE
  /\ Goto("op")
  /\ UNCHANGED <<cacheVars, lh, committing, tail, lbuf, dbuf, crashes, hist, synced, touched>>

\* The call reads a block it is going to change; it changes at most
\* MAXOPBLOCKS different ones.
OpRead(h) ==
  /\ pc = "op"
  /\ \/ \E i \in 1 .. Len(lh) : lh[i] = h
     \/ Len(lh) < MAXOPBLOCKS
  /\ \E b \in Buf : bread(h, b) /\ dbuf' = b
  /\ DiskTouched
  /\ Goto("modify")
  /\ UNCHANGED <<log, tail, lbuf, tx, crashes, hist, synced, fresh>>

\* The logged blocks after log_write() of block blk; absorption keeps one
\* entry for a block written twice.
Logged(blk) ==
  IF \E i \in 1 .. Len(lh) : lh[i] = blk THEN lh ELSE Append(lh, blk)

\* It changes the block, calls log_write() and releases it.
log_write ==
  /\ pc = "modify"
  /\ IF Len(lh) >= LOGSIZE - 1 \/ outstanding < 1
       THEN /\ panicked' = TRUE
            /\ UNCHANGED <<buf, mru, last, lh, pc>>
       ELSE /\ lh' = Logged(buf[dbuf].blockno)
            /\ buf' = [buf EXCEPT ![dbuf] = Released(Modified(@, <<tx, @.blockno>>))]
            /\ mru' = ReleasedMru(mru, dbuf)
            /\ last' = [last EXCEPT ![buf[dbuf].blockno] = <<tx, buf[dbuf].blockno>>]
            /\ Goto("op")
            /\ UNCHANGED panicked
  /\ UNCHANGED <<disk, outstanding, committing, tail, lbuf, dbuf, ghosts>>

\* Mutant: the call is not counted out when it commits.
end_opStillOutstanding ==
  /\ pc = "op"
  /\ committing' = (lh # <<>>)
  /\ Goto(IF lh # <<>> THEN "log_to" ELSE "idle")
  /\ tail' = 1
  /\ hist' = hist \cup {HomeState}
  /\ UNCHANGED <<cacheVars, outstanding, lh, lbuf, dbuf, tx, crashes, synced, touched, fresh>>

\* end_op(): commit() when this was the only call and something was logged.
end_op ==
  /\ pc = "op"
  /\ outstanding' = outstanding - 1
  /\ IF committing
       THEN panicked' = TRUE /\ UNCHANGED <<committing, pc>>
       ELSE /\ committing' = (outstanding' = 0 /\ lh # <<>>)
            /\ Goto(IF outstanding' = 0 /\ lh # <<>> THEN "log_to" ELSE "idle")
            /\ UNCHANGED panicked
  /\ tail' = 1
  /\ hist' = hist \cup {HomeState}
  /\ UNCHANGED <<buf, mru, disk, last, lh, lbuf, dbuf, tx, crashes, synced, touched, fresh>>

\* A step of commit() or of recovery that calls bread(blk) and keeps the
\* buffer in lbuf, or in dbuf.
ReadLbuf(blk, next) ==
  /\ \E b \in Buf : bread(blk, b) /\ lbuf' = b
  /\ DiskTouched
  /\ Goto(next)
  /\ UNCHANGED <<log, tail, dbuf, tx, crashes, hist, synced, fresh>>
ReadDbuf(blk, next) ==
  /\ \E b \in Buf : bread(blk, b) /\ dbuf' = b
  /\ DiskTouched
  /\ Goto(next)
  /\ UNCHANGED <<log, tail, lbuf, tx, crashes, hist, synced, fresh>>

\* Mutant: src is not released.
CopyLeaksBuffer(dst, src, first, second) ==
  /\ buf' = [buf EXCEPT ![dst] = Released(Modified(@, buf[src].data))]
  /\ last' = [last EXCEPT ![buf[dst].blockno] = buf[src].data]
  /\ mru' = ReleasedMru(mru, dst)
  /\ UNCHANGED <<disk, panicked>>

\* memmove() of src's data into dst, bwrite(dst), and brelse() of first and
\* then of second, which are src and dst in some order.
CopyAndRelease(dst, src, first, second) ==
  /\ buf' = [buf EXCEPT ![dst] = Released(Modified(@, buf[src].data)),
                        ![src] = Released(@)]
  /\ last' = [last EXCEPT ![buf[dst].blockno] = buf[src].data]
  /\ mru' = ReleasedMru(ReleasedMru(mru, first), second)
  /\ UNCHANGED <<disk, panicked>>

\* One round of a loop over the log, then on to label "next".
Loop(again, next) ==
  IF tail < Len(lh)
    THEN tail' = tail + 1 /\ Goto(again)
    ELSE tail' = 1 /\ Goto(next)

\* write_log(): each changed block is copied from the cache to the log.
write_log ==
  \/ pc = "log_to" /\ ReadLbuf(LogBlock(tail), "log_from")
  \/ pc = "log_from" /\ ReadDbuf(lh[tail], "log_copy")
  \/ /\ pc = "log_copy"
     /\ CopyAndRelease(lbuf, dbuf, dbuf, lbuf)
     /\ Loop("log_to", "head_read")
     /\ UNCHANGED <<log, lbuf, dbuf, ghosts>>

\* write_head(): the header block gets lh.  A header with entries is the
\* commit, followed by install_trans(); the empty one erases it and ends
\* commit() or recovery.
write_head ==
  \/ pc = "head_read" /\ ReadLbuf(LogStart, "head_write")
  \/ /\ pc = "head_write"
     /\ buf' = [buf EXCEPT ![lbuf] = Released(Modified(@, lh))]
     /\ mru' = ReleasedMru(mru, lbuf)
     /\ last' = [last EXCEPT ![LogStart] = lh]
     /\ IF lh # <<>> THEN Goto("install_log") /\ UNCHANGED committing
                     ELSE Goto("idle") /\ committing' = FALSE
     /\ UNCHANGED <<disk, panicked, lh, outstanding, tail, lbuf, dbuf, ghosts>>

\* Mutant: commit() does not erase the log after installing it.
install_transNoErase ==
  \/ pc = "install_log" /\ ReadLbuf(LogBlock(tail), "install_home")
  \/ pc = "install_home" /\ ReadDbuf(lh[tail], "install_copy")
  \/ /\ pc = "install_copy"
     /\ CopyAndRelease(dbuf, lbuf, lbuf, dbuf)
     /\ Loop("install_log", "idle")
     /\ lh' = IF tail < Len(lh) THEN lh ELSE <<>>
     /\ committing' = (committing /\ tail < Len(lh))
     /\ UNCHANGED <<outstanding, lbuf, dbuf, ghosts>>

\* install_trans(): each logged block is copied home; then lh is emptied.
install_trans ==
  \/ pc = "install_log" /\ ReadLbuf(LogBlock(tail), "install_home")
  \/ pc = "install_home" /\ ReadDbuf(lh[tail], "install_copy")
  \/ /\ pc = "install_copy"
     /\ CopyAndRelease(dbuf, lbuf, lbuf, dbuf)
     /\ Loop("install_log", "head_read")
     /\ lh' = IF tail < Len(lh) THEN lh ELSE <<>>
     /\ UNCHANGED <<outstanding, committing, lbuf, dbuf, ghosts>>

\* read_head() in recover_from_log(): lh comes from the disk.
read_head ==
  \/ pc = "recover" /\ ReadLbuf(LogStart, "head_load")
  \/ /\ pc = "head_load"
     /\ lh' = buf[lbuf].data
     /\ buf' = [buf EXCEPT ![lbuf] = Released(@)]
     /\ mru' = ReleasedMru(mru, lbuf)
     /\ Goto(IF lh' # <<>> THEN "install_log" ELSE "head_read")
     /\ tail' = 1
     /\ UNCHANGED <<disk, last, panicked, outstanding, committing, lbuf, dbuf, ghosts>>

\* sys_sync(): bflush() goes through the buffers in the order of the array.
sys_sync ==
  \/ /\ pc = "idle"
     /\ tail' = 1 /\ Goto("flush")
     /\ fresh' = FALSE
     /\ UNCHANGED <<cacheVars, log, lbuf, dbuf, tx, crashes, hist, synced, touched>>
  \/ /\ pc = "flush" /\ tail <= NBUF
     /\ disk' = DiskAfter(buf[tail])
     /\ buf' = IF buf[tail].dirty THEN [buf EXCEPT ![tail] = blkrw(@)] ELSE buf
     /\ tail' = tail + 1
     /\ DiskTouched
     /\ UNCHANGED <<mru, last, panicked, log, pc, lbuf, dbuf, tx, crashes, hist, synced, fresh>>
  \/ /\ pc = "flush" /\ tail > NBUF
     /\ tail' = 1 /\ Goto("idle")
     /\ hist' = {HomeState} /\ synced' = HomeState /\ touched' = FALSE
     /\ UNCHANGED <<cacheVars, log, lbuf, dbuf, tx, crashes, fresh>>

\* Power fails, and the machine boots: kmain() up to initlog().  What a read
\* has to return from now on is what the disk holds.
Crash ==
  /\ crashes < MaxCrash
  /\ crashes' = crashes + 1
  /\ buf' = EmptyCache /\ mru' = InitialList
  /\ last' = disk /\ disk' = disk /\ panicked' = FALSE
  /\ lh' = <<>> /\ outstanding' = 0 /\ committing' = FALSE
  /\ Goto("recover") /\ tail' = 1 /\ lbuf' = 1 /\ dbuf' = 1
  /\ fresh' = ~touched
  /\ UNCHANGED <<tx, hist, synced, touched>>

LogNext ==
  \/ Crash
  \/ /\ ~panicked
     /\ \/ begin_op
        \/ \E h \in Home : OpRead(h)
        \/ log_write
        \/ end_op
        \/ write_log
        \/ write_head
        \/ install_trans
        \/ read_head
        \/ sys_sync

LogSpec == LogInit /\ [][LogNext]_logVars

-----------------------------------------------------------------------------
InCommit == committing /\ pc # "op"

\* commit() moves data around but changes none: through write_log(),
\* write_head() and install_trans(), whatever buffers they evict on the way,
\* every block outside the log keeps the contents the calls gave it.
CommitKeepsContents ==
  [][InCommit /\ crashes' = crashes => HomeState' = HomeState]_logVars

\* Between calls the log is empty in memory and, once written out, on disk:
\* a later recovery does not replay an old transaction over newer data.
LogErasedWhenIdle ==
  pc = "idle" => lh = <<>> /\ last[LogStart] = Zero

\* begin_op() never spins: it would do so for ever, since no other process
\* can run to make room.
BeginOpNeverSpins ==
  pc = "idle" =>
    /\ ~committing /\ outstanding = 0
    /\ Len(lh) + (outstanding + 1) * MAXOPBLOCKS <= LOGSIZE

\* No call of the log panics: not for a log too small, not for a block logged
\* outside a transaction, and not in bget() for want of a buffer.
NeverPanics ==
  /\ ~panicked
  /\ pc \in {"op", "log_to", "log_from", "head_read", "install_log", "install_home",
            "recover"} => Unused # {}

\* A crash costs what was done since the last sync and no more: if no block
\* was written to the disk since, recovery brings back exactly the state at
\* the sync, whatever call, commit or recovery the crash interrupted.
SyncedStateRecovered == pc = "idle" /\ fresh => HomeState = synced

\* What "crash recovery for multi-step updates" would mean: after a crash at
\* any moment, the file system is as some call since the last sync left it,
\* never half of a call.
RecoversToCommittedState == pc = "idle" => HomeState \in hist
=============================================================================
