----------------------------- MODULE LogProofs -----------------------------
(***************************************************************************)
(* The log over the buffer cache, with crashes, for any number of buffers, *)
(* blocks, transactions and crashes.                                       *)
(***************************************************************************)
EXTENDS Log, BufCacheProofs

InCall == {"op", "modify"}
Logging == {"log_to", "log_from", "log_copy"}
Heading == {"head_read", "head_write"}
Installing == {"install_log", "install_home", "install_copy"}
Between == {"idle", "flush"}
Reading == {"recover", "head_load"}

\* What the header block may hold.
Header == {c \in Seq(Home) : Len(c) <= MAXOPBLOCKS}

LogTypeOK ==
  /\ lh \in Header
  /\ outstanding \in Nat /\ committing \in BOOLEAN
  /\ tail \in Nat \ {0} /\ lbuf \in Buf /\ dbuf \in Buf
  /\ tx \in 0 .. MaxTx /\ crashes \in Nat
  /\ synced \in [Home -> Content]
  /\ touched \in BOOLEAN /\ fresh \in BOOLEAN

\* Which call runs where: one call between begin_op() and end_op(), a commit
\* only with something logged, and the loops within the log.
Phases ==
  /\ pc \in InCall \cup Logging \cup Heading \cup Installing \cup Between \cup Reading
  /\ outstanding = IF pc \in InCall THEN 1 ELSE 0
  /\ pc \in InCall => tx # 0
  /\ committing => pc \in Logging \cup Heading \cup Installing
  /\ pc \in Logging => committing
  /\ pc \in Heading /\ lh # <<>> => committing
  /\ pc \in Between \cup Reading => lh = <<>>
  /\ pc \in Logging \cup Installing => tail <= Len(lh)
  /\ pc \in Heading => tail = 1

\* The buffers that the running call holds, once each, and their blocks.
HoldsLbuf == pc \in {"log_from", "log_copy", "head_write", "install_home", "install_copy",
                     "head_load"}
HoldsDbuf == pc \in {"modify", "log_copy", "install_copy"}

Holding ==
  /\ \A b \in Buf : buf[b].refcnt = (IF HoldsLbuf /\ b = lbuf THEN 1 ELSE 0)
                                      + (IF HoldsDbuf /\ b = dbuf THEN 1 ELSE 0)
  /\ pc \in {"log_from", "log_copy", "install_home", "install_copy"} =>
       buf[lbuf].blockno = LogBlock(tail)
  /\ pc \in {"log_copy", "install_copy"} => buf[dbuf].blockno = lh[tail]
  /\ pc \in {"head_write", "head_load"} => buf[lbuf].blockno = LogStart
  /\ pc = "modify" =>
       /\ buf[dbuf].blockno \in Home
       /\ \/ \E i \in 1 .. Len(lh) : lh[i] = buf[dbuf].blockno
          \/ Len(lh) < MAXOPBLOCKS

\* The copies that commit() has made so far are those of the blocks.
Copies ==
  committing =>
    \A i \in 1 .. Len(lh) : (pc \in Logging => i < tail) => last[LogBlock(i)] = last[lh[i]]

\* The header is one that a commit wrote, or empty, on the disk and as last
\* written; between commits it is empty as last written.
Headers ==
  /\ last[LogStart] \in Header /\ disk[LogStart] \in Header
  /\ pc \in Between \cup InCall => last[LogStart] = Zero

\* bflush() is past clean buffers.  While the disk has not been written since
\* a sync it holds the synced state with an empty log, and a recovery from it
\* finds that.
Syncs ==
  /\ pc = "flush" => \A b \in Buf : b < tail => ~buf[b].dirty
  /\ ~touched => disk[LogStart] = Zero /\ \A h \in Home : disk[h] = synced[h]
  /\ fresh =>
       /\ pc \in Reading \cup Heading \cup {"idle"} /\ lh = <<>>
       /\ pc \in Reading => last[LogStart] = Zero
       /\ \A h \in Home : last[h] = synced[h]

LogInv ==
  /\ CacheInv /\ ~panicked
  /\ LogTypeOK /\ Phases /\ Holding /\ Copies /\ Headers /\ Syncs

-----------------------------------------------------------------------------
\* The blocks of the log, of the header and outside are different blocks.
LEMMA LogBlocks ==
  /\ MAXOPBLOCKS \in Nat /\ LogStart \in Nat \ {0} /\ MAXOPBLOCKS < LOGSIZE - 1
  /\ LOGSIZE \in Nat
  /\ LogStart \in Block /\ LogStart \notin Home
  /\ Home \subseteq Block
  /\ \A i \in 1 .. MAXOPBLOCKS : /\ LogBlock(i) \in Block \ Home
                                 /\ LogBlock(i) # LogStart
  /\ \A i, j \in 1 .. MAXOPBLOCKS : LogBlock(i) = LogBlock(j) => i = j
BY LogAssumption, LogDiskAssumption DEF LogBlock

\* A header fits in a block.
LEMMA HeaderFits == Header \subseteq Content /\ Zero \in Header /\ Zero = <<>>
<1>1. ASSUME NEW c \in Header PROVE c \in Content
  <2>1. Len(c) \in 0 .. MAXOPBLOCKS /\ c \in [1 .. Len(c) -> Home]
    BY LogBlocks DEF Header
  <2> QED BY <2>1, LogContentAssumption, Zenon
<1>2. <<>> \in Seq(Home) /\ Len(<<>>) = 0
  OBVIOUS
<1> QED BY <1>1, <1>2, LogContentAssumption, LogBlocks DEF Header

\* The types that the steps rely on.
LEMMA LogTypes ==
  ASSUME LogInv
  PROVE  /\ buf \in [Buf -> Buffer] /\ disk \in [Block -> Content]
         /\ last \in [Block -> Content] /\ panicked = FALSE
         /\ lh \in Seq(Home) /\ Len(lh) \in 0 .. MAXOPBLOCKS
         /\ \A i \in 1 .. Len(lh) : lh[i] \in Home
         /\ tail \in Nat \ {0} /\ lbuf \in Buf /\ dbuf \in Buf
<1>1. panicked = FALSE
  BY Zenon DEF LogInv, CacheInv, CacheTypeOK
<1> QED BY <1>1, LogBlocks DEF LogInv, CacheInv, CacheTypeOK, LogTypeOK, Header

LEMMA LogInitInv == LogInit => LogInv
<1> SUFFICES ASSUME LogInit PROVE LogInv
  OBVIOUS
<1>1. CacheInv /\ ~panicked
  BY CacheInitInv, Zenon DEF LogInit, CacheInit
<1>2. 1 \in Buf
  BY NBufAssumption DEF Buf
<1>3. last = [blk \in Block |-> Zero] /\ disk = last
  BY Zenon DEF LogInit, CacheInit
<1>4. LogTypeOK
  <2>1. committing \in BOOLEAN /\ touched \in BOOLEAN /\ fresh \in BOOLEAN
    BY Zenon DEF LogInit
  <2>2. synced \in [Home -> Content]
    BY <1>3, LogBlocks, ContentAssumption, Zenon DEF LogInit, HomeState
  <2> QED BY <1>2, <2>1, <2>2, HeaderFits, LogAssumption DEF LogInit, LogTypeOK
<1>5. Phases
  BY Zenon DEF LogInit, Phases, InCall, Logging, Heading, Installing, Between, Reading
<1>6. Holding
  <2>1. \A b \in Buf : buf[b].refcnt = 0
    BY Zenon DEF LogInit, CacheInit, EmptyCache
  <2> QED BY <2>1 DEF LogInit, Holding, HoldsLbuf, HoldsDbuf
<1>7. Copies /\ Headers
  BY <1>3, LogBlocks, HeaderFits, Zenon DEF LogInit, Copies, Headers
<1>8. Syncs
  BY <1>3, LogBlocks, Zenon DEF LogInit, Syncs, HomeState
<1> QED BY <1>1, <1>4, <1>5, <1>6, <1>7, <1>8, Zenon DEF LogInv

-----------------------------------------------------------------------------
\* What bread() does to the disk: it writes a block that has been written
\* before, or none.
LEMMA BreadDisk ==
  ASSUME LogInv, NEW blk \in Block, NEW b \in Buf, bread(blk, b)
  PROVE  /\ last' = last /\ panicked' = panicked
         /\ \A x \in Block : disk'[x] = disk[x] \/ disk'[x] = last[x]
<1>1. last' = last /\ panicked' = panicked
  BY Zenon DEF bread, BreadCached, BreadClean, BreadEvict
<1>2. \A x \in Block : disk'[x] = disk[x] \/ disk'[x] = last[x]
  <2>1. CASE disk' = disk
    BY <2>1, Zenon
  <2>2. CASE buf[b].dirty /\ disk' = [disk EXCEPT ![buf[b].blockno] = buf[b].data]
    <3>1. buf[b].blockno # NoBlock => buf[b].data = last[buf[b].blockno]
      BY Zenon DEF LogInv, CacheInv, Coherent
    <3> QED BY <2>2, <3>1, LogTypes, BlockFacts, Zenon
  <2> QED BY <2>1, <2>2, Zenon DEF bread, BreadCached, BreadClean, BreadEvict, DiskAfter
<1> QED BY <1>1, <1>2, Zenon

\* bread() of a block that is not held gives a buffer with one reference.
LEMMA BreadHolds ==
  ASSUME LogInv, NEW blk \in Block, NEW b \in Buf, bread(blk, b)
  PROVE  /\ buf'[b].blockno = blk
         /\ buf[b].refcnt = 0 => buf'[b].refcnt = 1
         /\ buf[b].refcnt # 0 => buf[b].blockno = blk
         /\ \A c \in Buf : c # b => buf'[c] = buf[c]
<1>1. buf[b] \in Buffer /\ buf \in [Buf -> Buffer]
  BY LogTypes, Zenon
<1>2. CASE BreadCached(blk, b)
  <2>1. buf[b].blockno = blk /\ buf[b].valid
    BY <1>2, BlockFacts DEF BreadCached, IsFirst, Cached, LogInv, CacheInv, Coherent
  <2>2. buf' = [buf EXCEPT ![b] = [buf[b] EXCEPT !.refcnt = @ + 1]]
    BY <1>1, <1>2, <2>1, Zenon DEF BreadCached, Buffer
  <2> QED BY <1>1, <2>1, <2>2 DEF Buffer
<1>3. CASE BreadClean(blk, b) \/ BreadEvict(blk, b)
  <2>1. buf[b].refcnt = 0 /\ buf' = [buf EXCEPT ![b] = Recycled(blk)]
    BY <1>3, Zenon DEF BreadClean, BreadEvict, IsLast, Clean, Unused
  <2> QED BY <1>1, <2>1, Zenon DEF Recycled
<1> QED BY <1>2, <1>3, Zenon DEF bread

-----------------------------------------------------------------------------
\* A step that writes v to buffer d in the cache, whatever references it drops.
LEMMA WriteStep ==
  ASSUME CacheInv, NEW d \in Buf, NEW v \in Content, buf[d].blockno # NoBlock,
         buf' \in [Buf -> Buffer],
         buf'[d].dirty, buf'[d].data = v,
         \A c \in Buf : /\ buf'[c].blockno = buf[c].blockno /\ buf'[c].valid = buf[c].valid
                        /\ buf[c].blockno = NoBlock => buf'[c].refcnt = 0
                        /\ c # d => buf'[c].dirty = buf[c].dirty /\ buf'[c].data = buf[c].data,
         last' = [last EXCEPT ![buf[d].blockno] = v], disk' = disk, panicked' = panicked
  PROVE  CacheInv'
<1>1. /\ buf \in [Buf -> Buffer] /\ last \in [Block -> Content] /\ disk \in [Block -> Content]
      /\ panicked \in BOOLEAN
  BY Zenon DEF CacheInv, CacheTypeOK
<1>2. buf[d].blockno \in Block
  BY <1>1, Zenon DEF Buffer
<1>3. /\ last' \in [Block -> Content] /\ last'[buf[d].blockno] = v
      /\ \A x \in Block : x # buf[d].blockno => last'[x] = last[x]
  BY <1>1, <1>2, Zenon
<1>4. CacheTypeOK' /\ OneBufferPerBlock'
  BY <1>1, <1>3 DEF CacheInv, CacheTypeOK, OneBufferPerBlock
<1>5. ASSUME NEW c \in Buf PROVE Coherent(buf[c])'
  <2>1. CASE c = d
    BY <1>1, <1>2, <1>3, <2>1, BlockFacts, Zenon DEF CacheInv, Coherent
  <2>2. CASE c # d
    <3>1. buf[c].blockno # NoBlock => buf[c].blockno \in Block /\ buf[c].blockno # buf[d].blockno
      BY <1>1, <2>2, Zenon DEF CacheInv, OneBufferPerBlock, Buffer
    <3> QED BY <1>3, <2>2, <3>1 DEF CacheInv, Coherent
  <2> QED BY <2>1, <2>2, Zenon
<1>6. ASSUME NEW x \in Block, Cached(x)' = {} PROVE disk'[x] = last'[x]
  <2>1. Cached(x) = {} /\ x # buf[d].blockno
    BY <1>6 DEF Cached
  <2> QED BY <1>3, <2>1, Zenon DEF CacheInv
<1> QED BY <1>4, <1>5, <1>6, Zenon DEF CacheInv

\* A buffer the call holds is in use for a block, and has what was last
\* written to it.
LEMMA HeldBuffer ==
  ASSUME LogInv, NEW b \in Buf, buf[b].refcnt # 0
  PROVE  /\ buf[b].blockno \in Block /\ buf[b].blockno # NoBlock
         /\ buf[b].data = last[buf[b].blockno]
<1>1. buf[b] \in Buffer /\ Coherent(buf[b])
  BY LogTypes, Zenon DEF LogInv, CacheInv
<1> QED BY <1>1, BlockFacts, Zenon DEF Coherent, Buffer

\* CopyAndRelease() writes what the source's block holds to the other's block
\* and leaves no buffer held.
LEMMA CopyStep ==
  ASSUME LogInv, HoldsLbuf, HoldsDbuf, NEW dst, NEW src, NEW f, NEW s,
         (dst = lbuf /\ src = dbuf) \/ (dst = dbuf /\ src = lbuf),
         CopyAndRelease(dst, src, f, s)
  PROVE  /\ CacheInv' /\ panicked' = panicked /\ disk' = disk
         /\ buf[dst].blockno \in Block /\ buf[src].blockno \in Block
         /\ last' = [last EXCEPT ![buf[dst].blockno] = last[buf[src].blockno]]
         /\ \A b \in Buf : buf'[b].refcnt = 0
<1>1. buf \in [Buf -> Buffer] /\ dst \in Buf /\ src \in Buf
  BY LogTypes, Zenon
<1>2. dst # src
  <2>1. buf[lbuf].blockno = LogBlock(tail) /\ buf[dbuf].blockno = lh[tail] /\ tail \in 1 .. Len(lh)
    <3>1. pc \in {"log_copy", "install_copy"}
      BY Zenon DEF HoldsLbuf, HoldsDbuf
    <3>2. tail <= Len(lh)
      BY <3>1, Zenon DEF LogInv, Phases, Logging, Installing
    <3>3. tail \in 1 .. Len(lh)
      BY <3>2, LogTypes
    <3>4. buf[lbuf].blockno = LogBlock(tail) /\ buf[dbuf].blockno = lh[tail]
      BY <3>1, Zenon DEF LogInv, Holding
    <3> QED BY <3>3, <3>4, Zenon
  <2> QED BY <2>1, LogTypes, LogBlocks
<1>3. /\ buf[dst].refcnt = 1 /\ buf[src].refcnt = 1
      /\ \A b \in Buf : b # dst /\ b # src => buf[b].refcnt = 0
  BY <1>1, <1>2 DEF LogInv, Holding
<1>4. PICK v : v = buf[src].data
  OBVIOUS
<1>5. v \in Content /\ v = last[buf[src].blockno] /\ buf[src].blockno \in Block
      /\ buf[dst].blockno \in Block /\ buf[dst].blockno # NoBlock
  BY <1>1, <1>3, <1>4, HeldBuffer DEF Buffer
<1>6. PICK d, e : d = Released(Modified(buf[dst], v)) /\ e = Released(buf[src])
  OBVIOUS
<1>7. /\ d \in Buffer /\ d.blockno = buf[dst].blockno /\ d.valid = buf[dst].valid
      /\ d.data = v /\ d.dirty = TRUE /\ d.refcnt = 0
  <2>1. buf[dst] \in Buffer
    BY <1>1, Zenon
  <2>2. PICK m : m = Modified(buf[dst], v)
    OBVIOUS
  <2>3. /\ m \in Buffer /\ m.blockno = buf[dst].blockno /\ m.valid = buf[dst].valid
        /\ m.data = v /\ m.dirty = TRUE /\ m.refcnt = 1
    BY <1>3, <1>5, <2>1, <2>2, Zenon DEF Modified, Buffer
  <2> QED BY <1>6, <2>2, <2>3 DEF Released, Buffer
<1>8. /\ e \in Buffer /\ e.blockno = buf[src].blockno /\ e.valid = buf[src].valid
      /\ e.data = v /\ e.dirty = buf[src].dirty /\ e.refcnt = 0
  <2>1. buf[src] \in Buffer
    BY <1>1, Zenon
  <2> QED BY <1>3, <1>4, <1>6, <2>1 DEF Released, Buffer
<1>9. /\ buf' = [buf EXCEPT ![dst] = d, ![src] = e]
      /\ last' = [last EXCEPT ![buf[dst].blockno] = v] /\ UNCHANGED <<disk, panicked>>
  BY <1>2, <1>4, <1>6, <1>1, Zenon DEF CopyAndRelease
<1>10. /\ buf' \in [Buf -> Buffer] /\ buf'[dst] = d /\ buf'[src] = e
       /\ \A c \in Buf : c # dst /\ c # src => buf'[c] = buf[c]
  BY <1>1, <1>2, <1>7, <1>8, <1>9, Zenon
<1>11. CacheInv /\ \A c \in Buf : buf[c].blockno = NoBlock => buf[c].refcnt = 0
  BY Zenon DEF LogInv, CacheInv, Coherent
<1>12. CacheInv'
  <2>1. \A c \in Buf : /\ buf'[c].blockno = buf[c].blockno /\ buf'[c].valid = buf[c].valid
                       /\ buf[c].blockno = NoBlock => buf'[c].refcnt = 0
                       /\ c # dst => buf'[c].dirty = buf[c].dirty /\ buf'[c].data = buf[c].data
    BY <1>1, <1>4, <1>7, <1>8, <1>10, <1>11
  <2>2. buf'[dst].dirty /\ buf'[dst].data = v
    BY <1>7, <1>10, Zenon
  <2>3. CacheInv /\ buf' \in [Buf -> Buffer]
    BY <1>10, <1>11, Zenon
  <2> QED BY <1>1, <1>5, <1>9, <2>1, <2>2, <2>3, WriteStep, Zenon
<1> QED BY <1>3, <1>5, <1>7, <1>8, <1>9, <1>10, <1>12, Zenon

-----------------------------------------------------------------------------
\* A call of bread(): what holds after it whichever step it belongs to.
LEMMA ReadStep ==
  ASSUME LogInv, NEW blk \in Block, NEW b \in Buf, bread(blk, b), DiskTouched,
         UNCHANGED <<log, tail, tx, crashes, hist, synced, fresh>>,
         lbuf' \in Buf, dbuf' \in Buf
  PROVE  /\ CacheInv' /\ ~panicked' /\ LogTypeOK' /\ last' = last
         /\ last'[LogStart] \in Header /\ disk'[LogStart] \in Header
         /\ ~touched' => disk'[LogStart] = Zero /\ \A h \in Home : disk'[h] = synced'[h]
<1>1. CacheInv' /\ last' = last /\ panicked' = panicked
  BY BreadKeeps, BreadDisk, Zenon DEF LogInv
<1>2. LogTypeOK'
  <2>1. touched' \in BOOLEAN
    BY Zenon DEF DiskTouched
  <2> QED BY <2>1, Zenon DEF LogInv, LogTypeOK, log
<1>3. last'[LogStart] \in Header /\ disk'[LogStart] \in Header
  BY <1>1, BreadDisk, LogBlocks, Zenon DEF LogInv, Headers
<1>4. ~touched' => disk'[LogStart] = Zero /\ \A h \in Home : disk'[h] = synced'[h]
  BY Zenon DEF DiskTouched, LogInv, Syncs
<1> QED BY <1>1, <1>2, <1>3, <1>4, Zenon DEF LogInv

\* The steps that read a block of the log or the header into lbuf.
LEMMA ReadLbufKeeps ==
  ASSUME LogInv, NEW blk \in Block, NEW next, ReadLbuf(blk, next),
         \/ pc = "log_to" /\ next = "log_from" /\ blk = LogBlock(tail)
         \/ pc = "head_read" /\ next = "head_write" /\ blk = LogStart
         \/ pc = "install_log" /\ next = "install_home" /\ blk = LogBlock(tail)
         \/ pc = "recover" /\ next = "head_load" /\ blk = LogStart
  PROVE  LogInv'
<1>1. PICK b \in Buf : bread(blk, b) /\ lbuf' = b
  BY Zenon DEF ReadLbuf
<1>2. /\ DiskTouched /\ pc' = next
      /\ UNCHANGED <<log, tail, dbuf, tx, crashes, hist, synced, fresh>>
      /\ UNCHANGED <<lh, outstanding, committing>>
  BY Zenon DEF ReadLbuf, Goto, log
<1>3. /\ CacheInv' /\ ~panicked' /\ LogTypeOK' /\ last' = last
      /\ last'[LogStart] \in Header /\ disk'[LogStart] \in Header
      /\ ~touched' => disk'[LogStart] = Zero /\ \A h \in Home : disk'[h] = synced'[h]
  BY <1>1, <1>2, ReadStep, LogTypes, Zenon
<1>4. Phases'
  BY <1>2, Zenon DEF LogInv, Phases, InCall, Logging, Heading, Installing, Between,
     Reading
<1>5. Holding'
  <2>1. \A c \in Buf : buf[c].refcnt = 0
    BY DEF LogInv, Holding, HoldsLbuf, HoldsDbuf
  <2>2. buf'[b].blockno = blk /\ buf'[b].refcnt = 1 /\ \A c \in Buf : c # b => buf'[c].refcnt = 0
    BY <1>1, <2>1, BreadHolds
  <2> QED BY <1>1, <1>2, <2>2 DEF Holding, HoldsLbuf, HoldsDbuf, LogBlock
<1>6. Copies'
  BY <1>2, <1>3, Zenon DEF LogInv, Copies, Logging, LogBlock
<1>7. Headers' /\ Syncs'
  BY <1>2, <1>3, Zenon DEF LogInv, Headers, Syncs, Between, InCall, Reading, Heading
<1> QED BY <1>3, <1>4, <1>5, <1>6, <1>7, Zenon DEF LogInv

\* The steps that read a block outside the log into dbuf, holding lbuf.
LEMMA ReadDbufKeeps ==
  ASSUME LogInv, NEW next, ReadDbuf(lh[tail], next),
         \/ pc = "log_from" /\ next = "log_copy"
         \/ pc = "install_home" /\ next = "install_copy"
  PROVE  LogInv'
<1>0. tail \in 1 .. Len(lh) /\ lh[tail] \in Home /\ lh[tail] \in Block /\ LogBlock(tail) # lh[tail]
  <2>1. tail <= Len(lh)
    BY Zenon DEF LogInv, Phases, Logging, Installing
  <2>2. tail \in 1 .. Len(lh) /\ tail \in 1 .. MAXOPBLOCKS
    BY <2>1, LogTypes, LogBlocks
  <2> QED BY <2>2, LogTypes, LogBlocks, Zenon
<1>1. PICK b \in Buf : bread(lh[tail], b) /\ dbuf' = b
  BY Zenon DEF ReadDbuf
<1>2. /\ DiskTouched /\ pc' = next
      /\ UNCHANGED <<log, tail, lbuf, tx, crashes, hist, synced, fresh>>
      /\ UNCHANGED <<lh, outstanding, committing>>
  BY Zenon DEF ReadDbuf, Goto, log
<1>3. /\ CacheInv' /\ ~panicked' /\ LogTypeOK' /\ last' = last
      /\ last'[LogStart] \in Header /\ disk'[LogStart] \in Header
      /\ ~touched' => disk'[LogStart] = Zero /\ \A h \in Home : disk'[h] = synced'[h]
  BY <1>0, <1>1, <1>2, ReadStep, LogTypes, Zenon
<1>4. Phases'
  BY <1>2, Zenon DEF LogInv, Phases, InCall, Logging, Heading, Installing, Between,
     Reading
<1>5. Holding'
  <2>1. /\ \A c \in Buf : buf[c].refcnt = IF c = lbuf THEN 1 ELSE 0
        /\ buf[lbuf].blockno = LogBlock(tail)
    BY DEF LogInv, Holding, HoldsLbuf, HoldsDbuf
  <2>2. b # lbuf
    BY <1>0, <1>1, <2>1, BreadHolds, LogTypes
  <2>3. /\ buf'[b].blockno = lh[tail] /\ buf'[b].refcnt = 1 /\ buf'[lbuf] = buf[lbuf]
        /\ \A c \in Buf : c # b /\ c # lbuf => buf'[c].refcnt = 0
    BY <1>0, <1>1, <2>1, <2>2, BreadHolds, LogTypes, SMTT(30)
  <2> QED BY <1>1, <1>2, <2>1, <2>2, <2>3, LogTypes DEF Holding, HoldsLbuf, HoldsDbuf,
             LogBlock
<1>6. Copies'
  BY <1>2, <1>3, Zenon DEF LogInv, Copies, Logging, LogBlock
<1>7. Headers' /\ Syncs'
  BY <1>2, <1>3, Zenon DEF LogInv, Headers, Syncs, Between, InCall, Reading, Heading
<1> QED BY <1>3, <1>4, <1>5, <1>6, <1>7, Zenon DEF LogInv

\* The running call reads a block to change.
LEMMA OpReadKeeps ==
  ASSUME LogInv, NEW h \in Home, OpRead(h)
  PROVE  LogInv'
<1>1. PICK b \in Buf : bread(h, b) /\ dbuf' = b
  BY Zenon DEF OpRead
<1>2. /\ DiskTouched /\ pc = "op" /\ pc' = "modify"
      /\ UNCHANGED <<log, tail, lbuf, tx, crashes, hist, synced, fresh>>
      /\ UNCHANGED <<lh, outstanding, committing>>
      /\ (\E i \in 1 .. Len(lh) : lh[i] = h) \/ Len(lh) < MAXOPBLOCKS
  BY SMTT(30) DEF OpRead, Goto, log
<1>3. /\ CacheInv' /\ ~panicked' /\ LogTypeOK' /\ last' = last /\ h \in Block
      /\ last'[LogStart] \in Header /\ disk'[LogStart] \in Header
      /\ ~touched' => disk'[LogStart] = Zero /\ \A x \in Home : disk'[x] = synced'[x]
  BY <1>1, <1>2, ReadStep, LogTypes, LogBlocks, Zenon
<1>4. Phases'
  BY <1>2, Zenon DEF LogInv, Phases, InCall, Logging, Heading, Installing, Between,
     Reading
<1>5. Holding'
  <2>1. \A c \in Buf : buf[c].refcnt = 0
    BY <1>2 DEF LogInv, Holding, HoldsLbuf, HoldsDbuf
  <2>2. buf'[b].blockno = h /\ buf'[b].refcnt = 1 /\ \A c \in Buf : c # b => buf'[c].refcnt = 0
    BY <1>1, <1>3, <2>1, BreadHolds
  <2> QED BY <1>1, <1>2, <2>2 DEF Holding, HoldsLbuf, HoldsDbuf
<1>6. Copies'
  BY <1>2, <1>3, Zenon DEF LogInv, Phases, Copies, Logging, Heading, Installing
<1>7. Headers' /\ Syncs'
  BY <1>2, <1>3, Zenon DEF LogInv, Headers, Syncs, Between, InCall, Reading, Heading
<1> QED BY <1>3, <1>4, <1>5, <1>6, <1>7, Zenon DEF LogInv

-----------------------------------------------------------------------------
\* begin_op() and end_op() leave the cache alone.
LEMMA begin_opKeeps == ASSUME LogInv, begin_op PROVE LogInv'
<1>1. /\ pc = "idle" /\ pc' = "op" /\ lh' = lh /\ committing' = committing
      /\ outstanding' = outstanding + 1 /\ tx' = tx + 1 /\ tx < MaxTx /\ fresh' = FALSE
      /\ UNCHANGED <<cacheVars, tail, lbuf, dbuf, crashes, hist, synced, touched>>
      /\ UNCHANGED <<buf, mru, disk, last, panicked>>
  BY Zenon DEF begin_op, Goto, cacheVars
<1>2. CacheInv' /\ ~panicked'
  BY <1>1, Zenon DEF LogInv, CacheInv, CacheTypeOK, OneBufferPerBlock, Coherent, Cached
<1>3. LogTypeOK'
  <2>1. fresh' \in BOOLEAN
    BY <1>1, Zenon
  <2> QED BY <1>1, <2>1, LogAssumption DEF LogInv, LogTypeOK
<1>4. Phases'
  BY <1>1 DEF LogInv, LogTypeOK, Phases, InCall, Logging, Heading, Installing, Between,
     Reading
<1>5. Holding'
  BY <1>1, Zenon DEF LogInv, Holding, HoldsLbuf, HoldsDbuf
<1>6. Copies' /\ Headers' /\ Syncs'
  BY <1>1, Zenon DEF LogInv, Phases, Copies, Headers, Syncs, InCall, Logging, Heading,
     Installing,
              Between, Reading
<1> QED BY <1>2, <1>3, <1>4, <1>5, <1>6, Zenon DEF LogInv

LEMMA end_opKeeps == ASSUME LogInv, end_op PROVE LogInv'
<1>1. ~committing /\ outstanding = 1 /\ fresh = FALSE /\ pc = "op"
  BY Zenon DEF LogInv, LogTypeOK, Phases, Syncs, end_op, InCall, Logging, Heading,
     Installing, Reading
<1>2. /\ outstanding' = 0 /\ committing' = (lh # <<>>) /\ lh' = lh /\ tail' = 1
      /\ pc' = IF lh # <<>> THEN "log_to" ELSE "idle"
      /\ UNCHANGED <<buf, mru, disk, last, panicked>>
      /\ UNCHANGED <<lbuf, dbuf, tx, crashes, synced, touched, fresh>>
  BY <1>1 DEF end_op, Goto
<1>3. CacheInv' /\ ~panicked'
  BY <1>2, Zenon DEF LogInv, CacheInv, CacheTypeOK, OneBufferPerBlock, Coherent, Cached
<1>4. LogTypeOK'
  <2>1. committing' \in BOOLEAN
    BY <1>2, Zenon
  <2> QED BY <1>2, <2>1 DEF LogInv, LogTypeOK
<1>5. Phases'
  <2>1. lh # <<>> => 1 <= Len(lh)
    BY LogTypes
  <2> QED BY <1>2, <2>1, Zenon DEF Phases, InCall, Logging, Heading, Installing, Between,
             Reading
<1>6. Holding'
  BY <1>1, <1>2, Zenon DEF LogInv, Holding, HoldsLbuf, HoldsDbuf
<1>7. Copies'
  BY <1>2, LogTypes DEF Copies, Logging
<1>8. Headers' /\ Syncs'
  BY <1>1, <1>2, Zenon DEF LogInv, Headers, Syncs, InCall, Between
<1> QED BY <1>3, <1>4, <1>5, <1>6, <1>7, <1>8, Zenon DEF LogInv

\* log_write() never panics, and keeps the log within a call's share.
LEMMA log_writeKeeps == ASSUME LogInv, log_write PROVE LogInv'
<1>1. /\ pc = "modify" /\ outstanding = 1 /\ ~committing /\ ~fresh /\ tx \in 1 .. MaxTx
      /\ last[LogStart] = Zero
  BY LogAssumption DEF LogInv, LogTypeOK, Phases, Syncs, Headers, log_write, InCall,
     Logging,
     Heading, Installing, Reading
<1>2. ~(Len(lh) >= LOGSIZE - 1 \/ outstanding < 1)
  BY <1>1, LogTypes, LogBlocks
<1>3. PICK blk : blk = buf[dbuf].blockno
  OBVIOUS
<1>4. blk \in Home /\ blk \in Block /\ blk # NoBlock
  BY <1>1, <1>3, LogBlocks, BlockFacts, Zenon DEF LogInv, Holding
<1>5. PICK v : v = <<tx, blk>>
  BY Zenon
<1>6. v \in Content
  BY <1>1, <1>4, <1>5, LogContentAssumption, Zenon
<1>7. \A b \in Buf : buf[b].refcnt = IF b = dbuf THEN 1 ELSE 0
  BY <1>1 DEF LogInv, Holding, HoldsLbuf, HoldsDbuf
<1>8. PICK d : d = Released(Modified(buf[dbuf], v))
  OBVIOUS
<1>9. /\ d \in Buffer /\ d.blockno = blk /\ d.valid = buf[dbuf].valid
      /\ d.data = v /\ d.dirty = TRUE /\ d.refcnt = 0
  <2>1. buf[dbuf] \in Buffer /\ buf[dbuf].refcnt = 1
    BY <1>7, LogTypes, Zenon
  <2>2. PICK m : m = Modified(buf[dbuf], v)
    OBVIOUS
  <2>3. /\ m \in Buffer /\ m.blockno = blk /\ m.valid = buf[dbuf].valid
        /\ m.data = v /\ m.dirty = TRUE /\ m.refcnt = 1
    BY <1>3, <1>6, <2>1, <2>2, Zenon DEF Modified, Buffer
  <2> QED BY <1>8, <2>2, <2>3 DEF Released, Buffer
<1>10. /\ lh' = Logged(blk) /\ buf' = [buf EXCEPT ![dbuf] = d]
       /\ last' = [last EXCEPT ![blk] = v] /\ pc' = "op"
       /\ UNCHANGED <<panicked, disk, outstanding, committing, tail, lbuf, dbuf>>
       /\ UNCHANGED <<tx, crashes, hist, synced, touched, fresh>>
  BY <1>2, <1>3, <1>5, <1>8, LogTypes, Zenon DEF log_write, Goto, ghosts
<1>11. buf' \in [Buf -> Buffer] /\ buf'[dbuf] = d /\ \A c \in Buf : c # dbuf => buf'[c] = buf[c]
  BY <1>9, <1>10, LogTypes, Zenon
<1>12. CacheInv' /\ ~panicked'
  <2>1. CacheInv /\ \A c \in Buf : buf[c].blockno = NoBlock => buf[c].refcnt = 0
    BY Zenon DEF LogInv, CacheInv, Coherent
  <2>2. \A c \in Buf : /\ buf'[c].blockno = buf[c].blockno /\ buf'[c].valid = buf[c].valid
                       /\ buf[c].blockno = NoBlock => buf'[c].refcnt = 0
                       /\ c # dbuf => buf'[c].dirty = buf[c].dirty /\ buf'[c].data = buf[c].data
    BY <1>3, <1>9, <1>11, <2>1, Zenon
  <2>3. buf'[dbuf].dirty /\ buf'[dbuf].data = v /\ dbuf \in Buf
    BY <1>9, <1>11, LogTypes, Zenon
  <2>4. CacheInv'
    BY <1>3, <1>4, <1>6, <1>10, <1>11, <2>1, <2>2, <2>3, WriteStep, Zenon
  <2> QED BY <1>10, <2>4, Zenon DEF LogInv
<1>13. lh' \in Header
  <2>1. CASE \E i \in 1 .. Len(lh) : lh[i] = blk
    BY <1>10, <2>1, Zenon DEF LogInv, LogTypeOK, Logged
  <2>2. CASE ~ \E i \in 1 .. Len(lh) : lh[i] = blk
    <3>1. Len(lh) < MAXOPBLOCKS
      BY <1>1, <1>3, <2>2, Zenon DEF LogInv, Holding
    <3>2. lh' = Append(lh, blk)
      BY <1>10, <2>2, Zenon DEF Logged
    <3> QED BY <1>4, <3>1, <3>2, LogTypes, LogBlocks DEF Header
  <2> QED BY <2>1, <2>2, Zenon
<1>14. LogTypeOK'
  BY <1>10, <1>13, Zenon DEF LogInv, LogTypeOK
<1>15. Phases'
  BY <1>1, <1>10 DEF Phases, InCall, Logging, Heading, Installing, Between, Reading
<1>16. Holding'
  BY <1>7, <1>9, <1>10, <1>11 DEF Holding, HoldsLbuf, HoldsDbuf
<1>17. Copies' /\ Headers' /\ Syncs'
  <2>1. last'[LogStart] = Zero /\ disk'[LogStart] \in Header
    BY <1>1, <1>4, <1>10, LogBlocks, LogTypes, Zenon DEF LogInv, Headers
  <2> QED BY <1>1, <1>10, <2>1, HeaderFits, Zenon DEF LogInv, Copies, Headers, Syncs
<1> QED BY <1>12, <1>14, <1>15, <1>16, <1>17, Zenon DEF LogInv

-----------------------------------------------------------------------------
\* One block more is in the log.
LEMMA log_copyKeeps ==
  ASSUME LogInv, pc = "log_copy", CopyAndRelease(lbuf, dbuf, dbuf, lbuf),
         Loop("log_to", "head_read"), UNCHANGED <<log, lbuf, dbuf, ghosts>>
  PROVE  LogInv' /\ HomeState' = HomeState
<1>1. /\ CacheInv' /\ panicked' = panicked /\ disk' = disk
      /\ last' = [last EXCEPT ![buf[lbuf].blockno] = last[buf[dbuf].blockno]]
      /\ \A b \in Buf : buf'[b].refcnt = 0
  BY CopyStep, Zenon DEF HoldsLbuf, HoldsDbuf
<1>2. /\ buf[lbuf].blockno = LogBlock(tail) /\ buf[dbuf].blockno = lh[tail]
      /\ committing /\ ~fresh
  BY Zenon DEF LogInv, Holding, Phases, Syncs, Logging, Reading, Heading
<1>3. tail \in 1 .. Len(lh) /\ tail \in 1 .. MAXOPBLOCKS
  <2>1. tail <= Len(lh)
    BY Zenon DEF LogInv, Phases, Logging
  <2> QED BY <2>1, LogTypes, LogBlocks
<1>4. /\ last'[LogBlock(tail)] = last[lh[tail]]
      /\ \A x \in Block : x # LogBlock(tail) => last'[x] = last[x]
  BY <1>1, <1>2, <1>3, LogBlocks, LogTypes, Zenon
<1>5. /\ UNCHANGED <<lh, outstanding, committing, lbuf, dbuf>>
      /\ UNCHANGED <<tx, crashes, hist, synced, touched, fresh>>
  BY Zenon DEF log, ghosts
<1>6. \/ tail < Len(lh) /\ tail' = tail + 1 /\ pc' = "log_to"
      \/ tail = Len(lh) /\ tail' = 1 /\ pc' = "head_read"
  BY <1>3, LogTypes DEF Loop, Goto
<1>7. LogTypeOK'
  <2>1. tail' \in Nat \ {0}
    BY <1>3, <1>6
  <2> QED BY <1>5, <2>1, Zenon DEF LogInv, LogTypeOK
<1>8. Phases'
  <2>1. outstanding' = 0
    BY <1>5, Zenon DEF LogInv, Phases, InCall
  <2>2. CASE pc' = "log_to"
    <3>1. tail' <= Len(lh')
      BY <1>3, <1>5, <1>6, <2>2, LogTypes
    <3> QED BY <1>2, <1>5, <2>1, <2>2, <3>1, Zenon
            DEF Phases, InCall, Logging, Heading, Installing, Between, Reading
  <2>3. CASE pc' = "head_read"
    BY <1>2, <1>5, <1>6, <2>1, <2>3, Zenon
       DEF Phases, InCall, Logging, Heading, Installing, Between, Reading
  <2> QED BY <1>6, <2>2, <2>3, Zenon
<1>9. Holding'
  BY <1>1, <1>6 DEF Holding, HoldsLbuf, HoldsDbuf
<1>10. Copies'
  <2> SUFFICES ASSUME NEW i \in 1 .. Len(lh), pc' \in Logging => i < tail'
               PROVE  last'[LogBlock(i)] = last'[lh[i]]
    BY <1>5, Zenon DEF Copies, LogBlock
  <2>1. lh[i] \in Home /\ i \in 1 .. MAXOPBLOCKS
    BY LogTypes, LogBlocks
  <2>2. lh[i] \in Block /\ lh[i] # LogBlock(tail) /\ LogBlock(i) \in Block
    BY <1>3, <2>1, LogBlocks, Zenon
  <2>3. last'[lh[i]] = last[lh[i]]
    BY <1>4, <2>2, Zenon
  <2>4. CASE i = tail
    BY <1>4, <2>3, <2>4, Zenon
  <2>5. CASE i # tail
    <3>1. i < tail
      BY <1>3, <1>6, <2>5, LogTypes DEF Logging
    <3>2. last[LogBlock(i)] = last[lh[i]]
      BY <1>2, <3>1, Zenon DEF LogInv, Copies
    <3>3. LogBlock(i) # LogBlock(tail)
      BY <1>3, <2>1, <2>5, LogBlocks, Zenon
    <3> QED BY <1>4, <2>2, <2>3, <3>2, <3>3, Zenon
  <2> QED BY <2>4, <2>5, Zenon
<1>11. LogStart # LogBlock(tail) /\ LogBlock(tail) \notin Home
  BY <1>3, LogBlocks, Zenon
<1>12. Headers'
  <2>1. last'[LogStart] = last[LogStart]
    BY <1>4, <1>11, LogBlocks, Zenon
  <2> QED BY <1>1, <1>6, <2>1, Zenon DEF LogInv, Headers, Between, InCall
<1>13. Syncs'
  BY <1>1, <1>2, <1>5, <1>6, Zenon DEF LogInv, Syncs
<1>14. HomeState' = HomeState
  BY <1>4, <1>11, LogBlocks, Zenon DEF HomeState
<1> QED BY <1>1, <1>7, <1>8, <1>9, <1>10, <1>12, <1>13, <1>14, Zenon DEF LogInv

\* One block more is installed; commit() finds it there already.
LEMMA install_copyKeeps ==
  ASSUME LogInv, pc = "install_copy", CopyAndRelease(dbuf, lbuf, lbuf, dbuf),
         Loop("install_log", "head_read"),
         lh' = IF tail < Len(lh) THEN lh ELSE <<>>,
         UNCHANGED <<outstanding, committing, lbuf, dbuf, ghosts>>
  PROVE  LogInv' /\ (committing => HomeState' = HomeState)
<1>1. /\ CacheInv' /\ panicked' = panicked /\ disk' = disk
      /\ last' = [last EXCEPT ![buf[dbuf].blockno] = last[buf[lbuf].blockno]]
      /\ \A b \in Buf : buf'[b].refcnt = 0
  BY CopyStep, Zenon DEF HoldsLbuf, HoldsDbuf
<1>2. /\ buf[lbuf].blockno = LogBlock(tail) /\ buf[dbuf].blockno = lh[tail]
      /\ ~fresh
  BY Zenon DEF LogInv, Holding, Syncs, Reading, Heading
<1>3. tail \in 1 .. Len(lh) /\ lh[tail] \in Home
  <2>1. tail <= Len(lh)
    BY Zenon DEF LogInv, Phases, Installing
  <2> QED BY <2>1, LogTypes
<1>4. \A x \in Block : x # lh[tail] => last'[x] = last[x]
  BY <1>1, <1>2, <1>3, LogBlocks, LogTypes, Zenon
<1>5. ASSUME committing PROVE last' = last
  <2>1. last[LogBlock(tail)] = last[lh[tail]]
    BY <1>3, <1>5, Zenon DEF LogInv, Copies, Logging
  <2> QED BY <1>1, <1>2, <2>1, LogTypes, Zenon
<1>6. UNCHANGED <<tx, crashes, hist, synced, touched, fresh>>
  BY Zenon DEF ghosts
<1>7. \/ tail < Len(lh) /\ lh' = lh /\ tail' = tail + 1 /\ pc' = "install_log"
      \/ lh' = <<>> /\ tail' = 1 /\ pc' = "head_read"
  BY Zenon DEF Loop, Goto
<1>8. LogTypeOK'
  <2>1. tail' \in Nat \ {0} /\ lh' \in Header
    BY <1>3, <1>7, HeaderFits DEF LogInv, LogTypeOK
  <2> QED BY <1>6, <2>1, Zenon DEF LogInv, LogTypeOK
<1>9. Phases'
  <2>1. outstanding' = 0
    BY Zenon DEF LogInv, Phases, InCall
  <2>2. CASE pc' = "install_log"
    <3>1. tail' <= Len(lh')
      BY <1>3, <1>7, <2>2, LogTypes
    <3> QED BY <2>1, <2>2, <3>1, Zenon
            DEF Phases, InCall, Logging, Heading, Installing, Between, Reading
  <2>3. CASE pc' = "head_read"
    BY <1>7, <2>1, <2>3, Zenon
       DEF Phases, InCall, Logging, Heading, Installing, Between, Reading
  <2> QED BY <1>7, <2>2, <2>3, Zenon
<1>10. Holding'
  BY <1>1, <1>7 DEF Holding, HoldsLbuf, HoldsDbuf
<1>11. Copies'
  <2>1. Len(<<>>) = 0
    OBVIOUS
  <2> QED BY <1>5, <1>7, <2>1 DEF LogInv, Copies, Logging, LogBlock
<1>12. Headers' /\ Syncs'
  <2>1. last'[LogStart] = last[LogStart]
    BY <1>3, <1>4, LogBlocks, Zenon
  <2> QED BY <1>1, <1>2, <1>6, <1>7, <2>1, Zenon DEF LogInv, Headers, Syncs, Between,
             InCall
<1>13. committing => HomeState' = HomeState
  BY <1>5, Zenon DEF HomeState
<1> QED BY <1>1, <1>8, <1>9, <1>10, <1>11, <1>12, <1>13, Zenon DEF LogInv

\* The header is written.
LEMMA head_writeKeeps ==
  ASSUME LogInv, pc = "head_write", write_head
  PROVE  LogInv' /\ HomeState' = HomeState
<1>1. /\ buf' = [buf EXCEPT ![lbuf] = Released(Modified(@, lh))]
      /\ last' = [last EXCEPT ![LogStart] = lh]
      /\ IF lh # <<>> THEN pc' = "install_log" /\ committing' = committing
                      ELSE pc' = "idle" /\ committing' = FALSE
      /\ UNCHANGED <<disk, panicked, lh, outstanding, tail, lbuf, dbuf>>
      /\ UNCHANGED <<tx, crashes, hist, synced, touched, fresh>>
  BY Zenon DEF write_head, Goto, ghosts
<1>2. /\ buf[lbuf].blockno = LogStart /\ tail = 1
      /\ \A b \in Buf : buf[b].refcnt = IF b = lbuf THEN 1 ELSE 0
  BY DEF LogInv, Phases, Holding, HoldsLbuf, HoldsDbuf, Heading
<1>3. lh \in Header /\ lh \in Content /\ LogStart \in Block /\ LogStart # NoBlock
  BY HeaderFits, LogBlocks, BlockFacts, Zenon DEF LogInv, LogTypeOK
<1>4. PICK d : d = Released(Modified(buf[lbuf], lh))
  OBVIOUS
<1>5. /\ d \in Buffer /\ d.blockno = LogStart /\ d.valid = buf[lbuf].valid
      /\ d.data = lh /\ d.dirty = TRUE /\ d.refcnt = 0
  <2>1. buf[lbuf] \in Buffer /\ buf[lbuf].refcnt = 1
    BY <1>2, LogTypes, Zenon
  <2>2. PICK m : m = Modified(buf[lbuf], lh)
    OBVIOUS
  <2>3. /\ m \in Buffer /\ m.blockno = LogStart /\ m.valid = buf[lbuf].valid
        /\ m.data = lh /\ m.dirty = TRUE /\ m.refcnt = 1
    BY <1>2, <1>3, <2>1, <2>2, Zenon DEF Modified, Buffer
  <2> QED BY <1>4, <2>2, <2>3 DEF Released, Buffer
<1>6. buf' \in [Buf -> Buffer] /\ buf'[lbuf] = d /\ \A c \in Buf : c # lbuf => buf'[c] = buf[c]
  BY <1>1, <1>4, <1>5, LogTypes, Zenon
<1>7. CacheInv' /\ ~panicked'
  <2>1. CacheInv /\ \A c \in Buf : buf[c].blockno = NoBlock => buf[c].refcnt = 0
    BY Zenon DEF LogInv, CacheInv, Coherent
  <2>2. \A c \in Buf : /\ buf'[c].blockno = buf[c].blockno /\ buf'[c].valid = buf[c].valid
                       /\ buf[c].blockno = NoBlock => buf'[c].refcnt = 0
                       /\ c # lbuf => buf'[c].dirty = buf[c].dirty /\ buf'[c].data = buf[c].data
    BY <1>2, <1>5, <1>6, <2>1, Zenon
  <2>3. buf'[lbuf].dirty /\ buf'[lbuf].data = lh /\ lbuf \in Buf
    BY <1>5, <1>6, LogTypes, Zenon
  <2>4. CacheInv'
    BY <1>1, <1>2, <1>3, <1>6, <2>1, <2>2, <2>3, WriteStep, Zenon
  <2> QED BY <1>1, <2>4, Zenon DEF LogInv
<1>8. last'[LogStart] = lh /\ \A x \in Block : x # LogStart => last'[x] = last[x]
  BY <1>1, <1>3, LogTypes, Zenon
<1>9. HomeState' = HomeState /\ \A h \in Home : last'[h] = last[h]
  BY <1>8, LogBlocks, Zenon DEF HomeState
<1>10. LogTypeOK'
  <2>1. committing' \in BOOLEAN
    BY <1>1, Zenon DEF LogInv, LogTypeOK
  <2> QED BY <1>1, <2>1, Zenon DEF LogInv, LogTypeOK
<1>11. Phases'
  <2>1. outstanding' = 0 /\ (lh # <<>> => 1 <= Len(lh)) /\ tail' = 1
    BY <1>1, <1>2, LogTypes DEF LogInv, Phases, InCall
  <2> QED BY <1>1, <2>1, Zenon DEF Phases, InCall, Logging, Heading, Installing, Between,
             Reading
<1>12. Holding'
  BY <1>1, <1>2, <1>5, <1>6 DEF Holding, HoldsLbuf, HoldsDbuf
<1>13. Copies'
  <2> SUFFICES ASSUME committing, NEW i \in 1 .. Len(lh)
               PROVE  last'[LogBlock(i)] = last'[lh[i]]
    BY <1>1, Zenon DEF Copies, LogBlock
  <2>1. last[LogBlock(i)] = last[lh[i]]
    BY Zenon DEF LogInv, Copies, Logging
  <2>2. i \in 1 .. MAXOPBLOCKS /\ lh[i] \in Home
    BY LogTypes, LogBlocks
  <2> QED BY <1>8, <1>9, <2>1, <2>2, LogBlocks, Zenon
<1>14. Headers'
  BY <1>1, <1>3, <1>8, HeaderFits, Zenon DEF LogInv, Headers, Between, InCall
<1>15. Syncs'
  BY <1>1, <1>9, Zenon DEF LogInv, Syncs, Reading
<1> QED BY <1>7, <1>9, <1>10, <1>11, <1>12, <1>13, <1>14, <1>15, Zenon DEF LogInv

\* Recovery takes the log from the header on the disk.
LEMMA head_loadKeeps ==
  ASSUME LogInv, pc = "head_load", read_head
  PROVE  LogInv'
<1>1. /\ lh' = buf[lbuf].data /\ buf' = [buf EXCEPT ![lbuf] = Released(@)]
      /\ mru' = ReleasedMru(mru, lbuf)
      /\ pc' = (IF lh' # <<>> THEN "install_log" ELSE "head_read") /\ tail' = 1
      /\ UNCHANGED <<disk, last, panicked, outstanding, committing, lbuf, dbuf>>
      /\ UNCHANGED <<tx, crashes, hist, synced, touched, fresh>>
  BY Zenon DEF read_head, Goto, ghosts
<1>2. /\ buf[lbuf].blockno = LogStart /\ lbuf \in Buf
      /\ \A b \in Buf : buf[b].refcnt = IF b = lbuf THEN 1 ELSE 0
  BY DEF LogInv, LogTypeOK, Holding, HoldsLbuf, HoldsDbuf
<1>3. lh' = last[LogStart] /\ lh' \in Header
  BY <1>1, <1>2, HeldBuffer DEF LogInv, Headers
<1>4. CacheInv' /\ ~panicked'
  <2>1. buf[lbuf].refcnt > 0
    BY <1>2
  <2>2. brelse(lbuf)
    BY <1>1, <2>1, Zenon DEF brelse
  <2> QED BY <1>1, <1>2, <2>2, BrelseKeeps, Zenon DEF LogInv
<1>5. LogTypeOK'
  BY <1>1, <1>3 DEF LogInv, LogTypeOK
<1>6. ~committing /\ outstanding = 0
  BY Zenon DEF LogInv, Phases, InCall, Logging, Heading, Installing
<1>7. Phases'
  <2>1. lh' # <<>> => 1 <= Len(lh')
    BY <1>3 DEF Header
  <2> QED BY <1>1, <1>6, <2>1, Zenon
          DEF Phases, InCall, Logging, Heading, Installing, Between, Reading
<1>8. Holding'
  <2>1. \A b \in Buf : buf'[b].refcnt = 0
    <3>1. buf[lbuf] \in Buffer /\ buf[lbuf].refcnt = 1
      BY <1>2, LogTypes, Zenon
    <3>2. Released(buf[lbuf]).refcnt = 0
      BY <3>1, SMTT(30) DEF Released, Buffer
    <3> QED BY <1>1, <1>2, <3>2, LogTypes, Zenon
  <2> QED BY <1>1, <2>1 DEF Holding, HoldsLbuf, HoldsDbuf
<1>9. Copies' /\ Headers'
  BY <1>1, <1>6, SMTT(30) DEF LogInv, Copies, Headers, Between, InCall
<1>10. Syncs'
  <2>1. fresh => lh' = <<>>
    BY <1>3, HeaderFits, Zenon DEF LogInv, Syncs, Reading
  <2> QED BY <1>1, <2>1, Zenon DEF LogInv, Syncs, Reading, Heading
<1> QED BY <1>4, <1>5, <1>7, <1>8, <1>9, <1>10, SMTT(30) DEF LogInv

\* bflush() goes past one buffer more.
LEMMA flushKeeps ==
  ASSUME LogInv, pc = "flush", tail <= NBUF,
         disk' = DiskAfter(buf[tail]),
         buf' = IF buf[tail].dirty THEN [buf EXCEPT ![tail] = blkrw(@)] ELSE buf,
         tail' = tail + 1, DiskTouched,
         UNCHANGED <<mru, last, panicked, log, pc, lbuf, dbuf, tx, crashes, hist, synced, fresh>>
  PROVE  LogInv'
<1>1. tail \in Buf /\ buf[tail] \in Buffer /\ disk \in [Block -> Content]
      /\ last \in [Block -> Content] /\ buf \in [Buf -> Buffer]
  BY LogTypes, NBufAssumption DEF Buf
<1>2. /\ CacheInv'
      /\ \A x \in Block : disk'[x] = disk[x] \/ disk'[x] = last[x]
      /\ \A c \in Buf : buf'[c].refcnt = buf[c].refcnt /\ (c # tail => buf'[c] = buf[c])
      /\ ~buf'[tail].dirty
  <2>1. CASE buf[tail].dirty = FALSE
    <3>1. disk' = disk /\ buf' = buf /\ last' = last /\ panicked' = panicked
      BY <2>1, Zenon DEF DiskAfter
    <3> QED BY <2>1, <3>1
            DEF LogInv, CacheInv, CacheTypeOK, OneBufferPerBlock, Coherent, Cached
  <2>2. CASE buf[tail].dirty = TRUE
    <3>1. PICK r : r = [buf[tail] EXCEPT !.dirty = FALSE, !.valid = TRUE]
      OBVIOUS
    <3>2. /\ r \in Buffer /\ r.blockno = buf[tail].blockno /\ r.data = buf[tail].data
          /\ r.refcnt = buf[tail].refcnt /\ r.dirty = FALSE /\ r.valid = TRUE
      BY <1>1, <3>1, Zenon DEF Buffer
    <3>3. buf' = [buf EXCEPT ![tail] = r] /\ disk' = [disk EXCEPT ![r.blockno] = r.data]
      BY <2>2, <3>1, <3>2, Zenon DEF blkrw, DiskAfter
    <3>4. CacheInv /\ Coherent(buf[tail]) /\ OneBufferPerBlock
      BY <1>1, Zenon DEF LogInv, CacheInv
    <3>5. r.blockno \in Block /\ r.blockno # NoBlock /\ r.data = last[r.blockno] /\ r.data \in Content
      BY <1>1, <2>2, <3>2, <3>4, BlockFacts, Zenon DEF Coherent, Buffer
    <3>6. /\ disk' \in [Block -> Content] /\ disk'[r.blockno] = last[r.blockno]
          /\ \A x \in Block : x # r.blockno => disk'[x] = disk[x]
      BY <1>1, <3>3, <3>5, Zenon
    <3>7. Coherent(r)'
      BY <3>2, <3>5, <3>6, Zenon DEF Coherent
    <3>8. \A c \in Buf : c # tail /\ buf[c].blockno # NoBlock =>
              disk'[buf[c].blockno] = disk[buf[c].blockno]
      BY <1>1, <3>2, <3>4, <3>6, Zenon DEF OneBufferPerBlock, Buffer
    <3>9. \A x \in Block : x # r.blockno /\ (Cached(x) = {} \/ x = buf[tail].blockno)
              => disk'[x] = last'[x]
      BY <3>2, <3>6, Zenon DEF LogInv, CacheInv
    <3>10. CacheInv'
      BY <1>1, <3>2, <3>3, <3>4, <3>5, <3>6, <3>7, <3>8, <3>9, OneBufferStep, ZenonT(30)
    <3> QED BY <1>1, <3>2, <3>3, <3>6, <3>10, Zenon
  <2> QED BY <1>1, <2>1, <2>2, Zenon DEF Buffer
<1>3. UNCHANGED <<lh, outstanding, committing, last, pc, lbuf, dbuf, synced, fresh, tx, panicked>>
  BY Zenon DEF log
<1>4. LogTypeOK'
  <2>1. touched' \in BOOLEAN
    BY Zenon DEF DiskTouched
  <2> QED BY <1>1, <1>3, <2>1 DEF LogInv, LogTypeOK
<1>5. Phases'
  BY <1>3, Zenon DEF LogInv, Phases, InCall, Logging, Heading, Installing, Between,
     Reading
<1>6. Holding'
  BY <1>2, <1>3 DEF LogInv, Holding, HoldsLbuf, HoldsDbuf
<1>7. Copies' /\ Headers'
  <2>1. ~committing
    BY Zenon DEF LogInv, Phases, Logging, Heading, Installing
  <2>2. disk'[LogStart] \in Header
    BY <1>2, LogBlocks, Zenon DEF LogInv, Headers
  <2> QED BY <1>3, <2>1, <2>2, Zenon DEF LogInv, Copies, Headers
<1>8. Syncs'
  <2>1. \A b \in Buf : b < tail' => ~buf'[b].dirty
    BY <1>1, <1>2, SMTT(30) DEF LogInv, Syncs, Buf
  <2>2. ~fresh
    BY Zenon DEF LogInv, Syncs, Reading, Heading
  <2>3. ~touched' => disk'[LogStart] = Zero /\ \A h \in Home : disk'[h] = synced'[h]
    BY <1>3, Zenon DEF DiskTouched, LogInv, Syncs
  <2> QED BY <1>3, <2>1, <2>2, <2>3, SMTT(30) DEF Syncs
<1> QED BY <1>2, <1>3, <1>4, <1>5, <1>6, <1>7, <1>8 DEF LogInv

\* sys_sync(): once bflush() is past the last buffer the disk is up to date.
LEMMA sys_syncKeeps == ASSUME LogInv, sys_sync PROVE LogInv'
<1>1. CASE pc = "flush" /\ tail <= NBUF
  <2>1. ~(tail > NBUF)
    BY <1>1, LogTypes, NBufAssumption
  <2> QED BY <1>1, <2>1, flushKeeps, Zenon DEF sys_sync
<1>2. ASSUME pc = "idle", tail' = 1, pc' = "flush", fresh' = FALSE,
             UNCHANGED <<cacheVars, log, lbuf, dbuf, tx, crashes, hist, synced, touched>>
      PROVE  LogInv'
  <2>1. /\ UNCHANGED <<buf, mru, disk, last, panicked>>
        /\ UNCHANGED <<lh, outstanding, committing>>
    BY <1>2, Zenon DEF cacheVars, log
  <2>2. CacheInv' /\ ~panicked'
    BY <2>1, Zenon DEF LogInv, CacheInv, CacheTypeOK, OneBufferPerBlock, Coherent, Cached
  <2>3. LogTypeOK'
    <3>1. fresh' \in BOOLEAN
      BY <1>2, Zenon
    <3> QED BY <1>2, <2>1, <3>1 DEF LogInv, LogTypeOK
  <2>4. Phases' /\ Holding'
    BY <1>2, <2>1, Zenon DEF LogInv, Phases, Holding, HoldsLbuf, HoldsDbuf, InCall,
       Logging, Heading,
                      Installing, Between, Reading
  <2>5. Copies' /\ Headers'
    BY <1>2, <2>1, Zenon DEF LogInv, Phases, Copies, Headers, InCall, Logging, Heading,
       Installing,
                      Between
  <2>6. \A b \in Buf : ~(b < 1)
    BY SMTT(30) DEF Buf
  <2>7. Syncs'
    BY <1>2, <2>1, <2>6, Zenon DEF LogInv, Syncs
  <2> QED BY <2>2, <2>3, <2>4, <2>5, <2>7, Zenon DEF LogInv
<1>3. ASSUME pc = "flush", tail > NBUF, tail' = 1, pc' = "idle",
             synced' = HomeState, touched' = FALSE,
             UNCHANGED <<cacheVars, log, lbuf, dbuf, tx, crashes, fresh>>
      PROVE  LogInv'
  <2>1. /\ UNCHANGED <<buf, mru, disk, last, panicked>>
        /\ UNCHANGED <<lh, outstanding, committing>>
    BY <1>3, Zenon DEF cacheVars, log
  <2>2. CacheInv' /\ ~panicked'
    BY <2>1, Zenon DEF LogInv, CacheInv, CacheTypeOK, OneBufferPerBlock, Coherent, Cached
  <2>3. LogTypeOK'
    <3>1. touched' \in BOOLEAN
      BY <1>3, Zenon
    <3>2. synced' \in [Home -> Content]
      BY <1>3, LogTypes, LogBlocks, SMTT(30) DEF HomeState
    <3> QED BY <1>3, <2>1, <3>1, <3>2 DEF LogInv, LogTypeOK
  <2>4. Phases' /\ Holding'
    BY <1>3, <2>1, Zenon DEF LogInv, Phases, Holding, HoldsLbuf, HoldsDbuf, InCall,
       Logging, Heading,
                      Installing, Between, Reading
  <2>5. Copies' /\ Headers'
    BY <1>3, <2>1, Zenon DEF LogInv, Phases, Copies, Headers, InCall, Logging, Heading,
       Installing,
                      Between
  <2>6. \A x \in Block : disk[x] = last[x]
    <3>1. \A b \in Buf : b < tail
      BY <1>3, LogTypes, NBufAssumption DEF Buf
    <3>2. \A b \in Buf : ~buf[b].dirty
      BY <1>3, <3>1, Zenon DEF LogInv, Syncs
    <3> QED BY <3>2, BlockFacts DEF LogInv, CacheInv, Coherent, Cached
  <2>7. Syncs'
    <3>1. ~fresh /\ last[LogStart] = Zero
      BY <1>3, Zenon DEF LogInv, Syncs, Headers, Reading, Heading, Between
    <3> QED BY <1>3, <2>1, <2>6, <3>1, LogBlocks, Zenon DEF Syncs, HomeState
  <2> QED BY <2>2, <2>3, <2>4, <2>5, <2>7, Zenon DEF LogInv
<1> QED BY <1>1, <1>2, <1>3, Zenon DEF sys_sync, Goto

\* A crash: recovery starts over from what the disk holds.
LEMMA CrashKeeps == ASSUME LogInv, Crash PROVE LogInv'
<1>1. /\ buf' = EmptyCache /\ last' = disk /\ disk' = disk /\ panicked' = FALSE
      /\ lh' = <<>> /\ outstanding' = 0 /\ committing' = FALSE
      /\ pc' = "recover" /\ tail' = 1 /\ lbuf' = 1 /\ dbuf' = 1
      /\ fresh' = ~touched /\ UNCHANGED <<tx, hist, synced, touched>>
  BY Zenon DEF Crash, Goto
<1>2. disk \in [Block -> Content] /\ 1 \in Buf
  BY LogTypes, NBufAssumption DEF Buf
<1>3. /\ buf' \in [Buf -> Buffer]
      /\ \A b \in Buf : /\ buf'[b].blockno = NoBlock /\ buf'[b].dirty = FALSE
                        /\ buf'[b].refcnt = 0
  BY <1>1, ContentAssumption, Zenon DEF EmptyCache, Buffer
<1>4. CacheInv' /\ ~panicked'
  <2>1. panicked' \in BOOLEAN
    BY <1>1, Zenon
  <2>2. CacheTypeOK'
    BY <1>1, <1>2, <1>3, <2>1, Zenon DEF CacheTypeOK
  <2> QED BY <1>1, <1>3, <2>2, Zenon DEF CacheInv, OneBufferPerBlock, Coherent
<1>5. LogTypeOK'
  <2>1. fresh' \in BOOLEAN /\ committing' \in BOOLEAN
    BY <1>1, Zenon
  <2>2. crashes' \in Nat
    BY DEF LogInv, LogTypeOK, Crash
  <2> QED BY <1>1, <1>2, <2>1, <2>2, HeaderFits DEF LogInv, LogTypeOK
<1>6. Phases'
  BY <1>1, Zenon DEF Phases, InCall, Logging, Heading, Installing, Between, Reading
<1>7. Holding'
  BY <1>1, <1>3, SMTT(30) DEF Holding, HoldsLbuf, HoldsDbuf
<1>8. Copies' /\ Headers' /\ Syncs'
  BY <1>1, Zenon DEF LogInv, Copies, Headers, Syncs, Between, InCall, Reading
<1> QED BY <1>4, <1>5, <1>6, <1>7, <1>8, Zenon DEF LogInv

-----------------------------------------------------------------------------
\* The steps of write_log(), write_head() and install_trans(), which are those
\* of commit() and of recovery: the invariant, and what commit() leaves alone.
LEMMA CommitStepKeeps ==
  ASSUME LogInv, write_log \/ write_head \/ install_trans
  PROVE  LogInv' /\ (committing => HomeState' = HomeState)
<1>0. pc \in Logging \cup Installing => LogBlock(tail) \in Block /\ lh[tail] \in Block
  <2> SUFFICES ASSUME pc \in Logging \cup Installing
               PROVE  LogBlock(tail) \in Block /\ lh[tail] \in Block
    OBVIOUS
  <2>1. tail <= Len(lh)
    BY Zenon DEF LogInv, Phases
  <2>2. tail \in 1 .. Len(lh) /\ tail \in 1 .. MAXOPBLOCKS
    BY <2>1, LogTypes, LogBlocks
  <2> QED BY <2>2, LogTypes, LogBlocks, Zenon
<1>1. ASSUME NEW blk \in Block, NEW next, ReadLbuf(blk, next) PROVE HomeState' = HomeState
  BY <1>1, BreadDisk, Zenon DEF ReadLbuf, HomeState
<1>2. ASSUME NEW blk \in Block, NEW next, ReadDbuf(blk, next) PROVE HomeState' = HomeState
  BY <1>2, BreadDisk, Zenon DEF ReadDbuf, HomeState
<1>3. CASE write_log
  <2>1. CASE pc = "log_to"
    <3>1. ReadLbuf(LogBlock(tail), "log_from") /\ LogBlock(tail) \in Block
      BY <1>0, <1>3, <2>1, Zenon DEF write_log, Logging
    <3> QED BY <1>1, <2>1, <3>1, ReadLbufKeeps, Zenon
  <2>2. CASE pc = "log_from"
    <3>1. ReadDbuf(lh[tail], "log_copy") /\ lh[tail] \in Block
      BY <1>0, <1>3, <2>2, Zenon DEF write_log, Logging
    <3> QED BY <1>2, <2>2, <3>1, ReadDbufKeeps, Zenon
  <2>3. CASE pc = "log_copy"
    BY <1>3, <2>3, log_copyKeeps, Zenon DEF write_log
  <2> QED BY <1>3, <2>1, <2>2, <2>3, Zenon DEF write_log
<1>4. CASE write_head
  <2>1. CASE pc = "head_read"
    <3>1. ReadLbuf(LogStart, "head_write") /\ LogStart \in Block
      BY <1>4, <2>1, LogBlocks, Zenon DEF write_head
    <3> QED BY <1>1, <2>1, <3>1, ReadLbufKeeps, Zenon
  <2>2. CASE pc = "head_write"
    BY <1>4, <2>2, head_writeKeeps, Zenon
  <2> QED BY <1>4, <2>1, <2>2, Zenon DEF write_head
<1>5. CASE install_trans
  <2>1. CASE pc = "install_log"
    <3>1. ReadLbuf(LogBlock(tail), "install_home") /\ LogBlock(tail) \in Block
      BY <1>0, <1>5, <2>1, Zenon DEF install_trans, Installing
    <3> QED BY <1>1, <2>1, <3>1, ReadLbufKeeps, Zenon
  <2>2. CASE pc = "install_home"
    <3>1. ReadDbuf(lh[tail], "install_copy") /\ lh[tail] \in Block
      BY <1>0, <1>5, <2>2, Zenon DEF install_trans, Installing
    <3> QED BY <1>2, <2>2, <3>1, ReadDbufKeeps, Zenon
  <2>3. CASE pc = "install_copy"
    BY <1>5, <2>3, install_copyKeeps, Zenon DEF install_trans
  <2> QED BY <1>5, <2>1, <2>2, <2>3, Zenon DEF install_trans
<1> QED BY <1>3, <1>4, <1>5, Zenon

LEMMA LogStepKeeps == LogInv /\ [LogNext]_logVars => LogInv'
<1> SUFFICES ASSUME LogInv, [LogNext]_logVars PROVE LogInv'
  OBVIOUS
<1>1. CASE UNCHANGED logVars
  <2>1. /\ UNCHANGED <<buf, mru, disk, last, panicked>> /\ UNCHANGED <<lh, outstanding, committing>>
        /\ UNCHANGED <<pc, tail, lbuf, dbuf>>
        /\ UNCHANGED <<tx, crashes, hist, synced, touched, fresh>>
    BY <1>1, Zenon DEF logVars, cacheVars, log, ghosts
  <2>2. CacheInv' /\ ~panicked'
    BY <2>1, Zenon DEF LogInv, CacheInv, CacheTypeOK, OneBufferPerBlock, Coherent, Cached
  <2>3. LogTypeOK' /\ Phases'
    BY <2>1, SMTT(30) DEF LogInv, LogTypeOK, Phases
  <2>4. Holding' /\ Copies'
    BY <2>1, SMTT(30) DEF LogInv, Holding, HoldsLbuf, HoldsDbuf, Copies
  <2>5. Headers'
    BY <2>1, Zenon DEF LogInv, Headers
  <2>6. Syncs'
    BY <2>1, Zenon DEF LogInv, Syncs
  <2> QED BY <2>2, <2>3, <2>4, <2>5, <2>6, Zenon DEF LogInv
<1>2. CASE read_head
  <2>1. CASE pc = "recover"
    BY <1>2, <2>1, ReadLbufKeeps, LogBlocks, Zenon DEF read_head
  <2>2. CASE pc = "head_load"
    BY <1>2, <2>2, head_loadKeeps, Zenon
  <2> QED BY <1>2, <2>1, <2>2, Zenon DEF read_head
<1> QED BY <1>1, <1>2, CrashKeeps, begin_opKeeps, OpReadKeeps, log_writeKeeps,
           end_opKeeps,
           CommitStepKeeps, sys_syncKeeps, Zenon DEF LogNext

\* The state of the log, of the buffers its calls hold, of the header and of
\* the last sync is inductive, through crashes at any step.
THEOREM LogInductive == LogSpec => []LogInv
BY LogInitInv, LogStepKeeps, PTL DEF LogSpec

-----------------------------------------------------------------------------
\* Once commit() or recovery is over, no later recovery can replay what it
\* installed: the log is empty in memory and in the header last written.
THEOREM LogIsErased == LogSpec => []LogErasedWhenIdle
<1>1. LogInv => LogErasedWhenIdle
  BY Zenon DEF LogInv, Phases, Headers, LogErasedWhenIdle, Between
<1> QED BY <1>1, LogInductive, PTL

\* The loop in begin_op() is never entered, however large the calls are within
\* MAXOPBLOCKS and whatever crashes came before.
THEOREM BeginOpDoesNotSpin == LogSpec => []BeginOpNeverSpins
<1>1. ASSUME LogInv PROVE BeginOpNeverSpins
  <2> SUFFICES ASSUME pc = "idle"
               PROVE  /\ ~committing /\ outstanding = 0
                      /\ Len(lh) + (outstanding + 1) * MAXOPBLOCKS <= LOGSIZE
    BY Zenon DEF BeginOpNeverSpins
  <2>1. ~committing /\ outstanding = 0 /\ lh = <<>>
    BY <1>1, Zenon DEF LogInv, Phases, InCall, Logging, Heading, Installing, Between
  <2>2. Len(lh) = 0 /\ (outstanding + 1) * MAXOPBLOCKS = MAXOPBLOCKS
    BY <2>1, LogBlocks
  <2> QED BY <2>1, <2>2, LogBlocks
<1> QED BY <1>1, LogInductive, PTL

\* Neither log_write() nor end_op() panics, and bget() finds a buffer for each
\* block that the log reads: a call, commit() and recovery hold at most one
\* buffer when they ask for another.
THEOREM LogDoesNotPanic == LogSpec => []NeverPanics
<1>1. ASSUME LogInv PROVE NeverPanics
  <2>1. ASSUME pc \in {"op", "log_to", "log_from", "head_read", "install_log", "install_home",
                       "recover"}
        PROVE  Unused # {}
    <3>1. \A b \in Buf : b # lbuf => buf[b].refcnt = 0
      BY <1>1, <2>1 DEF LogInv, Holding, HoldsLbuf, HoldsDbuf
    <3>2. 1 \in Buf /\ 2 \in Buf
      BY LogDiskAssumption, NBufAssumption DEF Buf
    <3> QED BY <3>1, <3>2, SMTT(30) DEF Unused
  <2> QED BY <1>1, <2>1, Zenon DEF LogInv, NeverPanics
<1> QED BY <1>1, LogInductive, PTL

\* A crash with no disk write since the last sync costs nothing but what came
\* after it: recovery, itself interrupted or not, ends in the synced state.
THEOREM SyncSurvivesCrash == LogSpec => []SyncedStateRecovered
<1>1. ASSUME LogInv PROVE SyncedStateRecovered
  <2> SUFFICES ASSUME fresh PROVE HomeState = synced
    BY SMTT(30) DEF SyncedStateRecovered
  <2>1. synced \in [Home -> Content] /\ \A h \in Home : last[h] = synced[h]
    BY <1>1, Zenon DEF LogInv, LogTypeOK, Syncs
  <2> QED BY <2>1, Zenon DEF HomeState
<1> QED BY <1>1, LogInductive, PTL

\* No step of commit() changes what a block outside the log holds.
THEOREM CommitMovesNoData == LogSpec => CommitKeepsContents
<1>1. ASSUME LogInv, [LogNext]_logVars
      PROVE  [InCommit /\ crashes' = crashes => HomeState' = HomeState]_logVars
  <2> SUFFICES ASSUME LogNext, InCommit, crashes' = crashes PROVE HomeState' = HomeState
    BY <1>1, Zenon
  <2>1. committing /\ pc \in Logging \cup Heading \cup Installing
    BY <1>1, Zenon DEF InCommit, LogInv, Phases
  <2>2. ~Crash
    <3>1. crashes \in Nat
      BY <1>1, Zenon DEF LogInv, LogTypeOK
    <3> QED BY <3>1 DEF Crash
  <2>3. write_log \/ write_head \/ install_trans
    BY <2>1, <2>2, Zenon DEF LogNext, begin_op, OpRead, log_write, end_op, read_head,
       sys_sync,
                      Logging, Heading, Installing
  <2> QED BY <1>1, <2>1, <2>3, CommitStepKeeps, Zenon
<1> QED BY <1>1, LogInductive, PTL DEF LogSpec, CommitKeepsContents
=============================================================================
