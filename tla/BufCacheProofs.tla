--------------------------- MODULE BufCacheProofs ---------------------------
(***************************************************************************)
(* The coherence of the buffer cache for any number of buffers, blocks and *)
(* references.                                                             *)
(***************************************************************************)
EXTENDS BufCache, TLAPS

\* A buffer that was ever used holds a block, what was last written to it,
\* and, unless it is dirty, what the disk holds.  A block in no buffer is up
\* to date on the disk.
Coherent(r) ==
  /\ r.blockno = NoBlock => ~r.dirty /\ r.refcnt = 0
  /\ r.blockno # NoBlock =>
       /\ r.valid
       /\ r.data = last[r.blockno]
       /\ ~r.dirty => r.data = disk[r.blockno]

CacheInv ==
  /\ CacheTypeOK
  /\ OneBufferPerBlock
  /\ \A b \in Buf : Coherent(buf[b])
  /\ \A blk \in Block : Cached(blk) = {} => disk[blk] = last[blk]

-----------------------------------------------------------------------------
LEMMA BlockFacts == NoBlock \notin Block
BY BlockAssumption, Zenon DEF NoBlock

LEMMA CacheInitInv == CacheInit => CacheInv
<1> SUFFICES ASSUME CacheInit PROVE CacheInv
  OBVIOUS
<1>1. \A b \in Buf : buf[b] = [blockno |-> NoBlock, valid |-> FALSE, dirty |-> FALSE,
                               refcnt |-> 0, data |-> Zero]
  BY Zenon DEF CacheInit, EmptyCache
<1>2. buf \in [Buf -> Buffer]
  BY ContentAssumption, Zenon DEF CacheInit, EmptyCache, Buffer
<1>3. CacheTypeOK
  <2>1. panicked \in BOOLEAN
    BY Zenon DEF CacheInit
  <2> QED BY <1>2, <2>1, ContentAssumption, Zenon DEF CacheTypeOK, CacheInit
<1>4. OneBufferPerBlock /\ \A b \in Buf : Coherent(buf[b])
  BY <1>1 DEF OneBufferPerBlock, Coherent
<1>5. \A blk \in Block : Cached(blk) = {} => disk[blk] = last[blk]
  BY Zenon DEF CacheInit
<1> QED BY <1>3, <1>4, <1>5, Zenon DEF CacheInv

\* What a step that changes only buffer b has to ensure.
LEMMA OneBufferStep ==
  ASSUME CacheInv, NEW b \in Buf, NEW r \in Buffer,
         buf' = [buf EXCEPT ![b] = r],
         disk' \in [Block -> Content], last' \in [Block -> Content],
         panicked' = panicked,
         Coherent(r)',
         r.blockno = buf[b].blockno \/ Cached(r.blockno) = {},
         r.blockno # NoBlock,
         \A c \in Buf : c # b /\ buf[c].blockno # NoBlock =>
            /\ disk'[buf[c].blockno] = disk[buf[c].blockno]
            /\ last'[buf[c].blockno] = last[buf[c].blockno],
         \A blk \in Block : blk # r.blockno /\ (Cached(blk) = {} \/ blk = buf[b].blockno)
            => disk'[blk] = last'[blk]
  PROVE  CacheInv'
<1> USE DEF CacheInv, CacheTypeOK
<1>1. buf'[b] = r /\ \A c \in Buf : c # b => buf'[c] = buf[c]
  OBVIOUS
<1>2. CacheTypeOK'
  OBVIOUS
<1>3. \A c \in Buf : c # b => buf[c].blockno # r.blockno
  BY Zenon DEF OneBufferPerBlock, Cached
<1>4. OneBufferPerBlock'
  BY <1>1, <1>3, Zenon DEF OneBufferPerBlock
<1>5. ASSUME NEW c \in Buf PROVE Coherent(buf[c])'
  BY <1>1 DEF Coherent
<1>6. ASSUME NEW blk \in Block, Cached(blk)' = {} PROVE disk'[blk] = last'[blk]
  <2>1. blk # r.blockno
    BY <1>1, <1>6, Zenon DEF Cached
  <2>2. Cached(blk) = {} \/ blk = buf[b].blockno
    BY <1>1, <1>6, Zenon DEF Cached
  <2> QED BY <2>1, <2>2, Zenon
<1> QED BY <1>2, <1>4, <1>5, <1>6, Zenon

LEMMA BreadKeeps ==
  ASSUME CacheInv, NEW blk \in Block, NEW b \in Buf, bread(blk, b)
  PROVE  CacheInv'
<1> USE BlockFacts
<1>1. UNCHANGED last /\ disk \in [Block -> Content] /\ last \in [Block -> Content]
      /\ buf[b] \in Buffer
  BY Zenon DEF bread, CacheInv, CacheTypeOK
<1>2. CASE BreadCached(blk, b)
  <2>0. PICK r : r = [buf[b] EXCEPT !.refcnt = @ + 1]
    OBVIOUS
  <2>1. buf[b].blockno = blk /\ buf[b].valid
    BY <1>2, Zenon DEF BreadCached, IsFirst, Cached, CacheInv, Coherent
  <2>2. r \in Buffer /\ r.blockno = buf[b].blockno /\ r.valid = buf[b].valid
        /\ r.data = buf[b].data /\ r.dirty = buf[b].dirty
    BY <1>1, <2>0 DEF Buffer
  <2>3. buf' = [buf EXCEPT ![b] = r] /\ UNCHANGED <<disk, panicked>>
    BY <1>2, <2>0, <2>1, <2>2, Zenon DEF BreadCached
  <2>4. Coherent(r)'
    BY <1>1, <2>1, <2>2, <2>3, Zenon DEF CacheInv, Coherent
  <2>5. \A blk2 \in Block : blk2 # r.blockno /\ (Cached(blk2) = {} \/ blk2 = buf[b].blockno)
          => disk'[blk2] = last'[blk2]
    BY <1>1, <2>1, <2>2, <2>3, Zenon DEF CacheInv
  <2> QED BY <1>1, <2>1, <2>2, <2>3, <2>4, <2>5, OneBufferStep, Zenon
<1>3. ASSUME Cached(blk) = {},
             buf' = [buf EXCEPT ![b] = Recycled(blk)],
             UNCHANGED panicked,
             \/ buf[b].dirty = FALSE /\ disk' = disk
             \/ buf[b].dirty = TRUE /\ disk' = [disk EXCEPT ![buf[b].blockno] = buf[b].data]
      PROVE  CacheInv'
  <2>0. PICK r : r = Recycled(blk)
    OBVIOUS
  <2>1. /\ r \in Buffer /\ r.blockno = blk /\ r.valid = TRUE /\ r.dirty = FALSE
        /\ r.data = disk[blk]
    BY <1>1, <2>0, Zenon DEF Recycled, Buffer
  <2>2. buf[b].blockno # blk
    BY <1>3, Zenon DEF Cached
  <2>3. disk' \in [Block -> Content] /\ disk'[blk] = disk[blk] /\ disk[blk] = last[blk]
    BY <1>1, <1>3, <2>2, Zenon DEF CacheInv, Buffer
  <2>4. Coherent(r)'
    BY <1>1, <2>1, <2>3, Zenon DEF Coherent
  <2>5. \A c \in Buf : c # b /\ buf[c].blockno # NoBlock =>
            /\ disk'[buf[c].blockno] = disk[buf[c].blockno]
            /\ last'[buf[c].blockno] = last[buf[c].blockno]
    <3> SUFFICES ASSUME NEW c \in Buf, c # b, buf[c].blockno # NoBlock
                 PROVE  disk'[buf[c].blockno] = disk[buf[c].blockno]
      BY <1>1, Zenon
    <3>1. buf[c].blockno # buf[b].blockno
      BY Zenon DEF CacheInv, OneBufferPerBlock
    <3>2. buf[c].blockno \in Block
      BY Zenon DEF CacheInv, CacheTypeOK, Buffer
    <3> QED BY <1>1, <1>3, <3>1, <3>2, Zenon
  <2>6. \A blk2 \in Block : blk2 # r.blockno /\ (Cached(blk2) = {} \/ blk2 = buf[b].blockno)
          => disk'[blk2] = last'[blk2]
    <3> SUFFICES ASSUME NEW blk2 \in Block, Cached(blk2) = {} \/ blk2 = buf[b].blockno
                 PROVE  disk'[blk2] = last[blk2]
      BY <1>1, Zenon
    <3>1. CASE blk2 = buf[b].blockno
      BY <1>1, <1>3, <3>1, Zenon DEF CacheInv, Coherent
    <3>2. CASE blk2 # buf[b].blockno
      <4>1. disk'[blk2] = disk[blk2]
        BY <1>1, <1>3, <3>2, Zenon
      <4> QED BY <3>2, <4>1, Zenon DEF CacheInv
    <3> QED BY <3>1, <3>2, Zenon
  <2>7. buf' = [buf EXCEPT ![b] = r]
    BY <1>3, <2>0, Zenon
  <2> QED BY <1>1, <1>3, <2>1, <2>3, <2>4, <2>5, <2>6, <2>7, OneBufferStep, Zenon
<1>4. CASE BreadClean(blk, b)
  <2>1. buf[b].dirty = FALSE
    BY <1>1, <1>4, Zenon DEF BreadClean, IsLast, Clean, Buffer
  <2> QED BY <1>3, <1>4, <2>1, Zenon DEF BreadClean
<1>5. CASE BreadEvict(blk, b)
  <2>1. buf[b].dirty = TRUE
    BY <1>1, <1>5, Zenon DEF BreadEvict, IsLast, Clean, Buffer
  <2> QED BY <1>3, <1>5, <2>1, Zenon DEF BreadEvict, DiskAfter
<1> QED BY <1>2, <1>4, <1>5, Zenon DEF bread

LEMMA BrelseKeeps ==
  ASSUME CacheInv, NEW b \in Buf, brelse(b)
  PROVE  CacheInv'
<1>0. PICK r : r = Released(buf[b])
  OBVIOUS
<1>1. /\ buf[b] \in Buffer /\ disk \in [Block -> Content] /\ last \in [Block -> Content]
      /\ UNCHANGED <<disk, last, panicked>>
  BY Zenon DEF CacheInv, CacheTypeOK, brelse
<1>2. /\ r \in Buffer /\ r.blockno = buf[b].blockno /\ r.valid = buf[b].valid
      /\ r.data = buf[b].data /\ r.dirty = buf[b].dirty
  BY <1>0, <1>1 DEF brelse, Released, Buffer
<1>3. buf' = [buf EXCEPT ![b] = r]
  BY <1>0, Zenon DEF brelse
<1>4. r.blockno # NoBlock
  BY <1>1, <1>2 DEF CacheInv, Coherent, brelse, Buffer
<1>5. Coherent(r)'
  BY <1>1, <1>2, <1>4, Zenon DEF CacheInv, Coherent
<1>6. \A blk2 \in Block : blk2 # r.blockno /\ (Cached(blk2) = {} \/ blk2 = buf[b].blockno)
        => disk'[blk2] = last'[blk2]
  BY <1>1, <1>2, Zenon DEF CacheInv
<1> QED BY <1>1, <1>2, <1>3, <1>4, <1>5, <1>6, OneBufferStep, Zenon

LEMMA BwriteKeeps ==
  ASSUME CacheInv, NEW b \in Buf, NEW v \in Content, bwrite(b, v)
  PROVE  CacheInv'
<1>0. PICK r : r = Modified(buf[b], v)
  OBVIOUS
<1>1. /\ buf[b] \in Buffer /\ disk \in [Block -> Content] /\ last \in [Block -> Content]
      /\ UNCHANGED <<disk, panicked>>
  BY Zenon DEF CacheInv, CacheTypeOK, bwrite
<1>2. /\ r \in Buffer /\ r.blockno = buf[b].blockno /\ r.valid = buf[b].valid
      /\ r.data = v /\ r.dirty = TRUE
  BY <1>0, <1>1, Zenon DEF Modified, Buffer
<1>3. buf' = [buf EXCEPT ![b] = r]
  BY <1>0, Zenon DEF bwrite
<1>4. r.blockno # NoBlock /\ r.blockno \in Block
  BY <1>1, <1>2 DEF CacheInv, Coherent, bwrite, Buffer
<1>5. /\ last' = [last EXCEPT ![r.blockno] = v]
      /\ last' \in [Block -> Content] /\ last'[r.blockno] = v
      /\ \A blk \in Block : blk # r.blockno => last'[blk] = last[blk]
  BY <1>1, <1>2, <1>4, Zenon DEF bwrite
<1>6. Coherent(r)'
  BY <1>1, <1>2, <1>4, <1>5, Zenon DEF CacheInv, Coherent
<1>7. \A c \in Buf : c # b /\ buf[c].blockno # NoBlock =>
          /\ disk'[buf[c].blockno] = disk[buf[c].blockno]
          /\ last'[buf[c].blockno] = last[buf[c].blockno]
  BY <1>1, <1>2, <1>5 DEF CacheInv, CacheTypeOK, OneBufferPerBlock, Buffer
<1>8. \A blk2 \in Block : blk2 # r.blockno /\ (Cached(blk2) = {} \/ blk2 = buf[b].blockno)
        => disk'[blk2] = last'[blk2]
  BY <1>1, <1>2, <1>5, Zenon DEF CacheInv
<1> QED BY <1>1, <1>2, <1>3, <1>4, <1>5, <1>6, <1>7, <1>8, OneBufferStep, Zenon

\* bflush() leaves every buffer clean and the disk holding every last write.
LEMMA BflushKeeps ==
  ASSUME CacheInv, bflush
  PROVE  CacheInv' /\ disk' = last
<1> USE BlockFacts
<1>1. /\ buf \in [Buf -> Buffer] /\ disk \in [Block -> Content] /\ last \in [Block -> Content]
      /\ UNCHANGED <<mru, last, panicked>>
  BY Zenon DEF CacheInv, CacheTypeOK, bflush
<1>2. \A b \in Buf :
        /\ buf'[b] \in Buffer
        /\ buf'[b].blockno = buf[b].blockno /\ buf'[b].data = buf[b].data
        /\ buf'[b].refcnt = buf[b].refcnt /\ ~buf'[b].dirty
        /\ buf[b].valid => buf'[b].valid
  <2> SUFFICES ASSUME NEW b \in Buf
               PROVE  /\ buf'[b] \in Buffer
                      /\ buf'[b].blockno = buf[b].blockno /\ buf'[b].data = buf[b].data
                      /\ buf'[b].refcnt = buf[b].refcnt /\ ~buf'[b].dirty
                      /\ buf[b].valid => buf'[b].valid
    OBVIOUS
  <2>1. buf[b] \in Buffer
    BY <1>1, Zenon
  <2>2. buf'[b] = IF buf[b].dirty THEN [buf[b] EXCEPT !.dirty = FALSE, !.valid = TRUE] ELSE buf[b]
    BY Zenon DEF bflush, blkrw
  <2> QED BY <2>1, <2>2, Zenon DEF Buffer
<1>3. disk' = last
  <2>1. \A blk \in Block :
          (IF \E b \in Cached(blk) : buf[b].dirty
             THEN buf[CHOOSE b \in Cached(blk) : buf[b].dirty].data
             ELSE disk[blk]) = last[blk]
    <3> SUFFICES ASSUME NEW blk \in Block
                 PROVE  (IF \E b \in Cached(blk) : buf[b].dirty
                           THEN buf[CHOOSE b \in Cached(blk) : buf[b].dirty].data
                           ELSE disk[blk]) = last[blk]
      OBVIOUS
    <3>1. CASE \E b \in Cached(blk) : buf[b].dirty
      <4>1. PICK b \in Cached(blk) : b = CHOOSE c \in Cached(blk) : buf[c].dirty
        BY <3>1, Zenon
      <4>2. buf[b].data = last[blk]
        BY <4>1, Zenon DEF Cached, CacheInv, Coherent
      <4> QED BY <3>1, <4>1, <4>2, Zenon
    <3>2. CASE ~ \E b \in Cached(blk) : buf[b].dirty
      <4>1. disk[blk] = last[blk]
        BY <3>2 DEF Cached, CacheInv, Coherent
      <4> QED BY <3>2, <4>1, Zenon
    <3> QED BY <3>1, <3>2, Zenon
  <2> QED BY <1>1, <2>1, Zenon DEF bflush
<1>4. CacheTypeOK'
  <2>1. buf' \in [Buf -> Buffer]
    BY <1>2, Zenon DEF bflush
  <2> QED BY <1>1, <1>3, <2>1, Zenon DEF CacheInv, CacheTypeOK
<1>5. OneBufferPerBlock'
  BY <1>2 DEF CacheInv, OneBufferPerBlock
<1>6. \A b \in Buf : Coherent(buf[b])'
  BY <1>1, <1>2, <1>3 DEF CacheInv, Coherent
<1> QED BY <1>1, <1>3, <1>4, <1>5, <1>6, Zenon DEF CacheInv

LEMMA CacheStepKeeps == CacheInv /\ [CacheNext]_cacheVars => CacheInv'
<1> SUFFICES ASSUME CacheInv, [CacheNext]_cacheVars PROVE CacheInv'
  OBVIOUS
<1>1. CASE UNCHANGED cacheVars
  BY <1>1, Zenon DEF cacheVars, CacheInv, CacheTypeOK, OneBufferPerBlock, Coherent, Cached
<1>2. ASSUME NEW blk \in Block, BreadPanic(blk) PROVE CacheInv'
  <2>1. panicked' \in BOOLEAN
    BY <1>2, Zenon DEF BreadPanic
  <2> QED BY <1>2, <2>1, Zenon
          DEF BreadPanic, CacheInv, CacheTypeOK, OneBufferPerBlock, Coherent, Cached
<1>3. CASE CacheNext
  BY <1>2, <1>3, BreadKeeps, BrelseKeeps, BwriteKeeps, BflushKeeps, Zenon DEF CacheNext
<1> QED BY <1>1, <1>3, Zenon

\* The coherence of buffers, disk and past writes is inductive.
THEOREM CacheInductive == CacheSpec => []CacheInv
BY CacheInitInv, CacheStepKeeps, PTL DEF CacheSpec

-----------------------------------------------------------------------------
\* Buffers, disk and the record of writes keep their types.
THEOREM CacheTypeCorrect == CacheSpec => []CacheTypeOK
<1>1. CacheInv => CacheTypeOK
  BY Zenon DEF CacheInv
<1> QED BY <1>1, CacheInductive, PTL

\* bget() never has one block in two buffers.
THEOREM NoDuplicateBuffer == CacheSpec => []OneBufferPerBlock
<1>1. CacheInv => OneBufferPerBlock
  BY Zenon DEF CacheInv
<1> QED BY <1>1, CacheInductive, PTL

\* A buffer bread() has handed out holds what was last written to its block,
\* through any sequence of recycling, write-back and flushing.
THEOREM ReadsAreCurrent == CacheSpec => []ReadsSeeLastWrite
<1>1. ASSUME CacheInv PROVE ReadsSeeLastWrite
  <2> SUFFICES ASSUME NEW b \in Buf, buf[b].refcnt > 0
               PROVE  buf[b].valid /\ buf[b].data = last[buf[b].blockno]
    BY Zenon DEF ReadsSeeLastWrite
  <2>1. buf[b].blockno # NoBlock
    BY <1>1 DEF CacheInv, Coherent
  <2> QED BY <1>1, <2>1, Zenon DEF CacheInv, Coherent
<1> QED BY <1>1, CacheInductive, PTL

\* A write that is not on the disk yet is in a dirty buffer: recycling drops
\* none.
THEOREM WritesNeverLost == CacheSpec => []NoWriteLost
<1>1. ASSUME CacheInv PROVE NoWriteLost
  <2> SUFFICES ASSUME NEW blk \in Block, disk[blk] # last[blk]
               PROVE  \E b \in Buf : /\ buf[b].blockno = blk /\ buf[b].dirty
                                     /\ buf[b].data = last[blk]
    BY Zenon DEF NoWriteLost
  <2>1. PICK b \in Buf : buf[b].blockno = blk
    BY <1>1, Zenon DEF CacheInv, Cached
  <2> QED BY <1>1, <2>1, BlockFacts, Zenon DEF CacheInv, Coherent
<1> QED BY <1>1, CacheInductive, PTL

\* sync works: right after bflush() the disk holds every write there was.
THEOREM SyncWritesAll == CacheSpec => FlushWritesAll
<1>1. CacheInv /\ [CacheNext]_cacheVars => [bflush => disk' = last]_cacheVars
  BY BflushKeeps, Zenon
<1> QED BY <1>1, CacheInductive, PTL DEF CacheSpec, FlushWritesAll

\* A buffer that a caller holds is never given to another block, and changes
\* only by the write of a holder.
THEOREM HeldBuffersStay == CacheSpec => HeldBufferKept
<1> DEFINE A == \A b \in Buf : buf[b].refcnt > 0 =>
                  /\ buf'[b].blockno = buf[b].blockno
                  /\ buf'[b].data # buf[b].data => buf'[b].dirty
<1>1. ASSUME CacheInv, CacheNext PROVE A
  <2> SUFFICES ASSUME NEW b \in Buf, buf[b].refcnt > 0
               PROVE  /\ buf'[b].blockno = buf[b].blockno
                      /\ buf'[b].data # buf[b].data => buf'[b].dirty
    OBVIOUS
  <2>1. buf \in [Buf -> Buffer] /\ buf[b].valid
    BY <1>1, BlockFacts DEF CacheInv, CacheTypeOK, Coherent
  <2>2. ASSUME NEW blk \in Block, NEW c \in Buf, bread(blk, c)
        PROVE  buf'[b].blockno = buf[b].blockno /\ buf'[b].data = buf[b].data
    <3>1. CASE BreadCached(blk, c)
      BY <2>1, <3>1, Zenon DEF BreadCached, Buffer
    <3>2. CASE b # c /\ buf' = [buf EXCEPT ![c] = Recycled(blk)]
      BY <2>1, <3>2, Zenon
    <3>3. CASE BreadClean(blk, c) \/ BreadEvict(blk, c)
      BY <3>2, <3>3 DEF BreadClean, BreadEvict, IsLast, Clean, Unused
    <3> QED BY <2>2, <3>1, <3>3, Zenon DEF bread
  <2>3. ASSUME NEW blk \in Block, BreadPanic(blk)
        PROVE  buf'[b].blockno = buf[b].blockno /\ buf'[b].data = buf[b].data
    BY <2>3, Zenon DEF BreadPanic
  <2>4. ASSUME NEW c \in Buf, brelse(c)
        PROVE  buf'[b].blockno = buf[b].blockno /\ buf'[b].data = buf[b].data
    BY <2>1, <2>4, Zenon DEF brelse, Released, Buffer
  <2>5. ASSUME NEW c \in Buf, NEW v \in Content, bwrite(c, v)
        PROVE  /\ buf'[b].blockno = buf[b].blockno
               /\ buf'[b].data # buf[b].data => buf'[b].dirty
    <3>1. buf'[b] = IF b = c THEN Modified(buf[b], v) ELSE buf[b]
      BY <2>1, <2>5, Zenon DEF bwrite
    <3>2. /\ Modified(buf[b], v).blockno = buf[b].blockno
          /\ Modified(buf[b], v).dirty = TRUE
      BY <2>1, Zenon DEF Modified, Buffer
    <3> QED BY <3>1, <3>2, Zenon
  <2>6. CASE bflush
    BY <2>1, <2>6, Zenon DEF bflush, blkrw, Buffer
  <2> QED BY <1>1, <2>2, <2>3, <2>4, <2>5, <2>6, Zenon DEF CacheNext
<1>2. CacheInv /\ [CacheNext]_cacheVars => [A]_cacheVars
  <2> HIDE DEF A
  <2> QED BY <1>1, Zenon
<1> QED BY <1>2, CacheInductive, PTL DEF CacheSpec, HeldBufferKept
=============================================================================
