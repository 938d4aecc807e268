----------------------------- MODULE DataProofs -----------------------------
(***************************************************************************)
(* The bytes of files, for any calls and sizes: what the blocks of a file  *)
(* hold, and what reads return.  At the end, how many blocks a call logs:  *)
(* counting them takes the theorems about finite sets.                     *)
(***************************************************************************)
EXTENDS FileProofs

\* Byte k of ip, where bmap() finds it.
Byte(A, B, ip, k) == B[FileBlock(A, B, ip, k \div BSIZE)][k % BSIZE]

\* The call is a write of sys_lseek().
Seeking == call.kind = "write" /\ call.seek # -1

\* The running round of writei() has written byte k of ip.
Pending(ip, k) == InRound /\ ip = Ip /\ off[call.f] <= k /\ k < Pos

\* What byte k of ip should be.
Wanted(ip, k) == IF Pending(ip, k) THEN (IF Seeking THEN 0 ELSE call.f)
                 ELSE IF k < Len(data[ip]) THEN data[ip][k + 1] ELSE 0

\* A file is as long as it should be, but for the zeroes a seek has added.
LengthOK == \A ip \in Inode : IF Seeking /\ ip = Ip THEN Len(data[ip]) <= size[ip]
                              ELSE Len(data[ip]) = size[ip]

BytesOK == \A ip \in Inode, k \in Nat :
  k < size[ip] \/ Pending(ip, k) => Byte(addrs, blk, ip, k) = Wanted(ip, k)

\* A seek writes from the end of the file to the new offset, and no more than
\* seekbuf holds.
SeekOK == Seeking =>
  /\ off[call.f] = size[Ip] /\ call.seek = off[call.f] + call.left
  /\ call.seek <= MAXFILE * BSIZE
  /\ call.done + call.left <= SBUFSIZE /\ call.zero <= SBUFSIZE

DataInv == /\ data \in [Inode -> Seq(Int)]
           /\ LengthOK /\ BytesOK /\ SeekOK

LEMMA WrittenBytes ==
  ASSUME BmapInv, NEW ip \in Inode, NEW k \in Nat, k < size[ip] \/ Pending(ip, k)
  PROVE  /\ k < MAXFILE * BSIZE /\ FileBlock(addrs, blk, ip, k \div BSIZE) # 0
         /\ k \div BSIZE \in 0 .. MAXFILE - 1 /\ k % BSIZE \in 0 .. BSIZE - 1
<1>1. CASE k < size[ip]
  <2>1. size[ip] \in 0 .. MAXFILE * BSIZE /\ Covered(addrs, blk, ip, size[ip])
    BY Zenon DEF BmapInv, BmapTypeOK, Filled
  <2>2. k < MAXFILE * BSIZE /\ k \in 0 .. size[ip] - 1
    BY <1>1, <2>1, BmapConstants
  <2> QED BY <2>1, <2>2, InFile DEF Covered
<1>2. CASE Pending(ip, k)
  <2>1. /\ InRound /\ ip = Ip /\ k < Pos
    BY <1>2, Zenon DEF Pending
  <2>2. Covered(addrs, blk, Ip, Pos) /\ off[call.f] + call.n <= MAXFILE * BSIZE
        /\ call.tot <= call.n
    BY <2>1 DEF BmapInv, CallOK, InRound
  <2>3. call \in WriteCall
    BY <2>1, Kinds, Zenon DEF InRound, BmapInv, BmapTypeOK
  <2>4. call.f \in File /\ call.n \in Nat /\ call.tot \in Nat
    BY <2>3 DEF WriteCall
  <2>5. off[call.f] \in Nat
    BY <2>4, Zenon DEF BmapInv, BmapTypeOK
  <2>6. k < MAXFILE * BSIZE /\ k \in 0 .. Pos - 1
    BY <2>1, <2>2, <2>4, <2>5, BmapConstants DEF Pos
  <2> QED BY <2>1, <2>2, <2>6, InFile DEF Covered
<1> QED BY <1>1, <1>2

\* w is s with t from position p on.
IsOverwrite(w, s, p, t) ==
  /\ w \in Seq(Int)
  /\ Len(w) = IF p + Len(t) > Len(s) THEN p + Len(t) ELSE Len(s)
  /\ \A k \in Nat : k < p + Len(t) \/ k < Len(s) =>
       w[k + 1] = IF p <= k /\ k < p + Len(t) THEN t[k - p + 1] ELSE s[k + 1]

LEMMA OverwriteFacts ==
  ASSUME NEW s \in Seq(Int), NEW t \in Seq(Int), NEW p \in 0 .. Len(s)
  PROVE  IsOverwrite(Overwrite(s, p, t), s, p, t)
<1>0. Len(s) \in Nat /\ Len(t) \in Nat /\ p \in Nat
  OBVIOUS
<1>1. PICK m \in Nat : m = IF p + Len(t) > Len(s) THEN p + Len(t) ELSE Len(s)
  BY <1>0
<1>2. Overwrite(s, p, t) =
        [i \in 1 .. m |-> IF i \in p + 1 .. p + Len(t) THEN t[i - p] ELSE s[i]]
  BY <1>1, Zenon DEF Overwrite
<1>3. ASSUME NEW i \in 1 .. m
      PROVE  (IF i \in p + 1 .. p + Len(t) THEN t[i - p] ELSE s[i]) \in Int
  <2>1. CASE i \in p + 1 .. p + Len(t)
    <3>1. i - p \in 1 .. Len(t)
      BY <1>0, <2>1
    <3> QED BY <2>1, <3>1
  <2>2. CASE i \notin p + 1 .. p + Len(t)
    <3>1. i \in 1 .. Len(s)
      BY <1>0, <1>1, <1>3, <2>2
    <3> QED BY <2>2, <3>1
  <2> QED BY <2>1, <2>2
<1>4. Overwrite(s, p, t) \in Seq(Int) /\ Len(Overwrite(s, p, t)) = m
  BY <1>2, <1>3
<1>5. ASSUME NEW k \in Nat, k < p + Len(t) \/ k < Len(s)
      PROVE  Overwrite(s, p, t)[k + 1] =
               IF p <= k /\ k < p + Len(t) THEN t[k - p + 1] ELSE s[k + 1]
  <2>1. k + 1 \in 1 .. m
    BY <1>0, <1>1, <1>5
  <2>2. Overwrite(s, p, t)[k + 1] =
          IF k + 1 \in p + 1 .. p + Len(t) THEN t[k + 1 - p] ELSE s[k + 1]
    BY <1>2, <2>1
  <2>3. k + 1 \in p + 1 .. p + Len(t) <=> p <= k /\ k < p + Len(t)
    BY <1>0
  <2>4. k + 1 - p = k - p + 1
    BY <1>0
  <2> QED BY <2>2, <2>3, <2>4
<1> QED BY <1>1, <1>4, <1>5, Zenon DEF IsOverwrite

\* Steps that leave the files alone, before or after a round of writei().
LEMMA BytesKept ==
  ASSUME BytesOK, FilesKept, data' = data,
         \A ip \in Inode, k \in Nat : ~ Pending(ip, k) /\ ~ Pending(ip, k)'
  PROVE  BytesOK'
<1> SUFFICES ASSUME NEW ip \in Inode, NEW k \in Nat, k < size'[ip] \/ Pending(ip, k)'
             PROVE  Byte(addrs, blk, ip, k)' = Wanted(ip, k)'
  BY Zenon DEF BytesOK
<1>1. addrs' = addrs /\ blk' = blk /\ size' = size
  BY Zenon DEF FilesKept
<1>2. ~ Pending(ip, k) /\ ~ Pending(ip, k)' /\ k < size[ip]
  BY <1>1, Zenon
<1>3. Byte(addrs, blk, ip, k) = Wanted(ip, k)
  BY <1>2, Zenon DEF BytesOK
<1> QED BY <1>1, <1>2, <1>3, Zenon DEF Wanted

LEMMA QuietData ==
  ASSUME DataInv, FilesKept, data' = data, ~ InRound, ~ InRound', ~ Seeking, ~ Seeking'
  PROVE  DataInv'
<1>1. BytesOK'
  <2>1. \A ip \in Inode, k \in Nat : ~ Pending(ip, k) /\ ~ Pending(ip, k)'
    BY Zenon DEF Pending
  <2> QED BY <2>1, BytesKept, Zenon DEF DataInv
<1>2. LengthOK'
  BY Zenon DEF DataInv, LengthOK, FilesKept
<1> QED BY <1>1, <1>2, Zenon DEF DataInv, SeekOK

LEMMA WriteKeepsData ==
  ASSUME DataInv, NEW f \in File, NEW n \in Counts, sys_write(f, n)
  PROVE  DataInv'
<1>1. call = Idle /\ FilesKept /\ data' = data /\ call' = FileWrite(f, n, -1, 0)
  BY DEF sys_write, FilesKept, vars, files
<1>2. ~ InRound /\ ~ InRound' /\ ~ Seeking /\ ~ Seeking'
  BY <1>1 DEF InRound, Seeking, Idle, FileWrite
<1> QED BY <1>1, <1>2, QuietData

LEMMA ReadKeepsData ==
  ASSUME DataInv, NEW f \in File, NEW n \in Counts, sys_read(f, n)
  PROVE  DataInv'
<1>1. call = Idle /\ FilesKept /\ data' = data /\ call'.kind = "read"
  BY Zenon DEF sys_read, FilesKept, vars, files
<1>2. ~ InRound /\ ~ InRound' /\ ~ Seeking /\ ~ Seeking'
  BY <1>1, Zenon DEF InRound, Seeking, Idle
<1> QED BY <1>1, <1>2, QuietData

LEMMA ReadBlockKeepsData ==
  ASSUME BmapInv, DataInv, ReadBlock
  PROVE  DataInv'
<1>1. /\ call.kind = "read" /\ FilesKept /\ data' = data
      /\ call' = [call EXCEPT !.tot = @ + Part,
           !.got = @ \o [i \in 1 .. Part |-> blk[Addr(Here)][(Pos % BSIZE) + i - 1]]]
  BY Zenon DEF ReadBlock, FilesKept, vars, files
<1>2. call'.kind = "read"
  <2>1. call \in ReadCall
    BY <1>1, Kinds DEF BmapInv, BmapTypeOK
  <2> QED BY <1>1, <2>1 DEF ReadCall
<1>3. ~ InRound /\ ~ InRound' /\ ~ Seeking /\ ~ Seeking'
  BY <1>1, <1>2 DEF InRound, Seeking
<1> QED BY <1>1, <1>3, QuietData

LEMMA ReadReturnsKeepsData ==
  ASSUME DataInv, ReadReturns
  PROVE  DataInv'
<1>1. call.kind = "read" /\ FilesKept /\ data' = data /\ call' = Idle
  BY Zenon DEF ReadReturns, FilesKept, vars, files
<1>2. ~ InRound /\ ~ InRound' /\ ~ Seeking /\ ~ Seeking'
  BY <1>1 DEF InRound, Seeking, Idle
<1> QED BY <1>1, <1>2, QuietData

LEMMA LseekKeepsDataInv ==
  ASSUME BmapInv, DataInv, ~ AnySeek, NEW f \in File, NEW o \in 0 .. MAXFILE * BSIZE,
         sys_lseek(f, o)
  PROVE  DataInv'
<1>0. off[f] \in Nat /\ o \in Nat /\ fip[f] \in Inode /\ size[fip[f]] \in Nat
  BY BmapConstants DEF BmapInv, BmapTypeOK
<1>1. call = Idle /\ FilesKept /\ data' = data
  BY Zenon DEF sys_lseek, FilesKept, vars, files
<1>2. ~ InRound /\ ~ Seeking
  BY <1>1, Zenon DEF InRound, Seeking, Idle
<1>3. CASE UNCHANGED call
  <2>1. ~ InRound' /\ ~ Seeking'
    BY <1>2, <1>3, Zenon DEF InRound, Seeking
  <2> QED BY <1>1, <1>2, <2>1, QuietData, Zenon
<1>4. CASE /\ o - size[fip[f]] > 0 /\ UNCHANGED off /\ GoodSeek(f, o)
           /\ call' = FileWrite(f, o - size[fip[f]], o, o - size[fip[f]])
  <2>1. /\ call'.f = f /\ call'.left = o - size[fip[f]] /\ call'.done = 0 /\ call'.n = 0
        /\ call'.seek = o /\ call'.zero = o - size[fip[f]]
    BY <1>4 DEF FileWrite
  <2>2. off' = off /\ fip' = fip /\ size' = size
    BY <1>1, <1>4, Zenon DEF FilesKept
  <2>3. off[f] = size[fip[f]] /\ o - size[fip[f]] <= SBUFSIZE
    BY <1>4, Zenon DEF GoodSeek
  <2>4. SeekOK'
    BY <1>0, <2>1, <2>2, <2>3 DEF SeekOK, Ip
  <2>5. LengthOK'
    <3>1. \A ip \in Inode : Len(data[ip]) = size[ip]
      BY <1>2, Zenon DEF DataInv, LengthOK
    <3>2. \A ip \in Inode : size[ip] \in Int
      BY BmapConstants DEF BmapInv, BmapTypeOK
    <3> QED BY <1>1, <2>2, <3>1, <3>2 DEF LengthOK
  <2>6. ~ InRound'
    BY <2>1 DEF InRound
  <2>7. BytesOK'
    <3>1. \A ip \in Inode, k \in Nat : ~ Pending(ip, k) /\ ~ Pending(ip, k)'
      BY <1>2, <2>6, Zenon DEF Pending
    <3> QED BY <1>1, <3>1, BytesKept, Zenon DEF DataInv
  <2> QED BY <1>1, <2>4, <2>5, <2>7, Zenon DEF DataInv
<1> QED BY <1>3, <1>4, Zenon DEF sys_lseek

\* A search begins, goes on or fails.
LEMMA WaitingKeepsData ==
  ASSUME DataInv, FilesKept, data' = data, off' = off, call' = call
  PROVE  DataInv'
<1>1. /\ fip' = fip /\ size' = size /\ addrs' = addrs /\ blk' = blk
  BY Zenon DEF FilesKept
<1>2. Ip' = Ip /\ Pos' = Pos /\ (InRound' <=> InRound) /\ (Seeking' <=> Seeking)
  BY <1>1, Zenon DEF Ip, Pos, InRound, Seeking
<1>3. \A ip, k : (Pending(ip, k)' <=> Pending(ip, k))
  BY <1>1, <1>2, Zenon DEF Pending
<1>4. \A ip, k : Wanted(ip, k)' = Wanted(ip, k)
  BY <1>2, <1>3, Zenon DEF Wanted
<1>5. LengthOK'
  BY <1>1, <1>2, Zenon DEF DataInv, LengthOK
<1>6. BytesOK'
  BY <1>1, <1>3, <1>4, Zenon DEF DataInv, BytesOK
<1>7. SeekOK'
  BY <1>1, <1>2, Zenon DEF DataInv, SeekOK
<1> QED BY <1>5, <1>6, <1>7, Zenon DEF DataInv

LEMMA BeginWriteiKeepsData ==
  ASSUME BmapInv, DataInv, BeginWritei
  PROVE  DataInv'
<1>1. call.kind = "write" /\ call.n = 0 /\ FilesKept
  BY Zenon DEF BeginWritei, InWrite, FilesKept, vars, files
<1>2. call \in WriteCall /\ ~ InRound
  BY <1>1, Kinds DEF BmapInv, BmapTypeOK, InRound
<1>3. /\ call.f \in File /\ call.left \in Nat \ {0} /\ call.tot \in Nat /\ call.done \in Nat
      /\ call.seek \in Nat \cup {-1} /\ call.zero \in Nat
  BY <1>2, Zenon DEF WriteCall
<1>4. off[call.f] \in Nat /\ Ip \in Inode /\ size[Ip] \in Nat
  BY <1>3, BmapConstants DEF Ip, BmapInv, BmapTypeOK
<1>5. ASSUME NEW n1, n1 = Smaller(call.left, MaxWrite)
      PROVE  n1 \in Nat \ {0} /\ n1 <= call.left
  BY <1>3, <1>5, BmapConstants DEF Smaller
<1>6. ASSUME NEW n1, n1 = Smaller(call.left, MaxWrite),
             call' = [call EXCEPT !.n = n1], off' = off, data' = data
      PROVE  DataInv'
  <2>1. /\ call'.kind = "write" /\ call'.f = call.f /\ call'.left = call.left
        /\ call'.done = call.done /\ call'.n = n1 /\ call'.tot = call.tot
        /\ call'.seek = call.seek /\ call'.zero = call.zero
    BY <1>2, <1>6 DEF WriteCall
  <2>2. fip' = fip /\ size' = size
    BY <1>1, Zenon DEF FilesKept
  <2>3. call.tot = 0
    <3>1. call.tot <= call.n
      BY <1>1, Zenon DEF BmapInv, CallOK
    <3> QED BY <1>1, <1>3, <3>1
  <2>4. Ip' = Ip /\ Pos' = off'[call'.f] /\ (Seeking' <=> Seeking)
    BY <1>1, <1>4, <1>6, <2>1, <2>2, <2>3 DEF Ip, Pos, Seeking
  <2>5. off'[call'.f] \in Nat
    BY <1>4, <1>6, <2>1
  <2>6. \A ip \in Inode, k \in Nat : ~ Pending(ip, k) /\ ~ Pending(ip, k)'
    BY <1>2, <2>4, <2>5 DEF Pending
  <2>7. BytesOK'
    BY <1>1, <1>6, <2>6, BytesKept, Zenon DEF DataInv
  <2>8. LengthOK'
    BY <1>6, <2>2, <2>4, Zenon DEF DataInv, LengthOK
  <2>9. SeekOK'
    BY <1>6, <2>1, <2>2, <2>4, Zenon DEF DataInv, SeekOK
  <2> QED BY <1>6, <2>7, <2>8, <2>9, Zenon DEF DataInv
\* A seek never fails here: it starts at the end and stays below the limit.
<1>7. ASSUME NEW n1, n1 = Smaller(call.left, MaxWrite),
             off[call.f] > size[Ip] \/ off[call.f] + n1 > MAXFILE * BSIZE,
             FileWriteReturns(off[call.f], data)
      PROVE  DataInv'
  <2>1. ~ Seeking
    <3> SUFFICES ASSUME Seeking PROVE FALSE
      OBVIOUS
    <3>1. /\ off[call.f] = size[Ip] /\ call.seek = off[call.f] + call.left
          /\ call.seek <= MAXFILE * BSIZE
      BY Zenon DEF DataInv, SeekOK
    <3> QED BY <1>3, <1>4, <1>5, <1>7, <3>1, BmapConstants
  <2>2. call.seek = -1
    BY <1>1, <2>1, Zenon DEF Seeking
  <2>3. call' = Idle /\ data' = data
    BY <1>7, <2>2, Zenon DEF FileWriteReturns
  <2>4. ~ InRound' /\ ~ Seeking'
    BY <2>3 DEF InRound, Seeking, Idle
  <2> QED BY <1>1, <1>2, <2>1, <2>3, <2>4, QuietData
<1> QED BY <1>6, <1>7, Zenon DEF BeginWritei

-----------------------------------------------------------------------------
\* Two blocks of data have different addresses.
LEMMA DataApart ==
  ASSUME NEW A, NEW B, NEW U, Owned(A, B, U), 0 \notin U \ Meta,
         NEW ip \in Inode, NEW jp \in Inode,
         NEW bn \in 0 .. MAXFILE - 1, NEW bm \in 0 .. MAXFILE - 1,
         FileBlock(A, B, ip, bn) # 0,
         FileBlock(A, B, ip, bn) = FileBlock(A, B, jp, bm)
  PROVE  ip = jp /\ bn = bm
<1>0. \A kp, lp \in Inode : \A s, t :
        Held(A, B, kp, s) /\ Held(A, B, lp, t) /\ At(A, B, s) = At(A, B, t) => s = t
  BY Zenon DEF Owned
<1>1. \/ bn \in 0 .. NDIRECT /\ FileBlock(A, B, ip, bn) = Word(A, ip, bn)
      \/ \E q, k \in Entry : /\ bn = NDIRECT + NINDIRECT * q + k
                             /\ FileBlock(A, B, ip, bn) = Leaf(A, B, ip, q, k)
  BY FileBlockCases
<1>2. \/ bm \in 0 .. NDIRECT /\ FileBlock(A, B, jp, bm) = Word(A, jp, bm)
      \/ \E q, k \in Entry : /\ bm = NDIRECT + NINDIRECT * q + k
                             /\ FileBlock(A, B, jp, bm) = Leaf(A, B, jp, q, k)
  BY FileBlockCases, Zenon
<1>3. ASSUME NEW kp \in Inode, NEW lp \in Inode, NEW i \in 0 .. NDIRECT,
             NEW q \in Entry, NEW k \in Entry,
             Word(A, kp, i) # 0, Word(A, kp, i) = Leaf(A, B, lp, q, k)
      PROVE  FALSE
  <2>1. Held(A, B, kp, InInode(kp, i)) /\ At(A, B, InInode(kp, i)) = Word(A, kp, i)
    BY <1>3, DirectPlace
  <2>2. PICK n : /\ n = Word(B, Word(A, lp, NDIRECT), q) /\ n # 0
                 /\ Held(A, B, lp, InBlock(n, k)) /\ At(A, B, InBlock(n, k)) = Word(A, kp, i)
    BY <1>3, LeafPlace
  <2>3. InInode(kp, i) = InBlock(n, k)
    BY <1>0, <2>1, <2>2, Zenon
  <2> QED BY <2>2, <2>3, PlacesDiffer
<1>4. CASE bn \in 0 .. NDIRECT /\ FileBlock(A, B, ip, bn) = Word(A, ip, bn)
  <2>1. bm \in 0 .. NDIRECT /\ FileBlock(A, B, jp, bm) = Word(A, jp, bm)
    BY <1>2, <1>3, <1>4
  <2>2. Held(A, B, ip, InInode(ip, bn)) /\ At(A, B, InInode(ip, bn)) = Word(A, ip, bn)
    BY <1>4, DirectPlace
  <2>3. Held(A, B, jp, InInode(jp, bm)) /\ At(A, B, InInode(jp, bm)) = Word(A, jp, bm)
    <3>1. bm \in 0 .. NDIRECT /\ Word(A, jp, bm) # 0
      BY <2>1, Zenon
    <3> QED BY <3>1, DirectPlace
  <2>4. InInode(ip, bn) = InInode(jp, bm)
    BY <1>0, <1>4, <2>1, <2>2, <2>3, Zenon
  <2> QED BY <2>4, PlacesDiffer
<1>5. ASSUME NEW q \in Entry, NEW k \in Entry, bn = NDIRECT + NINDIRECT * q + k,
             FileBlock(A, B, ip, bn) = Leaf(A, B, ip, q, k)
      PROVE  ip = jp /\ bn = bm
  <2>1. PICK p \in Entry, l \in Entry : /\ bm = NDIRECT + NINDIRECT * p + l
                                        /\ FileBlock(A, B, jp, bm) = Leaf(A, B, jp, p, l)
    BY <1>2, <1>3, <1>5
  <2>2. PICK n, m : n = Word(B, Word(A, ip, NDIRECT), q) /\ m = Word(B, Word(A, jp, NDIRECT), p)
    OBVIOUS
  <2>3. /\ Word(A, ip, NDIRECT) # 0 /\ n # 0
        /\ Held(A, B, ip, InBlock(n, k)) /\ At(A, B, InBlock(n, k)) = Leaf(A, B, ip, q, k)
    BY <1>5, <2>2, LeafPlace
  <2>4. /\ Word(A, jp, NDIRECT) # 0 /\ m # 0
        /\ Held(A, B, jp, InBlock(m, l)) /\ At(A, B, InBlock(m, l)) = Leaf(A, B, jp, p, l)
    BY <1>5, <2>1, <2>2, LeafPlace
  <2>5. InBlock(n, k) = InBlock(m, l)
    BY <1>0, <1>5, <2>1, <2>3, <2>4, Zenon
  <2>6. n = m /\ k = l
    BY <2>5, PlacesDiffer
  <2>7. /\ Held(A, B, ip, InBlock(Word(A, ip, NDIRECT), q))
        /\ At(A, B, InBlock(Word(A, ip, NDIRECT), q)) = n
    BY <2>2, <2>3, Indirect, AtBlock
  <2>8. /\ Held(A, B, jp, InBlock(Word(A, jp, NDIRECT), p))
        /\ At(A, B, InBlock(Word(A, jp, NDIRECT), p)) = m
    BY <2>2, <2>4, Indirect, AtBlock
  <2>9. InBlock(Word(A, ip, NDIRECT), q) = InBlock(Word(A, jp, NDIRECT), p)
    BY <1>0, <2>6, <2>7, <2>8, Zenon
  <2>10. Word(A, ip, NDIRECT) = Word(A, jp, NDIRECT) /\ q = p
    BY <2>9, BlockPlaces
  <2>11. /\ Held(A, B, ip, InInode(ip, NDIRECT)) /\ Held(A, B, jp, InInode(jp, NDIRECT))
         /\ At(A, B, InInode(ip, NDIRECT)) = At(A, B, InInode(jp, NDIRECT))
    BY <2>3, <2>4, <2>10, Indirect, AtInode
  <2>12. ip = jp
    BY <1>0, <2>11, PlacesDiffer
  <2> QED BY <1>5, <2>1, <2>6, <2>10, <2>12, Zenon
<1> QED BY <1>1, <1>4, <1>5, Zenon

\* The bytes of the round that was written are the call's, the others stay.
LEMMA WriteBlockKeepsData ==
  ASSUME BmapInv, DataInv, WriteBlock
  PROVE  DataInv'
<1>1. /\ Transferring /\ call.kind = "write" /\ Addr(Here) # 0
      /\ call' = [call EXCEPT !.tot = @ + Part]
      /\ addrs' = addrs /\ size' = size /\ fip' = fip /\ off' = off /\ data' = data
  BY Zenon DEF WriteBlock, vars, files
<1>2. PICK n \in Bit :
        /\ n = Addr(Here) /\ n = FileBlock(addrs, blk, Ip, Pos \div BSIZE)
        /\ Overwritten(blk, blk', n)
        /\ \A i \in 0 .. BSIZE - 1 :
             blk'[n][i] = IF i \in Pos % BSIZE .. (Pos % BSIZE) + Part - 1
                            THEN Source(call.done + call.tot + i - (Pos % BSIZE))
                            ELSE blk[n][i]
  BY WriteBlockStep, Zenon
<1>3. /\ call.f \in File /\ Ip \in Inode /\ Pos \in Nat /\ off[call.f] \in Nat
      /\ call.tot \in Nat /\ call.n \in Nat /\ call.tot < call.n
      /\ Part \in Nat \ {0} /\ call.tot + Part <= call.n /\ (Pos % BSIZE) + Part <= BSIZE
      /\ Pos < MAXFILE * BSIZE
  BY <1>1, PartBounds
<1>4. call \in WriteCall
  BY <1>1, Kinds DEF BmapInv, BmapTypeOK
<1>5. /\ call.done \in Nat /\ call.left \in Nat /\ call.seek \in Nat \cup {-1}
      /\ call'.kind = "write" /\ call'.f = call.f /\ call'.left = call.left
      /\ call'.done = call.done /\ call'.n = call.n /\ call'.tot = call.tot + Part
      /\ call'.seek = call.seek /\ call'.zero = call.zero
  BY <1>1, <1>4 DEF WriteCall
<1>6. /\ Ip' = Ip /\ Pos' = Pos + Part /\ InRound /\ InRound' /\ (Seeking' <=> Seeking)
  BY <1>1, <1>3, <1>5 DEF Ip, Pos, InRound, Seeking
<1>7. /\ Owned(addrs, blk, used) /\ used \in SUBSET Bit /\ 0 \in Meta
      /\ Pos \div BSIZE \in 0 .. MAXFILE - 1 /\ Pos % BSIZE \in 0 .. BSIZE - 1
  BY <1>3, InFile, BmapConstants, Zenon DEF BmapInv, BmapTypeOK
<1>8. \A ip \in Inode, bn \in 0 .. MAXFILE - 1 :
        FileBlock(addrs, blk', ip, bn) = FileBlock(addrs, blk, ip, bn)
  BY <1>1, <1>2, <1>3, <1>7, WrittenOwned
\* The new bytes.
<1>9. ASSUME NEW k \in Nat, Pos <= k, k < Pos + Part
      PROVE  Byte(addrs, blk', Ip, k) = IF Seeking THEN 0 ELSE call.f
  <2>1. PICK e \in Nat : k = Pos + e /\ e < Part
    <3>1. k - Pos \in Nat /\ k = Pos + (k - Pos) /\ k - Pos < Part
      BY <1>3, <1>9
    <3> QED BY <3>1, Zenon
  <2>2. (Pos % BSIZE) + e < BSIZE
    BY <1>3, <1>7, <2>1, BmapConstants
  <2>3. k \div BSIZE = Pos \div BSIZE /\ k % BSIZE = (Pos % BSIZE) + e
    BY <1>3, <2>1, <2>2, SameBlock, Zenon
  <2>4. FileBlock(addrs, blk', Ip, k \div BSIZE) = n
    BY <1>2, <1>3, <1>7, <1>8, <2>3
  <2>5. blk'[n][(Pos % BSIZE) + e] = Source(call.done + call.tot + e)
    <3>1. /\ (Pos % BSIZE) + e \in 0 .. BSIZE - 1
          /\ (Pos % BSIZE) + e \in Pos % BSIZE .. (Pos % BSIZE) + Part - 1
          /\ call.done + call.tot + ((Pos % BSIZE) + e) - (Pos % BSIZE) = call.done + call.tot + e
      <4>1. PICK o \in Nat, s \in Nat : /\ o = Pos % BSIZE /\ s = call.done + call.tot
                                        /\ o + e < BSIZE /\ BSIZE \in Nat
        BY <1>3, <1>5, <1>7, <2>2, BmapConstants
      <4>2. /\ o + e \in 0 .. BSIZE - 1 /\ o + e \in o .. o + Part - 1
            /\ s + (o + e) - o = s + e
        BY <1>3, <2>1, <4>1
      <4> QED BY <4>1, <4>2, Zenon
    <3>2. blk'[n][(Pos % BSIZE) + e] =
            Source(call.done + call.tot + ((Pos % BSIZE) + e) - (Pos % BSIZE))
      BY <1>2, <3>1
    <3> QED BY <3>1, <3>2
  <2>6. Source(call.done + call.tot + e) = IF Seeking THEN 0 ELSE call.f
    <3>1. CASE Seeking
      <4>1. call.done + call.left <= SBUFSIZE /\ call.n <= call.left
        BY <1>1, <3>1, Zenon DEF DataInv, SeekOK, BmapInv, CallOK
      <4>2. call.done + call.tot + e < SBUFSIZE
        BY <1>3, <1>5, <2>1, <4>1, BmapAssumption
      <4> QED BY <3>1, <4>2 DEF Source, Seeking
    <3>2. CASE ~ Seeking
      BY <1>1, <3>2, Zenon DEF Source, Seeking
    <3> QED BY <3>1, <3>2
  <2> QED BY <2>3, <2>4, <2>5, <2>6, Zenon DEF Byte
\* The old bytes.
<1>10. ASSUME NEW ip \in Inode, NEW k \in Nat, k < size[ip] \/ Pending(ip, k),
              ~(ip = Ip /\ Pos <= k /\ k < Pos + Part)
       PROVE  Byte(addrs, blk', ip, k) = Byte(addrs, blk, ip, k)
  <2>1. /\ FileBlock(addrs, blk, ip, k \div BSIZE) # 0
        /\ k \div BSIZE \in 0 .. MAXFILE - 1 /\ k % BSIZE \in 0 .. BSIZE - 1
    BY <1>10, WrittenBytes, Zenon
  <2>2. PICK m : m = FileBlock(addrs, blk, ip, k \div BSIZE)
    OBVIOUS
  <2>3. m = FileBlock(addrs, blk', ip, k \div BSIZE) /\ m \in used \ Meta /\ m \in Bit
    BY <1>7, <1>8, <2>1, <2>2, DataInUse
  <2>4. CASE m # n
    <3>1. blk'[m] = blk[m]
      BY <1>2, <2>3, <2>4, Zenon DEF Overwritten
    <3> QED BY <2>2, <2>3, <3>1, Zenon DEF Byte
  <2>5. CASE m = n
    <3>0. 0 \notin used \ Meta
      BY <1>7, Zenon
    <3>1. ip = Ip /\ k \div BSIZE = Pos \div BSIZE
      BY <1>2, <1>3, <1>7, <2>1, <2>2, <2>5, <3>0, DataApart
    <3>2. k % BSIZE \notin Pos % BSIZE .. (Pos % BSIZE) + Part - 1
      <4> SUFFICES ASSUME k % BSIZE \in Pos % BSIZE .. (Pos % BSIZE) + Part - 1 PROVE FALSE
        OBVIOUS
      <4>1. /\ k = BSIZE * (k \div BSIZE) + (k % BSIZE)
            /\ Pos = BSIZE * (Pos \div BSIZE) + (Pos % BSIZE)
        <5>1. BSIZE \in Nat \ {0} /\ k \in Int /\ Pos \in Int
          BY <1>3, BmapConstants
        <5> QED BY <5>1, DivMod, Zenon
      <4>2. PICK x \in Int : x = BSIZE * (Pos \div BSIZE)
        BY <1>7, BmapConstants
      <4>3. k = x + (k % BSIZE) /\ Pos = x + (Pos % BSIZE)
        BY <3>1, <4>1, <4>2, Zenon
      <4>4. Pos <= k /\ k < Pos + Part
        <5>1. PICK y \in Int, z \in Int : /\ y = Pos % BSIZE /\ z = k % BSIZE
                                          /\ k = x + z /\ Pos = x + y /\ z \in y .. y + Part - 1
          BY <1>7, <2>1, <4>3
        <5> QED BY <1>3, <5>1
      <4> QED BY <1>10, <3>1, <4>4, Zenon
    <3>3. blk'[n][k % BSIZE] = blk[n][k % BSIZE]
      BY <1>2, <2>1, <3>2
    <3> QED BY <2>2, <2>3, <2>5, <3>3, Zenon DEF Byte
  <2> QED BY <2>4, <2>5, Zenon
<1>11. BytesOK'
  <2> SUFFICES ASSUME NEW ip \in Inode, NEW k \in Nat, k < size'[ip] \/ Pending(ip, k)'
               PROVE  Byte(addrs', blk', ip, k) = Wanted(ip, k)'
    BY Zenon DEF BytesOK
  <2>1. Pending(ip, k)' <=> ip = Ip /\ off[call.f] <= k /\ k < Pos + Part
    BY <1>1, <1>5, <1>6, Zenon DEF Pending
  <2>2. Pending(ip, k) <=> ip = Ip /\ off[call.f] <= k /\ k < Pos
    BY <1>6, Zenon DEF Pending
  <2>3. off[call.f] <= Pos
    BY <1>3 DEF Pos
  <2>4. CASE ip = Ip /\ Pos <= k /\ k < Pos + Part
    <3>1. Pending(ip, k)'
      BY <1>3, <2>1, <2>3, <2>4
    <3>2. Wanted(ip, k)' = IF Seeking THEN 0 ELSE call.f
      BY <1>5, <1>6, <3>1, Zenon DEF Wanted
    <3> QED BY <1>1, <1>9, <2>4, <3>2, Zenon
  <2>5. CASE ~(ip = Ip /\ Pos <= k /\ k < Pos + Part)
    <3>1. Pending(ip, k)' <=> Pending(ip, k)
      BY <1>3, <2>1, <2>2, <2>5
    <3>2. k < size[ip] \/ Pending(ip, k)
      BY <1>1, <3>1, Zenon
    <3>3. Wanted(ip, k)' = Wanted(ip, k)
      BY <1>1, <1>5, <1>6, <3>1, Zenon DEF Wanted
    <3>4. Byte(addrs, blk, ip, k) = Wanted(ip, k)
      BY <3>2, Zenon DEF DataInv, BytesOK
    <3> QED BY <1>1, <1>10, <2>5, <3>2, <3>3, <3>4, Zenon
  <2> QED BY <2>4, <2>5
<1>12. LengthOK'
  BY <1>1, <1>6, Zenon DEF DataInv, LengthOK
<1>13. SeekOK'
  BY <1>1, <1>5, <1>6, Zenon DEF DataInv, SeekOK
<1> QED BY <1>1, <1>11, <1>12, <1>13, Zenon DEF DataInv

LEMMA AllocatedKeepsData ==
  ASSUME BmapInv, SearchInv, DataInv, Allocated
  PROVE  DataInv'
<1>1. /\ size' = size /\ fip' = fip /\ off' = off /\ call' = call /\ data' = data
  BY Zenon DEF Allocated, files
<1>2. PICK r \in Bit \ Meta : r = ret' /\ r \notin used /\ r # 0
  BY AllocatedStep, Zenon
<1>3. PICK p : p = Here
  OBVIOUS
<1>4. /\ Stored(addrs, blk, addrs', blk', p, r)
      /\ Place(addrs, blk, Ip, p) /\ At(addrs, blk, p) = 0 /\ Ip \in Inode
  BY <1>2, <1>3, AllocatedStep, Zenon
<1>5. Owned(addrs, blk, used) /\ used \in SUBSET Bit /\ 0 \in Meta
  BY BmapConstants, Zenon DEF BmapInv, BmapTypeOK
<1>6. Ip' = Ip /\ Pos' = Pos /\ (InRound' <=> InRound) /\ (Seeking' <=> Seeking)
  BY <1>1, Zenon DEF Ip, Pos, InRound, Seeking
<1>7. \A ip, k : (Pending(ip, k)' <=> Pending(ip, k))
  BY <1>1, <1>6, Zenon DEF Pending
<1>8. \A ip, k : Wanted(ip, k)' = Wanted(ip, k)
  BY <1>1, <1>6, <1>7, Zenon DEF Wanted
<1>9. BytesOK'
  <2> SUFFICES ASSUME NEW ip \in Inode, NEW k \in Nat, k < size'[ip] \/ Pending(ip, k)'
               PROVE  Byte(addrs', blk', ip, k) = Wanted(ip, k)'
    BY Zenon DEF BytesOK
  <2>1. k < size[ip] \/ Pending(ip, k)
    BY <1>1, <1>7, Zenon
  <2>2. /\ FileBlock(addrs, blk, ip, k \div BSIZE) # 0 /\ k \div BSIZE \in 0 .. MAXFILE - 1
    BY <2>1, WrittenBytes, Zenon
  <2>3. /\ FileBlock(addrs', blk', ip, k \div BSIZE) = FileBlock(addrs, blk, ip, k \div BSIZE)
        /\ blk'[FileBlock(addrs, blk, ip, k \div BSIZE)] =
             blk[FileBlock(addrs, blk, ip, k \div BSIZE)]
    BY <1>2, <1>4, <1>5, <2>2, StoredBlocks
  <2>4. Byte(addrs, blk, ip, k) = Wanted(ip, k)
    BY <2>1, Zenon DEF DataInv, BytesOK
  <2> QED BY <1>8, <2>3, <2>4, Zenon DEF Byte
<1>10. LengthOK'
  BY <1>1, <1>6, Zenon DEF DataInv, LengthOK
<1>11. SeekOK'
  BY <1>1, <1>6, Zenon DEF DataInv, SeekOK
<1> QED BY <1>1, <1>9, <1>10, <1>11, Zenon DEF DataInv

LEMMA ItruncKeepsData ==
  ASSUME BmapInv, DataInv, NEW jp \in Inode, itrunc(jp)
  PROVE  DataInv'
<1>1. /\ call = Idle /\ call' = call /\ blk' = blk
      /\ addrs' = [addrs EXCEPT ![jp] = NoAddrs]
      /\ size' = [size EXCEPT ![jp] = 0]
      /\ data' = [data EXCEPT ![jp] = <<>>]
  BY Zenon DEF itrunc
<1>2. ~ InRound /\ ~ Seeking /\ ~ InRound' /\ ~ Seeking'
  BY <1>1, Zenon DEF InRound, Seeking, Idle
<1>3. /\ addrs \in [Inode -> [0 .. NDIRECT -> Int]]
      /\ size \in [Inode -> 0 .. MAXFILE * BSIZE] /\ data \in [Inode -> Seq(Int)]
  BY Zenon DEF BmapInv, BmapTypeOK, Typed, DataInv
<1>4. /\ data' \in [Inode -> Seq(Int)] /\ size'[jp] = 0 /\ data'[jp] = <<>>
      /\ \A ip \in Inode : ip # jp =>
           addrs'[ip] = addrs[ip] /\ size'[ip] = size[ip] /\ data'[ip] = data[ip]
  BY <1>1, <1>3
<1>5. LengthOK'
  <2>1. \A ip \in Inode : Len(data[ip]) = size[ip]
    BY <1>2, Zenon DEF DataInv, LengthOK
  <2>2. \A ip \in Inode : Len(data'[ip]) = size'[ip]
    BY <1>4, <2>1
  <2> QED BY <1>2, <2>2, Zenon DEF LengthOK
<1>6. BytesOK'
  <2> SUFFICES ASSUME NEW ip \in Inode, NEW k \in Nat, k < size'[ip] \/ Pending(ip, k)'
               PROVE  Byte(addrs', blk', ip, k) = Wanted(ip, k)'
    BY Zenon DEF BytesOK
  <2>1. ~ Pending(ip, k) /\ ~ Pending(ip, k)'
    BY <1>2, Zenon DEF Pending
  <2>2. ip # jp
    BY <1>4, <2>1
  <2>3. Byte(addrs, blk, ip, k) = Wanted(ip, k)
    BY <1>4, <2>1, <2>2, Zenon DEF DataInv, BytesOK
  <2>4. Byte(addrs', blk', ip, k) = Byte(addrs, blk, ip, k)
    <3>1. addrs'[ip] = addrs[ip] /\ blk' = blk
      BY <1>1, <1>4, <2>2, Zenon
    <3>2. FileBlock(addrs', blk, ip, k \div BSIZE) = FileBlock(addrs, blk, ip, k \div BSIZE)
      <4>1. \A i : Word(addrs', ip, i) = Word(addrs, ip, i)
        BY <3>1, Zenon DEF Word
      <4> QED BY <4>1 DEF FileBlock
    <3> QED BY <3>1, <3>2, Zenon DEF Byte
  <2>5. Wanted(ip, k)' = Wanted(ip, k)
    BY <1>4, <2>1, <2>2, Zenon DEF Wanted
  <2> QED BY <2>3, <2>4, <2>5, Zenon
<1> QED BY <1>2, <1>4, <1>5, <1>6, Zenon DEF DataInv, SeekOK

\* The end of a round: what was pending is what the file should hold.
LEMMA EndWriteiKeepsData ==
  ASSUME BmapInv, DataInv, EndWritei
  PROVE  DataInv'
<1>1. /\ call.kind = "write" /\ call.n > 0 /\ call.tot = call.n
      /\ blk' = blk /\ addrs' = addrs /\ fip' = fip
      /\ size' = IF Grows THEN [size EXCEPT ![Ip] = Pos] ELSE size
  BY Zenon DEF EndWritei, InWrite, vars, files
<1>2. call \in WriteCall /\ InRound /\ off \in [File -> Nat]
  BY <1>1, Kinds DEF BmapInv, BmapTypeOK, InRound
<1>3. /\ call.f \in File /\ call.left \in Nat \ {0} /\ call.done \in Nat /\ call.n \in Nat
      /\ call.seek \in Nat \cup {-1} /\ call.zero \in Nat /\ call.f \in Int
  <2>1. /\ call.f \in File /\ call.left \in Nat \ {0} /\ call.done \in Nat /\ call.n \in Nat
        /\ call.seek \in Nat \cup {-1} /\ call.zero \in Nat
    BY <1>2 DEF WriteCall
  <2>2. \A f \in File : f \in Int
    BY BmapAssumption
  <2> QED BY <2>1, <2>2, Zenon
<1>4. /\ off[call.f] \in Nat /\ Ip \in Inode /\ size[Ip] \in Nat
      /\ size \in [Inode -> 0 .. MAXFILE * BSIZE] /\ data \in [Inode -> Seq(Int)]
  BY <1>2, <1>3, BmapConstants DEF Ip, BmapInv, BmapTypeOK, DataInv
<1>5. off[call.f] <= size[Ip] /\ call.n <= call.left
  BY <1>1, <1>2, Zenon DEF BmapInv, CallOK
<1>6. Pos = off[call.f] + call.n /\ Pos \in Nat
  BY <1>1, <1>3, <1>4 DEF Pos
<1>6a. PICK p \in Nat : /\ p = off[call.f] /\ Pos = p + call.n
                        /\ call.n \in Nat /\ Pos \in Nat /\ size[Ip] \in Nat
  BY <1>3, <1>4, <1>6, Zenon
<1>7. /\ \A ip \in Inode : ip # Ip => size'[ip] = size[ip]
      /\ size'[Ip] = IF Pos > size[Ip] THEN Pos ELSE size[Ip]
  BY <1>1, <1>4, Zenon DEF Grows
<1>8. /\ \A ip \in Inode, k \in Nat : k < size[ip] \/ Pending(ip, k) =>
           Byte(addrs, blk, ip, k) = Wanted(ip, k)
      /\ \A ip \in Inode, k \in Nat :
           Pending(ip, k) <=> ip = Ip /\ off[call.f] <= k /\ k < Pos
  BY <1>2, Zenon DEF DataInv, BytesOK, Pending
<1>9. \A ip \in Inode : ip # Ip => Len(data[ip]) = size[ip]
  BY Zenon DEF DataInv, LengthOK
\* The next state is at rest, with d what the files should hold.
<1>10. ASSUME ~ InRound', data' \in [Inode -> Seq(Int)],
              \A ip \in Inode : ip # Ip => data'[ip] = data[ip],
              Seeking' => Seeking /\ Ip' = Ip, SeekOK',
              IF Seeking' THEN Len(data'[Ip]) <= size'[Ip] ELSE Len(data'[Ip]) = size'[Ip],
              \A k \in Nat : k < size'[Ip] =>
                Byte(addrs, blk, Ip, k) = IF k < Len(data'[Ip]) THEN data'[Ip][k + 1] ELSE 0
       PROVE  DataInv'
  <2>1. LengthOK'
    <3> SUFFICES ASSUME NEW ip \in Inode
                 PROVE  IF Seeking' /\ ip = Ip' THEN Len(data'[ip]) <= size'[ip]
                        ELSE Len(data'[ip]) = size'[ip]
      BY Zenon DEF LengthOK
    <3>1. CASE ip # Ip
      BY <1>7, <1>9, <1>10, <3>1, Zenon
    <3>2. CASE ip = Ip
      <4>1. CASE Seeking'
        BY <1>10, <3>2, <4>1, Zenon
      <4>2. CASE ~ Seeking'
        BY <1>10, <3>2, <4>2, Zenon
      <4> QED BY <4>1, <4>2
    <3> QED BY <3>1, <3>2
  <2>2. BytesOK'
    <3> SUFFICES ASSUME NEW ip \in Inode, NEW k \in Nat, k < size'[ip] \/ Pending(ip, k)'
                 PROVE  Byte(addrs', blk', ip, k) = Wanted(ip, k)'
      BY Zenon DEF BytesOK
    <3>1. ~ Pending(ip, k)' /\ k < size'[ip]
      BY <1>10, Zenon DEF Pending
    <3>2. Wanted(ip, k)' = IF k < Len(data'[ip]) THEN data'[ip][k + 1] ELSE 0
      BY <3>1, Zenon DEF Wanted
    <3>3. CASE ip = Ip
      BY <1>1, <1>10, <3>1, <3>2, <3>3, Zenon
    <3>4. CASE ip # Ip
      <4>1. ~ Pending(ip, k) /\ k < size[ip]
        BY <1>7, <3>1, <3>4, Zenon DEF Pending
      <4>2. Byte(addrs, blk, ip, k) = IF k < Len(data[ip]) THEN data[ip][k + 1] ELSE 0
        BY <1>8, <4>1, Zenon DEF Wanted
      <4> QED BY <1>1, <1>10, <3>2, <3>4, <4>2, Zenon
    <3> QED BY <3>3, <3>4
  <2> QED BY <1>10, <2>1, <2>2, Zenon DEF DataInv
\* What data of Ip becomes, except for a seek that ends.
<1>11. ASSUME ~ Seeking
       PROVE  /\ Written \in [Inode -> Seq(Int)]
              /\ \A ip \in Inode : ip # Ip => Written[ip] = data[ip]
              /\ Len(Written[Ip]) = size'[Ip]
              /\ \A k \in Nat : k < size'[Ip] =>
                   Byte(addrs, blk, Ip, k) =
                     IF k < Len(Written[Ip]) THEN Written[Ip][k + 1] ELSE 0
  <2>1. Len(data[Ip]) = size[Ip] /\ call.seek = -1
    BY <1>1, <1>4, <1>11, Zenon DEF DataInv, LengthOK, Seeking
  <2>2. PICK t : t = [i \in 1 .. call.n |-> call.f]
    BY Zenon
  <2>3. t \in Seq(Int) /\ Len(t) = call.n /\ \A i \in 1 .. call.n : t[i] = call.f
    BY <1>3, <2>2
  <2>4. off[call.f] \in 0 .. Len(data[Ip]) /\ data[Ip] \in Seq(Int)
    BY <1>4, <1>5, <2>1
  <2>5. PICK w : w = Overwrite(data[Ip], off[call.f], t)
    OBVIOUS
  <2>6. /\ w \in Seq(Int)
        /\ Len(w) = IF Pos > Len(data[Ip]) THEN Pos ELSE Len(data[Ip])
        /\ \A k \in Nat : k < Pos \/ k < Len(data[Ip]) =>
             w[k + 1] = IF off[call.f] <= k /\ k < Pos THEN t[k - off[call.f] + 1]
                        ELSE data[Ip][k + 1]
    <3>1. /\ w \in Seq(Int)
          /\ Len(w) = IF p + Len(t) > Len(data[Ip]) THEN p + Len(t) ELSE Len(data[Ip])
          /\ \A k \in Nat : k < p + Len(t) \/ k < Len(data[Ip]) =>
               w[k + 1] = IF p <= k /\ k < p + Len(t) THEN t[k - p + 1] ELSE data[Ip][k + 1]
      <4>1. p \in 0 .. Len(data[Ip]) /\ w = Overwrite(data[Ip], p, t)
        BY <1>6a, <2>4, <2>5, Zenon
      <4>2. IsOverwrite(w, data[Ip], p, t)
        BY <2>3, <2>4, <4>1, OverwriteFacts
      <4> QED BY <4>2, Zenon DEF IsOverwrite
    <3> QED BY <1>6a, <2>3, <3>1, Zenon
  <2>7. Written = [data EXCEPT ![Ip] = w]
    BY <2>1, <2>2, <2>5 DEF Written
  <2>8. /\ Written \in [Inode -> Seq(Int)] /\ Written[Ip] = w
        /\ \A ip \in Inode : ip # Ip => Written[ip] = data[ip]
    BY <1>4, <2>6, <2>7
  <2>9. Len(w) = size'[Ip]
    BY <1>7, <2>1, <2>6
  <2>10. ASSUME NEW k \in Nat, k < size'[Ip] PROVE Byte(addrs, blk, Ip, k) = w[k + 1]
    <3>1. k < Pos \/ k < size[Ip]
      BY <1>7, <2>10, Zenon
    <3>2. CASE off[call.f] <= k /\ k < Pos
      <4>1. k - off[call.f] + 1 \in 1 .. call.n
        BY <1>6a, <3>2
      <4>2. w[k + 1] = call.f
        BY <2>3, <2>6, <3>2, <4>1, Zenon
      <4>3. Pending(Ip, k)
        BY <1>4, <1>8, <3>2, Zenon
      <4>4. Byte(addrs, blk, Ip, k) = call.f
        BY <1>4, <1>8, <1>11, <4>3, Zenon DEF Wanted
      <4> QED BY <4>2, <4>4, Zenon
    <3>3. CASE ~(off[call.f] <= k /\ k < Pos)
      <4>1. ~ Pending(Ip, k) /\ k < size[Ip]
        BY <1>4, <1>5, <1>6, <1>8, <3>1, <3>3
      <4>2. Byte(addrs, blk, Ip, k) = data[Ip][k + 1]
        BY <1>4, <1>8, <2>1, <4>1, Zenon DEF Wanted
      <4>3. w[k + 1] = data[Ip][k + 1]
        BY <2>1, <2>6, <3>1, <3>3
      <4> QED BY <4>2, <4>3
    <3> QED BY <3>2, <3>3, Zenon
  <2> QED BY <2>8, <2>9, <2>10, Zenon
\* A seek has appended zeroes.
<1>12. ASSUME Seeking
       PROVE  /\ Written = data /\ size'[Ip] = Pos /\ off[call.f] = size[Ip]
              /\ Len(data[Ip]) <= size[Ip] /\ Len(data[Ip]) \in Nat
              /\ call.seek = off[call.f] + call.left /\ call.seek <= MAXFILE * BSIZE
              /\ call.done + call.left <= SBUFSIZE /\ call.zero <= SBUFSIZE
              /\ \A k \in Nat : k < Pos =>
                   Byte(addrs, blk, Ip, k) = IF k < Len(data[Ip]) THEN data[Ip][k + 1] ELSE 0
  <2>1. /\ off[call.f] = size[Ip] /\ call.seek = off[call.f] + call.left
        /\ call.seek <= MAXFILE * BSIZE
        /\ call.done + call.left <= SBUFSIZE /\ call.zero <= SBUFSIZE
        /\ Len(data[Ip]) <= size[Ip] /\ Written = data
    BY <1>4, <1>12, Zenon DEF DataInv, SeekOK, LengthOK, Written, Seeking
  <2>2. Len(data[Ip]) \in Nat
    BY <1>4
  <2>3. size'[Ip] = Pos
    BY <1>1, <1>3, <1>4, <1>6, <1>7, <2>1
  <2>4. ASSUME NEW k \in Nat, k < Pos
        PROVE  Byte(addrs, blk, Ip, k) = IF k < Len(data[Ip]) THEN data[Ip][k + 1] ELSE 0
    <3>1. CASE off[call.f] <= k
      <4>1. Byte(addrs, blk, Ip, k) = 0
        BY <1>4, <1>8, <1>12, <2>4, <3>1, Zenon DEF Wanted
      <4> QED BY <1>4, <2>1, <2>2, <3>1, <4>1
    <3>2. CASE ~(off[call.f] <= k)
      <4>1. k < size[Ip] /\ ~ Pending(Ip, k)
        BY <1>4, <1>8, <2>1, <3>2
      <4> QED BY <1>4, <1>8, <4>1, Zenon DEF Wanted
    <3> QED BY <3>1, <3>2, Zenon
  <2> QED BY <2>1, <2>2, <2>3, <2>4, Zenon
<1>12a. ASSUME Seeking
        PROVE  /\ Len(data[Ip]) \in Nat /\ Pos \in Nat /\ Len(data[Ip]) <= Pos
               /\ Len(data[Ip]) <= size'[Ip] /\ data[Ip] \in Seq(Int)
  <2>1. /\ Len(data[Ip]) <= size[Ip] /\ Len(data[Ip]) \in Nat /\ size[Ip] = off[call.f]
        /\ size'[Ip] = Pos /\ data[Ip] \in Seq(Int)
    BY <1>4, <1>12, <1>12a, Zenon
  <2>2. Len(data[Ip]) <= Pos
    BY <1>6a, <2>1
  <2> QED BY <1>6, <2>1, <2>2, Zenon
<1>13. CASE call.left > call.n
  <2>1. /\ call' = [call EXCEPT !.left = @ - call.n, !.done = @ + call.n, !.n = 0, !.tot = 0]
        /\ off' = [off EXCEPT ![call.f] = Pos] /\ data' = Written
    BY <1>13, Zenon DEF EndWritei
  <2>2. /\ call'.kind = "write" /\ call'.f = call.f /\ call'.left = call.left - call.n
        /\ call'.done = call.done + call.n /\ call'.n = 0 /\ call'.seek = call.seek
        /\ call'.zero = call.zero
    BY <1>2, <2>1 DEF WriteCall
  <2>3. ~ InRound' /\ Ip' = Ip /\ (Seeking' <=> Seeking) /\ off'[call'.f] = Pos
    BY <1>1, <1>2, <1>3, <2>1, <2>2 DEF InRound, Seeking, Ip
  <2>4. CASE Seeking
    <3>1. SeekOK'
      <4>1. /\ off[call.f] + call.left = Pos + (call.left - call.n)
            /\ (call.done + call.n) + (call.left - call.n) = call.done + call.left
        BY <1>3, <1>6a
      <4> QED BY <1>12, <2>2, <2>3, <2>4, <4>1, Zenon DEF SeekOK
    <3>2. Len(data'[Ip]) <= size'[Ip] /\ data' = data
      BY <1>12, <1>12a, <2>1, <2>4, Zenon
    <3> QED BY <1>4, <1>10, <1>12, <2>3, <2>4, <3>1, <3>2, Zenon
  <2>5. CASE ~ Seeking
    <3>1. SeekOK'
      BY <2>3, <2>5, Zenon DEF SeekOK
    <3> QED BY <1>10, <1>11, <2>1, <2>3, <2>5, <3>1, Zenon
  <2> QED BY <2>4, <2>5
<1>14. CASE ~(call.left > call.n)
  <2>1. FileWriteReturns(Pos, Written) /\ call.left = call.n
    BY <1>3, <1>5, <1>14 DEF EndWritei
  <2>2. CASE ~ Seeking
    <3>1. call' = Idle /\ data' = Written
      BY <1>1, <2>1, <2>2, Zenon DEF FileWriteReturns, Seeking
    <3>2. ~ InRound' /\ ~ Seeking'
      BY <3>1 DEF InRound, Seeking, Idle
    <3> QED BY <1>10, <1>11, <2>2, <3>1, <3>2, Zenon DEF SeekOK
  <2>3. CASE Seeking
    <3>0. ~(call.zero > SBUFSIZE) /\ call.seek # -1 /\ call.seek = Pos
      BY <1>3, <1>6, <1>12, <2>1, <2>3, BmapAssumption DEF Seeking
    <3>1. call' = Idle /\ data' = [data EXCEPT ![Ip] = Padded(@, Pos)]
      BY <1>12, <2>1, <2>3, <3>0, Zenon DEF FileWriteReturns
    <3>2. ~ InRound' /\ ~ Seeking'
      BY <3>1, Zenon DEF InRound, Seeking, Idle
    <3>3. PICK m \in Nat : m = Pos - Len(data[Ip])
      BY <1>12a, <2>3
    <3>4. PICK t : t = [i \in 1 .. m |-> 0]
      BY Zenon
    <3>5. t \in Seq(Int) /\ Len(t) = m /\ \A i \in 1 .. m : t[i] = 0
      BY <3>4
    <3>6. PICK w : w = Overwrite(data[Ip], Len(data[Ip]), t)
      OBVIOUS
    <3>7. /\ Len(data[Ip]) \in 0 .. Len(data[Ip]) /\ data[Ip] \in Seq(Int)
          /\ Len(data[Ip]) \in Nat /\ Len(data[Ip]) + Len(t) = Pos /\ Pos >= Len(data[Ip])
      BY <1>12a, <2>3, <3>3, <3>5
    <3>8. /\ w \in Seq(Int) /\ Len(w) = Pos
          /\ \A k \in Nat : k < Pos =>
               w[k + 1] = IF Len(data[Ip]) <= k THEN t[k - Len(data[Ip]) + 1] ELSE data[Ip][k + 1]
      <4>1. PICK x \in Nat, y \in Nat : /\ x = Len(data[Ip]) /\ y = Pos /\ y >= x
                                        /\ x + Len(t) = y
        BY <1>6a, <3>7, Zenon
      <4>2. /\ w \in Seq(Int) /\ Len(w) = IF y > x THEN y ELSE x
            /\ \A k \in Nat : k < y \/ k < x =>
                 w[k + 1] = IF x <= k /\ k < y THEN t[k - x + 1] ELSE data[Ip][k + 1]
        <5>1. IsOverwrite(w, data[Ip], Len(data[Ip]), t)
          BY <3>5, <3>6, <3>7, OverwriteFacts
        <5> QED BY <4>1, <5>1, Zenon DEF IsOverwrite
      <4>3. /\ w \in Seq(Int) /\ Len(w) = y
            /\ \A k \in Nat : k < y =>
                 w[k + 1] = IF x <= k THEN t[k - x + 1] ELSE data[Ip][k + 1]
        <5>1. (IF y > x THEN y ELSE x) = y
          BY <4>1
        <5> QED BY <4>2, <5>1, Zenon
      <4> QED BY <4>1, <4>3, Zenon
    <3>9. Padded(data[Ip], Pos) = w
      BY <3>3, <3>4, <3>6, Zenon DEF Padded
    <3>10. /\ data' \in [Inode -> Seq(Int)] /\ data'[Ip] = w
           /\ \A ip \in Inode : ip # Ip => data'[ip] = data[ip]
      BY <1>4, <3>1, <3>8, <3>9
    <3>11. ASSUME NEW k \in Nat, k < Pos PROVE Byte(addrs, blk, Ip, k) = w[k + 1]
      <4>1. CASE Len(data[Ip]) <= k
        <5>1. k - Len(data[Ip]) + 1 \in 1 .. m
          <6>1. PICK x \in Nat, y \in Nat : x = Len(data[Ip]) /\ y = Pos /\ m = y - x
            BY <1>6a, <3>3, <3>7
          <6> QED BY <3>11, <4>1, <6>1
        <5>2. w[k + 1] = 0
          <6>1. w[k + 1] = t[k - Len(data[Ip]) + 1]
            BY <3>8, <3>11, <4>1, Zenon
          <6> QED BY <3>5, <5>1, <6>1, Zenon
        <5>3. ~(k < Len(data[Ip]))
          BY <3>7, <4>1
        <5> QED BY <1>12, <2>3, <3>11, <5>2, <5>3
      <4>2. CASE ~(Len(data[Ip]) <= k)
        <5>1. w[k + 1] = data[Ip][k + 1]
          BY <3>8, <3>11, <4>2, Zenon
        <5>2. k < Len(data[Ip])
          BY <3>7, <4>2
        <5> QED BY <1>12, <2>3, <3>11, <5>1, <5>2
      <4> QED BY <4>1, <4>2
    <3>12. Len(data'[Ip]) = size'[Ip] /\ size'[Ip] = Pos
      BY <1>12, <2>3, <3>8, <3>10
    <3> QED BY <1>10, <3>2, <3>8, <3>10, <3>11, <3>12, Zenon DEF SeekOK
  <2> QED BY <2>2, <2>3
<1> QED BY <1>13, <1>14

LEMMA DataInit == BmapInit => DataInv
<1> SUFFICES ASSUME BmapInit PROVE DataInv
  OBVIOUS
<1>1. /\ size = [ip \in Inode |-> 0] /\ call = Idle /\ data = [ip \in Inode |-> <<>>]
  BY Zenon DEF BmapInit
<1>2. ~ InRound /\ ~ Seeking
  BY <1>1, Zenon DEF InRound, Seeking, Idle
<1>3. data \in [Inode -> Seq(Int)] /\ \A ip \in Inode : Len(data[ip]) = size[ip] /\ size[ip] = 0
  BY <1>1
<1>4. BytesOK
  BY <1>2, <1>3 DEF BytesOK, Pending
<1> QED BY <1>2, <1>3, <1>4, Zenon DEF DataInv, LengthOK, SeekOK

LEMMA DataSteps ==
  ASSUME ~ AnySeek
  PROVE  BmapInv /\ SearchInv /\ DataInv /\ [BmapNext]_fvars => DataInv'
<1> SUFFICES ASSUME BmapInv, SearchInv, DataInv, [BmapNext]_fvars PROVE DataInv'
  OBVIOUS
<1>1. ASSUME NEW f \in File, NEW n \in Counts, sys_write(f, n) \/ sys_read(f, n)
      PROVE  DataInv'
  BY <1>1, WriteKeepsData, ReadKeepsData
<1>2. ASSUME NEW f \in File, NEW o \in 0 .. MAXFILE * BSIZE, sys_lseek(f, o) PROVE DataInv'
  BY <1>2, LseekKeepsDataInv
<1>3. ASSUME NEW ip \in Inode, itrunc(ip) PROVE DataInv'
  BY <1>3, ItruncKeepsData
<1>4. CASE BeginWritei \/ WriteBlock \/ EndWritei \/ ReadBlock \/ ReadReturns
  BY <1>4, BeginWriteiKeepsData, WriteBlockKeepsData, EndWriteiKeepsData,
     ReadBlockKeepsData,
     ReadReturnsKeepsData, Zenon
<1>5. CASE Allocate
  <2>1. BmapInv'
    BY <1>5, AllocateKeeps
  <2>2. pc' # "outside of trans"
    BY <2>1, Zenon DEF BmapInv, BmapTypeOK
  <2>3. FilesKept /\ data' = data /\ off' = off /\ call' = call
    BY <1>5, <2>2, Zenon DEF Allocate, balloc, FilesKept, files
  <2> QED BY <2>3, WaitingKeepsData
<1>6. CASE Allocated
  BY <1>6, AllocatedKeepsData
<1>7. CASE Searching
  <2>1. FilesKept /\ data' = data /\ off' = off /\ call' = call
    BY <1>7, Zenon DEF Searching, TryNext, FilesKept, files
  <2> QED BY <2>1, WaitingKeepsData, Zenon
<1>8. CASE UNCHANGED fvars
  <2>1. FilesKept /\ data' = data /\ off' = off /\ call' = call
    BY <1>8, Zenon DEF fvars, vars, FilesKept
  <2> QED BY <2>1, WaitingKeepsData, Zenon
<1> QED BY <1>1, <1>2, <1>3, <1>4, <1>5, <1>6, <1>7, <1>8, Zenon DEF BmapNext

\* Every byte of every file is where bmap() finds it and is what was written
\* there last, between any two steps of the running call.
THEOREM DataInductive ==
  ASSUME ~ AnySeek
  PROVE  BmapSpec => []DataInv
<1>1. BmapInv /\ SearchInv /\ DataInv /\ [BmapNext]_fvars => DataInv'
  BY DataSteps
<1> QED BY <1>1, DataInit, BmapInductive, PTL DEF BmapSpec

\* Between calls a file is as long as it should be and has every byte.
LEMMA DataAtRest ==
  ASSUME BmapInv, DataInv, ~ Seeking, ~ InRound, NEW ip \in Inode
  PROVE  /\ size[ip] = Len(data[ip])
         /\ \A k \in 0 .. size[ip] - 1 :
              /\ FileBlock(addrs, blk, ip, k \div BSIZE) # 0
              /\ k \div BSIZE \in 0 .. MAXFILE - 1
              /\ Byte(addrs, blk, ip, k) = data[ip][k + 1]
<1>1. size[ip] = Len(data[ip]) /\ size[ip] \in Nat
  BY BmapConstants DEF DataInv, LengthOK, BmapInv, BmapTypeOK
<1>2. ASSUME NEW k \in 0 .. size[ip] - 1
      PROVE  /\ FileBlock(addrs, blk, ip, k \div BSIZE) # 0
             /\ k \div BSIZE \in 0 .. MAXFILE - 1
             /\ Byte(addrs, blk, ip, k) = data[ip][k + 1]
  <2>1. k \in Nat /\ k < size[ip]
    BY <1>1
  <2>2. FileBlock(addrs, blk, ip, k \div BSIZE) # 0 /\ k \div BSIZE \in 0 .. MAXFILE - 1
    BY <2>1, WrittenBytes, Zenon
  <2>3. Byte(addrs, blk, ip, k) = Wanted(ip, k) /\ ~ Pending(ip, k)
    BY <2>1, Zenon DEF DataInv, BytesOK, Pending
  <2> QED BY <1>1, <2>1, <2>2, <2>3, Zenon DEF Wanted
<1> QED BY <1>1, <1>2, Zenon

\* Through writes, seeks beyond the end that seekbuf can fill, and truncations,
\* the blocks of a file hold the bytes that the calls wrote to it.
THEOREM FilesHoldTheirData ==
  ASSUME ~ AnySeek
  PROVE  BmapSpec => []FileHoldsData
<1>1. BmapInv /\ DataInv => FileHoldsData
  <2> SUFFICES ASSUME BmapInv, DataInv, call = Idle, NEW ip \in Inode
               PROVE  /\ size[ip] = Len(data[ip])
                      /\ \A k \in 0 .. size[ip] - 1 :
                           /\ Addr(bmap(ip, k \div BSIZE)) # 0
                           /\ blk[Addr(bmap(ip, k \div BSIZE))][k % BSIZE] = data[ip][k + 1]
    BY Zenon DEF FileHoldsData
  <2>1. ~ Seeking /\ ~ InRound
    BY Zenon DEF Seeking, InRound, Idle
  <2>2. size[ip] = Len(data[ip])
    BY <2>1, DataAtRest
  <2>3. ASSUME NEW k \in 0 .. size[ip] - 1
        PROVE  /\ Addr(bmap(ip, k \div BSIZE)) # 0
               /\ blk[Addr(bmap(ip, k \div BSIZE))][k % BSIZE] = data[ip][k + 1]
    <3>1. /\ FileBlock(addrs, blk, ip, k \div BSIZE) # 0
          /\ k \div BSIZE \in 0 .. MAXFILE - 1
          /\ Byte(addrs, blk, ip, k) = data[ip][k + 1]
      BY <2>1, DataAtRest
    <3>2. Addr(bmap(ip, k \div BSIZE)) = FileBlock(addrs, blk, ip, k \div BSIZE)
      BY <3>1, BmapFinds
    <3> QED BY <3>1, <3>2, Zenon DEF Byte
  <2> QED BY <2>2, <2>3
<1> QED BY <1>1, BmapInductive, DataInductive, PTL

-----------------------------------------------------------------------------
\* What readi() has moved so far.
ReadInv == call.kind = "read" =>
  call.got = [i \in 1 .. call.tot |-> Byte(addrs, blk, Ip, off[call.f] + i - 1)]

\* w is the x elements of c followed by the y elements of e.
Joins(c, e, w, x, y) ==
  /\ c = [i \in 1 .. x |-> c[i]] /\ e = [i \in 1 .. y |-> e[i]]
  /\ w = [i \in 1 .. x + y |-> w[i]]
  /\ \A i \in 1 .. x : c[i] = w[i]
  /\ \A i \in 1 .. y : e[i] = w[x + i]

LEMMA JoinedSeq ==
  ASSUME NEW x \in Nat, NEW y \in Nat, NEW c, NEW e, NEW w, Joins(c, e, w, x, y)
  PROVE  c \o e = w
<1>1. ASSUME NEW z, NEW n \in Nat, z = [i \in 1 .. n |-> z[i]]
      PROVE  \A S : {z[i] : i \in 1 .. n} \subseteq S => z \in Seq(S) /\ Len(z) = n
  BY <1>1
<1>2. PICK S : {c[i] : i \in 1 .. x} \subseteq S /\ {e[i] : i \in 1 .. y} \subseteq S
  <2>1. /\ {c[i] : i \in 1 .. x} \subseteq {c[i] : i \in 1 .. x} \cup {e[i] : i \in 1 .. y}
        /\ {e[i] : i \in 1 .. y} \subseteq {c[i] : i \in 1 .. x} \cup {e[i] : i \in 1 .. y}
    BY Zenon
  <2> QED BY <2>1, Zenon
<1>a. c \in Seq(S) /\ Len(c) = x
  BY <1>1, <1>2, Zenon DEF Joins
<1>b. e \in Seq(S) /\ Len(e) = y
  BY <1>1, <1>2, Zenon DEF Joins
<1>3. c \o e = [i \in 1 .. x + y |-> IF i <= x THEN c[i] ELSE e[i - x]]
  <2>1. c \o e \in Seq(S) /\ Len(c \o e) = x + y
    BY <1>a, <1>b
  <2>2. \A i \in 1 .. x + y : (c \o e)[i] = IF i <= x THEN c[i] ELSE e[i - x]
    BY <1>a, <1>b
  <2>3. \A z \in Seq(S) : Len(z) = x + y => z = [i \in 1 .. x + y |-> z[i]]
    OBVIOUS
  <2> QED BY <2>1, <2>2, <2>3, Zenon
<1>4. ASSUME NEW i \in 1 .. x + y PROVE (IF i <= x THEN c[i] ELSE e[i - x]) = w[i]
  <2>1. CASE i <= x
    <3>1. i \in 1 .. x
      BY <2>1
    <3> QED BY <2>1, <3>1, Zenon DEF Joins
  <2>2. CASE ~(i <= x)
    <3>1. i - x \in 1 .. y /\ x + (i - x) = i
      BY <2>2
    <3> QED BY <2>2, <3>1, Zenon DEF Joins
  <2> QED BY <2>1, <2>2
<1>5. w = [i \in 1 .. x + y |-> w[i]]
  BY Zenon DEF Joins
<1> QED BY <1>3, <1>4, <1>5

LEMMA ReadBlockReads ==
  ASSUME BmapInv, ReadInv, ReadBlock
  PROVE  ReadInv'
<1>1. /\ Transferring /\ call.kind = "read"
      /\ blk' = blk /\ addrs' = addrs /\ fip' = fip /\ off' = off
      /\ call' = [call EXCEPT !.tot = @ + Part,
           !.got = @ \o [i \in 1 .. Part |-> blk[Addr(Here)][(Pos % BSIZE) + i - 1]]]
  BY Zenon DEF ReadBlock, vars, files
<1>2. /\ Ip \in Inode /\ Pos \in Nat /\ off[call.f] \in Nat /\ call.tot \in Nat
      /\ Part \in Nat \ {0} /\ (Pos % BSIZE) + Part <= BSIZE
  BY <1>1, PartBounds
<1>3. PICK g : g = [i \in 1 .. Part |-> blk[Addr(Here)][(Pos % BSIZE) + i - 1]]
  BY Zenon
<1>4. /\ call'.f = call.f /\ call'.tot = call.tot + Part /\ call'.got = call.got \o g
  <2>1. call \in ReadCall
    BY <1>1, Kinds, Zenon DEF BmapInv, BmapTypeOK
  <2> QED BY <1>1, <1>3, <2>1, Zenon DEF ReadCall
<1>5. call.got = [i \in 1 .. call.tot |-> Byte(addrs, blk, Ip, off[call.f] + i - 1)]
  BY <1>1, Zenon DEF ReadInv
<1>6. ASSUME NEW i \in 1 .. Part
      PROVE  g[i] = Byte(addrs, blk, Ip, Pos + i - 1)
  <2>1. PICK d \in Nat : d = i - 1 /\ d < Part /\ Pos + d = Pos + i - 1
    BY <1>2
  <2>2. Pos % BSIZE \in Nat
    BY <1>2, BmapConstants
  <2>3. (Pos % BSIZE) + d < BSIZE /\ (Pos % BSIZE) + i - 1 = (Pos % BSIZE) + d
    BY <1>2, <2>1, <2>2, BmapConstants
  <2>4. (Pos + d) \div BSIZE = Pos \div BSIZE /\ (Pos + d) % BSIZE = (Pos % BSIZE) + d
    BY <1>2, <2>3, SameBlock
  <2>5. Addr(Here) = FileBlock(addrs, blk, Ip, Pos \div BSIZE)
    BY <1>1, HereFinds
  <2>6. g[i] = blk[Addr(Here)][(Pos % BSIZE) + d]
    BY <1>3, <2>3
  <2> QED BY <2>1, <2>4, <2>5, <2>6, Zenon DEF Byte
<1>7. call.got \o g = [i \in 1 .. call.tot + Part |-> Byte(addrs, blk, Ip, off[call.f] + i - 1)]
  <2>1. PICK h : h = [i \in 1 .. call.tot + Part |-> Byte(addrs, blk, Ip, off[call.f] + i - 1)]
    BY Zenon
  <2>2. PICK x \in Nat, y \in Nat, o \in Nat :
           x = call.tot /\ y = Part /\ o = off[call.f] /\ Pos = o + x
    BY <1>2, Zenon DEF Pos
  <2>3. /\ DOMAIN call.got = 1 .. x /\ call.got = [i \in 1 .. x |-> call.got[i]]
        /\ g = [i \in 1 .. y |-> g[i]]
    BY <1>3, <1>5, <2>2, Zenon
  <2>4. \A i \in 1 .. x : call.got[i] = h[i]
    <3>1. \A i \in 1 .. x : i \in 1 .. call.tot + Part
      BY <2>2
    <3> QED BY <1>5, <2>1, <2>2, <3>1
  <2>5. ASSUME NEW i \in 1 .. y PROVE g[i] = h[x + i]
    <3>1. x + i \in 1 .. call.tot + Part /\ Pos + i - 1 = o + (x + i) - 1
      BY <2>2
    <3>2. h[x + i] = Byte(addrs, blk, Ip, o + (x + i) - 1)
      BY <2>1, <2>2, <3>1
    <3> QED BY <1>6, <2>2, <3>1, <3>2
  <2>6. h = [i \in 1 .. x + y |-> h[i]]
    BY <2>1, <2>2
  <2>7. Joins(call.got, g, h, x, y)
    BY <2>3, <2>4, <2>5, <2>6, Zenon DEF Joins
  <2>8. call.got \o g = h
    BY <2>2, <2>7, JoinedSeq, Zenon
  <2> QED BY <2>1, <2>8
<1> QED BY <1>1, <1>4, <1>7, Zenon DEF ReadInv, Ip

LEMMA WritesStayWrites ==
  ASSUME BmapInv, BeginWritei \/ WriteBlock \/ EndWritei
  PROVE  call.kind = "write" /\ call'.kind # "read"
<1>1. call.kind = "write"
  BY Zenon DEF BeginWritei, WriteBlock, EndWritei, InWrite
<1>2. call \in WriteCall
  BY <1>1, Kinds DEF BmapInv, BmapTypeOK
<1>3. \A o, d : FileWriteReturns(o, d) => call'.kind # "read"
  BY DEF FileWriteReturns, FileWrite, Idle
<1>4. CASE BeginWritei
  <2>1. CASE \E o, d : FileWriteReturns(o, d)
    BY <1>1, <1>3, <2>1, Zenon
  <2>2. CASE call' = [call EXCEPT !.n = Smaller(call.left, MaxWrite)]
    BY <1>2, <2>2, Zenon DEF WriteCall
  <2> QED BY <1>4, <2>1, <2>2, Zenon DEF BeginWritei
<1>5. CASE WriteBlock
  <2>1. call' = [call EXCEPT !.tot = @ + Part]
    BY <1>5, Zenon DEF WriteBlock
  <2> QED BY <1>2, <2>1 DEF WriteCall
<1>6. CASE EndWritei
  <2>1. CASE \E o, d : FileWriteReturns(o, d)
    BY <1>1, <1>3, <2>1, Zenon
  <2>2. CASE call' = [call EXCEPT !.left = @ - call.n, !.done = @ + call.n, !.n = 0, !.tot = 0]
    BY <1>2, <2>2 DEF WriteCall
  <2> QED BY <1>6, <2>1, <2>2, Zenon DEF EndWritei
<1> QED BY <1>1, <1>4, <1>5, <1>6

LEMMA ReadSteps == BmapInv /\ ReadInv /\ [BmapNext]_fvars => ReadInv'
<1> SUFFICES ASSUME BmapInv, ReadInv, [BmapNext]_fvars PROVE ReadInv'
  OBVIOUS
<1>1. ASSUME NEW f \in File, NEW n \in Counts, sys_write(f, n) PROVE ReadInv'
  <2>1. call'.kind = "write"
    BY <1>1, Zenon DEF sys_write, FileWrite
  <2> QED BY <2>1, Zenon DEF ReadInv
<1>2. ASSUME NEW f \in File, NEW n \in Counts, sys_read(f, n) PROVE ReadInv'
  <2>1. call'.tot = 0 /\ call'.got = <<>>
    BY <1>2, Zenon DEF sys_read
  <2> QED BY <2>1 DEF ReadInv
<1>3. ASSUME NEW f \in File, NEW o \in 0 .. MAXFILE * BSIZE, sys_lseek(f, o) PROVE ReadInv'
  <2>1. call'.kind # "read"
    BY <1>3 DEF sys_lseek, FileWrite, Idle
  <2> QED BY <2>1, Zenon DEF ReadInv
<1>4. ASSUME NEW ip \in Inode, itrunc(ip) PROVE ReadInv'
  <2>1. call'.kind # "read"
    BY <1>4, Zenon DEF itrunc, Idle
  <2> QED BY <2>1, Zenon DEF ReadInv
<1>5. CASE BeginWritei \/ WriteBlock \/ EndWritei
  BY <1>5, WritesStayWrites, Zenon DEF ReadInv
<1>6. CASE ReadBlock
  BY <1>6, ReadBlockReads, Zenon
<1>7. CASE ReadReturns
  BY <1>7 DEF ReadReturns, Idle, ReadInv
<1>8. CASE Allocated
  <2>1. call' = call /\ pc = "search"
    BY <1>8, Zenon DEF Allocated, Found
  <2>2. call.kind = "write"
    BY <2>1 DEF BmapInv, CallOK, InRound
  <2> QED BY <2>1, <2>2 DEF ReadInv
<1>9. CASE Allocate \/ Searching \/ UNCHANGED fvars
  <2>1. UNCHANGED <<call, addrs, blk, fip, off>>
    BY <1>9, Zenon DEF Allocate, Searching, fvars, files
  <2> QED BY <2>1, Zenon DEF ReadInv, Ip
<1> QED BY <1>1, <1>2, <1>3, <1>4, <1>5, <1>6, <1>7, <1>8, <1>9, Zenon DEF BmapNext

LEMMA ReadEnds ==
  ASSUME BmapInv, [BmapNext]_fvars, call.kind = "read", call' = Idle
  PROVE  ReadReturns
<1>1. call # Idle /\ call \in ReadCall
  BY Kinds DEF Idle, BmapInv, BmapTypeOK
<1>2. ~ ReadBlock
  <2> SUFFICES ASSUME ReadBlock PROVE FALSE
    OBVIOUS
  <2>1. call'.kind = call.kind
    BY <1>1 DEF ReadBlock, ReadCall
  <2> QED BY <2>1 DEF Idle
<1>3. ~ (BeginWritei \/ WriteBlock \/ EndWritei)
  BY WritesStayWrites
<1>4. ~ (Allocate \/ Allocated \/ Searching \/ UNCHANGED fvars)
  BY <1>1, Zenon DEF Allocate, Allocated, Searching, fvars
<1>5. /\ \A f, n : ~ sys_write(f, n) /\ ~ sys_read(f, n) /\ ~ sys_lseek(f, n)
      /\ \A ip : ~ itrunc(ip)
  BY <1>1, Zenon DEF sys_write, sys_read, sys_lseek, itrunc
<1> QED BY <1>2, <1>3, <1>4, <1>5, Zenon DEF BmapNext

\* readi(), block by block, returns the bytes of the file from the offset on.
THEOREM ReadsReturnTheData ==
  ASSUME ~ AnySeek
  PROVE  BmapSpec => ReadReturnsData
<1>1. ASSUME BmapInv, DataInv, ReadInv, ReadReturns
      PROVE  /\ off[call.f] + call.n <= Len(data[Ip])
             /\ call.got = SubSeq(data[Ip], off[call.f] + 1, off[call.f] + call.n)
             /\ off'[call.f] = off[call.f] + Len(call.got)
  <2>1. /\ call.kind = "read" /\ call.tot = call.n /\ off' = [off EXCEPT ![call.f] = Pos]
    BY <1>1, Zenon DEF ReadReturns
  <2>2. call \in ReadCall /\ off \in [File -> Nat] /\ fip \in [File -> Inode]
    BY <1>1, <2>1, Kinds DEF BmapInv, BmapTypeOK
  <2>3. call.f \in File /\ call.n \in Nat
    BY <2>2 DEF ReadCall
  <2>4. PICK o \in Nat, n \in Nat, ip \in Inode : o = off[call.f] /\ n = call.n /\ ip = Ip
    BY <2>2, <2>3 DEF Ip
  <2>5. ~ Seeking /\ ~ InRound
    BY <2>1 DEF Seeking, InRound
  <2>6. o + n <= size[ip] /\ size[ip] = Len(data[ip]) /\ data[ip] \in Seq(Int)
    <3>1. off[call.f] + call.n <= size[Ip]
      BY <1>1, <2>1, Zenon DEF BmapInv, CallOK
    <3>2. size[ip] = Len(data[ip])
      BY <1>1, <2>5, DataAtRest
    <3> QED BY <1>1, <2>4, <3>1, <3>2 DEF DataInv
  <2>7. call.got = [i \in 1 .. n |-> Byte(addrs, blk, ip, o + i - 1)]
    BY <1>1, <2>1, <2>4, Zenon DEF ReadInv
  <2>8. ASSUME NEW i \in 1 .. n PROVE Byte(addrs, blk, ip, o + i - 1) = data[ip][o + i]
    <3>0. PICK z \in Nat : z = size[ip] /\ o + n <= z
      BY <2>6
    <3>1. o + i - 1 \in 0 .. size[ip] - 1 /\ (o + i - 1) + 1 = o + i
      BY <3>0
    <3> QED BY <1>1, <2>5, <3>1, DataAtRest
  <2>9. call.got = [i \in 1 .. n |-> data[ip][o + i]]
    BY <2>7, <2>8, Zenon
  <2>10. SubSeq(data[ip], o + 1, o + n) = [i \in 1 .. n |-> data[ip][o + i]]
    <3>1. \A s \in Seq(Int) : o + n <= Len(s) =>
             SubSeq(s, o + 1, o + n) = [i \in 1 .. n |-> s[o + i]]
      <4> SUFFICES ASSUME NEW s \in Seq(Int), o + n <= Len(s)
                   PROVE  SubSeq(s, o + 1, o + n) = [i \in 1 .. n |-> s[o + i]]
        OBVIOUS
      <4>1. \A z \in Seq(Int) : Len(z) = n => z = [i \in 1 .. n |-> z[i]]
        OBVIOUS
      <4>2. SubSeq(s, o + 1, o + n) \in Seq(Int) /\ Len(SubSeq(s, o + 1, o + n)) = n
        OBVIOUS
      <4>3. ASSUME NEW i \in 1 .. n PROVE SubSeq(s, o + 1, o + n)[i] = s[o + i]
        <5>1. PICK p \in 1 .. Len(s), q \in 1 .. Len(s) :
                p = o + 1 /\ q = o + n /\ i \in 1 .. q - p + 1 /\ p + i - 1 = o + i
          OBVIOUS
        <5>2. SubSeq(s, p, q)[i] = s[p + i - 1]
          BY <5>1
        <5> QED BY <5>1, <5>2, Zenon
      <4> QED BY <4>1, <4>2, <4>3, Zenon
    <3> QED BY <2>6, <3>1
  <2>11. Len(call.got) = n
    BY <2>9
  <2>12. off'[call.f] = o + n
    BY <2>1, <2>2, <2>3, <2>4 DEF Pos
  <2> QED BY <2>4, <2>6, <2>9, <2>10, <2>11, <2>12
<1>2. BmapInv /\ DataInv /\ ReadInv /\ [BmapNext]_fvars =>
        [call.kind = "read" /\ call' = Idle =>
           /\ off[call.f] + call.n <= Len(data[Ip])
           /\ call.got = SubSeq(data[Ip], off[call.f] + 1, off[call.f] + call.n)
           /\ off'[call.f] = off[call.f] + Len(call.got)]_fvars
  BY <1>1, ReadEnds, Zenon
<1>3. BmapInit => ReadInv
  BY DEF BmapInit, Idle, ReadInv
<1>4. BmapInv /\ ReadInv /\ [BmapNext]_fvars => ReadInv'
  BY ReadSteps, Zenon
<1> QED BY <1>2, <1>3, <1>4, BmapInductive, DataInductive, PTL DEF BmapSpec,
           ReadReturnsData

-----------------------------------------------------------------------------
\* How many blocks a call logs.
LOCAL FS == INSTANCE FiniteSetTheorems

\* What can be listed in LogBound places has no more elements.
LEMMA ListBounds ==
  ASSUME NEW n \in Nat, NEW f, NEW X, \A x \in X : \E i \in 0 .. n - 1 : x = f[i]
  PROVE  Cardinality(X) <= n
<1>1. PICK g, T : g = [i \in 0 .. n - 1 |-> f[i]] /\ T = {f[i] : i \in 0 .. n - 1}
  BY Zenon
<1>2. g \in FS!Surjection(0 .. n - 1, T)
  BY <1>1 DEF FS!Surjection
<1>3. FS!IsFiniteSet(0 .. n - 1) /\ FS!Cardinality(0 .. n - 1) = n
  <2>1. n - 1 \in Int /\ 0 \in Int
    OBVIOUS
  <2>2. FS!IsFiniteSet(0 .. n - 1)
        /\ FS!Cardinality(0 .. n - 1) = IF 0 > n - 1 THEN 0 ELSE (n - 1) - 0 + 1
    BY <2>1, FS!FS_Interval
  <2> QED BY <2>2
<1>4. FS!IsFiniteSet(T) /\ FS!Cardinality(T) <= n
  BY <1>2, <1>3, FS!FS_Surjection
<1>5. X \subseteq T
  BY <1>1, Zenon
<1>6. FS!IsFiniteSet(X) /\ FS!Cardinality(X) <= FS!Cardinality(T) /\ FS!Cardinality(X) \in Nat
      /\ FS!Cardinality(T) \in Nat
  <2>1. FS!IsFiniteSet(X) /\ FS!Cardinality(X) <= FS!Cardinality(T)
    BY <1>4, <1>5, FS!FS_Subset, Zenon
  <2> QED BY <1>4, <2>1, FS!FS_CardinalityType, Zenon
<1>7. Cardinality(X) = FS!Cardinality(X)
  BY DEF Cardinality, FS!Cardinality
<1> QED BY <1>4, <1>6, <1>7

\* No write, read, seek or truncation logs more blocks than the inode, the parts
\* of the write, the indirect blocks on the way to them and the bitmap, however
\* many writes a call of filewrite() is cut into.
THEOREM TransactionsAreBounded == BmapSpec => []TransactionBounded
<1>1. Listed(logged) => TransactionBounded
  <2> SUFFICES ASSUME Listed(logged) PROVE TransactionBounded
    OBVIOUS
  <2>1. PICK f : \A x \in logged : \E i \in 0 .. LogBound - 1 : x = f[i]
    BY Zenon DEF Listed
  <2>2. Cardinality(logged) <= LogBound
    BY <2>1, LoggedInductive, ListBounds
  <2> QED BY <2>2, Zenon DEF TransactionBounded, LogBound, MaxParts, Bitmaps
<1>2. BmapSpec => []Listed(logged)
  BY LoggedInductive, Zenon
<1> QED BY <1>1, <1>2, PTL
=============================================================================
