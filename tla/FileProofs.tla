----------------------------- MODULE FileProofs -----------------------------
(***************************************************************************)
(* Files, for any calls and sizes: the steps that change them, what the    *)
(* invariant of the calls says of their blocks and inodes, and what one    *)
(* call may log.                                                           *)
(***************************************************************************)
EXTENDS BmapProofs

-----------------------------------------------------------------------------
\* Files that had their blocks keep them.
BlocksKept(A, B, A2, B2) ==
  \A ip \in Inode, bn \in 0 .. MAXFILE - 1 :
    FileBlock(A, B, ip, bn) # 0 => FileBlock(A2, B2, ip, bn) = FileBlock(A, B, ip, bn)

LEMMA CoveredKept ==
  ASSUME NEW A, NEW B, NEW A2, NEW B2, BlocksKept(A, B, A2, B2),
         NEW ip \in Inode, NEW n \in 0 .. MAXFILE * BSIZE, Covered(A, B, ip, n)
  PROVE  Covered(A2, B2, ip, n)
<1> SUFFICES ASSUME NEW k \in 0 .. n - 1 PROVE FileBlock(A2, B2, ip, k \div BSIZE) # 0
  BY Zenon DEF Covered
<1>1. k \in Nat /\ k < MAXFILE * BSIZE
  BY BmapConstants
<1>2. k \div BSIZE \in 0 .. MAXFILE - 1
  BY <1>1, InFile
<1>3. FileBlock(A, B, ip, k \div BSIZE) # 0
  BY Zenon DEF Covered
<1> QED BY <1>2, <1>3, Zenon DEF BlocksKept

\* What one round of writei() does to the block it writes.
LEMMA WriteBlockStep ==
  ASSUME BmapInv, WriteBlock
  PROVE  /\ Addr(Here) \in used \ Meta /\ Addr(Here) \in Bit
         /\ Addr(Here) = FileBlock(addrs, blk, Ip, Pos \div BSIZE)
         /\ blk' \in [Bit -> [0 .. BSIZE - 1 -> Int]]
         /\ Overwritten(blk, blk', Addr(Here))
         /\ \A i \in 0 .. BSIZE - 1 :
              blk'[Addr(Here)][i] = IF i \in Pos % BSIZE .. (Pos % BSIZE) + Part - 1
                                      THEN Source(call.done + call.tot + i - (Pos % BSIZE))
                                      ELSE blk[Addr(Here)][i]
<1>1. /\ Transferring /\ call.kind = "write" /\ Addr(Here) # 0
      /\ blk' = [blk EXCEPT ![Addr(Here)] = [i \in DOMAIN @ |->
              IF i \in Pos % BSIZE .. (Pos % BSIZE) + Part - 1
                THEN Source(call.done + call.tot + i - (Pos % BSIZE)) ELSE @[i]]]
  BY Zenon DEF WriteBlock
<1>2. /\ Addr(Here) = FileBlock(addrs, blk, Ip, Pos \div BSIZE)
      /\ Ip \in Inode /\ Pos \div BSIZE \in 0 .. MAXFILE - 1
  BY <1>1, HereFinds
<1>3. Addr(Here) \in used \ Meta /\ Addr(Here) \in Bit
  <2>1. Addr(Here) \in used \ Meta
    BY <1>1, <1>2, DataInUse DEF BmapInv
  <2> QED BY <2>1, Zenon DEF BmapInv, BmapTypeOK
<1>4. blk \in [Bit -> [0 .. BSIZE - 1 -> Int]]
  BY Zenon DEF BmapInv, BmapTypeOK, Typed
<1>5. \A k : Source(k) \in Int
  <2>1. call.f \in Int
    BY <1>1, PartBounds, BmapAssumption
  <2> QED BY <2>1 DEF Source, JUNK
<1>6. PICK g : g = [i \in 0 .. BSIZE - 1 |->
              IF i \in Pos % BSIZE .. (Pos % BSIZE) + Part - 1
                THEN Source(call.done + call.tot + i - (Pos % BSIZE))
                ELSE blk[Addr(Here)][i]]
  BY Zenon
<1>7. g \in [0 .. BSIZE - 1 -> Int]
  <2>1. \A i \in 0 .. BSIZE - 1 : blk[Addr(Here)][i] \in Int
    BY <1>3, <1>4, Zenon
  <2> QED BY <1>5, <1>6, <2>1, Zenon
<1>8. blk' = [blk EXCEPT ![Addr(Here)] = g]
  <2>1. DOMAIN blk[Addr(Here)] = 0 .. BSIZE - 1
    BY <1>3, <1>4
  <2> QED BY <1>1, <1>6, <2>1
<1>9. blk' \in [Bit -> [0 .. BSIZE - 1 -> Int]]
  BY <1>4, <1>7, <1>8, Zenon
<1>10. Overwritten(blk, blk', Addr(Here)) /\ blk'[Addr(Here)] = g
  BY <1>3, <1>4, <1>8 DEF Overwritten
<1>11. \A i \in 0 .. BSIZE - 1 : blk'[Addr(Here)][i] = g[i]
  BY <1>10, Zenon
<1> QED BY <1>2, <1>3, <1>6, <1>9, <1>10, <1>11, Zenon

LEMMA WriteBlockKeeps ==
  ASSUME BmapInv, WriteBlock
  PROVE  BmapInv'
\* One more part of a file has its blocks.
<1>CoveredFurther.
      ASSUME NEW A, NEW B, NEW ip, NEW p \in Nat, NEW d \in Nat \ {0},
             (p % BSIZE) + d <= BSIZE, Covered(A, B, ip, p),
             FileBlock(A, B, ip, p \div BSIZE) # 0
      PROVE  Covered(A, B, ip, p + d)
  <2> USE <1>CoveredFurther
  <2> SUFFICES ASSUME NEW k \in 0 .. p + d - 1 PROVE FileBlock(A, B, ip, k \div BSIZE) # 0
    BY DEF Covered
  <2>1. CASE k \in 0 .. p - 1
    BY <2>1, Zenon DEF Covered
  <2>2. CASE k >= p
    <3>1. PICK e \in Nat : k = p + e /\ e < d
      <4>1. k - p \in Nat /\ k = p + (k - p) /\ k - p < d
        BY <2>2
      <4> QED BY <4>1, Zenon
    <3>2. p % BSIZE \in Nat
      BY BmapConstants
    <3>3. (p % BSIZE) + e < BSIZE
      BY <3>1, <3>2, BmapConstants
    <3>4. k \div BSIZE = p \div BSIZE
      BY <3>1, <3>3, SameBlock
    <3> QED BY <3>4, Zenon
  <2> QED BY <2>1, <2>2
<1>1. /\ Transferring /\ call.kind = "write" /\ Addr(Here) # 0
      /\ call' = [call EXCEPT !.tot = @ + Part]
      /\ used' = used /\ pc' = pc /\ addrs' = addrs /\ size' = size /\ dinode' = dinode
      /\ fip' = fip /\ writable' = writable /\ off' = off
  BY Zenon DEF WriteBlock, vars, files
<1>2. /\ Addr(Here) = FileBlock(addrs, blk, Ip, Pos \div BSIZE)
      /\ blk' \in [Bit -> [0 .. BSIZE - 1 -> Int]]
      /\ Overwritten(blk, blk', Addr(Here))
  BY WriteBlockStep, Zenon
<1>3. /\ call.f \in File /\ Ip \in Inode /\ Pos \in Nat /\ off[call.f] \in Nat
      /\ call.tot \in Nat /\ call.n \in Nat /\ call.tot < call.n
      /\ Part \in Nat \ {0} /\ call.tot + Part <= call.n /\ (Pos % BSIZE) + Part <= BSIZE
  BY <1>1, PartBounds, Zenon
<1>4. call \in WriteCall
  BY <1>1, Kinds, Zenon DEF BmapInv, BmapTypeOK
<1>5. /\ call' \in WriteCall /\ call'.kind = "write" /\ call'.f = call.f
      /\ call'.left = call.left /\ call'.n = call.n /\ call'.tot = call.tot + Part
  <2>1. /\ call' = AWrite(call.f, call.left, call.done, call.n, call.tot + Part, call.seek,
                          call.zero)
        /\ call.left \in Nat \ {0} /\ call.done \in Nat /\ call.seek \in Nat \cup {-1}
        /\ call.zero \in Nat
    BY <1>1, <1>4, Zenon DEF AWrite, WriteCall
  <2> QED BY <1>3, <2>1 DEF AWrite, WriteCall
<1>6. Owned(addrs, blk, used)' /\ BlocksKept(addrs, blk, addrs', blk')
  <2>1. Pos \div BSIZE \in 0 .. MAXFILE - 1 /\ used \in SUBSET Bit
    BY <1>1, HereFinds, Zenon DEF BmapInv, BmapTypeOK
  <2>2. Owned(addrs, blk, used)
    BY Zenon DEF BmapInv
  <2>3. PICK n : n = Addr(Here)
    OBVIOUS
  <2>4. n = FileBlock(addrs, blk, Ip, Pos \div BSIZE) /\ n # 0 /\ Overwritten(blk, blk', n)
    BY <1>1, <1>2, <2>3, Zenon
  <2>5. 0 \in Meta /\ Ip \in Inode
    BY <1>3, BmapConstants, Zenon
  <2>6. Owned(addrs, blk', used)
    BY <2>1, <2>2, <2>4, <2>5, WrittenOwned
  <2>7. \A ip \in Inode, bn \in 0 .. MAXFILE - 1 :
          FileBlock(addrs, blk', ip, bn) = FileBlock(addrs, blk, ip, bn)
    BY <2>1, <2>2, <2>4, <2>5, WrittenOwned
  <2> QED BY <1>1, <2>6, <2>7, Zenon DEF BlocksKept
<1>7. BmapTypeOK'
  <2>1. Typed(addrs, blk)'
    BY <1>1, <1>2, Zenon DEF BmapInv, BmapTypeOK, Typed
  <2> QED BY <1>1, <1>5, <2>1, Zenon DEF BmapInv, BmapTypeOK
<1>8. Filled'
  <2>1. \A ip \in Inode : size[ip] \in 0 .. MAXFILE * BSIZE /\ Covered(addrs, blk, ip, size[ip])
    BY Zenon DEF BmapInv, BmapTypeOK, Filled
  <2> QED BY <1>1, <1>6, <2>1, CoveredKept, Zenon DEF Filled
<1>9. Ip' = Ip /\ Pos' = Pos + Part /\ InRound /\ InRound'
  BY <1>1, <1>3, <1>5 DEF Ip, Pos, InRound
<1>10. CallOK'
  <2>1. /\ off[call.f] <= size[Ip] /\ off[call.f] + call.n <= MAXFILE * BSIZE
        /\ Covered(addrs, blk, Ip, Pos)
        /\ call.n <= call.left /\ call.n <= MaxWrite
    BY <1>1, <1>9, Zenon DEF BmapInv, CallOK
  <2>2. Covered(addrs, blk, Ip, Pos + Part)
    BY <1>1, <1>2, <1>3, <2>1, <1>CoveredFurther, Zenon
  <2>3. Pos + Part \in 0 .. MAXFILE * BSIZE
    BY <1>3, <2>1, BmapConstants DEF Pos
  <2>4. Covered(addrs, blk, Ip, Pos)'
    <3>1. Covered(addrs', blk', Ip, Pos + Part)
      BY <1>3, <1>6, <2>2, <2>3, CoveredKept, Zenon
    <3> QED BY <1>9, <3>1, Zenon
  <2>5. call'.n <= call'.left /\ call'.n <= MaxWrite /\ call'.tot <= call'.n
    BY <1>3, <1>5, <2>1
  <2>6. off'[call'.f] <= size'[Ip'] /\ off'[call'.f] + call'.n <= MAXFILE * BSIZE
    BY <1>1, <1>5, <1>9, <2>1
  <2>7. pc' = "idle" /\ call'.kind # "read"
    BY <1>1, <1>5 DEF Transferring
  <2> QED BY <2>4, <2>5, <2>6, <2>7, Zenon DEF CallOK
<1>11. Saved'
  BY <1>1, <1>5, <1>9 DEF BmapInv, Saved
<1> QED BY <1>6, <1>7, <1>8, <1>10, <1>11, Zenon DEF BmapInv

LEMMA EndWriteiKeeps ==
  ASSUME BmapInv, EndWritei
  PROVE  BmapInv'
<1>1. /\ call.kind = "write" /\ pc = "idle" /\ call.n > 0 /\ call.tot = call.n
      /\ used' = used /\ pc' = pc /\ blk' = blk /\ addrs' = addrs /\ fip' = fip
      /\ writable' = writable
      /\ IF Grows THEN /\ size' = [size EXCEPT ![Ip] = Pos]
                       /\ dinode' = [dinode EXCEPT ![Ip] = Dinode(addrs[Ip], Pos)]
                  ELSE size' = size /\ dinode' = dinode
  BY Zenon DEF EndWritei, InWrite, vars, files
<1>2. call \in WriteCall /\ InRound /\ off \in [File -> Nat]
  BY <1>1, Kinds, Zenon DEF BmapInv, BmapTypeOK, InRound
<1>3. /\ call.f \in File /\ call.left \in Nat \ {0} /\ call.done \in Nat /\ call.n \in Nat
      /\ call.seek \in Nat \cup {-1} /\ call.zero \in Nat
  BY <1>2, Zenon DEF WriteCall
<1>4. /\ off[call.f] \in Nat /\ Ip \in Inode /\ size[Ip] \in 0 .. MAXFILE * BSIZE
  BY <1>2, <1>3 DEF Ip, BmapInv, BmapTypeOK
<1>5. /\ off[call.f] + call.n <= MAXFILE * BSIZE /\ Covered(addrs, blk, Ip, Pos)
      /\ call.n <= call.left
  BY <1>1, <1>2, Zenon DEF BmapInv, CallOK
<1>6. Pos = off[call.f] + call.n /\ Pos \in 0 .. MAXFILE * BSIZE
  BY <1>1, <1>3, <1>4, <1>5, BmapConstants DEF Pos
<1>7. Resting' /\ off' \in [File -> Nat]
  <2>1. CASE call.left > call.n
    <3>1. /\ call' = [call EXCEPT !.left = @ - call.n, !.done = @ + call.n, !.n = 0, !.tot = 0]
          /\ off' = [off EXCEPT ![call.f] = Pos]
      BY <2>1, Zenon DEF EndWritei
    <3>2. call.left - call.n \in Nat \ {0} /\ call.done + call.n \in Nat
      BY <1>3, <2>1
    <3>3. call' = AWrite(call.f, call.left - call.n, call.done + call.n, 0, 0, call.seek,
                         call.zero)
      BY <1>2, <3>1, Zenon DEF AWrite, WriteCall
    <3>4. Resting'
      BY <1>3, <3>2, <3>3, Zenon DEF AWrite, WriteCall, Resting
    <3>5. off' \in [File -> Nat]
      <4>1. Pos \in Nat
        BY <1>6, BmapConstants
      <4> QED BY <1>2, <3>1, <4>1, Zenon
    <3> QED BY <3>4, <3>5
  <2>2. CASE ~(call.left > call.n)
    <3>1. FileWriteReturns(Pos, Written)
      BY <2>2, Zenon DEF EndWritei
    <3>2. Pos \in Nat /\ BmapTypeOK
      BY <1>6, BmapConstants DEF BmapInv
    <3> QED BY <1>1, <3>1, <3>2, WriteReturns
  <2> QED BY <2>1, <2>2
<1>8. CallOK' /\ ~ InRound'
  BY <1>1, <1>7, RestingCall
<1>9. /\ \A ip \in Inode : ip # Ip => size'[ip] = size[ip] /\ dinode'[ip] = dinode[ip]
      /\ Grows => size'[Ip] = Pos /\ dinode'[Ip] = Dinode(addrs[Ip], Pos)
      /\ ~ Grows => size' = size /\ dinode' = dinode
      /\ size' \in [Inode -> 0 .. MAXFILE * BSIZE]
      /\ dinode' \in [Inode -> [addrs : [0 .. NDIRECT -> Int], size : 0 .. MAXFILE * BSIZE]]
  <2>1. size \in [Inode -> 0 .. MAXFILE * BSIZE]
    BY Zenon DEF BmapInv, BmapTypeOK
  <2>2. dinode \in [Inode -> [addrs : [0 .. NDIRECT -> Int], size : 0 .. MAXFILE * BSIZE]]
    BY Zenon DEF BmapInv, BmapTypeOK
  <2>3. Dinode(addrs[Ip], Pos) \in [addrs : [0 .. NDIRECT -> Int], size : 0 .. MAXFILE * BSIZE]
    <3>1. addrs[Ip] \in [0 .. NDIRECT -> Int]
      BY <1>4, Zenon DEF BmapInv, BmapTypeOK, Typed
    <3> QED BY <1>6, <3>1, Zenon DEF Dinode
  <2>4. CASE Grows
    BY <1>1, <1>4, <1>6, <2>1, <2>2, <2>3, <2>4, Zenon
  <2>5. CASE ~ Grows
    BY <1>1, <2>1, <2>2, <2>5, Zenon
  <2> QED BY <2>4, <2>5
<1>10. BmapTypeOK'
  <2>1. Typed(addrs, blk)' /\ used' \subseteq Bit /\ Meta \subseteq used'
    BY <1>1, Zenon DEF BmapInv, BmapTypeOK
  <2>2. call' \in {Idle} \cup WriteCall \cup ReadCall
    BY <1>7, Zenon DEF Resting
  <2> QED BY <1>1, <1>7, <1>9, <2>1, <2>2, Zenon DEF BmapInv, BmapTypeOK
<1>11. Owned(addrs, blk, used)'
  BY <1>1, Zenon DEF BmapInv
<1>12. Filled'
  <2>1. ASSUME NEW ip \in Inode PROVE Covered(addrs, blk, ip, size'[ip])
    <3>1. Covered(addrs, blk, ip, size[ip])
      BY Zenon DEF BmapInv, Filled
    <3>2. size'[ip] = size[ip] \/ (ip = Ip /\ size'[ip] = Pos)
      BY <1>9, Zenon
    <3> QED BY <1>5, <3>1, <3>2
  <2> QED BY <1>1, <2>1, Zenon DEF Filled
<1>13. Saved'
  <2>1. ASSUME NEW ip \in Inode PROVE dinode'[ip] = Dinode(addrs[ip], size'[ip])
    <3>1. \/ dinode[ip] = Dinode(addrs[ip], size[ip])
          \/ ip = Ip /\ off[call.f] + call.n > size[ip]
      BY Zenon DEF BmapInv, Saved
    <3>2. CASE ip # Ip
      BY <1>9, <3>1, <3>2, Zenon
    <3>3. CASE ip = Ip /\ Grows
      BY <1>9, <3>3, Zenon
    <3>4. CASE ip = Ip /\ ~ Grows
      <4>1. ~(off[call.f] + call.n > size[Ip])
        BY <1>6, <3>4, Zenon DEF Grows
      <4> QED BY <1>9, <3>1, <3>4, <4>1, Zenon
    <3> QED BY <3>2, <3>3, <3>4
  <2> QED BY <1>1, <2>1, Zenon DEF Saved
<1> QED BY <1>8, <1>10, <1>11, <1>12, <1>13, Zenon DEF BmapInv

\* bmap() stores the address of the block that balloc() found and cleared.
LEMMA AllocatedStep ==
  ASSUME BmapInv, SearchInv, Allocated
  PROVE  /\ ret' \in Bit \ Meta /\ ret' \notin used /\ ret' # 0 /\ used' = used \cup {ret'}
         /\ Typed(addrs, blk)' /\ Stored(addrs, blk, addrs', blk', Here, ret')
         /\ \A ip \in Inode : ip # Ip => addrs'[ip] = addrs[ip]
         /\ Place(addrs, blk, Ip, Here) /\ At(addrs, blk, Here) = 0 /\ Ip \in Inode
<1>1. /\ pc = "search" /\ b + bi \notin used /\ used' = used \cup {b + bi} /\ ret' = b + bi
      /\ addrs' = IF Here.blk = 0 THEN [addrs EXCEPT ![Ip][Here.i] = ret'] ELSE addrs
      /\ blk' = IF Here.blk = 0 THEN [blk EXCEPT ![ret'] = Zeros]
                ELSE [[blk EXCEPT ![ret'] = Zeros] EXCEPT ![Here.blk][Here.i] = ret']
  BY Zenon DEF Allocated, Found
<1>2. b + bi \in Bit
  BY OnBitmap, Zenon DEF SearchInv, BallocTypeOK
<1>3. PICK r \in Bit : r = ret'
  BY <1>1, <1>2, Zenon
<1>4. r \notin used /\ r \notin Meta /\ r # 0 /\ used' = used \cup {r} /\ r \in Int
  <2>1. r \notin used /\ used' = used \cup {r}
    BY <1>1, <1>3, Zenon
  <2>2. Meta \subseteq used /\ 0 \in Meta
    BY BmapConstants, Zenon DEF BmapInv, BmapTypeOK
  <2>3. r \in Int
    BY <1>3 DEF Bit
  <2> QED BY <2>1, <2>2, <2>3, Zenon
<1>5. PICK p : p = Here
  OBVIOUS
<1>6. /\ Place(addrs, blk, Ip, p) /\ At(addrs, blk, p) = 0 /\ Ip \in Inode
  <2>1. FileBlock(addrs, blk, Ip, Pos \div BSIZE) = 0
    BY <1>1, Zenon DEF BmapInv, CallOK
  <2> QED BY <1>1, <1>5, <2>1, HereFinds, AddrIsAt
<1>7. Owned(addrs, blk, used) /\ used \subseteq Bit
  BY Zenon DEF BmapInv, BmapTypeOK
<1>8. /\ addrs \in [Inode -> [0 .. NDIRECT -> Int]]
      /\ blk \in [Bit -> [0 .. BSIZE - 1 -> Int]]
      /\ Zeros \in [0 .. BSIZE - 1 -> Int] /\ Entry \subseteq 0 .. BSIZE - 1
      /\ \A i \in Entry : Zeros[i] = 0
  <2>1. Typed(addrs, blk)
    BY Zenon DEF BmapInv, BmapTypeOK
  <2>2. Entry \subseteq 0 .. BSIZE - 1
    BY BmapAssumption DEF Entry
  <2> QED BY <2>1, <2>2 DEF Typed, Zeros
<1>9. ASSUME NEW i \in 0 .. NDIRECT, p = InInode(Ip, i)
      PROVE  /\ Typed(addrs, blk)' /\ Stored(addrs, blk, addrs', blk', p, r)
             /\ \A ip \in Inode : ip # Ip => addrs'[ip] = addrs[ip]
  <2>1. p.blk = 0 /\ p.i = i
    BY <1>9, Zenon DEF InInode
  <2>2. addrs' = [addrs EXCEPT ![Ip][i] = r] /\ blk' = [blk EXCEPT ![r] = Zeros]
    BY <1>1, <1>3, <1>5, <2>1, Zenon
  <2>3. Typed(addrs, blk)'
    BY <1>3, <1>4, <1>6, <1>8, <2>2 DEF Typed
  <2>4. /\ \A ip \in Inode : ip # Ip => addrs'[ip] = addrs[ip]
        /\ \A j \in 0 .. NDIRECT : Word(addrs', Ip, j) = IF j = i THEN r ELSE Word(addrs, Ip, j)
    BY <1>6, <1>8, <2>2, Zenon DEF Word
  <2>5. \A ip \in Inode, j \in 0 .. NDIRECT :
          Word(addrs', ip, j) = IF InInode(ip, j) = p THEN r ELSE Word(addrs, ip, j)
    BY <1>9, <2>4, PlacesDiffer DEF Word
  <2>6. \A n \in Bit : blk'[n] = IF n = r THEN Zeros ELSE blk[n]
    BY <1>3, <1>8, <2>2, Zenon
  <2>7. \A n \in Bit \ Meta, j \in Entry :
          Word(blk', n, j) = IF InBlock(n, j) = p THEN r ELSE IF n = r THEN 0 ELSE Word(blk, n, j)
    <3>1. ASSUME NEW n \in Bit \ Meta, NEW j PROVE InBlock(n, j) # p
      BY <1>9, PlacesDiffer, BmapConstants
    <3> QED BY <1>8, <2>6, <3>1, Zenon DEF Word
  <2>8. \A n \in Bit : n # p.blk /\ n # r => blk'[n] = blk[n]
    BY <2>6, Zenon
  <2> QED BY <2>3, <2>4, <2>5, <2>7, <2>8, Zenon DEF Stored
<1>10. ASSUME NEW m \in used \ Meta, NEW i \in Entry, p = InBlock(m, i)
       PROVE  /\ Typed(addrs, blk)' /\ Stored(addrs, blk, addrs', blk', p, r)
              /\ \A ip \in Inode : ip # Ip => addrs'[ip] = addrs[ip]
  <2>1. p.blk = m /\ p.i = i /\ m # 0 /\ m # r /\ m \in Bit
    BY <1>4, <1>7, <1>10, BmapConstants, Zenon DEF InBlock
  <2>2. addrs' = addrs /\ blk' = [[blk EXCEPT ![r] = Zeros] EXCEPT ![m][i] = r]
    BY <1>1, <1>3, <1>5, <2>1
  <2>3. PICK z : z = [blk EXCEPT ![r] = Zeros]
    BY Zenon
  <2>4. z \in [Bit -> [0 .. BSIZE - 1 -> Int]] /\ z[r] = Zeros /\ z[m] = blk[m]
        /\ \A n \in Bit : n # r => z[n] = blk[n]
    BY <1>3, <1>8, <2>1, <2>3, Zenon
  <2>5. blk' = [z EXCEPT ![m][i] = r] /\ i \in 0 .. BSIZE - 1
    BY <1>8, <2>2, <2>3, Zenon
  <2>6. blk' \in [Bit -> [0 .. BSIZE - 1 -> Int]]
    BY <1>4, <2>1, <2>4, <2>5, Zenon
  <2>7. /\ \A n \in Bit : n # m => blk'[n] = z[n]
        /\ \A j \in 0 .. BSIZE - 1 : Word(blk', m, j) = IF j = i THEN r ELSE Word(blk, m, j)
    BY <2>1, <2>4, <2>5, Zenon DEF Word
  <2>8. \A ip \in Inode, j \in 0 .. NDIRECT :
          Word(addrs', ip, j) = IF InInode(ip, j) = p THEN r ELSE Word(addrs, ip, j)
    BY <1>10, <2>1, <2>2, PlacesDiffer
  <2>9. \A n \in Bit \ Meta, j \in Entry :
          Word(blk', n, j) = IF InBlock(n, j) = p THEN r ELSE IF n = r THEN 0 ELSE Word(blk, n, j)
    <3> SUFFICES ASSUME NEW n \in Bit \ Meta, NEW j \in Entry
                 PROVE  Word(blk', n, j) =
                          IF InBlock(n, j) = p THEN r ELSE IF n = r THEN 0 ELSE Word(blk, n, j)
      OBVIOUS
    <3>1. InBlock(n, j) = p <=> n = m /\ j = i
      BY <1>10, PlacesDiffer
    <3>2. CASE n = m
      BY <1>8, <2>1, <2>7, <3>1, <3>2, Zenon
    <3>3. CASE n = r
      BY <1>8, <2>1, <2>4, <2>7, <3>1, <3>3, Zenon DEF Word
    <3>4. CASE n # m /\ n # r
      BY <2>4, <2>7, <3>1, <3>4 DEF Word
    <3> QED BY <3>2, <3>3, <3>4, Zenon
  <2>10. \A n \in Bit : n # p.blk /\ n # r => blk'[n] = blk[n]
    BY <2>1, <2>4, <2>7
  <2>11. Typed(addrs, blk)'
    BY <1>8, <2>2, <2>6, Zenon DEF Typed
  <2> QED BY <2>2, <2>8, <2>9, <2>10, <2>11, Zenon DEF Stored
<1>11. /\ Typed(addrs, blk)' /\ Stored(addrs, blk, addrs', blk', p, r)
       /\ \A ip \in Inode : ip # Ip => addrs'[ip] = addrs[ip]
  <2>1. \/ \E i \in 0 .. NDIRECT : p = InInode(Ip, i)
        \/ \E n \in used \ Meta, i \in Entry : p = InBlock(n, i)
    BY <1>6, <1>7, PlaceKinds
  <2> QED BY <1>9, <1>10, <2>1, Zenon
<1> QED BY <1>3, <1>4, <1>5, <1>6, <1>11, Zenon

LEMMA AllocatedKeeps ==
  ASSUME BmapInv, SearchInv, Allocated
  PROVE  BmapInv'
<1>1. /\ pc = "search" /\ pc' = "idle" /\ size' = size /\ dinode' = dinode /\ fip' = fip
      /\ writable' = writable /\ off' = off /\ call' = call
  BY Zenon DEF Allocated, Found, files
<1>2. PICK r \in Bit \ Meta : r = ret' /\ r \notin used /\ r # 0 /\ used' = used \cup {r}
  BY AllocatedStep, Zenon
<1>3. PICK p : p = Here
  OBVIOUS
<1>4. /\ Typed(addrs, blk)' /\ Stored(addrs, blk, addrs', blk', p, r)
      /\ \A ip \in Inode : ip # Ip => addrs'[ip] = addrs[ip]
      /\ Place(addrs, blk, Ip, p) /\ At(addrs, blk, p) = 0 /\ Ip \in Inode
  BY <1>2, <1>3, AllocatedStep, Zenon
<1>5. /\ Owned(addrs, blk, used) /\ used \in SUBSET Bit /\ 0 \in Meta
      /\ \A ip \in Inode : size[ip] \in 0 .. MAXFILE * BSIZE
  BY BmapConstants, Zenon DEF BmapInv, BmapTypeOK
<1>6. Owned(addrs, blk, used)'
  <2>1. Owned(addrs', blk', used \cup {r})
    BY <1>2, <1>4, <1>5, StoredOwned, Zenon
  <2> QED BY <1>2, <2>1, Zenon
<1>7. BlocksKept(addrs, blk, addrs', blk')
  <2> SUFFICES ASSUME NEW ip \in Inode, NEW bn \in 0 .. MAXFILE - 1,
                      FileBlock(addrs, blk, ip, bn) # 0
               PROVE  FileBlock(addrs', blk', ip, bn) = FileBlock(addrs, blk, ip, bn)
    BY Zenon DEF BlocksKept
  <2> QED BY <1>2, <1>4, <1>5, StoredBlocks
<1>8. BmapTypeOK'
  <2>1. used' \subseteq Bit /\ Meta \subseteq used'
    BY <1>2, Zenon DEF BmapInv, BmapTypeOK
  <2> QED BY <1>1, <1>4, <2>1, Zenon DEF BmapInv, BmapTypeOK
<1>9. Filled'
  <2>1. \A ip \in Inode : Covered(addrs, blk, ip, size[ip])
    BY Zenon DEF BmapInv, Filled
  <2> QED BY <1>1, <1>5, <1>7, <2>1, CoveredKept, Zenon DEF Filled
<1>10. /\ InRound /\ call.tot < call.n /\ off[call.f] + call.n <= MAXFILE * BSIZE
       /\ FileBlock(addrs, blk, Ip, Pos \div BSIZE) = 0
       /\ Covered(addrs, blk, Ip, Pos)
  BY <1>1, Zenon DEF BmapInv, CallOK
<1>11. /\ call.f \in File /\ call.tot \in Nat /\ call.n \in Nat /\ off[call.f] \in Nat
       /\ Pos \in Nat /\ Pos < off[call.f] + call.n
  <2>1. call \in WriteCall
    BY <1>10, Kinds DEF InRound, BmapInv, BmapTypeOK
  <2>2. call.f \in File /\ call.tot \in Nat /\ call.n \in Nat
    BY <2>1 DEF WriteCall
  <2>3. off[call.f] \in Nat
    BY <2>2, Zenon DEF BmapInv, BmapTypeOK
  <2> QED BY <1>10, <2>2, <2>3 DEF Pos
<1>12. Ip' = Ip /\ Pos' = Pos /\ (InRound' <=> InRound)
  BY <1>1, Zenon DEF Ip, Pos, InRound
<1>13. CallOK'
  <2>1. Pos \in 0 .. MAXFILE * BSIZE
    BY <1>10, <1>11, BmapConstants
  <2>2. Covered(addrs', blk', Ip, Pos)
    BY <1>4, <1>7, <1>10, <2>1, CoveredKept, Zenon
  <2>3. Covered(addrs, blk, Ip, Pos)'
    BY <1>12, <2>2
  <2>4. CallOK
    BY Zenon DEF BmapInv
  <2> QED BY <1>1, <1>12, <2>3, <2>4, Zenon DEF CallOK
<1>14. Saved'
  <2>1. off[call.f] + call.n > size[Ip]
    <3>1. size[Ip] <= Pos
      <4> SUFFICES ASSUME ~(size[Ip] <= Pos) PROVE FALSE
        BY Zenon
      <4>1. Pos \in 0 .. size[Ip] - 1
        BY <1>4, <1>5, <1>11, BmapConstants
      <4> QED BY <1>4, <1>10, <4>1, Zenon DEF BmapInv, Filled, Covered
    <3> QED BY <1>4, <1>5, <1>11, <3>1, BmapConstants
  <2>2. ASSUME NEW ip \in Inode, ip # Ip PROVE dinode'[ip] = Dinode(addrs'[ip], size'[ip])
    BY <1>1, <1>4, <2>2, Zenon DEF BmapInv, Saved
  <2> QED BY <1>1, <1>10, <1>12, <2>1, <2>2, Zenon DEF Saved
<1> QED BY <1>6, <1>8, <1>9, <1>13, <1>14, Zenon DEF BmapInv

\* The blocks of a file are in use, and one place leads to each: bfree()
\* finds none of them free.
LEMMA NoneFreedTwice ==
  ASSUME BmapInv, NEW ip \in Inode
  PROVE  ~ FreedTwice(ip)
<1>1. \A s, t \in Slots(ip) : Addr(s) = Addr(t) => s = t
  <2>1. Owned(addrs, blk, used)
    BY Zenon DEF BmapInv
  <2>2. \A s, t : Held(addrs, blk, ip, s) /\ Held(addrs, blk, ip, t)
                  /\ At(addrs, blk, s) = At(addrs, blk, t) => s = t
    BY <2>1, Zenon DEF Owned
  <2> QED BY <2>2, SlotsHeld, AddrIsAt
<1>2. \A s \in Slots(ip) : Addr(s) \in used
  <2>1. \A s : Held(addrs, blk, ip, s) => At(addrs, blk, s) \in used \ Meta
    BY Zenon DEF BmapInv, Owned
  <2> QED BY <2>1, SlotsHeld, AddrIsAt
<1> QED BY <1>1, <1>2, Zenon DEF FreedTwice

LEMMA ItruncKeeps ==
  ASSUME BmapInv, NEW jp \in Inode, itrunc(jp)
  PROVE  BmapInv'
<1>1. /\ call = Idle /\ pc = "idle" /\ pc' = pc
      /\ used' = used \ Blocks(jp)
      /\ addrs' = [addrs EXCEPT ![jp] = NoAddrs]
      /\ size' = [size EXCEPT ![jp] = 0]
      /\ dinode' = [dinode EXCEPT ![jp] = Dinode(NoAddrs, 0)]
      /\ blk' = blk /\ fip' = fip /\ writable' = writable /\ off' = off /\ call' = call
  BY NoneFreedTwice, Zenon DEF itrunc, files
<1>2. /\ Owned(addrs, blk, used) /\ 0 \in Meta /\ NoAddrs \in [0 .. NDIRECT -> Int]
      /\ addrs \in [Inode -> [0 .. NDIRECT -> Int]]
      /\ size \in [Inode -> 0 .. MAXFILE * BSIZE]
      /\ dinode \in [Inode -> [addrs : [0 .. NDIRECT -> Int], size : 0 .. MAXFILE * BSIZE]]
  BY BmapConstants DEF BmapInv, BmapTypeOK, Typed, NoAddrs
<1>3. Cut(addrs, addrs', jp)
  BY <1>1, <1>2, Zenon DEF Cut, NoAddrs, Word
<1>4. \A n : n \in Blocks(jp) <=> \E s : Held(addrs, blk, jp, s) /\ At(addrs, blk, s) = n
  <2>1. \A n : n \in Blocks(jp) <=> \E s \in Slots(jp) : Addr(s) = n
    BY Zenon DEF Blocks
  <2> QED BY <2>1, SlotsHeld, AddrIsAt, Zenon
<1>5. Owned(addrs', blk, used \ Blocks(jp))
  BY <1>2, <1>3, <1>4, CutOwned, Zenon
<1>6. \A ip \in Inode, bn \in 0 .. MAXFILE - 1 : ip # jp =>
        FileBlock(addrs', blk, ip, bn) = FileBlock(addrs, blk, ip, bn)
  BY <1>3, Zenon DEF Cut, FileBlock, Word
<1>7. Owned(addrs, blk, used)'
  BY <1>1, <1>5
<1>8. BmapTypeOK'
  <2>1. used' \subseteq Bit /\ Meta \subseteq used'
    <3>1. \A n \in Blocks(jp) : n \notin Meta
      <4>1. \A s : Held(addrs, blk, jp, s) => At(addrs, blk, s) \in used \ Meta
        BY <1>2, Zenon DEF Owned
      <4> QED BY <1>4, <4>1
    <3> QED BY <1>1, <3>1, Zenon DEF BmapInv, BmapTypeOK
  <2>2. Typed(addrs, blk)'
    <3>1. addrs' \in [Inode -> [0 .. NDIRECT -> Int]]
      BY <1>1, <1>2
    <3> QED BY <1>1, <3>1, Zenon DEF BmapInv, BmapTypeOK, Typed
  <2>3. size' \in [Inode -> 0 .. MAXFILE * BSIZE]
    BY <1>1, <1>2, BmapConstants
  <2>4. dinode' \in [Inode -> [addrs : [0 .. NDIRECT -> Int], size : 0 .. MAXFILE * BSIZE]]
    <3>1. Dinode(NoAddrs, 0) \in [addrs : [0 .. NDIRECT -> Int], size : 0 .. MAXFILE * BSIZE]
      BY <1>2, BmapConstants DEF Dinode
    <3> QED BY <1>1, <1>2, <3>1, Zenon
  <2> QED BY <1>1, <2>1, <2>2, <2>3, <2>4, Zenon DEF BmapInv, BmapTypeOK
<1>9. CallOK'
  <2>1. Resting'
    BY <1>1, Zenon DEF Resting, Idle
  <2> QED BY <1>1, <2>1, RestingCall, Zenon
<1>10. Filled'
  <2> SUFFICES ASSUME NEW ip \in Inode PROVE Covered(addrs', blk, ip, size'[ip])
    BY <1>1, Zenon DEF Filled
  <2>1. CASE ip = jp
    BY <1>1, <1>2, <2>1 DEF Covered
  <2>2. CASE ip # jp
    <3>1. size'[ip] = size[ip] /\ size[ip] \in 0 .. MAXFILE * BSIZE
      BY <1>1, <1>2, <2>2
    <3>2. Covered(addrs, blk, ip, size[ip])
      BY Zenon DEF BmapInv, Filled
    <3>3. \A k \in 0 .. size[ip] - 1 : k \div BSIZE \in 0 .. MAXFILE - 1
      BY <3>1, InFile, BmapConstants
    <3> QED BY <1>6, <2>2, <3>1, <3>2, <3>3, Zenon DEF Covered
  <2> QED BY <2>1, <2>2
<1>11. Saved'
  <2>1. ~ InRound
    BY <1>1, Zenon DEF InRound, Idle
  <2>2. \A ip \in Inode : dinode[ip] = Dinode(addrs[ip], size[ip])
    BY <2>1, NotInRound
  <2>3. ASSUME NEW ip \in Inode PROVE dinode'[ip] = Dinode(addrs'[ip], size'[ip])
    BY <1>1, <1>2, <2>2
  <2> QED BY <2>3, Zenon DEF Saved
<1> QED BY <1>7, <1>8, <1>9, <1>10, <1>11, Zenon DEF BmapInv

LEMMA BmapSteps == BmapInv /\ SearchInv /\ [BmapNext]_fvars => BmapInv'
<1> SUFFICES ASSUME BmapInv, SearchInv, [BmapNext]_fvars PROVE BmapInv'
  OBVIOUS
<1>1. ASSUME NEW f \in File, NEW n \in Counts, sys_write(f, n) \/ sys_read(f, n)
      PROVE  BmapInv'
  BY <1>1, WriteKeeps, ReadKeeps
<1>2. ASSUME NEW f \in File, NEW o \in 0 .. MAXFILE * BSIZE, sys_lseek(f, o) PROVE BmapInv'
  BY <1>2, LseekKeeps
<1>3. ASSUME NEW ip \in Inode, itrunc(ip) PROVE BmapInv'
  BY <1>3, ItruncKeeps
<1>4. CASE BeginWritei \/ WriteBlock \/ EndWritei \/ ReadBlock \/ ReadReturns
  BY <1>4, BeginWriteiKeeps, WriteBlockKeeps, EndWriteiKeeps, ReadBlockKeeps,
     ReadReturnsKeeps,
     Zenon
<1>5. CASE Allocate \/ Allocated \/ Searching
  BY <1>5, AllocateKeeps, AllocatedKeeps, SearchingKeeps, Zenon
<1>6. CASE UNCHANGED fvars
  <2>1. /\ UNCHANGED <<used, pc, blk, addrs, size, dinode, fip, off, writable, call>>
    BY <1>6, Zenon DEF fvars, vars
  <2> QED BY <2>1, Zenon DEF BmapInv, BmapTypeOK, CallOK, Filled, Saved, InRound, Ip, Pos
<1> QED BY <1>1, <1>2, <1>3, <1>4, <1>5, <1>6, Zenon DEF BmapNext

\* Between any two steps of writei(), bmap(), balloc() and itrunc() every block
\* in use is led to by one place of one file or is mkfs's, files have no holes,
\* and inodes differ from the disk only while writei() will still write them.
THEOREM BmapInductive == BmapSpec => [](BmapInv /\ SearchInv)
<1>1. BmapInit => BmapInv /\ SearchInv
  BY BmapInitInv, SearchKeeps, Zenon DEF BmapInit
<1>2. BmapInv /\ SearchInv /\ [BmapNext]_fvars => (BmapInv /\ SearchInv)'
  BY BmapSteps, SearchKeeps, Zenon
<1> QED BY <1>1, <1>2, PTL DEF BmapSpec

\* No block is lost or shared by bmap() and itrunc(), whatever files are written,
\* sought in and cut: the bitmap marks what files lead to and nothing else.
THEOREM BlocksAreAccountedFor == BmapSpec => []BlocksAccountedFor
<1>1. BmapInv => BlocksAccountedFor
  <2> SUFFICES ASSUME BmapInv PROVE BlocksAccountedFor
    OBVIOUS
  <2>1. Owned(addrs, blk, used) /\ Meta \subseteq used
    BY Zenon DEF BmapInv, BmapTypeOK
  <2>2. \A ip \in Inode : \A s : s \in Slots(ip) <=> Held(addrs, blk, ip, s)
    BY SlotsHeld, Zenon
  <2>3. \A ip, jp \in Inode : \A s \in Slots(ip), t \in Slots(jp) : Addr(s) = Addr(t) => s = t
    BY <2>1, <2>2, AddrIsAt, Zenon DEF Owned
  <2>4. ASSUME NEW n
        PROVE  n \in UNION {Blocks(ip) : ip \in Inode} <=>
                 \E ip \in Inode : \E s : Held(addrs, blk, ip, s) /\ At(addrs, blk, s) = n
    <3>1. n \in UNION {Blocks(ip) : ip \in Inode} <=> \E ip \in Inode : n \in Blocks(ip)
      BY Zenon
    <3>2. \A ip \in Inode : n \in Blocks(ip) <=> \E s \in Slots(ip) : Addr(s) = n
      BY Zenon DEF Blocks
    <3> QED BY <2>2, <3>1, <3>2, AddrIsAt
  <2>5. used = Meta \cup UNION {Blocks(ip) : ip \in Inode}
    <3>1. \A n \in used \ Meta : n \in UNION {Blocks(ip) : ip \in Inode}
      BY <2>1, <2>4, Zenon DEF Owned
    <3>2. \A n \in UNION {Blocks(ip) : ip \in Inode} : n \in used
      <4>1. \A ip \in Inode : \A s : Held(addrs, blk, ip, s) => At(addrs, blk, s) \in used
        BY <2>1, Zenon DEF Owned
      <4> QED BY <2>4, <4>1
    <3> QED BY <2>1, <3>1, <3>2, Zenon
  <2> QED BY <2>3, <2>5, Zenon DEF BlocksAccountedFor, Meta
<1> QED BY <1>1, BmapInductive, PTL

\* No read, write, seek or truncation makes bmap() run out of range, bfree()
\* find a block free or the transfer loops meet a missing block.
THEOREM FilesDoNotPanic == BmapSpec => []NoOtherPanic
<1>1. BmapInv => NoOtherPanic
  BY Zenon DEF BmapInv, BmapTypeOK, NoOtherPanic
<1> QED BY <1>1, BmapInductive, PTL

\* When no call runs, iupdate() has written every inode as it is in memory:
\* addresses that bmap() filled in, the size that writei() or itrunc() left.
THEOREM InodesAreWritten == BmapSpec => []InodeWritten
<1>1. BmapInv => InodeWritten
  <2> SUFFICES ASSUME BmapInv, call = Idle
               PROVE  \A ip \in Inode : dinode[ip] = Dinode(addrs[ip], size[ip])
    BY Zenon DEF InodeWritten
  <2>1. ~ InRound
    BY Zenon DEF InRound, Idle
  <2> QED BY <2>1, NotInRound
<1> QED BY <1>1, BmapInductive, PTL

-----------------------------------------------------------------------------
\* What one call may log.
\* Besides its first block, writei() comes to at most MaxParts blocks.
MaxParts == (MAXOPBLOCKS - 4) \div 2
Bitmaps == NBITS \div BPB
LogBound == 1 + (MaxParts + 1) + 1 + 2 + Bitmaps

\* The index in the top indirect block of the block that leads to block bn.
SecondIndex(bn) == (bn - NDIRECT) \div NINDIRECT

\* Block m is one that bmap() passes, or comes to, on its way to one of the
\* blocks that writei() writes from block first on.
OnWay(A, B, ip, first, m) ==
  \/ m = Word(A, ip, NDIRECT)
  \/ \E k \in first .. first + MaxParts :
       /\ k \in NDIRECT .. MAXFILE - 1 /\ Word(A, ip, NDIRECT) # 0
       /\ m = Word(B, Word(A, ip, NDIRECT), SecondIndex(k))
  \/ \E k \in first .. first + MaxParts :
       k \in 0 .. MAXFILE - 1 /\ m = FileBlock(A, B, ip, k)

\* What a transaction logs before the inode.
LoggedOnWay(L, A, B, ip, first) == \A x \in L :
  \/ \E n \in 0 .. Bitmaps - 1 : x = <<"bitmap", n>>
  \/ \E m : m # 0 /\ x = Block(m) /\ OnWay(A, B, ip, first, m)

\* X has at most LogBound elements, in a form that needs no counting.
Listed(X) == \E f : \A x \in X : \E i \in 0 .. LogBound - 1 : x = f[i]

LoggedInv ==
  IF InRound THEN LoggedOnWay(logged, addrs, blk, Ip, off[call.f] \div BSIZE)
  ELSE Listed(logged)

First == off[call.f] \div BSIZE

LEMMA LogConstants ==
  /\ MaxParts \in Nat /\ MaxParts <= NINDIRECT /\ NINDIRECT \in Nat \ {0} /\ NDIRECT \in Nat
  /\ Bitmaps \in Nat /\ LogBound \in Nat
  /\ MaxWrite = MaxParts * BSIZE
  /\ \A n \in Bit : Bitmap(n) = <<"bitmap", n \div BPB>> /\ n \div BPB \in 0 .. Bitmaps - 1
<1>1. /\ MAXOPBLOCKS \in Nat /\ MAXOPBLOCKS >= 6 /\ (MAXOPBLOCKS - 4) \div 2 <= NINDIRECT
      /\ NINDIRECT \in Nat \ {0} /\ NDIRECT \in Nat /\ BSIZE \in Nat \ {0}
  BY BmapAssumption
<1>2. MaxParts \in Nat /\ MaxParts <= NINDIRECT
  BY <1>1 DEF MaxParts
<1>3. MaxWrite = MaxParts * BSIZE
  <2>1. MAXOPBLOCKS - 1 - 1 - 2 = MAXOPBLOCKS - 4
    BY <1>1
  <2> QED BY <2>1, Zenon DEF MaxWrite, MaxParts
<1>4. BPB \in Nat \ {0} /\ SIZE \in Nat \ {0}
  BY BallocAssumption, Zenon
<1>5. PICK s \in Int, r \in 0 .. BPB - 1 :
        SIZE + BPB - 1 = BPB * s + r /\ s = (SIZE + BPB - 1) \div BPB
  <2>1. SIZE + BPB - 1 \in Int
    BY <1>4
  <2> QED BY <1>4, <2>1, DivMod, Zenon
<1>6. NBITS = BPB * s /\ BPB * s \in Int /\ BPB * s > 0
  BY <1>4, <1>5 DEF NBITS
<1>7. Bitmaps = s
  <2>1. PICK q \in Int, t \in 0 .. BPB - 1 : NBITS = BPB * q + t /\ q = NBITS \div BPB
    BY <1>4, <1>6, DivMod
  <2>2. 0 \in 0 .. BPB - 1 /\ BPB * q + t = BPB * s + 0
    BY <1>4, <1>6, <2>1
  <2> QED BY <1>4, <2>1, <2>2, QuotientUnique DEF Bitmaps
<1>8. s \in Nat
  <2>1. CASE s < 0
    <3>1. BPB * s + BPB <= BPB * 0
      BY <1>4, <2>1, Apart
    <3> QED BY <1>4, <1>6, <3>1
  <2> QED BY <2>1
<1>9. ASSUME NEW n \in Bit PROVE n \div BPB \in 0 .. s - 1
  <2>1. n \in Nat /\ n < BPB * s
    BY <1>6 DEF Bit
  <2>2. PICK q \in Int, t \in 0 .. BPB - 1 : n = BPB * q + t /\ q = n \div BPB
    <3>1. n \in Int
      BY <2>1
    <3> QED BY <1>4, <3>1, DivMod, Zenon
  <2>3. BPB * q \in Int
    BY <1>4
  <2>4. ~(q < 0)
    <3> SUFFICES ASSUME q < 0 PROVE FALSE
      OBVIOUS
    <3>1. BPB * q + BPB <= BPB * 0
      BY <1>4, Apart
    <3> QED BY <1>4, <2>1, <2>2, <2>3, <3>1
  <2>5. ~(s < q) /\ ~(s = q)
    <3>1. ASSUME s < q PROVE FALSE
      <4>1. BPB * s + BPB <= BPB * q
        BY <1>4, <3>1, Apart
      <4> QED BY <1>4, <1>6, <2>1, <2>2, <2>3, <4>1
    <3>2. ASSUME s = q PROVE FALSE
      BY <1>6, <2>1, <2>2, <2>3, <3>2
    <3> QED BY <3>1, <3>2
  <2> QED BY <2>2, <2>4, <2>5
<1>10. LogBound \in Nat
  BY <1>2, <1>7, <1>8 DEF LogBound
<1> QED BY <1>1, <1>2, <1>3, <1>7, <1>8, <1>9, <1>10 DEF Bitmap

\* A call logs bitmap blocks and blocks on the way to those of the write, and
\* in the end the inode, which together fit into LogBound places.
LEMMA LoggedInductive == LogBound \in Nat /\ (BmapSpec => []Listed(logged))
\* The blocks of a write have one or two blocks that lead to them.
<1>TwoSeconds.
      ASSUME NEW first \in Nat, NEW k \in first .. first + MaxParts
      PROVE  SecondIndex(k) \in {SecondIndex(first), SecondIndex(first) + 1}
  <2> USE <1>TwoSeconds
  <2>0. /\ MaxParts \in Nat /\ MaxParts <= NINDIRECT /\ NINDIRECT \in Nat \ {0} /\ NDIRECT \in Nat
    BY LogConstants
  <2>1. PICK x \in Int, y \in Int :
          x = first - NDIRECT /\ y = k - NDIRECT /\ x <= y /\ y <= x + NINDIRECT
    BY <2>0
  <2>2. PICK q \in Int, r \in 0 .. NINDIRECT - 1 :
          x = NINDIRECT * q + r /\ q = x \div NINDIRECT
    BY <2>0, DivMod
  <2>3. PICK s \in Int, t \in 0 .. NINDIRECT - 1 :
          y = NINDIRECT * s + t /\ s = y \div NINDIRECT
    BY <2>0, DivMod
  <2>4. NINDIRECT * q \in Int /\ NINDIRECT * s \in Int
    BY <2>0
  <2>5. ~(s < q)
    <3> SUFFICES ASSUME s < q PROVE FALSE
      OBVIOUS
    <3>1. NINDIRECT * s + NINDIRECT <= NINDIRECT * q
      BY <2>0, Apart
    <3> QED BY <2>0, <2>1, <2>2, <2>3, <2>4, <3>1
  <2>6. ~(q + 1 < s)
    <3> SUFFICES ASSUME q + 1 < s PROVE FALSE
      OBVIOUS
    <3>1. NINDIRECT * (q + 1) + NINDIRECT <= NINDIRECT * s
      BY <2>0, Apart
    <3>2. NINDIRECT * (q + 1) = NINDIRECT * q + NINDIRECT
      BY <2>0
    <3> QED BY <2>0, <2>1, <2>2, <2>3, <2>4, <3>1, <3>2
  <2>7. s \in {q, q + 1}
    BY <2>5, <2>6
  <2> QED BY <2>1, <2>2, <2>3, <2>7, Zenon DEF SecondIndex
\* Whatever writei() logs, with the inode, is within the bound.
<1>WayBounded.
      ASSUME NEW A, NEW B, NEW ip, NEW first \in Nat,
             NEW L, LoggedOnWay(L, A, B, ip, first),
             NEW X, X \subseteq L \cup {InodeBlock(ip)}
      PROVE  Listed(X)
  <2> USE <1>WayBounded
  <2> DEFINE top == Word(A, ip, NDIRECT)
             j == SecondIndex(first)
             f == [i \in 0 .. LogBound - 1 |->
                     IF i = 0 THEN InodeBlock(ip)
                     ELSE IF i = 1 THEN Block(top)
                     ELSE IF i = 2 THEN Block(Word(B, top, j))
                     ELSE IF i = 3 THEN Block(Word(B, top, j + 1))
                     ELSE IF i < 5 + MaxParts THEN Block(FileBlock(A, B, ip, first + (i - 4)))
                     ELSE <<"bitmap", i - (5 + MaxParts)>>]
  <2>0. MaxParts \in Nat /\ Bitmaps \in Nat /\ LogBound \in Nat /\ LogBound = 5 + MaxParts + Bitmaps
    BY LogConstants DEF LogBound
  <2>1. ASSUME NEW x \in L \cup {InodeBlock(ip)}
        PROVE  \E i \in 0 .. LogBound - 1 : x = f[i]
    <3>1. CASE x = InodeBlock(ip)
      <4>1. 0 \in 0 .. LogBound - 1
        BY <2>0
      <4> QED BY <3>1, <4>1, Zenon
    <3>2. ASSUME NEW n \in 0 .. Bitmaps - 1, x = <<"bitmap", n>>
          PROVE  \E i \in 0 .. LogBound - 1 : x = f[i]
      <4>1. PICK i \in 0 .. LogBound - 1 : i - (5 + MaxParts) = n /\ ~(i < 5 + MaxParts)
                                           /\ i # 0 /\ i # 1 /\ i # 2 /\ i # 3
        <5>1. n + (5 + MaxParts) \in 0 .. LogBound - 1
          BY <2>0
        <5> QED BY <2>0, <5>1
      <4> QED BY <3>2, <4>1, Zenon
    <3>3. ASSUME x = Block(top) PROVE \E i \in 0 .. LogBound - 1 : x = f[i]
      <4>1. 1 \in 0 .. LogBound - 1 /\ 1 # 0
        BY <2>0
      <4> QED BY <3>3, <4>1, Zenon
    <3>4. ASSUME NEW k \in first .. first + MaxParts, x = Block(Word(B, top, SecondIndex(k)))
          PROVE  \E i \in 0 .. LogBound - 1 : x = f[i]
      <4>1. SecondIndex(k) \in {j, j + 1}
        BY <1>TwoSeconds
      <4>2. /\ 2 \in 0 .. LogBound - 1 /\ 2 # 0 /\ 2 # 1
            /\ 3 \in 0 .. LogBound - 1 /\ 3 # 0 /\ 3 # 1 /\ 3 # 2
        BY <2>0
      <4> QED BY <3>4, <4>1, <4>2, Zenon
    <3>5. ASSUME NEW k \in first .. first + MaxParts, x = Block(FileBlock(A, B, ip, k))
          PROVE  \E i \in 0 .. LogBound - 1 : x = f[i]
      <4>1. PICK i \in 0 .. LogBound - 1 : first + (i - 4) = k /\ i < 5 + MaxParts
                                           /\ i # 0 /\ i # 1 /\ i # 2 /\ i # 3
        <5>1. (k - first) + 4 \in 0 .. LogBound - 1
          BY <2>0
        <5> QED BY <2>0, <5>1
      <4> QED BY <3>5, <4>1, Zenon
    <3> HIDE DEF f
    <3>6. CASE x \in L
      <4>1. \/ \E n \in 0 .. Bitmaps - 1 : x = <<"bitmap", n>>
            \/ \E m : x = Block(m) /\ OnWay(A, B, ip, first, m)
        BY <3>6, Zenon DEF LoggedOnWay
      <4> QED BY <3>2, <3>3, <3>4, <3>5, <4>1, Zenon DEF OnWay
    <3> QED BY <3>1, <3>6
  <2> HIDE DEF f
  <2>2. \A x \in X : \E i \in 0 .. LogBound - 1 : x = f[i]
    BY <2>1
  <2> QED BY <2>2, Zenon DEF Listed
\* What is on the way stays there when a block is added,
<1>WayStored.
      ASSUME NEW A, NEW B, NEW U \in SUBSET Bit, Owned(A, B, U), 0 \in Meta,
             NEW jp \in Inode, NEW p, Place(A, B, jp, p), At(A, B, p) = 0,
             NEW r \in Bit \ Meta, r \notin U, r # 0,
             NEW A2, NEW B2, Stored(A, B, A2, B2, p, r),
             NEW ip \in Inode, NEW first, NEW m, m # 0, OnWay(A, B, ip, first, m)
      PROVE  OnWay(A2, B2, ip, first, m)
  <2> USE <1>WayStored
  <2>0. \A s : Held(A, B, ip, s) => At(A2, B2, s) = At(A, B, s)
    BY StoredPlaces
  <2>1. ASSUME Word(A, ip, NDIRECT) # 0
        PROVE  /\ Word(A2, ip, NDIRECT) = Word(A, ip, NDIRECT)
               /\ \A j \in Entry : Word(B, Word(A, ip, NDIRECT), j) # 0 =>
                    Word(B2, Word(A, ip, NDIRECT), j) = Word(B, Word(A, ip, NDIRECT), j)
    <3>1. /\ Held(A, B, ip, InInode(ip, NDIRECT))
          /\ \A j \in Entry : Word(B, Word(A, ip, NDIRECT), j) # 0 =>
               Held(A, B, ip, InBlock(Word(A, ip, NDIRECT), j))
      BY <2>1, Indirect, Zenon
    <3>2. Word(A2, ip, NDIRECT) = Word(A, ip, NDIRECT)
      BY <2>0, <3>1, AtInode
    <3>3. ASSUME NEW j \in Entry, Word(B, Word(A, ip, NDIRECT), j) # 0
          PROVE  Word(B2, Word(A, ip, NDIRECT), j) = Word(B, Word(A, ip, NDIRECT), j)
      BY <2>0, <2>1, <3>1, <3>3, AtBlock
    <3> QED BY <3>2, <3>3, Zenon
  <2>2. CASE m = Word(A, ip, NDIRECT)
    BY <2>1, <2>2 DEF OnWay
  <2>3. ASSUME NEW k \in first .. first + MaxParts, k \in NDIRECT .. MAXFILE - 1,
               Word(A, ip, NDIRECT) # 0, m = Word(B, Word(A, ip, NDIRECT), SecondIndex(k))
        PROVE  OnWay(A2, B2, ip, first, m)
    <3>1. SecondIndex(k) \in Entry
      BY <2>3, IndirectIndex DEF SecondIndex
    <3> QED BY <2>1, <2>3, <3>1, Zenon DEF OnWay
  <2>4. ASSUME NEW k \in first .. first + MaxParts, k \in 0 .. MAXFILE - 1,
               m = FileBlock(A, B, ip, k)
        PROVE  OnWay(A2, B2, ip, first, m)
    <3>1. FileBlock(A2, B2, ip, k) = FileBlock(A, B, ip, k)
      BY <2>4, StoredBlocks
    <3> QED BY <2>4, <3>1, Zenon DEF OnWay
  <2> QED BY <2>2, <2>3, <2>4, Zenon DEF OnWay
\* and when data is written.
<1>WayWritten.
      ASSUME NEW A, NEW B, NEW U \in SUBSET Bit, Owned(A, B, U), 0 \in Meta,
             NEW jp \in Inode, NEW bm \in 0 .. MAXFILE - 1,
             NEW n, n = FileBlock(A, B, jp, bm), n # 0,
             NEW B2, Overwritten(B, B2, n),
             NEW ip \in Inode, NEW first, NEW m, OnWay(A, B, ip, first, m)
      PROVE  OnWay(A, B2, ip, first, m)
  <2> USE <1>WayWritten
  <2>1. IndirectKept(A, B, B2)
    BY WrittenPlaces, Zenon
  <2>2. \A kp \in Inode, bn \in 0 .. MAXFILE - 1 : FileBlock(A, B2, kp, bn) = FileBlock(A, B, kp, bn)
    BY WrittenOwned
  <2> QED BY <2>1, <2>2, Zenon DEF OnWay, IndirectKept, Word
\* The place that bmap() comes to for block k, and the block it is in, are on
\* the way to block k.
<1>HereOnWay.
      ASSUME NEW ip \in Inode, NEW k \in 0 .. MAXFILE - 1, NEW first,
             k \in first .. first + MaxParts, NEW p, p = bmap(ip, k),
             0 \in Meta, Owned(addrs, blk, used), At(addrs, blk, p) = 0,
             NEW r \in Bit \ Meta, r \notin used, r # 0, used \subseteq Bit,
             NEW A2, NEW B2, Stored(addrs, blk, A2, B2, p, r)
      PROVE  /\ OnWay(A2, B2, ip, first, r)
             /\ p.blk # 0 => OnWay(addrs, blk, ip, first, p.blk)
  <2> USE <1>HereOnWay
  <2>0. Place(addrs, blk, ip, p) /\ NDIRECT \in Nat /\ NDIRECT \in 0 .. NDIRECT /\ k \in Int
    BY BmapFinds, BmapAssumption
  <2>1. /\ At(A2, B2, p) = r
        /\ \A s : Held(addrs, blk, ip, s) => At(A2, B2, s) = At(addrs, blk, s)
    BY <2>0, StoredPlaces
  <2>2. \A i : Addr(InInode(ip, i)) = Word(addrs, ip, i)
    BY AddrIsAt, AtInode
  <2>3. PICK t, q : t = Word(addrs, ip, NDIRECT) /\ q = SecondIndex(k)
    OBVIOUS
  <2>4. Addr(Top(ip)) = t /\ Second(ip, k) = InBlock(t, q)
    BY <2>2, <2>3, Zenon DEF Top, Second, SecondIndex
  <2>5. CASE k < NDIRECT
    <3>1. p = InInode(ip, k) /\ p.blk = 0
      BY <2>5, Zenon DEF bmap, InInode
    <3>2. FileBlock(A2, B2, ip, k) = r
      BY <2>1, <2>5, <3>1, AtInode DEF FileBlock
    <3> QED BY <3>1, <3>2, Zenon DEF OnWay
  <2>6. CASE ~(k < NDIRECT) /\ t = 0
    <3>1. p = InInode(ip, NDIRECT) /\ p.blk = 0
      BY <2>4, <2>6, Zenon DEF bmap, InInode, Top
    <3>2. Word(A2, ip, NDIRECT) = r
      BY <2>1, <3>1, AtInode
    <3> QED BY <3>1, <3>2, Zenon DEF OnWay
  <2>7. CASE ~(k < NDIRECT) /\ t # 0
    <3>1. k \in NDIRECT .. MAXFILE - 1 /\ q \in Entry
      <4>1. k \in NDIRECT .. MAXFILE - 1
        BY <2>0, <2>7, BmapConstants
      <4> QED BY <2>3, <4>1, IndirectIndex, Zenon DEF SecondIndex
    <3>2. Word(A2, ip, NDIRECT) = t
      <4>1. Held(addrs, blk, ip, InInode(ip, NDIRECT))
        BY <2>3, <2>7, Indirect, Zenon
      <4> QED BY <2>1, <2>3, <4>1, AtInode
    <3>3. Addr(Second(ip, k)) = Word(blk, t, q)
      BY <2>4, <2>7, AddrIsAt, AtBlock
    <3>4. CASE Word(blk, t, q) = 0
      <4>1. p = InBlock(t, q) /\ p.blk = t
        BY <2>4, <2>7, <3>3, <3>4 DEF bmap, InBlock
      <4>2. Word(B2, t, q) = r
        BY <2>1, <2>7, <4>1, AtBlock
      <4> QED BY <2>3, <2>7, <3>1, <3>2, <4>1, <4>2, Zenon DEF OnWay
    <3>5. CASE Word(blk, t, q) # 0
      <4>1. PICK s : s = Word(blk, t, q)
        OBVIOUS
      <4>2. p = InBlock(s, (k - NDIRECT) % NINDIRECT) /\ p.blk = s
        BY <2>4, <2>7, <3>3, <3>5, <4>1, Zenon DEF bmap, InBlock, Third
      <4>3. Word(B2, t, q) = s
        <5>1. Held(addrs, blk, ip, InBlock(t, q))
          BY <2>3, <2>7, <3>1, <3>5, Indirect, Zenon
        <5> QED BY <2>1, <2>7, <4>1, <5>1, AtBlock
      <4>4. Word(B2, s, (k - NDIRECT) % NINDIRECT) = r
        BY <2>1, <3>5, <4>1, <4>2, AtBlock
      <4>5. FileBlock(A2, B2, ip, k) = r
        BY <2>3, <2>7, <3>2, <3>5, <4>1, <4>3, <4>4, Zenon DEF FileBlock, SecondIndex
      <4> QED BY <2>3, <2>7, <3>1, <4>1, <4>2, <4>5, Zenon DEF OnWay
    <3> QED BY <3>4, <3>5, Zenon
  <2> QED BY <2>5, <2>6, <2>7, Zenon
\* writei() stays within MaxParts blocks of the first.
<1>WriteSpan.
      ASSUME BmapInv, InRound
      PROVE  /\ Ip \in Inode /\ First \in Nat
             /\ call.tot < call.n => Pos \div BSIZE \in First .. First + MaxParts
  <2> USE <1>WriteSpan
  <2>0. /\ BSIZE \in Nat \ {0} /\ MaxParts \in Nat /\ MaxWrite = MaxParts * BSIZE
    BY LogConstants, BmapConstants
  <2>1. call \in WriteCall
    BY Kinds, Zenon DEF InRound, BmapInv, BmapTypeOK
  <2>2. call.f \in File /\ call.n \in Nat /\ call.tot \in Nat /\ call.n <= MaxWrite
    BY <2>1 DEF WriteCall, BmapInv, CallOK, InRound
  <2>3. Ip \in Inode /\ off[call.f] \in Nat
    BY <2>2 DEF Ip, BmapInv, BmapTypeOK
  <2>4. PICK o \in Nat, d \in Nat, n \in Nat :
          o = off[call.f] /\ d = call.tot /\ n = call.n /\ n <= BSIZE * MaxParts /\ Pos = o + d
    BY <2>0, <2>2, <2>3 DEF Pos
  <2>5. PICK q \in Int, r \in 0 .. BSIZE - 1 : o = BSIZE * q + r /\ q = o \div BSIZE
    <3>1. o \in Int
      OBVIOUS
    <3> QED BY <2>0, <3>1, DivMod
  <2>6. BSIZE * q \in Int /\ BSIZE * MaxParts \in Int
    BY <2>0
  <2>7. q \in Nat
    <3>1. ASSUME q < 0 PROVE FALSE
      <4>1. BSIZE * q + BSIZE <= BSIZE * 0
        BY <2>0, <3>1, Apart
      <4> QED BY <2>0, <2>4, <2>5, <2>6, <4>1
    <3> QED BY <3>1
  <2>8. ASSUME d < n PROVE (o + d) \div BSIZE \in q .. q + MaxParts
    <3>1. PICK s \in Int, t \in 0 .. BSIZE - 1 : o + d = BSIZE * s + t /\ s = (o + d) \div BSIZE
      <4>1. o + d \in Int
        OBVIOUS
      <4> QED BY <2>0, <4>1, DivMod
    <3>2. BSIZE * s \in Int
      BY <2>0
    <3>3. ASSUME s < q PROVE FALSE
      <4>1. BSIZE * s + BSIZE <= BSIZE * q
        BY <2>0, <3>3, Apart
      <4>2. PICK u \in Int, v \in Int : u = BSIZE * s /\ v = BSIZE * q
        BY <2>6, <3>2
      <4>3. o = v + r /\ o + d = u + t /\ u + BSIZE <= v
        BY <2>5, <3>1, <4>1, <4>2, Zenon
      <4> QED BY <2>0, <4>3
    <3>4. ASSUME q + MaxParts < s PROVE FALSE
      <4>1. BSIZE * (q + MaxParts) + BSIZE <= BSIZE * s
        BY <2>0, <3>4, Apart
      <4>2. BSIZE * (q + MaxParts) = BSIZE * q + BSIZE * MaxParts
        BY <2>0
      <4>3. PICK u \in Int, v \in Int, w \in Int :
              u = BSIZE * s /\ v = BSIZE * q /\ w = BSIZE * MaxParts
        BY <2>6, <3>2
      <4>4. o = v + r /\ o + d = u + t /\ v + w + BSIZE <= u
        BY <2>5, <3>1, <4>1, <4>2, <4>3, Zenon
      <4> QED BY <2>0, <2>4, <2>8, <4>3, <4>4
    <3> QED BY <2>0, <3>1, <3>3, <3>4
  <2> QED BY <2>3, <2>4, <2>5, <2>7, <2>8 DEF First
<1>NoneLogged.
      ASSUME logged' = {}
      PROVE  LoggedInv'
  <2> USE <1>NoneLogged
  <2>1. \A A, B, ip, first : LoggedOnWay({}, A, B, ip, first)
    BY Zenon DEF LoggedOnWay
  <2>2. 0 \in Nat
    OBVIOUS
  <2>3. Listed({})
    BY <2>1, <2>2, <1>WayBounded
  <2> QED BY <2>1, <2>3, Zenon DEF LoggedInv
<1>QuietLogged.
      ASSUME LoggedInv, logged' = logged, ~ InRound, ~ InRound'
      PROVE  LoggedInv'
  BY <1>QuietLogged, Zenon DEF LoggedInv
<1>WaitingLogged.
      ASSUME LoggedInv, UNCHANGED <<logged, addrs, blk, fip, off, call>>
      PROVE  LoggedInv'
  BY <1>WaitingLogged, Zenon DEF LoggedInv, InRound, Ip
<1>WriteBlockLogged.
      ASSUME BmapInv, LoggedInv, WriteBlock
      PROVE  LoggedInv'
  <2> USE <1>WriteBlockLogged
  <2>1. /\ Transferring /\ call.kind = "write" /\ Addr(Here) # 0
        /\ call' = [call EXCEPT !.tot = @ + Part] /\ logged' = logged \cup {Block(Addr(Here))}
        /\ addrs' = addrs /\ fip' = fip /\ off' = off
    BY Zenon DEF WriteBlock, files
  <2>2. call \in WriteCall /\ call.tot < call.n
    BY <2>1, Kinds DEF Transferring, BmapInv, BmapTypeOK
  <2>3. InRound /\ InRound' /\ call'.f = call.f
    BY <2>1, <2>2 DEF InRound, WriteCall
  <2>4. PICK n : n = Addr(Here)
    OBVIOUS
  <2>5. /\ n = FileBlock(addrs, blk, Ip, Pos \div BSIZE) /\ Overwritten(blk, blk', n) /\ n # 0
        /\ Pos \div BSIZE \in 0 .. MAXFILE - 1
    BY <2>1, <2>4, WriteBlockStep, HereFinds, Zenon
  <2>6. Ip \in Inode /\ First \in Nat /\ Pos \div BSIZE \in First .. First + MaxParts
    BY <2>2, <2>3, <1>WriteSpan, Zenon
  <2>7. Owned(addrs, blk, used) /\ used \in SUBSET Bit /\ 0 \in Meta
    BY BmapConstants, Zenon DEF BmapInv, BmapTypeOK
  <2>8. \A m : OnWay(addrs, blk, Ip, First, m) => OnWay(addrs, blk', Ip, First, m)
    BY <2>5, <2>6, <2>7, <1>WayWritten
  <2>9. OnWay(addrs, blk', Ip, First, n)
    <3>1. OnWay(addrs, blk, Ip, First, n)
      BY <2>5, <2>6, Zenon DEF OnWay
    <3> QED BY <2>8, <3>1, Zenon
  <2>10. LoggedOnWay(logged', addrs, blk', Ip, First)
    <3>1. LoggedOnWay(logged, addrs, blk, Ip, First)
      BY <2>3, Zenon DEF LoggedInv, First
    <3> QED BY <2>1, <2>4, <2>5, <2>8, <2>9, <3>1, Zenon DEF LoggedOnWay
  <2>11. fip'[call'.f] = Ip /\ off'[call'.f] \div BSIZE = First
    BY <2>1, <2>3, Zenon DEF Ip, First
  <2> QED BY <2>1, <2>3, <2>10, <2>11, Zenon DEF LoggedInv, Ip
<1>AllocatedLogged.
      ASSUME BmapInv, SearchInv, LoggedInv, Allocated
      PROVE  LoggedInv'
  <2> USE <1>AllocatedLogged
  <2>1. /\ pc = "search" /\ fip' = fip /\ off' = off /\ call' = call
        /\ logged' = logged \cup {Bitmap(ret'), Block(ret')} \cup
                (IF Here.blk = 0 THEN {} ELSE {Block(Here.blk)})
    BY Zenon DEF Allocated, Found, files
  <2>2. InRound /\ call.tot < call.n
    BY <2>1, Zenon DEF BmapInv, CallOK
  <2>3. PICK p, r : p = Here /\ r = ret'
    BY Zenon
  <2>4. /\ r \in Bit /\ r \in Bit \ Meta /\ r \notin used /\ r # 0
        /\ Stored(addrs, blk, addrs', blk', p, r)
        /\ Place(addrs, blk, Ip, p) /\ At(addrs, blk, p) = 0 /\ Ip \in Inode
    BY <2>3, AllocatedStep
  <2>5. First \in Nat /\ Pos \div BSIZE \in First .. First + MaxParts
    BY <2>2, <1>WriteSpan
  <2>6. Owned(addrs, blk, used) /\ used \in SUBSET Bit /\ 0 \in Meta
    BY BmapConstants, Zenon DEF BmapInv, BmapTypeOK
  <2>7. Pos \div BSIZE \in 0 .. MAXFILE - 1 /\ p = bmap(Ip, Pos \div BSIZE)
    BY <2>1, <2>3, HereFinds, Zenon DEF Here
  <2>8. \A m : m # 0 /\ OnWay(addrs, blk, Ip, First, m) => OnWay(addrs', blk', Ip, First, m)
    BY <2>4, <2>6, <1>WayStored, Zenon
  <2>9. OnWay(addrs', blk', Ip, First, r) /\ (p.blk # 0 => OnWay(addrs, blk, Ip, First, p.blk))
    BY <2>4, <2>5, <2>6, <2>7, <1>HereOnWay
  <2>10. PICK n \in 0 .. Bitmaps - 1 : Bitmap(r) = <<"bitmap", n>>
    BY <2>4, LogConstants
  <2>11. LoggedOnWay(logged', addrs', blk', Ip, First)
    <3>1. LoggedOnWay(logged, addrs, blk, Ip, First)
      BY <2>2, Zenon DEF LoggedInv, First
    <3>2. \A x \in logged' : \/ x \in logged \/ x = <<"bitmap", n>> \/ x = Block(r)
                             \/ p.blk # 0 /\ x = Block(p.blk)
      BY <2>1, <2>3, <2>10, Zenon
    <3> QED BY <2>4, <2>8, <2>9, <2>10, <3>1, <3>2, Zenon DEF LoggedOnWay
  <2>12. Ip' = Ip /\ First' = First /\ InRound'
    BY <2>1, <2>2, Zenon DEF Ip, First, InRound
  <2> QED BY <2>11, <2>12, Zenon DEF LoggedInv, First
<1>EndWriteiLogged.
      ASSUME BmapInv, LoggedInv, EndWritei
      PROVE  LoggedInv'
  <2> USE <1>EndWriteiLogged
  <2>1. /\ call.kind = "write" /\ call.n > 0
        /\ logged' \subseteq logged \cup {InodeBlock(Ip)}
    BY Zenon DEF EndWritei, InWrite
  <2>2. InRound /\ call \in WriteCall
    BY <2>1, Kinds DEF InRound, BmapInv, BmapTypeOK
  <2>3. ~ InRound'
    <3>1. CASE call' = [call EXCEPT !.left = @ - call.n, !.done = @ + call.n, !.n = 0, !.tot = 0]
      BY <2>2, <3>1 DEF WriteCall, InRound
    <3>2. CASE FileWriteReturns(Pos, Written)
      <4>1. call' = Idle \/ \E f, n, s, z : call' = FileWrite(f, n, s, z)
        BY <3>2, Zenon DEF FileWriteReturns
      <4> QED BY <4>1 DEF FileWrite, Idle, InRound
    <3> QED BY <3>1, <3>2, Zenon DEF EndWritei
  <2>4. First \in Nat /\ LoggedOnWay(logged, addrs, blk, Ip, First)
    BY <2>2, <1>WriteSpan DEF LoggedInv, First
  <2>5. Listed(logged')
    BY <2>1, <2>4, <1>WayBounded
  <2> QED BY <2>3, <2>5, Zenon DEF LoggedInv
<1>ItruncLogged.
      ASSUME BmapInv, NEW jp \in Inode, itrunc(jp)
      PROVE  LoggedInv'
  <2> USE <1>ItruncLogged
  <2>1. call' = Idle /\ logged' = {Bitmap(n) : n \in Blocks(jp)} \cup {InodeBlock(jp)}
    BY Zenon DEF itrunc
  <2>2. ~ InRound'
    BY <2>1 DEF InRound, Idle
  <2>3. \A n \in Blocks(jp) : n \in Bit
    <3>1. \A s : Held(addrs, blk, jp, s) => At(addrs, blk, s) \in Bit
      BY Zenon DEF BmapInv, BmapTypeOK, Owned
    <3>2. \A n \in Blocks(jp) : \E s \in Slots(jp) : Addr(s) = n
      BY Zenon DEF Blocks
    <3> QED BY <3>1, <3>2, SlotsHeld, AddrIsAt
  <2>4. PICK L : L = {Bitmap(n) : n \in Blocks(jp)}
    BY Zenon
  <2>5. LoggedOnWay(L, addrs, blk, jp, 0)
    <3>1. \A x \in L : \E n \in Bit : x = Bitmap(n)
      BY <2>3, <2>4, Zenon
    <3>2. \A n \in Bit : \E i \in 0 .. Bitmaps - 1 : Bitmap(n) = <<"bitmap", i>>
      BY LogConstants
    <3> QED BY <3>1, <3>2, Zenon DEF LoggedOnWay
  <2>6. 0 \in Nat /\ logged' \subseteq L \cup {InodeBlock(jp)}
    BY <2>1, <2>4
  <2>7. Listed(logged')
    BY <2>5, <2>6, <1>WayBounded
  <2> QED BY <2>2, <2>7, Zenon DEF LoggedInv
<1>LoggedSteps. BmapInv /\ SearchInv /\ LoggedInv /\ [BmapNext]_fvars => LoggedInv'
  <2> SUFFICES ASSUME BmapInv, SearchInv, LoggedInv, [BmapNext]_fvars PROVE LoggedInv'
    OBVIOUS
  <2>1. ASSUME NEW f \in File, NEW n \in Counts, sys_write(f, n) \/ sys_read(f, n)
        PROVE  LoggedInv'
    <3>1. logged' = logged /\ ~ InRound /\ ~ InRound'
      BY <2>1 DEF sys_write, sys_read, InRound, Idle, FileWrite
    <3> QED BY <3>1, <1>QuietLogged, Zenon
  <2>2. ASSUME NEW f \in File, NEW o \in 0 .. MAXFILE * BSIZE, sys_lseek(f, o) PROVE LoggedInv'
    <3>1. logged' = logged /\ ~ InRound /\ ~ InRound'
      BY <2>2 DEF sys_lseek, InRound, Idle, FileWrite
    <3> QED BY <3>1, <1>QuietLogged, Zenon
  <2>3. ASSUME NEW ip \in Inode, itrunc(ip) PROVE LoggedInv'
    BY <2>3, <1>ItruncLogged
  <2>4. CASE BeginWritei
    <3>1. logged' = {}
      BY <2>4, Zenon DEF BeginWritei
    <3> QED BY <3>1, <1>NoneLogged
  <2>5. CASE ReadBlock \/ ReadReturns
    <3>1. call \in ReadCall /\ logged' = logged
      BY <2>5, Kinds DEF ReadBlock, ReadReturns, BmapInv, BmapTypeOK
    <3>2. ~ InRound /\ ~ InRound'
      <4>1. CASE ReadBlock
        <5>1. call'.kind = "read" /\ call.kind = "read"
          BY <3>1, <4>1 DEF ReadBlock, ReadCall
        <5> QED BY <5>1 DEF InRound
      <4>2. CASE ReadReturns
        BY <4>2 DEF ReadReturns, Idle, InRound
      <4> QED BY <2>5, <4>1, <4>2
    <3> QED BY <3>1, <3>2, <1>QuietLogged
  <2>6. CASE WriteBlock \/ EndWritei \/ Allocated
    BY <2>6, <1>WriteBlockLogged, <1>EndWriteiLogged, <1>AllocatedLogged
  <2>7. CASE Allocate \/ Searching \/ UNCHANGED fvars
    <3>1. UNCHANGED <<logged, addrs, blk, fip, off, call>>
      BY <2>7, Zenon DEF Allocate, Searching, fvars, files
    <3> QED BY <3>1, <1>WaitingLogged
  <2> QED BY <2>1, <2>2, <2>3, <2>4, <2>5, <2>6, <2>7, Zenon DEF BmapNext
<1>1. BmapInit => LoggedInv
  <2> SUFFICES ASSUME BmapInit PROVE LoggedInv
    OBVIOUS
  <2>1. logged = {} /\ call = Idle
    BY Zenon DEF BmapInit
  <2>2. ~ InRound
    BY <2>1 DEF InRound, Idle
  <2>3. LoggedOnWay({}, addrs, blk, 0, 0) /\ 0 \in Nat
    BY Zenon DEF LoggedOnWay
  <2>4. Listed(logged)
    BY <2>1, <2>3, <1>WayBounded
  <2> QED BY <2>2, <2>4 DEF LoggedInv
<1>2. BmapInv /\ LoggedInv => Listed(logged)
  <2> SUFFICES ASSUME BmapInv, LoggedInv PROVE Listed(logged)
    OBVIOUS
  <2>1. CASE InRound
    <3>1. First \in Nat /\ LoggedOnWay(logged, addrs, blk, Ip, First)
      BY <2>1, <1>WriteSpan DEF LoggedInv, First
    <3> QED BY <3>1, <1>WayBounded
  <2> QED BY <2>1, Zenon DEF LoggedInv
<1>3. BmapSpec => []Listed(logged)
  BY <1>1, <1>2, <1>LoggedSteps, BmapInductive, PTL DEF BmapSpec
<1> QED BY <1>3, LogConstants

=============================================================================
