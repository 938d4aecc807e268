----------------------------- MODULE BmapProofs -----------------------------
(***************************************************************************)
(* The block allocator and the blocks of files, for any number of files,   *)
(* open files and calls, any lengths of reads and writes, and any sizes of *)
(* blocks, of inodes and of the disk.  Three parts: balloc()'s search,     *)
(* alone and under the calls of Bmap; the places of files that hold        *)
(* addresses, and how storing an address, writing data and cutting a file  *)
(* change where they lead; and the invariant of the calls, with the steps  *)
(* that leave the files alone.                                             *)
(***************************************************************************)
EXTENDS Bmap, TLAPS

-----------------------------------------------------------------------------
\* Quotients and remainders, for the places of bits, bytes and addresses.
LEMMA SumBelow ==
  ASSUME NEW x \in Nat, NEW y \in Nat
  PROVE  /\ x + y \in Nat
         /\ \A z \in Nat, m \in Int : y < z /\ x + z <= m => x + y < m
OBVIOUS

LEMMA SmallerBounds ==
  ASSUME NEW x \in Nat, NEW y \in Nat
  PROVE  /\ Smaller(x, y) \in {x, y} /\ Smaller(x, y) <= x /\ Smaller(x, y) <= y
BY DEF Smaller

LEMMA DivMod ==
  ASSUME NEW U \in Nat \ {0}, NEW x \in Int
  PROVE  x \div U \in Int /\ x % U \in 0 .. U - 1 /\ x = U * (x \div U) + (x % U)
OBVIOUS

\* Multiples of U are at least U apart.
LEMMA Apart ==
  ASSUME NEW U \in Nat \ {0}, NEW a \in Int, NEW w \in Int, a < w
  PROVE  U * a + U <= U * w
<1>1. \E d \in Nat : w = a + 1 + d
  <2>1. w - a - 1 \in Nat /\ w = a + 1 + (w - a - 1)
    OBVIOUS
  <2> QED BY <2>1
<1>2. PICK d \in Nat : w = a + 1 + d
  BY <1>1
<1>3. U * (a + 1 + d) = U * a + U + U * d
  OBVIOUS
<1>4. U * d >= 0
  OBVIOUS
<1>5. U * a \in Int /\ U * d \in Int
  OBVIOUS
<1> QED BY <1>2, <1>3, <1>4, <1>5

LEMMA QuotientUnique ==
  ASSUME NEW U \in Nat \ {0}, NEW q \in Int, NEW s \in Int,
         NEW r \in 0 .. U - 1, NEW t \in 0 .. U - 1, U * q + r = U * s + t
  PROVE  q = s /\ r = t
<1>1. U * q \in Int /\ U * s \in Int
  OBVIOUS
<1>2. ~(q < s)
  BY <1>1, Apart
<1>3. ~(s < q)
  BY <1>1, Apart
<1> QED BY <1>1, <1>2, <1>3

-----------------------------------------------------------------------------
\* The search of balloc().

\* x is among those that a cyclic walk from start has left behind at cur.
Behind(x, start, cur) ==
  IF start <= cur THEN start <= x /\ x < cur ELSE start <= x \/ x < cur

BlockStart == {c \in 0 .. SIZE - 1 : c % BPB = 0}
Index == 0 .. BPB - 1

BallocTypeOK ==
  /\ lastballoc \in BlockStart /\ lastbi \in Index
  /\ b \in BlockStart /\ bi \in Index

\* The search has found in use all blocks of the bitmap blocks behind it, and
\* all that are behind it in the bitmap block it is in.
BehindInUse ==
  pc = "search" =>
    /\ \A c \in BlockStart, i \in Index :
         Behind(c, lastballoc, b) /\ c + i < SIZE => c + i \in used
    /\ \A i \in Index : Behind(i, lastbi, bi) /\ b + i < SIZE => b + i \in used

SearchInv == BallocTypeOK /\ BehindInUse /\ PanicsOnlyWhenFull

\* The search finds a free block if there is one, from its start on, in steps of
\* balloc() alone and in those of bmap().
LEMMA SearchKeeps ==
  /\ Init => SearchInv
  /\ SearchInv /\ [Next]_vars => SearchInv'
  /\ SearchInv /\ [BmapNext]_fvars => SearchInv'
<1>ModSmall.
      ASSUME NEW U \in Nat \ {0}, NEW x \in Int, 0 <= x, x < U
      PROVE  x % U = x
  BY <1>ModSmall
<1>ModHigh.
      ASSUME NEW U \in Nat \ {0}, NEW x \in Int, U <= x, x < 2 * U
      PROVE  x % U = x - U
  BY <1>ModHigh
<1>ModUnique.
      ASSUME NEW U \in Nat \ {0}, NEW q \in Int, NEW r \in 0 .. U - 1,
             NEW x \in Int, x = U * q + r
      PROVE  x % U = r
  <2> USE <1>ModUnique
  <2>1. PICK s \in Int, t \in 0 .. U - 1 : x = U * s + t /\ t = x % U
    BY DivMod, Zenon
  <2>2. U * q + r = U * s + t
    BY <2>1
  <2>3. r = t
    BY <2>2, QuotientUnique
  <2> QED BY <2>1, <2>3, Zenon
\* Fewer than U consecutive numbers have different remainders.
<1>ModDiffers.
      ASSUME NEW U \in Nat \ {0}, NEW x \in Int, NEW y \in Int, x < y, y < x + U
      PROVE  x % U # y % U
  <2> USE <1>ModDiffers
  <2> SUFFICES ASSUME x % U = y % U PROVE FALSE
    OBVIOUS
  <2>1. PICK q \in Int, r \in 0 .. U - 1 : x = U * q + r /\ r = x % U
    BY DivMod, Zenon
  <2>2. PICK s \in Int : y = U * s + r
    BY DivMod, <2>1, Zenon
  <2>3. U * q \in Int /\ U * s \in Int
    OBVIOUS
  <2>4. ~(q < s)
    BY <2>1, <2>2, <2>3, Apart
  <2>5. ~(s < q)
    BY <2>1, <2>2, <2>3, Apart
  <2> QED BY <2>1, <2>2, <2>3, <2>4, <2>5
\* A counter that wraps goes on in the ring where it was, since the size of
\* the ring divides the number of its values.
<1>ModWraps.
      ASSUME NEW P \in Nat \ {0}, NEW U \in Nat \ {0}, U % P = 0, NEW x \in Int
      PROVE  (x + U) % P = x % P
  <2> USE <1>ModWraps
  <2>1. PICK q \in Int, r \in 0 .. P - 1 : x = P * q + r /\ r = x % P
    BY DivMod, Zenon
  <2>2. PICK s \in Int : U = P * s
    <3>1. U \in Int
      OBVIOUS
    <3>2. U \div P \in Int /\ U = P * (U \div P) + (U % P)
      BY <3>1, DivMod
    <3>3. P * (U \div P) \in Int
      BY <3>2
    <3>4. U = P * (U \div P)
      BY <3>2, <3>3
    <3> QED BY <3>2, <3>4
  <2>3. P * q \in Int /\ P * s \in Int /\ P * (q + s) = P * q + P * s
    OBVIOUS
  <2> DEFINE a == P * q
             w == P * s
             c == P * (q + s)
  <2>4. x + U = c + r
    <3>1. a \in Int /\ w \in Int /\ c = a + w /\ x = a + r /\ U = w
      BY <2>1, <2>2, <2>3
    <3> HIDE DEF a, w, c
    <3> QED BY <3>1
  <2>5. PICK y \in Int, m \in Int : y = x + U /\ m = q + s
    OBVIOUS
  <2>6. y = P * m + r
    BY <2>4, <2>5
  <2>7. y % P = r
    BY <2>6, <1>ModUnique
  <2> QED BY <2>1, <2>5, <2>7, Zenon
\* Multiples of P are at least P apart.
<1>MultiplesApart.
      ASSUME NEW P \in Nat \ {0}, NEW x \in Int, NEW y \in Int,
             x % P = 0, y % P = 0, x < y
      PROVE  x + P <= y
  <2> USE <1>MultiplesApart
  <2>1. ~(y < x + P)
    BY <1>ModDiffers, Zenon
  <2> QED BY <2>1
\* A block lies in a bitmap block.
<1>Located.
      ASSUME NEW x \in 0 .. SIZE - 1
      PROVE  \E c \in BlockStart, i \in Index : x = c + i
  <2> USE <1>Located
  <2>1. BPB \in Nat \ {0} /\ SIZE \in Nat /\ x \in Int
    BY BallocAssumption
  <2>2. PICK q \in Int, r \in 0 .. BPB - 1 : x = BPB * q + r
    BY <2>1, DivMod, Zenon
  <2>3. PICK c \in Int : c = BPB * q
    BY <2>1
  <2>4. c % BPB = 0
    <3>1. 0 \in 0 .. BPB - 1 /\ c = BPB * q + 0
      BY <2>1, <2>3
    <3> QED BY <3>1, <2>1, <1>ModUnique
  <2>5. q >= 0
    <3>1. q < 0 => BPB * q + BPB <= BPB * 0
      BY <2>1, Apart
    <3>2. BPB * 0 = 0
      BY <2>1
    <3> QED BY <3>1, <3>2, <2>1, <2>2, <2>3
  <2>6. c >= 0
    BY <2>1, <2>3, <2>5
  <2> QED BY <2>1, <2>2, <2>3, <2>4, <2>6 DEF BlockStart, Index
<1>SearchInit. Init => SearchInv
  <2>1. 0 % BPB = 0
    BY BallocAssumption, <1>ModSmall
  <2> QED BY <2>1, BallocAssumption
    DEF Init, SearchInv, BallocTypeOK, BehindInUse, PanicsOnlyWhenFull, BlockStart, Index
\* What a step may do while no search is under way: free blocks, or start.
<1>IdleKeeps.
      ASSUME SearchInv, pc = "idle",
             balloc \/ (pc' \notin {"search", "panic"} /\ UNCHANGED <<lastballoc, lastbi, b, bi>>)
      PROVE  SearchInv'
  <2> USE <1>IdleKeeps
  <2>1. CASE balloc
    BY <2>1 DEF balloc, SearchInv, BallocTypeOK, BehindInUse, PanicsOnlyWhenFull,
                BlockStart, Index, Behind
  <2>2. CASE pc' \notin {"search", "panic"} /\ UNCHANGED <<lastballoc, lastbi, b, bi>>
    BY <2>2, Zenon DEF SearchInv, BallocTypeOK, BehindInUse, PanicsOnlyWhenFull
  <2> QED BY <2>1, <2>2, Zenon
<1>FoundKeeps.
      ASSUME SearchInv, Found
      PROVE  SearchInv'
  BY <1>FoundKeeps, Zenon DEF Found, SearchInv, BallocTypeOK, BehindInUse, PanicsOnlyWhenFull
\* The next bitmap block, with nothing left behind but what was.
<1>NextBlock.
      ASSUME BallocTypeOK
      PROVE  /\ NextB \in BlockStart
             /\ \A c \in BlockStart :
                  /\ NextB # lastballoc /\ Behind(c, lastballoc, NextB)
                       => c = b \/ Behind(c, lastballoc, b)
                  /\ NextB = lastballoc => c = b \/ Behind(c, lastballoc, b)
  <2> USE <1>NextBlock
  <2>1. BPB \in Nat \ {0} /\ SIZE \in Nat \ {0} /\ BPB % BPB = 0 /\ 0 % BPB = 0
    <3>1. BPB \in Nat \ {0} /\ SIZE \in Nat \ {0}
      BY BallocAssumption, Zenon
    <3>2. BPB % BPB = BPB - BPB
      BY <3>1, <1>ModHigh
    <3> QED BY <3>1, <3>2, <1>ModSmall
  <2>2. b \in Int /\ b % BPB = 0 /\ 0 <= b /\ b < SIZE
    BY <2>1 DEF BallocTypeOK, BlockStart
  <2>3. (b + BPB) % BPB = 0
    BY <2>1, <2>2, <1>ModWraps, Zenon
  <2>4. NextB \in BlockStart
    BY <2>1, <2>2, <2>3 DEF NextB, BlockStart
  <2>5. ASSUME NEW c \in BlockStart
        PROVE  /\ NextB # lastballoc /\ Behind(c, lastballoc, NextB)
                    => c = b \/ Behind(c, lastballoc, b)
               /\ NextB = lastballoc => c = b \/ Behind(c, lastballoc, b)
    <3>1. c \in Int /\ c % BPB = 0 /\ 0 <= c /\ c < SIZE
      BY <2>1 DEF BlockStart
    <3>2. lastballoc \in Int /\ lastballoc % BPB = 0 /\ 0 <= lastballoc /\ lastballoc < SIZE
      BY <2>1 DEF BallocTypeOK, BlockStart
    <3>3. b < c => b + BPB <= c
      BY <2>1, <2>2, <3>1, <1>MultiplesApart, Zenon
    <3>4. b < lastballoc => b + BPB <= lastballoc
      BY <2>1, <2>2, <3>2, <1>MultiplesApart, Zenon
    <3> QED BY <2>1, <2>2, <3>1, <3>2, <3>3, <3>4 DEF NextB, Behind
  <2> QED BY <2>4, <2>5, Zenon
\* The next index, likewise; where it is lastbi the whole bitmap block, as far
\* as it is on the disk, has been looked at.
<1>NextIndex.
      ASSUME BallocTypeOK
      PROVE  /\ NextBi \in Index
             /\ \A i \in Index : b + i < SIZE =>
                  /\ NextBi # lastbi /\ Behind(i, lastbi, NextBi)
                       => i = bi \/ Behind(i, lastbi, bi)
                  /\ NextBi = lastbi => i = bi \/ Behind(i, lastbi, bi)
  BY <1>NextIndex, BallocAssumption DEF BallocTypeOK, BlockStart, Index, NextBi, Behind
<1>TryNextKeeps.
      ASSUME SearchInv, TryNext
      PROVE  SearchInv'
  <2> USE <1>TryNextKeeps
  <2>1. BallocTypeOK /\ BehindInUse /\ pc = "search" /\ b + bi \in used
    BY Zenon DEF SearchInv, TryNext
  <2>2. b \in BlockStart /\ bi \in Index /\ NextB \in BlockStart /\ NextBi \in Index
    BY <2>1, <1>NextBlock, <1>NextIndex, Zenon DEF BallocTypeOK
  <2>3. UNCHANGED <<used, lastballoc, lastbi>>
    BY Zenon DEF TryNext
  <2>4. ASSUME NextBi = lastbi, NEW i \in Index, b + i < SIZE
        PROVE  b + i \in used
    <3>1. i = bi \/ Behind(i, lastbi, bi)
      BY <2>1, <2>4, <1>NextIndex, Zenon
    <3> QED BY <3>1, <2>1, <2>4, Zenon DEF BehindInUse
  <2>5. CASE NextBi # lastbi
    <3>1. bi' = NextBi /\ UNCHANGED <<pc, b>>
      BY <2>5, Zenon DEF TryNext
    <3>2. ASSUME NEW i \in Index, Behind(i, lastbi, bi'), b + i < SIZE
          PROVE  b + i \in used
      <4>1. i = bi \/ Behind(i, lastbi, bi)
        BY <2>1, <2>5, <3>1, <3>2, <1>NextIndex, Zenon
      <4> QED BY <4>1, <2>1, <3>2, Zenon DEF BehindInUse
    <3> QED BY <2>1, <2>2, <2>3, <3>1, <3>2, Zenon
      DEF SearchInv, BallocTypeOK, BehindInUse, PanicsOnlyWhenFull
  <2>6. ASSUME NextBi = lastbi, NEW c \in BlockStart, NEW i \in Index, c + i < SIZE,
               c = b \/ Behind(c, lastballoc, b)
        PROVE  c + i \in used
    BY <2>1, <2>4, <2>6, Zenon DEF BehindInUse
  <2>7. CASE NextBi = lastbi /\ NextB # lastballoc
    <3>1. b' = NextB /\ bi' = lastbi /\ UNCHANGED pc
      BY <2>7, Zenon DEF TryNext
    <3>2. ASSUME NEW c \in BlockStart, NEW i \in Index,
                 Behind(c, lastballoc, b'), c + i < SIZE
          PROVE  c + i \in used
      BY <2>1, <2>6, <2>7, <3>1, <3>2, <1>NextBlock, Zenon
    <3>3. ASSUME NEW i \in Index PROVE ~Behind(i, lastbi, bi')
      BY <3>1, BallocAssumption, <2>1 DEF Behind, Index, BallocTypeOK
    <3> QED BY <2>1, <2>2, <2>3, <3>1, <3>2, <3>3, Zenon
      DEF SearchInv, BallocTypeOK, BehindInUse, PanicsOnlyWhenFull
  <2>8. CASE NextBi = lastbi /\ NextB = lastballoc
    <3>1. pc' = "panic" /\ UNCHANGED <<b, bi>>
      BY <2>8, Zenon DEF TryNext
    <3>2. ASSUME NEW x \in 0 .. SIZE - 1 PROVE x \in used
      <4>1. PICK c \in BlockStart, i \in Index : x = c + i
        BY <1>Located, Zenon
      <4>2. c = b \/ Behind(c, lastballoc, b)
        BY <2>1, <2>8, <1>NextBlock, Zenon
      <4>3. c + i < SIZE
        BY <4>1, BallocAssumption
      <4> QED BY <2>6, <2>8, <4>1, <4>2, <4>3, Zenon
    <3> QED BY <2>1, <2>3, <3>1, <3>2, Zenon
      DEF SearchInv, BallocTypeOK, BehindInUse, PanicsOnlyWhenFull
  <2> QED BY <2>5, <2>7, <2>8, Zenon
<1>SearchSteps. SearchInv /\ [Next]_vars => SearchInv'
  <2> SUFFICES ASSUME SearchInv, [Next]_vars PROVE SearchInv'
    OBVIOUS
  <2>1. CASE balloc
    BY <2>1, <1>IdleKeeps, Zenon DEF balloc
  <2>2. CASE Found
    BY <2>2, <1>FoundKeeps, Zenon
  <2>3. CASE TryNext
    BY <2>3, <1>TryNextKeeps, Zenon
  <2>4. ASSUME NEW n \in Bit \ 0 .. NMETA - 1, bfree(n) PROVE SearchInv'
    BY <2>4, <1>IdleKeeps, Zenon DEF bfree
  <2>5. CASE UNCHANGED vars
    BY <2>5, Zenon DEF vars, SearchInv, BallocTypeOK, BehindInUse, PanicsOnlyWhenFull,
       Behind
  <2> QED BY <2>1, <2>2, <2>3, <2>4, <2>5, Zenon DEF Next
<1>FilesSearch. SearchInv /\ [BmapNext]_fvars => SearchInv'
  <2> SUFFICES ASSUME SearchInv, [BmapNext]_fvars PROVE SearchInv'
    OBVIOUS
  <2>0. ASSUME UNCHANGED vars PROVE SearchInv'
    BY <2>0, Zenon DEF vars, SearchInv, BallocTypeOK, BehindInUse, PanicsOnlyWhenFull,
       Behind
  <2>1. ASSUME NEW f \in File, NEW n \in Counts, sys_write(f, n) \/ sys_read(f, n)
        PROVE  SearchInv'
    BY <2>0, <2>1, Zenon DEF sys_write, sys_read
  <2>2. ASSUME NEW f \in File, NEW o \in 0 .. MAXFILE * BSIZE, sys_lseek(f, o)
        PROVE  SearchInv'
    BY <2>0, <2>2, Zenon DEF sys_lseek
  <2>3. ASSUME NEW ip \in Inode, itrunc(ip) PROVE SearchInv'
    <3>1. pc = "idle" /\ pc' \notin {"search", "panic"}
          /\ UNCHANGED <<lastballoc, lastbi, b, bi>>
      BY <2>3, Zenon DEF itrunc
    <3> QED BY <3>1, <1>IdleKeeps, Zenon
  <2>4. CASE BeginWritei \/ WriteBlock \/ EndWritei \/ ReadBlock \/ ReadReturns
    BY <2>0, <2>4, Zenon DEF BeginWritei, WriteBlock, EndWritei, ReadBlock, ReadReturns
  <2>5. CASE Allocate
    <3>1. pc = "idle" /\ (balloc \/ (pc' \notin {"search", "panic"}
            /\ UNCHANGED <<lastballoc, lastbi, b, bi>>))
      BY <2>5, Zenon DEF Allocate, Transferring
    <3> QED BY <3>1, <1>IdleKeeps, Zenon
  <2>6. CASE Allocated
    BY <2>6, <1>FoundKeeps, Zenon DEF Allocated
  <2>7. CASE Searching
    BY <2>7, <1>TryNextKeeps, Zenon DEF Searching
  <2>8. CASE UNCHANGED fvars
    BY <2>0, <2>8, Zenon DEF fvars
  <2> QED BY <2>1, <2>2, <2>3, <2>4, <2>5, <2>6, <2>7, <2>8, Zenon DEF BmapNext
<1> QED BY <1>SearchInit, <1>SearchSteps, <1>FilesSearch, Zenon

\* balloc() panics only when every block of the disk is in use, for any sizes
\* of disk and bitmap blocks and wherever the last search ended.
THEOREM GivesUpOnlyWhenFull == Spec => []PanicsOnlyWhenFull
<1>1. SearchInv => PanicsOnlyWhenFull
  BY Zenon DEF SearchInv
<1> QED BY SearchKeeps, <1>1, PTL DEF Spec

\* The same when the searches are those of bmap(), with files written, sought
\* and cut in between.
THEOREM FilesGiveUpOnlyWhenFull == BmapSpec => []PanicsOnlyWhenFull
<1>1. BmapInit => SearchInv
  BY SearchKeeps, Zenon DEF BmapInit
<1>2. SearchInv => PanicsOnlyWhenFull
  BY Zenon DEF SearchInv
<1> QED BY <1>1, <1>2, SearchKeeps, PTL DEF BmapSpec

\* The blocks that mkfs uses up stay in use.
MetaInUse == 0 .. NMETA - 1 \subseteq used

\* balloc() never gives out a block that is in use, or one of mkfs's.
THEOREM BlocksAreFresh == Spec => FreshBlockReturned
<1> DEFINE Fresh == pc = "search" /\ pc' = "idle" =>
             ret' \notin used /\ used' = used \cup {ret'} /\ ret' >= NMETA
<1>1. Init => MetaInUse
  BY Zenon DEF Init, MetaInUse
<1>2. MetaInUse /\ [Next]_vars => MetaInUse'
  BY Zenon DEF Next, balloc, Found, TryNext, bfree, vars, MetaInUse
<1>3. SearchInv /\ MetaInUse /\ [Next]_vars => [Fresh]_vars
  <2> SUFFICES ASSUME SearchInv, MetaInUse, [Next]_vars, pc = "search", pc' = "idle"
               PROVE  Fresh
    OBVIOUS
  <2>1. Found
    BY Zenon DEF Next, balloc, TryNext, bfree, vars
  <2>2. b + bi \in Nat /\ NMETA \in Nat
    BY BallocAssumption DEF SearchInv, BallocTypeOK, BlockStart, Index
  <2> QED BY <2>1, <2>2 DEF Found, MetaInUse
<1>4. Spec => []SearchInv
  BY SearchKeeps, PTL DEF Spec
<1> QED BY <1>1, <1>2, <1>3, <1>4, PTL DEF Spec, FreshBlockReturned

-----------------------------------------------------------------------------
Entry == 0 .. NINDIRECT - 1
Meta == 0 .. NMETA - 1

\* Word i of inode x, or of block x.
Word(F, x, i) == F[x][i]

\* The same as Addr(s), Slots(ip) and Addr(bmap(ip, bn)), for any addresses A
\* in inodes and contents B of blocks.
At(A, B, s) == IF s.blk = 0 THEN Word(A, s.ip, s.i) ELSE Word(B, s.blk, s.i)

Place(A, B, ip, s) ==
  \/ \E i \in 0 .. NDIRECT : s = InInode(ip, i)
  \/ /\ Word(A, ip, NDIRECT) # 0
     /\ \/ \E i \in Entry : s = InBlock(Word(A, ip, NDIRECT), i)
        \/ \E j \in Entry : /\ Word(B, Word(A, ip, NDIRECT), j) # 0
                            /\ \E i \in Entry : s = InBlock(Word(B, Word(A, ip, NDIRECT), j), i)

Held(A, B, ip, s) == Place(A, B, ip, s) /\ At(A, B, s) # 0

FileBlock(A, B, ip, bn) ==
  IF bn < NDIRECT THEN Word(A, ip, bn)
  ELSE IF Word(A, ip, NDIRECT) = 0 THEN 0
  ELSE IF Word(B, Word(A, ip, NDIRECT), (bn - NDIRECT) \div NINDIRECT) = 0 THEN 0
  ELSE Word(B, Word(B, Word(A, ip, NDIRECT), (bn - NDIRECT) \div NINDIRECT),
            (bn - NDIRECT) % NINDIRECT)

Typed(A, B) == /\ A \in [Inode -> [0 .. NDIRECT -> Int]]
               /\ B \in [Bit -> [0 .. BSIZE - 1 -> Int]]

\* Every block in use is one of mkfs's or has one place that leads to it.
Owned(A, B, U) ==
  /\ \A ip \in Inode : \A s : Held(A, B, ip, s) => At(A, B, s) \in U \ Meta
  /\ \A ip, jp \in Inode : \A s, t :
       Held(A, B, ip, s) /\ Held(A, B, jp, t) /\ At(A, B, s) = At(A, B, t) => s = t
  /\ \A n \in U \ Meta : \E ip \in Inode : \E s : Held(A, B, ip, s) /\ At(A, B, s) = n

LEMMA PlacesDiffer ==
  /\ \A ip, jp, i, j : InInode(ip, i) = InInode(jp, j) <=> ip = jp /\ i = j
  /\ \A m, n, i, j : InBlock(m, i) = InBlock(n, j) <=> m = n /\ i = j
  /\ \A ip, i, n, j : InInode(ip, i) = InBlock(n, j) => n = 0
BY Zenon DEF InInode, InBlock

LEMMA BlockPlaces ==
  ASSUME NEW m, NEW n, NEW i, NEW j, InBlock(m, i) = InBlock(n, j)
  PROVE  m = n /\ i = j
BY PlacesDiffer

LEMMA AtInode ==
  ASSUME NEW A, NEW B, NEW ip, NEW i
  PROVE  At(A, B, InInode(ip, i)) = Word(A, ip, i)
BY Zenon DEF InInode, At

LEMMA AtBlock ==
  ASSUME NEW A, NEW B, NEW n, n # 0, NEW i
  PROVE  At(A, B, InBlock(n, i)) = Word(B, n, i)
BY Zenon DEF InBlock, At

\* The indirect blocks of a file are in use.
LEMMA Indirect ==
  ASSUME NEW A, NEW B, NEW U, Owned(A, B, U), NEW ip \in Inode, Word(A, ip, NDIRECT) # 0
  PROVE  /\ Held(A, B, ip, InInode(ip, NDIRECT)) /\ Word(A, ip, NDIRECT) \in U \ Meta
         /\ \A j \in Entry : Word(B, Word(A, ip, NDIRECT), j) # 0 =>
              /\ Held(A, B, ip, InBlock(Word(A, ip, NDIRECT), j))
              /\ Word(B, Word(A, ip, NDIRECT), j) \in U \ Meta
<1>1. NDIRECT \in 0 .. NDIRECT
  BY BmapAssumption
<1>2. Held(A, B, ip, InInode(ip, NDIRECT)) /\ Word(A, ip, NDIRECT) \in U \ Meta
  <2>1. At(A, B, InInode(ip, NDIRECT)) = Word(A, ip, NDIRECT)
    BY AtInode
  <2>2. Held(A, B, ip, InInode(ip, NDIRECT))
    BY <1>1, <2>1, Zenon DEF Held, Place
  <2> QED BY <2>1, <2>2, Zenon DEF Owned
<1>3. ASSUME NEW j \in Entry, Word(B, Word(A, ip, NDIRECT), j) # 0
      PROVE  /\ Held(A, B, ip, InBlock(Word(A, ip, NDIRECT), j))
             /\ Word(B, Word(A, ip, NDIRECT), j) \in U \ Meta
  <2>1. At(A, B, InBlock(Word(A, ip, NDIRECT), j)) = Word(B, Word(A, ip, NDIRECT), j)
    BY AtBlock
  <2>2. Held(A, B, ip, InBlock(Word(A, ip, NDIRECT), j))
    BY <1>3, <2>1, Zenon DEF Held, Place
  <2> QED BY <2>1, <2>2 DEF Owned
<1> QED BY <1>2, <1>3, Zenon

\* A place of a file is in its inode or in a block in use.
LEMMA PlaceKinds ==
  ASSUME NEW A, NEW B, NEW U, Owned(A, B, U), NEW ip \in Inode,
         NEW s, Place(A, B, ip, s)
  PROVE  \/ \E i \in 0 .. NDIRECT : s = InInode(ip, i)
         \/ \E n \in U \ Meta, i \in Entry : s = InBlock(n, i)
BY Indirect, Zenon DEF Place

\* bmap() stores the address r of a block it cleared at the place p.
Stored(A, B, A2, B2, p, r) ==
  /\ \A ip \in Inode, i \in 0 .. NDIRECT :
       Word(A2, ip, i) = IF InInode(ip, i) = p THEN r ELSE Word(A, ip, i)
  /\ \A n \in Bit \ Meta, i \in Entry :
       Word(B2, n, i) = IF InBlock(n, i) = p THEN r ELSE IF n = r THEN 0 ELSE Word(B, n, i)
  /\ \A n \in Bit : n # p.blk /\ n # r => B2[n] = B[n]

\* Then p is the only new place that holds an address.
LEMMA StoredPlaces ==
  ASSUME NEW A, NEW B, NEW U \in SUBSET Bit, Owned(A, B, U),
         NEW jp \in Inode, NEW p, Place(A, B, jp, p), At(A, B, p) = 0,
         NEW r \in Bit \ Meta, r \notin U, r # 0,
         NEW A2, NEW B2, Stored(A, B, A2, B2, p, r)
  PROVE  /\ Held(A2, B2, jp, p) /\ At(A2, B2, p) = r
         /\ \A ip \in Inode : \A s :
              /\ Held(A, B, ip, s) => Held(A2, B2, ip, s) /\ At(A2, B2, s) = At(A, B, s)
              /\ Held(A2, B2, ip, s) => s = p \/ Held(A, B, ip, s)
<1>0. NDIRECT \in 0 .. NDIRECT /\ 0 \in Meta
  BY BmapAssumption, BallocAssumption, FileSystemAssumption DEF Meta
<1>1. ASSUME NEW ip \in Inode, NEW s, Place(A, B, ip, s)
      PROVE  At(A2, B2, s) = IF s = p THEN r ELSE At(A, B, s)
  <2>1. ASSUME NEW i \in 0 .. NDIRECT, s = InInode(ip, i)
        PROVE  At(A2, B2, s) = IF s = p THEN r ELSE At(A, B, s)
    BY <2>1, AtInode DEF Stored
  <2>2. ASSUME NEW n \in U \ Meta, NEW i \in Entry, s = InBlock(n, i)
        PROVE  At(A2, B2, s) = IF s = p THEN r ELSE At(A, B, s)
    <3>1. n \in Bit \ Meta /\ n # r /\ n # 0
      BY <1>0, Zenon
    <3>2. At(A2, B2, s) = Word(B2, n, i) /\ At(A, B, s) = Word(B, n, i)
      BY <2>2, <3>1, AtBlock
    <3> QED BY <2>2, <3>1, <3>2, Zenon DEF Stored
  <2>3. \/ \E i \in 0 .. NDIRECT : s = InInode(ip, i)
        \/ \E n \in U \ Meta, i \in Entry : s = InBlock(n, i)
    BY <1>1, PlaceKinds
  <2> QED BY <2>1, <2>2, <2>3, Zenon
<1>2. \A i \in Entry : Word(B2, r, i) = 0
  <2>1. \A i : InBlock(r, i) # p
    <3>1. \/ \E i \in 0 .. NDIRECT : p = InInode(jp, i)
          \/ \E n \in U \ Meta, i \in Entry : p = InBlock(n, i)
      BY PlaceKinds
    <3> QED BY <3>1, PlacesDiffer
  <2> QED BY <2>1, Zenon DEF Stored
<1>3. ASSUME NEW ip \in Inode, Word(A, ip, NDIRECT) # 0
      PROVE  /\ Word(A2, ip, NDIRECT) = Word(A, ip, NDIRECT)
             /\ \A j \in Entry : Word(B, Word(A, ip, NDIRECT), j) # 0 =>
                  Word(B2, Word(A, ip, NDIRECT), j) = Word(B, Word(A, ip, NDIRECT), j)
  <2>1. Held(A, B, ip, InInode(ip, NDIRECT)) /\ Word(A, ip, NDIRECT) # 0
    BY <1>3, Indirect, Zenon
  <2>2. Word(A2, ip, NDIRECT) = Word(A, ip, NDIRECT)
    BY <1>1, <2>1, AtInode DEF Held
  <2>3. ASSUME NEW j \in Entry, Word(B, Word(A, ip, NDIRECT), j) # 0
        PROVE  Word(B2, Word(A, ip, NDIRECT), j) = Word(B, Word(A, ip, NDIRECT), j)
    <3>1. Held(A, B, ip, InBlock(Word(A, ip, NDIRECT), j))
      BY <1>3, <2>3, Indirect, Zenon
    <3> QED BY <1>1, <2>1, <3>1, AtBlock DEF Held
  <2> QED BY <2>2, <2>3, Zenon
<1>4. ASSUME NEW ip \in Inode, NEW s, Place(A, B, ip, s)
      PROVE  Place(A2, B2, ip, s)
  <2>1. CASE \E i \in 0 .. NDIRECT : s = InInode(ip, i)
    BY <2>1, Zenon DEF Place
  <2>2. CASE Word(A, ip, NDIRECT) # 0 /\ \E i \in Entry : s = InBlock(Word(A, ip, NDIRECT), i)
    BY <1>3, <2>2, Zenon DEF Place
  <2>3. ASSUME Word(A, ip, NDIRECT) # 0, NEW j \in Entry, Word(B, Word(A, ip, NDIRECT), j) # 0,
               NEW i \in Entry, s = InBlock(Word(B, Word(A, ip, NDIRECT), j), i)
        PROVE  Place(A2, B2, ip, s)
    <3>1. /\ Word(A2, ip, NDIRECT) = Word(A, ip, NDIRECT)
          /\ Word(B2, Word(A2, ip, NDIRECT), j) = Word(B, Word(A, ip, NDIRECT), j)
      BY <1>3, <2>3, Zenon
    <3>2. /\ Word(A2, ip, NDIRECT) # 0 /\ Word(B2, Word(A2, ip, NDIRECT), j) # 0
          /\ s = InBlock(Word(B2, Word(A2, ip, NDIRECT), j), i)
      BY <2>3, <3>1, Zenon
    <3> QED BY <3>2, Zenon DEF Place
  <2> QED BY <1>4, <2>1, <2>2, <2>3, Zenon DEF Place
<1>5. ASSUME NEW ip \in Inode, NEW s, Held(A2, B2, ip, s)
      PROVE  s = p \/ Held(A, B, ip, s)
  <2>0. At(A2, B2, s) # 0
    BY <1>5, Zenon DEF Held
  <2>1. ASSUME Place(A, B, ip, s)
        PROVE  s = p \/ Held(A, B, ip, s)
    BY <1>1, <2>0, <2>1, Zenon DEF Held
  <2>2. ASSUME NEW i \in Entry PROVE s # InBlock(r, i)
    BY <1>2, <2>0, AtBlock
  <2>3. Word(A2, ip, NDIRECT) = r \/ Word(A2, ip, NDIRECT) = Word(A, ip, NDIRECT)
    BY <1>0, Zenon DEF Stored
  <2>4. CASE \E i \in 0 .. NDIRECT : s = InInode(ip, i)
    BY <2>1, <2>4, Zenon DEF Place
  <2>5. CASE Word(A2, ip, NDIRECT) # 0 /\ \E i \in Entry : s = InBlock(Word(A2, ip, NDIRECT), i)
    BY <2>1, <2>2, <2>3, <2>5, Zenon DEF Place
  <2>6. ASSUME Word(A2, ip, NDIRECT) # 0, NEW j \in Entry, Word(B2, Word(A2, ip, NDIRECT), j) # 0,
               NEW i \in Entry, s = InBlock(Word(B2, Word(A2, ip, NDIRECT), j), i)
        PROVE  s = p \/ Held(A, B, ip, s)
    <3>1. Word(A2, ip, NDIRECT) = Word(A, ip, NDIRECT)
      BY <1>2, <2>3, <2>6, Zenon
    <3>2. Word(A, ip, NDIRECT) \in Bit \ Meta /\ Word(A, ip, NDIRECT) # r
      BY <2>6, <3>1, Indirect, Zenon
    <3>3. \/ Word(B2, Word(A, ip, NDIRECT), j) = r
          \/ Word(B2, Word(A, ip, NDIRECT), j) = Word(B, Word(A, ip, NDIRECT), j)
      BY <3>2, Zenon DEF Stored
    <3> QED BY <2>1, <2>2, <2>6, <3>1, <3>3, Zenon DEF Place
  <2> QED BY <1>5, <2>4, <2>5, <2>6, Zenon DEF Held, Place
<1>6. Held(A2, B2, jp, p) /\ At(A2, B2, p) = r
  BY <1>1, <1>4, Zenon DEF Held
<1>7. ASSUME NEW ip \in Inode, NEW s, Held(A, B, ip, s)
      PROVE  Held(A2, B2, ip, s) /\ At(A2, B2, s) = At(A, B, s)
  BY <1>1, <1>4, <1>7, Zenon DEF Held
<1> QED BY <1>5, <1>6, <1>7, Zenon

LEMMA StoredOwned ==
  ASSUME NEW A, NEW B, NEW U \in SUBSET Bit, Owned(A, B, U),
         NEW jp \in Inode, NEW p, Place(A, B, jp, p), At(A, B, p) = 0,
         NEW r \in Bit \ Meta, r \notin U, r # 0,
         NEW A2, NEW B2, Stored(A, B, A2, B2, p, r)
  PROVE  Owned(A2, B2, U \cup {r})
<1>1. /\ Held(A2, B2, jp, p) /\ At(A2, B2, p) = r
      /\ \A ip \in Inode : \A s :
           /\ Held(A, B, ip, s) => Held(A2, B2, ip, s) /\ At(A2, B2, s) = At(A, B, s)
           /\ Held(A2, B2, ip, s) => s = p \/ Held(A, B, ip, s)
  BY StoredPlaces
<1>2. \A ip \in Inode : \A s : Held(A, B, ip, s) => At(A, B, s) \in U \ Meta
  BY Zenon DEF Owned
<1>3. \A ip \in Inode : \A s : Held(A2, B2, ip, s) => At(A2, B2, s) \in (U \cup {r}) \ Meta
  BY <1>1, <1>2, Zenon
<1>4. ASSUME NEW ip \in Inode, NEW kp \in Inode, NEW s, NEW t,
             Held(A2, B2, ip, s), Held(A2, B2, kp, t), At(A2, B2, s) = At(A2, B2, t)
      PROVE  s = t
  <2>1. \A kq \in Inode : \A q : Held(A, B, kq, q) => At(A2, B2, q) # r
    BY <1>1, <1>2, Zenon
  <2>2. CASE s = p \/ t = p
    BY <1>1, <1>4, <2>1, <2>2, Zenon
  <2>3. CASE Held(A, B, ip, s) /\ Held(A, B, kp, t)
    BY <1>1, <1>4, <2>3, Zenon DEF Owned
  <2> QED BY <1>1, <1>4, <2>2, <2>3, Zenon
<1>5. ASSUME NEW n \in (U \cup {r}) \ Meta
      PROVE  \E ip \in Inode : \E s : Held(A2, B2, ip, s) /\ At(A2, B2, s) = n
  <2>1. CASE n = r
    BY <1>1, <2>1, Zenon
  <2>2. CASE n \in U \ Meta
    <3>1. PICK ip \in Inode : \E s : Held(A, B, ip, s) /\ At(A, B, s) = n
      BY <2>2, Zenon DEF Owned
    <3> QED BY <1>1, <3>1, Zenon
  <2> QED BY <2>1, <2>2, Zenon
<1> QED BY <1>3, <1>4, <1>5, Zenon DEF Owned

-----------------------------------------------------------------------------
\* The place of block bn past the direct ones in the indirect blocks.
LEMMA IndirectIndex ==
  ASSUME NEW bn \in NDIRECT .. MAXFILE - 1
  PROVE  /\ (bn - NDIRECT) \div NINDIRECT \in Entry
         /\ (bn - NDIRECT) % NINDIRECT \in Entry
         /\ bn = NDIRECT + NINDIRECT * ((bn - NDIRECT) \div NINDIRECT)
                   + ((bn - NDIRECT) % NINDIRECT)
<1>1. NDIRECT \in Nat /\ NINDIRECT \in Nat \ {0} /\ NINDIRECT * NINDIRECT \in Nat
  BY BmapAssumption
<1>2. PICK x \in Int : x = bn - NDIRECT
  BY <1>1 DEF MAXFILE
<1>3. 0 <= x /\ x < NINDIRECT * NINDIRECT /\ bn = NDIRECT + x
  BY <1>1, <1>2 DEF MAXFILE
<1>4. x \div NINDIRECT \in Int /\ x % NINDIRECT \in 0 .. NINDIRECT - 1
      /\ x = NINDIRECT * (x \div NINDIRECT) + (x % NINDIRECT)
  BY <1>1, DivMod, Zenon
<1>5. PICK q \in Int : q = x \div NINDIRECT
  BY <1>4, Zenon
<1>6. NINDIRECT * q \in Int
  BY <1>1
<1>7. q >= 0
  <2>1. q < 0 => NINDIRECT * q + NINDIRECT <= NINDIRECT * 0
    BY <1>1, Apart
  <2>2. NINDIRECT * 0 = 0
    BY <1>1
  <2> QED BY <2>1, <2>2, <1>1, <1>3, <1>4, <1>5, <1>6
<1>8. q < NINDIRECT
  <2>1. NINDIRECT < q => NINDIRECT * NINDIRECT + NINDIRECT <= NINDIRECT * q
    BY <1>1, Apart
  <2> QED BY <2>1, <1>1, <1>3, <1>4, <1>5, <1>6
<1> QED BY <1>1, <1>2, <1>3, <1>4, <1>5, <1>6, <1>7, <1>8 DEF Entry

\* The address at index k of the indirect block at index q.
Leaf(A, B, ip, q, k) ==
  IF Word(A, ip, NDIRECT) = 0 THEN 0
  ELSE IF Word(B, Word(A, ip, NDIRECT), q) = 0 THEN 0
  ELSE Word(B, Word(B, Word(A, ip, NDIRECT), q), k)

LEMMA FileBlockCases ==
  ASSUME NEW bn \in 0 .. MAXFILE - 1
  PROVE  \/ /\ bn \in 0 .. NDIRECT /\ bn # NDIRECT
            /\ \A A, B, ip : FileBlock(A, B, ip, bn) = Word(A, ip, bn)
         \/ \E q, k \in Entry :
              /\ bn = NDIRECT + NINDIRECT * q + k
              /\ \A A, B, ip : FileBlock(A, B, ip, bn) = Leaf(A, B, ip, q, k)
<1>1. NDIRECT \in Nat /\ bn \in Nat
  BY BmapAssumption DEF MAXFILE
<1>2. CASE bn < NDIRECT
  <2>1. bn \in 0 .. NDIRECT /\ bn # NDIRECT
    BY <1>1, <1>2
  <2> QED BY <1>2, <2>1, Zenon DEF FileBlock
<1>3. CASE ~(bn < NDIRECT)
  <2> DEFINE q == (bn - NDIRECT) \div NINDIRECT
             k == (bn - NDIRECT) % NINDIRECT
  <2>1. bn \in NDIRECT .. MAXFILE - 1
    BY <1>1, <1>3
  <2>2. q \in Entry /\ k \in Entry /\ bn = NDIRECT + NINDIRECT * q + k
    BY <2>1, IndirectIndex, Zenon
  <2>3. \A A, B, ip : FileBlock(A, B, ip, bn) = Leaf(A, B, ip, q, k)
    BY <1>3, Zenon DEF FileBlock, Leaf
  <2> HIDE DEF q, k
  <2> QED BY <2>2, <2>3, Zenon
<1> QED BY <1>2, <1>3, Zenon

\* A block of a file's data has a place that holds its address, which is no
\* place of an indirect block.
LEMMA LeafPlace ==
  ASSUME NEW A, NEW B, NEW U, Owned(A, B, U), NEW ip \in Inode,
         NEW q \in Entry, NEW k \in Entry, Leaf(A, B, ip, q, k) # 0
  PROVE  /\ Word(A, ip, NDIRECT) # 0 /\ Word(B, Word(A, ip, NDIRECT), q) # 0
         /\ Held(A, B, ip, InBlock(Word(B, Word(A, ip, NDIRECT), q), k))
         /\ At(A, B, InBlock(Word(B, Word(A, ip, NDIRECT), q), k)) = Leaf(A, B, ip, q, k)
<1>1. /\ Word(A, ip, NDIRECT) # 0 /\ Word(B, Word(A, ip, NDIRECT), q) # 0
      /\ Leaf(A, B, ip, q, k) = Word(B, Word(B, Word(A, ip, NDIRECT), q), k)
  BY Zenon DEF Leaf
<1>2. At(A, B, InBlock(Word(B, Word(A, ip, NDIRECT), q), k)) = Leaf(A, B, ip, q, k)
  BY <1>1, AtBlock
<1>3. Held(A, B, ip, InBlock(Word(B, Word(A, ip, NDIRECT), q), k))
  BY <1>1, <1>2, Zenon DEF Held, Place
<1> QED BY <1>1, <1>2, <1>3, Zenon

LEMMA DirectPlace ==
  ASSUME NEW A, NEW B, NEW ip \in Inode, NEW i \in 0 .. NDIRECT, Word(A, ip, i) # 0
  PROVE  Held(A, B, ip, InInode(ip, i)) /\ At(A, B, InInode(ip, i)) = Word(A, ip, i)
BY AtInode DEF Held, Place

LEMMA DataInUse ==
  ASSUME NEW A, NEW B, NEW U, Owned(A, B, U), NEW ip \in Inode,
         NEW bn \in 0 .. MAXFILE - 1, FileBlock(A, B, ip, bn) # 0
  PROVE  FileBlock(A, B, ip, bn) \in U \ Meta
<1>1. CASE /\ bn \in 0 .. NDIRECT
           /\ \A C, D, jp : FileBlock(C, D, jp, bn) = Word(C, jp, bn)
  <2>1. FileBlock(A, B, ip, bn) = Word(A, ip, bn)
    BY <1>1, Zenon
  <2>2. Held(A, B, ip, InInode(ip, bn)) /\ At(A, B, InInode(ip, bn)) = Word(A, ip, bn)
    BY <1>1, <2>1, DirectPlace
  <2> QED BY <2>1, <2>2 DEF Owned
<1>2. ASSUME NEW q \in Entry, NEW k \in Entry,
             \A C, D, jp : FileBlock(C, D, jp, bn) = Leaf(C, D, jp, q, k)
      PROVE  FileBlock(A, B, ip, bn) \in U \ Meta
  <2>1. FileBlock(A, B, ip, bn) = Leaf(A, B, ip, q, k)
    BY <1>2, Zenon
  <2>2. \E s : Held(A, B, ip, s) /\ At(A, B, s) = Leaf(A, B, ip, q, k)
    BY <2>1, LeafPlace, Zenon
  <2> QED BY <2>1, <2>2 DEF Owned
<1> QED BY <1>1, <1>2, FileBlockCases, Zenon

\* n is no indirect block of any file.
NotIndirect(A, B, n) ==
  \A ip \in Inode : Word(A, ip, NDIRECT) # 0 =>
    /\ Word(A, ip, NDIRECT) # n
    /\ \A j \in Entry : Word(B, Word(A, ip, NDIRECT), j) # 0 =>
         Word(B, Word(A, ip, NDIRECT), j) # n

\* A block of data is none.
LEMMA DataNotIndirect ==
  ASSUME NEW A, NEW B, NEW U \in SUBSET Bit, Owned(A, B, U), 0 \in Meta,
         NEW jp \in Inode, NEW bm \in 0 .. MAXFILE - 1,
         NEW n, n = FileBlock(A, B, jp, bm), n # 0
  PROVE  NotIndirect(A, B, n)
<1> SUFFICES ASSUME NEW ip \in Inode, Word(A, ip, NDIRECT) # 0
             PROVE  /\ Word(A, ip, NDIRECT) # n
                    /\ \A j \in Entry : Word(B, Word(A, ip, NDIRECT), j) # 0 =>
                         Word(B, Word(A, ip, NDIRECT), j) # n
  BY Zenon DEF NotIndirect
<1>0. \A kp, lp \in Inode : \A s, t :
        Held(A, B, kp, s) /\ Held(A, B, lp, t) /\ At(A, B, s) = At(A, B, t) => s = t
  BY Zenon DEF Owned
<1>1. PICK t : t = Word(A, ip, NDIRECT)
  OBVIOUS
<1>2. /\ t # 0 /\ t \in Bit
      /\ Held(A, B, ip, InInode(ip, NDIRECT)) /\ At(A, B, InInode(ip, NDIRECT)) = t
  BY <1>1, Indirect, AtInode
<1>3. ASSUME NEW j \in Entry, Word(B, t, j) # 0
      PROVE  /\ Word(B, t, j) \in Bit
             /\ Held(A, B, ip, InBlock(t, j)) /\ At(A, B, InBlock(t, j)) = Word(B, t, j)
  BY <1>1, <1>3, Indirect, AtBlock
\* The place of n.
<1>4. \E s : /\ Held(A, B, jp, s) /\ At(A, B, s) = n
             /\ s # InInode(ip, NDIRECT)
             /\ \A j \in Entry : Word(B, t, j) # 0 => s # InBlock(t, j)
  <2>1. ASSUME bm \in 0 .. NDIRECT, bm # NDIRECT, n = Word(A, jp, bm)
        PROVE  \E s : /\ Held(A, B, jp, s) /\ At(A, B, s) = n
                      /\ s # InInode(ip, NDIRECT)
                      /\ \A j \in Entry : Word(B, t, j) # 0 => s # InBlock(t, j)
    <3>1. Held(A, B, jp, InInode(jp, bm)) /\ At(A, B, InInode(jp, bm)) = n
      BY <2>1, DirectPlace
    <3>2. InInode(jp, bm) # InInode(ip, NDIRECT) /\ \A j : InInode(jp, bm) # InBlock(t, j)
      BY <1>2, <2>1, PlacesDiffer
    <3> QED BY <3>1, <3>2, Zenon
  <2>2. ASSUME NEW q \in Entry, NEW k \in Entry, n = Leaf(A, B, jp, q, k)
        PROVE  \E s : /\ Held(A, B, jp, s) /\ At(A, B, s) = n
                      /\ s # InInode(ip, NDIRECT)
                      /\ \A j \in Entry : Word(B, t, j) # 0 => s # InBlock(t, j)
    <3>1. PICK d, u : d = Word(B, Word(A, jp, NDIRECT), q) /\ u = Word(A, jp, NDIRECT)
      BY Zenon
    <3>2. /\ u # 0 /\ d # 0 /\ Held(A, B, jp, InBlock(d, k)) /\ At(A, B, InBlock(d, k)) = n
      BY <2>2, <3>1, LeafPlace
    <3>3. Held(A, B, jp, InBlock(u, q)) /\ At(A, B, InBlock(u, q)) = d
      BY <3>1, <3>2, Indirect, AtBlock
    <3>4. d # t
      <4>1. InInode(ip, NDIRECT) # InBlock(u, q)
        BY <3>2, PlacesDiffer
      <4> QED BY <1>0, <1>2, <3>3, <4>1, Zenon
    <3>5. InBlock(d, k) # InInode(ip, NDIRECT) /\ \A j : InBlock(d, k) # InBlock(t, j)
      BY <3>2, <3>4, PlacesDiffer
    <3> QED BY <3>2, <3>5, Zenon
  <2> QED BY <2>1, <2>2, FileBlockCases, Zenon
<1>5. PICK s : /\ Held(A, B, jp, s) /\ At(A, B, s) = n
               /\ s # InInode(ip, NDIRECT)
               /\ \A j \in Entry : Word(B, t, j) # 0 => s # InBlock(t, j)
  BY <1>4, Zenon
<1>6. t # n
  BY <1>0, <1>2, <1>5, Zenon
<1>7. ASSUME NEW j \in Entry, Word(B, t, j) # 0 PROVE Word(B, t, j) # n
  BY <1>0, <1>3, <1>5, <1>7, Zenon
<1> QED BY <1>1, <1>6, <1>7, Zenon

\* What is written into a block n of data moves no block.
Overwritten(B, B2, n) == \A m \in Bit : m # n => B2[m] = B[m]

IndirectKept(A, B, B2) ==
  \A ip \in Inode : Word(A, ip, NDIRECT) # 0 =>
    /\ B2[Word(A, ip, NDIRECT)] = B[Word(A, ip, NDIRECT)]
    /\ \A j \in Entry : Word(B, Word(A, ip, NDIRECT), j) # 0 =>
         B2[Word(B, Word(A, ip, NDIRECT), j)] = B[Word(B, Word(A, ip, NDIRECT), j)]

LEMMA WrittenPlaces ==
  ASSUME NEW A, NEW B, NEW U \in SUBSET Bit, Owned(A, B, U), 0 \in Meta,
         NEW jp \in Inode, NEW bm \in 0 .. MAXFILE - 1,
         NEW n, n = FileBlock(A, B, jp, bm), n # 0,
         NEW B2, Overwritten(B, B2, n)
  PROVE  IndirectKept(A, B, B2)
<1>1. NotIndirect(A, B, n)
  BY DataNotIndirect, Zenon
<1>2. ASSUME NEW ip \in Inode, Word(A, ip, NDIRECT) # 0
      PROVE  /\ Word(A, ip, NDIRECT) \in Bit
             /\ \A j \in Entry : Word(B, Word(A, ip, NDIRECT), j) # 0 =>
                  Word(B, Word(A, ip, NDIRECT), j) \in Bit
  BY <1>2, Indirect, Zenon
<1> QED BY <1>1, <1>2, Zenon DEF NotIndirect, Overwritten, IndirectKept

LEMMA WrittenOwned ==
  ASSUME NEW A, NEW B, NEW U \in SUBSET Bit, Owned(A, B, U), 0 \in Meta,
         NEW jp \in Inode, NEW bm \in 0 .. MAXFILE - 1,
         NEW n, n = FileBlock(A, B, jp, bm), n # 0,
         NEW B2, Overwritten(B, B2, n)
  PROVE  /\ Owned(A, B2, U)
         /\ \A ip \in Inode, bn \in 0 .. MAXFILE - 1 :
              FileBlock(A, B2, ip, bn) = FileBlock(A, B, ip, bn)
<1>1. ASSUME NEW ip \in Inode, Word(A, ip, NDIRECT) # 0
      PROVE  /\ B2[Word(A, ip, NDIRECT)] = B[Word(A, ip, NDIRECT)]
             /\ \A j \in Entry : Word(B, Word(A, ip, NDIRECT), j) # 0 =>
                  B2[Word(B, Word(A, ip, NDIRECT), j)] = B[Word(B, Word(A, ip, NDIRECT), j)]
  <2>1. IndirectKept(A, B, B2)
    BY WrittenPlaces, Zenon
  <2> QED BY <1>1, <2>1, Zenon DEF IndirectKept
<1>2. ASSUME NEW ip \in Inode, NEW s
      PROVE  /\ Place(A, B2, ip, s) <=> Place(A, B, ip, s)
             /\ Place(A, B, ip, s) => At(A, B2, s) = At(A, B, s)
  <2>1. Place(A, B2, ip, s) <=> Place(A, B, ip, s)
    <3>1. CASE Word(A, ip, NDIRECT) = 0
      BY <3>1, Zenon DEF Place
    <3>2. CASE Word(A, ip, NDIRECT) # 0
      BY <1>1, <3>2 DEF Place, Word
    <3> QED BY <3>1, <3>2, Zenon
  <2>2. ASSUME NEW i \in 0 .. NDIRECT, s = InInode(ip, i)
        PROVE  At(A, B2, s) = At(A, B, s)
    BY <2>2, AtInode, Zenon
  <2>3. ASSUME NEW i \in Entry, Word(A, ip, NDIRECT) # 0, s = InBlock(Word(A, ip, NDIRECT), i)
        PROVE  At(A, B2, s) = At(A, B, s)
    <3>1. Word(B2, Word(A, ip, NDIRECT), i) = Word(B, Word(A, ip, NDIRECT), i)
      BY <1>1, <2>3, Zenon DEF Word
    <3> QED BY <2>3, <3>1, AtBlock
  <2>4. ASSUME NEW j \in Entry, NEW i \in Entry, Word(A, ip, NDIRECT) # 0,
               Word(B, Word(A, ip, NDIRECT), j) # 0, s = InBlock(Word(B, Word(A, ip, NDIRECT), j), i)
        PROVE  At(A, B2, s) = At(A, B, s)
    BY <1>1, <2>4, AtBlock DEF Word
  <2> QED BY <2>1, <2>2, <2>3, <2>4, Zenon DEF Place
<1>3. \A ip \in Inode : \A s : /\ Held(A, B2, ip, s) <=> Held(A, B, ip, s)
                               /\ Held(A, B, ip, s) => At(A, B2, s) = At(A, B, s)
  BY <1>2, Zenon DEF Held
<1>4. Owned(A, B2, U)
  <2>1. /\ \A ip \in Inode : \A s : Held(A, B, ip, s) => At(A, B, s) \in U \ Meta
        /\ \A ip, kp \in Inode : \A s, t :
             Held(A, B, ip, s) /\ Held(A, B, kp, t) /\ At(A, B, s) = At(A, B, t) => s = t
        /\ \A m \in U \ Meta : \E ip \in Inode : \E s : Held(A, B, ip, s) /\ At(A, B, s) = m
    BY Zenon DEF Owned
  <2> QED BY <1>3, <2>1 DEF Owned
<1>5. ASSUME NEW ip \in Inode, NEW bn \in 0 .. MAXFILE - 1
      PROVE  FileBlock(A, B2, ip, bn) = FileBlock(A, B, ip, bn)
  <2>1. ASSUME NEW q \in Entry, NEW k \in Entry
        PROVE  Leaf(A, B2, ip, q, k) = Leaf(A, B, ip, q, k)
    BY <1>1, Zenon DEF Leaf, Word
  <2> QED BY <2>1, FileBlockCases
<1> QED BY <1>4, <1>5, Zenon

\* The blocks of data a file had keep their places and what they hold.
LEMMA StoredBlocks ==
  ASSUME NEW A, NEW B, NEW U \in SUBSET Bit, Owned(A, B, U), 0 \in Meta,
         NEW jp \in Inode, NEW p, Place(A, B, jp, p), At(A, B, p) = 0,
         NEW r \in Bit \ Meta, r \notin U, r # 0,
         NEW A2, NEW B2, Stored(A, B, A2, B2, p, r),
         NEW ip \in Inode, NEW bn \in 0 .. MAXFILE - 1, FileBlock(A, B, ip, bn) # 0
  PROVE  /\ FileBlock(A2, B2, ip, bn) = FileBlock(A, B, ip, bn)
         /\ B2[FileBlock(A, B, ip, bn)] = B[FileBlock(A, B, ip, bn)]
<1>0. \A s : Held(A, B, ip, s) => Held(A2, B2, ip, s) /\ At(A2, B2, s) = At(A, B, s)
  BY StoredPlaces
<1>1. FileBlock(A2, B2, ip, bn) = FileBlock(A, B, ip, bn)
  <2>1. ASSUME bn \in 0 .. NDIRECT, FileBlock(A, B, ip, bn) = Word(A, ip, bn),
               FileBlock(A2, B2, ip, bn) = Word(A2, ip, bn)
        PROVE  FileBlock(A2, B2, ip, bn) = FileBlock(A, B, ip, bn)
    BY <1>0, <2>1, DirectPlace, AtInode
  <2>2. ASSUME NEW q \in Entry, NEW k \in Entry,
               FileBlock(A, B, ip, bn) = Leaf(A, B, ip, q, k),
               FileBlock(A2, B2, ip, bn) = Leaf(A2, B2, ip, q, k)
        PROVE  FileBlock(A2, B2, ip, bn) = FileBlock(A, B, ip, bn)
    <3>1. PICK t, d : t = Word(A, ip, NDIRECT) /\ d = Word(B, Word(A, ip, NDIRECT), q)
      BY Zenon
    <3>2. /\ t # 0 /\ d # 0 /\ Held(A, B, ip, InBlock(d, k))
          /\ At(A, B, InBlock(d, k)) = Leaf(A, B, ip, q, k)
      BY <2>2, <3>1, LeafPlace
    <3>3. /\ Held(A, B, ip, InInode(ip, NDIRECT)) /\ At(A, B, InInode(ip, NDIRECT)) = t
          /\ Held(A, B, ip, InBlock(t, q)) /\ At(A, B, InBlock(t, q)) = d
      BY <3>1, <3>2, Indirect, AtInode, AtBlock
    <3>4. Word(A2, ip, NDIRECT) = t
      <4>1. At(A2, B2, InInode(ip, NDIRECT)) = t
        BY <1>0, <3>3, Zenon
      <4> QED BY <4>1, AtInode
    <3>5. Word(B2, t, q) = d
      <4>1. At(A2, B2, InBlock(t, q)) = d
        BY <1>0, <3>3, Zenon
      <4> QED BY <3>2, <4>1, AtBlock
    <3>6. Word(B2, d, k) = Leaf(A, B, ip, q, k)
      <4>1. At(A2, B2, InBlock(d, k)) = Leaf(A, B, ip, q, k)
        BY <1>0, <3>2, Zenon
      <4> QED BY <3>2, <4>1, AtBlock
    <3> QED BY <2>2, <3>2, <3>4, <3>5, <3>6, Zenon DEF Leaf
  <2> QED BY <2>1, <2>2, FileBlockCases
<1>2. B2[FileBlock(A, B, ip, bn)] = B[FileBlock(A, B, ip, bn)]
  <2>1. PICK n : n = FileBlock(A, B, ip, bn)
    OBVIOUS
  <2>2. n \in U \ Meta /\ n \in Bit /\ n # r /\ n # 0
    BY <2>1, DataInUse
  <2>3. NotIndirect(A, B, n)
    BY <2>1, <2>2, DataNotIndirect, Zenon
  <2>4. n # p.blk
    <3>1. ASSUME NEW i, p = InInode(jp, i) PROVE n # p.blk
      BY <2>2, <3>1 DEF InInode
    <3>2. ASSUME NEW m, NEW i, m # n, p = InBlock(m, i) PROVE n # p.blk
      BY <3>2 DEF InBlock
    <3> QED BY <2>3, <3>1, <3>2, Zenon DEF NotIndirect, Place
  <2> QED BY <2>1, <2>2, <2>4, Zenon DEF Stored
<1> QED BY <1>1, <1>2, Zenon

\* A place that holds an address belongs to one file.
LEMMA OneOwner ==
  ASSUME NEW A, NEW B, NEW U, Owned(A, B, U), 0 \in Meta,
         NEW ip \in Inode, NEW jp \in Inode, NEW s, Place(A, B, ip, s), Place(A, B, jp, s)
  PROVE  ip = jp
<1>0. \A kp, lp \in Inode : \A u, v :
        Held(A, B, kp, u) /\ Held(A, B, lp, v) /\ At(A, B, u) = At(A, B, v) => u = v
  BY Zenon DEF Owned
<1>1. ASSUME NEW kp \in Inode, Word(A, kp, NDIRECT) # 0
      PROVE  /\ Held(A, B, kp, InInode(kp, NDIRECT))
             /\ At(A, B, InInode(kp, NDIRECT)) = Word(A, kp, NDIRECT)
             /\ \A j \in Entry : Word(B, Word(A, kp, NDIRECT), j) # 0 =>
                  /\ Held(A, B, kp, InBlock(Word(A, kp, NDIRECT), j))
                  /\ At(A, B, InBlock(Word(A, kp, NDIRECT), j)) = Word(B, Word(A, kp, NDIRECT), j)
  <2>1. /\ Held(A, B, kp, InInode(kp, NDIRECT))
        /\ \A j \in Entry : Word(B, Word(A, kp, NDIRECT), j) # 0 =>
             Held(A, B, kp, InBlock(Word(A, kp, NDIRECT), j))
    BY <1>1, Indirect, Zenon
  <2>2. At(A, B, InInode(kp, NDIRECT)) = Word(A, kp, NDIRECT)
    BY AtInode
  <2>3. \A j : At(A, B, InBlock(Word(A, kp, NDIRECT), j)) = Word(B, Word(A, kp, NDIRECT), j)
    BY <1>1, AtBlock
  <2> QED BY <2>1, <2>2, <2>3, Zenon
\* The top indirect blocks of two files differ, and from all second ones.
<1>2. ASSUME Word(A, ip, NDIRECT) # 0, Word(A, jp, NDIRECT) # 0,
             Word(A, ip, NDIRECT) = Word(A, jp, NDIRECT)
      PROVE  ip = jp
  <2>1. InInode(ip, NDIRECT) = InInode(jp, NDIRECT)
    BY <1>0, <1>1, <1>2
  <2> QED BY <2>1, PlacesDiffer
<1>3. ASSUME NEW kp \in Inode, NEW lp \in Inode, Word(A, kp, NDIRECT) # 0, Word(A, lp, NDIRECT) # 0,
             NEW j \in Entry, Word(B, Word(A, lp, NDIRECT), j) # 0
      PROVE  Word(A, kp, NDIRECT) # Word(B, Word(A, lp, NDIRECT), j)
  <2>1. InInode(kp, NDIRECT) # InBlock(Word(A, lp, NDIRECT), j)
    BY <1>3, PlacesDiffer
  <2> QED BY <1>0, <1>1, <1>3, <2>1
<1>4. ASSUME Word(A, ip, NDIRECT) # 0, Word(A, jp, NDIRECT) # 0,
             NEW j \in Entry, Word(B, Word(A, ip, NDIRECT), j) # 0,
             NEW k \in Entry, Word(B, Word(A, jp, NDIRECT), k) # 0,
             Word(B, Word(A, ip, NDIRECT), j) = Word(B, Word(A, jp, NDIRECT), k)
      PROVE  ip = jp
  <2>1. InBlock(Word(A, ip, NDIRECT), j) = InBlock(Word(A, jp, NDIRECT), k)
    BY <1>0, <1>1, <1>4
  <2>2. Word(A, ip, NDIRECT) = Word(A, jp, NDIRECT)
    BY <2>1, BlockPlaces
  <2> QED BY <1>2, <1>4, <2>2
<1>5. ASSUME NEW i, s = InInode(ip, i) PROVE ip = jp
  <2>1. \/ \E k \in 0 .. NDIRECT : s = InInode(jp, k)
        \/ \E n \in U \ Meta, k \in Entry : s = InBlock(n, k)
    BY PlaceKinds
  <2> QED BY <1>5, <2>1, PlacesDiffer
<1>6. ASSUME NEW i, s = InInode(jp, i) PROVE ip = jp
  <2>1. \/ \E k \in 0 .. NDIRECT : s = InInode(ip, k)
        \/ \E n \in U \ Meta, k \in Entry : s = InBlock(n, k)
    BY PlaceKinds
  <2> QED BY <1>6, <2>1, PlacesDiffer
<1>7. ASSUME Word(A, ip, NDIRECT) # 0, Word(A, jp, NDIRECT) # 0,
             NEW i, NEW k, NEW m, NEW n, s = InBlock(m, i), s = InBlock(n, k),
             \/ m = Word(A, ip, NDIRECT)
             \/ \E j \in Entry : /\ Word(B, Word(A, ip, NDIRECT), j) # 0
                                 /\ m = Word(B, Word(A, ip, NDIRECT), j),
             \/ n = Word(A, jp, NDIRECT)
             \/ \E j \in Entry : /\ Word(B, Word(A, jp, NDIRECT), j) # 0
                                 /\ n = Word(B, Word(A, jp, NDIRECT), j)
      PROVE  ip = jp
  <2>1. m = n
    <3>1. InBlock(m, i) = InBlock(n, k)
      BY <1>7, Zenon
    <3> QED BY <3>1, PlacesDiffer
  <2> QED BY <1>2, <1>3, <1>4, <1>7, <2>1
<1> QED BY <1>5, <1>6, <1>7, ZenonT(30) DEF Place

\* itrunc() empties the inode jp and frees the blocks its places lead to.
Cut(A, A2, jp) ==
  /\ \A i \in 0 .. NDIRECT : Word(A2, jp, i) = 0
  /\ \A ip \in Inode : ip # jp => A2[ip] = A[ip]

LEMMA CutOwned ==
  ASSUME NEW A, NEW B, NEW U, Owned(A, B, U), 0 \in Meta,
         NEW jp \in Inode, NEW A2, Cut(A, A2, jp), NEW V,
         \A n : n \in V <=> \E s : Held(A, B, jp, s) /\ At(A, B, s) = n
  PROVE  Owned(A2, B, U \ V)
<1>0. NDIRECT \in 0 .. NDIRECT
  BY BmapAssumption
<1>1. ASSUME NEW s PROVE ~ Held(A2, B, jp, s)
  <2>1. Word(A2, jp, NDIRECT) = 0
    BY <1>0, Zenon DEF Cut
  <2>2. ASSUME NEW i \in 0 .. NDIRECT, s = InInode(jp, i) PROVE At(A2, B, s) = 0
    BY <2>2, AtInode DEF Cut
  <2> QED BY <2>1, <2>2, Zenon DEF Held, Place
<1>2. ASSUME NEW ip \in Inode, ip # jp, NEW s
      PROVE  /\ Held(A2, B, ip, s) <=> Held(A, B, ip, s)
             /\ Held(A, B, ip, s) => At(A2, B, s) = At(A, B, s)
  <2>1. A2[ip] = A[ip]
    BY <1>2, Zenon DEF Cut
  <2>2. Place(A2, B, ip, s) <=> Place(A, B, ip, s)
    BY <2>1, Zenon DEF Place, Word
  <2>3. ASSUME Place(A, B, ip, s) PROVE At(A2, B, s) = At(A, B, s)
    <3>1. ASSUME NEW i \in 0 .. NDIRECT, s = InInode(ip, i)
          PROVE  At(A2, B, s) = At(A, B, s)
      BY <2>1, <3>1, AtInode DEF Word
    <3>2. ASSUME NEW n \in U \ Meta, NEW i \in Entry, s = InBlock(n, i)
          PROVE  At(A2, B, s) = At(A, B, s)
      BY <3>2, AtBlock
    <3>3. \/ \E i \in 0 .. NDIRECT : s = InInode(ip, i)
          \/ \E n \in U \ Meta, i \in Entry : s = InBlock(n, i)
      BY <2>3, PlaceKinds
    <3> QED BY <3>1, <3>2, <3>3, Zenon
  <2> QED BY <2>2, <2>3, Zenon DEF Held
<1>3. \A ip \in Inode : \A s :
        Held(A2, B, ip, s) => ip # jp /\ Held(A, B, ip, s) /\ At(A2, B, s) = At(A, B, s)
  BY <1>1, <1>2, Zenon
<1>4. \A ip \in Inode : \A s : Held(A, B, ip, s) => At(A, B, s) \in U \ Meta
  BY Zenon DEF Owned
<1>5. \A ip, kp \in Inode : \A s, t :
        Held(A, B, ip, s) /\ Held(A, B, kp, t) /\ At(A, B, s) = At(A, B, t) => s = t
  BY Zenon DEF Owned
<1>6. ASSUME NEW ip \in Inode, NEW s, Held(A2, B, ip, s)
      PROVE  At(A2, B, s) \in (U \ V) \ Meta
  <2>1. At(A, B, s) \notin V
    <3> SUFFICES ASSUME NEW t, Held(A, B, jp, t), At(A, B, t) = At(A, B, s) PROVE FALSE
      OBVIOUS
    <3>1. s = t
      BY <1>3, <1>5, <1>6, Zenon
    <3>2. Place(A, B, ip, s) /\ Place(A, B, jp, s) /\ ip # jp
      BY <1>3, <1>6, <3>1, Zenon DEF Held
    <3> QED BY <3>2, OneOwner, Zenon
  <2> QED BY <1>3, <1>4, <1>6, <2>1, Zenon
<1>7. ASSUME NEW n \in (U \ V) \ Meta
      PROVE  \E ip \in Inode : \E s : Held(A2, B, ip, s) /\ At(A2, B, s) = n
  <2>1. PICK ip \in Inode : \E s : Held(A, B, ip, s) /\ At(A, B, s) = n
    BY Zenon DEF Owned
  <2>2. PICK s : Held(A, B, ip, s) /\ At(A, B, s) = n
    BY <2>1, Zenon
  <2>3. ip # jp
    BY <2>2, Zenon
  <2> QED BY <1>2, <2>2, <2>3, Zenon
<1>8. \A ip, kp \in Inode : \A s, t :
        Held(A2, B, ip, s) /\ Held(A2, B, kp, t) /\ At(A2, B, s) = At(A2, B, t) => s = t
  BY <1>3, <1>5
<1> QED BY <1>6, <1>7, <1>8, Zenon DEF Owned

-----------------------------------------------------------------------------
LEMMA AddrIsAt == \A s : Addr(s) = At(addrs, blk, s)
BY DEF Addr, At, Word

\* Slots(ip) are the places of ip that hold an address.
LEMMA SlotsHeld ==
  ASSUME NEW ip, NEW s
  PROVE  s \in Slots(ip) <=> Held(addrs, blk, ip, s)
<1>0. \A S, v : v \in HoldAddr(Entries(S)) <=>
        At(addrs, blk, v) # 0 /\ \E u \in S, i \in Entry : v = InBlock(At(addrs, blk, u), i)
  BY AddrIsAt DEF HoldAddr, Entries, Entry
<1>1. s \in InodeSlots(ip) <=> At(addrs, blk, s) # 0 /\ \E i \in 0 .. NDIRECT : s = InInode(ip, i)
  BY AddrIsAt, Zenon DEF InodeSlots, HoldAddr
<1>2. Addr(Top(ip)) = Word(addrs, ip, NDIRECT)
  BY AddrIsAt, AtInode DEF Top
<1>3. \A v : v \in TopSlots(ip) <=>
        /\ Word(addrs, ip, NDIRECT) # 0 /\ At(addrs, blk, v) # 0
        /\ \E i \in Entry : v = InBlock(Word(addrs, ip, NDIRECT), i)
  <2>1. HoldAddr({Top(ip)}) = IF Word(addrs, ip, NDIRECT) = 0 THEN {} ELSE {Top(ip)}
    BY <1>2 DEF HoldAddr
  <2>2. \A v : v \in TopSlots(ip) <=>
          /\ At(addrs, blk, v) # 0
          /\ \E u \in HoldAddr({Top(ip)}), i \in Entry : v = InBlock(At(addrs, blk, u), i)
    BY <1>0, Zenon DEF TopSlots
  <2>3. At(addrs, blk, Top(ip)) = Word(addrs, ip, NDIRECT)
    BY <1>2, AddrIsAt
  <2>4. CASE Word(addrs, ip, NDIRECT) = 0
    BY <2>1, <2>2, <2>4, Zenon
  <2>5. CASE Word(addrs, ip, NDIRECT) # 0
    <3>1. \A u : u \in HoldAddr({Top(ip)}) <=> u = Top(ip)
      BY <2>1, <2>5, Zenon
    <3>2. \A v : (\E u \in HoldAddr({Top(ip)}), i \in Entry : v = InBlock(At(addrs, blk, u), i))
                   <=> \E i \in Entry : v = InBlock(Word(addrs, ip, NDIRECT), i)
      BY <2>3, <3>1, Zenon
    <3> QED BY <2>2, <2>5, <3>2, Zenon
  <2> QED BY <2>4, <2>5, Zenon
<1>4. s \in SecondSlots(ip) <=>
        /\ At(addrs, blk, s) # 0
        /\ \E v \in TopSlots(ip), i \in Entry : s = InBlock(At(addrs, blk, v), i)
  BY <1>0 DEF SecondSlots
<1>5. (\E v \in TopSlots(ip), i \in Entry : s = InBlock(At(addrs, blk, v), i)) <=>
        /\ Word(addrs, ip, NDIRECT) # 0
        /\ \E j \in Entry : /\ Word(blk, Word(addrs, ip, NDIRECT), j) # 0
                            /\ \E i \in Entry : s = InBlock(Word(blk, Word(addrs, ip, NDIRECT), j), i)
  <2>1. ASSUME Word(addrs, ip, NDIRECT) # 0, NEW j
        PROVE  At(addrs, blk, InBlock(Word(addrs, ip, NDIRECT), j)) =
                 Word(blk, Word(addrs, ip, NDIRECT), j)
    BY <2>1, AtBlock
  <2>2. ASSUME NEW v \in TopSlots(ip), NEW i \in Entry, s = InBlock(At(addrs, blk, v), i)
        PROVE  /\ Word(addrs, ip, NDIRECT) # 0
               /\ \E j \in Entry : /\ Word(blk, Word(addrs, ip, NDIRECT), j) # 0
                                   /\ \E k \in Entry : s = InBlock(Word(blk, Word(addrs, ip, NDIRECT), j), k)
    <3>1. PICK j \in Entry : v = InBlock(Word(addrs, ip, NDIRECT), j)
      BY <1>3, Zenon
    <3>2. Word(addrs, ip, NDIRECT) # 0 /\ At(addrs, blk, v) # 0
      BY <1>3, Zenon
    <3>3. At(addrs, blk, v) = Word(blk, Word(addrs, ip, NDIRECT), j)
      BY <2>1, <3>1, <3>2
    <3> QED BY <2>2, <3>2, <3>3
  <2>3. ASSUME Word(addrs, ip, NDIRECT) # 0,
               NEW j \in Entry, Word(blk, Word(addrs, ip, NDIRECT), j) # 0,
               NEW i \in Entry, s = InBlock(Word(blk, Word(addrs, ip, NDIRECT), j), i)
        PROVE  \E v \in TopSlots(ip), k \in Entry : s = InBlock(At(addrs, blk, v), k)
    <3>1. InBlock(Word(addrs, ip, NDIRECT), j) \in TopSlots(ip)
      BY <1>3, <2>1, <2>3, Zenon
    <3> QED BY <2>1, <2>3, <3>1
  <2> QED BY <2>2, <2>3, Zenon
<1> QED BY <1>1, <1>3, <1>4, <1>5, Zenon DEF Slots, Held, Place

\* bmap() comes to a place of the file, which holds the address of the block
\* if the file has it and none otherwise.
LEMMA BmapFinds ==
  ASSUME NEW ip \in Inode, NEW bn \in 0 .. MAXFILE - 1
  PROVE  /\ Place(addrs, blk, ip, bmap(ip, bn))
         /\ Addr(bmap(ip, bn)) = FileBlock(addrs, blk, ip, bn)
<1>0. NDIRECT \in 0 .. NDIRECT /\ NDIRECT \in Nat
  BY BmapAssumption
<1>1. Addr(Top(ip)) = Word(addrs, ip, NDIRECT)
  BY AddrIsAt, AtInode DEF Top
<1>2. ASSUME bn < NDIRECT
      PROVE  /\ Place(addrs, blk, ip, bmap(ip, bn))
             /\ Addr(bmap(ip, bn)) = FileBlock(addrs, blk, ip, bn)
  <2>1. bmap(ip, bn) = InInode(ip, bn) /\ FileBlock(addrs, blk, ip, bn) = Word(addrs, ip, bn)
    BY <1>2 DEF bmap, FileBlock
  <2>2. bn \in 0 .. NDIRECT
    BY <1>0, <1>2
  <2> QED BY <2>1, <2>2, AddrIsAt, AtInode DEF Place
<1>3. ASSUME ~(bn < NDIRECT)
      PROVE  /\ Place(addrs, blk, ip, bmap(ip, bn))
             /\ Addr(bmap(ip, bn)) = FileBlock(addrs, blk, ip, bn)
  <2>1. PICK q \in Entry, k \in Entry :
           q = (bn - NDIRECT) \div NINDIRECT /\ k = (bn - NDIRECT) % NINDIRECT
    <3>1. bn \in NDIRECT .. MAXFILE - 1
      BY <1>0, <1>3
    <3> QED BY <3>1, IndirectIndex
  <2>2. CASE Word(addrs, ip, NDIRECT) = 0
    <3>1. bmap(ip, bn) = Top(ip) /\ FileBlock(addrs, blk, ip, bn) = 0
      BY <1>1, <1>3, <2>2 DEF bmap, FileBlock
    <3> QED BY <1>0, <1>1, <2>2, <3>1, Zenon DEF Place, Top
  <2>3. CASE Word(addrs, ip, NDIRECT) # 0
    <3>1. Second(ip, bn) = InBlock(Word(addrs, ip, NDIRECT), q)
      BY <1>1, <2>1, Zenon DEF Second
    <3>2. Addr(Second(ip, bn)) = Word(blk, Word(addrs, ip, NDIRECT), q)
      BY <2>3, <3>1, AddrIsAt, AtBlock
    <3>3. CASE Word(blk, Word(addrs, ip, NDIRECT), q) = 0
      <4>1. bmap(ip, bn) = Second(ip, bn)
        BY <1>1, <1>3, <2>3, <3>2, <3>3 DEF bmap
      <4>2. FileBlock(addrs, blk, ip, bn) = 0
        BY <1>3, <2>1, <2>3, <3>3 DEF FileBlock
      <4> QED BY <2>3, <3>1, <3>2, <3>3, <4>1, <4>2, Zenon DEF Place
    <3>4. CASE Word(blk, Word(addrs, ip, NDIRECT), q) # 0
      <4>1. bmap(ip, bn) = Third(ip, bn)
        BY <1>1, <1>3, <2>3, <3>2, <3>4 DEF bmap
      <4>2. Third(ip, bn) = InBlock(Word(blk, Word(addrs, ip, NDIRECT), q), k)
        BY <2>1, <3>2, Zenon DEF Third
      <4>3. FileBlock(addrs, blk, ip, bn) = Word(blk, Word(blk, Word(addrs, ip, NDIRECT), q), k)
        BY <1>3, <2>1, <2>3, <3>4 DEF FileBlock
      <4>4. Addr(Third(ip, bn)) = Word(blk, Word(blk, Word(addrs, ip, NDIRECT), q), k)
        BY <3>4, <4>2, AddrIsAt, AtBlock
      <4> QED BY <2>3, <3>4, <4>1, <4>2, <4>3, <4>4, Zenon DEF Place
    <3> QED BY <3>3, <3>4
  <2> QED BY <2>2, <2>3
<1> QED BY <1>2, <1>3

\* The parts of a file that lie in one block.
LEMMA SameBlock ==
  ASSUME NEW p \in Nat, NEW d \in Nat, (p % BSIZE) + d < BSIZE
  PROVE  (p + d) \div BSIZE = p \div BSIZE /\ (p + d) % BSIZE = (p % BSIZE) + d
<1>1. BSIZE \in Nat \ {0}
  BY BmapAssumption
<1>2. PICK q \in Int, r \in 0 .. BSIZE - 1 :
        p = BSIZE * q + r /\ q = p \div BSIZE /\ r = p % BSIZE
  BY <1>1, DivMod
<1>3. PICK s \in Int, t \in 0 .. BSIZE - 1 :
        p + d = BSIZE * s + t /\ s = (p + d) \div BSIZE /\ t = (p + d) % BSIZE
  BY <1>1, DivMod
<1>4. BSIZE * q \in Int /\ r + d \in 0 .. BSIZE - 1 /\ BSIZE * q + (r + d) = BSIZE * s + t
  BY <1>1, <1>2, <1>3
<1>5. q = s /\ r + d = t
  BY <1>1, <1>4, QuotientUnique
<1> QED BY <1>2, <1>3, <1>5, Zenon

\* A byte of a file that is not too long lies in one of its blocks.
LEMMA InFile ==
  ASSUME NEW k \in Nat, k < MAXFILE * BSIZE
  PROVE  k \div BSIZE \in 0 .. MAXFILE - 1 /\ k % BSIZE \in 0 .. BSIZE - 1
<1>1. BSIZE \in Nat \ {0} /\ MAXFILE \in Nat
  BY BmapAssumption DEF MAXFILE
<1>2. PICK q \in Int, r \in 0 .. BSIZE - 1 :
        k = BSIZE * q + r /\ q = k \div BSIZE /\ r = k % BSIZE
  BY <1>1, DivMod
<1>3. q >= 0
  <2>1. q < 0 => BSIZE * q + BSIZE <= BSIZE * 0
    BY <1>1, Apart
  <2>2. BSIZE * q \in Int
    BY <1>1
  <2> QED BY <1>1, <1>2, <2>1, <2>2
<1>4. q < MAXFILE
  <2>1. MAXFILE < q => BSIZE * MAXFILE + BSIZE <= BSIZE * q
    BY <1>1, Apart
  <2>2. BSIZE * q \in Int /\ BSIZE * MAXFILE \in Int /\ BSIZE * MAXFILE = MAXFILE * BSIZE
    BY <1>1
  <2>3. CASE q = MAXFILE
    <3>1. k = BSIZE * MAXFILE + r
      BY <1>2, <2>3, Zenon
    <3> QED BY <2>2, <3>1
  <2>4. CASE MAXFILE < q
    BY <1>1, <1>2, <2>1, <2>2, <2>4
  <2> QED BY <1>1, <2>3, <2>4
<1> QED BY <1>1, <1>2, <1>3, <1>4

\* The block a search has come to has a bit.
LEMMA OnBitmap ==
  ASSUME NEW c \in BlockStart, NEW i \in Index
  PROVE  c + i \in Bit
<1>1. BPB \in Nat \ {0} /\ SIZE \in Nat \ {0}
  BY BallocAssumption
<1>2. PICK q \in Int : c = BPB * q
  <2>1. c \in Int /\ c % BPB = 0
    BY DEF BlockStart
  <2>2. c \div BPB \in Int /\ c = BPB * (c \div BPB) + (c % BPB)
    BY <1>1, <2>1, DivMod
  <2>3. BPB * (c \div BPB) \in Int
    BY <1>1, <2>2
  <2>4. c = BPB * (c \div BPB)
    BY <2>1, <2>2, <2>3
  <2> QED BY <2>2, <2>4, Zenon
<1>3. PICK s \in Int, r \in 0 .. BPB - 1 :
        SIZE + BPB - 1 = BPB * s + r /\ s = (SIZE + BPB - 1) \div BPB
  <2>1. SIZE + BPB - 1 \in Int
    BY <1>1
  <2> QED BY <1>1, <2>1, DivMod
<1>4. q < s
  <2>0. BPB * q \in Int /\ BPB * s \in Int
    BY <1>1
  <2>1. s < q => BPB * s + BPB <= BPB * q
    BY <1>1, Apart
  <2>2. BPB * q < SIZE
    <3>1. c < SIZE
      BY <1>1 DEF BlockStart
    <3> QED BY <1>2, <3>1, Zenon
  <2>3. CASE s = q
    BY <1>1, <1>3, <2>0, <2>2, <2>3
  <2>4. CASE s < q
    BY <1>1, <1>3, <2>0, <2>1, <2>2, <2>4
  <2> QED BY <2>3, <2>4
<1>5. BPB * q + BPB <= BPB * s
  BY <1>1, <1>4, Apart
<1>6. NBITS = BPB * s /\ BPB * s \in Int /\ BPB * q \in Int
  BY <1>1, <1>3 DEF NBITS
<1>7. c >= 0
  BY DEF BlockStart
<1> QED BY <1>1, <1>2, <1>5, <1>6, <1>7 DEF Bit, Index

-----------------------------------------------------------------------------
\* The calls.

\* The running call, when it is a write or a read.
WriteCall == [kind : {"write"}, f : File, left : Nat \ {0}, done : Nat, n : Nat,
              tot : Nat, seek : Nat \cup {-1}, zero : Nat]
ReadCall == [kind : {"read"}, f : File, n : Nat, tot : Nat, got : Seq(Int)]

BmapTypeOK ==
  /\ Typed(addrs, blk)
  /\ used \subseteq Bit /\ Meta \subseteq used
  /\ size \in [Inode -> 0 .. MAXFILE * BSIZE]
  /\ dinode \in [Inode -> [addrs : [0 .. NDIRECT -> Int], size : 0 .. MAXFILE * BSIZE]]
  /\ fip \in [File -> Inode] /\ off \in [File -> Nat] /\ writable \in [File -> BOOLEAN]
  /\ call \in {Idle} \cup WriteCall \cup ReadCall
  /\ pc \in {"idle", "search", "panic"}

\* The first n bytes of ip have their blocks.
Covered(A, B, ip, n) == \A k \in 0 .. n - 1 : FileBlock(A, B, ip, k \div BSIZE) # 0

\* filewrite() is in writei().
InRound == call.kind = "write" /\ call.n > 0

\* A search is for a block the file does not have; a write starts within the
\* file and has filled it up to where it is; a read stays within the file.
CallOK ==
  /\ pc # "idle" => InRound /\ call.tot < call.n
  /\ pc = "search" => FileBlock(addrs, blk, Ip, Pos \div BSIZE) = 0
  /\ call.kind = "write" => call.n <= call.left /\ call.n <= MaxWrite /\ call.tot <= call.n
  /\ InRound => /\ off[call.f] <= size[Ip] /\ off[call.f] + call.n <= MAXFILE * BSIZE
                /\ Covered(addrs, blk, Ip, Pos)
  /\ call.kind = "read" => call.tot <= call.n /\ off[call.f] + call.n <= size[Ip]

\* No file has a hole.
Filled == \A ip \in Inode : Covered(addrs, blk, ip, size[ip])

\* An inode differs from what is on disk only if writei() will write it.
Saved == \A ip \in Inode :
  \/ dinode[ip] = Dinode(addrs[ip], size[ip])
  \/ InRound /\ ip = Ip /\ off[call.f] + call.n > size[ip]

BmapInv == /\ BmapTypeOK /\ Owned(addrs, blk, used)
           /\ CallOK /\ Filled /\ Saved

LEMMA Kinds ==
  ASSUME call \in {Idle} \cup WriteCall \cup ReadCall
  PROVE  /\ call.kind = "write" <=> call \in WriteCall
         /\ call.kind = "read" <=> call \in ReadCall
         /\ call = Idle <=> call.kind = "idle"
BY DEF Idle, WriteCall, ReadCall

LEMMA BmapConstants ==
  /\ BSIZE \in Nat \ {0} /\ MAXFILE \in Nat /\ MAXFILE * BSIZE \in Nat
  /\ NDIRECT \in 0 .. NDIRECT /\ 0 \in Meta /\ NMETA \in Nat
  /\ MaxWrite \in Nat \ {0}
<1>1. /\ BSIZE \in Nat \ {0} /\ NDIRECT \in Nat /\ NINDIRECT \in Nat
      /\ MAXOPBLOCKS \in Nat /\ MAXOPBLOCKS >= 6
      /\ NMETA \in Nat /\ NMETA > 0
  BY BmapAssumption, BallocAssumption, FileSystemAssumption
<1>2. MAXFILE \in Nat
  BY <1>1 DEF MAXFILE
<1>3. MAXFILE * BSIZE \in Nat
  BY <1>1, <1>2
<1>4. MaxWrite \in Nat \ {0}
  <2>1. (MAXOPBLOCKS - 1 - 1 - 2) \div 2 \in Nat \ {0}
    BY <1>1
  <2>2. \A x, y \in Nat \ {0} : x * y \in Nat \ {0}
    OBVIOUS
  <2> QED BY <1>1, <2>1, <2>2 DEF MaxWrite
<1> QED BY <1>1, <1>2, <1>3, <1>4 DEF Meta

LEMMA BmapInitInv == BmapInit => BmapInv
<1> SUFFICES ASSUME BmapInit PROVE BmapInv
  OBVIOUS
<1>0. NMETA \in 0 .. SIZE - 1 /\ SIZE \in Nat /\ SIZE <= NBITS /\ NBITS \in Nat
  <2>1. BPB \in Nat \ {0} /\ SIZE \in Nat \ {0} /\ NMETA \in 0 .. SIZE - 1
    BY BallocAssumption, Zenon
  <2>2. PICK s \in Int, r \in 0 .. BPB - 1 :
          SIZE + BPB - 1 = BPB * s + r /\ s = (SIZE + BPB - 1) \div BPB
    <3>1. SIZE + BPB - 1 \in Int
      BY <2>1
    <3> QED BY <2>1, <3>1, DivMod
  <2>3. NBITS = BPB * s /\ BPB * s \in Int
    BY <2>1, <2>2 DEF NBITS
  <2> QED BY <2>1, <2>2, <2>3
<1>1. /\ used = 0 .. NMETA - 1 /\ pc = "idle"
      /\ blk = [n \in Bit |-> Zeros]
      /\ addrs = [ip \in Inode |-> NoAddrs]
      /\ size = [ip \in Inode |-> 0]
      /\ dinode = [ip \in Inode |-> Dinode(NoAddrs, 0)]
      /\ fip \in [File -> Inode] /\ writable \in [File -> BOOLEAN]
      /\ off = [f \in File |-> 0] /\ call = Idle
  BY Zenon DEF BmapInit, Init
<1>2. BmapTypeOK
  <2>1. Typed(addrs, blk)
    <3>1. Zeros \in [0 .. BSIZE - 1 -> Int] /\ NoAddrs \in [0 .. NDIRECT -> Int]
      BY DEF Zeros, NoAddrs
    <3> QED BY <1>1, <3>1, Zenon DEF Typed
  <2>2. used \subseteq Bit /\ Meta \subseteq used
    <3>1. \A n \in 0 .. NMETA - 1 : n \in 0 .. NBITS - 1
      BY <1>0
    <3> QED BY <1>1, <3>1, Zenon DEF Bit, Meta
  <2>3. size \in [Inode -> 0 .. MAXFILE * BSIZE]
    BY <1>1, BmapConstants
  <2>4. dinode \in [Inode -> [addrs : [0 .. NDIRECT -> Int], size : 0 .. MAXFILE * BSIZE]]
    BY <1>1, BmapConstants DEF Dinode, NoAddrs
  <2>5. off \in [File -> Nat]
    BY <1>1, Zenon
  <2> QED BY <1>1, <2>1, <2>2, <2>3, <2>4, <2>5, Zenon DEF BmapTypeOK
<1>3. \A ip \in Inode : \A s : ~ Held(addrs, blk, ip, s)
  <2> SUFFICES ASSUME NEW ip \in Inode, NEW s, Held(addrs, blk, ip, s) PROVE FALSE
    OBVIOUS
  <2>1. \A i \in 0 .. NDIRECT : Word(addrs, ip, i) = 0
    BY <1>1, Zenon DEF NoAddrs, Word
  <2>2. PICK i \in 0 .. NDIRECT : s = InInode(ip, i)
    BY <2>1, BmapConstants, Zenon DEF Held, Place
  <2> QED BY <2>1, <2>2, AtInode DEF Held
<1>4. Owned(addrs, blk, used)
  <2>1. used \ Meta = {}
    BY <1>1, Zenon DEF Meta
  <2> QED BY <1>3, <2>1, Zenon DEF Owned
<1>5. call.kind = "idle"
  BY <1>1, Zenon DEF Idle
<1>6. CallOK
  BY <1>1, <1>5, Zenon DEF CallOK, InRound
<1>7. Filled
  BY <1>1 DEF Filled, Covered
<1>8. Saved
  BY <1>1, Zenon DEF Saved
<1> QED BY <1>2, <1>4, <1>6, <1>7, <1>8, Zenon DEF BmapInv

-----------------------------------------------------------------------------
\* Steps that leave the blocks and the inodes alone.
FilesKept == UNCHANGED <<used, blk, addrs, size, dinode, fip, writable>>

LEMMA KeptFiles ==
  ASSUME BmapInv, FilesKept,
         off' \in [File -> Nat], pc' \in {"idle", "search", "panic"},
         call' \in {Idle} \cup WriteCall \cup ReadCall
  PROVE  BmapTypeOK' /\ Owned(addrs, blk, used)' /\ Filled'
<1>1. /\ used' = used /\ blk' = blk /\ addrs' = addrs /\ size' = size
      /\ dinode' = dinode /\ fip' = fip /\ writable' = writable
  BY Zenon DEF FilesKept
<1>2. BmapTypeOK'
  BY <1>1, Zenon DEF BmapInv, BmapTypeOK
<1>3. Owned(addrs, blk, used)'
  BY <1>1, Zenon DEF BmapInv
<1>4. Filled'
  BY <1>1, Zenon DEF BmapInv, Filled
<1> QED BY <1>2, <1>3, <1>4, Zenon

LEMMA NotInRound ==
  ASSUME BmapInv, ~ InRound
  PROVE  pc = "idle" /\ \A ip \in Inode : dinode[ip] = Dinode(addrs[ip], size[ip])
BY Zenon DEF BmapInv, CallOK, Saved

\* Between rounds a call asks nothing of the files.
Resting == call \in {Idle} \cup WriteCall /\ (call.kind = "write" => call.n = 0 /\ call.tot = 0)

LEMMA RestingCall ==
  ASSUME Resting', pc' = "idle"
  PROVE  CallOK' /\ ~ InRound'
<1>1. ~ InRound'
  BY DEF Resting, InRound
<1>2. call'.kind # "read"
  BY DEF Resting, Idle, WriteCall
<1>3. call'.kind = "write" => call'.n <= call'.left /\ call'.n <= MaxWrite /\ call'.tot <= call'.n
  BY BmapConstants DEF Resting, Idle, WriteCall
<1> QED BY <1>1, <1>2, <1>3, Zenon DEF CallOK

LEMMA RestingStep ==
  ASSUME BmapInv, ~ InRound, FilesKept, pc' = pc, off' \in [File -> Nat], Resting'
  PROVE  BmapInv'
<1>1. pc = "idle" /\ \A ip \in Inode : dinode[ip] = Dinode(addrs[ip], size[ip])
  BY NotInRound, Zenon
<1>2. call' \in {Idle} \cup WriteCall \cup ReadCall
  BY Zenon DEF Resting
<1>3. BmapTypeOK' /\ Owned(addrs, blk, used)' /\ Filled'
  BY <1>1, <1>2, KeptFiles, Zenon
<1>4. CallOK'
  BY <1>1, RestingCall, Zenon
<1>5. Saved'
  BY <1>1, Zenon DEF FilesKept, Saved
<1> QED BY <1>3, <1>4, <1>5, Zenon DEF BmapInv

LEMMA FileWriteCall ==
  ASSUME NEW f \in File, NEW n \in Nat \ {0}, NEW seek \in Nat \cup {-1}, NEW zero \in Nat
  PROVE  /\ FileWrite(f, n, seek, zero) \in WriteCall
         /\ FileWrite(f, n, seek, zero).n = 0 /\ FileWrite(f, n, seek, zero).tot = 0
BY Zenon DEF FileWrite, WriteCall

LEMMA WriteReturns ==
  ASSUME BmapTypeOK, call.kind = "write", NEW o \in Nat, NEW d, FileWriteReturns(o, d)
  PROVE  Resting' /\ off' \in [File -> Nat]
<1>0. call \in WriteCall /\ off \in [File -> Nat] /\ SBUFSIZE \in Nat
  BY Kinds, BmapAssumption, Zenon DEF BmapTypeOK
<1>1. /\ call.f \in File /\ call.seek \in Nat \cup {-1} /\ call.zero \in Nat
  BY <1>0, Zenon DEF WriteCall
<1>2. CASE call.seek # -1 /\ call.zero > SBUFSIZE
  <2>1. /\ call' = FileWrite(call.f, call.zero - SBUFSIZE, call.seek, call.zero - SBUFSIZE)
        /\ off' = [off EXCEPT ![call.f] = o]
    BY <1>2, Zenon DEF FileWriteReturns
  <2>2. call.zero - SBUFSIZE \in Nat \ {0}
    BY <1>0, <1>1, <1>2
  <2>3. call' \in WriteCall /\ call'.n = 0 /\ call'.tot = 0
    BY <1>1, <2>1, <2>2, FileWriteCall
  <2>4. off' \in [File -> Nat]
    BY <1>0, <2>1, Zenon
  <2> QED BY <2>3, <2>4, Zenon DEF Resting
<1>3. CASE ~(call.seek # -1 /\ call.zero > SBUFSIZE)
  <2>1. /\ call' = Idle
        /\ off' = [off EXCEPT ![call.f] = IF call.seek = -1 THEN o ELSE call.seek]
    BY <1>3, Zenon DEF FileWriteReturns
  <2>2. (IF call.seek = -1 THEN o ELSE call.seek) \in Nat
    BY <1>1, Zenon
  <2>3. off' \in [File -> Nat]
    BY <1>0, <2>1, <2>2, Zenon
  <2>4. Resting'
    BY <2>1, Zenon DEF Resting, Idle
  <2> QED BY <2>3, <2>4
<1> QED BY <1>2, <1>3, Zenon

LEMMA WriteKeeps ==
  ASSUME BmapInv, NEW f \in File, NEW n \in Counts, sys_write(f, n)
  PROVE  BmapInv'
<1>1. /\ call = Idle /\ pc' = pc /\ off' = off /\ FilesKept
      /\ call' = FileWrite(f, n, -1, 0)
  BY Zenon DEF sys_write, FilesKept, vars, files
<1>2. ~ InRound
  BY <1>1, Zenon DEF InRound, Idle
<1>3. n \in Nat \ {0} /\ -1 \in Nat \cup {-1}
  BY BmapAssumption, Zenon
<1>4. Resting'
  BY <1>1, <1>3, FileWriteCall DEF Resting
<1>5. off' \in [File -> Nat]
  BY <1>1, Zenon DEF BmapInv, BmapTypeOK
<1> QED BY <1>1, <1>2, <1>4, <1>5, RestingStep

LEMMA LseekKeeps ==
  ASSUME BmapInv, NEW f \in File, NEW o \in 0 .. MAXFILE * BSIZE, sys_lseek(f, o)
  PROVE  BmapInv'
<1>0. /\ off \in [File -> Nat] /\ o \in Nat /\ size[fip[f]] \in Nat
  BY BmapConstants DEF BmapInv, BmapTypeOK
<1>1. call = Idle /\ pc' = pc /\ FilesKept
  BY Zenon DEF sys_lseek, FilesKept, vars, files
<1>2. ~ InRound
  BY <1>1, Zenon DEF InRound, Idle
<1>3. CASE off' = [off EXCEPT ![f] = o] /\ UNCHANGED call
  <2>1. off' \in [File -> Nat]
    BY <1>0, <1>3, Zenon
  <2>2. Resting'
    BY <1>1, <1>3, Zenon DEF Resting, Idle
  <2> QED BY <1>1, <1>2, <2>1, <2>2, RestingStep, Zenon
<1>4. CASE /\ o - size[fip[f]] > 0 /\ UNCHANGED off
           /\ call' = FileWrite(f, o - size[fip[f]], o, o - size[fip[f]])
  <2>1. o - size[fip[f]] \in Nat \ {0}
    BY <1>0, <1>4
  <2>2. Resting'
    BY <1>0, <1>4, <2>1, FileWriteCall, Zenon DEF Resting
  <2> QED BY <1>0, <1>1, <1>2, <1>4, <2>2, RestingStep, Zenon
<1> QED BY <1>3, <1>4, Zenon DEF sys_lseek

LEMMA ReadReturnsKeeps ==
  ASSUME BmapInv, ReadReturns
  PROVE  BmapInv'
<1>1. /\ call.kind = "read" /\ call' = Idle /\ pc' = pc /\ FilesKept
      /\ off' = [off EXCEPT ![call.f] = Pos]
  BY Zenon DEF ReadReturns, FilesKept, vars, files
<1>2. off \in [File -> Nat] /\ call \in ReadCall
  BY <1>1, Kinds DEF BmapInv, BmapTypeOK
<1>3. Pos \in Nat
  BY <1>2 DEF Pos, ReadCall
<1>4. off' \in [File -> Nat] /\ Resting' /\ ~ InRound
  BY <1>1, <1>2, <1>3, Zenon DEF Resting, InRound, Idle
<1> QED BY <1>1, <1>4, RestingStep

LEMMA ReadKeeps ==
  ASSUME BmapInv, NEW f \in File, NEW n \in Counts, sys_read(f, n)
  PROVE  BmapInv'
<1>0. /\ off \in [File -> Nat] /\ off[f] \in Nat /\ size[fip[f]] \in Nat /\ n \in Nat
  BY BmapConstants, BmapAssumption DEF BmapInv, BmapTypeOK
<1>1. /\ call = Idle /\ pc = "idle" /\ pc' = pc /\ off' = off /\ FilesKept
      /\ off[f] < size[fip[f]]
      /\ call' = [kind |-> "read", f |-> f, n |-> Smaller(n, size[fip[f]] - off[f]),
                  tot |-> 0, got |-> <<>>]
  BY Zenon DEF sys_read, FilesKept, vars, files
<1>2. PICK m \in Nat : /\ m = Smaller(n, size[fip[f]] - off[f])
                       /\ off[f] + m <= size[fip[f]]
  BY <1>0, <1>1 DEF Smaller
<1>3. call' = [kind |-> "read", f |-> f, n |-> m, tot |-> 0, got |-> <<>>]
  BY <1>1, <1>2, Zenon
<1>4. call' \in ReadCall /\ call'.kind = "read" /\ call'.f = f /\ call'.n = m /\ call'.tot = 0
  BY <1>3 DEF ReadCall
<1>5. ~ InRound' /\ ~ InRound
  BY <1>1, <1>4, Zenon DEF InRound, Idle
<1>6. BmapTypeOK' /\ Owned(addrs, blk, used)' /\ Filled'
  <2>1. off' \in [File -> Nat] /\ pc' \in {"idle", "search", "panic"}
    BY <1>0, <1>1, Zenon
  <2>2. call' \in {Idle} \cup WriteCall \cup ReadCall
    BY <1>4, Zenon
  <2> QED BY <1>1, <2>1, <2>2, KeptFiles
<1>7. CallOK'
  <2>1. call'.tot <= call'.n /\ off'[call'.f] + call'.n <= size'[fip'[call'.f]]
    BY <1>1, <1>2, <1>4 DEF FilesKept
  <2> QED BY <1>1, <1>4, <1>5, <2>1, Zenon DEF CallOK, Ip
<1>8. Saved'
  <2>1. \A ip \in Inode : dinode[ip] = Dinode(addrs[ip], size[ip])
    BY <1>5, NotInRound, Zenon
  <2> QED BY <1>1, <2>1, Zenon DEF Saved, FilesKept
<1> QED BY <1>6, <1>7, <1>8, Zenon DEF BmapInv

\* What the running call moves next: part of one block.
LEMMA PartBounds ==
  ASSUME BmapInv, Transferring
  PROVE  /\ call.f \in File /\ Ip \in Inode /\ Pos \in Nat /\ off[call.f] \in Nat
         /\ call.tot \in Nat /\ call.n \in Nat /\ call.tot < call.n
         /\ Part \in Nat \ {0} /\ call.tot + Part <= call.n
         /\ (Pos % BSIZE) + Part <= BSIZE
         /\ Pos < MAXFILE * BSIZE
<1>0. call \in WriteCall \cup ReadCall /\ call.tot < call.n /\ pc = "idle"
  BY Kinds, Zenon DEF Transferring, BmapInv, BmapTypeOK
<1>1. call.f \in File /\ call.n \in Nat /\ call.tot \in Nat
  BY <1>0, Zenon DEF WriteCall, ReadCall
<1>2. Ip \in Inode /\ off[call.f] \in Nat /\ size[Ip] \in 0 .. MAXFILE * BSIZE
  BY <1>1, Zenon DEF Ip, BmapInv, BmapTypeOK
<1>3. Pos \in Nat /\ Pos = off[call.f] + call.tot
  BY <1>1, <1>2, SumBelow, Zenon DEF Pos
<1>4. Pos % BSIZE \in 0 .. BSIZE - 1
  BY <1>3, BmapConstants
<1>5. /\ Part \in Nat \ {0} /\ call.tot + Part <= call.n /\ (Pos % BSIZE) + Part <= BSIZE
  BY <1>0, <1>1, <1>4, BmapConstants DEF Part, Smaller
<1>6. off[call.f] + call.n <= MAXFILE * BSIZE
  <2>1. CASE call.kind = "read"
    <3>1. off[call.f] + call.n <= size[Ip]
      BY <2>1, Zenon DEF BmapInv, CallOK
    <3> QED BY <1>1, <1>2, <3>1, BmapConstants
  <2>2. CASE call.kind = "write"
    <3>1. InRound
      <4>1. call.n > 0
        BY <1>0, <1>1
      <4> QED BY <2>2, <4>1, Zenon DEF InRound
    <3> QED BY <3>1, Zenon DEF BmapInv, CallOK
  <2> QED BY <2>1, <2>2, Zenon DEF Transferring
<1>7. Pos < MAXFILE * BSIZE
  <2>1. MAXFILE * BSIZE \in Int
    BY BmapConstants
  <2> QED BY <1>0, <1>1, <1>2, <1>3, <1>6, <2>1, SumBelow, Zenon
<1> QED BY <1>0, <1>1, <1>2, <1>3, <1>5, <1>7

\* Where the running call is.
LEMMA HereFinds ==
  ASSUME BmapInv, Transferring \/ pc = "search"
  PROVE  /\ Ip \in Inode /\ Pos \div BSIZE \in 0 .. MAXFILE - 1
         /\ Place(addrs, blk, Ip, Here)
         /\ Addr(Here) = FileBlock(addrs, blk, Ip, Pos \div BSIZE)
<1>1. Ip \in Inode /\ Pos \in Nat /\ Pos < MAXFILE * BSIZE
  <2>1. CASE Transferring
    BY <2>1, PartBounds
  <2>2. CASE pc = "search"
    <3>1. /\ InRound /\ call.tot < call.n /\ off[call.f] + call.n <= MAXFILE * BSIZE
      BY <2>2, Zenon DEF BmapInv, CallOK
    <3>2. call \in WriteCall
      BY <3>1, Kinds, Zenon DEF InRound, BmapInv, BmapTypeOK
    <3>3. call.f \in File /\ call.n \in Nat /\ call.tot \in Nat
      BY <3>2, Zenon DEF WriteCall
    <3>4. Ip \in Inode /\ off[call.f] \in Nat
      BY <3>3, Zenon DEF Ip, BmapInv, BmapTypeOK
    <3> QED BY <3>1, <3>3, <3>4, BmapConstants DEF Pos
  <2> QED BY <2>1, <2>2
<1>2. Pos \div BSIZE \in 0 .. MAXFILE - 1
  BY <1>1, InFile, Zenon
<1> QED BY <1>1, <1>2, BmapFinds DEF Here

LEMMA ReadBlockKeeps ==
  ASSUME BmapInv, ReadBlock
  PROVE  BmapInv'
<1>1. /\ call.kind = "read" /\ Transferring /\ pc' = pc /\ off' = off /\ FilesKept
      /\ Addr(Here) # 0
      /\ call' = [call EXCEPT !.tot = @ + Part,
           !.got = @ \o [i \in 1 .. Part |-> blk[Addr(Here)][(Pos % BSIZE) + i - 1]]]
  BY Zenon DEF ReadBlock, FilesKept, vars, files
<1>2. /\ Part \in Nat /\ call.tot + Part <= call.n
  BY <1>1, PartBounds, Zenon
<1>3. call \in ReadCall
  BY <1>1, Kinds DEF BmapInv, BmapTypeOK
<1>4. [i \in 1 .. Part |-> blk[Addr(Here)][(Pos % BSIZE) + i - 1]] \in Seq(Int)
  <2>1. ASSUME NEW i \in 1 .. Part
        PROVE  blk[Addr(Here)][(Pos % BSIZE) + i - 1] \in Int
    <3>1. Pos \in Nat /\ (Pos % BSIZE) + Part <= BSIZE
      BY <1>1, PartBounds
    <3>2. Pos % BSIZE \in 0 .. BSIZE - 1
      BY <3>1, BmapConstants
    <3>3. (Pos % BSIZE) + i - 1 \in 0 .. BSIZE - 1
      BY <1>2, <3>1, <3>2, BmapConstants
    <3>4. Addr(Here) \in Bit
      <4>1. Addr(Here) \in used \ Meta
        BY <1>1, HereFinds, DataInUse DEF BmapInv
      <4> QED BY <4>1, Zenon DEF BmapInv, BmapTypeOK
    <3>5. blk \in [Bit -> [0 .. BSIZE - 1 -> Int]]
      BY Zenon DEF BmapInv, BmapTypeOK, Typed
    <3> QED BY <3>3, <3>4, <3>5, Zenon
  <2> QED BY <1>2, <2>1
<1>5. PICK g \in Seq(Int) : call' = [call EXCEPT !.tot = call.tot + Part, !.got = g]
  <2>1. call.got \in Seq(Int)
    BY <1>3, Zenon DEF ReadCall
  <2>2. call.got \o [i \in 1 .. Part |-> blk[Addr(Here)][(Pos % BSIZE) + i - 1]] \in Seq(Int)
    BY <1>4, <2>1
  <2> QED BY <1>1, <2>2, Zenon
<1>6. /\ call' \in ReadCall /\ call'.kind = "read" /\ call'.f = call.f /\ call'.n = call.n
      /\ call'.tot = call.tot + Part
  <2>1. call = [kind |-> "read", f |-> call.f, n |-> call.n, tot |-> call.tot,
                got |-> call.got] /\ call.f \in File /\ call.n \in Nat /\ call.tot \in Nat
    BY <1>3, Zenon DEF ReadCall
  <2>2. call' = [kind |-> "read", f |-> call.f, n |-> call.n, tot |-> call.tot + Part,
                 got |-> g]
    BY <1>3, <1>5, Zenon DEF ReadCall
  <2> QED BY <1>2, <2>1, <2>2 DEF ReadCall
<1>7. ~ InRound' /\ ~ InRound
  BY <1>1, <1>6 DEF InRound
<1>8. BmapTypeOK' /\ Owned(addrs, blk, used)' /\ Filled'
  <2>1. off' \in [File -> Nat] /\ pc' \in {"idle", "search", "panic"}
    BY <1>1, Zenon DEF BmapInv, BmapTypeOK
  <2>2. call' \in {Idle} \cup WriteCall \cup ReadCall
    BY <1>6, Zenon
  <2> QED BY <1>1, <2>1, <2>2, KeptFiles
<1>9. CallOK'
  <2>1. off[call.f] + call.n <= size[fip[call.f]]
    BY <1>1, Zenon DEF BmapInv, CallOK, Ip
  <2>2. call'.tot <= call'.n /\ off'[call'.f] + call'.n <= size'[fip'[call'.f]]
    BY <1>1, <1>2, <1>6, <2>1 DEF FilesKept
  <2>3. pc' = "idle"
    BY <1>1, Zenon DEF Transferring
  <2> QED BY <1>6, <1>7, <2>2, <2>3 DEF CallOK, Ip
<1>10. Saved'
  <2>1. \A ip \in Inode : dinode[ip] = Dinode(addrs[ip], size[ip])
    BY <1>7, NotInRound
  <2> QED BY <1>1, <2>1, Zenon DEF Saved, FilesKept
<1> QED BY <1>8, <1>9, <1>10, Zenon DEF BmapInv

\* A write with these fields.
AWrite(f, left, done, n, tot, seek, zero) ==
  [kind |-> "write", f |-> f, left |-> left, done |-> done, n |-> n, tot |-> tot,
   seek |-> seek, zero |-> zero]

LEMMA BeginWriteiKeeps ==
  ASSUME BmapInv, BeginWritei
  PROVE  BmapInv'
<1>1. call.kind = "write" /\ pc = "idle" /\ call.n = 0 /\ pc' = pc /\ FilesKept
  BY Zenon DEF BeginWritei, InWrite, FilesKept, vars, files
<1>2. call \in WriteCall /\ off \in [File -> Nat]
  BY <1>1, Kinds DEF BmapInv, BmapTypeOK
<1>3. call.f \in File /\ call.left \in Nat \ {0} /\ call.tot \in Nat
  BY <1>2, Zenon DEF WriteCall
<1>4. off[call.f] \in Nat /\ ~ InRound /\ call.tot <= call.n
  BY <1>1, <1>2, <1>3 DEF InRound, BmapInv, CallOK
<1>5. CASE FileWriteReturns(off[call.f], data)
  <2>1. Resting' /\ off' \in [File -> Nat]
    BY <1>1, <1>4, <1>5, WriteReturns DEF BmapInv
  <2> QED BY <1>1, <1>4, <2>1, RestingStep, Zenon
<1>6. ASSUME NEW n1, n1 = Smaller(call.left, MaxWrite),
             off[call.f] <= size[Ip], off[call.f] + n1 <= MAXFILE * BSIZE,
             call' = [call EXCEPT !.n = n1], UNCHANGED off
      PROVE  BmapInv'
  <2>1. n1 \in Nat \ {0} /\ n1 <= call.left /\ n1 <= MaxWrite
    BY <1>3, <1>6, BmapConstants, SmallerBounds, Zenon
  <2>2. /\ call' \in WriteCall /\ call'.kind = "write" /\ call'.f = call.f
        /\ call'.left = call.left /\ call'.n = n1 /\ call'.tot = call.tot
    <3>1. /\ call.done \in Nat /\ call.seek \in Nat \cup {-1} /\ call.zero \in Nat
          /\ call' = AWrite(call.f, call.left, call.done, n1, call.tot, call.seek, call.zero)
      BY <1>2, <1>6 DEF WriteCall, AWrite
    <3> QED BY <1>3, <2>1, <3>1 DEF AWrite, WriteCall
  <2>3. InRound' /\ call.tot = 0
    BY <1>1, <1>3, <1>4, <2>1, <2>2 DEF InRound
  <2>4. off' = off /\ fip' = fip /\ size' = size /\ addrs' = addrs /\ blk' = blk
    BY <1>1, <1>6, Zenon DEF FilesKept
  <2>5. BmapTypeOK' /\ Owned(addrs, blk, used)' /\ Filled'
    <3>1. call' \in {Idle} \cup WriteCall \cup ReadCall
      BY <2>2, Zenon
    <3>2. off' \in [File -> Nat] /\ pc' \in {"idle", "search", "panic"}
      BY <1>1, <1>2, <2>4, Zenon
    <3> QED BY <1>1, <3>1, <3>2, KeptFiles
  <2>6. Ip' = Ip /\ Pos' = off[call.f] /\ Ip \in Inode /\ size[Ip] \in 0 .. MAXFILE * BSIZE
    BY <1>3, <1>4, <2>2, <2>3, <2>4 DEF Ip, Pos, BmapInv, BmapTypeOK
  <2>7. Covered(addrs, blk, Ip, Pos)'
    <3>1. Covered(addrs, blk, Ip, size[Ip])
      BY <2>6, Zenon DEF BmapInv, Filled
    <3>2. Covered(addrs, blk, Ip, off[call.f])
      BY <1>4, <1>6, <2>6, <3>1, BmapConstants DEF Covered
    <3> QED BY <2>4, <2>6, <3>2, Zenon
  <2>8. CallOK'
    <3>1. call'.kind # "read"
      BY <2>2, Zenon
    <3>2. /\ call'.n <= call'.left /\ call'.n <= MaxWrite /\ call'.tot <= call'.n
      BY <2>1, <2>2, <2>3
    <3>3. off'[call'.f] <= size'[Ip'] /\ off'[call'.f] + call'.n <= MAXFILE * BSIZE
      BY <1>6, <2>2, <2>4, <2>6
    <3> QED BY <1>1, <2>7, <3>1, <3>2, <3>3, Zenon DEF CallOK
  <2>9. Saved'
    <3>1. \A ip \in Inode : dinode[ip] = Dinode(addrs[ip], size[ip])
      BY <1>4, NotInRound, Zenon
    <3> QED BY <1>1, <3>1, Zenon DEF Saved, FilesKept
  <2> QED BY <2>5, <2>8, <2>9, Zenon DEF BmapInv
<1> QED BY <1>5, <1>6, Zenon DEF BeginWritei

\* A search begins, goes on or fails; the call waits.
LEMMA WaitingKeeps ==
  ASSUME BmapInv, FilesKept, off' = off, call' = call,
         pc' \in {"idle", "search", "panic"}, InRound, call.tot < call.n,
         pc' = "search" => FileBlock(addrs, blk, Ip, Pos \div BSIZE) = 0
  PROVE  BmapInv'
<1>1. /\ fip' = fip /\ size' = size /\ addrs' = addrs /\ blk' = blk /\ dinode' = dinode
  BY Zenon DEF FilesKept
<1>2. Ip' = Ip /\ Pos' = Pos /\ (InRound' <=> InRound)
  BY <1>1, Zenon DEF Ip, Pos, InRound
<1>3. BmapTypeOK' /\ Owned(addrs, blk, used)' /\ Filled'
  <2>1. off' \in [File -> Nat] /\ call' \in {Idle} \cup WriteCall \cup ReadCall
    BY Zenon DEF BmapInv, BmapTypeOK
  <2> QED BY <2>1, KeptFiles
<1>4. CallOK'
  <2>1. CallOK
    BY Zenon DEF BmapInv
  <2>2. FileBlock(addrs, blk, Ip, Pos \div BSIZE)' = FileBlock(addrs, blk, Ip, Pos \div BSIZE)
    BY <1>1, <1>2, Zenon
  <2>3. Covered(addrs, blk, Ip, Pos) => Covered(addrs, blk, Ip, Pos)'
    BY <1>1, <1>2, Zenon
  <2> QED BY <1>1, <1>2, <2>1, <2>2, <2>3, Zenon DEF CallOK
<1>5. Saved'
  BY <1>1, <1>2, Zenon DEF BmapInv, Saved
<1> QED BY <1>3, <1>4, <1>5, Zenon DEF BmapInv

\* A read never comes to a hole.
LEMMA AllocateKeeps ==
  ASSUME BmapInv, Allocate
  PROVE  BmapInv'
<1>1. /\ Transferring /\ Addr(Here) = 0 /\ off' = off /\ call' = call
      /\ UNCHANGED <<blk, addrs, size, dinode, files>>
      /\ IF call.kind = "write" THEN balloc
         ELSE pc' = "outside of trans" /\ UNCHANGED <<used, lastballoc, lastbi, b, bi, ret>>
  BY Zenon DEF Allocate
<1>2. /\ FileBlock(addrs, blk, Ip, Pos \div BSIZE) = 0 /\ Ip \in Inode
  BY <1>1, HereFinds, Zenon
<1>3. call.kind = "write"
  <2> SUFFICES ASSUME call.kind = "read" PROVE FALSE
    BY <1>1, Zenon DEF Transferring
  <2>1. /\ Pos \in Nat /\ off[call.f] \in Nat /\ call.tot \in Nat /\ call.n \in Nat
        /\ call.tot < call.n
    BY <1>1, PartBounds, Zenon
  <2>2. off[call.f] + call.n <= size[Ip] /\ size[Ip] \in 0 .. MAXFILE * BSIZE
    BY <1>2, Zenon DEF BmapInv, CallOK, BmapTypeOK
  <2>3. Pos \in 0 .. size[Ip] - 1
    BY <2>1, <2>2, BmapConstants DEF Pos
  <2> QED BY <1>2, <2>3, Zenon DEF BmapInv, Filled, Covered
<1>4. pc' = "search" /\ FilesKept
  BY <1>1, <1>3, Zenon DEF balloc, FilesKept, files
<1>5. InRound /\ call.tot < call.n
  <2>1. call.tot \in Nat /\ call.n \in Nat /\ call.tot < call.n
    BY <1>1, PartBounds, Zenon
  <2> QED BY <1>3, <2>1 DEF InRound
<1> QED BY <1>1, <1>2, <1>4, <1>5, WaitingKeeps

LEMMA SearchingKeeps ==
  ASSUME BmapInv, Searching
  PROVE  BmapInv'
<1>1. /\ pc = "search" /\ pc' \in {"search", "panic"} /\ FilesKept
      /\ off' = off /\ call' = call
  BY Zenon DEF Searching, TryNext, FilesKept, files
<1>2. InRound /\ call.tot < call.n /\ FileBlock(addrs, blk, Ip, Pos \div BSIZE) = 0
  BY <1>1, Zenon DEF BmapInv, CallOK
<1> QED BY <1>1, <1>2, WaitingKeeps
=============================================================================
