-------------------------------- MODULE Bmap --------------------------------
(***************************************************************************)
(* The contents of files: bmap(), itrunc(), readi() and writei() of        *)
(* kern/fs.c, fileread() and filewrite() of kern/file.c, sys_lseek() of    *)
(* kern/sysfile.c, over the block allocator of Balloc.                     *)
(*                                                                         *)
(* A block is an array of BSIZE words, each a byte of data or the address  *)
(* of a block; NINDIRECT of them are addresses in an indirect block.  An   *)
(* open file writes its own number as every byte.  A step is one round of  *)
(* the loop of readi() or writei(), or one bit balloc() looks at for it.   *)
(***************************************************************************)
EXTENDS Balloc, Sequences, FiniteSets

CONSTANTS
  BSIZE, NDIRECT, NINDIRECT,
  MAXOPBLOCKS,    \* blocks one transaction is meant to log at most
  SBUFSIZE,       \* bytes in seekbuf
  Inode,          \* the files of the file system, by number
  File,           \* open files, by positive numbers
  Counts,         \* the lengths of reads and writes
  AnySeek,        \* FALSE: only the seeks for which sys_lseek() is right
  MaxCalls        \* bound: calls that change a file

ASSUME BmapAssumption ==
  /\ BSIZE \in Nat \ {0} /\ NDIRECT \in Nat /\ NINDIRECT \in 1 .. BSIZE
  /\ MAXOPBLOCKS \in Nat /\ MAXOPBLOCKS >= 6 /\ SBUFSIZE \in Nat \ {0}
  /\ (MAXOPBLOCKS - 4) \div 2 <= NINDIRECT
  /\ File \subseteq Nat \ {0} /\ Counts \subseteq Nat \ {0}
  /\ AnySeek \in BOOLEAN

\* Block 0 is the boot block: an address 0 leads to no block.
ASSUME FileSystemAssumption == NMETA > 0

MAXFILE == NDIRECT + NINDIRECT * NINDIRECT
JUNK == -1      \* what lies in memory behind seekbuf
Zeros == [i \in 0 .. BSIZE - 1 |-> 0]

VARIABLES
  blk,                \* the contents of the blocks
  addrs, size,        \* of the inodes, in memory
  dinode,             \* what iupdate() last wrote of them
  fip, off, writable, \* of the open files
  call,               \* the running system call
  logged,             \* the blocks of the running or last transaction
  data, calls         \* history: what each file should hold; calls so far

fvars == <<vars, blk, addrs, size, dinode, fip, off, writable, call, logged,
           data, calls>>
files == <<fip, writable>>

Idle == [kind |-> "idle"]
Dinode(a, n) == [addrs |-> a, size |-> n]
NoAddrs == [i \in 0 .. NDIRECT |-> 0]

\* Any files may be open, on one inode or on several.
BmapInit ==
  /\ Init
  /\ blk = [n \in Bit |-> Zeros]
  /\ addrs = [ip \in Inode |-> NoAddrs]
  /\ size = [ip \in Inode |-> 0]
  /\ dinode = [ip \in Inode |-> Dinode(NoAddrs, 0)]
  /\ fip \in [File -> Inode] /\ \A f \in File : fip[f] <= f
  /\ writable \in [File -> BOOLEAN]
  /\ off = [f \in File |-> 0]
  /\ call = Idle /\ logged = {}
  /\ data = [ip \in Inode |-> <<>>] /\ calls = 0

-----------------------------------------------------------------------------
\* The places that hold the address of a block: in an inode or in a block.
InInode(ip, i) == [blk |-> 0, ip |-> ip, i |-> i]
InBlock(n, i) == [blk |-> n, ip |-> 0, i |-> i]
Addr(slot) ==
  IF slot.blk = 0 THEN addrs[slot.ip][slot.i] ELSE blk[slot.blk][slot.i]

\* Mutant: the remainder is taken where the quotient belongs.
SecondSwapped(ip, bn) ==
  InBlock(Addr(InInode(ip, NDIRECT)), (bn - NDIRECT) % NINDIRECT)

\* On the way to block bn past the direct ones: the top indirect block, the
\* second one, the block itself.
Top(ip) == InInode(ip, NDIRECT)
Second(ip, bn) == InBlock(Addr(Top(ip)), (bn - NDIRECT) \div NINDIRECT)
Third(ip, bn) == InBlock(Addr(Second(ip, bn)), (bn - NDIRECT) % NINDIRECT)

\* bmap(): the place it comes to for block bn of ip, the first empty one on
\* the way, or else the one that holds the address of the block.
bmap(ip, bn) ==
  IF bn < NDIRECT THEN InInode(ip, bn)
  ELSE IF Addr(Top(ip)) = 0 THEN Top(ip)
  ELSE IF Addr(Second(ip, bn)) = 0 THEN Second(ip, bn)
  ELSE Third(ip, bn)

Bitmap(n) == <<"bitmap", n \div BPB>>
Block(n) == <<"block", n>>
InodeBlock(ip) == <<"inode", ip>>

\* Where the running call is in its file, and the place bmap() gives for it.
Ip == fip[call.f]
Pos == off[call.f] + call.tot
Here == bmap(Ip, Pos \div BSIZE)
Transferring == call.kind \in {"read", "write"} /\ call.tot < call.n /\ pc = "idle"

\* bmap() finds an empty place and calls balloc().  A read is not in a
\* transaction: log_write() panics.
Allocate ==
  /\ Transferring
  /\ Addr(Here) = 0
  /\ IF call.kind = "write"
       THEN balloc
       ELSE /\ pc' = "outside of trans"
            /\ UNCHANGED <<used, lastballoc, lastbi, b, bi, ret>>
  /\ UNCHANGED <<blk, addrs, size, dinode, files, off, call, logged, data, calls>>

\* Mutant: the block keeps what its last owner left in it.
AllocatedNotCleared ==
  /\ Found
  /\ LET slot == Here
     IN  /\ addrs' = IF slot.blk = 0 THEN [addrs EXCEPT ![Ip][slot.i] = ret'] ELSE addrs
         /\ blk' = IF slot.blk = 0 THEN blk ELSE [blk EXCEPT ![slot.blk][slot.i] = ret']
         /\ logged' = logged \cup {Bitmap(ret'), Block(ret')} \cup
              (IF slot.blk = 0 THEN {} ELSE {Block(slot.blk)})
  /\ UNCHANGED <<size, dinode, files, off, call, data, calls>>

\* balloc() clears the block and returns; bmap() stores its address, and logs
\* the block it stores it in.
Allocated ==
  /\ Found
  /\ LET slot == Here
         cleared == [blk EXCEPT ![ret'] = Zeros]
     IN  /\ addrs' = IF slot.blk = 0 THEN [addrs EXCEPT ![Ip][slot.i] = ret'] ELSE addrs
         /\ blk' = IF slot.blk = 0 THEN cleared
                   ELSE [cleared EXCEPT ![slot.blk][slot.i] = ret']
         /\ logged' = logged \cup {Bitmap(ret'), Block(ret')} \cup
              (IF slot.blk = 0 THEN {} ELSE {Block(slot.blk)})
  /\ UNCHANGED <<size, dinode, files, off, call, data, calls>>

Searching ==
  /\ TryNext
  /\ UNCHANGED <<blk, addrs, size, dinode, files, off, call, logged, data, calls>>

-----------------------------------------------------------------------------
Smaller(m, n) == IF m < n THEN m ELSE n
Part == Smaller(call.n - call.tot, BSIZE - (Pos % BSIZE))

\* Mutant: a long write is not cut.
MaxWriteNone == MAXFILE * BSIZE

\* filewrite() hands writei() at most this many bytes in one transaction.
MaxWrite == ((MAXOPBLOCKS - 1 - 1 - 2) \div 2) * BSIZE

\* The byte at index k of the buffer that is written.
Source(k) ==
  IF call.seek = -1 THEN call.f ELSE IF k < SBUFSIZE THEN 0 ELSE JUNK

\* A call of filewrite() for n bytes.  seek is the new offset when
\* sys_lseek() makes the call, with zero bytes still to add, and -1 otherwise.
FileWrite(f, n, seek, zero) ==
  [kind |-> "write", f |-> f, left |-> n, done |-> 0, n |-> 0, tot |-> 0,
   seek |-> seek, zero |-> zero]

sys_write(f, n) ==
  /\ call = Idle /\ pc = "idle" /\ calls < MaxCalls
  /\ writable[f]
  /\ call' = FileWrite(f, n, -1, 0)
  /\ calls' = calls + 1
  /\ UNCHANGED <<vars, blk, addrs, size, dinode, files, off, logged, data>>

\* What s holds after the bytes from position p on are those of t.
Overwrite(s, p, t) ==
  [i \in 1 .. (IF p + Len(t) > Len(s) THEN p + Len(t) ELSE Len(s)) |->
     IF i \in p + 1 .. p + Len(t) THEN t[i - p] ELSE s[i]]
Padded(s, n) == Overwrite(s, Len(s), [i \in 1 .. n - Len(s) |-> 0])

\* filewrite() returns, and the loop of sys_lseek() goes on if it made the
\* call, with the file at offset o and d what the files should hold.
FileWriteReturns(o, d) ==
  /\ IF call.seek # -1 /\ call.zero > SBUFSIZE
       THEN /\ call' = FileWrite(call.f, call.zero - SBUFSIZE, call.seek,
                                 call.zero - SBUFSIZE)
            /\ off' = [off EXCEPT ![call.f] = o]
            /\ data' = d
       ELSE /\ call' = Idle
            /\ off' = [off EXCEPT ![call.f] = IF call.seek = -1 THEN o ELSE call.seek]
            /\ data' = IF call.seek = -1 THEN d
                       ELSE [d EXCEPT ![Ip] = Padded(@, call.seek)]

InWrite == call.kind = "write" /\ pc = "idle"

\* begin_op(), and the checks of writei(); on an error filewrite() gives up.
BeginWritei ==
  /\ InWrite /\ call.n = 0
  /\ logged' = {}
  /\ LET n1 == Smaller(call.left, MaxWrite)
     IN  \/ /\ off[call.f] <= size[Ip] /\ off[call.f] + n1 <= MAXFILE * BSIZE
            /\ call' = [call EXCEPT !.n = n1]
            /\ UNCHANGED <<off, data>>
         \/ /\ off[call.f] > size[Ip] \/ off[call.f] + n1 > MAXFILE * BSIZE
            /\ FileWriteReturns(off[call.f], data)
  /\ UNCHANGED <<vars, blk, addrs, size, dinode, files, calls>>

\* One round of the loop of writei(): the part of the data in one block.
WriteBlock ==
  /\ Transferring /\ call.kind = "write"
  /\ Addr(Here) # 0
  /\ LET n == Addr(Here)
         first == Pos % BSIZE
     IN  /\ blk' = [blk EXCEPT ![n] = [i \in DOMAIN @ |->
              IF i \in first .. first + Part - 1
                THEN Source(call.done + call.tot + i - first) ELSE @[i]]]
         /\ logged' = logged \cup {Block(n)}
  /\ call' = [call EXCEPT !.tot = @ + Part]
  /\ UNCHANGED <<vars, addrs, size, dinode, files, off, data, calls>>

Written ==
  IF call.seek # -1 THEN data
  ELSE [data EXCEPT ![Ip] = Overwrite(@, off[call.f], [i \in 1 .. call.n |-> call.f])]

\* Mutant: only a new block makes the file grow.
GrowsByBlocks == Pos \div BSIZE > size[Ip] \div BSIZE

\* writei() went past the end of the file.
Grows == Pos > size[Ip]

\* The end of writei(), which writes the inode only if the file grew, and of
\* the round of filewrite(), with the next one or the return.
EndWritei ==
  /\ InWrite /\ call.n > 0 /\ call.tot = call.n
  /\ IF Grows
       THEN /\ size' = [size EXCEPT ![Ip] = Pos]
            /\ dinode' = [dinode EXCEPT ![Ip] = Dinode(addrs[Ip], Pos)]
            /\ logged' = logged \cup {InodeBlock(Ip)}
       ELSE UNCHANGED <<size, dinode, logged>>
  /\ IF call.left > call.n
       THEN /\ call' = [call EXCEPT !.left = @ - call.n, !.done = @ + call.n,
                                    !.n = 0, !.tot = 0]
            /\ off' = [off EXCEPT ![call.f] = Pos]
            /\ data' = Written
       ELSE FileWriteReturns(Pos, Written)
  /\ UNCHANGED <<vars, blk, addrs, files, calls>>

-----------------------------------------------------------------------------
\* Mutant: the read is not cut at the size.
sys_readUncut(f, n) ==
  /\ call = Idle /\ pc = "idle"
  /\ off[f] < size[fip[f]]
  /\ call' = [kind |-> "read", f |-> f, n |-> n, tot |-> 0, got |-> <<>>]
  /\ UNCHANGED <<vars, blk, addrs, size, dinode, files, off, logged, data, calls>>

\* fileread() and the checks of readi(), which cuts the read at the size.
sys_read(f, n) ==
  /\ call = Idle /\ pc = "idle"
  /\ off[f] < size[fip[f]]
  /\ call' = [kind |-> "read", f |-> f, n |-> Smaller(n, size[fip[f]] - off[f]),
              tot |-> 0, got |-> <<>>]
  /\ UNCHANGED <<vars, blk, addrs, size, dinode, files, off, logged, data, calls>>

\* One round of the loop of readi().
ReadBlock ==
  /\ Transferring /\ call.kind = "read"
  /\ Addr(Here) # 0
  /\ call' = [call EXCEPT !.tot = @ + Part,
       !.got = @ \o [i \in 1 .. Part |-> blk[Addr(Here)][(Pos % BSIZE) + i - 1]]]
  /\ UNCHANGED <<vars, blk, addrs, size, dinode, files, off, logged, data, calls>>

ReadReturns ==
  /\ call.kind = "read" /\ call.tot = call.n
  /\ off' = [off EXCEPT ![call.f] = Pos]
  /\ call' = Idle
  /\ UNCHANGED <<vars, blk, addrs, size, dinode, files, logged, data, calls>>

\* The seeks past the end that sys_lseek() gets right: it fills the file from
\* the old offset on, not from its end, and its buffer has SBUFSIZE bytes.
GoodSeek(f, newoff) ==
  off[f] = size[fip[f]] /\ newoff - size[fip[f]] <= SBUFSIZE

\* sys_lseek(): within the file, or past its end, where it writes zeroes.
sys_lseek(f, newoff) ==
  /\ call = Idle /\ pc = "idle" /\ calls < MaxCalls
  /\ calls' = calls + 1
  /\ LET zerosize == newoff - size[fip[f]]
     IN  \/ /\ zerosize <= 0 \/ ~writable[f]
            /\ off' = [off EXCEPT ![f] = newoff]
            /\ UNCHANGED call
         \/ /\ zerosize > 0 /\ writable[f]
            /\ AnySeek \/ GoodSeek(f, newoff)
            /\ call' = FileWrite(f, zerosize, newoff, zerosize)
            /\ UNCHANGED off
  /\ UNCHANGED <<vars, blk, addrs, size, dinode, files, logged, data>>

\* The places of an inode, and of the indirect blocks it leads to, that hold
\* an address.
HoldAddr(slots) == {s \in slots : Addr(s) # 0}
Entries(slots) == {InBlock(Addr(s), i) : s \in slots, i \in 0 .. NINDIRECT - 1}
InodeSlots(ip) == HoldAddr({InInode(ip, i) : i \in 0 .. NDIRECT})
TopSlots(ip) == HoldAddr(Entries(HoldAddr({Top(ip)})))
SecondSlots(ip) == HoldAddr(Entries(TopSlots(ip)))
Slots(ip) == InodeSlots(ip) \cup TopSlots(ip) \cup SecondSlots(ip)
Blocks(ip) == {Addr(s) : s \in Slots(ip)}

\* Mutant: the second-level indirect blocks are forgotten.
itruncKeepsSecond(ip) ==
  /\ call = Idle /\ pc = "idle" /\ calls < MaxCalls
  /\ calls' = calls + 1
  /\ used' = used \ {Addr(s) : s \in InodeSlots(ip) \cup SecondSlots(ip)}
  /\ addrs' = [addrs EXCEPT ![ip] = NoAddrs]
  /\ size' = [size EXCEPT ![ip] = 0]
  /\ dinode' = [dinode EXCEPT ![ip] = Dinode(NoAddrs, 0)]
  /\ logged' = {Bitmap(n) : n \in Blocks(ip)} \cup {InodeBlock(ip)}
  /\ data' = [data EXCEPT ![ip] = <<>>]
  /\ UNCHANGED <<lastballoc, lastbi, pc, b, bi, ret, blk, files, off, call>>

\* bfree() would find a block free: it is not in use, or was freed before, by
\* another place that leads to it.
FreedTwice(ip) ==
  \E s \in Slots(ip) : \/ Addr(s) \notin used
                       \/ \E t \in Slots(ip) \ {s} : Addr(t) = Addr(s)

\* itrunc(), called by an open() with O_TRUNC.
itrunc(ip) ==
  /\ call = Idle /\ pc = "idle" /\ calls < MaxCalls
  /\ calls' = calls + 1
  /\ pc' = IF FreedTwice(ip) THEN "freeing free block" ELSE pc
  /\ used' = used \ Blocks(ip)
  /\ addrs' = [addrs EXCEPT ![ip] = NoAddrs]
  /\ size' = [size EXCEPT ![ip] = 0]
  /\ dinode' = [dinode EXCEPT ![ip] = Dinode(NoAddrs, 0)]
  /\ logged' = {Bitmap(n) : n \in Blocks(ip)} \cup {InodeBlock(ip)}
  /\ data' = [data EXCEPT ![ip] = <<>>]
  /\ UNCHANGED <<lastballoc, lastbi, b, bi, ret, blk, files, off, call>>

BmapNext ==
  \/ \E f \in File, n \in Counts : sys_write(f, n) \/ sys_read(f, n)
  \/ \E f \in File, o \in 0 .. MAXFILE * BSIZE : sys_lseek(f, o)
  \/ \E ip \in Inode : itrunc(ip)
  \/ BeginWritei \/ WriteBlock \/ EndWritei
  \/ ReadBlock \/ ReadReturns
  \/ Allocate \/ Allocated \/ Searching

BmapSpec == BmapInit /\ [][BmapNext]_fvars
BmapFairSpec == BmapSpec /\ WF_fvars(Allocated \/ Searching)

-----------------------------------------------------------------------------
\* A file holds exactly what the calls of write(), lseek() and open() with
\* O_TRUNC make of it: every byte of its size is found where bmap() looks for
\* it, with the value last written there, also when the files share offsets,
\* are cut under an open file, or reuse each other's blocks.
FileHoldsData ==
  call = Idle /\ pc = "idle" =>
    \A ip \in Inode :
      /\ size[ip] = Len(data[ip])
      /\ \A k \in 0 .. size[ip] - 1 :
           /\ Addr(bmap(ip, k \div BSIZE)) # 0
           /\ blk[Addr(bmap(ip, k \div BSIZE))][k % BSIZE] = data[ip][k + 1]

\* lseek() does not change what a file holds: as the comments in sys_lseek()
\* have it, a seek past the end is there to "add to the file".
LseekKeepsData ==
  call = Idle /\ pc = "idle" =>
    \A ip \in Inode : \A k \in 0 .. Smaller(size[ip], Len(data[ip])) - 1 :
      blk[Addr(bmap(ip, k \div BSIZE))][k % BSIZE] = data[ip][k + 1]

\* A read returns the bytes of the file from its offset on, and moves the
\* offset past them.
ReadReturnsData ==
  [][call.kind = "read" /\ call' = Idle =>
       /\ off[call.f] + call.n <= Len(data[Ip])
       /\ call.got = SubSeq(data[Ip], off[call.f] + 1, off[call.f] + call.n)
       /\ off'[call.f] = off[call.f] + Len(call.got)]_fvars

\* Between calls the blocks in use are those of mkfs and those that inodes
\* lead to, each from one place only: itrunc() gives back exactly what bmap()
\* took, and no two files share a block.
BlocksAccountedFor ==
  call = Idle /\ pc = "idle" =>
    /\ used = 0 .. NMETA - 1 \cup UNION {Blocks(ip) : ip \in Inode}
    /\ \A ip, jp \in Inode : \A s \in Slots(ip), t \in Slots(jp) :
         Addr(s) = Addr(t) => s = t

\* No read ever comes to a hole, where bmap() would allocate outside of a
\* transaction, and itrunc() never frees a block twice.
NoOtherPanic == pc \notin {"outside of trans", "freeing free block"}

\* Between calls the inodes on disk are those in memory, although writei()
\* writes the inode only when the size changes.
InodeWritten ==
  call = Idle /\ pc = "idle" =>
    \A ip \in Inode : dinode[ip] = Dinode(addrs[ip], size[ip])

\* One transaction logs at most the inode, the blocks of an unaligned write,
\* the top indirect block, two of the second level, and the bitmap.
TransactionBounded ==
  Cardinality(logged) <=
    1 + ((MAXOPBLOCKS - 4) \div 2 + 1) + 1 + 2 + NBITS \div BPB
=============================================================================
