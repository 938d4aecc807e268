-------------------------------- MODULE Ch375 --------------------------------
(***************************************************************************)
(* The buffer cache over the CH375 disk controller: blkinit() and blkrw()  *)
(* of kern/usbblk.c, and read_block(), write_block() and irq5_handler of   *)
(* kern/asmcode.s.                                                         *)
(*                                                                         *)
(* A block goes over the bus in NPACKET packets.  For every command the    *)
(* driver puts $FF in CH375_STATUS, sends the command and, unless the      *)
(* command moves a packet, polls CH375_STATUS until the interrupt handler  *)
(* has put there the status the controller reports.  Meanwhile the whole   *)
(* machine waits, so a buffer is changed when its transfer is over.        *)
(***************************************************************************)
EXTENDS BufCache

CONSTANTS
  NPACKET,   \* packets in a block
  Value,     \* what a packet may hold
  Junk       \* what the bus gives when no packet is there

ASSUME PacketAssumption ==
  /\ NPACKET \in Nat \ {0} /\ MaxRef \in Nat \ {0}
  /\ Content \subseteq [1 .. NPACKET -> Value]

NONE == "$FF"

VARIABLES
  status,    \* CH375_STATUS
  jobs,      \* the transfers that the running call of the cache needs
  drv,       \* the driver: step i of a command, packets to go, packets read
  dev,       \* the controller
  settled    \* history: buffers and disk when the last call of the cache ended

driverVars == <<status, jobs, drv, dev>>
allVars == <<cacheVars, driverVars, settled>>

Job(op, b, blk) == [op |-> op, b |-> b, blk |-> blk]
Command(cmd) == [i |-> 1, cmd |-> cmd, count |-> 0, data |-> <<>>]
Resting == [i |-> 0, cmd |-> "none", count |-> 0, data |-> <<>>]

\* read_block() or write_block() is called for a job.
Begin(job) == [Command(job.op) EXCEPT !.count = NPACKET]

\* The kernel starts blkinit(), the controller has been reset.
DriverInit ==
  /\ CacheInit
  /\ status = NONE /\ jobs = <<>>
  /\ drv = Command("SET_USB_MODE")
  /\ dev = [busy |-> FALSE, irq |-> NONE, op |-> "none", blk |-> NoBlock,
            packet |-> 0, held |-> Junk]
  /\ settled = [buf |-> buf, disk |-> disk]

-----------------------------------------------------------------------------
\* Mutant: the status is cleared after the command was sent.
StepsClearLate == <<"send", "clear", "poll">>

\* The steps of a command.
Steps == <<"clear", "send", "poll">>
At(step) == ~panicked /\ drv.i # 0 /\ Steps[drv.i] = step

\* Mutant: the old status is left where it is.
ClearNot ==
  /\ At("clear")
  /\ drv' = [drv EXCEPT !.i = @ + 1]
  /\ UNCHANGED <<cacheVars, status, jobs, dev, settled>>

Clear ==
  /\ At("clear")
  /\ status' = NONE
  /\ drv' = [drv EXCEPT !.i = @ + 1]
  /\ UNCHANGED <<cacheVars, jobs, dev, settled>>

Transfer == drv.cmd \in {"DISK_READ", "DISK_WRITE", "USB_DATA", "DISK_GO"}
Reading == jobs[1].op = "DISK_READ"

\* A command that the controller answers with an interrupt: blkinit()'s two,
\* the start of a transfer, or the wish for the next packet, which puts the
\* packet before it on the disk when the transfer is a write.
SendCommand ==
  /\ At("send") /\ drv.cmd # "USB_DATA"
  /\ drv' = [drv EXCEPT !.i = @ + 1, !.count = IF drv.cmd = "DISK_GO" THEN @ - 1 ELSE @]
  /\ dev' = IF drv.cmd = "DISK_GO"
               THEN [dev EXCEPT !.busy = TRUE, !.packet = @ + 1]
             ELSE IF drv.cmd \in {"DISK_READ", "DISK_WRITE"}
               THEN [dev EXCEPT !.busy = TRUE, !.op = drv.cmd, !.blk = jobs[1].blk,
                                !.packet = 1]
             ELSE [dev EXCEPT !.busy = TRUE, !.op = drv.cmd]
  /\ disk' = IF drv.cmd = "DISK_GO" /\ dev.op = "DISK_WRITE"
               THEN [disk EXCEPT ![dev.blk][dev.packet] = dev.held] ELSE disk
  /\ UNCHANGED <<buf, mru, last, panicked, status, jobs, settled>>

\* The packet the controller has ready; after a failure it has none.
Ready == ~dev.busy /\ dev.irq = NONE /\ dev.op # "DISCONNECT"
Packet == IF Ready THEN disk[dev.blk][dev.packet] ELSE Junk

\* CMD_RD_USB_DATA or CMD_WR_USB_DATA, and a packet.
SendData ==
  /\ At("send") /\ drv.cmd = "USB_DATA"
  /\ drv' = [drv EXCEPT !.i = 1, !.cmd = "DISK_GO",
               !.data = IF Reading THEN Append(@, Packet) ELSE @]
  /\ dev' = IF Reading THEN dev
            ELSE [dev EXCEPT !.held = IF Ready
                    THEN buf[jobs[1].b].data[NPACKET - drv.count + 1] ELSE Junk]
  /\ UNCHANGED <<cacheVars, status, jobs, settled>>

\* The controller has done what it was told, and asks for an interrupt,
Answer ==
  /\ dev.busy
  /\ dev' = [dev EXCEPT !.busy = FALSE, !.irq =
       IF dev.op = "SET_USB_MODE" THEN "CONNECT"
       ELSE IF dev.op = "DISK_INIT" \/ dev.packet > NPACKET THEN "SUCCESS"
       ELSE dev.op]
  /\ UNCHANGED <<cacheVars, status, jobs, drv, settled>>

\* or it could not, gives the transfer up and reports something else.
Fail ==
  /\ dev.busy
  /\ dev' = [dev EXCEPT !.busy = FALSE, !.irq = "DISCONNECT", !.op = "DISCONNECT"]
  /\ UNCHANGED <<cacheVars, status, jobs, drv, settled>>

\* The interrupt handler fetches the status, which ends the request.
irq5_handler ==
  /\ dev.irq # NONE
  /\ status' = dev.irq
  /\ dev' = [dev EXCEPT !.irq = NONE]
  /\ UNCHANGED <<cacheVars, jobs, drv, settled>>

-----------------------------------------------------------------------------
Expected ==
  IF drv.cmd = "SET_USB_MODE" THEN "CONNECT"
  ELSE IF drv.cmd = "DISK_INIT" \/ drv.count = 0 THEN "SUCCESS"
  ELSE jobs[1].op

\* Mutant: any status will do.
GoodAny == status # NONE
Good == status = Expected

\* A status has come that is not the expected one: blkinit() or blkrw() panics.
PollFails ==
  /\ At("poll") /\ status # NONE /\ ~Good
  /\ panicked' = TRUE
  /\ UNCHANGED <<buf, mru, disk, last, driverVars, settled>>

\* blkinit() goes on to its second command, or is done.
PollInit ==
  /\ At("poll") /\ status # NONE /\ Good /\ ~Transfer
  /\ drv' = IF drv.cmd = "SET_USB_MODE" THEN Command("DISK_INIT") ELSE Resting
  /\ UNCHANGED <<cacheVars, status, jobs, dev, settled>>

\* The next packet can go over the bus.
PollPacket ==
  /\ At("poll") /\ status # NONE /\ Good /\ Transfer /\ drv.count > 0
  /\ drv' = [drv EXCEPT !.i = 1, !.cmd = "USB_DATA"]
  /\ UNCHANGED <<cacheVars, status, jobs, dev, settled>>

\* What the finished transfer makes of a buffer.
Transferred(r) ==
  IF Reading THEN [Recycled(jobs[1].blk) EXCEPT !.data = drv.data] ELSE blkrw(r)

\* The block is transferred: on to the next job, or the call is over.
PollEnd ==
  /\ At("poll") /\ status # NONE /\ Good /\ Transfer /\ drv.count = 0
  /\ buf' = [buf EXCEPT ![jobs[1].b] = Transferred(@)]
  /\ jobs' = Tail(jobs)
  /\ drv' = IF Len(jobs) = 1 THEN Resting ELSE Begin(jobs[2])
  /\ settled' = IF Len(jobs) = 1 THEN [buf |-> buf', disk |-> disk] ELSE settled
  /\ UNCHANGED <<mru, disk, last, panicked, status, dev>>

-----------------------------------------------------------------------------
Rests == ~panicked /\ drv = Resting

\* A call of the cache that needs no transfer.
NoTransfer(call) ==
  /\ Rests /\ call
  /\ settled' = [buf |-> buf', disk |-> disk']
  /\ UNCHANGED driverVars

\* A call of the cache that needs some.
Start(transfers) ==
  /\ Rests /\ transfers # <<>>
  /\ jobs' = transfers
  /\ drv' = Begin(transfers[1])
  /\ UNCHANGED <<cacheVars, status, dev, settled>>

\* Mutant: no look for the block before a buffer is recycled.
StartCleanUnchecked(blk, b) ==
  IsLast(Clean, b) /\ Start(<<Job("DISK_READ", b, blk)>>)

\* bread(): as in BufCache, with the transfers in place of their effect.
StartClean(blk, b) ==
  /\ Cached(blk) = {} /\ IsLast(Clean, b)
  /\ Start(<<Job("DISK_READ", b, blk)>>)

StartEvict(blk, b) ==
  /\ Cached(blk) = {} /\ Clean = {} /\ IsLast(Unused, b)
  /\ Start(<<Job("DISK_WRITE", b, buf[b].blockno), Job("DISK_READ", b, blk)>>)

\* bflush(): the dirty buffers in the order of the array.
StartFlush ==
  LET dirty == {b \in Buf : buf[b].dirty} IN
  \E n \in 1 .. NBUF : \E order \in [1 .. n -> dirty] :
    /\ \A k, m \in DOMAIN order : k < m => order[k] < order[m]
    /\ \A b \in dirty : \E k \in DOMAIN order : order[k] = b
    /\ Start([k \in DOMAIN order |->
                Job("DISK_WRITE", order[k], buf[order[k]].blockno)])

Driver == Clear \/ SendCommand \/ SendData \/ PollFails \/ PollInit
          \/ PollPacket \/ PollEnd

DriverNext ==
  \/ Driver
  \/ Answer \/ Fail
  \/ irq5_handler
  \/ \E blk \in Block, b \in Buf :
       \/ /\ buf[b].refcnt < MaxRef
          /\ NoTransfer(BreadCached(blk, b) /\ UNCHANGED <<mru, last>>)
       \/ StartClean(blk, b)
       \/ StartEvict(blk, b)
  \/ \E blk \in Block : NoTransfer(BreadPanic(blk))
  \/ \E b \in Buf : NoTransfer(brelse(b))
  \/ \E b \in Buf, v \in Content : NoTransfer(bwrite(b, v))
  \/ StartFlush

DriverSpec ==
  /\ DriverInit /\ [][DriverNext]_allVars
  /\ WF_allVars(Driver) /\ WF_allVars(Answer \/ Fail) /\ WF_allVars(irq5_handler)

-----------------------------------------------------------------------------
\* The cache with the driver and its interrupts is a cache over a disk that
\* reads and writes whole blocks at once: status bytes are neither lost nor
\* taken twice, no packet is skipped, repeated or taken before it is there,
\* and a failed transfer stops the kernel rather than being taken for done.
Cache == INSTANCE BufCache WITH
  buf <- settled.buf, disk <- settled.disk, panicked <- panicked /\ drv = Resting
ImplementsBufCache == Cache!CacheSpec

\* Every transfer comes to an end, or to a panic: the driver never polls for
\* a status that has come and gone.
TransfersEnd == drv # Resting ~> (drv = Resting \/ panicked)
=============================================================================
