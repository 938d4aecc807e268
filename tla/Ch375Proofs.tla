---------------------------- MODULE Ch375Proofs ----------------------------
(***************************************************************************)
(* The cache with the CH375 driver implements the cache over a disk of     *)
(* whole blocks, for any number of buffers, blocks and packets.            *)
(***************************************************************************)
EXTENDS Ch375, TLAPS

TransferOp == {"DISK_READ", "DISK_WRITE"}
InitCmd == {"SET_USB_MODE", "DISK_INIT"}
MoveCmd == {"USB_DATA", "DISK_GO"}
Status == TransferOp \cup {NONE, "CONNECT", "SUCCESS", "DISCONNECT"}
BlockData == [1 .. NPACKET -> Value]

Jobs == [op : TransferOp, b : Buf, blk : Block]
DrvStates ==
  [i : 0 .. 3, cmd : {"none"} \cup InitCmd \cup TransferOp \cup MoveCmd,
   count : 0 .. NPACKET, data : Seq(Value)]
DevStates ==
  [busy : BOOLEAN, irq : Status, op : {"none", "DISCONNECT"} \cup InitCmd \cup TransferOp,
   blk : Block \cup {NoBlock}, packet : Nat, held : Value \cup {Junk}]

DriverTypeOK ==
  /\ status \in Status
  /\ jobs \in Seq(Jobs) /\ drv \in DrvStates /\ dev \in DevStates
  /\ disk \in [Block -> BlockData]
  /\ buf \in [Buf -> Buffer]

\* The controller has given up, or is at the packet the driver is at.
GaveUp == dev.op = "DISCONNECT"
Follows ==
  /\ dev.op = jobs[1].op /\ dev.blk = jobs[1].blk
  /\ dev.packet = NPACKET - drv.count + 1

\* What the controller reports of a command.
Outcome == IF GaveUp THEN "DISCONNECT" ELSE Expected

\* A command is on its way: at the controller, in its interrupt request, or
\* in the status byte, and in one of them only.
Handshake ==
  /\ drv.i # 3 => ~dev.busy /\ dev.irq = NONE
  /\ drv.i = 2 => status = NONE
  /\ drv.i = 3 =>
       \/ dev.busy /\ dev.irq = NONE /\ status = NONE /\ ~GaveUp
       \/ ~dev.busy /\ dev.irq = Outcome /\ status = NONE
       \/ ~dev.busy /\ dev.irq = NONE /\ status = Outcome

\* The packet of the round has been moved and its command is not yet sent.
InHand == drv.cmd = "DISK_GO" /\ drv.i # 3

\* Packets that are done with, and packets the driver has seen.
Done == NPACKET - drv.count
Moved == IF InHand THEN Done + 1 ELSE Done

Protocol ==
  /\ drv.i = 0 <=> drv.cmd = "none"
  /\ drv.cmd = "none" => drv = Resting
  /\ drv.cmd \in {"none"} \cup InitCmd <=> jobs = <<>>
  /\ drv.cmd \in InitCmd /\ drv.i = 3 => GaveUp \/ dev.op = drv.cmd
  /\ drv.cmd \in TransferOp =>
       drv.cmd = jobs[1].op /\ drv.count = NPACKET /\ drv.data = <<>>
  /\ drv.cmd \in TransferOp \cup MoveCmd /\ drv.i = 3 => GaveUp \/ Follows
  /\ drv.cmd \in MoveCmd /\ drv.i # 3 => Follows /\ drv.count > 0
  /\ drv.cmd = "USB_DATA" => drv.i # 3

\* What has been moved of a block is right.
Packets ==
  drv.cmd \in TransferOp \cup MoveCmd =>
    LET job == jobs[1] IN
    /\ job.op = "DISK_READ" =>
         /\ Len(drv.data) = Moved
         /\ \A k \in 1 .. Moved : drv.data[k] = disk[job.blk][k]
    /\ job.op = "DISK_WRITE" =>
         /\ \A k \in 1 .. Done : disk[job.blk][k] = buf[job.b].data[k]
         /\ InHand => dev.held = buf[job.b].data[Done + 1]

-----------------------------------------------------------------------------
BusInv == DriverTypeOK /\ Handshake /\ Protocol /\ Packets

LEMMA NConst == NPACKET \in Nat \ {0}
BY PacketAssumption, Zenon

\* The transfer under way.
LEMMA CurrentJob ==
  ASSUME BusInv, drv.cmd \in TransferOp \cup MoveCmd
  PROVE  /\ jobs # <<>> /\ Len(jobs) \in Nat /\ Len(jobs) >= 1
         /\ jobs[1].op \in TransferOp /\ jobs[1].b \in Buf /\ jobs[1].blk \in Block
<1>1. jobs # <<>>
  BY Zenon DEF BusInv, Protocol, InitCmd, TransferOp, MoveCmd
<1>2. jobs \in Seq(Jobs)
  BY Zenon DEF BusInv, DriverTypeOK, DrvStates, DevStates
<1>3. jobs[1] \in Jobs /\ Len(jobs) \in Nat /\ Len(jobs) >= 1
  BY <1>1, <1>2
<1> QED BY <1>1, <1>3, Zenon DEF Jobs

LEMMA ClearKeeps ==
  ASSUME BusInv, Clear
  PROVE  BusInv'
<1>1. /\ drv.i = 1 /\ drv' = [drv EXCEPT !.i = 2] /\ status' = NONE
      /\ UNCHANGED <<jobs, dev, disk, buf>>
  BY DEF Clear, At, Steps, BusInv, DriverTypeOK, DrvStates, cacheVars
<1>2. DriverTypeOK'
  BY <1>1 DEF BusInv, DriverTypeOK, DrvStates, Status
<1>3. drv'.i = 2 /\ drv'.cmd = drv.cmd /\ drv'.count = drv.count /\ drv'.data = drv.data
  BY <1>1, Zenon DEF BusInv, DriverTypeOK, DrvStates, DevStates
<1>4. Handshake'
  BY <1>1, <1>3 DEF BusInv, Handshake
<1>5. Protocol'
  BY <1>1, <1>3 DEF BusInv, Protocol, Follows, GaveUp
<1>6. Packets'
  BY <1>1, <1>3 DEF BusInv, Packets, Moved, Done, InHand
<1> QED BY <1>2, <1>4, <1>5, <1>6, Zenon DEF BusInv

LEMMA AnswerKeeps ==
  ASSUME BusInv, Answer
  PROVE  BusInv'
<1>1. UNCHANGED <<jobs, drv, status, disk, buf>>
  BY Zenon DEF Answer, cacheVars
<1>2. /\ dev' = [dev EXCEPT !.busy = FALSE, !.irq = dev'.irq] /\ dev.busy
      /\ dev'.irq = IF dev.op = "SET_USB_MODE" THEN "CONNECT"
                    ELSE IF dev.op = "DISK_INIT" \/ dev.packet > NPACKET
                      THEN "SUCCESS" ELSE dev.op
  BY Zenon DEF BusInv, DriverTypeOK, DrvStates, DevStates, Answer
<1>3. drv.i = 3 /\ ~GaveUp /\ dev.irq = NONE /\ status = NONE
  BY <1>2, Zenon DEF BusInv, Handshake, NONE, Outcome, Expected
<1>4. dev'.irq = Expected
  <2>1. CASE drv.cmd \in InitCmd
    <3>1. dev.op = drv.cmd
      BY <2>1, <1>3, Zenon DEF BusInv, Protocol
    <3> QED BY <2>1, <3>1, <1>2, Zenon DEF Expected, InitCmd
  <2>2. CASE drv.cmd \notin InitCmd
    <3>1. drv.cmd \in TransferOp \cup MoveCmd
      BY <2>2, <1>3 DEF BusInv, Protocol, DriverTypeOK, DrvStates
    <3>2. Follows
      BY <3>1, <1>3, Zenon DEF BusInv, Protocol
    <3>3. drv.count \in 0 .. NPACKET /\ jobs[1].op \in TransferOp
      BY <3>1, CurrentJob, Zenon DEF BusInv, DriverTypeOK, DrvStates, DevStates
    <3> QED BY <2>2, <1>2, <3>2, <3>3, NConst DEF Expected, InitCmd, TransferOp, Follows
  <2> QED BY <2>1, <2>2, Zenon
<1>5. Expected \in Status
  <2>1. drv.cmd \in TransferOp \cup MoveCmd => jobs[1].op \in TransferOp
    BY CurrentJob, Zenon
  <2> QED BY <2>1, <1>3 DEF Expected, Status, BusInv, DriverTypeOK, DrvStates, DevStates,
             Protocol, InitCmd
<1>6. dev'.busy = FALSE /\ dev'.op = dev.op /\ dev'.blk = dev.blk /\ dev'.packet = dev.packet
      /\ dev'.held = dev.held
  BY <1>2, Zenon DEF BusInv, DriverTypeOK, DrvStates, DevStates
<1>7. DriverTypeOK'
  BY <1>1, <1>2, <1>4, <1>5, Zenon DEF BusInv, DriverTypeOK, DrvStates, DevStates
<1>8. Handshake'
  BY <1>1, <1>3, <1>4, <1>6, Zenon DEF BusInv, Handshake, Outcome, GaveUp, Expected
<1>9. Protocol' /\ Packets'
  BY <1>1, <1>6 DEF BusInv, Protocol, Packets, Follows, GaveUp, Moved, Done, InHand
<1> QED BY <1>7, <1>8, <1>9, Zenon DEF BusInv

LEMMA FailKeeps ==
  ASSUME BusInv, Fail
  PROVE  BusInv'
<1>1. UNCHANGED <<jobs, drv, status, disk, buf>>
  BY Zenon DEF Fail, cacheVars
<1>2. dev' = [dev EXCEPT !.busy = FALSE, !.irq = "DISCONNECT", !.op = "DISCONNECT"] /\ dev.busy
  BY Zenon DEF BusInv, DriverTypeOK, DrvStates, DevStates, Fail
<1>3. drv.i = 3 /\ ~GaveUp /\ dev.irq = NONE /\ status = NONE
  BY <1>2, Zenon DEF BusInv, Handshake, NONE, Outcome, Expected
<1>6. /\ dev'.busy = FALSE /\ dev'.op = "DISCONNECT" /\ dev'.irq = "DISCONNECT"
      /\ dev'.held = dev.held
  BY <1>2, Zenon DEF BusInv, DriverTypeOK, DrvStates, DevStates
<1>7. DriverTypeOK'
  BY <1>1, <1>2, Zenon DEF BusInv, DriverTypeOK, DrvStates, DevStates, Status
<1>8. Handshake'
  BY <1>1, <1>3, <1>6, Zenon DEF BusInv, Handshake, Outcome, GaveUp
<1>9. Protocol' /\ Packets'
  BY <1>1, <1>3, <1>6, Zenon DEF BusInv, Protocol, Packets, GaveUp, Moved, Done, InHand
<1> QED BY <1>7, <1>8, <1>9, Zenon DEF BusInv

LEMMA IrqKeeps ==
  ASSUME BusInv, irq5_handler
  PROVE  BusInv'
<1>1. UNCHANGED <<jobs, drv, disk, buf>>
  BY Zenon DEF irq5_handler, cacheVars
<1>2. dev' = [dev EXCEPT !.irq = NONE] /\ dev.irq # NONE /\ status' = dev.irq
  BY Zenon DEF BusInv, DriverTypeOK, DrvStates, DevStates, irq5_handler
<1>3. drv.i = 3 /\ dev.busy = FALSE /\ dev.irq = Outcome
  BY <1>2 DEF BusInv, Handshake, DriverTypeOK
<1>6. /\ dev'.busy = FALSE /\ dev'.irq = NONE /\ dev'.op = dev.op /\ dev'.blk = dev.blk
      /\ dev'.packet = dev.packet /\ dev'.held = dev.held
  BY <1>2, <1>3, Zenon DEF BusInv, DriverTypeOK, DrvStates, DevStates
<1>7. DriverTypeOK'
  BY <1>1, <1>2, Zenon DEF BusInv, DriverTypeOK, DrvStates, DevStates, Status
<1>8. Handshake'
  BY <1>1, <1>2, <1>3, <1>6 DEF BusInv, Handshake, Outcome, GaveUp, Expected
<1>9. Protocol' /\ Packets'
  BY <1>1, <1>6, Zenon DEF BusInv, Protocol, Packets, Follows, GaveUp, Moved, Done, InHand
<1> QED BY <1>7, <1>8, <1>9, Zenon DEF BusInv

LEMMA SendDataKeeps ==
  ASSUME BusInv, SendData
  PROVE  BusInv'
<1>1. /\ drv.i = 2 /\ drv.cmd = "USB_DATA" /\ UNCHANGED <<jobs, status, disk, buf>>
      /\ status = NONE /\ dev.busy = FALSE /\ dev.irq = NONE
  BY DEF SendData, At, Steps, BusInv, DriverTypeOK, DrvStates, DevStates, Handshake,
     cacheVars
<1>2. Follows /\ drv.count \in 1 .. NPACKET
  BY <1>1 DEF BusInv, Protocol, MoveCmd, DriverTypeOK, DrvStates
<1>3. jobs # <<>> /\ jobs[1].op \in TransferOp /\ jobs[1].b \in Buf /\ jobs[1].blk \in Block
  BY <1>1, CurrentJob, Zenon DEF MoveCmd
<1>4. Ready
  BY <1>1, <1>2, <1>3, Zenon DEF Ready, Follows, TransferOp
<1>5. dev.packet = Done + 1 /\ dev.packet \in 1 .. NPACKET /\ dev.blk = jobs[1].blk
  BY <1>2, NConst DEF Follows, Done
<1>6. disk[jobs[1].blk][Done + 1] \in Value
  BY <1>3, <1>5, NConst DEF BusInv, DriverTypeOK, DrvStates, DevStates, BlockData
<1>7. buf[jobs[1].b].data[Done + 1] \in Value
  <2>1. buf[jobs[1].b].data \in BlockData
    BY <1>3, PacketAssumption, Zenon DEF BusInv, DriverTypeOK, DrvStates, DevStates,
       Buffer, BlockData
  <2> QED BY <2>1, <1>5, NConst, Zenon DEF BlockData
<1>8. /\ drv' \in DrvStates
      /\ drv'.i = 1 /\ drv'.cmd = "DISK_GO" /\ drv'.count = drv.count
      /\ drv'.data = IF Reading THEN Append(drv.data, disk[jobs[1].blk][Done + 1]) ELSE drv.data
  <2>1. drv \in DrvStates /\ drv.data \in Seq(Value)
    BY Zenon DEF BusInv, DriverTypeOK, DrvStates
  <2>2. Packet = disk[jobs[1].blk][Done + 1]
    BY <1>4, <1>5, Zenon DEF Packet
  <2> DEFINE w == IF Reading THEN Append(drv.data, Packet) ELSE drv.data
  <2>3. w \in Seq(Value)
    BY <2>1, <2>2, <1>6
  <2>4. drv' = [drv EXCEPT !.i = 1, !.cmd = "DISK_GO", !.data = w]
    BY Zenon DEF SendData
  <2>5. w = IF Reading THEN Append(drv.data, disk[jobs[1].blk][Done + 1]) ELSE drv.data
    BY <2>2, Zenon
  <2> HIDE DEF w
  <2>6. drv' = [i |-> 1, cmd |-> "DISK_GO", count |-> drv.count, data |-> w]
    BY <2>1, <2>4, Zenon DEF DrvStates
  <2> QED BY <2>1, <2>3, <2>5, <2>6 DEF DrvStates, MoveCmd
<1>9. /\ dev' \in DevStates
      /\ dev'.busy = FALSE /\ dev'.irq = NONE /\ dev'.op = dev.op /\ dev'.blk = dev.blk
      /\ dev'.packet = dev.packet
      /\ ~Reading => dev'.held = buf[jobs[1].b].data[Done + 1]
  BY <1>1, <1>4, <1>7, Zenon DEF SendData, BusInv, DriverTypeOK, DrvStates, DevStates,
     Done
<1>10. DriverTypeOK'
  BY <1>1, <1>8, <1>9, Zenon DEF BusInv, DriverTypeOK, DrvStates, DevStates
<1>11. Handshake'
  BY <1>8, <1>9 DEF Handshake
<1>12. Protocol'
  BY <1>1, <1>2, <1>3, <1>8, <1>9
     DEF Protocol, Follows, MoveCmd, InitCmd, TransferOp
<1>13. Packets'
  <2>1. Done' = Done /\ Moved' = Done + 1 /\ InHand' /\ Moved = Done /\ Done \in Nat
    BY <1>1, <1>2, <1>8, NConst DEF Done, Moved, InHand
  <2>2. ASSUME jobs[1].op = "DISK_READ"
        PROVE  /\ Len(drv'.data) = Done + 1
               /\ \A k \in 1 .. Done + 1 : drv'.data[k] = disk[jobs[1].blk][k]
    <3>1. /\ Len(drv.data) = Done /\ drv.data \in Seq(Value)
          /\ \A k \in 1 .. Done : drv.data[k] = disk[jobs[1].blk][k]
      BY <1>1, <2>1, <2>2, Zenon DEF BusInv, Packets, MoveCmd, DriverTypeOK, DrvStates
    <3>2. drv'.data = Append(drv.data, disk[jobs[1].blk][Done + 1])
      BY <1>8, <2>2, Zenon DEF Reading
    <3> QED BY <2>1, <3>1, <3>2, <1>6
  <2>3. ASSUME jobs[1].op = "DISK_WRITE"
        PROVE  /\ \A k \in 1 .. Done : disk[jobs[1].blk][k] = buf[jobs[1].b].data[k]
               /\ dev'.held = buf[jobs[1].b].data[Done + 1]
    BY <1>1, <1>9, <2>3, Zenon DEF BusInv, Packets, MoveCmd, Reading
  <2> QED BY <1>1, <2>1, <2>2, <2>3, Zenon DEF Packets
<1> QED BY <1>10, <1>11, <1>12, <1>13, Zenon DEF BusInv

\* SendCommand, by kind of command.
LEMMA SendInitKeeps ==
  ASSUME BusInv, SendCommand, drv.cmd \in InitCmd
  PROVE  BusInv' /\ UNCHANGED <<jobs, buf, disk>>
<1>1. /\ drv.i = 2 /\ UNCHANGED <<jobs, status, disk, buf>>
      /\ status = NONE /\ dev.busy = FALSE /\ dev.irq = NONE
  BY DEF SendCommand, At, Steps, BusInv, DriverTypeOK, DrvStates, DevStates, Handshake,
     InitCmd
<1>2. /\ drv' \in DrvStates /\ drv'.i = 3 /\ drv'.cmd = drv.cmd
      /\ drv'.count = drv.count /\ drv'.data = drv.data
  <2>1. drv \in DrvStates /\ drv.count \in 0 .. NPACKET /\ 3 \in 0 .. 3
    BY DEF BusInv, DriverTypeOK, DrvStates
  <2>2. drv' = [drv EXCEPT !.i = 3, !.count = drv.count]
    <3>1. drv.i + 1 = 3 /\ drv.cmd # "DISK_GO"
      BY <1>1 DEF InitCmd
    <3> QED BY <3>1, Zenon DEF SendCommand
  <2>3. drv' = [i |-> 3, cmd |-> drv.cmd, count |-> drv.count, data |-> drv.data]
    BY <2>1, <2>2, Zenon DEF DrvStates
  <2> QED BY <2>1, <2>3, Zenon DEF DrvStates
<1>3. dev' = [dev EXCEPT !.busy = TRUE, !.op = drv.cmd]
  BY Zenon DEF SendCommand, InitCmd
<1>5. dev'.busy = TRUE /\ dev'.irq = NONE /\ dev'.op = drv.cmd
  BY <1>1, <1>3, Zenon DEF BusInv, DriverTypeOK, DrvStates, DevStates
<1>6. DriverTypeOK'
  <2>1. dev' \in DevStates
    BY <1>3, Zenon DEF BusInv, DriverTypeOK, DevStates
  <2> QED BY <1>1, <1>2, <2>1, Zenon DEF BusInv, DriverTypeOK
<1>7. Handshake'
  BY <1>1, <1>2, <1>5, Zenon DEF Handshake, GaveUp, InitCmd
<1>8. Protocol' /\ Packets'
  BY <1>1, <1>2, <1>5 DEF BusInv, Protocol, Packets, InitCmd, TransferOp, MoveCmd, GaveUp
<1> QED BY <1>1, <1>6, <1>7, <1>8, Zenon DEF BusInv

LEMMA SendStartKeeps ==
  ASSUME BusInv, SendCommand, drv.cmd \in TransferOp
  PROVE  BusInv' /\ UNCHANGED <<jobs, buf, disk>>
<1>1. /\ drv.i = 2 /\ UNCHANGED <<jobs, status, disk, buf>>
      /\ status = NONE /\ dev.busy = FALSE /\ dev.irq = NONE
  BY DEF SendCommand, At, Steps, BusInv, DriverTypeOK, DrvStates, DevStates, Handshake,
     TransferOp
<1>2. /\ drv' \in DrvStates /\ drv'.i = 3 /\ drv'.cmd = drv.cmd
      /\ drv'.count = drv.count /\ drv'.data = drv.data
  <2>1. drv \in DrvStates /\ drv.count \in 0 .. NPACKET /\ 3 \in 0 .. 3
    BY DEF BusInv, DriverTypeOK, DrvStates
  <2>2. drv' = [drv EXCEPT !.i = 3, !.count = drv.count]
    <3>1. drv.i + 1 = 3 /\ drv.cmd # "DISK_GO"
      BY <1>1 DEF TransferOp
    <3> QED BY <3>1, Zenon DEF SendCommand
  <2>3. drv' = [i |-> 3, cmd |-> drv.cmd, count |-> drv.count, data |-> drv.data]
    BY <2>1, <2>2, Zenon DEF DrvStates
  <2> QED BY <2>1, <2>3, Zenon DEF DrvStates
<1>3. dev' = [dev EXCEPT !.busy = TRUE, !.op = drv.cmd, !.blk = jobs[1].blk, !.packet = 1]
  BY Zenon DEF SendCommand, TransferOp
<1>5. /\ dev'.busy = TRUE /\ dev'.irq = NONE /\ dev'.op = drv.cmd
      /\ dev'.blk = jobs[1].blk /\ dev'.packet = 1
  BY <1>1, <1>3, Zenon DEF BusInv, DriverTypeOK, DrvStates, DevStates
<1>6. jobs # <<>> /\ jobs[1].blk \in Block /\ drv.cmd = jobs[1].op /\ drv.count = NPACKET
  BY CurrentJob, Zenon DEF BusInv, Protocol
<1>7. DriverTypeOK'
  <2>1. dev' \in DevStates
    BY <1>3, <1>6, Zenon DEF BusInv, DriverTypeOK, DevStates
  <2> QED BY <1>1, <1>2, <2>1, Zenon DEF BusInv, DriverTypeOK
<1>8. Handshake'
  BY <1>1, <1>2, <1>5, Zenon DEF Handshake, GaveUp, TransferOp
<1>9. Protocol'
  BY <1>1, <1>2, <1>5, <1>6, NConst
     DEF BusInv, Protocol, Follows, InitCmd, TransferOp, MoveCmd, GaveUp
<1>10. Packets'
  BY <1>1, <1>2, Zenon DEF BusInv, Packets, Moved, Done, InHand, TransferOp
<1> QED BY <1>1, <1>7, <1>8, <1>9, <1>10, Zenon DEF BusInv

\* The wish for the next packet, with which the last one is done.
LEMMA SendGoKeeps ==
  ASSUME BusInv, SendCommand, drv.cmd = "DISK_GO"
  PROVE  /\ BusInv' /\ UNCHANGED <<jobs, buf>>
         /\ jobs[1].op = "DISK_READ" => disk' = disk
         /\ \A x \in Block : x # jobs[1].blk => disk'[x] = disk[x]
<1>1. /\ drv.i = 2 /\ UNCHANGED <<jobs, status, buf>>
      /\ status = NONE /\ dev.busy = FALSE /\ dev.irq = NONE
  BY DEF SendCommand, At, Steps, BusInv, DriverTypeOK, DrvStates, DevStates, Handshake
<1>2. Follows /\ drv.count \in 1 .. NPACKET /\ drv.data \in Seq(Value)
  BY <1>1 DEF BusInv, Protocol, MoveCmd, DriverTypeOK, DrvStates
<1>3. jobs # <<>> /\ jobs[1].op \in TransferOp /\ jobs[1].b \in Buf /\ jobs[1].blk \in Block
  BY CurrentJob, Zenon DEF MoveCmd
<1>4. dev.packet = Done + 1 /\ dev.packet \in 1 .. NPACKET /\ dev.blk = jobs[1].blk
      /\ dev.op = jobs[1].op /\ Done \in 0 .. NPACKET - 1
  BY <1>2, NConst DEF Follows, Done
<1>5. /\ drv' \in DrvStates /\ drv'.i = 3 /\ drv'.cmd = "DISK_GO"
      /\ drv'.count = drv.count - 1 /\ drv'.data = drv.data
  <2>1. drv \in DrvStates /\ drv.i + 1 = 3
    BY <1>1 DEF BusInv, DriverTypeOK
  <2>2. drv' = [drv EXCEPT !.i = 3, !.count = drv.count - 1]
    BY <2>1, Zenon DEF SendCommand
  <2>3. drv' = [i |-> 3, cmd |-> drv.cmd, count |-> drv.count - 1, data |-> drv.data]
    BY <2>1, <2>2, Zenon DEF DrvStates
  <2> QED BY <1>2, <2>3, NConst DEF DrvStates, MoveCmd
<1>6. /\ dev' \in DevStates /\ dev'.busy = TRUE /\ dev'.irq = NONE /\ dev'.op = dev.op
      /\ dev'.blk = dev.blk /\ dev'.packet = dev.packet + 1
  <2>1. dev \in DevStates
    BY Zenon DEF BusInv, DriverTypeOK
  <2>2. dev' = [dev EXCEPT !.busy = TRUE, !.packet = @ + 1]
    BY Zenon DEF SendCommand
  <2>3. dev' = [busy |-> TRUE, irq |-> dev.irq, op |-> dev.op, blk |-> dev.blk,
                packet |-> dev.packet + 1, held |-> dev.held]
    BY <2>1, <2>2, Zenon DEF DevStates
  <2> QED BY <1>1, <2>1, <2>3 DEF DevStates
<1>7. /\ jobs[1].op = "DISK_READ" => disk' = disk
      /\ jobs[1].op = "DISK_WRITE" =>
           disk' = [disk EXCEPT ![jobs[1].blk][Done + 1] = buf[jobs[1].b].data[Done + 1]]
  <2>1. jobs[1].op = "DISK_WRITE" => dev.held = buf[jobs[1].b].data[Done + 1]
    BY <1>1 DEF BusInv, Packets, InHand, MoveCmd
  <2> QED BY <1>4, <2>1, Zenon DEF SendCommand
<1>8. buf[jobs[1].b].data \in BlockData /\ disk \in [Block -> BlockData]
  BY <1>3, PacketAssumption, Zenon DEF BusInv, DriverTypeOK, Buffer, BlockData
<1>9. /\ disk' \in [Block -> BlockData]
      /\ \A x \in Block : x # jobs[1].blk => disk'[x] = disk[x]
      /\ jobs[1].op = "DISK_WRITE" =>
           /\ disk'[jobs[1].blk][Done + 1] = buf[jobs[1].b].data[Done + 1]
           /\ \A k \in 1 .. Done : disk'[jobs[1].blk][k] = disk[jobs[1].blk][k]
  <2>1. CASE jobs[1].op = "DISK_READ"
    BY <2>1, <1>7, <1>8, Zenon
  <2>2. CASE jobs[1].op = "DISK_WRITE"
    <3>1. PICK n \in Block, d \in 1 .. NPACKET, w \in BlockData :
            n = jobs[1].blk /\ d = Done + 1 /\ w = buf[jobs[1].b].data
      BY <1>3, <1>4, <1>8, Zenon
    <3>2. disk' = [disk EXCEPT ![n][d] = w[d]]
      BY <2>2, <3>1, <1>7, Zenon
    <3>3. /\ disk' \in [Block -> BlockData] /\ disk'[n][d] = w[d]
          /\ \A x \in Block : x # n => disk'[x] = disk[x]
          /\ \A k \in 1 .. NPACKET : k # d => disk'[n][k] = disk[n][k]
      BY <3>2, <1>8, Zenon DEF BlockData
    <3>4. \A k \in 1 .. Done : k \in 1 .. NPACKET /\ k # Done + 1
      BY <1>4, NConst
    <3> QED BY <3>1, <3>3, <3>4, Zenon
  <2> QED BY <1>3, <2>1, <2>2, Zenon DEF TransferOp
<1>10. DriverTypeOK'
  BY <1>1, <1>5, <1>6, <1>9, Zenon DEF BusInv, DriverTypeOK
<1>11. Handshake'
  BY <1>1, <1>3, <1>4, <1>5, <1>6, Zenon DEF Handshake, GaveUp, TransferOp
<1>12. Protocol'
  BY <1>1, <1>2, <1>3, <1>4, <1>5, <1>6, NConst
     DEF Protocol, Follows, MoveCmd, InitCmd, TransferOp, Done
<1>13. Packets'
  <2>1. Done' = Done + 1 /\ Moved' = Done + 1 /\ ~InHand' /\ Moved = Done + 1 /\ Done \in Nat
    BY <1>1, <1>2, <1>5, NConst DEF Done, Moved, InHand
  <2>2. ASSUME jobs[1].op = "DISK_READ"
        PROVE  /\ Len(drv'.data) = Done + 1
               /\ \A k \in 1 .. Done + 1 : drv'.data[k] = disk'[jobs[1].blk][k]
    BY <1>5, <1>7, <2>1, <2>2, Zenon DEF BusInv, Packets, MoveCmd
  <2>3. ASSUME jobs[1].op = "DISK_WRITE", NEW k \in 1 .. Done + 1
        PROVE  disk'[jobs[1].blk][k] = buf[jobs[1].b].data[k]
    <3>1. CASE k = Done + 1
      BY <3>1, <1>9, <2>3, Zenon
    <3>2. CASE k \in 1 .. Done
      BY <3>2, <1>9, <2>3, Zenon DEF BusInv, Packets, MoveCmd
    <3> QED BY <2>1, <3>1, <3>2
  <2> QED BY <1>1, <2>1, <2>2, <2>3, Zenon DEF Packets
<1> QED BY <1>1, <1>7, <1>9, <1>10, <1>11, <1>12, <1>13, Zenon DEF BusInv

-----------------------------------------------------------------------------
\* A good status means that the controller has done what it was told.
LEMMA GoodStatus ==
  ASSUME BusInv, At("poll"), status # NONE, Good
  PROVE  drv.i = 3 /\ dev.busy = FALSE /\ dev.irq = NONE /\ ~GaveUp
<1>1. drv.i = 3
  BY DEF At, Steps, BusInv, DriverTypeOK, DrvStates
<1>2. dev.busy = FALSE /\ dev.irq = NONE /\ status = Outcome
  BY <1>1, Zenon DEF BusInv, Handshake, DriverTypeOK, DevStates
<1>3. Expected # "DISCONNECT"
  <2>1. drv.cmd \in InitCmd \cup TransferOp \cup MoveCmd
    BY <1>1 DEF BusInv, Protocol, DriverTypeOK, DrvStates
  <2>2. drv.cmd \in TransferOp \cup MoveCmd => jobs[1].op \in TransferOp
    BY CurrentJob, Zenon
  <2> QED BY <2>1, <2>2, Zenon DEF Expected, InitCmd, TransferOp
<1> QED BY <1>1, <1>2, <1>3, Zenon DEF Good, Outcome

LEMMA PollInitKeeps ==
  ASSUME BusInv, PollInit
  PROVE  BusInv' /\ UNCHANGED <<jobs, buf, disk>>
<1>1. /\ drv.i = 3 /\ dev.busy = FALSE /\ dev.irq = NONE
      /\ UNCHANGED <<jobs, buf, disk, dev, status>>
  BY GoodStatus, Zenon DEF PollInit, cacheVars
<1>2. drv.cmd \in InitCmd /\ jobs = <<>>
  BY <1>1 DEF PollInit, Transfer, BusInv, Protocol, DriverTypeOK, DrvStates,
              InitCmd, TransferOp, MoveCmd
<1>3. \/ drv' = [i |-> 1, cmd |-> "DISK_INIT", count |-> 0, data |-> <<>>]
      \/ drv' = [i |-> 0, cmd |-> "none", count |-> 0, data |-> <<>>]
  BY Zenon DEF PollInit, Command, Resting
<1>4. /\ drv' \in DrvStates
      /\ \/ drv'.i = 1 /\ drv'.cmd = "DISK_INIT"
         \/ drv'.i = 0 /\ drv'.cmd = "none" /\ drv' = Resting
  <2>1. <<>> \in Seq(Value) /\ 0 \in 0 .. NPACKET
    BY NConst
  <2>2. CASE drv' = [i |-> 1, cmd |-> "DISK_INIT", count |-> 0, data |-> <<>>]
    BY <2>1, <2>2 DEF DrvStates, InitCmd
  <2>3. CASE drv' = [i |-> 0, cmd |-> "none", count |-> 0, data |-> <<>>]
    BY <2>1, <2>3 DEF DrvStates, Resting
  <2> QED BY <1>3, <2>2, <2>3, Zenon
<1>5. DriverTypeOK'
  BY <1>1, <1>4, Zenon DEF BusInv, DriverTypeOK
<1>6. Handshake'
  BY <1>1, <1>4 DEF Handshake
<1>7. Protocol' /\ Packets'
  BY <1>1, <1>2, <1>4 DEF Protocol, Packets, InitCmd, TransferOp, MoveCmd
<1> QED BY <1>1, <1>5, <1>6, <1>7, Zenon DEF BusInv

LEMMA PollPacketKeeps ==
  ASSUME BusInv, PollPacket
  PROVE  BusInv' /\ UNCHANGED <<jobs, buf, disk>>
<1>1. /\ drv.i = 3 /\ dev.busy = FALSE /\ dev.irq = NONE /\ ~GaveUp
      /\ UNCHANGED <<jobs, buf, disk, dev, status>> /\ drv.count > 0
  BY GoodStatus, Zenon DEF PollPacket, cacheVars
<1>2. drv.cmd \in TransferOp \cup MoveCmd
  BY Zenon DEF PollPacket, Transfer, TransferOp, MoveCmd
<1>3. /\ drv' \in DrvStates /\ drv'.i = 1 /\ drv'.cmd = "USB_DATA"
      /\ drv'.count = drv.count /\ drv'.data = drv.data
  <2>1. drv \in DrvStates
    BY Zenon DEF BusInv, DriverTypeOK
  <2>2. drv' = [i |-> 1, cmd |-> "USB_DATA", count |-> drv.count, data |-> drv.data]
    BY <2>1, Zenon DEF PollPacket, DrvStates
  <2> QED BY <2>1, <2>2 DEF DrvStates, MoveCmd
<1>4. Follows /\ jobs # <<>>
  BY <1>1, <1>2, CurrentJob, Zenon DEF BusInv, Protocol
<1>5. DriverTypeOK'
  BY <1>1, <1>3, Zenon DEF BusInv, DriverTypeOK
<1>6. Handshake'
  BY <1>1, <1>3 DEF Handshake
<1>7. Protocol'
  BY <1>1, <1>3, <1>4 DEF Protocol, Follows, InitCmd, TransferOp, MoveCmd
<1>8. Packets'
  BY <1>1, <1>2, <1>3, Zenon DEF BusInv, Packets, Moved, Done, InHand
<1> QED BY <1>1, <1>5, <1>6, <1>7, <1>8, Zenon DEF BusInv

-----------------------------------------------------------------------------
\* The driver comes to rest, or begins a transfer.
LEMMA Rested ==
  ASSUME jobs' = <<>>, drv' = Resting, dev \in DevStates, dev' = dev,
         dev.busy = FALSE, dev.irq = NONE, status' \in Status,
         disk' \in [Block -> BlockData], buf' \in [Buf -> Buffer]
  PROVE  BusInv'
<1>1. drv' \in DrvStates /\ drv'.i = 0 /\ drv'.cmd = "none"
  <2>1. <<>> \in Seq(Value) /\ 0 \in 0 .. NPACKET
    BY NConst
  <2> QED BY <2>1 DEF DrvStates, Resting
<1>2. DriverTypeOK'
  BY <1>1 DEF DriverTypeOK
<1>3. Handshake' /\ Protocol' /\ Packets'
  BY <1>1 DEF Handshake, Protocol, Packets, InitCmd, TransferOp, MoveCmd
<1> QED BY <1>2, <1>3, Zenon DEF BusInv

LEMMA Begins ==
  ASSUME NEW ts \in Seq(Jobs), ts # <<>>, jobs' = ts, drv' = Begin(ts[1]),
         dev \in DevStates, dev' = dev, dev.busy = FALSE, dev.irq = NONE,
         status' \in Status, disk' \in [Block -> BlockData], buf' \in [Buf -> Buffer]
  PROVE  BusInv'
<1>1. ts[1] \in Jobs /\ Len(ts) \in Nat
  OBVIOUS
<1>2. ts[1].op \in TransferOp
  BY <1>1, Zenon DEF Jobs
<1>3. drv' = [i |-> 1, cmd |-> ts[1].op, count |-> NPACKET, data |-> <<>>]
  BY Zenon DEF Begin, Command
<1>4. <<>> \in Seq(Value) /\ NPACKET \in 0 .. NPACKET /\ Len(<<>>) = 0
  BY NConst
<1>5. /\ drv' \in DrvStates /\ drv'.i = 1 /\ drv'.cmd = ts[1].op
      /\ drv'.count = NPACKET /\ drv'.data = <<>>
  BY <1>2, <1>3, <1>4 DEF DrvStates
<1>6. DriverTypeOK'
  BY <1>5, Zenon DEF DriverTypeOK
<1>7. Handshake' /\ Protocol'
  BY <1>2, <1>5 DEF Handshake, Protocol, InitCmd, TransferOp, MoveCmd
<1>8. Packets'
  <2>1. Done' = 0 /\ Moved' = 0 /\ ~InHand'
    BY <1>2, <1>5, NConst DEF Done, Moved, InHand, TransferOp
  <2> QED BY <1>2, <1>4, <1>5, <2>1 DEF Packets
<1> QED BY <1>6, <1>7, <1>8, Zenon DEF BusInv

LEMMA SameData ==
  ASSUME NEW f \in BlockData, NEW g \in BlockData, \A k \in 1 .. NPACKET : f[k] = g[k]
  PROVE  f = g
<1>1. f = [k \in 1 .. NPACKET |-> f[k]] /\ g = [k \in 1 .. NPACKET |-> g[k]]
  BY Zenon DEF BlockData
<1>2. [k \in 1 .. NPACKET |-> f[k]] = [k \in 1 .. NPACKET |-> g[k]]
  BY Zenon
<1> QED BY <1>1, <1>2, Zenon

\* A finished transfer has moved the whole block.
LEMMA WholeBlock ==
  ASSUME BusInv, PollEnd
  PROVE  /\ dev.busy = FALSE /\ dev.irq = NONE /\ drv # Resting /\ panicked = FALSE
         /\ jobs # <<>> /\ Len(jobs) \in Nat /\ Len(jobs) >= 1 /\ jobs \in Seq(Jobs)
         /\ jobs[1].op \in TransferOp /\ jobs[1].b \in Buf /\ jobs[1].blk \in Block
         /\ jobs[1].op = "DISK_READ" => drv.data = disk[jobs[1].blk]
         /\ jobs[1].op = "DISK_WRITE" => disk[jobs[1].blk] = buf[jobs[1].b].data
<1>1. /\ drv.i = 3 /\ dev.busy = FALSE /\ dev.irq = NONE /\ ~GaveUp /\ drv.count = 0
  BY GoodStatus, Zenon DEF PollEnd
<1>2. drv.cmd \in TransferOp \cup MoveCmd /\ drv # Resting
  BY <1>1 DEF PollEnd, Transfer, TransferOp, MoveCmd, Resting
<1>3. /\ jobs # <<>> /\ Len(jobs) \in Nat /\ Len(jobs) >= 1
      /\ jobs[1].op \in TransferOp /\ jobs[1].b \in Buf /\ jobs[1].blk \in Block
  BY <1>2, CurrentJob, Zenon
<1>4. Done = NPACKET /\ Moved = NPACKET
  BY <1>1, NConst DEF Done, Moved, InHand
<1>5. disk[jobs[1].blk] \in BlockData /\ buf[jobs[1].b].data \in BlockData
  BY <1>3, PacketAssumption, Zenon DEF BusInv, DriverTypeOK, Buffer, BlockData
<1>6. ASSUME jobs[1].op = "DISK_READ" PROVE drv.data = disk[jobs[1].blk]
  <2>1. /\ drv.data \in Seq(Value) /\ Len(drv.data) = NPACKET
        /\ \A k \in 1 .. NPACKET : drv.data[k] = disk[jobs[1].blk][k]
    BY <1>2, <1>4, <1>6, Zenon DEF BusInv, Packets, DriverTypeOK, DrvStates
  <2>2. drv.data \in BlockData
    BY <2>1 DEF BlockData
  <2> QED BY <1>5, <2>1, <2>2, SameData, Zenon
<1>7. ASSUME jobs[1].op = "DISK_WRITE" PROVE disk[jobs[1].blk] = buf[jobs[1].b].data
  <2>1. \A k \in 1 .. NPACKET : disk[jobs[1].blk][k] = buf[jobs[1].b].data[k]
    BY <1>2, <1>4, <1>7, Zenon DEF BusInv, Packets
  <2> QED BY <1>5, <2>1, SameData, Zenon
<1>8. panicked = FALSE /\ jobs \in Seq(Jobs)
  BY DEF PollEnd, At, BusInv, DriverTypeOK
<1> QED BY <1>1, <1>2, <1>3, <1>6, <1>7, <1>8, Zenon

-----------------------------------------------------------------------------
\* The abstract cache, with the theorems about it.
C == INSTANCE BufCacheProofs WITH
  buf <- settled.buf, disk <- settled.disk, panicked <- panicked /\ drv = Resting

sbuf == settled.buf
sdisk == settled.disk

Written(r) == [r EXCEPT !.dirty = FALSE, !.valid = TRUE]

\* Buffers and disk are what the last call left, or what the transfers that
\* the running call has done have made of it.
AtRest == jobs = <<>> /\ buf = sbuf /\ disk = sdisk

CleanRead(b, blk) ==
  /\ jobs = <<Job("DISK_READ", b, blk)>>
  /\ Cache!Cached(blk) = {} /\ Cache!IsLast(Cache!Clean, b)
  /\ buf = sbuf /\ disk = sdisk

EvictWrite(b, blk) ==
  /\ jobs = <<Job("DISK_WRITE", b, sbuf[b].blockno), Job("DISK_READ", b, blk)>>
  /\ Cache!Cached(blk) = {} /\ Cache!Clean = {} /\ Cache!IsLast(Cache!Unused, b)
  /\ buf = sbuf
  /\ \A x \in Block : x # sbuf[b].blockno => disk[x] = sdisk[x]

EvictRead(b, blk) ==
  /\ jobs = <<Job("DISK_READ", b, blk)>>
  /\ Cache!Cached(blk) = {} /\ Cache!Clean = {} /\ Cache!IsLast(Cache!Unused, b)
  /\ buf = [sbuf EXCEPT ![b] = Written(@)]
  /\ disk = [sdisk EXCEPT ![sbuf[b].blockno] = sbuf[b].data]

Pending == {jobs[k].b : k \in DOMAIN jobs}
Flushed(b) == sbuf[b].dirty /\ b \notin Pending

Flush ==
  /\ jobs # <<>>
  /\ \A k \in DOMAIN jobs :
       /\ jobs[k].op = "DISK_WRITE" /\ sbuf[jobs[k].b].dirty
       /\ jobs[k].blk = sbuf[jobs[k].b].blockno
  /\ \A k, m \in DOMAIN jobs : jobs[k].b = jobs[m].b => k = m
  /\ \A b \in Buf : buf[b] = IF Flushed(b) THEN Written(sbuf[b]) ELSE sbuf[b]
  /\ \A b \in Buf : Flushed(b) => disk[sbuf[b].blockno] = sbuf[b].data
  /\ \A x \in Block \ {jobs[1].blk} :
       (\A b \in Buf : sbuf[b].blockno = x => ~Flushed(b)) => disk[x] = sdisk[x]

CallInv ==
  \/ AtRest
  \/ \E b \in Buf, blk \in Block : CleanRead(b, blk) \/ EvictWrite(b, blk) \/ EvictRead(b, blk)
  \/ Flush

DriverInv ==
  DriverTypeOK /\ Handshake /\ Protocol /\ Packets /\ CallInv /\ C!CacheInv

-----------------------------------------------------------------------------
\* What the invariant of the abstract cache says of the settled state.
LEMMA SettledFacts ==
  ASSUME C!CacheInv
  PROVE  /\ sbuf \in [Buf -> Buffer] /\ sdisk \in [Block -> Content]
         /\ Cache!Buf = Buf
         /\ \A b \in Buf : sbuf[b].dirty => sbuf[b].blockno \in Block
         /\ \A b, c \in Buf :
              sbuf[b].dirty /\ sbuf[b].blockno = sbuf[c].blockno => b = c
<1>1. C!Buf = Buf /\ Cache!Buf = Buf /\ C!Buffer = Buffer /\ C!NoBlock = NoBlock
  BY Zenon DEF C!Buf, Cache!Buf, Buf, C!Buffer, Buffer, C!NoBlock, NoBlock
<1>2. sbuf \in [Buf -> Buffer] /\ sdisk \in [Block -> Content]
  BY <1>1, Zenon DEF C!CacheInv, C!CacheTypeOK, sbuf, sdisk
<1>3. \A b \in Buf : C!Coherent(sbuf[b])
  BY <1>1, Zenon DEF C!CacheInv, sbuf
<1>4. \A b \in Buf : sbuf[b].dirty => sbuf[b].blockno # NoBlock
  BY <1>1, <1>3, Zenon DEF C!Coherent
<1>5. \A b \in Buf : sbuf[b].dirty => sbuf[b].blockno \in Block
  BY <1>2, <1>4, Zenon DEF Buffer
<1>6. \A b, c \in Buf : sbuf[b].blockno = sbuf[c].blockno /\ sbuf[b].blockno # NoBlock => b = c
  BY <1>1, Zenon DEF C!CacheInv, C!OneBufferPerBlock, sbuf
<1> QED BY <1>1, <1>2, <1>4, <1>5, <1>6, Zenon

\* A buffer as the transfer at hand leaves it.
LEMMA ReadLeaves ==
  ASSUME jobs[1].op = "DISK_READ", drv.data = disk[jobs[1].blk], NEW r
  PROVE  Transferred(r) = Recycled(jobs[1].blk)
BY Zenon DEF Transferred, Reading, Recycled

LEMMA WriteLeaves ==
  ASSUME jobs[1].op = "DISK_WRITE", NEW r, r.dirty
  PROVE  Transferred(r) = Written(r)
BY Zenon DEF Transferred, Reading, Written, blkrw

\* The end of a read: the abstract cache makes the whole of bread().
LEMMA EndOfCleanRead ==
  ASSUME DriverInv, PollEnd, NEW b \in Buf, NEW blk \in Block, CleanRead(b, blk)
  PROVE  Cache!CacheNext /\ AtRest' /\ drv' = Resting
<1>1. BusInv
  BY Zenon DEF DriverInv, BusInv
<1>2. /\ panicked = FALSE /\ drv # Resting
      /\ jobs[1].op = "DISK_READ" => drv.data = disk[jobs[1].blk]
  BY <1>1, WholeBlock, Zenon
<1>3. jobs[1] = Job("DISK_READ", b, blk) /\ Len(jobs) = 1 /\ Tail(jobs) = <<>>
  BY DEF CleanRead
<1>4. jobs[1].op = "DISK_READ" /\ jobs[1].b = b /\ jobs[1].blk = blk
  BY <1>3 DEF Job
<1>5. buf' = [buf EXCEPT ![b] = Recycled(blk)] /\ UNCHANGED <<disk, mru, last, panicked>>
  BY <1>2, <1>4, ReadLeaves, Zenon DEF PollEnd
<1>6. jobs' = <<>> /\ drv' = Resting /\ settled' = [buf |-> buf', disk |-> disk]
  BY <1>3, Zenon DEF PollEnd
<1>7. AtRest'
  BY <1>5, <1>6, Zenon DEF AtRest, sbuf, sdisk
<1>8. Cache!BreadClean(blk, b)
  <2>1. settled'.buf = buf' /\ settled'.disk = disk /\ settled.buf = buf /\ settled.disk = disk
    BY <1>6, Zenon DEF CleanRead, sbuf, sdisk
  <2>2. Cache!Recycled(blk) = Recycled(blk)
    BY <2>1, Zenon DEF Cache!Recycled, Recycled
  <2> QED BY <1>2, <1>5, <2>1, <2>2, Zenon DEF Cache!BreadClean, CleanRead
<1>9. settled.buf[b].refcnt < MaxRef
  <2>1. settled.buf[b].refcnt = 0
    BY Zenon DEF CleanRead, Cache!IsLast, Cache!Clean, Cache!Unused
  <2> QED BY <2>1, PacketAssumption
<1>10. Cache!bread(blk, b) /\ b \in Cache!Buf /\ ~(panicked /\ drv = Resting)
  BY <1>2, <1>5, <1>8, Zenon DEF Cache!bread, Cache!Buf, Buf
<1> QED BY <1>6, <1>7, <1>9, <1>10, Zenon DEF Cache!CacheNext

LEMMA EndOfEvictRead ==
  ASSUME DriverInv, PollEnd, NEW b \in Buf, NEW blk \in Block, EvictRead(b, blk)
  PROVE  Cache!CacheNext /\ AtRest' /\ drv' = Resting
<1>1. BusInv /\ C!CacheInv
  BY Zenon DEF DriverInv, BusInv
<1>2. /\ panicked = FALSE /\ drv # Resting
      /\ jobs[1].op = "DISK_READ" => drv.data = disk[jobs[1].blk]
  BY <1>1, WholeBlock, Zenon
<1>3. jobs[1] = Job("DISK_READ", b, blk) /\ Len(jobs) = 1 /\ Tail(jobs) = <<>>
  BY DEF EvictRead
<1>4. jobs[1].op = "DISK_READ" /\ jobs[1].b = b /\ jobs[1].blk = blk
  BY <1>3 DEF Job
<1>5. buf' = [buf EXCEPT ![b] = Recycled(blk)] /\ UNCHANGED <<disk, mru, last, panicked>>
  BY <1>2, <1>4, ReadLeaves, Zenon DEF PollEnd
<1>6. jobs' = <<>> /\ drv' = Resting /\ settled' = [buf |-> buf', disk |-> disk]
  BY <1>3, Zenon DEF PollEnd
<1>7. AtRest'
  BY <1>5, <1>6, Zenon DEF AtRest, sbuf, sdisk
<1>8. sbuf[b].refcnt = 0 /\ sbuf[b].dirty /\ sbuf[b].blockno # blk
  BY <1>1, SettledFacts, Zenon
     DEF EvictRead, Cache!IsLast, Cache!Clean, Cache!Unused, Cache!Cached, sbuf
<1>9. Cache!BreadEvict(blk, b)
  <2>1. settled'.buf = buf' /\ settled'.disk = disk
    BY <1>6, Zenon
  <2>2. disk = Cache!DiskAfter(settled.buf[b])
    BY <1>8, Zenon DEF EvictRead, Cache!DiskAfter, sbuf, sdisk
  <2>3. disk[blk] = settled.disk[blk]
    BY <1>1, <1>8, SettledFacts, Zenon DEF EvictRead, sbuf, sdisk
  <2>4. Cache!Recycled(blk) = Recycled(blk)
    BY <2>3, Zenon DEF Cache!Recycled, Recycled
  <2>5. buf' = [settled.buf EXCEPT ![b] = Recycled(blk)]
    <3>1. PICK w : w = Written(sbuf[b])
      OBVIOUS
    <3>2. PICK r : r = Recycled(blk)
      OBVIOUS
    <3>3. sbuf \in [Buf -> Buffer] /\ buf = [sbuf EXCEPT ![b] = w] /\ buf' = [buf EXCEPT ![b] = r]
      BY <1>1, <1>5, <3>1, <3>2, SettledFacts, Zenon DEF EvictRead
    <3>4. buf' = [sbuf EXCEPT ![b] = r]
      BY <3>3, Zenon
    <3> QED BY <3>2, <3>4, Zenon DEF sbuf
  <2> QED BY <1>2, <2>1, <2>2, <2>4, <2>5, <1>5, Zenon DEF Cache!BreadEvict, EvictRead
<1>10. settled.buf[b].refcnt < MaxRef
  BY <1>8, PacketAssumption DEF sbuf
<1>11. Cache!bread(blk, b) /\ b \in Cache!Buf /\ ~(panicked /\ drv = Resting)
  BY <1>2, <1>5, <1>9, Zenon DEF Cache!bread, Cache!Buf, Buf
<1> QED BY <1>6, <1>7, <1>10, <1>11, Zenon DEF Cache!CacheNext

\* The end of the write with which a buffer is evicted: on to the read.
LEMMA EndOfEvictWrite ==
  ASSUME DriverInv, PollEnd, NEW b \in Buf, NEW blk \in Block, EvictWrite(b, blk)
  PROVE  /\ EvictRead(b, blk)' /\ drv' = Begin(jobs'[1])
         /\ UNCHANGED <<settled, mru, last, panicked>>
<1>1. BusInv /\ C!CacheInv
  BY Zenon DEF DriverInv, BusInv
<1>2. jobs[1].op = "DISK_WRITE" => disk[jobs[1].blk] = buf[jobs[1].b].data
  BY <1>1, WholeBlock, Zenon
<1>3. /\ jobs[1] = Job("DISK_WRITE", b, sbuf[b].blockno) /\ Len(jobs) = 2
      /\ jobs[2] = Job("DISK_READ", b, blk) /\ Tail(jobs) = <<jobs[2]>>
  BY DEF EvictWrite
<1>4. jobs[1].op = "DISK_WRITE" /\ jobs[1].b = b /\ jobs[1].blk = sbuf[b].blockno
  BY <1>3 DEF Job
<1>5. sbuf[b].dirty /\ sbuf[b].blockno \in Block /\ sbuf \in [Buf -> Buffer]
      /\ sdisk \in [Block -> Content]
  BY <1>1, SettledFacts, Zenon DEF EvictWrite, Cache!IsLast, Cache!Clean, Cache!Unused,
     sbuf
<1>6. buf = sbuf
  BY Zenon DEF EvictWrite
<1>7. buf' = [buf EXCEPT ![b] = Written(@)] /\ UNCHANGED <<disk, mru, last, panicked>>
  BY <1>4, <1>5, <1>6, WriteLeaves, Zenon DEF PollEnd
<1>8. jobs' = <<Job("DISK_READ", b, blk)>> /\ drv' = Begin(jobs'[1]) /\ UNCHANGED settled
  BY <1>3 DEF PollEnd
<1>9. disk = [sdisk EXCEPT ![sbuf[b].blockno] = sbuf[b].data]
  <2>1. disk[sbuf[b].blockno] = sbuf[b].data
    BY <1>2, <1>4, <1>6, Zenon
  <2>2. \A x \in Block : x # sbuf[b].blockno => disk[x] = sdisk[x]
    BY Zenon DEF EvictWrite
  <2>3. disk \in [Block -> BlockData]
    BY <1>1, Zenon DEF BusInv, DriverTypeOK
  <2>4. PICK n, w : n \in Block /\ n = sbuf[b].blockno /\ w = sbuf[b].data
    BY <1>5, Zenon
  <2>5. disk = [sdisk EXCEPT ![n] = w]
    BY <2>1, <2>2, <2>3, <2>4, <1>5, Zenon
  <2> QED BY <2>4, <2>5, Zenon
<1>10. /\ Cache!Cached(blk)' = Cache!Cached(blk) /\ Cache!Clean' = Cache!Clean
       /\ Cache!IsLast(Cache!Unused, b)' <=> Cache!IsLast(Cache!Unused, b)
  <2>1. settled' = settled /\ mru' = mru /\ last' = last
    BY <1>7, <1>8, Zenon
  <2>2. Cache!Cached(blk)' = Cache!Cached(blk)
    BY <2>1, Zenon DEF Cache!Cached
  <2>3. Cache!Unused' = Cache!Unused /\ Cache!Clean' = Cache!Clean
    BY <2>1, Zenon DEF Cache!Unused, Cache!Clean
  <2>4. Cache!IsLast(Cache!Unused, b)' <=> Cache!IsLast(Cache!Unused, b)
    BY <2>1 DEF Cache!IsLast, Cache!Before, Cache!Unused
  <2> QED BY <2>2, <2>3, <2>4, Zenon
<1>11. sbuf' = sbuf /\ sdisk' = sdisk
  BY <1>8, Zenon DEF sbuf, sdisk
<1> QED BY <1>6, <1>7, <1>8, <1>9, <1>10, <1>11, Zenon DEF EvictWrite, EvictRead

\* The end of a write of bflush(): on to the next dirty buffer,
LEMMA FlushGoesOn ==
  ASSUME DriverInv, PollEnd, Flush, Len(jobs) > 1
  PROVE  /\ Flush' /\ drv' = Begin(jobs'[1]) /\ jobs' \in Seq(Jobs) /\ jobs' # <<>>
         /\ UNCHANGED <<settled, mru, last, panicked>>
<1>1. BusInv /\ C!CacheInv
  BY Zenon DEF DriverInv, BusInv
<1>2. /\ jobs[1].op = "DISK_WRITE" => disk[jobs[1].blk] = buf[jobs[1].b].data
      /\ jobs \in Seq(Jobs) /\ Len(jobs) \in Nat /\ jobs[1].b \in Buf /\ jobs[1].blk \in Block
      /\ jobs # <<>>
  BY <1>1, WholeBlock, Zenon
<1>3. /\ sbuf \in [Buf -> Buffer]
      /\ \A b \in Buf : sbuf[b].dirty => sbuf[b].blockno \in Block
      /\ \A b, c \in Buf : sbuf[b].dirty /\ sbuf[b].blockno = sbuf[c].blockno => b = c
  BY <1>1, SettledFacts, Zenon
<1>4. 1 \in DOMAIN jobs /\ 2 \in DOMAIN jobs /\ \A k \in DOMAIN jobs : jobs[k].b \in Buf
  <2>1. \A k \in DOMAIN jobs : jobs[k] \in Jobs
    BY <1>2
  <2> QED BY <1>2, <2>1 DEF Jobs
<1>5. /\ jobs[1].op = "DISK_WRITE" /\ sbuf[jobs[1].b].dirty
      /\ jobs[1].blk = sbuf[jobs[1].b].blockno
  BY <1>4, Zenon DEF Flush
<1>6. PICK c \in Buf : c = jobs[1].b
  BY <1>2, Zenon
<1>7. c \in Pending /\ ~Flushed(c) /\ buf[c] = sbuf[c]
  BY <1>4, <1>6, Zenon DEF Pending, Flushed, Flush
<1>8. buf' = [buf EXCEPT ![c] = Written(@)] /\ UNCHANGED <<disk, mru, last, panicked>>
  BY <1>5, <1>6, <1>7, WriteLeaves, Zenon DEF PollEnd
<1>9. jobs' = Tail(jobs) /\ drv' = Begin(jobs[2]) /\ UNCHANGED settled
  BY DEF PollEnd
<1>10. /\ jobs' \in Seq(Jobs) /\ jobs' # <<>> /\ jobs'[1] = jobs[2]
       /\ DOMAIN jobs' = 1 .. Len(jobs) - 1
       /\ \A k \in DOMAIN jobs' : k + 1 \in DOMAIN jobs /\ jobs'[k] = jobs[k + 1]
  <2>1. jobs' \in Seq(Jobs) /\ Len(jobs') = Len(jobs) - 1
    BY <1>2, <1>9
  <2>2. DOMAIN jobs' = 1 .. Len(jobs) - 1 /\ DOMAIN jobs = 1 .. Len(jobs)
    BY <1>2, <2>1
  <2>3. \A k \in 1 .. Len(jobs) - 1 : Tail(jobs)[k] = jobs[k + 1]
    BY <1>2
  <2>4. \A k \in DOMAIN jobs' : k + 1 \in DOMAIN jobs
    BY <1>2, <2>2
  <2>5. \A k \in DOMAIN jobs' : jobs'[k] = jobs[k + 1]
    BY <1>9, <2>2, <2>3, Zenon
  <2>6. jobs' # <<>> /\ jobs'[1] = jobs[2]
    <3>1. 1 \in DOMAIN jobs' /\ 1 + 1 = 2
      BY <1>2, <2>2
    <3>2. jobs'[1] = jobs[2]
      BY <2>5, <3>1, Zenon
    <3> QED BY <2>1, <3>1, <3>2
  <2> QED BY <2>1, <2>2, <2>4, <2>5, <2>6, Zenon
<1>11. sbuf' = sbuf /\ sdisk' = sdisk
  BY <1>9, Zenon DEF sbuf, sdisk
<1>12. Pending' = Pending \ {c}
  <2>1. \A k \in DOMAIN jobs : k = 1 \/ (k - 1 \in DOMAIN jobs' /\ jobs'[k - 1] = jobs[k])
    BY <1>2, <1>10
  <2>2. \A k \in DOMAIN jobs' : jobs'[k].b # c
    <3> SUFFICES ASSUME NEW k \in DOMAIN jobs', jobs'[k].b = c PROVE FALSE
      OBVIOUS
    <3>1. k + 1 \in DOMAIN jobs /\ jobs[k + 1].b = jobs[1].b /\ k + 1 # 1
      BY <1>6, <1>10
    <3> QED BY <3>1, <1>4, Zenon DEF Flush
  <2>3. \A b \in Buf : b \in Pending' <=> \E k \in DOMAIN jobs' : jobs'[k].b = b
    BY Zenon DEF Pending
  <2>4. \A b \in Buf : b \in Pending <=> \E k \in DOMAIN jobs : jobs[k].b = b
    BY Zenon DEF Pending
  <2>5. ASSUME NEW b \in Buf PROVE b \in Pending' <=> b \in Pending /\ b # c
    <3>1. CASE b \in Pending'
      BY <3>1, <1>10, <2>2, <2>3, <2>4
    <3>2. CASE b \in Pending /\ b # c
      BY <3>2, <1>6, <2>1, <2>3, <2>4, Zenon
    <3> QED BY <2>5, <2>3, <2>4, <3>1, <3>2, Zenon
  <2>6. Pending \subseteq Buf /\ Pending' \subseteq Buf
    BY <1>4, <1>10 DEF Pending
  <2> QED BY <2>5, <2>6, Zenon
<1>13. \A b \in Buf : Flushed(b)' <=> Flushed(b) \/ b = c
  BY <1>5, <1>6, <1>11, <1>12, Zenon DEF Flushed
<1>14. \A k \in DOMAIN jobs' :
         /\ jobs'[k].op = "DISK_WRITE" /\ sbuf[jobs'[k].b].dirty
         /\ jobs'[k].blk = sbuf[jobs'[k].b].blockno
  BY <1>10 DEF Flush
<1>15. \A k, m \in DOMAIN jobs' : jobs'[k].b = jobs'[m].b => k = m
  <2> SUFFICES ASSUME NEW k \in DOMAIN jobs', NEW m \in DOMAIN jobs', jobs'[k].b = jobs'[m].b
               PROVE  k = m
    OBVIOUS
  <2>1. k + 1 = m + 1
    BY <1>10 DEF Flush
  <2> QED BY <1>2, <1>10, <2>1
<1>16. \A b \in Buf : buf'[b] = IF Flushed(b)' THEN Written(sbuf[b]) ELSE sbuf[b]
  <2>1. buf \in [Buf -> Buffer]
    BY <1>1, Zenon DEF BusInv, DriverTypeOK
  <2>2. PICK w : w = Written(buf[c])
    OBVIOUS
  <2>3. buf'[c] = w /\ \A b \in Buf : b # c => buf'[b] = buf[b]
    BY <1>8, <2>1, <2>2, Zenon
  <2> QED BY <1>7, <1>13, <2>2, <2>3 DEF Flush
<1>17. \A b \in Buf : Flushed(b)' => disk[sbuf[b].blockno] = sbuf[b].data
  BY <1>2, <1>5, <1>6, <1>7, <1>13 DEF Flush
<1>18. ASSUME NEW x \in Block \ {jobs'[1].blk},
              \A b \in Buf : sbuf[b].blockno = x => ~Flushed(b)'
       PROVE  disk[x] = sdisk[x]
  <2>1. x # jobs[1].blk
    BY <1>5, <1>6, <1>13, <1>18, Zenon
  <2> QED BY <1>13, <1>18, <2>1, Zenon DEF Flush
<1>19. Flush'
  BY <1>8, <1>10, <1>11, <1>14, <1>15, <1>16, <1>17, <1>18 DEF Flush
<1> QED BY <1>8, <1>9, <1>10, <1>19, Zenon

\* or bflush() is over, and the abstract cache makes the whole of it.
LEMMA FlushEnds ==
  ASSUME DriverInv, PollEnd, Flush, Len(jobs) = 1
  PROVE  Cache!CacheNext /\ AtRest' /\ drv' = Resting
<1>1. BusInv /\ C!CacheInv
  BY Zenon DEF DriverInv, BusInv
<1>2. /\ jobs[1].op = "DISK_WRITE" => disk[jobs[1].blk] = buf[jobs[1].b].data
      /\ jobs \in Seq(Jobs) /\ jobs[1].b \in Buf /\ jobs[1].blk \in Block
      /\ panicked = FALSE /\ drv # Resting
  BY <1>1, WholeBlock, Zenon
<1>3. /\ sbuf \in [Buf -> Buffer] /\ sdisk \in [Block -> Content] /\ Cache!Buf = Buf
      /\ \A b \in Buf : sbuf[b].dirty => sbuf[b].blockno \in Block
      /\ \A b, c \in Buf : sbuf[b].dirty /\ sbuf[b].blockno = sbuf[c].blockno => b = c
  BY <1>1, SettledFacts, Zenon
<1>4. PICK c \in Buf : c = jobs[1].b
  BY <1>2, Zenon
<1>5. DOMAIN jobs = {1} /\ Tail(jobs) = <<>>
  <2>1. DOMAIN jobs = 1 .. 1 /\ 1 .. 1 = {1}
    BY <1>2
  <2>2. jobs # <<>> /\ Len(jobs) = 1
    BY <1>1, WholeBlock, Zenon
  <2>3. Tail(jobs) \in Seq(Jobs) /\ Len(Tail(jobs)) = 0
    BY <1>2, <2>2
  <2>4. \A s \in Seq(Jobs) : Len(s) = 0 => s = <<>>
    OBVIOUS
  <2> QED BY <2>1, <2>3, <2>4, Zenon
<1>6. /\ jobs[1].op = "DISK_WRITE" /\ sbuf[c].dirty /\ jobs[1].blk = sbuf[c].blockno
      /\ Pending = {c}
  BY <1>4, <1>5 DEF Flush, Pending
<1>7. \A b \in Buf : Flushed(b) <=> sbuf[b].dirty /\ b # c
  BY <1>6, Zenon DEF Flushed
<1>8. buf[c] = sbuf[c] /\ disk[sbuf[c].blockno] = sbuf[c].data
  BY <1>2, <1>4, <1>6, <1>7 DEF Flush
<1>9. buf' = [buf EXCEPT ![c] = Written(@)] /\ UNCHANGED <<disk, mru, last, panicked>>
  BY <1>4, <1>6, <1>8, WriteLeaves, Zenon DEF PollEnd
<1>10. jobs' = <<>> /\ drv' = Resting /\ settled' = [buf |-> buf', disk |-> disk]
  BY <1>5, Zenon DEF PollEnd
<1>11. AtRest'
  BY <1>9, <1>10, Zenon DEF AtRest, sbuf, sdisk
<1>12. settled'.buf = buf' /\ settled'.disk = disk
  BY <1>10, Zenon
<1>13. buf' = [b \in Buf |-> IF sbuf[b].dirty THEN Written(sbuf[b]) ELSE sbuf[b]]
  <2>1. buf \in [Buf -> Buffer]
    BY <1>1, Zenon DEF BusInv, DriverTypeOK
  <2>2. PICK w : w = Written(sbuf[c])
    OBVIOUS
  <2>3. buf' = [buf EXCEPT ![c] = w]
    BY <1>8, <1>9, <2>2, SMTT(30)
  <2>4. \A b \in Buf : buf'[b] = IF sbuf[b].dirty THEN Written(sbuf[b]) ELSE sbuf[b]
    BY <1>6, <1>7, <2>1, <2>2, <2>3, Zenon DEF Flush
  <2>5. buf' = [b \in Buf |-> buf'[b]]
    BY <2>1, <2>3, Zenon
  <2> QED BY <2>4, <2>5, Zenon
<1>14. settled'.buf = [b \in Cache!Buf |-> IF settled.buf[b].dirty
                         THEN Cache!blkrw(settled.buf[b]) ELSE settled.buf[b]]
  BY <1>3, <1>12, <1>13, Zenon DEF sbuf, Written, Cache!blkrw
<1>15. ASSUME NEW x \in Block
       PROVE  disk[x] = IF \E b \in Cache!Cached(x) : settled.buf[b].dirty
                          THEN settled.buf[CHOOSE b \in Cache!Cached(x) : settled.buf[b].dirty].data
                          ELSE settled.disk[x]
  <2>1. CASE \E b \in Cache!Cached(x) : settled.buf[b].dirty
    <3>1. PICK e : e = CHOOSE b \in Cache!Cached(x) : settled.buf[b].dirty
      OBVIOUS
    <3>2. e \in Cache!Cached(x) /\ settled.buf[e].dirty
      BY <2>1, <3>1, Zenon
    <3>3. e \in Buf /\ sbuf[e].dirty /\ sbuf[e].blockno = x
      BY <1>3, <3>2, Zenon DEF Cache!Cached, sbuf
    <3>4. disk[x] = sbuf[e].data
      BY <1>7, <1>8, <3>3, Zenon DEF Flush
    <3> QED BY <2>1, <3>1, <3>4, Zenon DEF sbuf
  <2>2. CASE ~\E b \in Cache!Cached(x) : settled.buf[b].dirty
    <3>1. \A b \in Buf : sbuf[b].blockno = x => ~sbuf[b].dirty
      BY <1>3, <2>2, Zenon DEF Cache!Cached, sbuf
    <3>2. x # jobs[1].blk
      BY <1>6, <3>1, Zenon
    <3>3. disk[x] = sdisk[x]
      BY <1>7, <3>1, <3>2, Zenon DEF Flush
    <3> QED BY <2>2, <3>3, Zenon DEF sdisk
  <2> QED BY <2>1, <2>2, Zenon
<1>16. disk = [x \in Block |-> disk[x]]
  BY <1>1, Zenon DEF BusInv, DriverTypeOK
<1>17. settled'.disk =
         [blk \in Block |->
            IF \E b \in Cache!Cached(blk) : settled.buf[b].dirty
              THEN settled.buf[CHOOSE b \in Cache!Cached(blk) : settled.buf[b].dirty].data
              ELSE settled.disk[blk]]
  BY <1>12, <1>15, <1>16, Zenon
<1>18. Cache!bflush
  BY <1>2, <1>9, <1>14, <1>17, Zenon DEF Cache!bflush
<1> QED BY <1>2, <1>10, <1>11, <1>18, Zenon DEF Cache!CacheNext

-----------------------------------------------------------------------------
\* A step of the abstract cache keeps its invariant.
LEMMA Bridge == Cache!CacheNext => C!CacheNext
BY Zenon DEF Cache!CacheNext, C!CacheNext, Cache!bread, C!bread,
  Cache!BreadCached, C!BreadCached, Cache!BreadClean, C!BreadClean,
  Cache!BreadEvict, C!BreadEvict, Cache!BreadPanic, C!BreadPanic,
  Cache!brelse, C!brelse, Cache!bwrite, C!bwrite, Cache!bflush, C!bflush,
  Cache!blkrw, C!blkrw, Cache!DiskAfter, C!DiskAfter, Cache!Recycled, C!Recycled,
  Cache!IsFirst, C!IsFirst, Cache!IsLast, C!IsLast, Cache!Before, C!Before,
  Cache!Cached, C!Cached, Cache!Unused, C!Unused, Cache!Clean, C!Clean,
  Cache!Modified, C!Modified, Cache!Released, C!Released, Cache!ToFront, C!ToFront,
  Cache!ReleasedMru, C!ReleasedMru, Cache!Buf, C!Buf

LEMMA AbstractStep ==
  ASSUME C!CacheInv, Cache!CacheNext \/ UNCHANGED Cache!cacheVars
  PROVE  /\ C!CacheInv' /\ [Cache!CacheNext]_Cache!cacheVars
         /\ sbuf' \in [Buf -> Buffer] /\ sdisk' \in [Block -> Content]
<1>1. [C!CacheNext]_C!cacheVars
  BY Bridge, Zenon DEF Cache!cacheVars, C!cacheVars
<1>2. C!CacheInv'
  BY <1>1, C!CacheStepKeeps, NBufAssumption, BlockAssumption, ContentAssumption, Zenon
<1>3. C!Buf = Buf /\ C!Buffer = Buffer
  BY Zenon DEF C!Buf, Buf, C!Buffer, Buffer, C!NoBlock, NoBlock
<1>4. sbuf' \in [Buf -> Buffer] /\ sdisk' \in [Block -> Content]
  BY <1>2, <1>3, Zenon DEF C!CacheInv, C!CacheTypeOK, sbuf, sdisk
<1> QED BY <1>2, <1>4, Zenon

\* Steps that leave the call where it is.
LEMMA Stutters ==
  ASSUME UNCHANGED <<settled, mru, last>>,
         (panicked /\ drv = Resting)' = (panicked /\ drv = Resting)
  PROVE  UNCHANGED Cache!cacheVars
BY Zenon DEF Cache!cacheVars

LEMMA CallStays ==
  ASSUME CallInv, UNCHANGED <<jobs, buf, disk, settled, mru, last>>
  PROVE  CallInv'
<1>1. /\ jobs' = jobs /\ buf' = buf /\ disk' = disk /\ settled' = settled /\ mru' = mru
      /\ sbuf' = sbuf /\ sdisk' = sdisk
  BY Zenon DEF sbuf, sdisk
<1>2. CASE AtRest
  BY <1>1, <1>2, Zenon DEF AtRest, CallInv
<1>3. CASE \E b \in Buf, blk \in Block : CleanRead(b, blk) \/ EvictWrite(b, blk) \/ EvictRead(b, blk)
  <2>1. PICK b \in Buf, blk \in Block : CleanRead(b, blk) \/ EvictWrite(b, blk) \/ EvictRead(b, blk)
    BY <1>3, Zenon
  <2>3. CleanRead(b, blk) => CleanRead(b, blk)'
    BY <1>1 DEF CleanRead, Cache!Cached, Cache!Clean, Cache!Unused,
                    Cache!IsLast, Cache!Before
  <2>4. EvictWrite(b, blk) => EvictWrite(b, blk)'
    BY <1>1 DEF EvictWrite, Cache!Cached, Cache!Clean, Cache!Unused,
                    Cache!IsLast, Cache!Before
  <2>5. EvictRead(b, blk) => EvictRead(b, blk)'
    BY <1>1 DEF EvictRead, Cache!Cached, Cache!Clean, Cache!Unused,
                    Cache!IsLast, Cache!Before
  <2> QED BY <2>1, <2>3, <2>4, <2>5, Zenon DEF CallInv
<1>4. CASE Flush
  <2>1. \A b \in Buf : Flushed(b)' <=> Flushed(b)
    BY <1>1, Zenon DEF Flushed, Pending
  <2>2. Flush'
    BY <1>1, <1>4, <2>1 DEF Flush
  <2> QED BY <2>2, Zenon DEF CallInv
<1> QED BY <1>2, <1>3, <1>4, Zenon DEF CallInv

LEMMA QuietStep ==
  ASSUME DriverInv, BusInv', UNCHANGED <<jobs, buf, disk, settled, mru, last>>,
         (panicked /\ drv = Resting)' = (panicked /\ drv = Resting)
  PROVE  DriverInv' /\ [Cache!CacheNext]_Cache!cacheVars
<1>1. CallInv'
  BY CallStays, Zenon DEF DriverInv
<1>2. UNCHANGED Cache!cacheVars
  BY Stutters, Zenon
<1>3. C!CacheInv' /\ [Cache!CacheNext]_Cache!cacheVars
  BY <1>2, AbstractStep, Zenon DEF DriverInv
<1> QED BY <1>1, <1>3, Zenon DEF DriverInv, BusInv

\* A packet goes to the disk: only a block that is being written changes.
LEMMA SendGoStep ==
  ASSUME DriverInv, SendCommand, drv.cmd = "DISK_GO"
  PROVE  DriverInv' /\ [Cache!CacheNext]_Cache!cacheVars
<1>1. BusInv /\ C!CacheInv /\ CallInv
  BY Zenon DEF DriverInv, BusInv
<1>2. /\ BusInv' /\ UNCHANGED <<jobs, buf>>
      /\ jobs[1].op = "DISK_READ" => disk' = disk
      /\ \A x \in Block : x # jobs[1].blk => disk'[x] = disk[x]
  BY <1>1, SendGoKeeps, Zenon
<1>3. jobs # <<>> /\ jobs[1].b \in Buf /\ Len(jobs) \in Nat /\ Len(jobs) >= 1 /\ jobs \in Seq(Jobs)
  BY <1>1, CurrentJob, Zenon DEF MoveCmd, BusInv, DriverTypeOK
<1>4. UNCHANGED <<settled, mru, last>> /\ panicked = FALSE /\ panicked' = FALSE
  BY DEF SendCommand, At
<1>5. /\ jobs' = jobs /\ buf' = buf /\ settled' = settled /\ mru' = mru
      /\ sbuf' = sbuf /\ sdisk' = sdisk
  BY <1>2, <1>4, Zenon DEF sbuf, sdisk
<1>6. ASSUME \E b \in Buf, blk \in Block : CleanRead(b, blk) \/ EvictRead(b, blk)
      PROVE  CallInv'
  <2>1. PICK b \in Buf, blk \in Block : CleanRead(b, blk) \/ EvictRead(b, blk)
    BY <1>6, Zenon
  <2>2. jobs = <<Job("DISK_READ", b, blk)>>
    BY <2>1, Zenon DEF CleanRead, EvictRead
  <2>3. disk' = disk
    BY <1>2, <2>2, Zenon DEF Job
  <2> QED BY <1>1, <1>2, <1>4, <2>3, CallStays, Zenon
<1>7. ASSUME \E b \in Buf, blk \in Block : EvictWrite(b, blk)
      PROVE  CallInv'
  <2>1. PICK b \in Buf, blk \in Block : EvictWrite(b, blk)
    BY <1>7, Zenon
  <2>2. jobs[1].blk = sbuf[b].blockno
    BY <2>1, Zenon DEF EvictWrite, Job
  <2>3. \A x \in Block : x # sbuf[b].blockno => disk'[x] = sdisk[x]
    BY <1>2, <2>1, <2>2, Zenon DEF EvictWrite
  <2>4. EvictWrite(b, blk)'
    BY <1>5, <2>1, <2>3
       DEF EvictWrite, Cache!Cached, Cache!Clean, Cache!Unused, Cache!IsLast, Cache!Before
  <2> QED BY <2>4, Zenon DEF CallInv
<1>8. ASSUME Flush PROVE CallInv'
  <2>1. 1 \in DOMAIN jobs
    BY <1>3
  <2>2. PICK c \in Buf : c = jobs[1].b
    BY <1>3, Zenon
  <2>3. c \in Pending /\ sbuf[c].dirty /\ jobs[1].blk = sbuf[c].blockno
    BY <1>8, <2>1, <2>2, Zenon DEF Pending, Flush
  <2>4. \A b \in Buf : Flushed(b) => sbuf[b].blockno # jobs[1].blk /\ sbuf[b].blockno \in Block
    BY <1>1, <2>3, SettledFacts, Zenon DEF Flushed
  <2>5. \A b \in Buf : Flushed(b) => disk'[sbuf[b].blockno] = sbuf[b].data
    BY <1>2, <1>8, <2>4, Zenon DEF Flush
  <2>6. \A x \in Block \ {jobs[1].blk} :
          (\A b \in Buf : sbuf[b].blockno = x => ~Flushed(b)) => disk'[x] = sdisk[x]
    BY <1>2, <1>8, Zenon DEF Flush
  <2>7. \A b \in Buf : Flushed(b)' <=> Flushed(b)
    BY <1>5, Zenon DEF Flushed, Pending
  <2>8. Flush'
    BY <1>5, <1>8, <2>5, <2>6, <2>7, Zenon DEF Flush
  <2> QED BY <2>8, Zenon DEF CallInv
<1>9. CallInv'
  BY <1>1, <1>3, <1>6, <1>7, <1>8, Zenon DEF CallInv, AtRest
<1>10. UNCHANGED Cache!cacheVars
  BY <1>4, Stutters, Zenon
<1>11. C!CacheInv' /\ [Cache!CacheNext]_Cache!cacheVars
  BY <1>1, <1>10, AbstractStep, Zenon
<1> QED BY <1>2, <1>9, <1>11, Zenon DEF DriverInv, BusInv

LEMMA WrittenType ==
  ASSUME NEW r \in Buffer
  PROVE  Written(r) \in Buffer
BY Zenon DEF Written, Buffer

\* A transfer ends, and with it the call of the cache, or the next one begins.
LEMMA PollEndStep ==
  ASSUME DriverInv, PollEnd
  PROVE  DriverInv' /\ [Cache!CacheNext]_Cache!cacheVars
<1>1. BusInv /\ C!CacheInv /\ CallInv
  BY Zenon DEF DriverInv, BusInv
<1>2. /\ dev.busy = FALSE /\ dev.irq = NONE /\ drv # Resting /\ panicked = FALSE
      /\ jobs # <<>> /\ Len(jobs) \in Nat /\ Len(jobs) >= 1
  BY <1>1, WholeBlock, Zenon
<1>3. /\ dev \in DevStates /\ dev' = dev /\ status' \in Status
      /\ disk' = disk /\ disk' \in [Block -> BlockData]
  BY <1>1, Zenon DEF PollEnd, BusInv, DriverTypeOK
<1>4. CASE Cache!CacheNext /\ AtRest' /\ drv' = Resting
  <2>1. /\ C!CacheInv' /\ [Cache!CacheNext]_Cache!cacheVars
        /\ sbuf' \in [Buf -> Buffer] /\ sdisk' \in [Block -> Content]
    BY <1>1, <1>4, AbstractStep, Zenon
  <2>2. jobs' = <<>> /\ buf' \in [Buf -> Buffer]
    BY <1>4, <2>1, Zenon DEF AtRest
  <2>3. BusInv'
    BY <1>2, <1>3, <1>4, <2>2, Rested, Zenon
  <2> QED BY <1>4, <2>1, <2>3, Zenon DEF DriverInv, BusInv, CallInv
<1>5. CASE \E b \in Buf, blk \in Block : EvictWrite(b, blk)
  <2>1. PICK b \in Buf, blk \in Block : EvictWrite(b, blk)
    BY <1>5, Zenon
  <2>2. /\ EvictRead(b, blk)' /\ drv' = Begin(jobs'[1])
        /\ UNCHANGED <<settled, mru, last, panicked>>
    BY <2>1, EndOfEvictWrite, SMTT(30)
  <2>3. jobs' = <<Job("DISK_READ", b, blk)>> /\ buf' = [sbuf EXCEPT ![b] = Written(@)]
    BY <2>2, Zenon DEF EvictRead, sbuf
  <2>4. jobs' \in Seq(Jobs) /\ jobs' # <<>>
    <3>1. Job("DISK_READ", b, blk) \in Jobs
      BY Zenon DEF Job, Jobs, TransferOp
    <3> QED BY <2>3, <3>1
  <2>5. buf' \in [Buf -> Buffer]
    <3>1. PICK w : w = Written(sbuf[b])
      OBVIOUS
    <3>2. sbuf \in [Buf -> Buffer] /\ w \in Buffer
      BY <1>1, <3>1, SettledFacts, WrittenType, Zenon
    <3> QED BY <2>3, <3>1, <3>2, Zenon
  <2>6. BusInv'
    <3>1. PICK ts : ts = jobs'
      OBVIOUS
    <3> QED BY <1>2, <1>3, <2>2, <2>4, <2>5, <3>1, Begins, Zenon
  <2>7. UNCHANGED Cache!cacheVars
    BY <1>2, <2>2, Stutters, Zenon
  <2>8. C!CacheInv' /\ [Cache!CacheNext]_Cache!cacheVars
    BY <1>1, <2>7, AbstractStep, Zenon
  <2>9. CallInv'
    BY <2>2, Zenon DEF CallInv
  <2> QED BY <2>6, <2>8, <2>9, Zenon DEF DriverInv, BusInv
<1>6. CASE Flush /\ Len(jobs) > 1
  <2>1. /\ Flush' /\ drv' = Begin(jobs'[1]) /\ jobs' \in Seq(Jobs) /\ jobs' # <<>>
        /\ UNCHANGED <<settled, mru, last, panicked>>
    BY <1>6, FlushGoesOn, Zenon
  <2>2. sbuf' = sbuf /\ sbuf \in [Buf -> Buffer]
    BY <1>1, <2>1, SettledFacts, Zenon DEF sbuf
  <2>3. buf' \in [Buf -> Buffer]
    <3>1. \A b \in Buf : buf'[b] \in Buffer
      BY <2>1, <2>2, WrittenType DEF Flush
    <3>2. PICK w : buf' = [buf EXCEPT ![jobs[1].b] = w]
      BY Zenon DEF PollEnd
    <3> QED BY <1>1, <3>1, <3>2, Zenon DEF BusInv, DriverTypeOK
  <2>4. BusInv'
    <3>1. PICK ts : ts = jobs'
      OBVIOUS
    <3> QED BY <1>2, <1>3, <2>1, <2>3, <3>1, Begins, Zenon
  <2>5. UNCHANGED Cache!cacheVars
    BY <1>2, <2>1, Stutters, Zenon
  <2>6. C!CacheInv' /\ [Cache!CacheNext]_Cache!cacheVars
    BY <1>1, <2>5, AbstractStep, Zenon
  <2> QED BY <2>1, <2>4, <2>6, Zenon DEF DriverInv, BusInv, CallInv
<1>7. CASE Flush /\ Len(jobs) = 1
  BY <1>4, <1>7, FlushEnds, Zenon
<1>8. CASE \E b \in Buf, blk \in Block : CleanRead(b, blk) \/ EvictRead(b, blk)
  BY <1>4, <1>8, EndOfCleanRead, EndOfEvictRead, Zenon
<1> QED BY <1>1, <1>2, <1>5, <1>6, <1>7, <1>8 DEF CallInv, AtRest

-----------------------------------------------------------------------------
\* Between two calls buffers and disk are those of the abstract cache.
LEMMA BetweenCalls ==
  ASSUME DriverInv, Rests
  PROVE  /\ jobs = <<>> /\ buf = settled.buf /\ disk = settled.disk
         /\ panicked = FALSE /\ drv = Resting
         /\ dev.busy = FALSE /\ dev.irq = NONE /\ dev \in DevStates /\ status \in Status
         /\ disk \in [Block -> BlockData] /\ buf \in [Buf -> Buffer]
<1>1. drv = Resting /\ panicked = FALSE /\ drv.i = 0 /\ drv.cmd = "none"
  BY DEF Rests, Resting
<1>2. jobs = <<>> /\ dev.busy = FALSE /\ dev.irq = NONE
  BY <1>1 DEF DriverInv, Protocol, Handshake, DriverTypeOK, DevStates
<1>3. AtRest
  <2>1. \A x, y : <<x>> # <<>> /\ <<x, y>> # <<>>
    OBVIOUS
  <2> QED BY <1>2, <2>1, Zenon DEF DriverInv, CallInv, CleanRead, EvictWrite, EvictRead,
             Flush
<1> QED BY <1>1, <1>2, <1>3, Zenon DEF AtRest, sbuf, sdisk, DriverInv, DriverTypeOK

\* A call without a transfer is one of the abstract cache.
LEMMA PlainCall ==
  ASSUME DriverInv, Rests, Cache!CacheNext, UNCHANGED driverVars,
         settled' = [buf |-> buf', disk |-> disk']
  PROVE  DriverInv' /\ [Cache!CacheNext]_Cache!cacheVars
<1>1. /\ jobs = <<>> /\ drv = Resting
      /\ dev.busy = FALSE /\ dev.irq = NONE /\ dev \in DevStates /\ status \in Status
  BY BetweenCalls, Zenon
<1>2. jobs' = <<>> /\ drv' = Resting /\ dev' = dev /\ status' = status
  BY <1>1, Zenon DEF driverVars
<1>3. /\ C!CacheInv' /\ [Cache!CacheNext]_Cache!cacheVars
      /\ sbuf' \in [Buf -> Buffer] /\ sdisk' \in [Block -> Content]
  BY AbstractStep, Zenon DEF DriverInv
<1>4. sbuf' = buf' /\ sdisk' = disk'
  BY Zenon DEF sbuf, sdisk
<1>5. disk' \in [Block -> BlockData]
  BY <1>3, <1>4, PacketAssumption, Zenon DEF BlockData
<1>6. BusInv'
  BY <1>1, <1>2, <1>3, <1>4, <1>5, Rested, Zenon
<1>7. CallInv'
  BY <1>2, <1>4, Zenon DEF CallInv, AtRest
<1> QED BY <1>3, <1>6, <1>7, Zenon DEF DriverInv, BusInv

LEMMA NoTransferStep ==
  ASSUME DriverInv,
         \/ \E blk \in Block, b \in Buf :
              /\ buf[b].refcnt < MaxRef
              /\ NoTransfer(BreadCached(blk, b) /\ UNCHANGED <<mru, last>>)
         \/ \E blk \in Block : NoTransfer(BreadPanic(blk))
         \/ \E b \in Buf : NoTransfer(brelse(b))
         \/ \E b \in Buf, v \in Content : NoTransfer(bwrite(b, v))
  PROVE  DriverInv' /\ [Cache!CacheNext]_Cache!cacheVars
<1>1. /\ Rests /\ UNCHANGED driverVars /\ settled' = [buf |-> buf', disk |-> disk']
  BY Zenon DEF NoTransfer
<1>2. /\ settled.buf = buf /\ settled.disk = disk /\ panicked = FALSE /\ drv = Resting
      /\ Cache!Buf = Buf
  BY <1>1, BetweenCalls, SMTT(30) DEF Cache!Buf, Buf
<1>3. settled'.buf = buf' /\ settled'.disk = disk' /\ drv' = Resting
  BY <1>1, <1>2, Zenon DEF driverVars
<1>4. ASSUME NEW blk \in Block, NEW b \in Buf, buf[b].refcnt < MaxRef,
             BreadCached(blk, b), UNCHANGED <<mru, last>>
      PROVE  Cache!CacheNext
  <2>1. Cache!BreadCached(blk, b)
    BY <1>2, <1>3, <1>4, Zenon DEF BreadCached, Cache!BreadCached, IsFirst, Cache!IsFirst,
       Before, Cache!Before, Cached, Cache!Cached, blkrw, Cache!blkrw
  <2> QED BY <1>2, <1>4, <2>1, Zenon DEF Cache!CacheNext, Cache!bread
<1>5. ASSUME NEW blk \in Block, BreadPanic(blk)
      PROVE  Cache!CacheNext
  <2>1. Cache!BreadPanic(blk)
    BY <1>2, <1>3, <1>5, Zenon DEF BreadPanic, Cache!BreadPanic, Cached, Cache!Cached,
       Unused, Cache!Unused
  <2> QED BY <1>2, <2>1, Zenon DEF Cache!CacheNext
<1>6. ASSUME NEW b \in Buf, brelse(b)
      PROVE  Cache!CacheNext
  <2>1. Cache!brelse(b)
    BY <1>2, <1>3, <1>6, Zenon DEF brelse, Cache!brelse, Released, Cache!Released,
       ReleasedMru, Cache!ReleasedMru, ToFront, Cache!ToFront
  <2> QED BY <1>2, <2>1, Zenon DEF Cache!CacheNext
<1>7. ASSUME NEW b \in Buf, NEW v \in Content, bwrite(b, v)
      PROVE  Cache!CacheNext
  <2>1. Cache!bwrite(b, v)
    BY <1>2, <1>3, <1>7, Zenon DEF bwrite, Cache!bwrite, Modified, Cache!Modified
  <2> QED BY <1>2, <2>1, Zenon DEF Cache!CacheNext
<1>8. Cache!CacheNext
  BY <1>4, <1>5, <1>6, <1>7, Zenon DEF NoTransfer
<1> QED BY <1>1, <1>8, PlainCall, Zenon

-----------------------------------------------------------------------------
\* A call begins its transfers.
LEMMA StartStep ==
  ASSUME DriverInv, NEW ts \in Seq(Jobs), Start(ts), CallInv'
  PROVE  DriverInv' /\ [Cache!CacheNext]_Cache!cacheVars
<1>1. /\ Rests /\ ts # <<>> /\ jobs' = ts /\ drv' = Begin(ts[1])
      /\ UNCHANGED <<buf, mru, disk, last, panicked, status, dev, settled>>
  BY Zenon DEF Start, cacheVars
<1>2. /\ dev.busy = FALSE /\ dev.irq = NONE /\ dev \in DevStates /\ status \in Status
      /\ disk \in [Block -> BlockData] /\ buf \in [Buf -> Buffer] /\ panicked = FALSE
  BY <1>1, BetweenCalls, Zenon
<1>3. BusInv'
  BY <1>1, <1>2, Begins, Zenon
<1>4. UNCHANGED Cache!cacheVars
  BY <1>1, <1>2, Stutters, Zenon
<1>5. C!CacheInv' /\ [Cache!CacheNext]_Cache!cacheVars
  BY <1>4, AbstractStep, Zenon DEF DriverInv
<1> QED BY <1>3, <1>5, Zenon DEF DriverInv, BusInv

LEMMA StartCleanStep ==
  ASSUME DriverInv, NEW blk \in Block, NEW b \in Buf, StartClean(blk, b)
  PROVE  DriverInv' /\ [Cache!CacheNext]_Cache!cacheVars
<1>1. PICK ts : ts = <<Job("DISK_READ", b, blk)>>
  BY Zenon
<1>2. ts \in Seq(Jobs)
  <2>1. Job("DISK_READ", b, blk) \in Jobs
    BY Zenon DEF Job, Jobs, TransferOp
  <2> QED BY <1>1, <2>1
<1>3. Start(ts) /\ Rests /\ Cached(blk) = {} /\ IsLast(Clean, b)
  BY <1>1, Zenon DEF StartClean, Start
<1>4. buf = settled.buf /\ disk = settled.disk
  BY <1>3, BetweenCalls, Zenon
<1>5. jobs' = ts /\ settled' = settled /\ mru' = mru /\ buf' = settled.buf /\ disk' = settled.disk
  BY <1>3, <1>4, Zenon DEF Start, cacheVars
<1>6. CleanRead(b, blk)'
  BY <1>1, <1>3, <1>4, <1>5
     DEF CleanRead, Cache!Cached, Cached, Cache!Clean, Clean, Cache!Unused, Unused,
         Cache!IsLast, IsLast, Cache!Before, Before, Cache!Buf, Buf, sbuf, sdisk
<1>7. CallInv'
  BY <1>6, Zenon DEF CallInv
<1> QED BY <1>2, <1>3, <1>7, StartStep, Zenon

LEMMA StartEvictStep ==
  ASSUME DriverInv, NEW blk \in Block, NEW b \in Buf, StartEvict(blk, b)
  PROVE  DriverInv' /\ [Cache!CacheNext]_Cache!cacheVars
<1>1. PICK ts : ts = <<Job("DISK_WRITE", b, buf[b].blockno), Job("DISK_READ", b, blk)>>
  BY Zenon
<1>2. Start(ts) /\ Rests /\ Cached(blk) = {} /\ Clean = {} /\ IsLast(Unused, b)
  BY <1>1, Zenon DEF StartEvict, Start
<1>3. buf = settled.buf /\ disk = settled.disk
  BY <1>2, BetweenCalls, Zenon
<1>4. buf[b].blockno \in Block
  <2>1. buf[b].dirty
    BY <1>2, Zenon DEF Clean, IsLast
  <2> QED BY <1>3, <2>1, SettledFacts, Zenon DEF DriverInv, sbuf
<1>5. ts \in Seq(Jobs)
  <2>1. Job("DISK_WRITE", b, buf[b].blockno) \in Jobs /\ Job("DISK_READ", b, blk) \in Jobs
    BY <1>4, Zenon DEF Job, Jobs, TransferOp
  <2> QED BY <1>1, <2>1
<1>6. jobs' = ts /\ settled' = settled /\ mru' = mru /\ buf' = settled.buf /\ disk' = settled.disk
  BY <1>2, <1>3, SMTT(30) DEF Start, cacheVars
<1>7. EvictWrite(b, blk)'
  BY <1>1, <1>2, <1>3, <1>6
     DEF EvictWrite, Cache!Cached, Cached, Cache!Clean, Clean, Cache!Unused, Unused,
         Cache!IsLast, IsLast, Cache!Before, Before, Cache!Buf, Buf, sbuf, sdisk
<1>8. CallInv'
  BY <1>7, Zenon DEF CallInv
<1> QED BY <1>2, <1>5, <1>8, StartStep, Zenon

LEMMA BuffersAreNumbers == \A b \in Buf : b \in Nat
BY NBufAssumption DEF Buf

LEMMA StartFlushStep ==
  ASSUME DriverInv, StartFlush
  PROVE  DriverInv' /\ [Cache!CacheNext]_Cache!cacheVars
<1> DEFINE dirty == {b \in Buf : buf[b].dirty}
<1>1. PICK N \in 1 .. NBUF : \E o \in [1 .. N -> dirty] :
        /\ \A k, m \in DOMAIN o : k < m => o[k] < o[m]
        /\ \A b \in dirty : \E k \in DOMAIN o : o[k] = b
        /\ Start([k \in DOMAIN o |-> Job("DISK_WRITE", o[k], buf[o[k]].blockno)])
  BY Zenon DEF StartFlush
<1>2. PICK order \in [1 .. N -> dirty] :
        /\ \A k, m \in DOMAIN order : k < m => order[k] < order[m]
        /\ \A b \in dirty : \E k \in DOMAIN order : order[k] = b
        /\ Start([k \in DOMAIN order |->
                    Job("DISK_WRITE", order[k], buf[order[k]].blockno)])
  BY <1>1, Zenon
<1>3. PICK ts : ts = [k \in 1 .. N |-> Job("DISK_WRITE", order[k], buf[order[k]].blockno)]
  BY Zenon
<1>4. Start(ts) /\ Rests
  BY <1>1, <1>2, <1>3, Zenon DEF Start
<1>5. buf = sbuf /\ disk = sdisk
  BY <1>4, BetweenCalls, Zenon DEF sbuf, sdisk
<1>6. \A k \in 1 .. N : order[k] \in Buf /\ sbuf[order[k]].dirty
  BY <1>1, <1>2, <1>5, Zenon
<1>7. \A k \in 1 .. N :
        /\ ts[k].op = "DISK_WRITE" /\ ts[k].b = order[k] /\ ts[k].blk = sbuf[order[k]].blockno
        /\ ts[k] \in Jobs
  <2> SUFFICES ASSUME NEW k \in 1 .. N
               PROVE  /\ ts[k].op = "DISK_WRITE" /\ ts[k].b = order[k]
                      /\ ts[k].blk = sbuf[order[k]].blockno /\ ts[k] \in Jobs
    OBVIOUS
  <2>1. sbuf[order[k]].blockno \in Block
    BY <1>6, SettledFacts, Zenon DEF DriverInv
  <2>2. ts[k] = [op |-> "DISK_WRITE", b |-> order[k], blk |-> sbuf[order[k]].blockno]
    BY <1>3, <1>5, Zenon DEF Job
  <2> QED BY <1>6, <2>1, <2>2 DEF Jobs, TransferOp
<1>8. ts \in Seq(Jobs) /\ DOMAIN ts = 1 .. N
  BY <1>3, <1>7
<1>9. jobs' = ts /\ settled' = settled /\ buf' = sbuf /\ disk' = sdisk
      /\ ts # <<>> /\ sbuf' = sbuf /\ sdisk' = sdisk
  BY <1>4, <1>5, Zenon DEF Start, cacheVars, sbuf, sdisk
<1>10. \A k, m \in 1 .. N : ts[k].b = ts[m].b => k = m
  <2> SUFFICES ASSUME NEW k \in 1 .. N, NEW m \in 1 .. N, order[k] = order[m]
               PROVE  k = m
    BY <1>7
  <2>1. order[k] \in Nat /\ order[m] \in Nat
    BY <1>6, BuffersAreNumbers, Zenon
  <2>2. /\ k \in DOMAIN order /\ m \in DOMAIN order
        /\ \A x, y \in DOMAIN order : x < y => order[x] < order[y]
    BY <1>2, Zenon
  <2>3. ~(k < m) /\ ~(m < k)
    BY <2>1, <2>2
  <2> QED BY <2>3
<1>11. \A b \in Buf : ~Flushed(b)'
  <2> SUFFICES ASSUME NEW b \in Buf, sbuf[b].dirty
               PROVE  b \in Pending'
    BY <1>9, Zenon DEF Flushed
  <2>1. PICK k \in 1 .. N : order[k] = b
    BY <1>1, <1>2, <1>5, Zenon
  <2> QED BY <1>7, <1>8, <1>9, <2>1, Zenon DEF Pending
<1>12. Flush'
  BY <1>6, <1>7, <1>8, <1>9, <1>10, <1>11 DEF Flush
<1>13. CallInv'
  BY <1>12, Zenon DEF CallInv
<1> QED BY <1>4, <1>8, <1>13, StartStep, Zenon

-----------------------------------------------------------------------------
LEMMA DriverInitInv ==
  ASSUME DriverInit
  PROVE  DriverInv /\ Cache!CacheInit
<1>1. /\ CacheInit /\ jobs = <<>> /\ settled = [buf |-> buf, disk |-> disk]
      /\ status = NONE /\ panicked = FALSE
      /\ drv = [i |-> 1, cmd |-> "SET_USB_MODE", count |-> 0, data |-> <<>>]
      /\ dev = [busy |-> FALSE, irq |-> NONE, op |-> "none", blk |-> NoBlock,
                packet |-> 0, held |-> Junk]
  BY Zenon DEF DriverInit, CacheInit, Command
<1>2. settled.buf = buf /\ settled.disk = disk
  BY <1>1, Zenon
<1>3. Cache!CacheInit /\ C!CacheInit
  BY <1>1, <1>2, Zenon
     DEF CacheInit, C!CacheInit, Cache!CacheInit, C!EmptyCache, Cache!EmptyCache, EmptyCache,
         Buf, C!Buf, Cache!Buf, InitialList, C!InitialList, Cache!InitialList,
         NoBlock, Cache!NoBlock, C!NoBlock
<1>4. C!CacheInv
  BY <1>3, C!CacheInitInv, NBufAssumption, BlockAssumption, ContentAssumption, Zenon
<1>5. buf \in [Buf -> Buffer] /\ disk \in [Block -> BlockData]
  BY <1>2, <1>4, SettledFacts, PacketAssumption, Zenon DEF sbuf, sdisk, BlockData
<1>6. drv \in DrvStates /\ drv.i = 1 /\ drv.cmd = "SET_USB_MODE"
  <2>1. <<>> \in Seq(Value) /\ 0 \in 0 .. NPACKET
    BY NConst
  <2> QED BY <1>1, <2>1 DEF DrvStates, InitCmd
<1>7. dev \in DevStates /\ dev.busy = FALSE /\ dev.irq = NONE
  BY <1>1, Zenon DEF DevStates, Status
<1>8. DriverTypeOK
  BY <1>1, <1>5, <1>6, <1>7 DEF DriverTypeOK, Status
<1>9. Handshake /\ Protocol /\ Packets
  <2>1. jobs = <<>>
    BY <1>1, Zenon
  <2>2. Handshake
    BY <1>6, <1>7 DEF Handshake
  <2>3. Protocol /\ Packets
    BY <1>6, <2>1 DEF Protocol, Packets, InitCmd, TransferOp, MoveCmd
  <2> QED BY <2>2, <2>3, Zenon
<1>10. CallInv
  BY <1>1, <1>2, Zenon DEF CallInv, AtRest, sbuf, sdisk
<1> QED BY <1>3, <1>4, <1>8, <1>9, <1>10, Zenon DEF DriverInv

LEMMA DriverStep ==
  ASSUME DriverInv, [DriverNext]_allVars
  PROVE  DriverInv' /\ [Cache!CacheNext]_Cache!cacheVars
<1>1. BusInv
  BY Zenon DEF DriverInv, BusInv
<1>2. CASE Clear
  BY <1>1, <1>2, ClearKeeps, QuietStep, Zenon DEF Clear, At, cacheVars
<1>3. CASE Answer
  BY <1>1, <1>3, AnswerKeeps, QuietStep, Zenon DEF Answer, cacheVars
<1>4. CASE Fail
  BY <1>1, <1>4, FailKeeps, QuietStep, Zenon DEF Fail, cacheVars
<1>5. CASE irq5_handler
  BY <1>1, <1>5, IrqKeeps, QuietStep, Zenon DEF irq5_handler, cacheVars
<1>6. CASE SendData
  BY <1>1, <1>6, SendDataKeeps, QuietStep, Zenon DEF SendData, At, cacheVars
<1>7. CASE SendCommand
  <2>1. CASE drv.cmd \in InitCmd
    BY <1>1, <1>7, <2>1, SendInitKeeps, QuietStep, Zenon DEF SendCommand, At
  <2>2. CASE drv.cmd \in TransferOp
    BY <1>1, <1>7, <2>2, SendStartKeeps, QuietStep DEF SendCommand, At
  <2>3. CASE drv.cmd = "DISK_GO"
    BY <1>7, <2>3, SendGoStep, Zenon
  <2>4. drv.cmd \in InitCmd \cup TransferOp \cup {"DISK_GO"}
    BY <1>1, <1>7, Zenon DEF SendCommand, At, BusInv, Protocol, DriverTypeOK, DrvStates,
       MoveCmd
  <2> QED BY <2>1, <2>2, <2>3, <2>4, Zenon
<1>8. CASE PollFails
  <2>1. UNCHANGED <<buf, mru, disk, last, status, jobs, drv, dev, settled>>
    BY <1>8, Zenon DEF PollFails, driverVars
  <2>2. drv # Resting
    BY <1>8 DEF PollFails, At, Resting
  <2>3. BusInv'
    BY <1>1, <2>1, Zenon DEF BusInv, DriverTypeOK, Handshake, Outcome, GaveUp, Expected,
       Protocol,
       Follows, Packets, Moved, Done, InHand
  <2> QED BY <2>1, <2>2, <2>3, QuietStep, Zenon
<1>9. CASE PollInit
  BY <1>1, <1>9, PollInitKeeps, QuietStep, Zenon DEF PollInit, At, cacheVars
<1>10. CASE PollPacket
  BY <1>1, <1>10, PollPacketKeeps, QuietStep, Zenon DEF PollPacket, At, cacheVars
<1>11. CASE PollEnd
  BY <1>11, PollEndStep, Zenon
<1>12. CASE \E blk \in Block, b \in Buf : StartClean(blk, b) \/ StartEvict(blk, b)
  BY <1>12, StartCleanStep, StartEvictStep, Zenon
<1>13. CASE StartFlush
  BY <1>13, StartFlushStep, Zenon
<1>14. CASE \/ \E blk \in Block, b \in Buf :
                 /\ buf[b].refcnt < MaxRef
                 /\ NoTransfer(BreadCached(blk, b) /\ UNCHANGED <<mru, last>>)
            \/ \E blk \in Block : NoTransfer(BreadPanic(blk))
            \/ \E b \in Buf : NoTransfer(brelse(b))
            \/ \E b \in Buf, v \in Content : NoTransfer(bwrite(b, v))
  BY <1>14, NoTransferStep, Zenon
<1>15. CASE UNCHANGED allVars
  <2>1. UNCHANGED <<buf, mru, disk, last, panicked, status, jobs, drv, dev, settled>>
    BY <1>15, Zenon DEF allVars, cacheVars, driverVars
  <2>2. BusInv'
    BY <1>1, <2>1, Zenon DEF BusInv, DriverTypeOK, Handshake, Outcome, GaveUp, Expected,
       Protocol,
       Follows, Packets, Moved, Done, InHand
  <2> QED BY <2>1, <2>2, QuietStep, Zenon
<1> QED BY <1>2, <1>3, <1>4, <1>5, <1>6, <1>7, <1>8, <1>9, <1>10, <1>11, <1>12, <1>13,
           <1>14, <1>15, Zenon DEF DriverNext, Driver

\* Whatever the controller, the interrupt and the driver do, and in whatever
\* order, the cache over the CH375 behaves as the cache over whole blocks:
\* blkrw() returns with the block read or written and nothing else changed.
THEOREM DriverImplementsCache == DriverSpec => ImplementsBufCache
<1>1. DriverInit => DriverInv /\ Cache!CacheInit
  BY DriverInitInv, Zenon
<1>2. DriverInv /\ [DriverNext]_allVars => DriverInv' /\ [Cache!CacheNext]_Cache!cacheVars
  BY DriverStep, Zenon
<1> QED BY <1>1, <1>2, PTL DEF DriverSpec, ImplementsBufCache, Cache!CacheSpec

-----------------------------------------------------------------------------
\* What the invariant of the abstract cache says of the data.
LEMMA SettledData ==
  ASSUME C!CacheInv
  PROVE  /\ \A b, c \in Buf :
              sbuf[b].blockno = sbuf[c].blockno /\ sbuf[b].blockno # NoBlock => b = c
         /\ \A b \in Buf : sbuf[b].blockno = NoBlock => sbuf[b].refcnt = 0
         /\ \A b \in Buf : sbuf[b].blockno # NoBlock =>
              /\ sbuf[b].valid /\ sbuf[b].data = last[sbuf[b].blockno]
              /\ ~sbuf[b].dirty => sdisk[sbuf[b].blockno] = sbuf[b].data
         /\ \A x \in Block : (\A b \in Buf : sbuf[b].blockno # x) => sdisk[x] = last[x]
         /\ NoBlock \notin Block
<1>1. C!Buf = Buf /\ C!NoBlock = NoBlock
  BY Zenon DEF C!Buf, Buf, C!NoBlock, NoBlock
<1>2. \A b \in Buf : C!Coherent(sbuf[b])
  BY <1>1, Zenon DEF C!CacheInv, sbuf
<1>3. \A b, c \in Buf :
        sbuf[b].blockno = sbuf[c].blockno /\ sbuf[b].blockno # NoBlock => b = c
  BY <1>1, Zenon DEF C!CacheInv, C!OneBufferPerBlock, sbuf
<1>4. \A x \in Block : (\A b \in Buf : sbuf[b].blockno # x) => sdisk[x] = last[x]
  <2> SUFFICES ASSUME NEW x \in Block, \A b \in Buf : sbuf[b].blockno # x
               PROVE  sdisk[x] = last[x]
    BY Zenon
  <2>1. C!Cached(x) = {}
    BY <1>1, Zenon DEF C!Cached, sbuf
  <2> QED BY <2>1, Zenon DEF C!CacheInv, sdisk
<1>5. NoBlock \notin Block
  BY BlockAssumption, Zenon DEF NoBlock
<1> QED BY <1>1, <1>2, <1>3, <1>4, <1>5, Zenon DEF C!Coherent, sdisk

\* A transfer under way has at most marked a buffer as written.
LEMMA WrittenKeeps ==
  ASSUME NEW r \in Buffer
  PROVE  /\ Written(r).blockno = r.blockno /\ Written(r).data = r.data
         /\ Written(r).refcnt = r.refcnt /\ Written(r).valid = TRUE
BY Zenon DEF Written, Buffer

LEMMA BufferIsSettled ==
  ASSUME DriverInv, NEW b \in Buf
  PROVE  /\ sbuf[b] \in Buffer /\ buf[b].blockno = sbuf[b].blockno
         /\ buf[b].data = sbuf[b].data /\ buf[b].refcnt = sbuf[b].refcnt
         /\ sbuf[b].valid => buf[b].valid
<1>1. sbuf \in [Buf -> Buffer]
  BY SettledFacts, Zenon DEF DriverInv
<1>2. CASE AtRest
  BY <1>1, <1>2, Zenon DEF AtRest
<1>3. CASE \E c \in Buf, blk \in Block : CleanRead(c, blk) \/ EvictWrite(c, blk)
  BY <1>1, <1>3, Zenon DEF CleanRead, EvictWrite
<1>4. CASE \E c \in Buf, blk \in Block : EvictRead(c, blk)
  <2>1. PICK c \in Buf, blk \in Block : EvictRead(c, blk)
    BY <1>4, Zenon
  <2>2. PICK w : w = Written(sbuf[c])
    BY Zenon
  <2>3. buf = [sbuf EXCEPT ![c] = w]
    BY <2>1, <2>2, Zenon DEF EvictRead
  <2>4. buf[b] = sbuf[b] \/ buf[b] = Written(sbuf[b])
    BY <1>1, <2>2, <2>3, Zenon
  <2> QED BY <1>1, <2>4, WrittenKeeps, Zenon
<1>5. CASE Flush
  <2>1. buf[b] = sbuf[b] \/ buf[b] = Written(sbuf[b])
    BY <1>5, Zenon DEF Flush
  <2> QED BY <1>1, <2>1, WrittenKeeps, Zenon
<1> QED BY <1>2, <1>3, <1>4, <1>5, Zenon DEF DriverInv, CallInv

LEMMA WriteIsSomewhere ==
  ASSUME DriverInv, NEW x \in Block, disk[x] # last[x]
  PROVE  \E b \in Buf : buf[b].blockno = x /\ buf[b].dirty /\ buf[b].data = last[x]
<1>1. C!CacheInv /\ CallInv
  BY Zenon DEF DriverInv
<1>2. sbuf \in [Buf -> Buffer] /\ sdisk \in [Block -> Content]
  BY <1>1, SettledFacts, Zenon
<1>3. ASSUME sdisk[x] # last[x]
      PROVE  \E b \in Buf : sbuf[b].blockno = x /\ sbuf[b].dirty /\ sbuf[b].data = last[x]
  BY <1>1, <1>3, SettledData
<1>4. ASSUME buf = sbuf, disk[x] = sdisk[x]
      PROVE  \E b \in Buf : buf[b].blockno = x /\ buf[b].dirty /\ buf[b].data = last[x]
  BY <1>3, <1>4, Zenon
<1>5. CASE AtRest
  BY <1>4, <1>5, Zenon DEF AtRest
<1>6. CASE \E c \in Buf, blk \in Block : CleanRead(c, blk)
  BY <1>4, <1>6, Zenon DEF CleanRead
<1>7. CASE \E c \in Buf, blk \in Block : EvictWrite(c, blk)
  <2>1. PICK c \in Buf, blk \in Block : EvictWrite(c, blk)
    BY <1>7, Zenon
  <2>2. sbuf[c].dirty /\ buf = sbuf
    BY <2>1, Zenon DEF EvictWrite, Cache!IsLast, Cache!Clean, Cache!Unused, sbuf
  <2>3. CASE x = sbuf[c].blockno
    BY <1>1, <2>2, <2>3, SettledData, Zenon
  <2>4. CASE x # sbuf[c].blockno
    BY <1>4, <2>1, <2>4, Zenon DEF EvictWrite
  <2> QED BY <2>3, <2>4, Zenon
<1>8. CASE \E c \in Buf, blk \in Block : EvictRead(c, blk)
  <2>1. PICK c \in Buf, blk \in Block : EvictRead(c, blk)
    BY <1>8, Zenon
  <2>2. PICK w, n, d : w = Written(sbuf[c]) /\ n = sbuf[c].blockno /\ d = sbuf[c].data
    BY Zenon
  <2>3. buf = [sbuf EXCEPT ![c] = w] /\ disk = [sdisk EXCEPT ![n] = d]
    BY <2>1, <2>2, Zenon DEF EvictRead
  <2>4. x # n
    BY <1>1, <1>2, <2>2, <2>3, SettledData
  <2>5. PICK b \in Buf : sbuf[b].blockno = x /\ sbuf[b].dirty /\ sbuf[b].data = last[x]
    BY <1>2, <1>3, <2>3, <2>4, Zenon
  <2>6. buf[b] = sbuf[b]
    BY <1>2, <2>2, <2>3, <2>4, <2>5, Zenon
  <2> QED BY <2>5, <2>6, Zenon
<1>9. CASE Flush
  <2>1. PICK b \in Buf : sbuf[b].blockno = x /\ sbuf[b].dirty /\ sbuf[b].data = last[x]
    <3>1. CASE \E b \in Buf : sbuf[b].blockno = x /\ sbuf[b].dirty
      BY <1>1, <3>1, SettledData
    <3>2. CASE \A b \in Buf : sbuf[b].blockno = x => ~sbuf[b].dirty
      <4>1. jobs # <<>> /\ jobs \in Seq(Jobs)
        BY <1>9, Zenon DEF Flush, DriverInv, DriverTypeOK
      <4>2. 1 \in DOMAIN jobs /\ jobs[1] \in Jobs
        BY <4>1
      <4>3. jobs[1].b \in Buf /\ sbuf[jobs[1].b].dirty /\ jobs[1].blk = sbuf[jobs[1].b].blockno
        BY <1>9, <4>2, Zenon DEF Flush, Jobs
      <4>4. disk[x] = sdisk[x]
        BY <1>9, <3>2, <4>3 DEF Flush, Flushed
      <4> QED BY <1>3, <4>4, Zenon
    <3> QED BY <3>1, <3>2, Zenon
  <2>2. ~Flushed(b)
    BY <1>9, <2>1, Zenon DEF Flush
  <2>3. buf[b] = sbuf[b]
    BY <1>9, <2>2, Zenon DEF Flush
  <2> QED BY <2>1, <2>3, Zenon
<1> QED BY <1>1, <1>5, <1>6, <1>7, <1>8, <1>9, Zenon DEF CallInv

\* The driver, the controller and the status byte stay in step, and buffers
\* and disk are what the finished transfers of the running call have made.
THEOREM DriverInductive == DriverSpec => []DriverInv
<1>1. DriverInit => DriverInv
  BY DriverInitInv, Zenon
<1>2. DriverInv /\ [DriverNext]_allVars => DriverInv'
  BY DriverStep, Zenon
<1> QED BY <1>1, <1>2, PTL DEF DriverSpec

\* Also while blocks go over the bus, a block is never in two buffers,
THEOREM DriverKeepsOneBuffer == DriverSpec => []OneBufferPerBlock
<1>1. DriverInv => OneBufferPerBlock
  BY BufferIsSettled, SettledData DEF OneBufferPerBlock, DriverInv
<1> QED BY <1>1, DriverInductive, PTL

\* a buffer that a caller holds has what was last written to its block,
THEOREM DriverReadsAreCurrent == DriverSpec => []ReadsSeeLastWrite
<1>1. ASSUME DriverInv PROVE ReadsSeeLastWrite
  <2> SUFFICES ASSUME NEW b \in Buf, buf[b].refcnt > 0
               PROVE  buf[b].valid /\ buf[b].data = last[buf[b].blockno]
    BY Zenon DEF ReadsSeeLastWrite
  <2>1. /\ buf[b].blockno = sbuf[b].blockno /\ buf[b].data = sbuf[b].data
        /\ buf[b].refcnt = sbuf[b].refcnt
        /\ sbuf[b].valid => buf[b].valid
    BY <1>1, BufferIsSettled, Zenon
  <2>2. C!CacheInv
    BY <1>1, Zenon DEF DriverInv
  <2>3. /\ sbuf[b].blockno = NoBlock => sbuf[b].refcnt = 0
        /\ sbuf[b].blockno # NoBlock => sbuf[b].valid /\ sbuf[b].data = last[sbuf[b].blockno]
    BY <2>2, SettledData, Zenon
  <2>4. sbuf[b].blockno # NoBlock
    BY <2>1, <2>3
  <2> QED BY <2>1, <2>3, <2>4, Zenon
<1> QED BY <1>1, DriverInductive, PTL

\* and what is not on the disk yet, the packets of a block that is half
\* written included, is in a dirty buffer.
THEOREM DriverLosesNoWrite == DriverSpec => []NoWriteLost
<1>1. DriverInv => NoWriteLost
  BY WriteIsSomewhere, Zenon DEF NoWriteLost
<1> QED BY <1>1, DriverInductive, PTL
=============================================================================
