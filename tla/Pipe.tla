-------------------------------- MODULE Pipe --------------------------------
(***************************************************************************)
(* One pipe of kern/pipe.c and the processes that hold its ends, with the  *)
(* sleep(), wakeup() and scheduler() of kern/proc.c.  A process reads and  *)
(* writes one byte after another without losing the CPU, until the pipe is *)
(* empty or full and it sleeps: a call is one step for each stretch        *)
(* between two sleeps.                                                     *)
(*                                                                         *)
(* nread and nwrite are unsigned counters that only grow and wrap around;  *)
(* a byte is a number that tells its place among all bytes written.        *)
(***************************************************************************)
EXTENDS Integers, Sequences, FiniteSetsExt

CONSTANTS
  NPROC,      \* number of processes
  PIPESIZE,   \* size of the ring
  UMAX,       \* number of values of a counter: 2^32 in the code
  InitEnds,   \* the ways the ends may be spread over the processes
  Counts,     \* the sizes of reads and writes
  MaxBytes    \* bound on the bytes ever written

ASSUME PipeAssumption ==
  /\ NPROC \in Nat \ {0}
  /\ PIPESIZE \in Nat \ {0} /\ UMAX \in Nat
  /\ PIPESIZE < UMAX /\ UMAX % PIPESIZE = 0
  /\ Counts \subseteq Nat \ {0}

Slot == 0 .. NPROC - 1
NoProc == -1
End == {"r", "w"}

ASSUME EndsAssumption == InitEnds \subseteq [Slot -> SUBSET End]

VARIABLES
  nread, nwrite, data, readopen, writeopen, isfree,   \* struct pipe
  proc, state, chan,          \* who runs; state and sleep channel of each
  ends,                       \* the ends each process holds
  call,                       \* the pipe call each process is in, bytes left
  sent, rcvd                  \* how many bytes were written and read in all

pipe == <<nread, nwrite, data, readopen, writeopen, isfree>>
sched == <<proc, state, chan>>
vars == <<pipe, sched, ends, call, sent, rcvd>>

NoCall == [op |-> "none", left |-> 0]

Init ==
  /\ nread = 0 /\ nwrite = 0
  /\ data = [k \in 0 .. PIPESIZE - 1 |-> 0]
  /\ readopen = TRUE /\ writeopen = TRUE /\ isfree = FALSE
  /\ proc = 0
  /\ state = [p \in Slot |-> IF p = 0 THEN "RUNNING" ELSE "RUNNABLE"]
  /\ chan = [p \in Slot |-> "none"]
  /\ ends \in InitEnds
  /\ \A e \in End : \E p \in Slot : e \in ends[p]
  /\ call = [p \in Slot |-> NoCall]
  /\ sent = 0 /\ rcvd = 0

-----------------------------------------------------------------------------
\* A counter k bytes further on.
Advance(counter, k) == (counter + k) % UMAX

\* Bytes in the pipe, in the arithmetic of the counters.
Used == (nwrite - nread) % UMAX

\* Mutant: the test for a full pipe comes one byte late.
RoomOneMore == PIPESIZE + 1 - Used

\* Bytes that fit before pipewrite() finds the pipe full.
Room == PIPESIZE - Used

wakeup(st, c) ==
  [p \in Slot |-> IF st[p] = "SLEEPING" /\ chan[p] = c THEN "RUNNABLE" ELSE st[p]]

\* scheduler(): the lowest RUNNABLE slot, or nobody ever again.
scheduler(st, ch) ==
  LET ready == {p \in Slot : st[p] = "RUNNABLE"} IN
  IF ready = {}
    THEN proc' = NoProc /\ state' = st /\ chan' = ch
    ELSE /\ proc' = Min(ready)
         /\ state' = [p \in Slot |-> IF p = Min(ready) THEN "RUNNING" ELSE st[p]]
         /\ chan' = [ch EXCEPT ![Min(ready)] = "none"]

\* p goes to sleep on c, the other processes being in states st.
sleep(p, c, st) ==
  scheduler([q \in Slot |-> IF q = p THEN "SLEEPING" ELSE st[q]],
            [chan EXCEPT ![p] = c])

KeepRunning(st) == state' = st /\ UNCHANGED <<proc, chan>>

Idle(p) == p = proc /\ call[p] = NoCall
SetCall(p, op, left) == call' = [call EXCEPT ![p] = [op |-> op, left |-> left]]
EndCall(p) == call' = [call EXCEPT ![p] = NoCall]

\* The ring once the next k bytes have been written to it.
RingAfter(k) ==
  [j \in 0 .. PIPESIZE - 1 |->
    IF \E m \in 0 .. k - 1 : Advance(nwrite, m) % PIPESIZE = j
      THEN sent + 1 + (CHOOSE m \in 0 .. k - 1 : Advance(nwrite, m) % PIPESIZE = j)
      ELSE data[j]]

\* The bytes that fit go in.  With none left to write the call returns;
\* otherwise the pipe is full, and the call fails if nobody can read, and
\* sleeps if somebody can.
WriteLoop(p, left) ==
  LET k == Min({left, Room}) IN
  /\ nwrite' = Advance(nwrite, k)
  /\ data' = RingAfter(k)
  /\ sent' = sent + k
  /\ \/ /\ k = left
        /\ KeepRunning(wakeup(state, "nread"))
        /\ EndCall(p)
     \/ /\ k < left /\ ~readopen
        /\ EndCall(p)
        /\ UNCHANGED sched
     \/ /\ k < left /\ readopen
        /\ SetCall(p, "write", left - k)
        /\ sleep(p, "nwrite", wakeup(state, "nread"))
  /\ UNCHANGED <<nread, readopen, writeopen, isfree, ends, rcvd>>

\* Bytes that writers in a call have still to write.
Pending ==
  MapThenSumSet(LAMBDA p : IF call[p].op = "write" THEN call[p].left ELSE 0, Slot)

\* pipewrite() of n bytes.
pipewrite(p, n) ==
  /\ Idle(p) /\ "w" \in ends[p]
  /\ sent + Pending + n <= MaxBytes
  /\ WriteLoop(p, n)

\* pipewrite() after sleep() returned.
ResumeWrite(p) ==
  /\ p = proc /\ call[p].op = "write"
  /\ WriteLoop(p, call[p].left)

\* The k-th byte that a reader takes out now.
ByteAt(k) == data[Advance(nread, k - 1) % PIPESIZE]

\* Mutant: writers are not told of the room.
TakeBytesSilently(p, n) ==
  LET k == Min({n, Used}) IN
  /\ nread' = Advance(nread, k)
  /\ rcvd' = rcvd + k
  /\ UNCHANGED sched
  /\ EndCall(p)

\* Take what there is, up to n bytes, and return.
TakeBytes(p, n) ==
  LET k == Min({n, Used}) IN
  /\ nread' = Advance(nread, k)
  /\ rcvd' = rcvd + k
  /\ KeepRunning(wakeup(state, "nwrite"))
  /\ EndCall(p)

\* Sleep while the pipe is empty and can still be written.
ReadLoop(p, n) ==
  /\ \/ /\ Used = 0 /\ writeopen
        /\ SetCall(p, "read", n)
        /\ sleep(p, "nread", state)
        /\ UNCHANGED <<nread, rcvd>>
     \/ /\ Used # 0 \/ ~writeopen
        /\ TakeBytes(p, n)
  /\ UNCHANGED <<nwrite, data, readopen, writeopen, isfree, ends, sent>>

piperead(p, n) ==
  /\ Idle(p) /\ "r" \in ends[p]
  /\ ReadLoop(p, n)

\* Mutant: a woken reader does not look again whether there is data.
ResumeReadUnchecked(p) ==
  /\ p = proc /\ call[p].op = "read"
  /\ TakeBytes(p, call[p].left)
  /\ UNCHANGED <<nwrite, data, readopen, writeopen, isfree, ends, sent>>

ResumeRead(p) ==
  /\ p = proc /\ call[p].op = "read"
  /\ ReadLoop(p, call[p].left)

-----------------------------------------------------------------------------
\* Does p hold the last reference to end e?
LastOf(p, e) == e \in ends[p] /\ \A q \in Slot \ {p} : e \notin ends[q]

\* Mutant: the pipe is freed as soon as one end is closed.
CloseEndsFreesEarly(p, es) ==
  /\ ends' = [ends EXCEPT ![p] = @ \ es]
  /\ readopen' = (readopen /\ ~("r" \in es /\ LastOf(p, "r")))
  /\ writeopen' = (writeopen /\ ~("w" \in es /\ LastOf(p, "w")))
  /\ isfree' = (isfree \/ ~(readopen' /\ writeopen'))
  /\ UNCHANGED <<nread, nwrite, data>>

\* fileclose() of the ends in es by p: pipeclose() for each end p is the last
\* to hold, and pfree() once both are closed.
CloseEnds(p, es) ==
  /\ ends' = [ends EXCEPT ![p] = @ \ es]
  /\ readopen' = (readopen /\ ~("r" \in es /\ LastOf(p, "r")))
  /\ writeopen' = (writeopen /\ ~("w" \in es /\ LastOf(p, "w")))
  /\ isfree' = (isfree \/ ~(readopen' \/ writeopen'))
  /\ UNCHANGED <<nread, nwrite, data>>

\* Mutant: the last close of an end wakes nobody.
CloseWakeupsNone(p, es) == state

\* The states after the wakeups that CloseEnds makes.
CloseWakeups(p, es) ==
  LET readers == IF "w" \in es /\ LastOf(p, "w") THEN wakeup(state, "nread") ELSE state
  IN  IF "r" \in es /\ LastOf(p, "r") THEN wakeup(readers, "nwrite") ELSE readers

sys_close(p, e) ==
  /\ Idle(p) /\ e \in ends[p]
  /\ CloseEnds(p, {e})
  /\ KeepRunning(CloseWakeups(p, {e}))
  /\ UNCHANGED <<call, sent, rcvd>>

\* sys_exit(): all ends are closed, a parent asleep in wait() is woken, and
\* another process runs.  wait() is one of the ways to sleep elsewhere.
sys_exit(p) ==
  /\ Idle(p)
  /\ CloseEnds(p, ends[p])
  /\ \E parents \in {{}, {q \in Slot : state[q] = "SLEEPING" /\ chan[q] = "other"}} :
       scheduler([q \in Slot |-> IF q = p THEN "ZOMBIE"
                                 ELSE IF q \in parents THEN "RUNNABLE"
                                 ELSE CloseWakeups(p, ends[p])[q]],
                 chan)
  /\ UNCHANGED <<call, sent, rcvd>>

\* p sleeps in a call that has nothing to do with the pipe.
SleepElsewhere(p) ==
  /\ Idle(p)
  /\ sleep(p, "other", state)
  /\ UNCHANGED <<pipe, ends, call, sent, rcvd>>

\* p wakes those that sleep elsewhere.
WakeElsewhere(p) ==
  /\ Idle(p)
  /\ KeepRunning(wakeup(state, "other"))
  /\ UNCHANGED <<pipe, ends, call, sent, rcvd>>

Next ==
  \E p \in Slot :
    \/ \E n \in Counts : pipewrite(p, n)
    \/ ResumeWrite(p)
    \/ \E n \in Counts : piperead(p, n)
    \/ ResumeRead(p)
    \/ \E e \in End : sys_close(p, e)
    \/ sys_exit(p)
    \/ SleepElsewhere(p)
    \/ WakeElsewhere(p)

Spec == Init /\ [][Next]_vars

\* The process that has the CPU goes on to read, write, close or exit.
FairSpec == Spec /\ WF_vars(Next)

-----------------------------------------------------------------------------
\* No lost wakeup: a reader sleeps only while the pipe is empty and can still
\* be written, a writer only while it is full and can still be read.
NoLostWakeup ==
  \A p \in Slot : state[p] = "SLEEPING" =>
    /\ chan[p] = "nread" => Used = 0 /\ writeopen
    /\ chan[p] = "nwrite" => Used = PIPESIZE /\ readopen

\* pfree() only frees a pipe that no process holds or is blocked in, so a
\* later palloc() gives it to nobody who still uses it.
FreedPipeUnused ==
  isfree => \A p \in Slot : ends[p] = {} /\ call[p] = NoCall

\* A step in which a read of p returns to its caller.
ReturnsFromRead(p) ==
  /\ ResumeRead(p) \/ \E n \in Counts : piperead(p, n)
  /\ call'[p] = NoCall

\* A read gives end of file, a count of zero, only when the write end is
\* closed and everything written has been read.
EofOnlyAtEnd ==
  [][\A p \in Slot :
       ReturnsFromRead(p) /\ rcvd' = rcvd => ~writeopen /\ sent = rcvd]_vars

\* The ring and its wrapping counters implement a first-in first-out queue:
\* whoever writes and whoever reads, no byte is lost, repeated or overtaken.
F == INSTANCE Fifo WITH
       Capacity <- PIPESIZE,
       Byte <- Nat \ {0},
       queue <- [k \in 1 .. Used |-> ByteAt(k)]

ImplementsFifo == F!FifoSpec

\* In a pipeline, where each process holds one end only and none sleeps for
\* other reasons, a process blocked on the pipe is woken in the end, by data,
\* by room or by the last close of the other end.
BlockedIsWoken ==
  (/\ \A p \in Slot : ends[p] # End
   /\ [](\A p \in Slot : chan[p] # "other"))
  => \A p \in Slot : state[p] = "SLEEPING" ~> state[p] # "SLEEPING"
=============================================================================
