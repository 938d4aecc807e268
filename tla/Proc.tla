-------------------------------- MODULE Proc --------------------------------
(***************************************************************************)
(* The process table of kern/proc.c, with the frames processes live in     *)
(* (kern/frames.c) and the part of sys_exec() that moves a process to new  *)
(* frames (kern/exec.c).                                                   *)
(*                                                                         *)
(* The kernel is not preemptive: proc, the current process, keeps the CPU  *)
(* until it calls sleep() or sys_exit(), and only those call scheduler().  *)
(* So every system call is one step, except that one which sleeps is       *)
(* resumed later; ctx[p] says where p resumes: "user", or "wait" for the   *)
(* loop of sys_wait().                                                     *)
(***************************************************************************)
EXTENDS Frames

CONSTANTS
  NPROC,        \* number of slots of ptable
  Chan,         \* channels other than processes that sleep() may be given
  FrameCounts,  \* how many frames a program may need
  MaxPid        \* bound on the pids handed out

ASSUME NProcAssumption == NPROC \in Nat \ {0}
ASSUME FrameCountsAssumption ==
  /\ FrameCounts \subseteq Nat \ {0}
  /\ \E n \in FrameCounts : n <= NFRAME
ASSUME MaxPidAssumption == MaxPid \in Nat

Slot == 0 .. NPROC - 1
initproc == 0           \* userinit() takes the first slot
NoProc == -1            \* a null struct proc pointer

\* sleep() may not be given a null channel, and pipe channels are addresses
\* outside the process table.
ASSUME ChanAssumption == Chan \cap (Slot \cup {NoProc}) = {}

NoChan == NoProc

VARIABLES
  proc,      \* the current process; NoProc once the machine does nothing more
  panicked,  \* panic() was called
  state, pid, parent, chan, ctx, basereg, nframes,   \* fields, by slot
  nextpid, flist

vars == <<proc, panicked, state, pid, parent, chan, ctx, basereg, nframes,
          nextpid, flist>>
memory == <<basereg, nframes, flist>>

States == {"UNUSED", "SLEEPING", "RUNNABLE", "RUNNING", "ZOMBIE"}

-----------------------------------------------------------------------------
\* pinit(), finit(), userinit() and the exec of /bin/init in kmain().  init
\* runs although userinit() left it RUNNABLE.
Init ==
  /\ proc = initproc
  /\ panicked = FALSE
  /\ state = [p \in Slot |-> IF p = initproc THEN "RUNNABLE" ELSE "UNUSED"]
  /\ pid = [p \in Slot |-> IF p = initproc THEN 1 ELSE 0]
  /\ parent = [p \in Slot |-> NoProc]
  /\ chan = [p \in Slot |-> NoChan]
  /\ ctx = [p \in Slot |-> "user"]
  /\ nextpid = 2
  /\ \E n \in FrameCounts :
       /\ n <= NFRAME
       /\ basereg = [p \in Slot |-> 0]
       /\ nframes = [p \in Slot |-> IF p = initproc THEN n ELSE 0]
       /\ flist = Take([i \in Frame |-> FREE], 1, 0, n)

\* The lowest slot of a set: every scan of the table starts at slot 0.
IsFirst(S, p) == p \in S /\ \A q \in S : p <= q

InState(st, s) == {p \in Slot : st[p] = s}

\* scheduler(): the lowest RUNNABLE slot gets the CPU, and sleep() there
\* clears its channel.  With no such slot the loop never ends, since nothing
\* but a process calls wakeup().
scheduler(st, ch) ==
  \/ \E p \in Slot :
       /\ IsFirst(InState(st, "RUNNABLE"), p)
       /\ proc' = p
       /\ state' = [st EXCEPT ![p] = "RUNNING"]
       /\ chan' = [ch EXCEPT ![p] = NoChan]
  \/ /\ InState(st, "RUNNABLE") = {}
     /\ proc' = NoProc
     /\ state' = st
     /\ chan' = ch

\* sleep(c), called by p.
sleep(p, c) ==
  scheduler([state EXCEPT ![p] = "SLEEPING"], [chan EXCEPT ![p] = c])

\* The states after wakeup1(c).
wakeup1(st, c) ==
  [p \in Slot |-> IF st[p] = "SLEEPING" /\ chan[p] = c THEN "RUNNABLE" ELSE st[p]]

\* The processes whose code may run now.
AtUser(p) == p = proc /\ ctx[p] = "user"

-----------------------------------------------------------------------------
\* allocproc() gives the lowest unused slot np and a new pid.
allocproc(np) ==
  /\ IsFirst(InState(state, "UNUSED"), np)
  /\ pid' = [pid EXCEPT ![np] = nextpid]
  /\ nextpid' = nextpid + 1

\* sys_fork() by p.  With no slot left it fails with EAGAIN and changes
\* nothing; with no memory it fails with ENOMEM, the slot staying UNUSED but
\* the pid used up.
sys_fork(p) ==
  /\ AtUser(p)
  /\ nextpid <= MaxPid
  /\ \/ /\ InState(state, "UNUSED") = {}
        /\ UNCHANGED vars
     \/ \E np \in Slot :
          LET frames == allocframes(flist, nextpid, nframes[p]) IN
          /\ allocproc(np)
          /\ \/ /\ frames.basereg = -1
                /\ UNCHANGED <<state, parent, chan, ctx, memory>>
             \/ /\ frames.basereg # -1
                /\ state' = [state EXCEPT ![np] = "RUNNABLE"]
                /\ parent' = [parent EXCEPT ![np] = p]
                /\ chan' = [chan EXCEPT ![np] = NoChan]
                /\ ctx' = [ctx EXCEPT ![np] = "user"]
                /\ basereg' = [basereg EXCEPT ![np] = frames.basereg]
                /\ nframes' = [nframes EXCEPT ![np] = nframes[p]]
                /\ flist' = frames.flist
          /\ UNCHANGED <<proc, panicked>>

\* Mutant: the new size is not recorded.
sys_execKeepsSize(p, n) ==
  LET frames == allocframes(flist, pid[p], n) IN
  /\ AtUser(p)
  /\ frames.basereg # -1
  /\ basereg' = [basereg EXCEPT ![p] = frames.basereg]
  /\ flist' = frames.flist
  /\ UNCHANGED <<nframes, proc, panicked, state, pid, parent, chan, ctx, nextpid>>

\* sys_exec() by p of a program of n frames.  Every failure leaves the old
\* image in place.
sys_exec(p, n) ==
  LET frames == allocframes(flist, pid[p], n) IN
  /\ AtUser(p)
  /\ \/ /\ frames.basereg = -1
        /\ UNCHANGED memory
     \/ /\ frames.basereg # -1
        /\ basereg' = [basereg EXCEPT ![p] = frames.basereg]
        /\ nframes' = [nframes EXCEPT ![p] = n]
        /\ flist' = frames.flist
  /\ UNCHANGED <<proc, panicked, state, pid, parent, chan, ctx, nextpid>>

\* Mutants: nobody is woken; init is not woken for the zombies it inherits.
ExitStatesNoWakeup(p) == [q \in Slot |-> IF q = p THEN "ZOMBIE" ELSE state[q]]
ExitStatesParentOnly(p) ==
  [q \in Slot |-> IF q = p THEN "ZOMBIE" ELSE wakeup1(state, parent[p])[q]]

\* The table's states when sys_exit(p) calls scheduler(): the parent is woken,
\* init too if p leaves it a zombie, and p is a ZOMBIE.
ExitStates(p) ==
  LET orphans == {c \in Slot : parent[c] = p}
      woken == IF orphans \cap InState(state, "ZOMBIE") # {}
                 THEN wakeup1(wakeup1(state, parent[p]), initproc)
                 ELSE wakeup1(state, parent[p])
  IN  [q \in Slot |-> IF q = p THEN "ZOMBIE" ELSE woken[q]]

\* Mutants: the children keep their parent; they go to their grandparent.
OrphansKept(p) == parent
OrphansToGrandparent(p) ==
  [c \in Slot |-> IF parent[c] = p THEN parent[p] ELSE parent[c]]

\* The parents after the children of p have been passed to init.
OrphansToInit(p) == [c \in Slot |-> IF parent[c] = p THEN initproc ELSE parent[c]]

\* sys_exit() by p: panic in init, otherwise give the memory back, wake the
\* parent, pass the children to init, become a ZOMBIE and schedule.
sys_exit(p) ==
  /\ AtUser(p)
  /\ \/ /\ p = initproc
        /\ panicked' = TRUE
        /\ proc' = NoProc
        /\ UNCHANGED <<state, pid, parent, chan, ctx, memory, nextpid>>
     \/ /\ p # initproc
        /\ flist' = freeframes(flist, pid[p])
        /\ parent' = OrphansToInit(p)
        /\ scheduler(ExitStates(p), chan)
        /\ UNCHANGED <<panicked, pid, ctx, basereg, nframes, nextpid>>

\* sys_wait() by p, or its loop going round after sleep() returned: reap the
\* lowest zombie child, fail with no children, or sleep on the own slot.
sys_wait(p) ==
  LET kids == {c \in Slot : parent[c] = p}
      zombies == kids \cap InState(state, "ZOMBIE")
  IN
  /\ p = proc /\ ctx[p] \in {"user", "wait"}
  /\ \/ \E c \in Slot :
          /\ IsFirst(zombies, c)
          /\ state' = [state EXCEPT ![c] = "UNUSED"]
          /\ pid' = [pid EXCEPT ![c] = 0]
          /\ parent' = [parent EXCEPT ![c] = NoProc]
          /\ ctx' = [ctx EXCEPT ![p] = "user"]
          /\ UNCHANGED <<proc, chan>>
     \/ /\ kids = {}
        /\ ctx' = [ctx EXCEPT ![p] = "user"]
        /\ UNCHANGED <<proc, state, pid, parent, chan>>
     \/ /\ kids # {} /\ zombies = {}
        /\ ctx' = [ctx EXCEPT ![p] = "wait"]
        /\ sleep(p, p)
        /\ UNCHANGED <<pid, parent>>
  /\ UNCHANGED <<panicked, memory, nextpid>>

\* A system call of p that blocks on a channel, as pipe reads and writes do.
Block(p, c) ==
  /\ AtUser(p)
  /\ sleep(p, c)
  /\ UNCHANGED <<panicked, pid, parent, ctx, memory, nextpid>>

\* A system call of p that wakes the sleepers of a channel.
wakeup(p, c) ==
  /\ AtUser(p)
  /\ state' = wakeup1(state, c)
  /\ UNCHANGED <<proc, panicked, pid, parent, chan, ctx, memory, nextpid>>

Next ==
  \E p \in Slot :
    \/ sys_fork(p)
    \/ \E n \in FrameCounts : sys_exec(p, n)
    \/ sys_exit(p)
    \/ sys_wait(p)
    \/ \E c \in Chan : Block(p, c)
    \/ \E c \in Chan : wakeup(p, c)

Spec == Init /\ [][Next]_vars

\* Programs do not compute for ever: the process that has the CPU goes on to
\* call exit or wait.  init only promises to call wait, as init.c does.
FairSpec ==
  Spec /\ WF_vars(\E p \in Slot : sys_wait(p) \/ (p # initproc /\ sys_exit(p)))

-----------------------------------------------------------------------------
TypeOK ==
  /\ proc \in Slot \cup {NoProc}
  /\ panicked \in BOOLEAN
  /\ state \in [Slot -> States]
  /\ pid \in [Slot -> Nat]
  /\ parent \in [Slot -> Slot \cup {NoProc}]
  /\ chan \in [Slot -> Slot \cup Chan \cup {NoChan}]
  /\ ctx \in [Slot -> {"user", "wait"}]
  /\ basereg \in [Slot -> Nat]
  /\ nframes \in [Slot -> Nat]
  /\ nextpid \in Nat \ {0, 1}
  /\ flist \in [Frame -> Nat]

Live(p) == state[p] \notin {"UNUSED", "ZOMBIE"}
Frames(p) == {i \in Frame : flist[i] = pid[p]}

\* The frames the base register maps for a live process are the frames the
\* allocator has down as its own: fork(), exec() and exit() keep the two
\* views of memory, in ptable and in flist, together.
BaseRegisterMapsOwnFrames ==
  \A p \in Slot : Live(p) =>
    /\ nframes[p] > 0
    /\ Frames(p) = Run(basereg[p], nframes[p])

\* No two live processes share a frame.
MemoryIsolation ==
  \A p, q \in Slot :
    Live(p) /\ Live(q) /\ p # q =>
      Run(basereg[p], nframes[p]) \cap Run(basereg[q], nframes[q]) = {}

\* No frame is lost: one that is not free belongs to a live process, so what
\* exit() of the last process but init leaves is free again.
NoFrameLeak ==
  \A i \in Frame : flist[i] # FREE => \E p \in Slot : Live(p) /\ flist[i] = pid[p]

\* A pid names one process, from fork() until wait() reaps it.
PidsUnique ==
  \A p, q \in Slot :
    state[p] # "UNUSED" /\ state[q] # "UNUSED" /\ pid[p] = pid[q] => p = q

\* Every process but init has a parent that can still call wait(): exit()
\* passes its children on before it dies, and no free slot is anyone's child.
\* Parents are older than their children, so the tree has no cycle.
ParentCanWait ==
  \A p \in Slot :
    IF state[p] = "UNUSED" \/ p = initproc
      THEN parent[p] = NoProc
      ELSE /\ parent[p] \in Slot
           /\ Live(parent[p])
           /\ pid[parent[p]] < pid[p]

\* No lost wakeup: a process asleep in wait() has a child to wait for and no
\* zombie child it was not woken for.
NoLostWakeup ==
  \A p \in Slot : state[p] = "SLEEPING" /\ chan[p] = p =>
    /\ \E c \in Slot : parent[c] = p
    /\ \A c \in Slot : parent[c] = p => state[c] # "ZOMBIE"

\* A process keeps its frames, its pid and its image as long as it lives, but
\* for what its own exec() does: no step of another process moves it.
OnlyExecMovesAProcess ==
  [][\A p \in Slot : Live(p) /\ Live(p)' /\ p # proc =>
       /\ basereg'[p] = basereg[p] /\ nframes'[p] = nframes[p]
       /\ pid'[p] = pid[p]
       /\ Frames(p)' = Frames(p)]_vars

\* init collects all the zombies it is, or becomes, the parent of, as long as
\* it does not block in another call: the slots they hold come free again.
InitHasZombies == \E p \in Slot : state[p] = "ZOMBIE" /\ parent[p] = initproc
OrphansReaped ==
  InitHasZombies ~> (~InitHasZombies \/ panicked \/ chan[initproc] \in Chan)

-----------------------------------------------------------------------------
\* The slots in use, seen as a tree of pids.
Used == {p \in Slot : state[p] # "UNUSED"}
SlotOf(a) == CHOOSE p \in Used : pid[p] = a
PidTree ==
  [a \in {pid[p] : p \in Used} |->
    [parent |-> IF parent[SlotOf(a)] = NoProc THEN 0 ELSE pid[parent[SlotOf(a)]],
     dead |-> state[SlotOf(a)] = "ZOMBIE"]]

Tree == INSTANCE ProcTree WITH tree <- PidTree, last <- nextpid - 1

\* fork, exit and wait on the table of slots, with slots and their parent
\* pointers reused, act on processes as the tree of pids says: a child is
\* collected once, by its parent or by init, and no process is mistaken for
\* one that had its slot before.
ImplementsProcTree == Tree!TreeSpec
=============================================================================
