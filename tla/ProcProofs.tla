----------------------------- MODULE ProcProofs -----------------------------
(***************************************************************************)
(* The process table and the frame allocator for any number of slots,      *)
(* frames and pids.  First what freeframes() and allocframes() do to any   *)
(* frame list; then an inductive invariant from which the invariants of    *)
(* Proc follow; then that the table implements the tree of processes; and  *)
(* at the end that the loops of allocframes(), by induction on their       *)
(* rounds, find in every frame list what Frames says.                      *)
(***************************************************************************)
EXTENDS FrameScan, WellFoundedInduction, TLAPS

\* What a caller of allocframes() relies on when a is what it returns: a
\* failure changes nothing; a success gives id exactly the run of n frames
\* that it returns, made of frames that were free or its own already.
Failed(fl, a) == a.basereg = -1 /\ a.flist = fl

Succeeded(fl, id, n, a) ==
  /\ a.basereg \in Frame
  /\ Run(a.basereg, n) \subseteq Frame
  /\ \A i \in Run(a.basereg, n) : fl[i] = FREE \/ fl[i] = id
  /\ a.flist \in [Frame -> Nat]
  /\ \A i \in Frame : a.flist[i] = IF i \in Run(a.basereg, n) THEN id
                                   ELSE IF fl[i] = id THEN FREE ELSE fl[i]

-----------------------------------------------------------------------------
\* freeframes() frees the frames of id and changes no other frame.
LEMMA FreeframesResult ==
  ASSUME NEW fl \in [Frame -> Nat], NEW id \in Nat
  PROVE  /\ freeframes(fl, id) \in [Frame -> Nat]
         /\ \A i \in Frame :
              freeframes(fl, id)[i] = IF fl[i] = id THEN FREE ELSE fl[i]
BY Zenon DEF freeframes, FREE

\* The run the scan settles on consists of free frames.
LEMMA BiggestRunFree ==
  ASSUME NEW fl \in [Frame -> Nat]
  PROVE  LET r == BiggestRun(fl) IN
         \/ r = NoRun
         \/ /\ r.start \in Frame /\ r.num \in 1 .. NFRAME - r.start
            /\ \A i \in Run(r.start, r.num) : fl[i] = FREE
<1> DEFINE runs == MeasuredRuns(fl)
           biggest == {r \in runs : \A q \in runs :
                         q.num < r.num \/ (q.num = r.num /\ q.start >= r.start)}
<1>1. BiggestRun(fl) = IF biggest = {} THEN NoRun ELSE CHOOSE r \in biggest : TRUE
  BY Zenon DEF BiggestRun
<1>2. BiggestRun(fl) = NoRun \/ BiggestRun(fl) \in runs
  BY <1>1, Zenon
<1> QED BY <1>2, Zenon DEF MeasuredRuns, IsFreeRun

\* The first n frames of a run.
LEMMA RunPrefix ==
  ASSUME NEW first \in Frame, NEW num \in 1 .. NFRAME - first, NEW n \in 1 .. num
  PROVE  Run(first, n) \subseteq Run(first, num) /\ Run(first, n) \subseteq Frame
BY NFrameAssumption DEF Run, Frame

\* Taking a run of frames that are free once id's own are given back is a
\* success of allocframes().
LEMMA TakeSucceeds ==
  ASSUME NEW fl \in [Frame -> Nat], NEW id \in Nat \ {0}, NEW n \in Nat \ {0},
         NEW base \in Frame, Run(base, n) \subseteq Frame,
         \A i \in Run(base, n) : freeframes(fl, id)[i] = FREE
  PROVE  Succeeded(fl, id, n, [flist |-> Take(freeframes(fl, id), id, base, n),
                                basereg |-> base])
<1> DEFINE mine == freeframes(fl, id)
           new == Take(mine, id, base, n)
<1>1. /\ mine \in [Frame -> Nat]
      /\ \A i \in Frame : mine[i] = IF fl[i] = id THEN FREE ELSE fl[i]
  BY FreeframesResult, Zenon
<1> HIDE DEF mine
<1>2. /\ new \in [Frame -> Nat]
      /\ \A i \in Frame : new[i] = IF i \in Run(base, n) THEN id ELSE mine[i]
  BY <1>1, Zenon DEF Take
<1>3. \A i \in Run(base, n) : mine[i] = FREE
  BY Zenon DEF mine
<1> HIDE DEF new
<1>4. Succeeded(fl, id, n, [flist |-> new, basereg |-> base])
  BY <1>1, <1>2, <1>3, Zenon DEF Succeeded
<1> QED BY <1>4, Zenon DEF new, mine

\* The contract of allocframes() as fork and exec use it.
LEMMA AllocframesResult ==
  ASSUME NEW fl \in [Frame -> Nat], NEW id \in Nat \ {0}, NEW n \in Nat \ {0}
  PROVE  LET a == allocframes(fl, id, n) IN
         Failed(fl, a) \/ Succeeded(fl, id, n, a)
<1> DEFINE mine == freeframes(fl, id)
           run == BiggestRun(mine)
           a == allocframes(fl, id, n)
<1>1. mine \in [Frame -> Nat]
  BY FreeframesResult, Zenon
<1>2. Failed(fl, [flist |-> fl, basereg |-> -1])
  BY Zenon DEF Failed
<1>3. CASE n = 1 /\ \E i \in Frame : IsFirstFree(mine, i)
  <2>1. PICK i \in Frame : IsFirstFree(mine, i) /\ i = CHOOSE j \in Frame : IsFirstFree(mine, j)
    BY <1>3, Zenon
  <2>2. a = [flist |-> Take(mine, id, i, n), basereg |-> i]
    BY <1>3, <2>1, Zenon DEF allocframes
  <2>3. Run(i, n) = {i}
    BY <1>3, NFrameAssumption DEF Run, Frame
  <2>4. mine[i] = FREE
    BY <2>1, Zenon DEF IsFirstFree
  <2>5. Succeeded(fl, id, n, [flist |-> Take(mine, id, i, n), basereg |-> i])
    BY <2>3, <2>4, TakeSucceeds, Zenon
  <2> QED BY <2>2, <2>5, Zenon
<1>4. CASE n = 1 /\ ~ \E i \in Frame : IsFirstFree(mine, i)
  BY <1>2, <1>4, Zenon DEF allocframes
<1>5. CASE n # 1 /\ run.num >= n
  <2>1. a = [flist |-> Take(mine, id, run.start, n), basereg |-> run.start]
    BY <1>5, Zenon DEF allocframes
  <2>2. \/ run = NoRun
        \/ /\ run.start \in Frame /\ run.num \in 1 .. NFRAME - run.start
           /\ \A i \in Run(run.start, run.num) : mine[i] = FREE
    BY <1>1, BiggestRunFree, Zenon
  <2>3. /\ run.start \in Frame
        /\ Run(run.start, n) \subseteq Frame
        /\ \A i \in Run(run.start, n) : mine[i] = FREE
    <3> HIDE DEF run, mine
    <3>1. run # NoRun
      BY <1>5 DEF NoRun
    <3>2. /\ run.start \in Frame /\ run.num \in 1 .. NFRAME - run.start
          /\ n \in 1 .. run.num
      BY <1>5, <2>2, <3>1, NFrameAssumption DEF Frame
    <3>3. Run(run.start, n) \subseteq Run(run.start, run.num) /\ Run(run.start, n) \subseteq Frame
      BY <3>2, RunPrefix, Zenon
    <3> QED BY <2>2, <3>1, <3>2, <3>3, Zenon
  <2>4. Succeeded(fl, id, n, [flist |-> Take(mine, id, run.start, n), basereg |-> run.start])
    <3> HIDE DEF run
    <3> QED BY <2>3, TakeSucceeds, Zenon
  <2> QED BY <2>1, <2>4, Zenon
<1>6. CASE n # 1 /\ ~(run.num >= n)
  BY <1>2, <1>6, Zenon DEF allocframes
<1> QED BY <1>3, <1>4, <1>5, <1>6, Zenon

-----------------------------------------------------------------------------
\* allocproc() never hands out a pid twice, so pids below nextpid are spent.
PidsInOrder ==
  \A p \in Slot : state[p] # "UNUSED" => pid[p] \in 1 .. nextpid - 1

\* init does not exit: sys_exit() panics instead.
InitAlive == Live(initproc) /\ pid[initproc] = 1

\* The current process is neither asleep nor dead.
CurrentRuns == proc # NoProc => state[proc] \in {"RUNNABLE", "RUNNING"}

IInv ==
  /\ TypeOK
  /\ PidsInOrder
  /\ PidsUnique
  /\ InitAlive
  /\ CurrentRuns
  /\ BaseRegisterMapsOwnFrames
  /\ NoFrameLeak
  /\ ParentCanWait
  /\ NoLostWakeup

-----------------------------------------------------------------------------
LEMMA SlotFacts == initproc \in Slot /\ NoProc \notin Slot
BY NProcAssumption DEF Slot, initproc, NoProc

\* A switch turns one RUNNABLE slot into the RUNNING one, which forgets its
\* channel, and changes no other slot; or it changes none.
Switched(st, ch) ==
  /\ state' \in [Slot -> States]
  /\ chan' \in [Slot -> Slot \cup Chan \cup {NoChan}]
  /\ proc' \in Slot \cup {NoProc}
  /\ proc' # NoProc => state'[proc'] = "RUNNING"
  /\ \A p \in Slot : \/ state'[p] = st[p] /\ chan'[p] = ch[p]
                     \/ st[p] = "RUNNABLE" /\ state'[p] = "RUNNING"

LEMMA SchedulerSwitches ==
  ASSUME NEW st \in [Slot -> States], 
         NEW ch \in [Slot -> Slot \cup Chan \cup {NoChan}],
         scheduler(st, ch)
  PROVE  Switched(st, ch)
<1>1. CASE InState(st, "RUNNABLE") = {} /\ proc' = NoProc /\ state' = st /\ chan' = ch
  BY <1>1, Zenon DEF Switched
<1>2. ASSUME NEW p \in Slot,
             IsFirst(InState(st, "RUNNABLE"), p),
             proc' = p,
             state' = [st EXCEPT ![p] = "RUNNING"],
             chan' = [ch EXCEPT ![p] = NoChan]
      PROVE  Switched(st, ch)
  <2>1. st[p] = "RUNNABLE"
    BY <1>2, Zenon DEF IsFirst, InState
  <2> QED BY <1>2, <2>1, Zenon DEF Switched, States
<1> QED BY <1>1, <1>2, Zenon DEF scheduler

\* What the invariants of memory and of the tree depend on: which slots are
\* in use and which of those are alive.
SameLives ==
  \A p \in Slot : /\ state'[p] = "UNUSED" <=> state[p] = "UNUSED"
                  /\ state'[p] = "ZOMBIE" <=> state[p] = "ZOMBIE"

\* A step that only puts processes to sleep, wakes them or switches keeps
\* everything but, possibly, NoLostWakeup and CurrentRuns.
LEMMA SchedulingKeeps ==
  ASSUME IInv, SameLives, UNCHANGED <<pid, parent, memory, nextpid>>,
         state' \in [Slot -> States]
  PROVE  /\ PidsInOrder' /\ PidsUnique' /\ InitAlive'
         /\ BaseRegisterMapsOwnFrames' /\ NoFrameLeak' /\ ParentCanWait'
<1> USE SlotFacts DEF IInv, SameLives, memory, Live
<1>1. PidsInOrder' BY Zenon DEF PidsInOrder
<1>2. PidsUnique' BY Zenon DEF PidsUnique
<1>3. InitAlive' BY Zenon DEF InitAlive
<1>4. BaseRegisterMapsOwnFrames' BY Zenon DEF BaseRegisterMapsOwnFrames, Frames
<1>5. NoFrameLeak' BY Zenon DEF NoFrameLeak
<1>6. ParentCanWait' BY Zenon DEF ParentCanWait, TypeOK
<1> QED BY <1>1, <1>2, <1>3, <1>4, <1>5, <1>6, Zenon

-----------------------------------------------------------------------------
LEMMA InitIInv == Init => IInv
<1> SUFFICES ASSUME Init PROVE IInv
  OBVIOUS
<1> PICK n \in FrameCounts :
           /\ n <= NFRAME
           /\ basereg = [p \in Slot |-> 0]
           /\ nframes = [p \in Slot |-> IF p = initproc THEN n ELSE 0]
           /\ flist = Take([i \in Frame |-> FREE], 1, 0, n)
  BY Zenon DEF Init
<1>1. n \in Nat \ {0}
  BY FrameCountsAssumption, Zenon
<1>2. /\ flist \in [Frame -> Nat]
      /\ \A i \in Frame : flist[i] = IF i \in Run(0, n) THEN 1 ELSE FREE
  BY Zenon DEF Take, FREE
<1>3. Run(0, n) \subseteq Frame
  BY <1>1, NFrameAssumption DEF Run, Frame
<1>4. /\ \A p \in Slot : state[p] # "UNUSED" => p = initproc
      /\ state[initproc] = "RUNNABLE" /\ pid[initproc] = 1
      /\ \A p \in Slot : Live(p) => p = initproc
  BY SlotFacts, Zenon DEF Init, Live
<1>5. TypeOK
  <2>1. panicked \in BOOLEAN /\ proc \in Slot \cup {NoProc}
    BY SlotFacts, Zenon DEF Init
  <2>2. /\ state \in [Slot -> States] /\ ctx \in [Slot -> {"user", "wait"}]
        /\ parent \in [Slot -> Slot \cup {NoProc}]
        /\ chan \in [Slot -> Slot \cup Chan \cup {NoChan}]
    BY Zenon DEF Init, States
  <2>3. /\ pid \in [Slot -> Nat] /\ basereg \in [Slot -> Nat]
        /\ nframes \in [Slot -> Nat] /\ nextpid \in Nat \ {0, 1}
    BY <1>1 DEF Init
  <2> QED BY <1>2, <2>1, <2>2, <2>3, Zenon DEF TypeOK
<1>6. PidsInOrder /\ PidsUnique /\ InitAlive /\ CurrentRuns
  BY <1>4, SlotFacts DEF Init, PidsInOrder, PidsUnique, InitAlive, CurrentRuns, Live
<1>7. BaseRegisterMapsOwnFrames
  <2>1. Frames(initproc) = Run(0, n)
    BY <1>2, <1>3, <1>4 DEF Frames, FREE
  <2> QED BY <1>1, <1>4, <2>1, SlotFacts DEF BaseRegisterMapsOwnFrames
<1>8. NoFrameLeak
  BY <1>2, <1>4, SlotFacts, Zenon DEF NoFrameLeak, Live
<1>9. ParentCanWait /\ NoLostWakeup
  BY <1>4, SlotFacts, Zenon DEF Init, ParentCanWait, NoLostWakeup
<1> QED BY <1>5, <1>6, <1>7, <1>8, <1>9, Zenon DEF IInv

-----------------------------------------------------------------------------
\* fork(): the child's frames were free, its pid was never used, and it is a
\* child of the process that has the CPU.
LEMMA ForkKeeps ==
  ASSUME IInv, NEW p \in Slot, sys_fork(p)
  PROVE  IInv'
<1>1. CASE UNCHANGED vars
  BY <1>1 DEF vars, IInv, TypeOK, PidsInOrder, PidsUnique, InitAlive, CurrentRuns,
     BaseRegisterMapsOwnFrames, NoFrameLeak, ParentCanWait, NoLostWakeup, Live, Frames
<1>2. ASSUME NEW np \in Slot,
             IsFirst(InState(state, "UNUSED"), np),
             pid' = [pid EXCEPT ![np] = nextpid],
             nextpid' = nextpid + 1,
             UNCHANGED <<proc, panicked>>,
             UNCHANGED <<state, parent, chan, ctx, memory>>
      PROVE  IInv'
  <2>1. state[np] = "UNUSED"
    BY <1>2, Zenon DEF IsFirst, InState
  <2>2. TypeOK'
    BY <1>2 DEF IInv, TypeOK, memory
  <2>3. \A q \in Slot : state[q] # "UNUSED" => pid'[q] = pid[q] /\ q # np
    BY <1>2, <2>1, Zenon DEF IInv, TypeOK
  <2>4. PidsInOrder' /\ PidsUnique'
    BY <1>2, <2>3 DEF IInv, TypeOK, PidsInOrder, PidsUnique
  <2>5. InitAlive' /\ CurrentRuns'
    BY <1>2, <2>3, SlotFacts, Zenon DEF IInv, InitAlive, CurrentRuns, Live
  <2>6. BaseRegisterMapsOwnFrames' /\ NoFrameLeak'
    BY <1>2, <2>3 DEF IInv, BaseRegisterMapsOwnFrames, NoFrameLeak, Live, Frames, memory
  <2>7. ParentCanWait' /\ NoLostWakeup'
    BY <1>2, <2>3 DEF IInv, ParentCanWait, NoLostWakeup, Live
  <2> QED BY <2>2, <2>4, <2>5, <2>6, <2>7, Zenon DEF IInv
<1>3. ASSUME NEW np \in Slot, NEW a,
             a = allocframes(flist, nextpid, nframes[p]),
             AtUser(p),
             IsFirst(InState(state, "UNUSED"), np),
             pid' = [pid EXCEPT ![np] = nextpid],
             nextpid' = nextpid + 1,
             UNCHANGED <<proc, panicked>>,
             a.basereg # -1,
             state' = [state EXCEPT ![np] = "RUNNABLE"],
             parent' = [parent EXCEPT ![np] = p],
             chan' = [chan EXCEPT ![np] = NoChan],
             ctx' = [ctx EXCEPT ![np] = "user"],
             basereg' = [basereg EXCEPT ![np] = a.basereg],
             nframes' = [nframes EXCEPT ![np] = nframes[p]],
             flist' = a.flist
      PROVE  IInv'
  <2> DEFINE n == nframes[p]
             run == Run(a.basereg, n)
  <2>1. state[np] = "UNUSED"
    BY <1>3, Zenon DEF IsFirst, InState
  <2>2. Live(p) /\ p # np
    BY <1>3, <2>1, SlotFacts, Zenon DEF IInv, CurrentRuns, AtUser, Live
  <2>3. n \in Nat \ {0} /\ nextpid \in Nat \ {0} /\ flist \in [Frame -> Nat]
    BY <2>2 DEF IInv, BaseRegisterMapsOwnFrames, TypeOK
  <2>4. Succeeded(flist, nextpid, n, a)
    BY <1>3, <2>3, AllocframesResult, Zenon DEF Failed
  <2>5. a.basereg \in Nat
    BY <2>4, NFrameAssumption DEF Succeeded, Frame
  <2>6. TypeOK'
    BY <1>3, <2>3, <2>4, <2>5 DEF IInv, TypeOK, States, Succeeded
  <2>7. \A q \in Slot : q # np =>
          /\ pid'[q] = pid[q] /\ state'[q] = state[q] /\ parent'[q] = parent[q]
          /\ basereg'[q] = basereg[q] /\ nframes'[q] = nframes[q] /\ chan'[q] = chan[q]
    BY <1>3, Zenon DEF IInv, TypeOK
  <2>8. /\ pid'[np] = nextpid /\ state'[np] = "RUNNABLE" /\ parent'[np] = p
        /\ basereg'[np] = a.basereg /\ nframes'[np] = n
    BY <1>3, Zenon DEF IInv, TypeOK
  <2>9. PidsInOrder' /\ PidsUnique'
    BY <1>3, <2>7, <2>8 DEF IInv, TypeOK, PidsInOrder, PidsUnique
  <2>10. InitAlive' /\ CurrentRuns'
    BY <1>3, <2>1, <2>7, SlotFacts, Zenon DEF IInv, TypeOK, InitAlive, CurrentRuns, Live
  <2>11. \A i \in Frame : flist[i] # nextpid /\ (i \in run => flist[i] = FREE)
    BY <2>3, <2>4 DEF IInv, NoFrameLeak, PidsInOrder, Live, Succeeded, FREE
  <2>12. \A i \in Frame : flist'[i] = IF i \in run THEN nextpid ELSE flist[i]
    BY <1>3, <2>4, <2>11, Zenon DEF Succeeded
  <2>13. BaseRegisterMapsOwnFrames'
    <3> SUFFICES ASSUME NEW q \in Slot, Live(q)'
                 PROVE  nframes'[q] > 0 /\ Frames(q)' = Run(basereg'[q], nframes'[q])
      BY Zenon DEF BaseRegisterMapsOwnFrames
    <3>1. CASE q = np
      <4>1. {i \in Frame : flist'[i] = nextpid} = run
        BY <2>4, <2>11, <2>12 DEF Succeeded
      <4> QED BY <3>1, <2>3, <2>8, <4>1 DEF Frames
    <3>2. CASE q # np
      <4>1. Live(q) /\ pid[q] # nextpid /\ pid[q] # FREE
        BY <3>2, <2>3, <2>7 DEF IInv, PidsInOrder, TypeOK, Live, FREE
      <4>2. \A i \in Frame : flist'[i] = pid[q] <=> flist[i] = pid[q]
        BY <4>1, <2>11, <2>12, Zenon
      <4> QED BY <3>2, <4>1, <4>2, <2>7 DEF IInv, BaseRegisterMapsOwnFrames, Frames
    <3> QED BY <3>1, <3>2, Zenon
  <2>14. NoFrameLeak'
    BY <2>1, <2>7, <2>8, <2>12 DEF IInv, NoFrameLeak, Live
  <2>15. ParentCanWait'
    <3>1. pid[p] \in Nat /\ pid[p] < nextpid
      BY <2>2 DEF IInv, PidsInOrder, TypeOK, Live
    <3>2. np # initproc
      BY <2>1, SMTT(30) DEF IInv, InitAlive, Live
    <3> QED BY <3>1, <3>2, <2>1, <2>2, <2>7, <2>8 DEF IInv, ParentCanWait, Live
  <2>16. NoLostWakeup'
    BY <2>1, <2>7, <2>8, SlotFacts, SMTT(30) DEF IInv, NoLostWakeup, ParentCanWait
  <2> QED BY <2>6, <2>9, <2>10, <2>13, <2>14, <2>15, <2>16, Zenon DEF IInv
<1> QED BY <1>1, <1>2, <1>3, Zenon DEF sys_fork, allocproc

\* exec(): the process moves to frames that were free or its own.
LEMMA ExecKeeps ==
  ASSUME IInv, NEW p \in Slot, NEW n \in FrameCounts, sys_exec(p, n)
  PROVE  IInv'
<1>1. CASE UNCHANGED <<memory, proc, panicked, state, pid, parent, chan, ctx, nextpid>>
  BY <1>1 DEF memory, IInv, TypeOK, PidsInOrder, PidsUnique, InitAlive, CurrentRuns,
     BaseRegisterMapsOwnFrames, NoFrameLeak, ParentCanWait, NoLostWakeup, Live, Frames
<1>2. ASSUME NEW a,
             a = allocframes(flist, pid[p], n),
             AtUser(p),
             a.basereg # -1,
             basereg' = [basereg EXCEPT ![p] = a.basereg],
             nframes' = [nframes EXCEPT ![p] = n],
             flist' = a.flist,
             UNCHANGED <<proc, panicked, state, pid, parent, chan, ctx, nextpid>>
      PROVE  IInv'
  <2> DEFINE run == Run(a.basereg, n)
  <2>1. Live(p) /\ pid[p] \in Nat \ {0} /\ pid[p] # FREE
    BY <1>2, SlotFacts DEF IInv, TypeOK, CurrentRuns, PidsInOrder, AtUser, Live, FREE
  <2>2. n \in Nat \ {0} /\ flist \in [Frame -> Nat]
    BY FrameCountsAssumption, Zenon DEF IInv, TypeOK
  <2>3. Succeeded(flist, pid[p], n, a)
    BY <1>2, <2>1, <2>2, AllocframesResult, Zenon DEF Failed
  <2>4. a.basereg \in Nat
    BY <2>3, NFrameAssumption DEF Succeeded, Frame
  <2>5. TypeOK'
    BY <1>2, <2>2, <2>3, <2>4, Zenon DEF IInv, TypeOK, Succeeded
  <2>6. \A i \in Frame : flist'[i] = pid[p] <=> i \in run
    BY <1>2, <2>1, <2>3, Zenon DEF Succeeded
  <2>7. \A q \in Slot : Live(q) /\ q # p =>
          \A i \in Frame : flist'[i] = pid[q] <=> flist[i] = pid[q]
    <3> SUFFICES ASSUME NEW q \in Slot, Live(q), q # p, NEW i \in Frame
                 PROVE  flist'[i] = pid[q] <=> flist[i] = pid[q]
      OBVIOUS
    <3>1. pid[q] # pid[p] /\ pid[q] # FREE
      BY <2>1 DEF IInv, PidsUnique, PidsInOrder, TypeOK, Live, FREE
    <3> QED BY <1>2, <2>3, <3>1, Zenon DEF Succeeded
  <2>8. BaseRegisterMapsOwnFrames'
    <3> SUFFICES ASSUME NEW q \in Slot, Live(q)
                 PROVE  nframes'[q] > 0 /\ Frames(q)' = Run(basereg'[q], nframes'[q])
      BY <1>2, Zenon DEF BaseRegisterMapsOwnFrames, Live
    <3>1. CASE q = p
      <4>1. basereg'[p] = a.basereg /\ nframes'[p] = n
        BY <1>2, Zenon DEF IInv, TypeOK
      <4>2. {i \in Frame : flist'[i] = pid[p]} = run
        BY <2>3, <2>6, Zenon DEF Succeeded
      <4> QED BY <1>2, <2>2, <3>1, <4>1, <4>2 DEF Frames
    <3>2. CASE q # p
      <4>1. basereg'[q] = basereg[q] /\ nframes'[q] = nframes[q]
        BY <1>2, <3>2, Zenon DEF IInv, TypeOK
      <4> QED BY <1>2, <2>7, <3>2, <4>1, Zenon DEF IInv, BaseRegisterMapsOwnFrames, Frames
    <3> QED BY <3>1, <3>2, Zenon
  <2>9. NoFrameLeak'
    <3> SUFFICES ASSUME NEW i \in Frame, flist'[i] # FREE
                 PROVE  \E q \in Slot : Live(q) /\ flist'[i] = pid[q]
      BY <1>2, Zenon DEF NoFrameLeak, Live
    <3>1. CASE i \in run
      BY <3>1, <2>1, <2>6, Zenon
    <3>2. CASE i \notin run
      BY <1>2, <3>2, <2>3, Zenon DEF IInv, NoFrameLeak, Succeeded
    <3> QED BY <3>1, <3>2, Zenon
  <2>10. PidsInOrder' /\ PidsUnique' /\ InitAlive' /\ CurrentRuns'
    BY <1>2, Zenon DEF IInv, PidsInOrder, PidsUnique, InitAlive, CurrentRuns, Live
  <2>11. ParentCanWait' /\ NoLostWakeup'
    BY <1>2, Zenon DEF IInv, ParentCanWait, NoLostWakeup, Live
  <2> QED BY <2>5, <2>8, <2>9, <2>10, <2>11, Zenon DEF IInv
<1> QED BY <1>1, <1>2, Zenon DEF sys_exec

\* A system call that sleeps on a channel of another kind.
LEMMA BlockKeeps ==
  ASSUME IInv, NEW p \in Slot, NEW c \in Chan, Block(p, c)
  PROVE  IInv'
<1> DEFINE st == [state EXCEPT ![p] = "SLEEPING"]
           ch == [chan EXCEPT ![p] = c]
<1>1. state[p] \in {"RUNNABLE", "RUNNING"}
  BY SlotFacts, Zenon DEF Block, AtUser, IInv, CurrentRuns
<1>2. st \in [Slot -> States] /\ ch \in [Slot -> Slot \cup Chan \cup {NoChan}]
  BY Zenon DEF IInv, TypeOK, States
<1>3. Switched(st, ch)
  BY <1>2, SchedulerSwitches, Zenon DEF Block, sleep
<1>4. SameLives
  BY <1>1, <1>3, Zenon DEF SameLives, Switched, IInv, TypeOK
<1>5. UNCHANGED <<panicked, pid, parent, ctx, memory, nextpid>>
  BY Zenon DEF Block
<1>6. TypeOK'
  BY <1>3, <1>5, Zenon DEF IInv, TypeOK, Switched, memory
<1>7. CurrentRuns'
  BY <1>3, Zenon DEF Switched, CurrentRuns
<1>8. NoLostWakeup'
  <2> SUFFICES ASSUME NEW q \in Slot, state'[q] = "SLEEPING", chan'[q] = q
               PROVE  /\ \E k \in Slot : parent[k] = q
                      /\ \A k \in Slot : parent[k] = q => state'[k] # "ZOMBIE"
    BY <1>5, Zenon DEF NoLostWakeup
  <2>1. q # p
    BY <1>3, ChanAssumption DEF Switched, IInv, TypeOK
  <2>2. state[q] = "SLEEPING" /\ chan[q] = q
    BY <1>3, <2>1, Zenon DEF Switched, IInv, TypeOK
  <2> QED BY <1>4, <2>2, Zenon DEF IInv, NoLostWakeup, SameLives
<1> QED BY <1>4, <1>5, <1>6, <1>7, <1>8, SchedulingKeeps, Zenon DEF IInv, TypeOK

\* A system call that wakes the sleepers of a channel.
LEMMA WakeupKeeps ==
  ASSUME IInv, NEW p \in Slot, NEW c \in Chan, wakeup(p, c)
  PROVE  IInv'
<1>1. /\ state' \in [Slot -> States]
      /\ \A q \in Slot : \/ state'[q] = state[q]
                         \/ state[q] = "SLEEPING" /\ state'[q] = "RUNNABLE"
  BY Zenon DEF wakeup, wakeup1, IInv, TypeOK, States
<1>2. SameLives
  BY <1>1, Zenon DEF SameLives
<1>3. UNCHANGED <<proc, panicked, pid, parent, chan, ctx, memory, nextpid>>
  BY Zenon DEF wakeup
<1>4. TypeOK'
  BY <1>1, <1>3, Zenon DEF IInv, TypeOK, memory
<1>5. CurrentRuns'
  BY <1>1, <1>3, Zenon DEF IInv, TypeOK, CurrentRuns
<1>6. NoLostWakeup'
  BY <1>1, <1>3 DEF IInv, NoLostWakeup
<1> QED BY <1>2, <1>3, <1>4, <1>5, <1>6, SchedulingKeeps, Zenon DEF IInv, TypeOK

\* exit(): its frames are freed, its children go to init, and whoever has a
\* new zombie child is woken.
LEMMA ExitKeeps ==
  ASSUME IInv, NEW p \in Slot, sys_exit(p)
  PROVE  IInv'
<1>1. CASE /\ p = initproc /\ panicked' = TRUE /\ proc' = NoProc
           /\ UNCHANGED <<state, pid, parent, chan, ctx, memory, nextpid>>
  <2>1. panicked' \in BOOLEAN
    BY <1>1, Zenon
  <2> QED BY <1>1, <2>1 DEF memory, IInv, TypeOK, PidsInOrder, PidsUnique, InitAlive,
       CurrentRuns, BaseRegisterMapsOwnFrames, NoFrameLeak, ParentCanWait,
       NoLostWakeup, Live, Frames
<1>2. CASE /\ p # initproc
           /\ flist' = freeframes(flist, pid[p])
           /\ parent' = [c \in Slot |-> IF parent[c] = p THEN initproc ELSE parent[c]]
           /\ scheduler(ExitStates(p), chan)
           /\ UNCHANGED <<panicked, pid, ctx, basereg, nframes, nextpid>>
  <2> DEFINE st == ExitStates(p)
  <2>1. Live(p)
    BY SlotFacts, Zenon DEF sys_exit, AtUser, IInv, CurrentRuns, Live
  <2>2. /\ st \in [Slot -> States]
        /\ st[p] = "ZOMBIE"
        /\ \A q \in Slot : q # p => \/ st[q] = state[q]
                                    \/ state[q] = "SLEEPING" /\ st[q] = "RUNNABLE"
        /\ \A q \in Slot : q # p /\ q = parent[p] /\ chan[q] = q => st[q] # "SLEEPING"
        /\ (\E c \in Slot : parent[c] = p /\ state[c] = "ZOMBIE") =>
             (chan[initproc] = initproc => st[initproc] # "SLEEPING")
    <3> DEFINE w1 == wakeup1(state, parent[p])
               w2 == wakeup1(w1, initproc)
               orphans == {c \in Slot : parent[c] = p}
    <3>1. /\ w1 \in [Slot -> States]
          /\ \A q \in Slot :
               w1[q] = IF state[q] = "SLEEPING" /\ chan[q] = parent[p] THEN "RUNNABLE" ELSE state[q]
      BY Zenon DEF wakeup1, IInv, TypeOK, States
    <3>2. /\ w2 \in [Slot -> States]
          /\ \A q \in Slot :
               w2[q] = IF w1[q] = "SLEEPING" /\ chan[q] = initproc THEN "RUNNABLE" ELSE w1[q]
      <4> HIDE DEF w1
      <4> QED BY <3>1, Zenon DEF wakeup1, States
    <3> DEFINE woken == IF orphans \cap InState(state, "ZOMBIE") # {} THEN w2 ELSE w1
    <3>3. /\ st = [q \in Slot |-> IF q = p THEN "ZOMBIE" ELSE woken[q]]
      BY Zenon DEF ExitStates
    <3>4. (\E c \in Slot : parent[c] = p /\ state[c] = "ZOMBIE") => woken = w2
      BY Zenon DEF InState
    <3>5. woken = w1 \/ woken = w2
      OBVIOUS
    <3> HIDE DEF w1, w2, woken, st
    <3> QED BY <3>1, <3>2, <3>3, <3>4, <3>5, <1>2, SlotFacts, Zenon DEF States
  <2>3. Switched(st, chan)
    <3> HIDE DEF st
    <3> QED BY <1>2, <2>2, SchedulerSwitches, Zenon DEF st, IInv, TypeOK
  <2> HIDE DEF st
  <2>4. /\ state'[p] = "ZOMBIE"
        /\ \A q \in Slot : q # p =>
             /\ state'[q] = "UNUSED" <=> state[q] = "UNUSED"
             /\ state'[q] = "ZOMBIE" <=> state[q] = "ZOMBIE"
             /\ state'[q] = "SLEEPING" =>
                  st[q] = "SLEEPING" /\ state[q] = "SLEEPING" /\ chan'[q] = chan[q]
    BY <2>2, <2>3, Zenon DEF Switched, States
  <2>5. /\ flist' \in [Frame -> Nat]
        /\ \A i \in Frame : flist'[i] = IF flist[i] = pid[p] THEN FREE ELSE flist[i]
    BY <1>2, FreeframesResult DEF IInv, TypeOK
  <2>6. TypeOK'
    BY <1>2, <2>3, <2>5, SlotFacts, Zenon DEF IInv, TypeOK, Switched
  <2>7. PidsInOrder' /\ PidsUnique'
    BY <1>2, <2>1, <2>4, SMTT(30) DEF IInv, PidsInOrder, PidsUnique, Live
  <2>8. InitAlive' /\ CurrentRuns'
    BY <1>2, <2>3, <2>4, SlotFacts, Zenon DEF IInv, InitAlive, CurrentRuns, Live, Switched
  <2>9. \A q \in Slot : Live(q)' <=> Live(q) /\ q # p
    BY <2>4, Zenon DEF Live
  <2>10. BaseRegisterMapsOwnFrames'
    <3> SUFFICES ASSUME NEW q \in Slot, Live(q), q # p
                 PROVE  Frames(q)' = Frames(q)
      BY <1>2, <2>9, Zenon DEF IInv, BaseRegisterMapsOwnFrames
    <3>1. pid[q] # pid[p] /\ pid[q] # FREE
      BY <2>1, SMTT(30) DEF IInv, PidsUnique, PidsInOrder, TypeOK, Live, FREE
    <3> QED BY <1>2, <2>5, <3>1, Zenon DEF Frames
  <2>11. NoFrameLeak'
    BY <1>2, <2>5, <2>9, Zenon DEF IInv, NoFrameLeak
  <2>12. ParentCanWait'
    <3> SUFFICES ASSUME NEW q \in Slot
                 PROVE  IF state'[q] = "UNUSED" \/ q = initproc
                          THEN parent'[q] = NoProc
                          ELSE /\ parent'[q] \in Slot
                               /\ state'[parent'[q]] \notin {"UNUSED", "ZOMBIE"}
                               /\ pid[parent'[q]] < pid[q]
      BY <1>2, Zenon DEF ParentCanWait, Live
    <3>1. state'[q] = "UNUSED" <=> state[q] = "UNUSED"
      BY <2>1, <2>4, Zenon DEF Live
    <3>2. parent'[q] = IF parent[q] = p THEN initproc ELSE parent[q]
      BY <1>2, Zenon
    <3>3. CASE state[q] = "UNUSED" \/ q = initproc
      BY <3>1, <3>2, <3>3, SlotFacts, Zenon DEF IInv, ParentCanWait
    <3>4. CASE ~(state[q] = "UNUSED" \/ q = initproc)
      <4>1. parent[q] \in Slot /\ Live(parent[q]) /\ pid[parent[q]] < pid[q]
        BY <3>4, Zenon DEF IInv, ParentCanWait
      <4>2. CASE parent[q] = p
        <5>1. pid[p] \in Nat \ {0} /\ pid[q] \in Nat /\ pid[initproc] = 1
          BY <2>1, SMTT(30) DEF IInv, PidsInOrder, InitAlive, TypeOK, Live
        <5> QED BY <1>2, <2>9, <3>1, <3>2, <3>4, <4>1, <4>2, <5>1, SlotFacts
                DEF IInv, InitAlive, Live
      <4>3. CASE parent[q] # p
        BY <2>9, <3>1, <3>2, <3>4, <4>1, <4>3, Zenon DEF Live
      <4> QED BY <4>2, <4>3, Zenon
    <3> QED BY <3>3, <3>4, Zenon
  <2>13. NoLostWakeup'
    <3> SUFFICES ASSUME NEW q \in Slot, state'[q] = "SLEEPING", chan'[q] = q
                 PROVE  /\ \E c \in Slot : parent'[c] = q
                        /\ \A c \in Slot : parent'[c] = q => state'[c] # "ZOMBIE"
      BY Zenon DEF NoLostWakeup
    <3>1. q # p /\ state[q] = "SLEEPING" /\ chan[q] = q /\ st[q] = "SLEEPING"
      BY <2>4, Zenon
    <3>2. q # parent[p]
      BY <2>2, <3>1, Zenon
    <3>3. PICK k \in Slot : parent[k] = q
      BY <3>1, Zenon DEF IInv, NoLostWakeup
    <3>4. parent'[k] = q
      BY <1>2, <3>1, <3>3, Zenon
    <3>5. ASSUME NEW c \in Slot, parent'[c] = q
          PROVE  state'[c] # "ZOMBIE"
      <4>1. CASE parent[c] = q
        <5>1. c # p
          BY <3>2, <4>1, Zenon
        <5> QED BY <2>4, <3>1, <4>1, <5>1, Zenon DEF IInv, NoLostWakeup
      <4>2. CASE parent[c] # q
        <5>1. parent[c] = p /\ q = initproc
          BY <1>2, <3>5, <4>2, Zenon
        <5>2. state[c] # "ZOMBIE"
          BY <2>2, <3>1, <5>1, SMTT(30)
        <5>3. c # p
          BY <1>2, <2>1, <5>1 DEF IInv, ParentCanWait, Live, TypeOK
        <5> QED BY <2>4, <5>2, <5>3, Zenon
      <4> QED BY <4>1, <4>2, Zenon
    <3> QED BY <3>4, <3>5, Zenon
  <2> QED BY <2>6, <2>7, <2>8, <2>10, <2>11, <2>12, <2>13, SMTT(30) DEF IInv
<1> QED BY <1>1, <1>2, Zenon DEF sys_exit, OrphansToInit

\* wait(): a zombie's slot is freed, or the caller sleeps because it has
\* children and none of them is a zombie.
LEMMA WaitKeeps ==
  ASSUME IInv, NEW p \in Slot, sys_wait(p)
  PROVE  IInv'
<1> DEFINE kids == {c \in Slot : parent[c] = p}
           zombies == kids \cap InState(state, "ZOMBIE")
<1>1. p = proc /\ Live(p) /\ state[p] # "SLEEPING"
  BY SlotFacts, Zenon DEF sys_wait, IInv, CurrentRuns, Live
<1>2. UNCHANGED <<panicked, memory, nextpid>>
  BY Zenon DEF sys_wait
<1>3. ASSUME NEW c \in Slot,
             IsFirst(zombies, c),
             state' = [state EXCEPT ![c] = "UNUSED"],
             pid' = [pid EXCEPT ![c] = 0],
             parent' = [parent EXCEPT ![c] = NoProc],
             ctx' = [ctx EXCEPT ![p] = "user"],
             UNCHANGED <<proc, chan>>
      PROVE  IInv'
  <2>1. parent[c] = p /\ state[c] = "ZOMBIE"
    BY <1>3, Zenon DEF IsFirst, InState
  <2>2. c # p /\ c # initproc /\ ~Live(c)
    BY <1>1, <2>1, Zenon DEF IInv, InitAlive, Live
  <2>3. TypeOK'
    BY <1>2, <1>3, Zenon DEF IInv, TypeOK, States, memory
  <2>4. /\ \A q \in Slot : q # c => /\ state'[q] = state[q] /\ pid'[q] = pid[q]
                                    /\ parent'[q] = parent[q]
        /\ state'[c] = "UNUSED" /\ parent'[c] = NoProc
    BY <1>3, Zenon DEF IInv, TypeOK
  <2>5. \A q \in Slot : Live(q)' <=> Live(q)
    BY <2>1, <2>4, Zenon DEF Live
  <2>6. PidsInOrder' /\ PidsUnique'
    BY <1>2, <2>4 DEF IInv, PidsInOrder, PidsUnique
  <2>7. InitAlive' /\ CurrentRuns'
    BY <1>1, <1>3, <2>2, <2>4, SlotFacts, SMTT(30) DEF IInv, InitAlive, CurrentRuns, Live
  <2>8. BaseRegisterMapsOwnFrames' /\ NoFrameLeak'
    BY <1>2, <2>2, <2>4, <2>5, SMTT(30)
       DEF IInv, BaseRegisterMapsOwnFrames, NoFrameLeak, Frames, memory
  <2>9. ParentCanWait'
    BY <2>2, <2>4, SlotFacts DEF IInv, ParentCanWait, Live
  <2>10. NoLostWakeup'
    BY <1>1, <1>3, <2>1, <2>4, SlotFacts DEF IInv, NoLostWakeup
  <2> QED BY <2>3, <2>6, <2>7, <2>8, <2>9, <2>10, Zenon DEF IInv
<1>4. CASE /\ ctx' = [ctx EXCEPT ![p] = "user"]
           /\ UNCHANGED <<proc, state, pid, parent, chan>>
  <2>1. TypeOK'
    BY <1>2, <1>4, Zenon DEF IInv, TypeOK, memory
  <2>2. SameLives
    BY <1>4, Zenon DEF SameLives
  <2>3. CurrentRuns' /\ NoLostWakeup'
    BY <1>4, Zenon DEF IInv, CurrentRuns, NoLostWakeup
  <2> QED BY <1>2, <1>4, <2>1, <2>2, <2>3, SchedulingKeeps, Zenon DEF IInv, TypeOK
<1>5. CASE /\ kids # {} /\ zombies = {}
           /\ ctx' = [ctx EXCEPT ![p] = "wait"]
           /\ sleep(p, p)
           /\ UNCHANGED <<pid, parent>>
  <2> DEFINE st == [state EXCEPT ![p] = "SLEEPING"]
             ch == [chan EXCEPT ![p] = p]
  <2>1. st \in [Slot -> States] /\ ch \in [Slot -> Slot \cup Chan \cup {NoChan}]
    BY SMTT(30) DEF IInv, TypeOK, States
  <2>2. Switched(st, ch)
    BY <1>5, <2>1, SchedulerSwitches, Zenon DEF sleep
  <2>3. SameLives
    BY <1>1, <2>2, Zenon DEF SameLives, Switched, Live, IInv, TypeOK
  <2>4. TypeOK'
    BY <1>2, <1>5, <2>2, Zenon DEF IInv, TypeOK, Switched, memory
  <2>5. CurrentRuns'
    BY <2>2, Zenon DEF Switched, CurrentRuns
  <2>6. NoLostWakeup'
    <3> SUFFICES ASSUME NEW q \in Slot, state'[q] = "SLEEPING", chan'[q] = q
                 PROVE  /\ \E k \in Slot : parent[k] = q
                        /\ \A k \in Slot : parent[k] = q => state[k] # "ZOMBIE"
      BY <1>5, <2>3, Zenon DEF NoLostWakeup, SameLives
    <3>1. CASE q = p
      BY <1>5, <3>1, Zenon DEF InState
    <3>2. CASE q # p
      <4>1. state[q] = "SLEEPING" /\ chan[q] = q
        BY <2>2, <3>2, Zenon DEF Switched, IInv, TypeOK
      <4> QED BY <4>1, Zenon DEF IInv, NoLostWakeup
    <3> QED BY <3>1, <3>2, Zenon
  <2> QED BY <1>2, <1>5, <2>3, <2>4, <2>5, <2>6, SchedulingKeeps, Zenon DEF IInv, TypeOK
<1> QED BY <1>3, <1>4, <1>5, Zenon DEF sys_wait

LEMMA NextKeeps == IInv /\ [Next]_vars => IInv'
<1> SUFFICES ASSUME IInv, [Next]_vars PROVE IInv'
  OBVIOUS
<1>1. CASE UNCHANGED vars
  BY <1>1 DEF vars, IInv, TypeOK, PidsInOrder, PidsUnique, InitAlive, CurrentRuns,
     BaseRegisterMapsOwnFrames, NoFrameLeak, ParentCanWait, NoLostWakeup, Live, Frames
<1>2. CASE Next
  BY <1>2, ForkKeeps, ExecKeeps, ExitKeeps, WaitKeeps, BlockKeeps, WakeupKeeps, Zenon
     DEF Next
<1> QED BY <1>1, <1>2, Zenon

\* IInv is inductive: it holds of every reachable state.
THEOREM Inductive == Spec => []IInv
BY InitIInv, NextKeeps, PTL DEF Spec

-----------------------------------------------------------------------------
\* Every field of the process table and the frame list keeps its type.
THEOREM TypeCorrect == Spec => []TypeOK
<1>1. IInv => TypeOK
  BY Zenon DEF IInv
<1> QED BY <1>1, Inductive, PTL

\* The base register of a live process maps exactly the frames the allocator
\* has down as its own, whatever fork(), exec(), exit() and wait() did.
THEOREM BaseRegisterCorrect == Spec => []BaseRegisterMapsOwnFrames
<1>1. IInv => BaseRegisterMapsOwnFrames
  BY SMTT(30) DEF IInv
<1> QED BY <1>1, Inductive, PTL

\* No two live processes ever share a frame of memory.
THEOREM ProcessesIsolated == Spec => []MemoryIsolation
<1>1. ASSUME IInv PROVE MemoryIsolation
  <2> SUFFICES ASSUME NEW p \in Slot, NEW q \in Slot, Live(p), Live(q), p # q,
                      NEW i \in Run(basereg[p], nframes[p]),
                      i \in Run(basereg[q], nframes[q])
               PROVE  FALSE
    BY Zenon DEF MemoryIsolation
  <2>1. i \in Frames(p) /\ i \in Frames(q)
    BY <1>1, Zenon DEF IInv, BaseRegisterMapsOwnFrames
  <2>2. pid[p] = pid[q]
    BY <2>1, Zenon DEF Frames
  <2> QED BY <1>1, <2>2, Zenon DEF IInv, PidsUnique, Live
<1> QED BY <1>1, Inductive, PTL

\* Every frame in use belongs to a live process: exit() and failed calls of
\* fork() and exec() leak no memory.
THEOREM NoMemoryLeak == Spec => []NoFrameLeak
<1>1. IInv => NoFrameLeak
  BY Zenon DEF IInv
<1> QED BY <1>1, Inductive, PTL

\* No two processes, dead or alive, have the same pid.
THEOREM PidsNeverShared == Spec => []PidsUnique
<1>1. IInv => PidsUnique
  BY Zenon DEF IInv
<1> QED BY <1>1, Inductive, PTL

\* Every process but init always has a live, older parent to wait for it.
THEOREM EveryChildHasAParent == Spec => []ParentCanWait
<1>1. IInv => ParentCanWait
  BY Zenon DEF IInv
<1> QED BY <1>1, Inductive, PTL

\* A process asleep in wait() has a child, and no zombie it was not told of:
\* exit() wakes the right process in every interleaving.
THEOREM WakeupsNeverLost == Spec => []NoLostWakeup
<1>1. IInv => NoLostWakeup
  BY Zenon DEF IInv
<1> QED BY <1>1, Inductive, PTL

\* No step of one process moves another: base register, size, pid and frames
\* of a process change only when it has the CPU.
THEOREM OthersNeverMoved == Spec => OnlyExecMovesAProcess
<1> DEFINE A == \A p \in Slot : Live(p) /\ Live(p)' /\ p # proc =>
                  /\ basereg'[p] = basereg[p] /\ nframes'[p] = nframes[p]
                  /\ pid'[p] = pid[p]
                  /\ Frames(p)' = Frames(p)
<1>1. ASSUME IInv, IInv', Next PROVE A
  <2> SUFFICES ASSUME NEW q \in Slot, Live(q), Live(q)', q # proc
               PROVE  /\ basereg'[q] = basereg[q] /\ nframes'[q] = nframes[q]
                      /\ pid'[q] = pid[q]
    BY <1>1, Zenon DEF IInv, BaseRegisterMapsOwnFrames
  <2> PICK p \in Slot :
        \/ sys_fork(p)
        \/ \E n \in FrameCounts : sys_exec(p, n)
        \/ sys_exit(p)
        \/ sys_wait(p)
        \/ \E c \in Chan : Block(p, c)
        \/ \E c \in Chan : wakeup(p, c)
    BY <1>1, SMTT(30) DEF Next
  <2>1. CASE sys_fork(p)
    <3>1. CASE UNCHANGED vars
      BY <3>1, Zenon DEF vars
    <3>2. ASSUME NEW np \in Slot, allocproc(np),
                 \/ UNCHANGED memory
                 \/ \E a : /\ basereg' = [basereg EXCEPT ![np] = a]
                           /\ nframes' = [nframes EXCEPT ![np] = nframes[p]]
          PROVE  /\ basereg'[q] = basereg[q] /\ nframes'[q] = nframes[q]
                 /\ pid'[q] = pid[q]
      <4>1. np # q
        BY <3>2, Zenon DEF allocproc, IsFirst, InState, Live
      <4>2. \A x : /\ [basereg EXCEPT ![np] = x][q] = basereg[q]
                   /\ [nframes EXCEPT ![np] = x][q] = nframes[q]
                   /\ [pid EXCEPT ![np] = x][q] = pid[q]
        BY <1>1, <4>1, Zenon DEF IInv, TypeOK
      <4> QED BY <3>2, <4>2, Zenon DEF allocproc, memory
    <3> QED BY <2>1, <3>1, <3>2, Zenon DEF sys_fork
  <2>2. ASSUME NEW n \in FrameCounts, sys_exec(p, n) 
        PROVE  /\ basereg'[q] = basereg[q] /\ nframes'[q] = nframes[q]
               /\ pid'[q] = pid[q]
    BY <1>1, <2>2, Zenon DEF sys_exec, AtUser, IInv, TypeOK, memory
  <2>3. CASE sys_exit(p)
    BY <2>3, Zenon DEF sys_exit, memory
  <2>4. CASE sys_wait(p)
    BY <1>1, <2>4, Zenon DEF sys_wait, IsFirst, InState, Live, IInv, TypeOK, memory
  <2>5. CASE (\E c \in Chan : Block(p, c)) \/ (\E c \in Chan : wakeup(p, c))
    BY <2>5, Zenon DEF Block, wakeup, memory
  <2> QED BY <2>1, <2>2, <2>3, <2>4, <2>5, Zenon
<1>2. IInv /\ IInv' /\ [Next]_vars => [A]_vars
  <2> HIDE DEF A
  <2> QED BY <1>1, SMTT(30)
<1> QED BY <1>2, Inductive, PTL DEF Spec, OnlyExecMovesAProcess

-----------------------------------------------------------------------------
\* The node of the tree that the slot p holds.
Node(p) == [parent |-> IF parent[p] = NoProc THEN 0 ELSE pid[parent[p]],
            dead |-> state[p] = "ZOMBIE"]

\* The tree read off the table slot by slot, without choosing a slot by pid.
TreeShape ==
  /\ PidTree = [a \in DOMAIN PidTree |-> PidTree[a]]
  /\ DOMAIN PidTree = {pid[p] : p \in Used}
  /\ \A p \in Used : PidTree[pid[p]] = Node(p)

\* Pids are unique, so the slot of a pid is the one slot in use that has it.
LEMMA TreeHasShape == IInv => TreeShape
<1> SUFFICES ASSUME IInv PROVE TreeShape
  OBVIOUS
<1>1. \A p \in Used : SlotOf(pid[p]) = p
  BY Zenon DEF SlotOf, IInv, PidsUnique, Used
<1>2. \A p \in Used : PidTree[pid[p]] = Node(p)
  BY <1>1, Zenon DEF PidTree, Node
<1> QED BY <1>2, Zenon DEF TreeShape, PidTree

LEMMA NextTreeHasShape == IInv' => TreeShape'
BY TreeHasShape, PTL

\* A function that agrees with the slots after a step is the tree after it.
LEMMA TreeAfter ==
  ASSUME IInv', NEW f,
         f = [a \in DOMAIN f |-> f[a]],
         DOMAIN f = {pid'[p] : p \in Used'},
         \A p \in Used' : f[pid'[p]] = Node(p)'
  PROVE  PidTree' = f
<1>1. TreeShape'
  BY NextTreeHasShape, Zenon
<1>2. \A a \in DOMAIN f : PidTree'[a] = f[a]
  BY <1>1 DEF TreeShape
<1> QED BY <1>1, <1>2, Zenon DEF TreeShape

\* Sleeping, waking, switching and exec() do not show in the tree.
LEMMA SameTree ==
  ASSUME IInv, IInv', SameLives, UNCHANGED <<pid, parent>>
  PROVE  PidTree' = PidTree
<1>1. TreeShape
  BY TreeHasShape, Zenon
<1>2. Used' = Used
  BY Zenon DEF SameLives, Used
<1>3. \A p \in Used' : Node(p)' = Node(p)
  BY <1>2, Zenon DEF SameLives, Node, Used
<1> QED BY <1>1, <1>2, <1>3, TreeAfter DEF TreeShape

\* The process that has the CPU is alive in the tree.
LEMMA CurrentAlive ==
  ASSUME IInv, NEW p \in Slot, p = proc
  PROVE  pid[p] \in DOMAIN PidTree /\ Tree!Alive(pid[p])
<1>1. p \in Used /\ state[p] # "ZOMBIE"
  BY SlotFacts, Zenon DEF IInv, CurrentRuns, Used
<1>2. TreeShape
  BY TreeHasShape, Zenon
<1>3. Node(p).dead = (state[p] = "ZOMBIE")
  BY Zenon DEF Node
<1>4. pid[p] \in DOMAIN PidTree /\ PidTree[pid[p]] = Node(p)
  BY <1>1, <1>2, Zenon DEF TreeShape
<1> QED BY <1>1, <1>3, <1>4, Zenon DEF Tree!Alive

-----------------------------------------------------------------------------
LEMMA InitRefines == Init => Tree!TreeInit
<1> SUFFICES ASSUME Init PROVE Tree!TreeInit
  OBVIOUS
<1>1. TreeShape
  BY InitIInv, TreeHasShape, Zenon
<1>2. Used = {initproc} /\ pid[initproc] = 1 /\ nextpid = 2
  BY SlotFacts, Zenon DEF Init, Used
<1>3. Node(initproc) = [parent |-> 0, dead |-> FALSE]
  BY SlotFacts, Zenon DEF Init, Node
<1>4. PidTree = [a \in {1} |-> [parent |-> 0, dead |-> FALSE]]
  BY <1>1, <1>2, <1>3, Zenon DEF TreeShape
<1> QED BY <1>2, <1>4 DEF Tree!TreeInit, Tree!init

\* fork() adds a child with a new pid, or changes no process.
LEMMA ForkRefines ==
  ASSUME IInv, IInv', NEW p \in Slot, sys_fork(p)
  PROVE  [Tree!TreeNext]_(Tree!treeVars)
<1>1. CASE UNCHANGED vars
  <2>1. PidTree' = PidTree
    BY <1>1, SameTree, Zenon DEF vars, SameLives
  <2> QED BY <1>1, <2>1, Zenon DEF vars, Tree!treeVars
<1>2. ASSUME NEW np \in Slot, allocproc(np), UNCHANGED <<state, parent>>
      PROVE  Tree!ForkFails
  <2>1. np \notin Used /\ Used' = Used
    BY <1>2, SMTT(30) DEF allocproc, IsFirst, InState, Used
  <2>2. \A q \in Used : q # np /\ pid'[q] = pid[q]
    BY <1>2, <2>1, Zenon DEF allocproc, IInv, TypeOK, Used
  <2>3. \A q \in Used : Node(q)' = Node(q)
    BY <1>2, <2>1, <2>2, Zenon DEF Node, IInv, ParentCanWait, Live, Used
  <2>4. TreeShape
    BY TreeHasShape, Zenon
  <2>5. PidTree' = PidTree
    BY <2>1, <2>2, <2>3, <2>4, TreeAfter DEF TreeShape
  <2> QED BY <1>2, <2>5 DEF allocproc, Tree!ForkFails, IInv, TypeOK
<1>3. ASSUME NEW np \in Slot, allocproc(np),
             state' = [state EXCEPT ![np] = "RUNNABLE"],
             parent' = [parent EXCEPT ![np] = p],
             p = proc
      PROVE  Tree!Fork(pid[p])
  <2>1. np \notin Used /\ Used' = Used \cup {np} /\ p \in Used /\ p # NoProc
    BY <1>3, SlotFacts, SMTT(30) DEF allocproc, IsFirst, InState, Used, IInv, TypeOK,
       CurrentRuns
  <2>2. /\ \A q \in Used : q # np /\ pid'[q] = pid[q] /\ pid[q] # nextpid
        /\ pid'[np] = nextpid
    BY <1>3, <2>1, SMTT(30) DEF allocproc, IInv, TypeOK, PidsInOrder, Used
  <2>3. \A q \in Used : Node(q)' = Node(q)
    BY <1>3, <2>1, <2>2, SMTT(30) DEF Node, IInv, TypeOK, ParentCanWait, Live, Used
  <2>4. Node(np)' = [parent |-> pid[p], dead |-> FALSE]
    BY <1>3, <2>1, <2>2, Zenon DEF Node, IInv, TypeOK
  <2>5. TreeShape
    BY TreeHasShape, Zenon
  <2> DEFINE t == [b \in DOMAIN PidTree \cup {nextpid} |->
                     IF b = nextpid THEN [parent |-> pid[p], dead |-> FALSE]
                                    ELSE PidTree[b]]
  <2>6. DOMAIN t = {pid'[q] : q \in Used'}
    BY <2>1, <2>2, <2>5 DEF TreeShape
  <2>7. \A q \in Used' : t[pid'[q]] = Node(q)'
    BY <2>1, <2>2, <2>3, <2>4, <2>5 DEF TreeShape
  <2>8. PidTree' = t
    <3> HIDE DEF t
    <3>1. t = [a \in DOMAIN t |-> t[a]]
      BY SMTT(30) DEF t
    <3> QED BY <2>6, <2>7, <3>1, TreeAfter, Zenon
  <2>9. nextpid - 1 + 1 = nextpid /\ nextpid' - 1 = nextpid
    BY <1>3 DEF allocproc, IInv, TypeOK
  <2>10. Tree!Alive(pid[p])
    BY <1>3, CurrentAlive, Zenon
  <2> QED BY <2>8, <2>9, <2>10, SMTT(30) DEF Tree!Fork
<1>4. CASE \E np \in Slot : allocproc(np) /\ UNCHANGED <<state, parent>>
  BY <1>2, <1>4, Zenon DEF Tree!TreeNext
<1>5. CASE \E np \in Slot : /\ allocproc(np) /\ p = proc
                            /\ state' = [state EXCEPT ![np] = "RUNNABLE"]
                            /\ parent' = [parent EXCEPT ![np] = p]
  <2>1. pid[p] \in DOMAIN PidTree
    BY <1>5, CurrentAlive, SMTT(30)
  <2> QED BY <1>3, <1>5, <2>1, Zenon DEF Tree!TreeNext
<1> QED BY <1>1, <1>4, <1>5, Zenon DEF sys_fork, AtUser

\* What exit() does to the slots: p is a zombie, its children are init's, and
\* no other slot dies, is freed or is taken.
LEMMA ExitSlots ==
  ASSUME IInv, IInv', NEW p \in Slot, p = proc, p # initproc,
         parent' = OrphansToInit(p), scheduler(ExitStates(p), chan)
  PROVE  \A q \in Slot :
           /\ state'[q] = "UNUSED" <=> state[q] = "UNUSED"
           /\ state'[q] = "ZOMBIE" <=> state[q] = "ZOMBIE" \/ q = p
           /\ parent'[q] = IF parent[q] = p THEN initproc ELSE parent[q]
<1>1. state[p] \in {"RUNNABLE", "RUNNING"}
  BY SlotFacts, SMTT(30) DEF IInv, CurrentRuns
<1>2. ExitStates(p) \in [Slot -> States]
  BY Zenon DEF ExitStates, wakeup1, IInv, TypeOK, States
<1>3. Switched(ExitStates(p), chan)
  BY <1>2, SchedulerSwitches, SMTT(30) DEF IInv, TypeOK
<1>4. \A q \in Slot : 
        \/ ExitStates(p)[q] = state[q] /\ q # p
        \/ ExitStates(p)[q] = "ZOMBIE" /\ q = p
        \/ ExitStates(p)[q] = "RUNNABLE" /\ state[q] = "SLEEPING" /\ q # p
  BY Zenon DEF ExitStates, wakeup1, IInv, TypeOK
<1>5. \A q \in Slot :
        /\ state'[q] = "UNUSED" <=> state[q] = "UNUSED"
        /\ state'[q] = "ZOMBIE" <=> state[q] = "ZOMBIE" \/ q = p
  BY <1>1, <1>3, <1>4, Zenon DEF Switched
<1> QED BY <1>5, SMTT(30) DEF OrphansToInit

LEMMA ExitRefines ==
  ASSUME IInv, IInv', NEW p \in Slot, sys_exit(p)
  PROVE  [Tree!TreeNext]_(Tree!treeVars)
<1>1. CASE UNCHANGED <<state, pid, parent, nextpid>>
  <2>1. PidTree' = PidTree
    BY <1>1, SameTree, Zenon DEF SameLives
  <2> QED BY <1>1, <2>1, Zenon DEF Tree!treeVars
<1>2. CASE /\ p = proc /\ p # initproc
           /\ parent' = OrphansToInit(p)
           /\ scheduler(ExitStates(p), chan)
           /\ UNCHANGED <<pid, nextpid>>
  <2>1. \A q \in Slot :
           /\ state'[q] = "UNUSED" <=> state[q] = "UNUSED"
           /\ state'[q] = "ZOMBIE" <=> state[q] = "ZOMBIE" \/ q = p
           /\ parent'[q] = IF parent[q] = p THEN initproc ELSE parent[q]
    BY <1>2, ExitSlots, SMTT(30)
  <2>2. Used' = Used /\ p \in Used /\ initproc \in Used /\ pid[initproc] = 1
    BY <1>2, <2>1, SlotFacts, SMTT(30) DEF Used, IInv, CurrentRuns, InitAlive, Live
  <2>3. pid[p] # 1
    BY <1>2, <2>2, Zenon DEF IInv, PidsUnique, Used
  <2> DEFINE pp(n) == IF n.parent = pid[p] THEN 1 ELSE n.parent
             t == [b \in DOMAIN PidTree |-> [parent |-> pp(PidTree[b]),
                                             dead |-> PidTree[b].dead \/ b = pid[p]]]
  <2>4. TreeShape
    BY TreeHasShape, SMTT(30)
  <2>5. \A q \in Used : t[pid[q]] = Node(q)'
    <3> SUFFICES ASSUME NEW q \in Used PROVE t[pid[q]] = Node(q)'
      OBVIOUS
    <3>1. /\ t[pid[q]] = [parent |-> pp(Node(q)), dead |-> Node(q).dead \/ pid[q] = pid[p]]
          /\ q \in Slot
      BY <2>4, Zenon DEF TreeShape, Used
    <3>2. pp(Node(q)) = Node(q)'.parent
      <4>1. Node(q).parent = IF parent[q] = NoProc THEN 0 ELSE pid[parent[q]]
        BY Zenon DEF Node
      <4>2. Node(q)'.parent = IF parent'[q] = NoProc THEN 0 ELSE pid[parent'[q]]
        BY <1>2, Zenon DEF Node
      <4>3. pid[p] # 0
        BY <2>2, SMTT(30) DEF IInv, PidsInOrder, Used
      <4>4. parent[q] # NoProc => 
              parent[q] \in Used /\ (pid[parent[q]] = pid[p] <=> parent[q] = p)
        BY <2>2, Zenon DEF IInv, ParentCanWait, PidsUnique, Used, Live
      <4> QED BY <2>1, <2>2, <3>1, <4>1, <4>2, <4>3, <4>4, SlotFacts
    <3>3. (Node(q).dead \/ pid[q] = pid[p]) = Node(q)'.dead
      <4>1. Node(q).dead = (state[q] = "ZOMBIE") /\ Node(q)'.dead = (state'[q] = "ZOMBIE")
        BY Zenon DEF Node
      <4>2. pid[q] = pid[p] <=> q = p
        BY <2>2, SMTT(30) DEF IInv, PidsUnique, Used
      <4>3. state'[q] = "ZOMBIE" <=> state[q] = "ZOMBIE" \/ q = p
        BY <2>1, <3>1, Zenon
      <4> QED BY <4>1, <4>2, <4>3, Zenon
    <3> QED BY <3>1, <3>2, <3>3, Zenon DEF Node
  <2>6. PidTree' = t
    <3>1. t = [a \in DOMAIN t |-> t[a]] /\ DOMAIN t = DOMAIN PidTree
      OBVIOUS
    <3> HIDE DEF t
    <3>2. DOMAIN t = {pid'[q] : q \in Used'}
      BY <1>2, <2>2, <2>4, <3>1 DEF TreeShape
    <3> QED BY <1>2, <2>2, <2>5, <3>1, <3>2, TreeAfter, Zenon
  <2>7. pid[p] \in DOMAIN PidTree /\ Tree!Alive(pid[p])
    BY <1>2, CurrentAlive, Zenon
  <2>8. Tree!Exit(pid[p])
    BY <1>2, <2>3, <2>6, <2>7, SMTT(30) DEF Tree!Exit, Tree!init
  <2> QED BY <2>7, <2>8, SMTT(30) DEF Tree!TreeNext
<1> QED BY <1>1, <1>2, Zenon DEF sys_exit, AtUser

\* sleep() puts the current process to sleep and switches: nobody is born or
\* dies.
LEMMA SleepSameLives ==
  ASSUME IInv, NEW p \in Slot, p = proc,
         NEW c \in Slot \cup Chan \cup {NoChan}, sleep(p, c)
  PROVE  SameLives
<1>1. state[p] \in {"RUNNABLE", "RUNNING"}
  BY SlotFacts, Zenon DEF IInv, CurrentRuns
<1> DEFINE st == [state EXCEPT ![p] = "SLEEPING"]
           ch == [chan EXCEPT ![p] = c]
<1>2. st \in [Slot -> States] /\ ch \in [Slot -> Slot \cup Chan \cup {NoChan}]
  BY Zenon DEF IInv, TypeOK, States
<1>3. Switched(st, ch)
  <2> HIDE DEF st, ch
  <2>1. scheduler(st, ch)
    BY Zenon DEF sleep, st, ch
  <2> QED BY <1>2, <2>1, SchedulerSwitches, Zenon
<1>4. \A q \in Slot : q # p => st[q] = state[q]
  BY Zenon DEF IInv, TypeOK
<1>5. st[p] = "SLEEPING"
  BY Zenon DEF IInv, TypeOK
<1> QED BY <1>1, <1>3, <1>4, <1>5, Zenon DEF Switched, SameLives

\* wait() collects a dead child of the caller, or changes no process.
LEMMA WaitRefines ==
  ASSUME IInv, IInv', NEW p \in Slot, sys_wait(p)
  PROVE  [Tree!TreeNext]_(Tree!treeVars)
<1>1. p = proc /\ nextpid' = nextpid
  BY Zenon DEF sys_wait
<1>2. CASE UNCHANGED <<pid, parent>> /\ SameLives
  <2>1. PidTree' = PidTree
    BY <1>2, SameTree, Zenon
  <2> QED BY <1>1, <2>1, Zenon DEF Tree!treeVars
<1>3. CASE sleep(p, p) /\ UNCHANGED <<pid, parent>>
  BY <1>1, <1>2, <1>3, SleepSameLives, Zenon
<1>4. CASE UNCHANGED <<state, pid, parent>>
  BY <1>2, <1>4, SMTT(30) DEF SameLives
<1>5. ASSUME NEW c \in Slot, parent[c] = p, state[c] = "ZOMBIE",
             state' = [state EXCEPT ![c] = "UNUSED"],
             pid' = [pid EXCEPT ![c] = 0],
             parent' = [parent EXCEPT ![c] = NoProc]
      PROVE  Tree!Collect(pid[p], pid[c]) /\ pid[c] \in DOMAIN PidTree
  <2>1. c \in Used /\ p \in Used /\ Used' = Used \ {c} /\ p # NoProc
    BY <1>1, <1>5, SlotFacts, SMTT(30) DEF Used, IInv, TypeOK, CurrentRuns
  <2>2. \A q \in Used' : q # c /\ pid'[q] = pid[q] /\ pid[q] # pid[c]
    BY <1>5, <2>1 DEF IInv, TypeOK, PidsUnique, Used
  <2>3. \A q \in Used' : Node(q)' = Node(q)
    <3> SUFFICES ASSUME NEW q \in Used' PROVE Node(q)' = Node(q)
      OBVIOUS
    <3>1. parent'[q] = parent[q] /\ state'[q] = state[q] /\ q # c
      BY <1>5, <2>1, <2>2, SMTT(30) DEF IInv, TypeOK, Used
    <3>2. parent[q] # NoProc => parent[q] \in Slot /\ parent[q] # c
      BY <1>5, <2>1, SMTT(30) DEF IInv, TypeOK, ParentCanWait, Used, Live
    <3>3. parent[q] # NoProc => pid'[parent[q]] = pid[parent[q]]
      BY <1>5, <3>2, Zenon DEF IInv, TypeOK
    <3> QED BY <3>1, <3>3, Zenon DEF Node
  <2>4. TreeShape
    BY TreeHasShape, Zenon
  <2> DEFINE t == [a \in DOMAIN PidTree \ {pid[c]} |-> PidTree[a]]
  <2>5. PidTree' = t
    <3>1. t = [a \in DOMAIN t |-> t[a]] /\ DOMAIN t = DOMAIN PidTree \ {pid[c]}
      OBVIOUS
    <3>2. DOMAIN t = {pid'[q] : q \in Used'}
      BY <2>1, <2>2, <2>4, <3>1 DEF TreeShape
    <3>3. \A q \in Used' : t[pid'[q]] = Node(q)'
      BY <2>1, <2>2, <2>3, <2>4 DEF TreeShape
    <3> HIDE DEF t
    <3> QED BY <3>1, <3>2, <3>3, TreeAfter, Zenon
  <2>6. pid[c] \in DOMAIN PidTree /\ PidTree[pid[c]] = Node(c)
    BY <2>1, <2>4, Zenon DEF TreeShape
  <2>7. Node(c).parent = pid[p]
    BY <1>5, <2>1, Zenon DEF Node
  <2>8. Node(c).dead = (state[c] = "ZOMBIE")
    BY Zenon DEF Node
  <2>9. Node(c).dead
    BY <1>5, <2>8, Zenon
  <2>10. Tree!Alive(pid[p])
    BY <1>1, CurrentAlive, Zenon
  <2> QED BY <1>1, <2>5, <2>6, <2>7, <2>9, <2>10, SMTT(30) DEF Tree!Collect
<1>6. CASE \E c \in Slot : /\ parent[c] = p /\ state[c] = "ZOMBIE"
                           /\ state' = [state EXCEPT ![c] = "UNUSED"]
                           /\ pid' = [pid EXCEPT ![c] = 0]
                           /\ parent' = [parent EXCEPT ![c] = NoProc]
  <2>1. pid[p] \in DOMAIN PidTree
    BY <1>1, CurrentAlive, Zenon
  <2> QED BY <1>5, <1>6, <2>1, Zenon DEF Tree!TreeNext
<1> QED BY <1>3, <1>4, <1>6, Zenon DEF sys_wait, IsFirst, InState

LEMMA OthersRefine ==
  ASSUME IInv, IInv', NEW p \in Slot,
         \/ \E n \in FrameCounts : sys_exec(p, n)
         \/ \E c \in Chan : Block(p, c)
         \/ \E c \in Chan : wakeup(p, c)
  PROVE  UNCHANGED Tree!treeVars
<1>1. UNCHANGED <<pid, parent, nextpid>>
  BY Zenon DEF sys_exec, Block, wakeup
<1>2. CASE \E n \in FrameCounts : sys_exec(p, n)
  BY <1>1, <1>2, SameTree, Zenon DEF sys_exec, SameLives, Tree!treeVars
<1>3. CASE \E c \in Chan : Block(p, c)
  <2>1. SameLives
    BY <1>3, SleepSameLives, SMTT(30) DEF Block, AtUser
  <2> QED BY <1>1, <2>1, SameTree, Zenon DEF Tree!treeVars
<1>4. CASE \E c \in Chan : wakeup(p, c)
  <2>1. SameLives
    BY <1>4, Zenon DEF wakeup, wakeup1, SameLives, IInv, TypeOK
  <2> QED BY <1>1, <2>1, SameTree, Zenon DEF Tree!treeVars
<1> QED BY <1>2, <1>3, <1>4, Zenon

LEMMA StepRefines ==
  IInv /\ IInv' /\ [Next]_vars => [Tree!TreeNext]_(Tree!treeVars)
<1> SUFFICES ASSUME IInv, IInv', [Next]_vars
             PROVE  [Tree!TreeNext]_(Tree!treeVars)
  OBVIOUS
<1>1. CASE UNCHANGED vars
  <2>1. PidTree' = PidTree
    BY <1>1, SameTree, Zenon DEF vars, SameLives
  <2> QED BY <1>1, <2>1, Zenon DEF vars, Tree!treeVars
<1>2. CASE Next
  BY <1>2, ForkRefines, ExitRefines, WaitRefines, OthersRefine, Zenon DEF Next
<1> QED BY <1>1, <1>2, Zenon

\* fork(), exit() and wait() on a table of reused slots act on processes as
\* the tree of pids says, whatever the size of the table and of memory: every
\* child is collected once, by its parent or by init, and no process is taken
\* for one that had its slot before.
THEOREM TableImplementsTree == Spec => ImplementsProcTree
BY InitRefines, StepRefines, Inductive, PTL
   DEF Spec, ImplementsProcTree, Tree!TreeSpec

-----------------------------------------------------------------------------
\* Every set of naturals has a least element.
LEMMA Least ==
  ASSUME NEW T, T \subseteq Nat, T # {}
  PROVE  \E x \in T : \A y \in T : x <= y
<1> DEFINE R == OpToRel(<, Nat)
<1>1. IsWellFoundedOn(R, Nat)
  BY NatLessThanWellFounded, Zenon
<1>2. \A x, y \in Nat : y < x => <<y, x>> \in R
  BY Zenon DEF OpToRel
<1> HIDE DEF R
<1>3. PICK x \in T : \A y \in T : <<y, x>> \notin R
  BY <1>1, WFMin, Zenon
<1>4. \A y \in T : ~(y < x)
  BY <1>2, <1>3, Zenon
<1> QED BY <1>4

\* Induction up to n, for the set of numbers that have some property.
LEMMA Induction ==
  ASSUME NEW n \in Nat, NEW S, 0 \in S, \A i \in 0 .. n - 1 : i \in S => i + 1 \in S
  PROVE  0 .. n \subseteq S
<1> SUFFICES ASSUME (0 .. n) \ S # {} PROVE FALSE
  OBVIOUS
<1>1. (0 .. n) \ S \subseteq Nat
  OBVIOUS
<1>2. PICK x \in (0 .. n) \ S : \A y \in (0 .. n) \ S : x <= y
  BY <1>1, Least, Zenon
<1>3. x # 0 /\ x - 1 \in 0 .. n - 1 /\ x - 1 \in S
  BY <1>2
<1> QED BY <1>2, <1>3

\* A loop of n rounds on a state in D, a at first, of which round i makes
\* g[i][s] when it is s; and the history of its states before each round.
IsLoop(n, D, a, g) == n \in Nat /\ a \in D /\ g \in [0 .. n - 1 -> [D -> D]]

IsHistory(n, D, a, g, f) ==
  /\ f \in [0 .. n -> D] /\ f[0] = a
  /\ \A i \in 0 .. n - 1 : f[i + 1] = g[i][f[i]]

\* Every loop has a history.
LEMMA History ==
  ASSUME NEW n, NEW D, NEW a, NEW g, IsLoop(n, D, a, g)
  PROVE  \E f : IsHistory(n, D, a, g, f)
<1>0. n \in Nat /\ a \in D /\ g \in [0 .. n - 1 -> [D -> D]]
  BY Zenon DEF IsLoop
<1> USE <1>0
<1> DEFINE H(m, f) == /\ f \in [0 .. m -> D] /\ f[0] = a
                      /\ \A i \in 0 .. m - 1 : f[i + 1] = g[i][f[i]]
           S == {m \in 0 .. n : \E f : H(m, f)}
<1>1. 0 \in S
  <2>1. H(0, [i \in 0 .. 0 |-> a])
    OBVIOUS
  <2> HIDE DEF H
  <2> QED BY <2>1
<1>2. ASSUME NEW m \in 0 .. n - 1, m \in S PROVE m + 1 \in S
  <2>1. PICK f : H(m, f)
    BY <1>2, Zenon
  <2> DEFINE h == [i \in 0 .. m + 1 |-> IF i = m + 1 THEN g[m][f[m]] ELSE f[i]]
  <2>2. f[m] \in D /\ g[m][f[m]] \in D
    BY <2>1
  <2>3. h \in [0 .. m + 1 -> D] /\ h[0] = a
    BY <2>1, <2>2
  <2>4. ASSUME NEW i \in 0 .. m PROVE h[i + 1] = g[i][h[i]]
    BY <2>1
  <2>5. (m + 1) - 1 = m
    OBVIOUS
  <2>6. H(m + 1, h)
    <3> HIDE DEF h
    <3> QED BY <2>3, <2>4, <2>5, Zenon
  <2>7. m + 1 \in 0 .. n
    OBVIOUS
  <2> HIDE DEF H, h
  <2> QED BY <2>6, <2>7, Zenon
<1> HIDE DEF S
<1>3. 0 .. n \subseteq S
  BY <1>1, <1>2, Induction, Zenon
<1>4. n \in 0 .. n
  OBVIOUS
<1> QED BY <1>3, <1>4, Zenon DEF S, IsHistory
-----------------------------------------------------------------------------
\* The search for a single frame has the value its recursion gives it.
LEMMA FirstFitLoop ==
  ASSUME NEW fl \in [Frame -> Nat]
  PROVE  \E from :
           /\ FirstFit(fl) = from[0]
           /\ \A i \in 0 .. NFRAME :
                from[i] = IF i = NFRAME \/ fl[i] = FREE THEN i ELSE from[i + 1]
<1> DEFINE g == [k \in 0 .. NFRAME - 1 |-> [d \in 0 .. NFRAME |->
                   IF fl[NFRAME - k - 1] = FREE THEN NFRAME - k - 1 ELSE d]]
           Loop(h) == [i \in 0 .. NFRAME |->
                         IF i = NFRAME \/ fl[i] = FREE THEN i ELSE h[i + 1]]
<1>0. NFRAME \in Nat \ {0}
  BY NFrameAssumption, Zenon
<1>1. /\ g \in [0 .. NFRAME - 1 -> [0 .. NFRAME -> 0 .. NFRAME]]
      /\ \A k \in 0 .. NFRAME - 1, d \in 0 .. NFRAME :
           g[k][d] = IF fl[NFRAME - k - 1] = FREE THEN NFRAME - k - 1 ELSE d
  BY <1>0
<1> HIDE DEF g
<1>2. PICK f \in [0 .. NFRAME -> 0 .. NFRAME] :
        f[0] = NFRAME /\ \A k \in 0 .. NFRAME - 1 : f[k + 1] = g[k][f[k]]
  <2>1. IsLoop(NFRAME, 0 .. NFRAME, NFRAME, g)
    <3>1. NFRAME \in Nat /\ NFRAME \in 0 .. NFRAME
      BY <1>0
    <3> QED BY <1>1, <3>1, Zenon DEF IsLoop
  <2>2. PICK f : IsHistory(NFRAME, 0 .. NFRAME, NFRAME, g, f)
    BY <2>1, History, Zenon
  <2> QED BY <2>2, Zenon DEF IsHistory
<1> DEFINE h == [i \in 0 .. NFRAME |-> f[NFRAME - i]]
<1>3. h \in [0 .. NFRAME -> 0 .. NFRAME]
  BY <1>0
<1>4. ASSUME NEW i \in 0 .. NFRAME
      PROVE  h[i] = IF i = NFRAME \/ fl[i] = FREE THEN i ELSE h[i + 1]
  <2>1. CASE i = NFRAME
    BY <1>0, <1>2, <2>1
  <2>2. CASE i # NFRAME
    <3>1. PICK k \in 0 .. NFRAME - 1 : i = NFRAME - k - 1
      <4>1. NFRAME - i - 1 \in 0 .. NFRAME - 1 /\ i = NFRAME - (NFRAME - i - 1) - 1
        BY <1>0, <2>2
      <4> QED BY <4>1, Zenon
    <3>2. h[i] = f[k + 1] /\ h[i + 1] = f[k] /\ i + 1 \in 0 .. NFRAME
      BY <1>0, <3>1
    <3>3. f[k + 1] = IF fl[i] = FREE THEN i ELSE f[k]
      <4>1. f[k] \in 0 .. NFRAME
        BY <1>0
      <4>2. g[k][f[k]] = IF fl[NFRAME - k - 1] = FREE THEN NFRAME - k - 1 ELSE f[k]
        BY <1>1, <4>1, Zenon
      <4> QED BY <1>2, <3>1, <4>2, Zenon
    <3> QED BY <2>2, <3>2, <3>3, Zenon
  <2> QED BY <2>1, <2>2, Zenon
<1>5. h = Loop(h)
  <2> HIDE DEF h
  <2> QED BY <1>3, <1>4, Zenon
<1> DEFINE from[i \in 0 .. NFRAME] == IF i = NFRAME \/ fl[i] = FREE THEN i ELSE from[i + 1]
<1>6. from = CHOOSE x : x = Loop(x)
  BY Zenon DEF from
<1>7. FirstFit(fl) = from[0]
  BY Zenon DEF FirstFit
<1> HIDE DEF from, h
<1>8. from = Loop(from)
  <2> HIDE DEF Loop
  <2> QED BY <1>5, <1>6, Zenon
<1>9. \A i \in 0 .. NFRAME :
        from[i] = IF i = NFRAME \/ fl[i] = FREE THEN i ELSE from[i + 1]
  BY <1>8, Zenon
<1> QED BY <1>7, <1>9, Zenon

\* It finds the lowest free frame, if there is one.
LEMMA FirstFitFinds ==
  ASSUME NEW fl \in [Frame -> Nat], NEW i \in Frame
  PROVE  FirstFit(fl) = i <=> IsFirstFree(fl, i)
<1>0. NFRAME \in Nat \ {0}
  BY NFrameAssumption, Zenon
<1>1. PICK from :
        /\ FirstFit(fl) = from[0]
        /\ \A j \in 0 .. NFRAME :
             from[j] = IF j = NFRAME \/ fl[j] = FREE THEN j ELSE from[j + 1]
  BY FirstFitLoop, Zenon
<1> DEFINE Found(j) == /\ from[j] \in j .. NFRAME
                       /\ from[j] # NFRAME => fl[from[j]] = FREE
                       /\ \A m \in j .. NFRAME - 1 : m < from[j] => fl[m] # FREE
           S == {k \in 0 .. NFRAME : Found(NFRAME - k)}
<1>2. 0 \in S
  BY <1>0, <1>1
<1>3. ASSUME NEW k \in 0 .. NFRAME - 1, k \in S PROVE k + 1 \in S
  <2>1. PICK j \in 0 .. NFRAME - 1 : j = NFRAME - (k + 1) /\ j + 1 = NFRAME - k
    BY <1>0
  <2>2. Found(j + 1)
    BY <1>3, <2>1, Zenon
  <2>3. from[j] = IF fl[j] = FREE THEN j ELSE from[j + 1]
    BY <1>0, <1>1, <2>1
  <2>4. Found(j)
    BY <1>0, <2>1, <2>2, <2>3
  <2> QED BY <1>0, <2>1, <2>4
<1>4. Found(0)
  <2>1. NFRAME \in S
    <3> HIDE DEF S
    <3> QED BY <1>0, <1>2, <1>3, Induction
  <2> QED BY <1>0, <2>1
<1> QED BY <1>0, <1>1, <1>4 DEF IsFirstFree, Frame

-----------------------------------------------------------------------------
ScanState == [potstart : Int, potnum : Int, maxstart : Int, maxnum : Int]

\* What CloseRun makes of a run.
LEMMA CloseRunResult ==
  ASSUME NEW s \in ScanState, s.potstart # -1
  PROVE  /\ CloseRun(s) \in ScanState /\ CloseRun(s).potstart = -1
         /\ s.potnum > s.maxnum => /\ CloseRun(s).maxstart = s.potstart
                                   /\ CloseRun(s).maxnum = s.potnum
         /\ ~(s.potnum > s.maxnum) => /\ CloseRun(s).maxstart = s.maxstart
                                      /\ CloseRun(s).maxnum = s.maxnum
<1>1. CASE s.potnum > s.maxnum
  <2>1. CloseRun(s) = [s EXCEPT !.maxstart = s.potstart, !.maxnum = s.potnum, !.potstart = -1]
    BY <1>1, Zenon DEF CloseRun
  <2>2. CloseRun(s) = [potstart |-> -1, potnum |-> s.potnum,
                       maxstart |-> s.potstart, maxnum |-> s.potnum]
    BY <2>1, Zenon DEF ScanState
  <2> QED BY <1>1, <2>2 DEF ScanState
<1>2. CASE ~(s.potnum > s.maxnum)
  <2>1. CloseRun(s) = [s EXCEPT !.potstart = -1]
    BY <1>2, Zenon DEF CloseRun
  <2>2. CloseRun(s) = [potstart |-> -1, potnum |-> s.potnum,
                       maxstart |-> s.maxstart, maxnum |-> s.maxnum]
    BY <2>1, Zenon DEF ScanState
  <2> QED BY <1>2, <2>2 DEF ScanState
<1> QED BY <1>1, <1>2, Zenon

LEMMA RoundType ==
  ASSUME NEW fl, NEW i \in Int, NEW s \in ScanState
  PROVE  Round(fl, i, s) \in ScanState
<1>1. PICK t, u : /\ t = [s EXCEPT !.potnum = @ + 1]
                  /\ u = [s EXCEPT !.potstart = i, !.potnum = 1]
  OBVIOUS
<1>2. t \in ScanState /\ t.potstart = s.potstart
  BY <1>1 DEF ScanState
<1>3. u \in ScanState
  <2>1. u = [potstart |-> i, potnum |-> 1, maxstart |-> s.maxstart, maxnum |-> s.maxnum]
    BY <1>1, Zenon DEF ScanState
  <2> QED BY <2>1 DEF ScanState
<1>4. s.potstart = -1 => CloseRun(s) = s
  BY Zenon DEF CloseRun
<1> QED BY <1>1, <1>2, <1>3, <1>4, CloseRunResult, Zenon DEF Round

\* The search for the biggest run goes through the states its rounds give.
LEMMA ScanLoop ==
  ASSUME NEW fl \in [Frame -> Nat]
  PROVE  \E after \in [0 .. NFRAME -> ScanState] :
           /\ Scan(fl) = after[NFRAME]
           /\ after[0] = StartScan
           /\ \A i \in 0 .. NFRAME - 1 : after[i + 1] = Round(fl, i, after[i])
<1> DEFINE g == [i \in 0 .. NFRAME - 1 |-> [s \in ScanState |-> Round(fl, i, s)]]
           Loop(h) == [i \in 0 .. NFRAME |->
                         IF i = 0 THEN StartScan ELSE Round(fl, i - 1, h[i - 1])]
<1>0. NFRAME \in Nat \ {0}
  BY NFrameAssumption, Zenon
<1>1. /\ g \in [0 .. NFRAME - 1 -> [ScanState -> ScanState]]
      /\ \A i \in 0 .. NFRAME - 1, s \in ScanState : g[i][s] = Round(fl, i, s)
  <2>1. \A i \in 0 .. NFRAME - 1, s \in ScanState : Round(fl, i, s) \in ScanState
    BY <1>0, RoundType
  <2> QED BY <2>1, Zenon
<1> HIDE DEF g
<1>2. PICK f : IsHistory(NFRAME, ScanState, StartScan, g, f)
  <2>1. NFRAME \in Nat /\ StartScan \in ScanState
    BY <1>0 DEF StartScan, ScanState
  <2>2. IsLoop(NFRAME, ScanState, StartScan, g)
    BY <1>1, <2>1, Zenon DEF IsLoop
  <2> QED BY <2>2, History, Zenon
<1>3. /\ f \in [0 .. NFRAME -> ScanState] /\ f[0] = StartScan
      /\ \A i \in 0 .. NFRAME - 1 : f[i + 1] = Round(fl, i, f[i])
  <2>1. /\ f \in [0 .. NFRAME -> ScanState] /\ f[0] = StartScan
        /\ \A i \in 0 .. NFRAME - 1 : f[i + 1] = g[i][f[i]]
    BY <1>2, Zenon DEF IsHistory
  <2>2. \A i \in 0 .. NFRAME - 1 : f[i] \in ScanState
    BY <1>0, <2>1
  <2> QED BY <1>1, <2>1, <2>2, Zenon
<1>4. f = Loop(f)
  <2>1. ASSUME NEW i \in 0 .. NFRAME
        PROVE  f[i] = IF i = 0 THEN StartScan ELSE Round(fl, i - 1, f[i - 1])
    <3>1. CASE i = 0
      BY <1>3, <3>1, Zenon
    <3>2. CASE i # 0
      <4>1. i - 1 \in 0 .. NFRAME - 1 /\ (i - 1) + 1 = i
        BY <1>0, <3>2
      <4> QED BY <1>3, <3>2, <4>1, Zenon
    <3> QED BY <3>1, <3>2, Zenon
  <2> QED BY <1>3, <2>1, Zenon
<1> DEFINE after[i \in 0 .. NFRAME] ==
             IF i = 0 THEN StartScan ELSE Round(fl, i - 1, after[i - 1])
<1>5. after = CHOOSE x : x = Loop(x)
  BY Zenon DEF after
<1>6. Scan(fl) = after[NFRAME]
  BY Zenon DEF Scan
<1> HIDE DEF after
<1>7. after = Loop(after)
  <2> HIDE DEF Loop
  <2> QED BY <1>4, <1>5, Zenon
<1>8. /\ after[0] = StartScan
      /\ \A i \in 0 .. NFRAME - 1 : after[i + 1] = Round(fl, i, after[i])
  <2>1. \A i \in 0 .. NFRAME :
          after[i] = IF i = 0 THEN StartScan ELSE Round(fl, i - 1, after[i - 1])
    BY <1>7, Zenon
  <2>2. ASSUME NEW i \in 0 .. NFRAME - 1 PROVE after[i + 1] = Round(fl, i, after[i])
    <3>1. i + 1 \in 0 .. NFRAME /\ i + 1 # 0 /\ (i + 1) - 1 = i
      BY <1>0
    <3> QED BY <2>1, <3>1, Zenon
  <2>3. 0 \in 0 .. NFRAME
    BY <1>0
  <2> QED BY <2>1, <2>2, <2>3, Zenon
<1>9. after \in [0 .. NFRAME -> ScanState]
  <2> DEFINE S == {i \in 0 .. NFRAME : after[i] \in ScanState}
  <2>1. 0 \in S
    BY <1>0, <1>8 DEF StartScan, ScanState
  <2>2. ASSUME NEW i \in 0 .. NFRAME - 1, i \in S PROVE i + 1 \in S
    <3>1. after[i + 1] \in ScanState
      BY <1>0, <1>8, <2>2, RoundType
    <3> QED BY <1>0, <3>1
  <2>3. 0 .. NFRAME \subseteq S
    <3> HIDE DEF S
    <3> QED BY <1>0, <2>1, <2>2, Induction, Zenon
  <2>4. \A i \in 0 .. NFRAME : after[i] \in ScanState
    BY <2>3, Zenon
  <2> QED BY <1>7, <2>4, Zenon
<1> QED BY <1>6, <1>8, <1>9, Zenon

\* <<ms, mn>> is the leftmost longest of the measured runs that start below b.
BestBelow(fl, b, ms, mn) ==
  /\ ms \in Int /\ mn \in Int /\ ms < b
  /\ (ms = -1 /\ mn = 0) \/ [start |-> ms, num |-> mn] \in MeasuredRuns(fl)
  /\ \A q \in MeasuredRuns(fl) :
       q.start < b => q.num < mn \/ (q.num = mn /\ q.start >= ms)

\* The search before round i: it has seen every run below i, or is in the
\* middle of one and has seen those before it.
ScanInv(fl, i, s) ==
  \/ /\ s.potstart = -1
     /\ BestBelow(fl, i, s.maxstart, s.maxnum)
     /\ i > 0 /\ i < NFRAME => fl[i - 1] # FREE
  \/ /\ s.potstart \in 0 .. i - 1
     /\ s.potnum = i - s.potstart
     /\ \A j \in s.potstart .. i - 1 : fl[j] = FREE
     /\ s.potstart > 0 => fl[s.potstart - 1] # FREE
     /\ BestBelow(fl, s.potstart, s.maxstart, s.maxnum)
     /\ i = NFRAME => s.potstart = NFRAME - 1

\* A measured run, by its first frame and its length.
LEMMA MeasuredRun ==
  ASSUME NEW fl, NEW q
  PROVE  q \in MeasuredRuns(fl) <=>
           /\ q \in [start : Frame, num : 1 .. NFRAME]
           /\ q.start < NFRAME - 1 /\ q.start + q.num <= NFRAME
           /\ \A i \in Frame : q.start <= i /\ i < q.start + q.num => fl[i] = FREE
           /\ q.start > 0 => fl[q.start - 1] # FREE
           /\ q.start + q.num < NFRAME => fl[q.start + q.num] # FREE
BY NFrameAssumption DEF MeasuredRuns, IsFreeRun, Run, Frame

\* The end e of a run that starts at p.
LEMMA RunEnds ==
  ASSUME NEW fl, NEW p \in Frame, NEW e \in p + 1 .. NFRAME, p < NFRAME - 1,
         \A j \in p .. e - 1 : fl[j] = FREE, p > 0 => fl[p - 1] # FREE,
         e < NFRAME => fl[e] # FREE,
         NEW ms, NEW mn, BestBelow(fl, p, ms, mn), NEW b \in p + 1 .. e + 1
  PROVE  /\ e - p > mn => BestBelow(fl, b, p, e - p)
         /\ ~(e - p > mn) => BestBelow(fl, b, ms, mn)
<1>0. NFRAME \in Nat \ {0} /\ p \in 0 .. NFRAME - 1 /\ ms \in Int /\ mn \in Int /\ ms < p
  BY NFrameAssumption, Zenon DEF Frame, BestBelow
<1>1. PICK r : r = [start |-> p, num |-> e - p]
  OBVIOUS
<1>2. r \in MeasuredRuns(fl)
  <2>1. r.start = p /\ r.num = e - p /\ r \in [start : Frame, num : 1 .. NFRAME]
    BY <1>0, <1>1
  <2> QED BY <1>0, <2>1, MeasuredRun DEF Frame
<1>3. ASSUME NEW q \in MeasuredRuns(fl), q.start < b
      PROVE  q.start < p \/ (q.start = p /\ q.num = e - p)
  <2>1. /\ q.start \in 0 .. NFRAME - 1 /\ q.num \in 1 .. NFRAME
        /\ q.start + q.num <= NFRAME
        /\ \A i \in 0 .. NFRAME - 1 : q.start <= i /\ i < q.start + q.num => fl[i] = FREE
        /\ q.start > 0 => fl[q.start - 1] # FREE
        /\ q.start + q.num < NFRAME => fl[q.start + q.num] # FREE
    BY <1>3, MeasuredRun DEF Frame
  <2>2. ~(q.start \in p + 1 .. e - 1)
    BY <1>0, <2>1
  <2>3. q.start # e
    BY <1>0, <2>1
  <2>4. q.start <= p
    BY <1>0, <1>3, <2>1, <2>2, <2>3
  <2>5. ASSUME q.start = p PROVE q.num = e - p
    BY <1>0, <2>1, <2>5
  <2> QED BY <1>0, <2>1, <2>4, <2>5
<1>4. \A q \in MeasuredRuns(fl) : q.start < p => q.num < mn \/ (q.num = mn /\ q.start >= ms)
  BY Zenon DEF BestBelow
<1>5. \A q \in MeasuredRuns(fl) : q.num \in Int /\ q.start \in Int
  BY <1>0, MeasuredRun DEF Frame
<1>6. ASSUME e - p > mn PROVE BestBelow(fl, b, p, e - p)
  BY <1>0, <1>1, <1>2, <1>3, <1>4, <1>5, <1>6 DEF BestBelow
<1>7. ASSUME ~(e - p > mn) PROVE BestBelow(fl, b, ms, mn)
  BY <1>0, <1>3, <1>4, <1>5, <1>7 DEF BestBelow
<1> QED BY <1>6, <1>7, Zenon

LEMMA RoundKeeps ==
  ASSUME NEW fl \in [Frame -> Nat], NEW i \in 0 .. NFRAME - 1, NEW s \in ScanState,
         ScanInv(fl, i, s)
  PROVE  ScanInv(fl, i + 1, Round(fl, i, s))
<1>0. NFRAME \in Nat \ {0} /\ i \in Frame /\ i \in Int
  BY NFrameAssumption DEF Frame
<1>1. PICK t : t = Round(fl, i, s)
  OBVIOUS
<1>2. CASE s.potstart = -1 /\ fl[i] # FREE
  <2>1. t = s
    BY <1>1, <1>2, Zenon DEF Round, CloseRun
  <2>2. BestBelow(fl, i, s.maxstart, s.maxnum)
    BY <1>0, <1>2 DEF ScanInv
  <2>3. \A q \in MeasuredRuns(fl) : q.start \in Int /\ q.start # i
    BY <1>0, <1>2, MeasuredRun DEF Frame
  <2>4. BestBelow(fl, i + 1, s.maxstart, s.maxnum)
    BY <1>0, <2>2, <2>3 DEF BestBelow
  <2>5. (i + 1) - 1 = i
    BY <1>0
  <2> QED BY <1>1, <1>2, <2>1, <2>4, <2>5, Zenon DEF ScanInv
<1>3. CASE s.potstart = -1 /\ fl[i] = FREE
  <2>1. t = [s EXCEPT !.potstart = i, !.potnum = 1]
    BY <1>1, <1>3, Zenon DEF Round
  <2>2. t.potstart = i /\ t.potnum = 1 /\ t.maxstart = s.maxstart /\ t.maxnum = s.maxnum
    BY <2>1, Zenon DEF ScanState
  <2>3. BestBelow(fl, i, s.maxstart, s.maxnum) /\ (i > 0 => fl[i - 1] # FREE)
    BY <1>0, <1>3 DEF ScanInv
  <2> QED BY <1>0, <1>1, <1>3, <2>2, <2>3 DEF ScanInv
<1>4. ASSUME s.potstart # -1 PROVE ScanInv(fl, i + 1, t)
  <2>1. /\ s.potstart \in 0 .. i - 1
        /\ s.potnum = i - s.potstart
        /\ \A j \in s.potstart .. i - 1 : fl[j] = FREE
        /\ s.potstart > 0 => fl[s.potstart - 1] # FREE
        /\ BestBelow(fl, s.potstart, s.maxstart, s.maxnum)
    BY <1>4, Zenon DEF ScanInv
  <2>2. PICK p, ms, mn : p = s.potstart /\ ms = s.maxstart /\ mn = s.maxnum
    OBVIOUS
  <2>3. p \in 0 .. i - 1 /\ p \in Frame /\ p < NFRAME - 1 /\ s.potnum = i - p
        /\ p # -1
    BY <1>0, <2>1, <2>2 DEF Frame
  <2>4. CASE fl[i] # FREE
    <3>1. /\ t \in ScanState /\ t.potstart = -1
          /\ i - p > mn => t.maxstart = p /\ t.maxnum = i - p
          /\ ~(i - p > mn) => t.maxstart = ms /\ t.maxnum = mn
      <4>1. t = CloseRun(s)
        BY <1>1, <2>4, Zenon DEF Round
      <4> QED BY <1>4, <2>2, <2>3, <4>1, CloseRunResult, Zenon
    <3>2. /\ i - p > mn => BestBelow(fl, i + 1, p, i - p)
          /\ ~(i - p > mn) => BestBelow(fl, i + 1, ms, mn)
      <4>1. i \in p + 1 .. NFRAME /\ i + 1 \in p + 1 .. i + 1
        BY <1>0, <2>3
      <4> QED BY <2>1, <2>2, <2>3, <2>4, <4>1, RunEnds, Zenon
    <3>3. (i + 1) - 1 = i
      BY <1>0
    <3> QED BY <2>4, <3>1, <3>2, <3>3, Zenon DEF ScanInv
  <2>5. CASE fl[i] = FREE /\ i < NFRAME - 1
    <3>1. t = [s EXCEPT !.potnum = @ + 1]
      BY <1>1, <1>4, <2>5, Zenon DEF Round
    <3>2. /\ t.potstart = p /\ t.potnum = i + 1 - p
          /\ t.maxstart = ms /\ t.maxnum = mn
      BY <1>0, <2>2, <2>3, <3>1 DEF ScanState
    <3>3. \A j \in p .. (i + 1) - 1 : fl[j] = FREE
      BY <1>0, <2>1, <2>2, <2>3, <2>5
    <3>4. p \in 0 .. (i + 1) - 1 /\ i + 1 # NFRAME
      BY <1>0, <2>3, <2>5
    <3> QED BY <2>1, <2>2, <3>2, <3>3, <3>4 DEF ScanInv
  <2>6. CASE fl[i] = FREE /\ ~(i < NFRAME - 1)
    <3>1. PICK u, e : u = [s EXCEPT !.potnum = @ + 1] /\ e = i + 1
      OBVIOUS
    <3>2. /\ u \in ScanState /\ u.potstart = p /\ u.potnum = e - p
          /\ u.maxstart = ms /\ u.maxnum = mn
      BY <1>0, <2>2, <2>3, <3>1 DEF ScanState
    <3>3. t = CloseRun(u)
      BY <1>1, <1>4, <2>6, <3>1, Zenon DEF Round
    <3>4. /\ t.potstart = -1
          /\ e - p > mn => t.maxstart = p /\ t.maxnum = e - p
          /\ ~(e - p > mn) => t.maxstart = ms /\ t.maxnum = mn
      BY <2>3, <3>2, <3>3, CloseRunResult, Zenon
    <3>6. e = NFRAME /\ e \in p + 1 .. NFRAME /\ e \in p + 1 .. e + 1
      BY <1>0, <2>3, <2>6, <3>1
    <3>7. \A j \in p .. e - 1 : fl[j] = FREE
      BY <1>0, <2>1, <2>2, <2>3, <2>6, <3>1
    <3>8. ~(e < NFRAME)
      BY <1>0, <3>6
    <3>9. /\ e - p > mn => BestBelow(fl, e, p, e - p)
          /\ ~(e - p > mn) => BestBelow(fl, e, ms, mn)
      BY <2>1, <2>2, <2>3, <3>6, <3>7, <3>8, RunEnds, Zenon
    <3>10. BestBelow(fl, e, t.maxstart, t.maxnum)
      BY <3>4, <3>9, Zenon
    <3> QED BY <3>1, <3>4, <3>8, <3>10, Zenon DEF ScanInv
  <2> QED BY <2>4, <2>5, <2>6, Zenon
<1> QED BY <1>1, <1>2, <1>3, <1>4, Zenon

\* The search finds the leftmost longest run.
LEMMA ScanFinds ==
  ASSUME NEW fl \in [Frame -> Nat]
  PROVE  [start |-> Scan(fl).maxstart, num |-> Scan(fl).maxnum] = BiggestRun(fl)
<1>0. NFRAME \in Nat \ {0}
  BY NFrameAssumption, Zenon
<1>1. PICK after \in [0 .. NFRAME -> ScanState] :
        /\ Scan(fl) = after[NFRAME]
        /\ after[0] = StartScan
        /\ \A i \in 0 .. NFRAME - 1 : after[i + 1] = Round(fl, i, after[i])
  BY ScanLoop, Zenon
<1> DEFINE S == {i \in 0 .. NFRAME : ScanInv(fl, i, after[i])}
<1>2. 0 \in S
  <2>1. BestBelow(fl, 0, -1, 0)
    BY <1>0, MeasuredRun DEF BestBelow, Frame
  <2>2. ScanInv(fl, 0, after[0])
    BY <1>1, <2>1 DEF ScanInv, StartScan
  <2> QED BY <1>0, <2>2
<1>3. ASSUME NEW i \in 0 .. NFRAME - 1, i \in S PROVE i + 1 \in S
  <2>1. after[i] \in ScanState /\ after[i + 1] = Round(fl, i, after[i]) /\ i + 1 \in 0 .. NFRAME
    BY <1>0, <1>1
  <2>2. ScanInv(fl, i + 1, after[i + 1])
    BY <1>3, <2>1, RoundKeeps, Zenon
  <2> QED BY <2>1, <2>2, Zenon
<1>4. ScanInv(fl, NFRAME, after[NFRAME])
  <2>1. 0 .. NFRAME \subseteq S
    <3> HIDE DEF S
    <3> QED BY <1>0, <1>2, <1>3, Induction, Zenon
  <2> QED BY <1>0, <2>1
<1>5. PICK ms, mn : ms = Scan(fl).maxstart /\ mn = Scan(fl).maxnum
  OBVIOUS
<1>6. PICK b : b \in {NFRAME, NFRAME - 1} /\ BestBelow(fl, b, ms, mn)
  BY <1>1, <1>4, <1>5, Zenon DEF ScanInv
<1>7. /\ \A q \in MeasuredRuns(fl) : q.num < mn \/ (q.num = mn /\ q.start >= ms)
      /\ \/ ms = -1 /\ mn = 0
         \/ [start |-> ms, num |-> mn] \in MeasuredRuns(fl)
      /\ ms \in Int /\ mn \in Int
  <2>1. \A q \in MeasuredRuns(fl) : q.start < b
    BY <1>0, <1>6, MeasuredRun DEF Frame
  <2> QED BY <1>6, <2>1, Zenon DEF BestBelow
<1> DEFINE runs == MeasuredRuns(fl)
           biggest == {r \in runs : \A q \in runs :
                         q.num < r.num \/ (q.num = r.num /\ q.start >= r.start)}
<1>8. BiggestRun(fl) = IF biggest = {} THEN NoRun ELSE CHOOSE r \in biggest : TRUE
  BY Zenon DEF BiggestRun
<1>9. \A q \in runs : q \in [start : Frame, num : 1 .. NFRAME] /\ q.num \in 1 .. NFRAME
                      /\ q.start \in 0 .. NFRAME - 1
  BY MeasuredRun DEF Frame
<1>10. PICK best : best = [start |-> ms, num |-> mn]
  OBVIOUS
<1>11. CASE ms = -1 /\ mn = 0
  <2>1. runs = {}
    BY <1>0, <1>7, <1>9, <1>11
  <2>2. best = NoRun
    BY <1>10, <1>11, Zenon DEF NoRun
  <2> QED BY <1>5, <1>8, <1>10, <2>1, <2>2, Zenon
<1>12. CASE best \in runs
  <2>1. best.start = ms /\ best.num = mn
    BY <1>10, Zenon
  <2>2. best \in biggest
    BY <1>7, <1>12, <2>1, Zenon
  <2>3. ASSUME NEW r \in biggest PROVE r = best
    <3>1. r.start = ms /\ r.num = mn
      BY <1>0, <1>7, <1>9, <1>12, <2>1, <2>3
    <3> QED BY <1>9, <1>10, <2>3, <3>1, Zenon
  <2> HIDE DEF biggest
  <2> QED BY <1>5, <1>8, <1>10, <2>2, <2>3, Zenon
<1> QED BY <1>7, <1>10, <1>11, <1>12, Zenon

\* Whatever frame list the processes can leave, the loops of allocframes()
\* find in it what Frames says the function returns.
THEOREM ScanComputesAllocframes == Spec => []ScanIsAllocframes
<1>1. ASSUME IInv PROVE ScanIsAllocframes
  <2>1. flist \in [Frame -> Nat] /\ nextpid \in Nat /\ \A p \in Slot : pid[p] \in Nat
    BY <1>1, Zenon DEF IInv, TypeOK
  <2>2. ASSUME NEW caller \in {pid[p] : p \in Slot \cap {proc}} \cup {nextpid}
        PROVE  LET fl == freeframes(flist, caller)
                   s == Scan(fl)
               IN  /\ [start |-> s.maxstart, num |-> s.maxnum] = BiggestRun(fl)
                   /\ \A i \in Frame : FirstFit(fl) = i <=> IsFirstFree(fl, i)
    <3>1. caller \in Nat
      BY <2>1, Zenon
    <3>2. freeframes(flist, caller) \in [Frame -> Nat]
      BY <2>1, <3>1, FreeframesResult, Zenon
    <3> QED BY <3>2, ScanFinds, FirstFitFinds, Zenon
  <2> QED BY <2>2, Zenon DEF ScanIsAllocframes
<1> QED BY <1>1, Inductive, PTL
=============================================================================
