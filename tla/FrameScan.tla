----------------------------- MODULE FrameScan -----------------------------
(***************************************************************************)
(* The loops of allocframes() in kern/frames.c, round by round, on the     *)
(* frame lists that the processes of Proc make.  Frames says what the      *)
(* function returns; here is how it finds it.                              *)
(***************************************************************************)
EXTENDS Proc

\* The search for a single frame: the first index from i on with a free
\* frame, NFRAME if there is none.
FirstFit(fl) ==
  LET from[i \in 0 .. NFRAME] ==
        IF i = NFRAME \/ fl[i] = FREE THEN i ELSE from[i + 1]
  IN  from[0]

\* The variables of the search for the biggest run, before its loop.
StartScan == [potstart |-> -1, potnum |-> 0, maxstart |-> -1, maxnum |-> 0]

\* The end of the potential run, if there is one: keep it if it is the
\* biggest so far.
CloseRun(s) ==
  IF s.potstart = -1 THEN s
  ELSE IF s.potnum > s.maxnum
    THEN [s EXCEPT !.maxstart = s.potstart, !.maxnum = s.potnum, !.potstart = -1]
    ELSE [s EXCEPT !.potstart = -1]

\* Mutant: a run that reaches the last frame is not looked at.
RoundForgetsLast(fl, i, s) ==
  IF fl[i] # FREE THEN CloseRun(s)
  ELSE IF s.potstart = -1 THEN [s EXCEPT !.potstart = i, !.potnum = 1]
  ELSE [s EXCEPT !.potnum = @ + 1]

\* Round i of the loop: a frame in use ends a run, a free one starts or
\* extends it, and the last frame also ends a run it extends.
Round(fl, i, s) ==
  IF fl[i] # FREE THEN CloseRun(s)
  ELSE IF s.potstart = -1 THEN [s EXCEPT !.potstart = i, !.potnum = 1]
  ELSE IF i < NFRAME - 1 THEN [s EXCEPT !.potnum = @ + 1]
  ELSE CloseRun([s EXCEPT !.potnum = @ + 1])

Scan(fl) ==
  LET after[i \in 0 .. NFRAME] ==
        IF i = 0 THEN StartScan ELSE Round(fl, i - 1, after[i - 1])
  IN  after[NFRAME]

-----------------------------------------------------------------------------
\* Whatever frames fork, exec and exit have left in use, the loops of
\* allocframes() find what the operator allocframes says, for an exec of the
\* running process and for a new one: the lowest free frame, and the leftmost
\* longest run.
ScanIsAllocframes ==
  \A caller \in {pid[p] : p \in Slot \cap {proc}} \cup {nextpid} :
    LET fl == freeframes(flist, caller)
        s == Scan(fl)
    IN  /\ [start |-> s.maxstart, num |-> s.maxnum] = BiggestRun(fl)
        /\ \A i \in Frame : FirstFit(fl) = i <=> IsFirstFree(fl, i)
=============================================================================
