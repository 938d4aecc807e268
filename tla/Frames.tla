------------------------------- MODULE Frames -------------------------------
(***************************************************************************)
(* The frame allocator of kern/frames.c.  Expansion RAM is NFRAME frames   *)
(* of 64K; flist[i] is the pid of the process that owns frame i, or FREE.  *)
(* A process owns a contiguous run of frames, because the hardware maps    *)
(* its address space with one base register.                               *)
(*                                                                         *)
(* The functions of the file are given here by what they return, as        *)
(* operators on a frame list.  Module FrameScan has the loops of           *)
(* allocframes() one iteration at a time, and shows that they compute      *)
(* allocframes below.                                                      *)
(***************************************************************************)
EXTENDS Integers

CONSTANT NFRAME

ASSUME NFrameAssumption == NFRAME \in Nat \ {0}

FREE == 0
Frame == 0 .. NFRAME - 1

\* The frames first, first+1, ..., first+num-1.
Run(first, num) == first .. first + num - 1

-----------------------------------------------------------------------------
\* Mutants: nothing is freed; younger processes lose their frames too.
freeframesNone(fl, pid) == fl
freeframesYounger(fl, pid) == [i \in Frame |-> IF fl[i] >= pid THEN FREE ELSE fl[i]]

\* The frame list after every frame of pid has been given back.
freeframes(fl, pid) == [i \in Frame |-> IF fl[i] = pid THEN FREE ELSE fl[i]]

\* The lowest free frame.
IsFirstFree(fl, i) ==
  /\ i \in Frame
  /\ fl[i] = FREE
  /\ \A j \in Frame : j < i => fl[j] # FREE

\* A run of num >= 1 free frames that cannot be extended at either end.
IsFreeRun(fl, first, num) ==
  /\ first \in Frame
  /\ num \in 1 .. NFRAME - first
  /\ \A i \in Run(first, num) : fl[i] = FREE
  /\ first > 0 => fl[first - 1] # FREE
  /\ first + num < NFRAME => fl[first + num] # FREE

\* The runs the scan measures.  It does so only after the first frame of a
\* run has been passed, so a run that starts at the last frame never is.
MeasuredRuns(fl) ==
  {r \in [start : Frame, num : 1 .. NFRAME] :
     IsFreeRun(fl, r.start, r.num) /\ r.start < NFRAME - 1}

NoRun == [start |-> -1, num |-> 0]

\* The run the scan settles on: the leftmost of the longest it measured.
BiggestRun(fl) ==
  LET runs == MeasuredRuns(fl)
      biggest == {r \in runs : \A q \in runs :
                    q.num < r.num \/ (q.num = r.num /\ q.start >= r.start)}
  IN  IF biggest = {} THEN NoRun ELSE CHOOSE r \in biggest : TRUE

\* Mutant: the loop that marks the frames stops one short.
TakeOneLess(fl, pid, first, num) ==
  [i \in Frame |-> IF i \in Run(first, num - 1) THEN pid ELSE fl[i]]

\* Give the frames of a run to pid.
Take(fl, pid, first, num) ==
  [i \in Frame |-> IF i \in Run(first, num) THEN pid ELSE fl[i]]

\* allocframes(): the new frame list and the base register, -1 on failure.
\* Frames the process already owns count as free; when the request cannot be
\* met they are all handed back to it.
allocframes(fl, pid, nframes) ==
  LET mine == freeframes(fl, pid)
      run == BiggestRun(mine)
      failed == [flist |-> fl, basereg |-> -1]
  IN  IF nframes = 1
        THEN IF \E i \in Frame : IsFirstFree(mine, i)
               THEN LET i == CHOOSE i \in Frame : IsFirstFree(mine, i)
                    IN  [flist |-> Take(mine, pid, i, 1), basereg |-> i]
               ELSE failed
        ELSE IF run.num >= nframes
               THEN [flist |-> Take(mine, pid, run.start, nframes),
                     basereg |-> run.start]
               ELSE failed
=============================================================================
