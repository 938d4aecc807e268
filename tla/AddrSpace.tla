----------------------------- MODULE AddrSpace -----------------------------
(***************************************************************************)
(* The memory of processes: copyaddrspace(), sys_brk() and sys_sbrk() of   *)
(* kern/proc.c, and the loading of a program by sys_exec() in kern/exec.c, *)
(* added to the calls of Proc.                                             *)
(*                                                                         *)
(* A frame has CELLS cells.  A process sees its frames at addresses from   *)
(* START on: text, data, bss and heap from the bottom, and the stack in    *)
(* the last cell.  A cell is JUNK or the pid of the process that wrote it, *)
(* and uses[p] says what p has written, or inherited, where.               *)
(***************************************************************************)
EXTENDS Proc

CONSTANTS
  CELLS,    \* cells in a frame
  START,    \* START_ADDR, 0x100000
  WORD      \* addresses are unsigned integers below WORD

JUNK == 0
Cell == 0 .. NFRAME * CELLS - 1

VARIABLES
  curbrk, bssend,   \* fields of struct proc
  mem,              \* the contents of the frames
  uses              \* history: of each process, what its cells should hold

spaceVars == <<curbrk, bssend, mem, uses>>
allVars == <<vars, spaceVars>>

\* The cells of p, by offset from its base.
Bottom(p) == basereg[p] * CELLS
StackCell(n) == n * CELLS - 1
Offset(n) == 0 .. StackCell(n)

\* What a program of n frames has in memory when it starts, with e the end of
\* its bss.
Loaded(a, n, e) == [k \in Offset(n) |-> IF k < e \/ k = StackCell(n) THEN a ELSE JUNK]

\* The memory m once the cells of u have been written at bottom.
Store(m, bottom, u) ==
  [c \in Cell |-> IF c - bottom \in DOMAIN u /\ u[c - bottom] # JUNK
                    THEN u[c - bottom] ELSE m[c]]

\* memmove() of count cells.  It takes a count of WORD \div 2 or more for a
\* negative one, and copies as many cells as its low 16 bits say, less than a
\* frame.
memmove(m, dst, src, count) ==
  LET n == IF count < WORD \div 2 THEN count ELSE count % CELLS
  IN  [c \in Cell |-> IF c \notin dst .. dst + n - 1 THEN m[c]
                      ELSE IF c - dst + src \in Cell THEN m[c - dst + src] ELSE JUNK]

\* Bss ends where it can in a program of n frames: below the stack.
BssEnds(n) == 1 .. StackCell(n)

\* ptable is zero when the kernel starts.
SpaceInit ==
  /\ Init
  /\ \E e \in BssEnds(nframes[initproc]) :
       /\ curbrk = [p \in Slot |-> IF p = initproc THEN START + e ELSE 0]
       /\ bssend = curbrk
       /\ uses = [p \in Slot |-> IF p = initproc
                    THEN Loaded(1, nframes[p], e) ELSE <<>>]
       /\ mem = Store([c \in Cell |-> JUNK], 0, uses[initproc])

-----------------------------------------------------------------------------
\* copyaddrspace(): all below the brk, as p's entry has it, then the stack.
copyaddrspace(p, np) ==
  LET txtcnt == (curbrk[p] - START) % WORD
      dst == basereg'[np] * CELLS
      stack == StackCell(nframes'[np])
  IN  mem' = memmove(memmove(mem, dst, Bottom(p), txtcnt),
                     dst + stack, Bottom(p) + stack, 1)

\* The child starts with what its parent has.  Its entry keeps the curbrk and
\* bssend of the process that had the slot before.
Fork(p) ==
  /\ sys_fork(p)
  /\ \/ state' = state /\ UNCHANGED <<mem, uses>>
     \/ \E np \in Slot :
          /\ state'[np] # state[np]
          /\ copyaddrspace(p, np)
          /\ uses' = [uses EXCEPT ![np] = uses[p]]
  /\ UNCHANGED <<curbrk, bssend>>

Exec(p, n, e) ==
  /\ sys_exec(p, n)
  /\ IF allocframes(flist, pid[p], n).basereg = -1
       THEN UNCHANGED spaceVars
       ELSE /\ curbrk' = [curbrk EXCEPT ![p] = START + e]
            /\ bssend' = [bssend EXCEPT ![p] = START + e]
            /\ uses' = [uses EXCEPT ![p] = Loaded(pid[p], n, e)]
            /\ mem' = Store(mem, basereg'[p] * CELLS, uses'[p])

\* p has got the cells from one address to another and writes them; it no
\* longer uses what is above, up to the stack.
Grown(p, from, to) ==
  [k \in Offset(nframes[p]) |->
     IF START + k \in from .. to - 1 THEN pid[p]
     ELSE IF START + k >= to /\ k # StackCell(nframes[p]) THEN JUNK ELSE uses[p][k]]

\* sys_brk(), and what the process does with the memory between its own end
\* of the heap and the new one.
Brk(p, from, addr) ==
  /\ AtUser(p)
  /\ addr >= bssend[p] /\ addr <= START + StackCell(nframes[p])
  /\ curbrk' = [curbrk EXCEPT ![p] = addr]
  /\ uses' = [uses EXCEPT ![p] = Grown(p, from, addr)]
  /\ mem' = Store(mem, Bottom(p), uses'[p])
  /\ UNCHANGED <<vars, bssend>>

\* malloc() calls brk() with an address above its own top of the heap.
sys_brk(p, addr) ==
  LET top == {k \in Offset(nframes[p]) : uses[p][k] = JUNK \/ k = StackCell(nframes[p])}
  IN  \E k \in top :
        /\ \A j \in top : k <= j
        /\ START + k <= addr
        /\ Brk(p, START + k, addr)

\* sbrk() counts from curbrk.
sys_sbrk(p, increment) == Brk(p, curbrk[p], curbrk[p] + increment)

\* The other calls leave memory alone.
Others(p) ==
  /\ sys_exit(p) \/ sys_wait(p)
  /\ UNCHANGED spaceVars

SpaceNext ==
  \E p \in Slot :
    \/ Fork(p)
    \/ \E n \in FrameCounts : \E e \in BssEnds(n) : Exec(p, n, e)
    \/ AtUser(p) /\ \E k \in Offset(nframes[p]) : sys_brk(p, START + k)
    \/ sys_sbrk(p, 1)
    \/ Others(p)

SpaceSpec == SpaceInit /\ [][SpaceNext]_allVars

-----------------------------------------------------------------------------
\* fork() copies "the memory from proc to the child", as the comment on
\* copyaddrspace() has it: every live process finds in its memory what it, or
\* the parent it was forked from, has put there.
MemoryKept ==
  \A p \in Slot : Live(p) =>
    \A k \in DOMAIN uses[p] :
      uses[p][k] # JUNK => mem[Bottom(p) + k] = uses[p][k]
=============================================================================
