------------------------------ MODULE ProcTree ------------------------------
(***************************************************************************)
(* What fork, exit and wait promise, with processes named by pid and no    *)
(* table, slots, channels or scheduling: a tree of processes rooted at     *)
(* init, in which a dead process stays until its parent collects it and    *)
(* the children of a dead process are init's.                              *)
(***************************************************************************)
EXTENDS Naturals

VARIABLES
  tree,   \* for each process not yet collected: its parent, is it dead
  last    \* the highest pid ever given

treeVars == <<tree, last>>

init == 1
Alive(a) == a \in DOMAIN tree /\ ~tree[a].dead

TreeInit ==
  /\ tree = [a \in {init} |-> [parent |-> 0, dead |-> FALSE]]
  /\ last = init

\* A child gets a pid never used before.
Fork(a) ==
  /\ Alive(a)
  /\ last' = last + 1
  /\ tree' = [b \in DOMAIN tree \cup {last + 1} |->
                IF b = last + 1 THEN [parent |-> a, dead |-> FALSE] ELSE tree[b]]

\* A fork that fails may use a pid up.
ForkFails == last' = last + 1 /\ UNCHANGED tree

Exit(a) ==
  /\ Alive(a) /\ a # init
  /\ tree' = [b \in DOMAIN tree |->
                [parent |-> IF tree[b].parent = a THEN init ELSE tree[b].parent,
                 dead |-> tree[b].dead \/ b = a]]
  /\ UNCHANGED last

\* wait() by a collects a dead child of a.
Collect(a, b) ==
  /\ Alive(a)
  /\ b \in DOMAIN tree /\ tree[b].dead /\ tree[b].parent = a
  /\ tree' = [c \in DOMAIN tree \ {b} |-> tree[c]]
  /\ UNCHANGED last

TreeNext ==
  \/ \E a \in DOMAIN tree : Fork(a) \/ Exit(a)
  \/ ForkFails
  \/ \E a, b \in DOMAIN tree : Collect(a, b)

TreeSpec == TreeInit /\ [][TreeNext]_treeVars
=============================================================================
