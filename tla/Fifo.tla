-------------------------------- MODULE Fifo --------------------------------
(***************************************************************************)
(* What a pipe promises: a queue of at most Capacity bytes.  A step puts   *)
(* some bytes at the end, or takes some from the front; no byte is lost,   *)
(* duplicated or reordered.  Either side may close, once and for all.      *)
(***************************************************************************)
EXTENDS Naturals, Sequences

CONSTANTS Capacity, Byte

VARIABLES queue, readopen, writeopen

fifoVars == <<queue, readopen, writeopen>>

FifoInit == queue = <<>> /\ readopen = TRUE /\ writeopen = TRUE

Put ==
  /\ writeopen
  /\ Len(queue') <= Capacity
  /\ Len(queue') > Len(queue)
  /\ SubSeq(queue', 1, Len(queue)) = queue
  /\ \A k \in 1 .. Len(queue') : queue'[k] \in Byte
  /\ UNCHANGED <<readopen, writeopen>>

Take ==
  /\ readopen
  /\ \E k \in 1 .. Len(queue) : queue' = SubSeq(queue, k + 1, Len(queue))
  /\ UNCHANGED <<readopen, writeopen>>

\* One side closes, or a process that is the last of both sides exits.
Close ==
  /\ readopen' => readopen
  /\ writeopen' => writeopen
  /\ UNCHANGED queue

FifoNext == Put \/ Take \/ Close
FifoSpec == FifoInit /\ [][FifoNext]_fifoVars
=============================================================================
