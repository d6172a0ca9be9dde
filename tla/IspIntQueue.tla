----------------------------- MODULE IspIntQueue -----------------------------
(***************************************************************************)
(* What the ring of pending interrupts of an ISP pipe promises its users: a  *)
(* queue that hands out the interrupts in the order they came, each once,    *)
(* and that may only ever lose all it has at a time.                         *)
(***************************************************************************)
EXTENDS Integers, Sequences

CONSTANTS
  Capacity,  \* how many interrupts fit
  MaxInt     \* bound on the number of interrupts

VARIABLES
  queue,     \* the interrupts not taken yet, by number
  last       \* the number of interrupts so far

Init == queue = <<>> /\ last = 0

(* An interrupt comes and is kept; it may replace all that was kept before.  *)
Keep ==
  /\ last < MaxInt
  /\ last' = last + 1
  /\ \/ Len(queue) < Capacity /\ queue' = Append(queue, last')
     \/ Len(queue) = Capacity /\ queue' = <<last'>>

(* An interrupt without anything to do comes, when the queue is full too.    *)
Ignore ==
  /\ last < MaxInt
  /\ last' = last + 1
  /\ queue' = IF Len(queue) = Capacity THEN <<>> ELSE queue

Take ==
  /\ queue # <<>>
  /\ queue' = Tail(queue)
  /\ UNCHANGED last

Clear == queue' = <<>> /\ UNCHANGED last

Next == Keep \/ Ignore \/ Take \/ Clear

Spec == Init /\ [][Next]_<<queue, last>>
=============================================================================
