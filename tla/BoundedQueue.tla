----------------------------- MODULE BoundedQueue -----------------------------
(***************************************************************************)
(* What IMessageBus promises of the queue between the device threads and   *)
(* the parse thread: samples come out in the order they went in, each one  *)
(* once; enqueue fails exactly when the queue is full, dequeue exactly     *)
(* when it is empty.                                                       *)
(***************************************************************************)
EXTENDS Naturals, Sequences

CONSTANTS
  Capacity,   \* of the queue
  Samples,    \* RawModbusData values
  NoSample    \* what a dequeue that fails returns

VARIABLES
  queue,      \* the samples accepted and not yet taken
  accepted,   \* the answer of the last enqueue
  taken       \* the result of the last dequeue

vars == <<queue, accepted, taken>>

Init == /\ queue = << >>
        /\ accepted = TRUE
        /\ taken = NoSample

Accept(s) == /\ Len(queue) < Capacity
             /\ queue' = Append(queue, s)
             /\ accepted' = TRUE
             /\ UNCHANGED taken

Refuse == /\ Len(queue) = Capacity
          /\ accepted' = FALSE
          /\ UNCHANGED <<queue, taken>>

Take == /\ queue # << >>
        /\ taken' = Head(queue)
        /\ queue' = Tail(queue)
        /\ UNCHANGED accepted

TakeNothing == /\ queue = << >>
               /\ taken' = NoSample
               /\ UNCHANGED <<queue, accepted>>

Next == (\E s \in Samples : Accept(s)) \/ Refuse \/ Take \/ TakeNothing

Spec == Init /\ [][Next]_vars
=============================================================================
