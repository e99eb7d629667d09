---------------------------- MODULE BoundedFifo ----------------------------
(***************************************************************************)
(* What a queue for one producer and one consumer promises: elements come  *)
(* out in the order they went in, each once, and there are never more than *)
(* Capacity of them.  Which queue it is, and when a call refuses or waits, *)
(* is left to the modules that implement it.                               *)
(***************************************************************************)
EXTENDS Naturals, Sequences

CONSTANTS
  Values,    \* the elements, told apart by value only
  Capacity,  \* the most elements the queue holds
  None       \* the consumer has received nothing

VARIABLES
  queue,  \* the elements that went in and did not come out
  item    \* the element the consumer received last

vars == <<queue, item>>

Init == queue = <<>> /\ item = None

Put(v) ==
  /\ Len(queue) < Capacity
  /\ queue' = Append(queue, v)
  /\ UNCHANGED item

Get ==
  /\ queue # <<>>
  /\ item' = Head(queue)
  /\ queue' = Tail(queue)

\* The queue is destroyed with what it holds.
Drop == queue' = <<>> /\ UNCHANGED item

Next == (\E v \in Values : Put(v)) \/ Get \/ Drop

Spec == Init /\ [][Next]_vars
=============================================================================
