---------------------------- MODULE BoundedQueue ----------------------------
(***************************************************************************)
(* What the circular buffer promises its users: a queue that keeps at most *)
(* Capacity elements, refuses the next one and hands them out first in,    *)
(* first out.  CircularBuffer implements it.                               *)
(***************************************************************************)
EXTENDS Integers, Sequences

CONSTANTS Element, Capacity

VARIABLES
  items,      \* the elements in the queue, oldest first
  element,    \* the element handed out last
  refused     \* did the last write find the queue full

vars == <<items, element, refused>>

Init == items = <<>> /\ element \in Element /\ refused = FALSE

Write(e) ==
  /\ IF Len(items) < Capacity
     THEN items' = Append(items, e) /\ refused' = FALSE
     ELSE refused' = TRUE /\ UNCHANGED items
  /\ UNCHANGED element

Read ==
  /\ items # <<>>
  /\ element' = Head(items)
  /\ items' = Tail(items)
  /\ UNCHANGED refused

Next == Read \/ \E e \in Element : Write(e)

Spec == Init /\ [][Next]_vars
=============================================================================
