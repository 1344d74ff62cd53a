--------------------------- MODULE CircularBuffer ---------------------------
(***************************************************************************)
(* The circular buffer of cbuffer.h, with its two indices into an array    *)
(* and its counter.  Its only users are interrupt_uart_routine, which      *)
(* writes, and sys_read_uart, which reads after it has seen that the       *)
(* buffer is not empty.                                                    *)
(***************************************************************************)
EXTENDS Integers, Sequences

CONSTANTS
  Element,   \* the values of a char
  size       \* slots of the array

ASSUME BufferAssumption == size \in Nat \ {0} /\ Element # {}

VARIABLES
  start, end, numelem, buffer,
  element,   \* what circularbRead stored last in the variable of its caller
  refused    \* the result of the last circularbWrite was -1

vars == <<start, end, numelem, buffer, element, refused>>

Slot == 0 .. size - 1

(* circularbInit.  The array is not cleared. *)
Init ==
  /\ start = 0
  /\ end = 0
  /\ numelem = 0
  /\ buffer \in [Slot -> Element]
  /\ element \in Element
  /\ refused = FALSE

(* The "mod operation" for n < 2 * size. *)
Wrap(n) == IF n >= size THEN n - size ELSE n
-----------------------------------------------------------------------------
(* Seeded fault: a full buffer is recognised one element too late. *)
circularbIsFullLate == numelem = size

circularbIsFull == Wrap(end + 1) = start

circularbIsEmpty == end = start

(* Seeded fault: the index wraps one slot too late. *)
circularbWriteLate(e) ==
  IF circularbIsFull
  THEN refused' = TRUE /\ UNCHANGED <<start, end, numelem, buffer, element>>
  ELSE /\ buffer' = [buffer EXCEPT ![end] = e]
       /\ end' = IF end + 1 > size THEN end + 1 - size ELSE end + 1
       /\ numelem' = numelem + 1
       /\ refused' = FALSE
       /\ UNCHANGED <<start, element>>

circularbWrite(e) ==
  IF circularbIsFull
  THEN refused' = TRUE /\ UNCHANGED <<start, end, numelem, buffer, element>>
  ELSE /\ buffer' = [buffer EXCEPT ![end] = e]
       /\ end' = Wrap(end + 1)
       /\ numelem' = numelem + 1
       /\ refused' = FALSE
       /\ UNCHANGED <<start, element>>

(* Seeded fault: the counter is not decremented. *)
circularbReadUncounted ==
  /\ ~ circularbIsEmpty
  /\ element' = buffer[start]
  /\ start' = Wrap(start + 1)
  /\ UNCHANGED <<end, numelem, buffer, refused>>

circularbRead ==
  /\ ~ circularbIsEmpty
  /\ element' = buffer[start]
  /\ start' = Wrap(start + 1)
  /\ numelem' = numelem - 1
  /\ UNCHANGED <<end, buffer, refused>>

Next == circularbRead \/ \E e \in Element : circularbWrite(e)

Spec == Init /\ [][Next]_vars
-----------------------------------------------------------------------------
TypeOK ==
  /\ start \in Slot
  /\ end \in Slot
  /\ numelem \in Slot
  /\ buffer \in [Slot -> Element]
  /\ element \in Element
  /\ refused \in BOOLEAN

(* The counter agrees with the two indices, which is what circularbIsFull   *)
(* and circularbIsEmpty look at: one slot always stays unused, so that a    *)
(* full buffer cannot be mistaken for an empty one.                         *)
CounterAgrees == Wrap(start + numelem) = end

(* The buffer is a first in, first out queue of size - 1 elements, however  *)
(* often its indices wrap around the array.                                 *)
contents == [i \in 1 .. numelem |-> buffer[Wrap(start + i - 1)]]

Abstract == INSTANCE BoundedQueue WITH Capacity <- size - 1, items <- contents

IsBoundedQueue == Abstract!Spec
=============================================================================
