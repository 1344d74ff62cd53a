--------------------------- MODULE LineDiscipline ---------------------------
(***************************************************************************)
(* What sys_read promises the programs that share the keyboard, without a  *)
(* scheduler: read requests are served one at a time in the order they     *)
(* were made, each one gets the next bytes of the input, and it ends when  *)
(* it has as many as it asked for.  A request keeps its turn while it      *)
(* waits for more input.  Kernel implements this specification.            *)
(***************************************************************************)
EXTENDS Integers, Sequences

CONSTANTS
  Reader,
  Capacity,      \* bytes the system keeps for later
  Sizes          \* sizes of the requests

VARIABLES
  pending,       \* requests not complete: [task, left], in order of arrival
  stream,        \* bytes taken from the line and not delivered yet
  arrived,       \* how many bytes were taken from the line: they are 1, 2, ...
  got            \* got[t]: the bytes the last request of t received

vars == <<pending, stream, arrived, got>>

Init ==
  /\ pending = <<>>
  /\ stream = <<>>
  /\ arrived = 0
  /\ got = [t \in Reader |-> <<>>]

Waiting(t) == \E i \in DOMAIN pending : pending[i].task = t

Arrive ==
  /\ Len(stream) < Capacity
  /\ arrived' = arrived + 1
  /\ stream' = Append(stream, arrived + 1)
  /\ UNCHANGED <<pending, got>>

(* A request behind others waits. *)
Request(t, n) ==
  /\ pending # <<>>
  /\ ~ Waiting(t)
  /\ pending' = Append(pending, [task |-> t, left |-> n])
  /\ got' = [got EXCEPT ![t] = <<>>]
  /\ UNCHANGED <<stream, arrived>>

(* What is left of a request of t for n bytes after it received k. *)
Rest(t, n, k) == IF k = n THEN <<>> ELSE <<[task |-> t, left |-> n - k]>>

Deliver(k) == stream' = SubSeq(stream, k + 1, Len(stream)) /\ UNCHANGED arrived

(* A request with nobody before it takes what there is at once. *)
RequestAndServe(t, n) ==
  /\ pending = <<>>
  /\ \E k \in 0 .. n :
       /\ k = n \/ k = Len(stream)
       /\ k <= Len(stream)
       /\ pending' = Rest(t, n, k)
       /\ got' = [got EXCEPT ![t] = SubSeq(stream, 1, k)]
       /\ Deliver(k)

(* The oldest request takes what there is. *)
Serve ==
  /\ pending # <<>>
  /\ LET t == Head(pending).task
         n == Head(pending).left
     IN \E k \in 1 .. n :
          /\ k = n \/ k = Len(stream)
          /\ k <= Len(stream)
          /\ pending' = Rest(t, n, k) \o Tail(pending)
          /\ got' = [got EXCEPT ![t] = @ \o SubSeq(stream, 1, k)]
          /\ Deliver(k)

Next ==
  \/ Arrive
  \/ Serve
  \/ \E t \in Reader, n \in Sizes : Request(t, n) \/ RequestAndServe(t, n)

Spec == Init /\ [][Next]_vars
=============================================================================
