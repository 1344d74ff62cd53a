------------------------------ MODULE ListHead ------------------------------
(***************************************************************************)
(* The doubly linked circular lists of list.h, with their pointers.  The   *)
(* other modules keep a list as a sequence; this one shows that the kernel *)
(* may: as long as only tasks that are in no list are added (LinkedOnce in *)
(* Kernel) and only the first one of a list is deleted, the pointers of    *)
(* every list lead through exactly the tasks in it, in both directions.    *)
(***************************************************************************)
EXTENDS Integers, Sequences

CONSTANTS
  Heads,      \* the addresses of the list heads
  Entries,    \* the addresses of the fields list of the task_structs
  NULL        \* address 0, which the kernel can read and write

ASSUME ListAssumption == Heads \cap Entries = {} /\ NULL \notin Heads \cup Entries

VARIABLES
  links,      \* the pointers next and prev of each struct list_head
  order       \* history: order[h]: the entries that belong in the list h

vars == <<links, order>>

Address == Heads \cup Entries \cup {NULL}
-----------------------------------------------------------------------------
(* Seeded fault: the new entry is not linked backwards. *)
__list_add_oneway(m, new, prev, next) ==
  [next |-> [m.next EXCEPT ![new] = next, ![prev] = new],
   prev |-> [m.prev EXCEPT ![new] = prev]]

(* __list_add; the assignments to one field keep their order. *)
__list_add(m, new, prev, next) ==
  [next |-> [m.next EXCEPT ![new] = next, ![prev] = new],
   prev |-> [m.prev EXCEPT ![next] = new, ![new] = prev]]

list_add(m, new, head) == __list_add(m, new, head, m.next[head])

list_add_tail(m, new, head) == __list_add(m, new, m.prev[head], head)

(* list_del, with the __list_del in it. *)
list_del(m, entry) ==
  [next |-> [m.next EXCEPT ![m.prev[entry]] = m.next[entry], ![entry] = NULL],
   prev |-> [m.prev EXCEPT ![m.next[entry]] = m.prev[entry], ![entry] = NULL]]

INIT_LIST_HEAD(m, head) ==
  [next |-> [m.next EXCEPT ![head] = head], prev |-> [m.prev EXCEPT ![head] = head]]

list_empty(m, head) == m.next[head] = head

list_first(m, head) == m.next[head]
-----------------------------------------------------------------------------
Unlinked == {t \in Entries : \A h \in Heads : \A i \in DOMAIN order[h] : order[h][i] # t}

Init ==
  /\ links = [next |-> [a \in Address |-> IF a \in Heads THEN a ELSE NULL],
              prev |-> [a \in Address |-> IF a \in Heads THEN a ELSE NULL]]
  /\ order = [h \in Heads |-> <<>>]

(* sched_update_queues_state links a task behind the others. *)
link_last(h, t) ==
  /\ t \in Unlinked
  /\ links' = list_add_tail(links, t, h)
  /\ order' = [order EXCEPT ![h] = Append(@, t)]

(* It links a partly served reader in front of them. *)
link_first(h, t) ==
  /\ t \in Unlinked
  /\ links' = list_add(links, t, h)
  /\ order' = [order EXCEPT ![h] = <<t>> \o @]

(* Everybody who takes a task from a list takes the first one. *)
unlink_first(h) ==
  /\ ~ list_empty(links, h)
  /\ links' = list_del(links, list_first(links, h))
  /\ order' = [order EXCEPT ![h] = Tail(@)]

(* sys_sem_init makes the list of a semaphore nobody waits for anew. *)
init_again(h) ==
  /\ order[h] = <<>>
  /\ links' = INIT_LIST_HEAD(links, h)
  /\ UNCHANGED order

Next ==
  \E h \in Heads :
    \/ \E t \in Entries : link_last(h, t) \/ link_first(h, t)
    \/ unlink_first(h)
    \/ init_again(h)

Spec == Init /\ [][Next]_vars
-----------------------------------------------------------------------------
(* The ith stop on the way round the list h; the head is before the first   *)
(* entry and after the last one.                                            *)
Stop(h, i) == IF i \in DOMAIN order[h] THEN order[h][i] ELSE h

(* The pointers lead once round each list, forwards and backwards, so that  *)
(* list_empty and list_first tell the truth about it (list_add, list_del).  *)
PointersFollowOrder ==
  \A h \in Heads : \A i \in 0 .. Len(order[h]) :
    /\ links.next[Stop(h, i)] = Stop(h, i + 1)
    /\ links.prev[Stop(h, i + 1)] = Stop(h, i)
=============================================================================
