----------------------------- MODULE Semaphores -----------------------------
(***************************************************************************)
(* The semaphores of zeOSpi (sem.h, the sys_sem_* calls of sys.c).  A call *)
(* with a number outside sem_array returns -EINVSN before it touches any   *)
(* state and is left out, like the other calls that only return an error.  *)
(***************************************************************************)
EXTENDS Sched

CONSTANT MaxSemValue    \* bound on the value of a semaphore

ASSUME SemAssumption == MaxSemValue \in Nat

ESDEST == 14            \* errno.h: blocked in a destroyed semaphore
NoOwner == -1           \* pid_owner of a semaphore that is not initialised

VARIABLES
  sem_array,
  releasedBy   \* history: which call last ended the wait of a task

semVars == <<sem_array, releasedBy>>

SemInit ==
  /\ sem_array = [s \in Sem |-> [pid_owner |-> NoOwner, value |-> 0]]
  /\ releasedBy = [t \in Task |-> "none"]

Initialised(s) == sem_array[s].pid_owner # NoOwner
-----------------------------------------------------------------------------
(* Seeded fault: the check of pid_owner is missing.                         *)
sys_sem_init_unchecked(s, value) ==
  /\ InUser
  /\ sem_array' = [sem_array EXCEPT ![s] = [pid_owner |-> PID[current], value |-> value]]
  /\ queue' = [queue EXCEPT ![s] = <<>>]
  /\ UNCHANGED <<current, process_state, rr_quantum, remaining_quantum,
                 kernel_lr, kbinfo, uart_read_buffer, pidVars, releasedBy>>

(* sys_sem_init; the -ESINIT return changes nothing.                        *)
sys_sem_init(s, value) ==
  /\ InUser
  /\ ~ Initialised(s)
  /\ sem_array' = [sem_array EXCEPT ![s] = [pid_owner |-> PID[current], value |-> value]]
  /\ queue' = [queue EXCEPT ![s] = <<>>]       \* INIT_LIST_HEAD
  /\ UNCHANGED <<current, process_state, rr_quantum, remaining_quantum,
                 kernel_lr, kbinfo, uart_read_buffer, pidVars, releasedBy>>

(* Seeded fault: the caller is linked into readyqueue.                      *)
sys_sem_wait_ready(s) ==
  /\ InUser
  /\ Initialised(s)
  /\ IF sem_array[s].value <= 0
     THEN /\ kernel_lr' = [kernel_lr EXCEPT ![current] = s]
          /\ Yield(readyqueue, kbinfo, uart_read_buffer, remaining_quantum)
          /\ UNCHANGED sem_array
     ELSE /\ sem_array' = [sem_array EXCEPT ![s].value = @ - 1]
          /\ UNCHANGED <<kernel_lr, switchVars>>
  /\ UNCHANGED <<kbinfo, uart_read_buffer, pidVars, releasedBy>>

(* sys_sem_wait up to its return or to the task switch in it.               *)
sys_sem_wait(s) ==
  /\ InUser
  /\ Initialised(s)
  /\ IF sem_array[s].value <= 0
     THEN /\ kernel_lr' = [kernel_lr EXCEPT ![current] = s]
          /\ Yield(s, kbinfo, uart_read_buffer, remaining_quantum)
          /\ UNCHANGED sem_array
     ELSE /\ sem_array' = [sem_array EXCEPT ![s].value = @ - 1]
          /\ UNCHANGED <<kernel_lr, switchVars>>
  /\ UNCHANGED <<kbinfo, uart_read_buffer, pidVars, releasedBy>>

(* What sys_sem_wait(s) returns to a task that was blocked in it.           *)
WaitResult(s) == IF Initialised(s) THEN 0 ELSE - ESDEST

(* The rest of sys_sem_wait(s), once the task has the CPU again.            *)
sem_wait_return(s) ==
  /\ kernel_lr[current] = s
  /\ kernel_lr' = [kernel_lr EXCEPT ![current] = "user"]
  /\ releasedBy' = [releasedBy EXCEPT ![current] = "none"]
  /\ UNCHANGED <<switchVars, kbinfo, uart_read_buffer, pidVars, sem_array>>

(* Seeded fault: a signal wakes a waiter and increments the value as well.  *)
sys_sem_signal_twice(s) ==
  /\ InUser
  /\ Initialised(s)
  /\ sem_array[s].value < MaxSemValue
  /\ sem_array' = [sem_array EXCEPT ![s].value = @ + 1]
  /\ IF queue[s] = <<>>
     THEN UNCHANGED <<switchVars, releasedBy>>
     ELSE /\ WakeUp(s, <<Head(queue[s])>>, Tail(queue[s]))
          /\ releasedBy' = [releasedBy EXCEPT ![Head(queue[s])] = "signal"]
  /\ UNCHANGED <<kernel_lr, kbinfo, uart_read_buffer, pidVars>>

(* Seeded fault: list_del of the woken task is forgotten.                   *)
sys_sem_signal_linked(s) ==
  /\ InUser
  /\ Initialised(s)
  /\ IF queue[s] = <<>>
     THEN /\ sem_array[s].value < MaxSemValue
          /\ sem_array' = [sem_array EXCEPT ![s].value = @ + 1]
          /\ UNCHANGED <<switchVars, releasedBy>>
     ELSE /\ WakeUp(s, <<Head(queue[s])>>, queue[s])
          /\ releasedBy' = [releasedBy EXCEPT ![Head(queue[s])] = "signal"]
          /\ UNCHANGED sem_array
  /\ UNCHANGED <<kernel_lr, kbinfo, uart_read_buffer, pidVars>>

(* sys_sem_signal: the first waiter is made ready, or the value grows.      *)
sys_sem_signal(s) ==
  /\ InUser
  /\ Initialised(s)
  /\ IF queue[s] = <<>>
     THEN /\ sem_array[s].value < MaxSemValue
          /\ sem_array' = [sem_array EXCEPT ![s].value = @ + 1]
          /\ UNCHANGED <<switchVars, releasedBy>>
     ELSE /\ WakeUp(s, <<Head(queue[s])>>, Tail(queue[s]))
          /\ releasedBy' = [releasedBy EXCEPT ![Head(queue[s])] = "signal"]
          /\ UNCHANGED sem_array
  /\ UNCHANGED <<kernel_lr, kbinfo, uart_read_buffer, pidVars>>

(* Seeded fault: only the first waiter is made ready.                       *)
sys_sem_destroy_one(s) ==
  /\ InUser
  /\ Initialised(s)
  /\ PID[current] = sem_array[s].pid_owner
  /\ sem_array' = [sem_array EXCEPT ![s].pid_owner = NoOwner]
  /\ IF queue[s] = <<>> THEN WakeUp(s, <<>>, <<>>)
     ELSE WakeUp(s, <<Head(queue[s])>>, Tail(queue[s]))
  /\ releasedBy' = [t \in Task |-> IF t \in ToSet(queue[s])
                                   THEN "destroy" ELSE releasedBy[t]]
  /\ UNCHANGED <<kernel_lr, kbinfo, uart_read_buffer, pidVars>>

(* Seeded fault: the check of the owner is missing.                         *)
sys_sem_destroy_unowned(s) ==
  /\ InUser
  /\ Initialised(s)
  /\ sem_array' = [sem_array EXCEPT ![s].pid_owner = NoOwner]
  /\ WakeUp(s, queue[s], <<>>)
  /\ releasedBy' = [t \in Task |-> IF t \in ToSet(queue[s])
                                   THEN "destroy" ELSE releasedBy[t]]
  /\ UNCHANGED <<kernel_lr, kbinfo, uart_read_buffer, pidVars>>

(* sys_sem_destroy by the owner: every waiter is made ready, in order.      *)
(* Anybody else gets -ESNOWN and changes nothing.                           *)
sys_sem_destroy(s) ==
  /\ InUser
  /\ Initialised(s)
  /\ PID[current] = sem_array[s].pid_owner
  /\ sem_array' = [sem_array EXCEPT ![s].pid_owner = NoOwner]
  /\ WakeUp(s, queue[s], <<>>)
  /\ releasedBy' = [t \in Task |-> IF t \in ToSet(queue[s])
                                   THEN "destroy" ELSE releasedBy[t]]
  /\ UNCHANGED <<kernel_lr, kbinfo, uart_read_buffer, pidVars>>

SemNext ==
  \E s \in Sem :
    \/ \E value \in 0 .. MaxSemValue : sys_sem_init(s, value)
    \/ sys_sem_wait(s)
    \/ sem_wait_return(s)
    \/ sys_sem_signal(s)
    \/ sys_sem_destroy(s)
-----------------------------------------------------------------------------
SemTypeOK ==
  /\ sem_array \in [Sem -> [pid_owner : Nat \cup {NoOwner}, value : Nat]]
  /\ releasedBy \in [Task -> {"none", "signal", "destroy"}]
=============================================================================
