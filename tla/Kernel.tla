------------------------------- MODULE Kernel -------------------------------
(***************************************************************************)
(* The kernel of zeOSpi: scheduler, semaphores, keyboard reads and the     *)
(* creation and end of tasks, driven by the system calls of the running    *)
(* task and by the timer and UART interrupts.  Memory is abstracted: a     *)
(* fork may or may not find the frames and page table entries it needs.    *)
(***************************************************************************)
EXTENDS Semaphores, Keyboard

CONSTANT MaxPID      \* bound on lastPID

ASSUME KernelAssumption == MaxPID \in Nat

VARIABLE lost        \* history: task_structs a failing fork took and kept

vars == <<switchVars, kernel_lr, kbinfo, uart_read_buffer, pidVars,
          semVars, kbVars, lost>>

Init == SchedInit /\ SemInit /\ KeyboardInit /\ lost = {}

(* The task_struct sys_clone and sys_fork take from freequeue.              *)
new_pcb == Head(queue[freequeue])
-----------------------------------------------------------------------------
(* Seeded fault: the new task gets the PID of the last one.                 *)
new_task_same_pid ==
  /\ queue' = [queue EXCEPT ![freequeue] = Tail(@), ![readyqueue] = Append(@, new_pcb)]
  /\ process_state' = [process_state EXCEPT ![new_pcb] = "ST_READY"]
  /\ lastPID' = lastPID
  /\ PID' = [PID EXCEPT ![new_pcb] = lastPID]
  /\ kbinfo' = [kbinfo EXCEPT ![new_pcb] = kbinfo[current]]
  /\ remaining_quantum' = [remaining_quantum EXCEPT ![new_pcb] = remaining_quantum[current]]
  /\ kernel_lr' = [kernel_lr EXCEPT ![new_pcb] = "user"]
  /\ UNCHANGED <<current, rr_quantum, uart_read_buffer, semVars, kbVars, lost>>

(* The common part of sys_clone and sys_fork: copy_data copies the          *)
(* task_struct, the new task will return through ret_from_fork.             *)
new_task ==
  /\ queue' = [queue EXCEPT ![freequeue] = Tail(@), ![readyqueue] = Append(@, new_pcb)]
  /\ process_state' = [process_state EXCEPT ![new_pcb] = "ST_READY"]
  /\ lastPID' = lastPID + 1
  /\ PID' = [PID EXCEPT ![new_pcb] = lastPID + 1]
  /\ kbinfo' = [kbinfo EXCEPT ![new_pcb] = kbinfo[current]]
  /\ remaining_quantum' = [remaining_quantum EXCEPT ![new_pcb] = remaining_quantum[current]]
  /\ kernel_lr' = [kernel_lr EXCEPT ![new_pcb] = "user"]
  /\ UNCHANGED <<current, rr_quantum, uart_read_buffer, semVars, kbVars, lost>>

(* sys_clone; with no free task it returns -ENTASK and changes nothing.     *)
sys_clone ==
  /\ InUser
  /\ queue[freequeue] # <<>>
  /\ lastPID < MaxPID
  /\ new_task

(* The part of sys_fork that matters here.  Every error return after the    *)
(* list_del leaves the task_struct out of all lists.                        *)
sys_fork ==
  /\ InUser
  /\ queue[freequeue] # <<>>
  /\ lastPID < MaxPID
  /\ new_task

fork_fails ==
  /\ InUser
  /\ queue[freequeue] # <<>>
  /\ queue' = [queue EXCEPT ![freequeue] = Tail(@)]
  /\ lost' = lost \cup {new_pcb}
  /\ UNCHANGED <<current, process_state, rr_quantum, remaining_quantum, kernel_lr,
                 kbinfo, uart_read_buffer, pidVars, semVars, kbVars>>

(* sys_exit: the running task is linked into freequeue and switched away    *)
(* from; sys_clone or sys_fork reinitialises it when it is used again.      *)
sys_exit ==
  /\ InUser
  /\ Yield(freequeue, kbinfo, uart_read_buffer, remaining_quantum)
  /\ UNCHANGED <<kernel_lr, kbinfo, uart_read_buffer, pidVars, semVars, kbVars, lost>>

Next ==
  \/ Timer /\ UNCHANGED <<semVars, kbVars, lost>>
  \/ sys_DEBUG_tswitch /\ UNCHANGED <<semVars, kbVars, lost>>
  \/ SemNext /\ UNCHANGED <<kbVars, lost>>
  \/ KeyboardNext /\ UNCHANGED <<semVars, lost>>
  \/ sys_clone
  \/ sys_fork
  \/ fork_fails
  \/ sys_exit

Spec == Init /\ [][Next]_vars
-----------------------------------------------------------------------------
(* The timer interrupt stays pending until it is served, and is taken as    *)
(* soon as user code runs with interrupts enabled: strong fairness.  Kernel *)
(* code that has the CPU goes on.  Nothing is assumed of user programs or   *)
(* of the keyboard.                                                         *)
Fairness ==
  /\ SF_vars(Timer /\ UNCHANGED <<semVars, kbVars, lost>>)
  /\ WF_vars(read_continue /\ UNCHANGED <<semVars, lost>>)
  /\ \A s \in Sem : WF_vars(sem_wait_return(s) /\ UNCHANGED <<kbVars, lost>>)

LiveSpec == Spec /\ Fairness
-----------------------------------------------------------------------------
TypeOK ==
  /\ SchedTypeOK
  /\ SemTypeOK
  /\ KeyboardTypeOK
  /\ lost \in SUBSET Task

Linked(t, ls) == t \in ToSet(queue[ls])

(* No task is linked twice: the list field of a task_struct is one pair of  *)
(* pointers, and a second list_add of a linked task corrupts both lists.    *)
(* The running task, the idle task and leaked task_structs are in no list   *)
(* (sched_update_queues_state_RR, sched_switch_process_RR, and the list_del *)
(* of every wake-up and of every creation).                                 *)
LinkedOnce ==
  /\ \A ls \in Queue : IsInjective(queue[ls])
  /\ \A ls1, ls2 \in Queue : ls1 # ls2 => ToSet(queue[ls1]) \cap ToSet(queue[ls2]) = {}
  /\ \A ls \in Queue : ToSet(queue[ls]) \cap ({current, idle_task} \cup lost) = {}

(* No task disappears: each one runs, or some list leads to it, or a fork   *)
(* that failed has kept its task_struct.  INIT_LIST_HEAD in sys_sem_init    *)
(* and list_del before a switch are where a task could drop out.            *)
NoneDropped ==
  \A t \in Task : t \in {current, idle_task} \cup lost \/ \E ls \in Queue : Linked(t, ls)

(* A task is linked in the list it waits in: the waiters of a semaphore are *)
(* tasks stopped inside sys_sem_wait of that semaphore, which is            *)
(* initialised; the readers in keyboardqueue are tasks stopped inside       *)
(* sys_read_uart that still want bytes; ready tasks do not want bytes.      *)
WaitsWhereLinked ==
  /\ \A s \in Sem : \A t \in Task :
       Linked(t, s) => kernel_lr[t] = s /\ Initialised(s)
  /\ \A t \in Task :
       /\ Linked(t, keyboardqueue) => kernel_lr[t] = "read" /\ kbinfo[t].keystoread > 0
       /\ kernel_lr[t] = "read" => t = current \/ Linked(t, keyboardqueue)

(* No lost wake-up: while a task waits for a semaphore its value is zero,   *)
(* so no signal was left unused (sys_sem_wait and sys_sem_signal).          *)
NoLostWakeup == \A s \in Sem : queue[s] # <<>> => sem_array[s].value = 0

(* No spurious wake-up: a task that is inside sys_sem_wait but no longer in *)
(* the queue of the semaphore was taken out by a signal or by destroy.      *)
NoSpuriousWakeup ==
  \A t \in Task : \A s \in Sem :
    kernel_lr[t] = s /\ ~ Linked(t, s) => releasedBy[t] # "none"

(* A reader that has part of its bytes is served before any other: it runs  *)
(* or is the first of keyboardqueue, so there is at most one.               *)
PartlyServedFirst ==
  \A t \in Task :
    kernel_lr[t] = "read" /\ kbinfo[t].keysread # 0 =>
      IF kernel_lr[current] = "read" THEN t = current
      ELSE t = Head(queue[keyboardqueue])

(* Every byte the buffer took is delivered once and in order: the buffer    *)
(* holds the last bytes received, and a read got consecutive bytes, as many *)
(* as keysread says, however often it was interrupted.                      *)
BytesInOrder ==
  /\ \A i \in DOMAIN uart_read_buffer :
       uart_read_buffer[i] = received - Len(uart_read_buffer) + i
  /\ \A t \in Task :
       /\ \A i \in DOMAIN keybuffer[t] : keybuffer[t][i] = keybuffer[t][1] + i - 1
       /\ kernel_lr[t] = "read" => Len(keybuffer[t]) = kbinfo[t].keysread

(* The idle task never runs while another task is ready.                    *)
WorkConserving == current = idle_task => queue[readyqueue] = <<>>

(* The statistics of the running task agree with the scheduler's counter:   *)
(* sys_get_stats reports as remaining_quantum what is left of the quantum.  *)
QuantumAgrees == remaining_quantum[current] = rr_quantum

(* The tasks that exist: task_structs neither free nor leaked.              *)
Alive == {t \in Task \ lost : ~ Linked(t, freequeue)}

(* Tasks that exist have different PIDs, whoever had the task_struct before *)
(* them: the owner check of sys_sem_destroy and getStructPID go by the PID. *)
PIDsDiffer == \A t1, t2 \in Alive : PID[t1] = PID[t2] => t1 = t2

(* t1 is in the list ls and t2 is behind it, or not in it.                  *)
Before(t1, t2, ls) ==
  \E i \in DOMAIN queue[ls] :
    queue[ls][i] = t1 /\ \A j \in DOMAIN queue[ls] : queue[ls][j] = t2 => i < j

(* First come, first served, in every list: while a task stays in a list,   *)
(* no task behind it leaves it and no newcomer goes in front of it, except  *)
(* a reader that already has bytes, which sched_update_queues_state_RR puts *)
(* back to the front.                                                       *)
FirstComeFirstServed ==
  [][\A ls \in Queue : \A t1, t2 \in Task :
       Before(t1, t2, ls) /\ Linked(t1, ls)' =>
         \/ Before(t1, t2, ls)' /\ (Linked(t2, ls) => Linked(t2, ls)')
         \/ ls = keyboardqueue /\ ~ Linked(t2, ls) /\ kbinfo'[t2].keysread # 0]_vars

(* The owner of the semaphore has ended.                                    *)
Orphaned(s) == Initialised(s) /\ \A t \in Alive : PID[t] # sem_array[s].pid_owner

(* Nobody inherits a semaphore.  sys_exit leaves those of the task as they  *)
(* are, and a later task, even one in the same task_struct, never passes    *)
(* the owner check of sys_sem_destroy or the check of sys_sem_init: the     *)
(* semaphore is lost, and its waiters depend on signals of others.          *)
OrphansStay ==
  [][\A s \in Sem : Orphaned(s) =>
       Orphaned(s)' /\ sem_array'[s].pid_owner = sem_array[s].pid_owner]_vars

(* A task that is ready runs eventually: user programs cannot keep the CPU  *)
(* by never calling the kernel, by calling it all the time or by passing it *)
(* to each other with semaphores.  It rests on the keyboard falling silent, *)
(* because readers with bytes to take go before ready tasks.                *)
ReadyTasksRun == \A t \in Task : Linked(t, readyqueue) ~> current = t

(* A waiter that a signal or destroy released returns from sem_wait.        *)
ReleasedReturn == \A t \in Task : releasedBy[t] # "none" ~> kernel_lr[t] = "user"

(* Blocking reads are a line discipline: whatever the scheduler, the other  *)
(* system calls and the interrupts do, requests are served in the order     *)
(* they were made and none receives a byte out of turn (sys_read_uart with  *)
(* keyboardqueue and sched_switch_process_RR).  The requests pending are    *)
(* the one of the reader that has the CPU and then the ones of the tasks in *)
(* keyboardqueue.                                                           *)
pendingReads ==
  LET readers == (IF kernel_lr[current] = "read" THEN <<current>> ELSE <<>>)
                   \o queue[keyboardqueue]
  IN [i \in DOMAIN readers |-> [task |-> readers[i], left |-> kbinfo[readers[i]].keystoread]]

Line == INSTANCE LineDiscipline WITH
          Reader <- Task, Capacity <- UART_READ_BUFFER_SIZE - 1, Sizes <- ReadSizes,
          pending <- pendingReads, stream <- uart_read_buffer,
          arrived <- received, got <- keybuffer

ReadsAreServedInOrder == Line!Spec

(* Bytes in the buffer reach the oldest request eventually, whatever the    *)
(* ready tasks do (first branch of sched_switch_process_RR).                *)
OldestReadServed ==
  \A t \in Task :
    pendingReads # <<>> /\ Head(pendingReads).task = t /\ uart_read_buffer # <<>>
      ~> current = t

(* sys.c: "We tell the user if the sem was destroyed or not".               *)
DestroyIsReported ==
  [][\A s \in Sem :
       sem_wait_return(s) /\ releasedBy[current] = "destroy"
         => WaitResult(s) = - ESDEST]_vars
=============================================================================
