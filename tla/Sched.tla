------------------------------- MODULE Sched -------------------------------
(***************************************************************************)
(* The scheduler of zeOSpi (sched.c): the task table, the list heads, the  *)
(* round robin policy and the task switch.  The state the other kernel     *)
(* modules share with it is declared here too, because                     *)
(* sched_switch_process_RR reads the UART buffer and                       *)
(* sched_update_queues_state_RR reads kbinfo.                              *)
(*                                                                         *)
(* The kernel runs with interrupts masked, on the kernel stack of the      *)
(* running task, and gives the CPU away only inside sched_switch_process:  *)
(* the code between two such points is one atomic action.  kernel_lr[t]    *)
(* says where t goes on when it gets the CPU:                              *)
(*   - "user": back to user code (for the idle task, to its loop) with     *)
(*     interrupts enabled;                                                 *)
(*   - "read": into the loop of sys_read_uart;                             *)
(*   - a semaphore s: into sys_sem_wait(s), after its sched_switch_process.*)
(* A list head is an address: freequeue, readyqueue, keyboardqueue and the *)
(* semqueue of each semaphore s, which is named by s itself.               *)
(***************************************************************************)
EXTENDS Integers, Sequences, SequencesExt

CONSTANTS
  NR_TASKS,             \* length of the array task[]
  DEFAULT_RR_QUANTUM,   \* timer ticks of a quantum
  freequeue, readyqueue, keyboardqueue,   \* the three global list heads
  Sem                   \* the entries of sem_array

ASSUME SchedAssumption ==
  /\ NR_TASKS \in Nat /\ NR_TASKS >= 2
  /\ DEFAULT_RR_QUANTUM \in Nat \ {0}
  /\ freequeue # readyqueue /\ freequeue # keyboardqueue /\ readyqueue # keyboardqueue
  /\ {freequeue, readyqueue, keyboardqueue, "user", "read"} \cap Sem = {}

Task == 0 .. NR_TASKS - 1
idle_task == 0          \* init_idle takes the first free task_struct
task1 == 1              \* init_task1 takes the next one
Queue == {freequeue, readyqueue, keyboardqueue} \cup Sem
state_t == {"ST_RUN", "ST_READY", "ST_BLOCKED", "ST_ZOMBIE"}

VARIABLES
  current,            \* the task whose kernel stack sp points into
  queue,              \* queue[ls]: the tasks linked in the list with head ls
  PID, lastPID,
  process_state,
  kernel_lr,          \* where a task continues when it gets the CPU
  rr_quantum,
  remaining_quantum,  \* statistics.remaining_quantum
  kbinfo,             \* keystoread and keysread of each task
  uart_read_buffer    \* the bytes in the circular buffer, oldest first

pidVars == <<PID, lastPID>>
switchVars == <<current, queue, process_state, rr_quantum, remaining_quantum>>

SchedInit ==
  /\ current = task1
  /\ queue = [ls \in Queue |-> IF ls = freequeue THEN [i \in 1 .. NR_TASKS - 2 |-> i + 1]
                                                 ELSE <<>>]
  /\ PID = [t \in Task |-> IF t = task1 THEN 1 ELSE 0]
  /\ lastPID = 1
  /\ process_state = [t \in Task |-> IF t = idle_task THEN "ST_READY" ELSE "ST_RUN"]
  /\ kernel_lr = [t \in Task |-> "user"]
  /\ rr_quantum = DEFAULT_RR_QUANTUM
  /\ remaining_quantum = [t \in Task |-> IF t = task1 THEN DEFAULT_RR_QUANTUM ELSE 0]
-----------------------------------------------------------------------------
(* Interrupts are enabled in user code and in the loop of the idle task.    *)
Interruptible == kernel_lr[current] = "user"

(* The running task may enter the kernel through a system call.             *)
InUser == Interruptible /\ current # idle_task

(* The state sched_update_queues_state_RR gives a task it links into ls.    *)
StateIn(ls) ==
  CASE ls = freequeue  -> "ST_ZOMBIE"
    [] ls = readyqueue -> "ST_READY"
    [] OTHER           -> "ST_BLOCKED"

(* Seeded fault: a partly served reader goes to the tail.                   *)
EnqueueAtTail(qs, ls, t, kb) ==
  IF t = idle_task THEN qs ELSE [qs EXCEPT ![ls] = Append(@, t)]

(* Seeded fault: the idle task is linked like any other.                    *)
EnqueueIdle(qs, ls, t, kb) == [qs EXCEPT ![ls] = Append(@, t)]

(* Seeded fault: list_add where the code has list_add_tail.                 *)
EnqueueInFront(qs, ls, t, kb) ==
  IF t = idle_task THEN qs ELSE [qs EXCEPT ![ls] = <<t>> \o @]

(* The lists after sched_update_queues_state(ls, t): the idle task is never *)
(* linked, and a reader that already has bytes goes back to the front.      *)
Enqueue(qs, ls, t, kb) ==
  IF t = idle_task THEN qs
  ELSE [qs EXCEPT ![ls] = IF ls = keyboardqueue /\ kb[t].keysread # 0
                          THEN <<t>> \o @
                          ELSE Append(@, t)]

(* Seeded fault: the keyboard queue is served without looking at the buffer.*)
PickBlindly(qs, buf) ==
  IF qs[keyboardqueue] # <<>> THEN keyboardqueue ELSE readyqueue

(* Seeded fault: readers are served only when no task is ready.             *)
PickReadyFirst(qs, buf) ==
  IF qs[readyqueue] = <<>> /\ buf # <<>> THEN keyboardqueue ELSE readyqueue

(* Seeded fault: the keyboard queue is chosen even when it is empty.        *)
PickUnchecked(qs, buf) == IF buf # <<>> THEN keyboardqueue ELSE readyqueue

(* The list sched_switch_process_RR takes its next task from.               *)
PickQueue(qs, buf) ==
  IF buf # <<>> /\ qs[keyboardqueue] # <<>> THEN keyboardqueue ELSE readyqueue

(* list_del of the first task of the list, if there is one.                 *)
Dequeue(qs, from) ==
  IF qs[from] = <<>> THEN qs ELSE [qs EXCEPT ![from] = Tail(@)]

(* task_switch: the kernel stack becomes the one of next, and with it       *)
(* current(); where the running task goes on later is saved in its          *)
(* kernel_lr, which each caller sets.                                       *)
task_switch(next) == current' = next

(* Seeded fault: only the counter of the scheduler restarts.                *)
SwitchToStale(next, rem, st) ==
  /\ task_switch(next)
  /\ rr_quantum' = DEFAULT_RR_QUANTUM
  /\ remaining_quantum' = rem
  /\ process_state' = IF next = current THEN st
                      ELSE [st EXCEPT ![next] = "ST_RUN", ![current] = "ST_READY"]

(* The end of sched_switch_process_RR: the quanta restart, and if another   *)
(* task was chosen its state and the one of the running task are set.       *)
SwitchTo(next, rem, st) ==
  /\ task_switch(next)
  /\ rr_quantum' = DEFAULT_RR_QUANTUM
  /\ remaining_quantum' = [rem EXCEPT ![next] = DEFAULT_RR_QUANTUM]
  /\ process_state' = IF next = current THEN st
                      ELSE [st EXCEPT ![next] = "ST_RUN", ![current] = "ST_READY"]

(* sched_update_queues_state(ls, current()); sched_switch_process(): the    *)
(* pair of calls with which the running task leaves the CPU.  kb, buf and   *)
(* rem are kbinfo, uart_read_buffer and remaining_quantum as the caller     *)
(* left them.                                                               *)
Yield(ls, kb, buf, rem) ==
  LET qs   == Enqueue(queue, ls, current, kb)
      from == PickQueue(qs, buf)
  IN /\ queue' = Dequeue(qs, from)
     /\ SwitchTo(IF qs[from] = <<>> THEN idle_task ELSE Head(qs[from]),
                 rem, [process_state EXCEPT ![current] = StateIn(ls)])

(* sched_update_queues_state(&readyqueue, t) for tasks that are not running *)
(* and were linked in the list ls, whose remaining tasks are rest.          *)
WakeUp(ls, woken, rest) ==
  /\ queue' = [queue EXCEPT ![ls] = rest, ![readyqueue] = @ \o woken]
  /\ process_state' = [t \in Task |-> IF t \in ToSet(woken)
                                      THEN "ST_READY" ELSE process_state[t]]
  /\ UNCHANGED <<current, rr_quantum, remaining_quantum>>
-----------------------------------------------------------------------------
(* Seeded fault: the quantum is compared before it is decremented.          *)
TimerLate ==
  /\ Interruptible
  /\ LET rem == [remaining_quantum EXCEPT ![current] = @ - 1]
     IN IF rr_quantum = 0
        THEN Yield(readyqueue, kbinfo, uart_read_buffer, rem)
        ELSE /\ rr_quantum' = rr_quantum - 1
             /\ remaining_quantum' = rem
             /\ UNCHANGED <<current, queue, process_state>>
  /\ UNCHANGED <<kernel_lr, kbinfo, uart_read_buffer, pidVars>>

(* The timer branch of interrupt_request_routine.                           *)
Timer ==
  /\ Interruptible
  /\ LET rem == [remaining_quantum EXCEPT ![current] = @ - 1]
     IN IF rr_quantum - 1 = 0
        THEN Yield(readyqueue, kbinfo, uart_read_buffer, rem)
        ELSE /\ rr_quantum' = rr_quantum - 1
             /\ remaining_quantum' = rem
             /\ UNCHANGED <<current, queue, process_state>>
  /\ UNCHANGED <<kernel_lr, kbinfo, uart_read_buffer, pidVars>>

(* sys_DEBUG_tswitch: the running task gives the CPU away by itself.        *)
sys_DEBUG_tswitch ==
  /\ InUser
  /\ Yield(readyqueue, kbinfo, uart_read_buffer, remaining_quantum)
  /\ UNCHANGED <<kernel_lr, kbinfo, uart_read_buffer, pidVars>>
-----------------------------------------------------------------------------
SchedTypeOK ==
  /\ current \in Task
  /\ queue \in [Queue -> Seq(Task)]
  /\ PID \in [Task -> Nat]
  /\ lastPID \in Nat
  /\ process_state \in [Task -> state_t]
  /\ kernel_lr \in [Task -> {"user", "read"} \cup Sem]
  /\ rr_quantum \in 1 .. DEFAULT_RR_QUANTUM
  /\ remaining_quantum \in [Task -> 0 .. DEFAULT_RR_QUANTUM]
=============================================================================
