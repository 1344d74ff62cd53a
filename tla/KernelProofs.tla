---------------------------- MODULE KernelProofs ----------------------------
(***************************************************************************)
(* Proofs about Kernel for every number of tasks, quantum, set of          *)
(* semaphores, buffer size and amount of input.                            *)
(***************************************************************************)
EXTENDS Kernel, ListLemmas

(* The lists qs link tasks, none of them twice and none that is in out.    *)
WellLinked(qs, out) ==
  /\ qs \in [Queue -> Seq(Task)]
  /\ \A ls \in Queue : IsInjective(qs[ls])
  /\ \A ls1, ls2 \in Queue : ls1 # ls2 => ToSet(qs[ls1]) \cap ToSet(qs[ls2]) = {}
  /\ \A ls \in Queue : ToSet(qs[ls]) \cap out = {}

(* sched_update_queues_state of a task that was in no list.                *)
LEMMA EnqueueLemma ==
  ASSUME NEW qs, NEW out, NEW ls \in Queue, NEW t \in Task, NEW kb,
         WellLinked(qs, out), t \in out, idle_task \in out
  PROVE  /\ WellLinked(Enqueue(qs, ls, t, kb), (out \ {t}) \cup {idle_task})
         /\ \A q \in Queue : q # ls => Enqueue(qs, ls, t, kb)[q] = qs[q]
<1> DEFINE new == Enqueue(qs, ls, t, kb)
<1>1. CASE t = idle_task
  BY <1>1 DEF Enqueue, WellLinked
<1>2. CASE t # idle_task
  <2>1. qs[ls] \in Seq(Task) /\ IsInjective(qs[ls]) /\ t \notin ToSet(qs[ls])
    BY DEF WellLinked
  <2>2. PICK l \in Seq(Task) :
          /\ new = [qs EXCEPT ![ls] = l]
          /\ l = Append(qs[ls], t) \/ l = <<t>> \o qs[ls]
    <3>1. Append(qs[ls], t) \in Seq(Task)  BY <2>1, AppendLemma
    <3>2. <<t>> \o qs[ls] \in Seq(Task)  BY <2>1, ConsLemma
    <3> QED  BY <1>2, <3>1, <3>2 DEF Enqueue
  <2>3. ToSet(l) = ToSet(qs[ls]) \cup {t} /\ IsInjective(l)
    <3>1. CASE l = Append(qs[ls], t)  BY <2>1, <3>1, AppendLemma
    <3>2. CASE l = <<t>> \o qs[ls]  BY <2>1, <3>2, ConsLemma
    <3> QED  BY <2>2, <3>1, <3>2
  <2>4. new \in [Queue -> Seq(Task)] /\ new[ls] = l /\ \A q \in Queue : q # ls => new[q] = qs[q]
    BY <2>2 DEF WellLinked
  <2> HIDE DEF new
  <2>5. WellLinked(new, (out \ {t}) \cup {idle_task})
    <3>1. \A q \in Queue : IsInjective(new[q])
      BY <2>3, <2>4 DEF WellLinked
    <3>2. \A q \in Queue : ToSet(new[q]) \subseteq ToSet(qs[q]) \cup (IF q = ls THEN {t} ELSE {})
      BY <2>3, <2>4
    <3>3. \A q \in Queue : t \notin ToSet(qs[q])  BY DEF WellLinked
    <3>4. \A q1, q2 \in Queue : q1 # q2 => ToSet(new[q1]) \cap ToSet(new[q2]) = {}
      <4> SUFFICES ASSUME NEW q1 \in Queue, NEW q2 \in Queue, NEW u,
                          u \in ToSet(new[q1]), u \in ToSet(new[q2])
                   PROVE  q1 = q2
        OBVIOUS
      <4>1. CASE u = t
        <5>1. q1 = ls /\ q2 = ls  BY <4>1, <3>2, <3>3
        <5> QED  BY <5>1
      <4>2. CASE u # t
        <5>1. u \in ToSet(qs[q1]) /\ u \in ToSet(qs[q2])  BY <4>2, <3>2
        <5> QED  BY <5>1 DEF WellLinked
      <4> QED  BY <4>1, <4>2
    <3>5. \A q \in Queue : ToSet(new[q]) \cap ((out \ {t}) \cup {idle_task}) = {}
      BY <3>2, <1>2 DEF WellLinked
    <3> QED  BY <2>4, <3>1, <3>4, <3>5 DEF WellLinked
  <2> QED  BY <2>4, <2>5 DEF new
<1> QED  BY <1>1, <1>2

(* list_del of the first task of a list.                                   *)
LEMMA DequeueLemma ==
  ASSUME NEW qs, NEW out, NEW from \in Queue, WellLinked(qs, out), qs[from] # <<>>
  PROVE  /\ Head(qs[from]) \in Task \ out
         /\ WellLinked(Dequeue(qs, from), out \cup {Head(qs[from])})
<1>1. /\ Tail(qs[from]) \in Seq(Task) /\ Head(qs[from]) \in Task
      /\ ToSet(qs[from]) = ToSet(Tail(qs[from])) \cup {Head(qs[from])}
      /\ IsInjective(Tail(qs[from])) /\ Head(qs[from]) \notin ToSet(Tail(qs[from]))
  BY TailLemma DEF WellLinked
<1> DEFINE new == Dequeue(qs, from)
<1>2. /\ new \in [Queue -> Seq(Task)]
      /\ new[from] = Tail(qs[from])
      /\ \A q \in Queue : q # from => new[q] = qs[q]
  BY <1>1 DEF Dequeue, WellLinked
<1>3. Head(qs[from]) \notin out  BY <1>1 DEF WellLinked
<1> HIDE DEF new
<1>4. WellLinked(new, out \cup {Head(qs[from])})
  BY <1>1, <1>2 DEF WellLinked
<1> QED  BY <1>1, <1>3, <1>4 DEF new

(* A wake-up: woken leaves the list from, where rest stays, and joins to.  *)
LEMMA MoveLemma ==
  ASSUME NEW qs, NEW out, NEW from \in Queue, NEW to \in Queue, from # to,
         WellLinked(qs, out),
         NEW woken \in Seq(Task), NEW rest \in Seq(Task),
         IsInjective(woken), IsInjective(rest),
         ToSet(woken) \cup ToSet(rest) \subseteq ToSet(qs[from]),
         ToSet(woken) \cap ToSet(rest) = {}
  PROVE  WellLinked([qs EXCEPT ![from] = rest, ![to] = @ \o woken], out)
<1> DEFINE new == [qs EXCEPT ![from] = rest, ![to] = @ \o woken]
           l   == qs[to] \o woken
<1>1. qs[to] \in Seq(Task) /\ IsInjective(qs[to]) /\ ToSet(qs[to]) \cap ToSet(woken) = {}
  BY DEF WellLinked
<1>2. l \in Seq(Task) /\ ToSet(l) = ToSet(qs[to]) \cup ToSet(woken) /\ IsInjective(l)
  BY <1>1, ConcatLemma
<1>3. /\ new \in [Queue -> Seq(Task)]
      /\ new[from] = rest /\ new[to] = l
      /\ \A q \in Queue \ {from, to} : new[q] = qs[q]
  BY <1>2 DEF WellLinked
<1> HIDE DEF new, l
<1>4. \A q \in Queue : IsInjective(new[q])  BY <1>2, <1>3 DEF WellLinked
<1>5. ASSUME NEW q \in Queue, NEW u \in out
      PROVE  u \notin ToSet(new[q])
  <2>1. \A a \in Queue : u \notin ToSet(qs[a])  BY DEF WellLinked
  <2>2. u \notin ToSet(woken) /\ u \notin ToSet(rest)  BY <2>1
  <2> QED  BY <2>1, <2>2, <1>2, <1>3
<1>6. \A q1, q2 \in Queue : q1 # q2 => ToSet(new[q1]) \cap ToSet(new[q2]) = {}
  <2> SUFFICES ASSUME NEW q1 \in Queue, NEW q2 \in Queue, q1 # q2, NEW u,
                      u \in ToSet(new[q1]), u \in ToSet(new[q2])
               PROVE  FALSE
    OBVIOUS
  <2>1. \A a, b \in Queue : u \in ToSet(qs[a]) /\ u \in ToSet(qs[b]) => a = b
    BY DEF WellLinked
  <2>2. CASE u \in ToSet(woken)
    <3>1. u \in ToSet(qs[from]) /\ u \notin ToSet(rest)  BY <2>2
    <3>2. ASSUME NEW q \in Queue, u \in ToSet(new[q])
          PROVE  q = to
      <4>1. CASE q = from  BY <4>1, <3>1, <3>2, <1>3
      <4>2. CASE q \notin {from, to}  BY <4>2, <2>1, <3>1, <3>2, <1>3
      <4> QED  BY <4>1, <4>2
    <3>3. q1 = to /\ q2 = to  BY <3>2
    <3> QED  BY <3>3
  <2>3. CASE u \notin ToSet(woken)
    <3>1. ASSUME NEW q \in Queue, u \in ToSet(new[q])
          PROVE  u \in ToSet(qs[q])
      <4>1. CASE q = from  BY <4>1, <3>1, <1>3
      <4>2. CASE q = to  BY <4>2, <2>3, <3>1, <1>2, <1>3
      <4>3. CASE q \notin {from, to}  BY <4>3, <3>1, <1>3
      <4> QED  BY <4>1, <4>2, <4>3
    <3>2. u \in ToSet(qs[q1]) /\ u \in ToSet(qs[q2])  BY <3>1
    <3> QED  BY <3>2, <2>1
  <2> QED  BY <2>2, <2>3
<1> QED  BY <1>3, <1>4, <1>5, <1>6 DEF WellLinked, new
-----------------------------------------------------------------------------
(* The inductive invariant of LinkedOnce.  QuantumAgrees keeps the quanta   *)
(* above zero; a leaked task_struct must not be the running task or the     *)
(* idle task, or it would be linked again when that task yields.            *)
IInv ==
  /\ TypeOK
  /\ LinkedOnce
  /\ QuantumAgrees
  /\ lost \cap {current, idle_task} = {}

(* What every task switch establishes, whatever the caller changed before.  *)
LEMMA YieldLemma ==
  ASSUME IInv, NEW ls \in Queue, NEW kb, NEW buf,
         NEW rem \in [Task -> 0 .. DEFAULT_RR_QUANTUM],
         Yield(ls, kb, buf, rem)
  PROVE  /\ WellLinked(queue', {current', idle_task} \cup lost)
         /\ current' \in Task \ lost
         /\ process_state' \in [Task -> state_t]
         /\ rr_quantum' = DEFAULT_RR_QUANTUM
         /\ remaining_quantum' \in [Task -> 0 .. DEFAULT_RR_QUANTUM]
         /\ remaining_quantum'[current'] = rr_quantum'
<1> USE SchedAssumption
<1> DEFINE qs   == Enqueue(queue, ls, current, kb)
           from == PickQueue(qs, buf)
           out  == {idle_task} \cup lost
<1>1. /\ idle_task \in Task /\ current \in Task
      /\ DEFAULT_RR_QUANTUM \in 0 .. DEFAULT_RR_QUANTUM
  BY DEF IInv, TypeOK, SchedTypeOK, Task, idle_task
<1>2. WellLinked(queue, {current, idle_task} \cup lost)
  BY DEF IInv, TypeOK, SchedTypeOK, LinkedOnce, WellLinked
<1>3. WellLinked(qs, out)
  <2>1. WellLinked(qs, (({current, idle_task} \cup lost) \ {current}) \cup {idle_task})
    BY <1>1, <1>2, EnqueueLemma
  <2>2. out \subseteq (({current, idle_task} \cup lost) \ {current}) \cup {idle_task}
    BY DEF IInv
  <2> HIDE DEF qs, out
  <2> QED  BY <2>1, <2>2 DEF WellLinked
<1>4. from \in Queue  BY DEF PickQueue, Queue
<1>5. /\ queue' = Dequeue(qs, from)
      /\ SwitchTo(IF qs[from] = <<>> THEN idle_task ELSE Head(qs[from]),
                  rem, [process_state EXCEPT ![current] = StateIn(ls)])
  BY DEF Yield
<1> HIDE DEF qs, from
<1>6. current' \in Task \ lost /\ WellLinked(queue', {current', idle_task} \cup lost)
  <2>1. CASE qs[from] = <<>>
    <3>1. current' = idle_task /\ queue' = qs  BY <2>1, <1>5 DEF SwitchTo, task_switch, Dequeue
    <3> QED  BY <3>1, <1>1, <1>3 DEF IInv, WellLinked
  <2>2. CASE qs[from] # <<>>
    <3>1. current' = Head(qs[from])  BY <2>2, <1>5 DEF SwitchTo, task_switch
    <3>2. Head(qs[from]) \in Task \ out /\ WellLinked(queue', out \cup {Head(qs[from])})
      BY <2>2, <1>3, <1>4, <1>5, DequeueLemma
    <3> QED  BY <3>1, <3>2 DEF WellLinked
  <2> QED  BY <2>1, <2>2
<1>7. process_state' \in [Task -> state_t]
  <2>1. StateIn(ls) \in state_t  BY DEF StateIn, state_t
  <2>2. process_state \in [Task -> state_t]  BY DEF IInv, TypeOK, SchedTypeOK
  <2> QED  BY <2>1, <2>2, <1>5 DEF SwitchTo, task_switch, state_t
<1>8. /\ rr_quantum' = DEFAULT_RR_QUANTUM
      /\ remaining_quantum' = [rem EXCEPT ![current'] = DEFAULT_RR_QUANTUM]
  BY <1>5 DEF SwitchTo, task_switch
<1>9. /\ remaining_quantum' \in [Task -> 0 .. DEFAULT_RR_QUANTUM]
      /\ remaining_quantum'[current'] = rr_quantum'
  BY <1>1, <1>6, <1>8
<1> QED  BY <1>6, <1>7, <1>8, <1>9
-----------------------------------------------------------------------------
(* The part of IInv that a task switch establishes.                         *)
CPUOK ==
  /\ WellLinked(queue, {current, idle_task} \cup lost)
  /\ current \in Task \ lost
  /\ process_state \in [Task -> state_t]
  /\ rr_quantum \in 1 .. DEFAULT_RR_QUANTUM
  /\ remaining_quantum \in [Task -> 0 .. DEFAULT_RR_QUANTUM]
  /\ QuantumAgrees
  /\ lost \in SUBSET (Task \ {idle_task})

(* The rest of it.                                                          *)
DataOK ==
  /\ PID \in [Task -> Nat]
  /\ lastPID \in Nat
  /\ kernel_lr \in [Task -> {"user", "read"} \cup Sem]
  /\ SemTypeOK
  /\ KeyboardTypeOK

(* The invariant in two parts: who is where, and the types of the rest.     *)
LEMMA IInvParts == IInv <=> CPUOK /\ DataOK
<1>1. idle_task \in Task /\ lost \cap {current, idle_task} = {} => current \notin lost
  BY SchedAssumption DEF Task, idle_task
<1> QED
  BY <1>1 DEF IInv, CPUOK, DataOK, TypeOK, SchedTypeOK, LinkedOnce, WellLinked

(* The same, in the next state.                                             *)
LEMMA IInvPartsNext == IInv' <=> CPUOK' /\ DataOK'
BY IInvParts, PTL

(* A task switch whose caller leaves the history of leaks alone.            *)
LEMMA YieldKeepsCPU ==
  ASSUME IInv, NEW ls \in Queue, NEW kb, NEW buf,
         NEW rem \in [Task -> 0 .. DEFAULT_RR_QUANTUM],
         Yield(ls, kb, buf, rem), lost' = lost
  PROVE  CPUOK'
<1>1. lost \in SUBSET (Task \ {idle_task})  BY IInvParts DEF CPUOK
<1>2. DEFAULT_RR_QUANTUM \in 1 .. DEFAULT_RR_QUANTUM  BY SchedAssumption
<1>3. /\ WellLinked(queue', {current', idle_task} \cup lost')
      /\ current' \in Task \ lost'
      /\ process_state' \in [Task -> state_t]
      /\ rr_quantum' = DEFAULT_RR_QUANTUM
      /\ remaining_quantum' \in [Task -> 0 .. DEFAULT_RR_QUANTUM]
      /\ remaining_quantum'[current'] = rr_quantum'
  BY YieldLemma
<1> QED  BY <1>1, <1>2, <1>3 DEF CPUOK, QuantumAgrees, WellLinked

(* The first part does not look at the rest of the state.                   *)
LEMMA SameCPU ==
  ASSUME CPUOK, UNCHANGED <<switchVars, lost>>
  PROVE  CPUOK'
BY DEF CPUOK, switchVars, WellLinked, QuantumAgrees

(* A wake-up out of the queue of a semaphore.                               *)
LEMMA WakeUpKeepsCPU ==
  ASSUME CPUOK, NEW s \in Sem, NEW woken \in Seq(Task), NEW rest \in Seq(Task),
         IsInjective(woken), IsInjective(rest),
         ToSet(woken) \cup ToSet(rest) \subseteq ToSet(queue[s]),
         ToSet(woken) \cap ToSet(rest) = {},
         WakeUp(s, woken, rest), lost' = lost
  PROVE  CPUOK'
<1>1. s \in Queue /\ readyqueue \in Queue /\ s # readyqueue
  BY SchedAssumption DEF Queue
<1>2. WellLinked(queue', {current', idle_task} \cup lost')
  BY <1>1, MoveLemma DEF WakeUp, CPUOK
<1>3. process_state' \in [Task -> state_t]
  BY DEF WakeUp, CPUOK, state_t
<1> QED  BY <1>2, <1>3 DEF WakeUp, CPUOK, QuantumAgrees

(* sys_sem_signal moves the first waiter to readyqueue.                     *)
LEMMA SignalKeepsCPU ==
  ASSUME CPUOK, NEW s \in Sem, queue[s] # <<>>,
         WakeUp(s, <<Head(queue[s])>>, Tail(queue[s])), lost' = lost
  PROVE  CPUOK'
<1>1. queue[s] \in Seq(Task) /\ IsInjective(queue[s])
  BY DEF CPUOK, WellLinked, Queue
<1>2. /\ Tail(queue[s]) \in Seq(Task) /\ Head(queue[s]) \in Task
      /\ ToSet(queue[s]) = ToSet(Tail(queue[s])) \cup {Head(queue[s])}
      /\ IsInjective(Tail(queue[s])) /\ Head(queue[s]) \notin ToSet(Tail(queue[s]))
  BY <1>1, TailLemma
<1>3. /\ <<Head(queue[s])>> \in Seq(Task)
      /\ ToSet(<<Head(queue[s])>>) = {Head(queue[s])}
      /\ IsInjective(<<Head(queue[s])>>)
  BY <1>2 DEF ToSet, IsInjective
<1> QED  BY <1>2, <1>3, WakeUpKeepsCPU

(* sys_sem_destroy moves all waiters to readyqueue.                         *)
LEMMA DestroyKeepsCPU ==
  ASSUME CPUOK, NEW s \in Sem, WakeUp(s, queue[s], <<>>), lost' = lost
  PROVE  CPUOK'
<1>1. queue[s] \in Seq(Task) /\ IsInjective(queue[s])
  BY DEF CPUOK, WellLinked, Queue
<1>2. <<>> \in Seq(Task) /\ ToSet(<<>>) = {} /\ IsInjective(<<>>)
  BY DEF ToSet, IsInjective
<1> QED  BY <1>1, <1>2, WakeUpKeepsCPU

(* INIT_LIST_HEAD.                                                          *)
LEMMA InitListKeepsCPU ==
  ASSUME CPUOK, NEW s \in Sem, queue' = [queue EXCEPT ![s] = <<>>],
         UNCHANGED <<current, process_state, rr_quantum, remaining_quantum, lost>>
  PROVE  CPUOK'
<1>1. <<>> \in Seq(Task) /\ ToSet(<<>>) = {} /\ IsInjective(<<>>)
  BY DEF ToSet, IsInjective
<1>2. WellLinked(queue', {current', idle_task} \cup lost')
  BY <1>1 DEF CPUOK, WellLinked, Queue
<1> QED  BY <1>2 DEF CPUOK, QuantumAgrees

(* list_del of the first free task_struct.                                  *)
LEMMA NewPcb ==
  ASSUME CPUOK, queue[freequeue] # <<>>
  PROVE  /\ new_pcb \in Task \ ({current, idle_task} \cup lost)
         /\ WellLinked([queue EXCEPT ![freequeue] = Tail(@)],
                       {current, idle_task, new_pcb} \cup lost)
<1>1. freequeue \in Queue  BY DEF Queue
<1>2. /\ new_pcb \in Task \ ({current, idle_task} \cup lost)
      /\ WellLinked([queue EXCEPT ![freequeue] = Tail(@)],
                    ({current, idle_task} \cup lost) \cup {new_pcb})
  BY <1>1, DequeueLemma DEF CPUOK, Dequeue, new_pcb
<1> QED  BY <1>2 DEF WellLinked

(* sys_clone and a sys_fork that succeeds.                                  *)
LEMMA NewTaskKeepsIInv ==
  ASSUME IInv, queue[freequeue] # <<>>, new_task
  PROVE  IInv'
<1>0. CPUOK /\ DataOK  BY IInvParts
<1>1. new_pcb \in Task /\ new_pcb # current /\ new_pcb # idle_task
  BY <1>0, NewPcb
<1>2. WellLinked(queue', {current', idle_task} \cup lost')
  <2> DEFINE q1 == [queue EXCEPT ![freequeue] = Tail(@)]
             q2 == Enqueue(q1, readyqueue, new_pcb, kbinfo)
  <2>1. WellLinked(q1, {current, idle_task, new_pcb} \cup lost)  BY <1>0, NewPcb
  <2>2. freequeue \in Queue /\ readyqueue \in Queue /\ freequeue # readyqueue
        /\ readyqueue # keyboardqueue
    BY SchedAssumption DEF Queue
  <2>3. queue' = q2
    BY <1>0, <1>1, <2>2 DEF new_task, Enqueue, CPUOK, WellLinked
  <2> HIDE DEF q1
  <2>4. WellLinked(q2, (({current, idle_task, new_pcb} \cup lost) \ {new_pcb}) \cup {idle_task})
    BY <2>1, <2>2, <1>1, EnqueueLemma
  <2>5. {current, idle_task} \cup lost
          \subseteq (({current, idle_task, new_pcb} \cup lost) \ {new_pcb}) \cup {idle_task}
    BY <1>0, <1>1, NewPcb
  <2> HIDE DEF q2
  <2>6. current' = current /\ lost' = lost  BY DEF new_task
  <2> QED  BY <2>3, <2>4, <2>5, <2>6 DEF WellLinked
<1>3. CPUOK'
  <2>1. process_state' \in [Task -> state_t]
    BY <1>0, <1>1 DEF CPUOK, new_task, state_t
  <2>2. /\ remaining_quantum' \in [Task -> 0 .. DEFAULT_RR_QUANTUM]
        /\ remaining_quantum'[current] = remaining_quantum[current]
    BY <1>0, <1>1 DEF CPUOK, new_task
  <2> QED  BY <1>0, <1>2, <2>1, <2>2 DEF CPUOK, QuantumAgrees, new_task
<1>4. DataOK'
  <2>1. PID' \in [Task -> Nat] /\ lastPID' \in Nat
    <3>1. lastPID + 1 \in Nat  BY <1>0 DEF DataOK
    <3> QED  BY <3>1, <1>0 DEF DataOK, new_task
  <2>2. kernel_lr' \in [Task -> {"user", "read"} \cup Sem]
    BY <1>0 DEF DataOK, new_task
  <2>3. SemTypeOK'
    BY <1>0 DEF DataOK, new_task, semVars, SemTypeOK
  <2>4. KeyboardTypeOK'
    BY <1>0 DEF DataOK, CPUOK, new_task, kbVars, KeyboardTypeOK
  <2> QED  BY <2>1, <2>2, <2>3, <2>4 DEF DataOK
<1> QED  BY <1>3, <1>4, IInvPartsNext

(* A sys_fork that fails.                                                   *)
LEMMA ForkFailsKeepsIInv ==
  ASSUME IInv, fork_fails
  PROVE  IInv'
<1>0. CPUOK /\ DataOK /\ queue[freequeue] # <<>>  BY IInvParts DEF fork_fails
<1>1. new_pcb \in Task \ ({current, idle_task} \cup lost)  BY <1>0, NewPcb
<1>2. WellLinked(queue', {current', idle_task} \cup lost')
  <2>1. WellLinked(queue', {current, idle_task, new_pcb} \cup lost)
    BY <1>0, NewPcb DEF fork_fails
  <2> QED  BY <2>1 DEF WellLinked, fork_fails
<1>3. CPUOK'
  BY <1>0, <1>1, <1>2 DEF CPUOK, QuantumAgrees, fork_fails
<1>4. DataOK'
  BY <1>0 DEF DataOK, SemTypeOK, KeyboardTypeOK, fork_fails, pidVars, semVars, kbVars
<1> QED  BY <1>3, <1>4, IInvPartsNext

(* One pass of the loop of sys_read_uart, from its three callers' states.   *)
LEMMA ReadPassKeepsIInv ==
  ASSUME IInv, NEW want \in Nat, NEW had \in Nat, NEW old \in Seq(Byte),
         ReadPass(want, had, old), UNCHANGED <<pidVars, received, semVars, lost>>
  PROVE  IInv'
<1> DEFINE n    == Taken(want)
           rest == SubSeq(uart_read_buffer, n + 1, Len(uart_read_buffer))
           kb   == [kbinfo EXCEPT ![current] = [keystoread |-> want - n, keysread |-> had + n]]
<1>0. CPUOK /\ DataOK  BY IInvParts
<1>1. uart_read_buffer \in Seq(Byte) /\ Len(uart_read_buffer) \in Nat
  BY <1>0 DEF DataOK, KeyboardTypeOK
<1>2. n \in Nat /\ n <= want /\ n <= Len(uart_read_buffer)
  BY <1>1 DEF Taken
<1> HIDE DEF n
<1>3. rest \in Seq(Byte) /\ SubSeq(uart_read_buffer, 1, n) \in Seq(Byte)
  BY <1>1, <1>2
<1>4. KeyboardTypeOK'
  <2>1. kbinfo' \in [Task -> [keystoread : Nat, keysread : Nat]]
    <3>1. kbinfo' = kb  BY DEF ReadPass, n
    <3>2. kbinfo \in [Task -> [keystoread : Nat, keysread : Nat]]
      BY <1>0 DEF DataOK, KeyboardTypeOK
    <3>3. want - n \in Nat /\ had + n \in Nat  BY <1>2
    <3> QED  BY <3>1, <3>2, <3>3
  <2>2. uart_read_buffer' \in Seq(Byte)  BY <1>3 DEF ReadPass, n
  <2>3. keybuffer' \in [Task -> Seq(Byte)]
    <3>1. old \o SubSeq(uart_read_buffer, 1, n) \in Seq(Byte)  BY <1>3, ConcatLemma
    <3>2. keybuffer' = [keybuffer EXCEPT ![current] = old \o SubSeq(uart_read_buffer, 1, n)]
      BY DEF ReadPass, n
    <3> QED  BY <3>1, <3>2, <1>0 DEF DataOK, KeyboardTypeOK
  <2> QED  BY <2>1, <2>2, <2>3, <1>0 DEF DataOK, KeyboardTypeOK, Byte
<1>5. kernel_lr' \in [Task -> {"user", "read"} \cup Sem]
  BY <1>0 DEF DataOK, ReadPass
<1>6. DataOK'
  BY <1>0, <1>4, <1>5 DEF DataOK, SemTypeOK, semVars, pidVars
<1>7. CPUOK'
  <2>1. CASE n = want
    BY <2>1, <1>0, SameCPU DEF ReadPass, n
  <2>2. CASE n # want
    <3>1. Yield(keyboardqueue, kb, rest, remaining_quantum)
      BY <2>2 DEF ReadPass, n
    <3>2. remaining_quantum \in [Task -> 0 .. DEFAULT_RR_QUANTUM]  BY <1>0 DEF CPUOK
    <3>3. keyboardqueue \in Queue /\ lost' = lost  BY DEF Queue
    <3> QED  BY <3>1, <3>2, <3>3, YieldKeepsCPU
  <2> QED  BY <2>1, <2>2
<1> QED  BY <1>6, <1>7, IInvPartsNext

(* sys_read, up to its first task switch.                                   *)
LEMMA ReadKeepsIInv ==
  ASSUME IInv, NEW size \in ReadSizes, sys_read(size), UNCHANGED <<semVars, lost>>
  PROVE  IInv'
<1>0. CPUOK /\ DataOK  BY IInvParts
<1>1. size \in Nat /\ <<>> \in Seq(Byte)  BY KeyboardAssumption
<1>2. CASE queue[keyboardqueue] = <<>>
  BY <1>1, <1>2, ReadPassKeepsIInv DEF sys_read
<1>3. CASE queue[keyboardqueue] # <<>>
  <2> DEFINE kb == [kbinfo EXCEPT ![current] = [keystoread |-> size, keysread |-> 0]]
  <2>1. Yield(keyboardqueue, kb, uart_read_buffer, remaining_quantum)
    BY <1>3 DEF sys_read
  <2>2. remaining_quantum \in [Task -> 0 .. DEFAULT_RR_QUANTUM]  BY <1>0 DEF CPUOK
  <2>3. keyboardqueue \in Queue /\ lost' = lost  BY DEF Queue
  <2>4. CPUOK'  BY <2>1, <2>2, <2>3, YieldKeepsCPU
  <2>5. KeyboardTypeOK'
    <3>1. /\ kbinfo' = kb
          /\ keybuffer' = [keybuffer EXCEPT ![current] = <<>>]
          /\ uart_read_buffer' = uart_read_buffer
          /\ received' = received
      BY <1>3 DEF sys_read
    <3>2. KeyboardTypeOK  BY <1>0 DEF DataOK
    <3>3. kbinfo' \in [Task -> [keystoread : Nat, keysread : Nat]]
      BY <1>1, <3>1, <3>2 DEF KeyboardTypeOK
    <3>4. keybuffer' \in [Task -> Seq(Byte)]
      BY <1>1, <3>1, <3>2 DEF KeyboardTypeOK
    <3> QED  BY <3>1, <3>2, <3>3, <3>4 DEF KeyboardTypeOK, Byte
  <2>6. kernel_lr' \in [Task -> {"user", "read"} \cup Sem]
    BY <1>0, <1>3 DEF DataOK, sys_read
  <2>7. DataOK'
    BY <1>0, <2>5, <2>6 DEF DataOK, SemTypeOK, semVars, pidVars, sys_read
  <2> QED  BY <2>4, <2>7, IInvPartsNext
<1> QED  BY <1>2, <1>3

(* A reader that goes on with its loop.                                     *)
LEMMA ReadContinueKeepsIInv ==
  ASSUME IInv, read_continue, UNCHANGED <<semVars, lost>>
  PROVE  IInv'
<1>0. CPUOK /\ DataOK  BY IInvParts
<1>1. /\ kbinfo[current].keystoread \in Nat /\ kbinfo[current].keysread \in Nat
      /\ keybuffer[current] \in Seq(Byte)
  BY <1>0 DEF CPUOK, DataOK, KeyboardTypeOK
<1> QED  BY <1>1, ReadPassKeepsIInv DEF read_continue

(* A byte arrives.                                                          *)
LEMMA UartKeepsIInv ==
  ASSUME IInv, interrupt_uart_routine, UNCHANGED <<semVars, lost>>
  PROVE  IInv'
<1>0. CPUOK /\ DataOK  BY IInvParts
<1>1. CPUOK'  BY <1>0, SameCPU DEF interrupt_uart_routine
<1>2. KeyboardTypeOK'
  <2>1. received + 1 \in Byte /\ received + 1 \in 0 .. MaxInput
    BY <1>0, KeyboardAssumption DEF DataOK, KeyboardTypeOK, Byte, interrupt_uart_routine
  <2>2. uart_read_buffer' \in Seq(Byte)
    BY <1>0, <2>1, AppendLemma DEF DataOK, KeyboardTypeOK, interrupt_uart_routine
  <2> QED  BY <1>0, <2>1, <2>2 DEF DataOK, KeyboardTypeOK, Byte, interrupt_uart_routine
<1>3. DataOK'
  BY <1>0, <1>2 DEF DataOK, SemTypeOK, semVars, pidVars, interrupt_uart_routine
<1> QED  BY <1>1, <1>3, IInvPartsNext

(* The timer, the voluntary switch and exit.                                *)
LEMMA SwitchesKeepIInv ==
  ASSUME IInv, Timer \/ sys_DEBUG_tswitch \/ sys_exit, UNCHANGED <<semVars, kbVars, lost>>
  PROVE  IInv'
<1>0. CPUOK /\ DataOK  BY IInvParts
<1>1. readyqueue \in Queue /\ freequeue \in Queue  BY DEF Queue
<1>2. UNCHANGED <<kernel_lr, kbinfo, uart_read_buffer, pidVars>>
  BY DEF Timer, sys_DEBUG_tswitch, sys_exit
<1>3. DataOK'
  BY <1>0, <1>2 DEF DataOK, SemTypeOK, KeyboardTypeOK, semVars, kbVars, pidVars
<1>4. CPUOK'
  <2>1. remaining_quantum \in [Task -> 0 .. DEFAULT_RR_QUANTUM]  BY <1>0 DEF CPUOK
  <2>2. CASE sys_DEBUG_tswitch \/ sys_exit
    BY <2>1, <2>2, <1>1, YieldKeepsCPU DEF sys_DEBUG_tswitch, sys_exit
  <2>3. CASE Timer
    <3> DEFINE rem == [remaining_quantum EXCEPT ![current] = @ - 1]
    <3>1. /\ rem \in [Task -> 0 .. DEFAULT_RR_QUANTUM]
          /\ rem[current] = rr_quantum - 1
      <4>1. remaining_quantum[current] - 1 \in 0 .. DEFAULT_RR_QUANTUM
        BY <1>0, SchedAssumption DEF CPUOK, QuantumAgrees
      <4> QED  BY <4>1, <1>0 DEF CPUOK, QuantumAgrees
    <3>2. CASE rr_quantum - 1 = 0
      <4>1. Yield(readyqueue, kbinfo, uart_read_buffer, rem)
        BY <2>3, <3>2 DEF Timer
      <4> HIDE DEF rem
      <4> QED  BY <4>1, <3>1, <1>1, YieldKeepsCPU
    <3>3. CASE rr_quantum - 1 # 0
      <4>1. /\ rr_quantum' = rr_quantum - 1
            /\ remaining_quantum' = rem
            /\ UNCHANGED <<current, queue, process_state>>
        BY <2>3, <3>3 DEF Timer
      <4>2. rr_quantum' \in 1 .. DEFAULT_RR_QUANTUM
        BY <4>1, <3>3, <1>0, SchedAssumption DEF CPUOK
      <4> HIDE DEF rem
      <4> QED  BY <4>1, <4>2, <3>1, <1>0 DEF CPUOK, QuantumAgrees, WellLinked
    <3> QED  BY <3>2, <3>3
  <2> QED  BY <2>2, <2>3
<1> QED  BY <1>3, <1>4, IInvPartsNext

(* The system calls on semaphores.                                          *)
LEMMA SemaphoresKeepIInv ==
  ASSUME IInv, SemNext, UNCHANGED <<kbVars, lost>>
  PROVE  IInv'
<1>0. CPUOK /\ DataOK  BY IInvParts
<1> PICK s \in Sem :
      \/ \E value \in 0 .. MaxSemValue : sys_sem_init(s, value)
      \/ sys_sem_wait(s)
      \/ sem_wait_return(s)
      \/ sys_sem_signal(s)
      \/ sys_sem_destroy(s)
  BY DEF SemNext
<1>1. /\ UNCHANGED <<kbinfo, uart_read_buffer, pidVars>>
      /\ PID[current] \in Nat
  BY <1>0 DEF CPUOK, DataOK, sys_sem_init, sys_sem_wait, sem_wait_return,
              sys_sem_signal, sys_sem_destroy
<1>2. SemTypeOK  BY <1>0 DEF DataOK
<1>3. SUFFICES CPUOK' /\ SemTypeOK' /\ kernel_lr' \in [Task -> {"user", "read"} \cup Sem]
  BY <1>0, <1>1, IInvPartsNext DEF DataOK, KeyboardTypeOK, kbVars, pidVars
<1>4. kernel_lr \in [Task -> {"user", "read"} \cup Sem]  BY <1>0 DEF DataOK
<1>5. CASE \E value \in 0 .. MaxSemValue : sys_sem_init(s, value)
  <2>1. CPUOK'  BY <1>0, <1>5, InitListKeepsCPU DEF sys_sem_init
  <2>2. SemTypeOK'  BY <1>1, <1>2, <1>5, SemAssumption DEF SemTypeOK, sys_sem_init
  <2> QED  BY <2>1, <2>2, <1>4, <1>5 DEF sys_sem_init
<1>6. CASE sys_sem_wait(s)
  <2>1. CPUOK'
    <3>1. CASE sem_array[s].value <= 0
      <4>1. Yield(s, kbinfo, uart_read_buffer, remaining_quantum)
        BY <1>6, <3>1 DEF sys_sem_wait
      <4>2. s \in Queue /\ remaining_quantum \in [Task -> 0 .. DEFAULT_RR_QUANTUM]
        BY <1>0 DEF Queue, CPUOK
      <4> QED  BY <4>1, <4>2, YieldKeepsCPU
    <3>2. CASE ~ (sem_array[s].value <= 0)
      BY <1>0, <1>6, <3>2, SameCPU DEF sys_sem_wait
    <3> QED  BY <3>1, <3>2
  <2>2. SemTypeOK'
    <3>1. sem_array[s].value > 0 => sem_array[s].value - 1 \in Nat
      BY <1>2 DEF SemTypeOK
    <3> QED  BY <3>1, <1>2, <1>6 DEF SemTypeOK, sys_sem_wait
  <2> QED  BY <2>1, <2>2, <1>4, <1>6 DEF sys_sem_wait, switchVars
<1>7. CASE sem_wait_return(s)
  <2>1. CPUOK'  BY <1>0, <1>7, SameCPU DEF sem_wait_return
  <2>2. SemTypeOK'  BY <1>2, <1>7 DEF SemTypeOK, sem_wait_return
  <2> QED  BY <2>1, <2>2, <1>4, <1>7 DEF sem_wait_return
<1>8. CASE sys_sem_signal(s)
  <2>1. CPUOK'  BY <1>0, <1>8, SameCPU, SignalKeepsCPU DEF sys_sem_signal
  <2>2. SemTypeOK'
    <3>1. sem_array[s].value + 1 \in Nat  BY <1>2 DEF SemTypeOK
    <3>2. sem_array' \in [Sem -> [pid_owner : Nat \cup {NoOwner}, value : Nat]]
      BY <3>1, <1>2, <1>8 DEF SemTypeOK, sys_sem_signal
    <3>3. releasedBy' \in [Task -> {"none", "signal", "destroy"}]
      BY <1>2, <1>8 DEF SemTypeOK, sys_sem_signal
    <3> QED  BY <3>2, <3>3 DEF SemTypeOK
  <2> QED  BY <2>1, <2>2, <1>4, <1>8 DEF sys_sem_signal
<1>9. CASE sys_sem_destroy(s)
  <2>1. CPUOK'  BY <1>0, <1>9, DestroyKeepsCPU DEF sys_sem_destroy
  <2>2. SemTypeOK'  BY <1>2, <1>9 DEF SemTypeOK, sys_sem_destroy
  <2> QED  BY <2>1, <2>2, <1>4, <1>9 DEF sys_sem_destroy
<1> QED  BY <1>5, <1>6, <1>7, <1>8, <1>9
-----------------------------------------------------------------------------
(* The state after main() of the kernel.                                    *)
LEMMA InitIInv == Init => IInv
<1> SUFFICES ASSUME Init PROVE CPUOK /\ DataOK
  BY IInvParts
<1> USE SchedAssumption, KeyboardAssumption DEF Init, SchedInit, SemInit, KeyboardInit
<1>1. idle_task \in Task /\ task1 \in Task /\ idle_task # task1
  BY DEF Task, idle_task, task1
<1>2. WellLinked(queue, {current, idle_task} \cup lost)
  <2> DEFINE free == [i \in 1 .. NR_TASKS - 2 |-> i + 1]
  <2>1. free \in Seq(Task)
    <3>1. NR_TASKS - 2 \in Nat /\ \A i \in 1 .. NR_TASKS - 2 : i + 1 \in Task
      BY DEF Task
    <3> QED  BY <3>1
  <2>2. IsInjective(free) /\ ToSet(free) \cap {idle_task, task1} = {}
    BY DEF IsInjective, ToSet, idle_task, task1
  <2>3. <<>> \in Seq(Task) /\ ToSet(<<>>) = {} /\ IsInjective(<<>>)
    BY DEF ToSet, IsInjective
  <2>4. queue = [ls \in Queue |-> IF ls = freequeue THEN free ELSE <<>>]
    OBVIOUS
  <2> HIDE DEF free
  <2> QED  BY <2>1, <2>2, <2>3, <2>4 DEF WellLinked
<1>3. CPUOK
  <2>1. process_state \in [Task -> state_t]  BY DEF state_t
  <2>2. DEFAULT_RR_QUANTUM \in 1 .. DEFAULT_RR_QUANTUM /\ 0 \in 0 .. DEFAULT_RR_QUANTUM
    OBVIOUS
  <2> QED  BY <1>1, <1>2, <2>1, <2>2 DEF CPUOK, QuantumAgrees
<1>4. DataOK
  BY DEF DataOK, SemTypeOK, KeyboardTypeOK
<1> QED  BY <1>3, <1>4

(* Every step keeps the invariant.                                          *)
LEMMA NextIInv == IInv /\ [Next]_vars => IInv'
<1> SUFFICES ASSUME IInv, [Next]_vars PROVE IInv'
  OBVIOUS
<1>1. CASE Timer /\ UNCHANGED <<semVars, kbVars, lost>>
  BY <1>1, SwitchesKeepIInv
<1>2. CASE sys_DEBUG_tswitch /\ UNCHANGED <<semVars, kbVars, lost>>
  BY <1>2, SwitchesKeepIInv
<1>3. CASE SemNext /\ UNCHANGED <<kbVars, lost>>
  BY <1>3, SemaphoresKeepIInv
<1>4. CASE KeyboardNext /\ UNCHANGED <<semVars, lost>>
  BY <1>4, UartKeepsIInv, ReadKeepsIInv, ReadContinueKeepsIInv DEF KeyboardNext
<1>5. CASE sys_clone \/ sys_fork
  BY <1>5, NewTaskKeepsIInv DEF sys_clone, sys_fork
<1>6. CASE fork_fails
  BY <1>6, ForkFailsKeepsIInv
<1>7. CASE sys_exit
  BY <1>7, SwitchesKeepIInv DEF sys_exit
<1>8. CASE UNCHANGED vars
  <2>1. CPUOK /\ DataOK  BY IInvParts
  <2>2. CPUOK'  BY <2>1, <1>8, SameCPU DEF vars
  <2>3. DataOK'
    BY <2>1, <1>8 DEF DataOK, SemTypeOK, KeyboardTypeOK, vars, pidVars, semVars, kbVars
  <2> QED  BY <2>2, <2>3, IInvPartsNext
<1> QED
  BY <1>1, <1>2, <1>3, <1>4, <1>5, <1>6, <1>7, <1>8 DEF Next

(* The inductive invariant holds always.                                    *)
THEOREM Inductive == Spec => []IInv
BY InitIInv, NextIInv, PTL DEF Spec

(* No counter of the kernel leaves its range and no list holds anything but *)
(* tasks: the unsigned rr_quantum and remaining_quantum never wrap around.  *)
THEOREM TypeCorrect == Spec => []TypeOK
<1>1. IInv => TypeOK  BY DEF IInv
<1> QED  BY <1>1, Inductive, PTL

(* No task_struct is ever linked twice, and the running task, the idle task *)
(* and leaked task_structs are linked nowhere.                              *)
THEOREM ListsStayWellFormed == Spec => []LinkedOnce
<1>1. IInv => LinkedOnce  BY DEF IInv
<1> QED  BY <1>1, Inductive, PTL

(* remaining_quantum of the running task is what is left of its quantum.    *)
THEOREM QuantaAgree == Spec => []QuantumAgrees
<1>1. IInv => QuantumAgrees  BY DEF IInv
<1> QED  BY <1>1, Inductive, PTL
-----------------------------------------------------------------------------
(* What a task switch does to the lists, seen from outside: it takes        *)
(* nothing from the queue of a semaphore, and it runs the idle task only    *)
(* when no task is ready.                                                   *)
LEMMA YieldQueues ==
  ASSUME IInv, NEW ls \in Queue, NEW kb, NEW buf, NEW rem, Yield(ls, kb, buf, rem)
  PROVE  /\ \A s \in Sem : s # ls => queue'[s] = queue[s]
         /\ current' = idle_task => queue'[readyqueue] = <<>>
<1> DEFINE qs   == Enqueue(queue, ls, current, kb)
           from == PickQueue(qs, buf)
<1>0. CPUOK  BY IInvParts
<1>1. idle_task \in Task  BY SchedAssumption DEF Task, idle_task
<1>2. /\ WellLinked(qs, (({current, idle_task} \cup lost) \ {current}) \cup {idle_task})
      /\ \A q \in Queue : q # ls => qs[q] = queue[q]
  BY <1>0, <1>1, EnqueueLemma DEF CPUOK
<1>3. from = readyqueue \/ (from = keyboardqueue /\ qs[from] # <<>>)
  BY DEF PickQueue
<1>4. /\ queue' = Dequeue(qs, from)
      /\ current' = IF qs[from] = <<>> THEN idle_task ELSE Head(qs[from])
  BY DEF Yield, SwitchTo, task_switch
<1> HIDE DEF qs, from
<1>5. ASSUME NEW s \in Sem, s # ls
      PROVE  queue'[s] = queue[s]
  <2>1. s \in Queue /\ s # from  BY <1>3, SchedAssumption DEF Queue
  <2>2. qs \in [Queue -> Seq(Task)]  BY <1>2 DEF WellLinked
  <2>3. queue'[s] = qs[s]  BY <2>1, <2>2, <1>4 DEF Dequeue
  <2> QED  BY <2>1, <2>3, <1>2, <1>5
<1>6. ASSUME current' = idle_task
      PROVE  queue'[readyqueue] = <<>>
  <2>1. from \in Queue  BY <1>3 DEF Queue
  <2>2. qs[from] = <<>>
    <3> SUFFICES ASSUME qs[from] # <<>> PROVE FALSE
      OBVIOUS
    <3> DEFINE out == (({current, idle_task} \cup lost) \ {current}) \cup {idle_task}
    <3>0. idle_task \in out /\ WellLinked(qs, out)  BY <1>2
    <3> HIDE DEF out
    <3>1. Head(qs[from]) \in Task \ out
      BY <2>1, <3>0, DequeueLemma
    <3> QED  BY <3>0, <3>1, <1>4, <1>6
  <2> QED  BY <2>2, <1>3, <1>4 DEF Dequeue
<1> QED  BY <1>5, <1>6

(* What holds of waiters and of the idle task needs IInv beside it: only a  *)
(* running task in user code signals, and it is not the idle task.          *)
WaitInv == IInv /\ NoLostWakeup /\ WorkConserving

(* Leaving the CPU by sched_switch_process keeps both, if the queue the     *)
(* caller is linked into is one whose semaphore is at zero: the idle task   *)
(* is chosen only when readyqueue is empty.                                 *)
LEMMA YieldKeepsWaitInv ==
  ASSUME WaitInv, NEW ls \in Queue, NEW kb, NEW buf, NEW rem, Yield(ls, kb, buf, rem),
         sem_array' = sem_array, ls \in Sem => sem_array[ls].value = 0
  PROVE  NoLostWakeup' /\ WorkConserving'
<1>1. /\ \A s \in Sem : s # ls => queue'[s] = queue[s]
      /\ current' = idle_task => queue'[readyqueue] = <<>>
  BY YieldQueues DEF WaitInv
<1> QED  BY <1>1 DEF WaitInv, NoLostWakeup, WorkConserving

(* The operations on semaphores keep both (sys_sem_init to sys_sem_destroy).*)
LEMMA SemaphoresKeepWaitInv ==
  ASSUME WaitInv, SemNext
  PROVE  NoLostWakeup' /\ WorkConserving'
<1>0. /\ IInv /\ NoLostWakeup /\ WorkConserving /\ CPUOK /\ DataOK
      /\ queue \in [Queue -> Seq(Task)]
  BY IInvParts DEF WaitInv, CPUOK, WellLinked
<1> PICK s \in Sem :
      \/ \E value \in 0 .. MaxSemValue : sys_sem_init(s, value)
      \/ sys_sem_wait(s)
      \/ sem_wait_return(s)
      \/ sys_sem_signal(s)
      \/ sys_sem_destroy(s)
  BY DEF SemNext
<1>1. /\ s \in Queue /\ s # readyqueue /\ readyqueue \in Queue
      /\ Sem \subseteq Queue /\ readyqueue \notin Sem
  BY SchedAssumption DEF Queue
<1>2. SemTypeOK  BY <1>0 DEF DataOK
<1>3. CASE \E value \in 0 .. MaxSemValue : sys_sem_init(s, value)
  BY <1>0, <1>1, <1>2, <1>3
  DEF NoLostWakeup, WorkConserving, SemTypeOK, sys_sem_init
<1>4. CASE sys_sem_wait(s) /\ sem_array[s].value <= 0
  <2>1. Yield(s, kbinfo, uart_read_buffer, remaining_quantum) /\ sem_array' = sem_array
    BY <1>4 DEF sys_sem_wait
  <2>2. sem_array[s].value = 0  BY <1>2, <1>4 DEF SemTypeOK
  <2> QED  BY <2>1, <2>2, <1>1, YieldKeepsWaitInv
<1>5. CASE sys_sem_wait(s) /\ ~ (sem_array[s].value <= 0)
  <2>1. /\ sem_array' = [sem_array EXCEPT ![s].value = @ - 1]
        /\ queue' = queue /\ current' = current
    BY <1>5 DEF sys_sem_wait, switchVars
  <2>2. queue[s] = <<>>
    BY <1>0, <1>2, <1>5 DEF NoLostWakeup, SemTypeOK
  <2>3. \A r \in Sem \ {s} : sem_array'[r] = sem_array[r]
    BY <2>1, <1>2 DEF SemTypeOK
  <2>4. NoLostWakeup'  BY <1>0, <2>1, <2>2, <2>3 DEF NoLostWakeup
  <2>5. WorkConserving'  BY <1>0, <2>1 DEF WorkConserving
  <2> QED  BY <2>4, <2>5
<1>6. CASE sem_wait_return(s)
  BY <1>0, <1>6 DEF NoLostWakeup, WorkConserving, sem_wait_return, switchVars
<1>7. CASE sys_sem_signal(s) /\ queue[s] = <<>>
  BY <1>0, <1>1, <1>2, <1>7
  DEF NoLostWakeup, WorkConserving, SemTypeOK, sys_sem_signal, switchVars
<1>8. CASE sys_sem_signal(s) /\ queue[s] # <<>>
  BY <1>0, <1>1, <1>8
  DEF NoLostWakeup, WorkConserving, sys_sem_signal, WakeUp, InUser
<1>9. CASE sys_sem_destroy(s)
  BY <1>0, <1>1, <1>2, <1>9
  DEF NoLostWakeup, WorkConserving, SemTypeOK, sys_sem_destroy, WakeUp, InUser
<1> QED  BY <1>3, <1>4, <1>5, <1>6, <1>7, <1>8, <1>9

(* So does every step of the kernel.                                        *)
LEMMA NextWaitInv == WaitInv /\ [Next]_vars => WaitInv'
<1> SUFFICES ASSUME WaitInv, [Next]_vars PROVE NoLostWakeup' /\ WorkConserving'
  BY NextIInv DEF WaitInv
<1>0. /\ IInv /\ NoLostWakeup /\ WorkConserving /\ CPUOK
      /\ queue \in [Queue -> Seq(Task)]
  BY IInvParts DEF WaitInv, CPUOK, WellLinked
<1>1. /\ {freequeue, readyqueue, keyboardqueue} \subseteq Queue
      /\ {freequeue, readyqueue, keyboardqueue} \cap Sem = {}
      /\ freequeue # readyqueue
      /\ Sem \subseteq Queue
  BY SchedAssumption DEF Queue
<1>2. CASE UNCHANGED <<current, queue, sem_array>>
  BY <1>0, <1>2 DEF NoLostWakeup, WorkConserving
<1>3. ASSUME sem_array' = sem_array,
             NEW ls \in Queue \ Sem, NEW kb, NEW buf, NEW rem, Yield(ls, kb, buf, rem)
      PROVE  NoLostWakeup' /\ WorkConserving'
  BY <1>3, YieldKeepsWaitInv
<1>4. CASE Timer /\ UNCHANGED <<semVars, kbVars, lost>>
  BY <1>1, <1>2, <1>3, <1>4 DEF Timer, semVars
<1>5. CASE sys_DEBUG_tswitch /\ UNCHANGED <<semVars, kbVars, lost>>
  BY <1>1, <1>3, <1>5 DEF sys_DEBUG_tswitch, semVars
<1>6. CASE SemNext
  BY <1>6, SemaphoresKeepWaitInv
<1>7. CASE KeyboardNext /\ UNCHANGED <<semVars, lost>>
  <2>1. ASSUME NEW want, NEW had, NEW old, ReadPass(want, had, old)
        PROVE  NoLostWakeup' /\ WorkConserving'
    BY <1>1, <1>2, <1>3, <1>7, <2>1 DEF ReadPass, semVars, switchVars
  <2>2. CASE interrupt_uart_routine
    BY <1>2, <1>7, <2>2 DEF interrupt_uart_routine, semVars, switchVars
  <2>3. CASE \E size \in ReadSizes : sys_read(size)
    BY <1>1, <1>3, <1>7, <2>1, <2>3 DEF sys_read, semVars
  <2>4. CASE read_continue
    BY <2>1, <2>4 DEF read_continue
  <2> QED  BY <1>7, <2>2, <2>3, <2>4 DEF KeyboardNext
<1>8. CASE sys_clone \/ sys_fork
  BY <1>0, <1>1, <1>8
  DEF sys_clone, sys_fork, new_task, InUser, NoLostWakeup, WorkConserving, semVars
<1>9. CASE fork_fails
  BY <1>0, <1>1, <1>9 DEF fork_fails, NoLostWakeup, WorkConserving, semVars
<1>10. CASE sys_exit
  BY <1>1, <1>3, <1>10 DEF sys_exit, semVars
<1>11. CASE UNCHANGED vars
  BY <1>2, <1>11 DEF vars, switchVars, semVars
<1> QED
  BY <1>4, <1>5, <1>6, <1>7, <1>8, <1>9, <1>10, <1>11 DEF Next

(* After boot nobody waits, and task 1 runs (init_semarray, init_task1).    *)
LEMMA InitWaitInv == Init => WaitInv
<1>1. idle_task # task1  BY DEF idle_task, task1
<1> QED
  BY <1>1, InitIInv, SchedAssumption
  DEF WaitInv, Init, SchedInit, SemInit, NoLostWakeup, WorkConserving, Queue

(* WaitInv is an invariant of the kernel.                                   *)
LEMMA WaitInvAlways == Spec => []WaitInv
BY InitWaitInv, NextWaitInv, PTL DEF Spec

(* While a task waits for a semaphore no signal is unused: sys_sem_signal   *)
(* increments the value only when the queue is empty and sys_sem_wait       *)
(* blocks only at zero, whatever else runs in between.                      *)
THEOREM NoWakeupIsLost == Spec => []NoLostWakeup
<1>1. WaitInv => NoLostWakeup  BY DEF WaitInv
<1> QED  BY <1>1, WaitInvAlways, PTL

(* The CPU never idles while a task is ready, although the keyboard queue   *)
(* is looked at first.                                                      *)
THEOREM NeverIdlesInVain == Spec => []WorkConserving
<1>1. WaitInv => WorkConserving  BY DEF WaitInv
<1> QED  BY <1>1, WaitInvAlways, PTL
-----------------------------------------------------------------------------
(***************************************************************************)
(* Where the tasks are: no task drops out of the lists, each waits where   *)
(* it is linked, nobody wakes up without a reason, and PIDs tell the tasks *)
(* apart.  The lists count as sets of tasks here.                          *)
(***************************************************************************)
(* What has been linked into a list, without regard to the order.           *)
LEMMA EnqueueMembers ==
  ASSUME NEW qs \in [Queue -> Seq(Task)], NEW ls \in Queue, NEW t \in Task \ {idle_task}, NEW kb
  PROVE  \A u : u \in ToSet(Enqueue(qs, ls, t, kb)[ls]) <=> u \in ToSet(qs[ls]) \/ u = t
<1>1. qs[ls] \in Seq(Task)
  OBVIOUS
<1>2. \/ Enqueue(qs, ls, t, kb)[ls] = Append(qs[ls], t)
      \/ Enqueue(qs, ls, t, kb)[ls] = <<t>> \o qs[ls]
  BY DEF Enqueue
<1>3. /\ ToSet(Append(qs[ls], t)) = ToSet(qs[ls]) \cup {t}
      /\ ToSet(<<t>> \o qs[ls]) = ToSet(qs[ls]) \cup {t}
  BY <1>1, AppendLemma, ConsLemma
<1> QED  BY <1>2, <1>3

(* The running task leaves the CPU: it joins the list ls, and the next one, *)
(* if it is not the idle task, leaves readyqueue or keyboardqueue.          *)
LEMMA YieldMembers ==
  ASSUME IInv, NEW ls \in Queue, NEW kb, NEW buf, NEW rem, Yield(ls, kb, buf, rem)
  PROVE  /\ \A l \in Queue : \A u :
              u \in ToSet(queue'[l]) <=> /\ u \in ToSet(queue[l]) \/ (l = ls /\ u = current)
                                         /\ u # current' /\ u # idle_task
         /\ \/ current' = idle_task
            \/ current' \in ToSet(queue[readyqueue]) \cup ToSet(queue[keyboardqueue])
            \/ current' = current /\ ls \in {readyqueue, keyboardqueue}
<1> DEFINE qs   == Enqueue(queue, ls, current, kb)
           from == PickQueue(qs, buf)
           out  == (({current, idle_task} \cup lost) \ {current}) \cup {idle_task}
<1>0. CPUOK
  BY IInvParts
<1>1. idle_task \in Task /\ current \in Task
  BY <1>0, SchedAssumption DEF Task, idle_task, CPUOK
<1>2. queue \in [Queue -> Seq(Task)] /\ WellLinked(qs, out)
  <2>1. WellLinked(queue, {current, idle_task} \cup lost)
    BY <1>0 DEF CPUOK
  <2>2. WellLinked(qs, out)
    BY <1>1, <2>1, EnqueueLemma
  <2> QED  BY <2>1, <2>2 DEF WellLinked
<1>3. \A l \in Queue : \A u :
        u \in ToSet(qs[l]) <=> /\ u \in ToSet(queue[l]) \/ (l = ls /\ u = current)
                               /\ u # idle_task
  <2> SUFFICES ASSUME NEW l \in Queue, NEW u
               PROVE  u \in ToSet(qs[l]) <=> /\ u \in ToSet(queue[l]) \/ (l = ls /\ u = current)
                                             /\ u # idle_task
    OBVIOUS
  <2>1. idle_task \notin ToSet(queue[l])
    BY <1>0 DEF CPUOK, WellLinked
  <2>2. CASE current = idle_task \/ l # ls
    <3>1. qs[l] = queue[l]
      BY <1>2, <2>2 DEF Enqueue
    <3> HIDE DEF qs
    <3> QED  BY <2>1, <2>2, <3>1
  <2>3. CASE current # idle_task /\ l = ls
    <3>1. \A v : v \in ToSet(qs[ls]) <=> v \in ToSet(queue[ls]) \/ v = current
      BY <1>1, <1>2, <2>3, EnqueueMembers
    <3> HIDE DEF qs
    <3> QED  BY <2>1, <2>3, <3>1
  <2> QED  BY <2>2, <2>3
<1>4. /\ queue' = Dequeue(qs, from)
      /\ current' = IF qs[from] = <<>> THEN idle_task ELSE Head(qs[from])
  BY DEF Yield, SwitchTo, task_switch
<1>5. from \in Queue /\ from \in {readyqueue, keyboardqueue}
  BY DEF PickQueue, Queue
<1>6. idle_task \in out
  OBVIOUS
<1> HIDE DEF qs, from, out
<1>7. CASE qs[from] = <<>>
  BY <1>3, <1>4, <1>7 DEF Dequeue
<1>8. CASE qs[from] # <<>>
  <2>1. /\ Head(qs[from]) \in Task \ out
        /\ qs \in [Queue -> Seq(Task)]
        /\ ToSet(qs[from]) = ToSet(Tail(qs[from])) \cup {Head(qs[from])}
        /\ Head(qs[from]) \notin ToSet(Tail(qs[from]))
    <3>1. qs[from] \in Seq(Task) /\ IsInjective(qs[from])
      BY <1>2, <1>5 DEF WellLinked
    <3> QED  BY <3>1, <1>2, <1>5, <1>8, DequeueLemma, TailLemma DEF WellLinked
  <2>2. \A l \in Queue : l # from => Head(qs[from]) \notin ToSet(qs[l])
    BY <2>1, <1>2, <1>5 DEF WellLinked
  <2>3. \A l \in Queue : \A u : u \in ToSet(queue'[l]) <=> u \in ToSet(qs[l]) /\ u # current'
    <3> SUFFICES ASSUME NEW l \in Queue
                 PROVE  \A u : u \in ToSet(queue'[l]) <=> u \in ToSet(qs[l]) /\ u # current'
      OBVIOUS
    <3>1. CASE l = from
      BY <3>1, <1>4, <1>5, <1>8, <2>1 DEF Dequeue
    <3>2. CASE l # from
      BY <3>2, <1>4, <1>5, <1>8, <2>1, <2>2 DEF Dequeue
    <3> QED  BY <3>1, <3>2
  <2>4. current' \in ToSet(qs[from]) /\ current' # idle_task
    BY <1>4, <1>6, <1>8, <2>1
  <2>5. current' \in ToSet(queue[from]) \/ (from = ls /\ current' = current)
    BY <1>3, <1>5, <2>4
  <2>6. \A l \in Queue : \A u :
          u \in ToSet(queue'[l]) <=> /\ u \in ToSet(queue[l]) \/ (l = ls /\ u = current)
                                     /\ u # current' /\ u # idle_task
    BY <1>3, <2>3
  <2> QED  BY <1>5, <2>5, <2>6
<1> QED  BY <1>7, <1>8

(* A wake-up, seen from outside: what is linked where.                      *)
LEMMA WakeUpMembers ==
  ASSUME IInv, NEW s \in Sem, NEW woken \in Seq(Task), NEW rest \in Seq(Task),
         WakeUp(s, woken, rest)
  PROVE  \A l \in Queue : \A u :
           u \in ToSet(queue'[l]) <=> \/ l = s /\ u \in ToSet(rest)
                                      \/ l # s /\ u \in ToSet(queue[l])
                                      \/ l = readyqueue /\ u \in ToSet(woken)
<1>1. /\ queue \in [Queue -> Seq(Task)]
      /\ s \in Queue /\ readyqueue \in Queue /\ s # readyqueue
  BY IInvParts, SchedAssumption DEF CPUOK, WellLinked, Queue
<1>2. queue[readyqueue] \in Seq(Task)
  BY <1>1
<1> DEFINE ready == queue[readyqueue] \o woken
<1>3. \A u : u \in ToSet(ready) <=> u \in ToSet(queue[readyqueue]) \/ u \in ToSet(woken)
  BY <1>2, ConcatLemma
<1>4. /\ queue'[s] = rest /\ queue'[readyqueue] = ready
      /\ \A l \in Queue \ {s, readyqueue} : queue'[l] = queue[l]
  BY <1>1 DEF WakeUp
<1> HIDE DEF ready
<1> QED  BY <1>1, <1>3, <1>4

(* The first free task_struct leaves freequeue.                             *)
LEMMA NewPcbMembers ==
  ASSUME IInv, queue[freequeue] # <<>>
  PROVE  /\ new_pcb \in ToSet(queue[freequeue])
         /\ \A u : u \in ToSet(Tail(queue[freequeue]))
                   <=> u \in ToSet(queue[freequeue]) /\ u # new_pcb
<1>1. queue[freequeue] \in Seq(Task) /\ IsInjective(queue[freequeue])
  BY IInvParts DEF CPUOK, WellLinked, Queue
<1> QED  BY <1>1, TailLemma DEF new_pcb

(* sys_clone and a sys_fork that succeeds: it moves to readyqueue.          *)
LEMMA NewTaskMembers ==
  ASSUME IInv, queue[freequeue] # <<>>, new_task
  PROVE  \A l \in Queue : \A u :
           u \in ToSet(queue'[l]) <=> IF u = new_pcb THEN l = readyqueue
                                                    ELSE u \in ToSet(queue[l])
<1>1. WellLinked(queue, {current, idle_task} \cup lost)
  BY IInvParts DEF CPUOK
<1>2. /\ queue \in [Queue -> Seq(Task)]
      /\ freequeue \in Queue /\ readyqueue \in Queue /\ freequeue # readyqueue
  BY <1>1, SchedAssumption DEF WellLinked, Queue
<1>3. /\ new_pcb \in Task /\ new_pcb \in ToSet(queue[freequeue])
      /\ \A u : u \in ToSet(Tail(queue[freequeue])) <=> u \in ToSet(queue[freequeue]) /\ u # new_pcb
      /\ \A l \in Queue : l # freequeue => new_pcb \notin ToSet(queue[l])
  <2>1. new_pcb \in Task
    BY IInvParts, NewPcb
  <2>2. /\ new_pcb \in ToSet(queue[freequeue])
        /\ \A u : u \in ToSet(Tail(queue[freequeue])) <=> u \in ToSet(queue[freequeue]) /\ u # new_pcb
    BY NewPcbMembers
  <2> QED  BY <1>1, <1>2, <2>1, <2>2 DEF WellLinked
<1> DEFINE ready == Append(queue[readyqueue], new_pcb)
<1>4. \A u : u \in ToSet(ready) <=> u \in ToSet(queue[readyqueue]) \/ u = new_pcb
  BY <1>2, <1>3, AppendLemma
<1>5. /\ queue'[freequeue] = Tail(queue[freequeue]) /\ queue'[readyqueue] = ready
      /\ \A l \in Queue \ {freequeue, readyqueue} : queue'[l] = queue[l]
  BY <1>2 DEF new_task
<1> HIDE DEF ready, new_pcb
<1> QED  BY <1>2, <1>3, <1>4, <1>5
-----------------------------------------------------------------------------
(* The inductive invariant.  Where the tasks are and what they wait for     *)
(* depend on each other: sys_sem_init empties a list without looking at it, *)
(* which loses nobody because a semaphore that is not initialised has no    *)
(* waiters, and the idle task never waits for anything.                     *)
PlaceInv ==
  /\ IInv
  /\ NoneDropped
  /\ WaitsWhereLinked
  /\ NoSpuriousWakeup
  /\ kernel_lr[idle_task] = "user"

(* What the steps change of it, in one piece.                               *)
Places == /\ NoneDropped
          /\ WaitsWhereLinked
          /\ NoSpuriousWakeup
          /\ kernel_lr[idle_task] = "user"

(* The lists are told apart, and from the other values of kernel_lr.        *)
LEMMA Names ==
  /\ {freequeue, readyqueue, keyboardqueue} \subseteq Queue /\ Sem \subseteq Queue
  /\ {freequeue, readyqueue, keyboardqueue, "user", "read"} \cap Sem = {}
  /\ freequeue # readyqueue /\ freequeue # keyboardqueue /\ readyqueue # keyboardqueue
  /\ idle_task \in Task
BY SchedAssumption DEF Queue, Task, idle_task

(* Leaving the CPU keeps all of it, when the task notes in its kernel_lr    *)
(* what it is linked to wait for.                                           *)
LEMMA YieldKeepsPlaces ==
  ASSUME PlaceInv, NEW ls \in Queue, NEW kb, NEW buf, NEW rem, Yield(ls, kb, buf, rem),
         lost' = lost, sem_array' = sem_array, releasedBy' = releasedBy,
         NEW lr,
         \A t \in Task : kernel_lr'[t] = IF t = current THEN lr ELSE kernel_lr[t],
         \A t \in Task \ {current} : kbinfo'[t] = kbinfo[t],
         lr = "user" \/ current # idle_task,
         ls = keyboardqueue <=> lr = "read",
         ls = keyboardqueue => kbinfo'[current].keystoread > 0,
         \A s \in Sem : ls = s <=> lr = s,
         \A s \in Sem : ls = s => Initialised(s)
  PROVE  Places'
<1>1. /\ \A l \in Queue : \A u :
           u \in ToSet(queue'[l]) <=> /\ u \in ToSet(queue[l]) \/ (l = ls /\ u = current)
                                      /\ u # current' /\ u # idle_task
      /\ \/ current' = idle_task
         \/ current' \in ToSet(queue[readyqueue]) \cup ToSet(queue[keyboardqueue])
         \/ current' = current /\ ls \in {readyqueue, keyboardqueue}
  BY YieldMembers DEF PlaceInv
<1>2. /\ WellLinked(queue, {current, idle_task} \cup lost)
      /\ current \in Task
  BY IInvParts DEF PlaceInv, CPUOK
<1>3. NoneDropped'
  BY <1>1, <1>2, Names DEF PlaceInv, NoneDropped, Linked
<1>4. kernel_lr'[idle_task] = "user"
  BY <1>2, Names DEF PlaceInv
<1>5. WaitsWhereLinked'
  <2>0. WaitsWhereLinked
    BY DEF PlaceInv
  <2>1. ASSUME NEW t \in Task, NEW l \in Queue, Linked(t, l)'
        PROVE  (Linked(t, l) /\ t # current) \/ (l = ls /\ t = current)
    <3>1. Linked(t, l) \/ (l = ls /\ t = current)
      BY <1>1, <2>1 DEF Linked
    <3>2. ~ Linked(current, l)
      BY <1>2 DEF Linked, WellLinked
    <3> QED  BY <3>1, <3>2
  <2>2. ASSUME NEW s \in Sem, NEW t \in Task, Linked(t, s)'
        PROVE  kernel_lr'[t] = s /\ Initialised(s)'
    BY <2>0, <2>1, <2>2, Names DEF WaitsWhereLinked, Initialised
  <2>3. ASSUME NEW t \in Task, Linked(t, keyboardqueue)'
        PROVE  kernel_lr'[t] = "read" /\ kbinfo'[t].keystoread > 0
    BY <2>0, <2>1, <2>3, Names DEF WaitsWhereLinked
  <2>4. ASSUME NEW t \in Task, kernel_lr'[t] = "read"
        PROVE  t = current' \/ Linked(t, keyboardqueue)'
    <3>1. t # idle_task
      BY <1>4, <2>4
    <3>2. (t = current /\ ls = keyboardqueue) \/ Linked(t, keyboardqueue)
      BY <2>0, <2>4 DEF WaitsWhereLinked
    <3> QED  BY <1>1, <3>1, <3>2, Names DEF Linked
  <2> QED  BY <2>2, <2>3, <2>4 DEF WaitsWhereLinked
<1>6. NoSpuriousWakeup'
  <2> SUFFICES ASSUME NEW t \in Task, NEW s \in Sem, kernel_lr'[t] = s, t \notin ToSet(queue'[s])
               PROVE  releasedBy[t] # "none"
    BY DEF NoSpuriousWakeup, Linked
  <2>1. t # idle_task /\ s \in Queue /\ s \notin {readyqueue, keyboardqueue}
    BY <1>4, Names
  <2>2. current' \notin ToSet(queue[s])
    BY <1>1, <1>2, <2>1, Names DEF WellLinked
  <2>3. CASE t = current
    <3>1. ls = s /\ current' = current
      BY <1>1, <2>1, <2>3
    <3> QED  BY <1>1, <1>2, <2>1, <2>3, <3>1, Names DEF WellLinked
  <2>4. CASE t # current
    <3>1. t \notin ToSet(queue[s])
      BY <1>1, <2>1, <2>2
    <3> QED  BY <2>4, <3>1 DEF PlaceInv, NoSpuriousWakeup, Linked
  <2> QED  BY <2>3, <2>4
<1> QED  BY <1>3, <1>4, <1>5, <1>6 DEF Places

(* A wake-up by sys_sem_signal or sys_sem_destroy, which notes it in        *)
(* releasedBy.                                                              *)
LEMMA WakeUpKeepsPlaces ==
  ASSUME PlaceInv, NEW s \in Sem, NEW woken \in Seq(Task), NEW rest \in Seq(Task),
         WakeUp(s, woken, rest),
         \A u : u \in ToSet(queue[s]) <=> u \in ToSet(woken) \/ u \in ToSet(rest),
         \A u \in ToSet(woken) : releasedBy'[u] # "none",
         \A u \in Task \ ToSet(woken) : releasedBy'[u] = releasedBy[u],
         \A r \in Sem : Initialised(r) /\ queue'[r] # <<>> => Initialised(r)',
         UNCHANGED <<kernel_lr, kbinfo, lost>>
  PROVE  Places'
<1>1. \A l \in Queue : \A u :
        u \in ToSet(queue'[l]) <=> \/ l = s /\ u \in ToSet(rest)
                                   \/ l # s /\ u \in ToSet(queue[l])
                                   \/ l = readyqueue /\ u \in ToSet(woken)
  BY WakeUpMembers DEF PlaceInv
<1>2. current' = current
  BY DEF WakeUp
<1>3. NoneDropped'
  BY <1>1, <1>2, Names DEF PlaceInv, NoneDropped, Linked
<1>4. \A l \in Queue : \A u \in ToSet(queue'[l]) : queue'[l] # <<>>
  BY DEF ToSet
<1>5. ASSUME NEW r \in Sem, NEW u \in ToSet(queue'[r])
      PROVE  u \in ToSet(queue[r])
  BY <1>1, <1>5, Names
<1>6. WaitsWhereLinked'
  <2>1. ASSUME NEW r \in Sem, NEW t \in Task, t \in ToSet(queue'[r])
        PROVE  kernel_lr'[t] = r /\ Initialised(r)'
    BY <2>1, <1>4, <1>5, Names DEF PlaceInv, WaitsWhereLinked, Linked
  <2>2. \A t \in Task : t \in ToSet(queue'[keyboardqueue]) <=> t \in ToSet(queue[keyboardqueue])
    BY <1>1, Names
  <2> QED  BY <1>2, <2>1, <2>2 DEF PlaceInv, WaitsWhereLinked, Linked
<1>7. NoSpuriousWakeup'
  <2> SUFFICES ASSUME NEW t \in Task, NEW r \in Sem, kernel_lr[t] = r, t \notin ToSet(queue'[r])
               PROVE  releasedBy'[t] # "none"
    BY DEF NoSpuriousWakeup, Linked
  <2>1. CASE t \in ToSet(queue[r])
    BY <1>1, <2>1, Names
  <2>2. CASE t \notin ToSet(queue[r])
    BY <2>2 DEF PlaceInv, NoSpuriousWakeup, Linked
  <2> QED  BY <2>1, <2>2
<1> QED  BY <1>3, <1>6, <1>7 DEF PlaceInv, Places

(* Steps that link and unlink nobody, and let a running task go on.         *)
LEMMA SamePlaces ==
  ASSUME PlaceInv, UNCHANGED <<queue, current, lost>>,
         \A s \in Sem : Initialised(s)' <=> Initialised(s),
         \A t \in Task \ {current} : /\ releasedBy'[t] = releasedBy[t]
                                     /\ kernel_lr'[t] = kernel_lr[t]
                                     /\ kbinfo'[t] = kbinfo[t],
         \/ /\ kernel_lr'[current] = kernel_lr[current]
            /\ releasedBy'[current] = releasedBy[current]
         \/ kernel_lr'[current] = "user"
  PROVE  Places'
<1>1. \A ls \in Queue : current \notin ToSet(queue[ls])
  BY IInvParts DEF PlaceInv, CPUOK, WellLinked
<1>2. \A s \in Sem : s # "user"
  BY Names
<1>3. \A t : \A ls : Linked(t, ls)' <=> Linked(t, ls)
  BY DEF Linked
<1>4. \A ls \in Queue : ~ Linked(current, ls)
  BY <1>1 DEF Linked
<1>5. NoneDropped'
  BY <1>3 DEF PlaceInv, NoneDropped
<1>6. WaitsWhereLinked'
  BY <1>3, <1>4, Names DEF PlaceInv, WaitsWhereLinked
<1>7. NoSpuriousWakeup'
  BY <1>2, <1>3, Names DEF PlaceInv, NoSpuriousWakeup
<1>8. kernel_lr'[idle_task] = "user"
  BY Names DEF PlaceInv
<1> QED  BY <1>5, <1>6, <1>7, <1>8 DEF Places

(* The operations on semaphores.                                            *)
LEMMA SemaphoresKeepPlaces ==
  ASSUME PlaceInv, SemNext, UNCHANGED <<kbVars, lost>>
  PROVE  Places'
<1>0. /\ CPUOK /\ SemTypeOK /\ kernel_lr \in [Task -> {"user", "read"} \cup Sem]
      /\ current \in Task /\ queue \in [Queue -> Seq(Task)]
      /\ kbinfo \in [Task -> [keystoread : Nat, keysread : Nat]]
  BY IInvParts DEF PlaceInv, CPUOK, DataOK, WellLinked, KeyboardTypeOK
<1> PICK s \in Sem :
      \/ \E value \in 0 .. MaxSemValue : sys_sem_init(s, value)
      \/ sys_sem_wait(s)
      \/ sem_wait_return(s)
      \/ sys_sem_signal(s)
      \/ sys_sem_destroy(s)
  BY DEF SemNext
<1>1. kbinfo' = kbinfo /\ lost' = lost
  BY DEF sys_sem_init, sys_sem_wait, sem_wait_return, sys_sem_signal, sys_sem_destroy
<1>2. CASE \E value \in 0 .. MaxSemValue : sys_sem_init(s, value)
  <2>1. PICK value \in 0 .. MaxSemValue : sys_sem_init(s, value)
    BY <1>2
  <2>2. queue[s] = <<>>
    <3> SUFFICES ASSUME queue[s] # <<>> PROVE FALSE
      OBVIOUS
    <3>1. queue[s] \in Seq(Task)
      BY <1>0, Names
    <3>2. Head(queue[s]) \in ToSet(queue[s]) /\ Head(queue[s]) \in Task
      BY <3>1, TailLemma
    <3> QED  BY <2>1, <3>2 DEF PlaceInv, WaitsWhereLinked, Linked, sys_sem_init
  <2>3. queue' = queue
    BY <1>0, <2>1, <2>2, Names DEF sys_sem_init
  <2>4. \A r \in Sem : Initialised(r) => Initialised(r)'
    BY <1>0, <2>1 DEF sys_sem_init, SemTypeOK, Initialised
  <2>5. /\ \A t : \A ls : Linked(t, ls)' <=> Linked(t, ls)
        /\ UNCHANGED <<current, kernel_lr, releasedBy>>
    BY <2>1, <2>3 DEF Linked, sys_sem_init
  <2> QED  BY <1>1, <2>4, <2>5 DEF PlaceInv, Places, NoneDropped, WaitsWhereLinked, NoSpuriousWakeup
<1>3. CASE sys_sem_wait(s) /\ sem_array[s].value <= 0
  <2>1. /\ Yield(s, kbinfo, uart_read_buffer, remaining_quantum)
        /\ sem_array' = sem_array /\ releasedBy' = releasedBy
        /\ Initialised(s) /\ current # idle_task
        /\ kernel_lr' = [kernel_lr EXCEPT ![current] = s]
    BY <1>3 DEF sys_sem_wait, InUser
  <2>2. \A t \in Task : kernel_lr'[t] = IF t = current THEN s ELSE kernel_lr[t]
    BY <1>0, <2>1
  <2> QED  BY <1>1, <2>1, <2>2, Names, YieldKeepsPlaces
<1>4. CASE sys_sem_wait(s) /\ ~ (sem_array[s].value <= 0)
  <2>1. /\ sem_array' = [sem_array EXCEPT ![s].value = @ - 1]
        /\ UNCHANGED <<kernel_lr, releasedBy, queue, current>>
    BY <1>4 DEF sys_sem_wait, switchVars
  <2>2. \A r \in Sem : Initialised(r)' <=> Initialised(r)
    BY <1>0, <2>1 DEF SemTypeOK, Initialised
  <2> QED  BY <1>1, <2>1, <2>2, SamePlaces
<1>5. CASE sem_wait_return(s)
  <2>1. /\ UNCHANGED <<sem_array, queue, current>>
        /\ kernel_lr' = [kernel_lr EXCEPT ![current] = "user"]
        /\ releasedBy' = [releasedBy EXCEPT ![current] = "none"]
    BY <1>5 DEF sem_wait_return, switchVars
  <2>2. \A r \in Sem : Initialised(r)' <=> Initialised(r)
    BY <2>1 DEF Initialised
  <2>3. \A t \in Task \ {current} : releasedBy'[t] = releasedBy[t] /\ kernel_lr'[t] = kernel_lr[t]
    BY <1>0, <2>1 DEF SemTypeOK
  <2> QED  BY <1>0, <1>1, <2>1, <2>2, <2>3, SamePlaces
<1>6. CASE sys_sem_signal(s) /\ queue[s] = <<>>
  <2>1. /\ sem_array' = [sem_array EXCEPT ![s].value = @ + 1]
        /\ UNCHANGED <<kernel_lr, releasedBy, queue, current>>
    BY <1>6 DEF sys_sem_signal, switchVars
  <2>2. \A r \in Sem : Initialised(r)' <=> Initialised(r)
    BY <1>0, <2>1 DEF SemTypeOK, Initialised
  <2> QED  BY <1>1, <2>1, <2>2, SamePlaces
<1>7. CASE sys_sem_signal(s) /\ queue[s] # <<>>
  <2> DEFINE first == Head(queue[s])
  <2>1. /\ WakeUp(s, <<first>>, Tail(queue[s]))
        /\ releasedBy' = [releasedBy EXCEPT ![first] = "signal"]
        /\ UNCHANGED <<sem_array, kernel_lr>>
    BY <1>7 DEF sys_sem_signal
  <2>2. queue[s] \in Seq(Task)
    BY <1>0, Names
  <2>3. /\ first \in Task /\ Tail(queue[s]) \in Seq(Task)
        /\ \A u : u \in ToSet(queue[s]) <=> u = first \/ u \in ToSet(Tail(queue[s]))
    BY <1>7, <2>2, TailLemma
  <2> HIDE DEF first
  <2>4. <<first>> \in Seq(Task) /\ \A u : u \in ToSet(<<first>>) <=> u = first
    BY <2>3 DEF ToSet
  <2>5. /\ releasedBy'[first] # "none"
        /\ \A u \in Task \ {first} : releasedBy'[u] = releasedBy[u]
    BY <1>0, <2>1, <2>3 DEF SemTypeOK
  <2>6. \A r \in Sem : Initialised(r)' <=> Initialised(r)
    BY <2>1 DEF Initialised
  <2> QED  BY <1>1, <2>1, <2>3, <2>4, <2>5, <2>6, WakeUpKeepsPlaces
<1>8. CASE sys_sem_destroy(s)
  <2>1. /\ WakeUp(s, queue[s], <<>>)
        /\ releasedBy' = [t \in Task |-> IF t \in ToSet(queue[s]) THEN "destroy" ELSE releasedBy[t]]
        /\ sem_array' = [sem_array EXCEPT ![s].pid_owner = NoOwner]
        /\ kernel_lr' = kernel_lr
    BY <1>8 DEF sys_sem_destroy
  <2>2. queue[s] \in Seq(Task) /\ <<>> \in Seq(Task) /\ \A u : u \notin ToSet(<<>>)
    BY <1>0, Names DEF ToSet
  <2>3. \A u \in ToSet(queue[s]) : u \in Task
    BY <2>2 DEF ToSet
  <2>4. \A r \in Sem : Initialised(r) /\ queue'[r] # <<>> => Initialised(r)'
    BY <1>0, <2>1, Names DEF SemTypeOK, Initialised, WakeUp
  <2> QED  BY <1>1, <2>1, <2>2, <2>3, <2>4, WakeUpKeepsPlaces
<1> QED  BY <1>2, <1>3, <1>4, <1>5, <1>6, <1>7, <1>8

(* One pass of the loop of sys_read_uart, by a task other than the idle one.*)
LEMMA ReadPassKeepsPlaces ==
  ASSUME PlaceInv, NEW want \in Nat, NEW had, NEW old, ReadPass(want, had, old),
         current # idle_task, UNCHANGED <<semVars, lost>>
  PROVE  Places'
<1> DEFINE n    == Taken(want)
           rest == SubSeq(uart_read_buffer, n + 1, Len(uart_read_buffer))
           kb   == [kbinfo EXCEPT ![current] = [keystoread |-> want - n, keysread |-> had + n]]
<1>0. /\ current \in Task /\ kernel_lr \in [Task -> {"user", "read"} \cup Sem]
      /\ uart_read_buffer \in Seq(Byte)
      /\ kbinfo \in [Task -> [keystoread : Nat, keysread : Nat]]
  BY IInvParts DEF PlaceInv, CPUOK, DataOK, KeyboardTypeOK
<1>1. n \in Nat /\ n <= want
  BY <1>0 DEF Taken
<1>2. kbinfo' = kb /\ sem_array' = sem_array /\ releasedBy' = releasedBy /\ lost' = lost
  BY DEF ReadPass, semVars
<1>3. /\ \A t \in Task \ {current} : kbinfo'[t] = kbinfo[t]
      /\ kbinfo'[current].keystoread = want - n
  BY <1>0, <1>2
<1>4. CASE n = want
  <2>1. /\ kernel_lr' = [kernel_lr EXCEPT ![current] = "user"]
        /\ queue' = queue /\ current' = current
    BY <1>4 DEF ReadPass, switchVars
  <2>2. \A s \in Sem : Initialised(s)' <=> Initialised(s)
    BY <1>2 DEF Initialised
  <2> QED  BY <1>0, <1>2, <1>3, <2>1, <2>2, SamePlaces
<1>5. CASE n # want
  <2>1. /\ kernel_lr' = [kernel_lr EXCEPT ![current] = "read"]
        /\ Yield(keyboardqueue, kb, rest, remaining_quantum)
    BY <1>5 DEF ReadPass
  <2> HIDE DEF n, kb, rest
  <2>2. want - n > 0
    BY <1>1, <1>5
  <2>3. \A t \in Task : kernel_lr'[t] = IF t = current THEN "read" ELSE kernel_lr[t]
    BY <1>0, <2>1
  <2> QED  BY <1>2, <1>3, <2>1, <2>2, <2>3, Names, YieldKeepsPlaces
<1> QED  BY <1>4, <1>5

(* The UART interrupt and sys_read.                                         *)
LEMMA KeyboardKeepsPlaces ==
  ASSUME PlaceInv, KeyboardNext, UNCHANGED <<semVars, lost>>
  PROVE  Places'
<1>0. /\ current \in Task /\ kernel_lr \in [Task -> {"user", "read"} \cup Sem]
      /\ kbinfo \in [Task -> [keystoread : Nat, keysread : Nat]]
  BY IInvParts DEF PlaceInv, CPUOK, DataOK, KeyboardTypeOK
<1>1. CASE interrupt_uart_routine
  <2>1. UNCHANGED <<queue, current, lost, sem_array, releasedBy, kernel_lr, kbinfo>>
    BY <1>1 DEF interrupt_uart_routine, switchVars, semVars
  <2>2. \A s \in Sem : Initialised(s)' <=> Initialised(s)
    BY <2>1 DEF Initialised
  <2> QED  BY <2>1, <2>2, SamePlaces
<1>2. CASE \E size \in ReadSizes : sys_read(size)
  <2> PICK size \in ReadSizes : sys_read(size)
    BY <1>2
  <2>0. current # idle_task /\ size \in Nat /\ size > 0
    BY KeyboardAssumption DEF sys_read, InUser
  <2>1. CASE queue[keyboardqueue] = <<>>
    BY <2>0, <2>1, ReadPassKeepsPlaces DEF sys_read
  <2>2. CASE queue[keyboardqueue] # <<>>
    <3> DEFINE kb == [kbinfo EXCEPT ![current] = [keystoread |-> size, keysread |-> 0]]
    <3>1. /\ kbinfo' = kb
          /\ kernel_lr' = [kernel_lr EXCEPT ![current] = "read"]
          /\ Yield(keyboardqueue, kb, uart_read_buffer, remaining_quantum)
      BY <2>2 DEF sys_read
    <3>2. /\ \A t \in Task \ {current} : kbinfo'[t] = kbinfo[t]
          /\ kbinfo'[current].keystoread = size
      BY <1>0, <3>1
    <3> HIDE DEF kb
    <3>3. \A t \in Task : kernel_lr'[t] = IF t = current THEN "read" ELSE kernel_lr[t]
      BY <1>0, <3>1
    <3>4. sem_array' = sem_array /\ releasedBy' = releasedBy
      BY DEF semVars
    <3> QED  BY <2>0, <3>1, <3>2, <3>3, <3>4, Names, YieldKeepsPlaces
  <2> QED  BY <2>1, <2>2
<1>3. CASE read_continue
  <2>1. current # idle_task
    BY <1>3 DEF read_continue, PlaceInv
  <2>2. kbinfo[current].keystoread \in Nat
    BY <1>0
  <2> QED  BY <1>3, <2>1, <2>2, ReadPassKeepsPlaces DEF read_continue
<1> QED  BY <1>1, <1>2, <1>3 DEF KeyboardNext

(* The timer, the voluntary switch and exit.                                *)
LEMMA SwitchesKeepPlaces ==
  ASSUME PlaceInv, Timer \/ sys_DEBUG_tswitch \/ sys_exit, UNCHANGED <<semVars, kbVars, lost>>
  PROVE  Places'
<1>1. /\ UNCHANGED <<kernel_lr, kbinfo, sem_array, releasedBy>>
      /\ kernel_lr[current] = "user"
  BY DEF Timer, sys_DEBUG_tswitch, sys_exit, semVars, InUser, Interruptible
<1>2. ASSUME NEW ls \in {readyqueue, freequeue}, NEW rem,
             Yield(ls, kbinfo, uart_read_buffer, rem)
      PROVE  Places'
  <2>1. \A t \in Task : kernel_lr'[t] = IF t = current THEN "user" ELSE kernel_lr[t]
    BY <1>1
  <2> QED  BY <1>1, <1>2, <2>1, Names, YieldKeepsPlaces
<1>3. CASE UNCHANGED <<queue, current>>
  <2>1. \A s \in Sem : Initialised(s)' <=> Initialised(s)
    BY <1>1 DEF Initialised
  <2> QED  BY <1>1, <1>3, <2>1, SamePlaces
<1> QED  BY <1>2, <1>3 DEF Timer, sys_DEBUG_tswitch, sys_exit

(* A new task, or one a failing fork leaks.                                 *)
LEMMA CreationKeepsPlaces ==
  ASSUME PlaceInv, sys_clone \/ sys_fork \/ fork_fails
  PROVE  Places'
<1>0. /\ kernel_lr \in [Task -> {"user", "read"} \cup Sem]
      /\ queue \in [Queue -> Seq(Task)] /\ queue[freequeue] # <<>>
      /\ WellLinked(queue, {current, idle_task} \cup lost)
      /\ new_pcb \in Task \ ({current, idle_task} \cup lost)
  BY IInvParts, NewPcb
  DEF PlaceInv, CPUOK, DataOK, WellLinked, sys_clone, sys_fork, fork_fails
<1>1. /\ new_pcb \in ToSet(queue[freequeue])
      /\ \A u : u \in ToSet(Tail(queue[freequeue])) <=> u \in ToSet(queue[freequeue]) /\ u # new_pcb
  BY <1>0, NewPcbMembers DEF PlaceInv
<1>2. \A l \in Queue : l # freequeue => new_pcb \notin ToSet(queue[l])
  BY <1>0, <1>1, Names DEF WellLinked
<1>3. CASE new_task
  <2>1. \A l \in Queue : \A u :
          u \in ToSet(queue'[l]) <=> IF u = new_pcb THEN l = readyqueue ELSE u \in ToSet(queue[l])
    BY <1>0, <1>3, NewTaskMembers DEF PlaceInv
  <2>2. /\ current' = current /\ lost' = lost
        /\ sem_array' = sem_array /\ releasedBy' = releasedBy
        /\ kernel_lr' = [kernel_lr EXCEPT ![new_pcb] = "user"]
        /\ kbinfo' = [kbinfo EXCEPT ![new_pcb] = kbinfo[current]]
    BY <1>3 DEF new_task, semVars
  <2> HIDE DEF new_pcb
  <2>3. \A t \in Task \ {new_pcb} : kernel_lr'[t] = kernel_lr[t] /\ kbinfo'[t] = kbinfo[t]
    BY <1>0, <2>2, IInvParts DEF PlaceInv, DataOK, KeyboardTypeOK
  <2>4. kernel_lr'[new_pcb] = "user"
    BY <1>0, <2>2
  <2>5. NoneDropped'
    BY <2>1, <2>2, Names DEF PlaceInv, NoneDropped, Linked
  <2>6. WaitsWhereLinked'
    <3>0. WaitsWhereLinked
      BY DEF PlaceInv
    <3>1. ASSUME NEW t \in Task, NEW l \in Queue, l # readyqueue
          PROVE  Linked(t, l)' <=> t # new_pcb /\ Linked(t, l)
      BY <2>1, <3>1 DEF Linked
    <3>2. ASSUME NEW s \in Sem, NEW t \in Task, Linked(t, s)'
          PROVE  kernel_lr'[t] = s /\ Initialised(s)'
      BY <2>2, <2>3, <3>0, <3>1, <3>2, Names DEF WaitsWhereLinked, Initialised
    <3>3. ASSUME NEW t \in Task, Linked(t, keyboardqueue)'
          PROVE  kernel_lr'[t] = "read" /\ kbinfo'[t].keystoread > 0
      BY <2>3, <3>0, <3>1, <3>3, Names DEF WaitsWhereLinked
    <3>4. ASSUME NEW t \in Task, kernel_lr'[t] = "read"
          PROVE  t = current' \/ Linked(t, keyboardqueue)'
      BY <2>2, <2>3, <2>4, <3>0, <3>1, <3>4, Names DEF WaitsWhereLinked
    <3> QED  BY <3>2, <3>3, <3>4 DEF WaitsWhereLinked
  <2>7. NoSpuriousWakeup'
    BY <2>1, <2>2, <2>3, <2>4, Names DEF PlaceInv, NoSpuriousWakeup, Linked
  <2> QED  BY <1>0, <2>2, <2>3, <2>5, <2>6, <2>7, Names DEF PlaceInv, Places
<1>4. CASE fork_fails
  <2>1. /\ queue' = [queue EXCEPT ![freequeue] = Tail(@)]
        /\ lost' = lost \cup {new_pcb}
        /\ UNCHANGED <<current, kernel_lr, kbinfo, sem_array, releasedBy>>
    BY <1>4 DEF fork_fails, semVars
  <2> HIDE DEF new_pcb
  <2>2. \A l \in Queue : \A u : u \in ToSet(queue'[l]) <=> u \in ToSet(queue[l]) /\ u # new_pcb
    BY <1>0, <1>1, <1>2, <2>1, Names
  <2>3. \A l \in Queue : l # freequeue => queue'[l] = queue[l]
    BY <1>0, <2>1
  <2>4. NoneDropped'
    BY <2>1, <2>2 DEF PlaceInv, NoneDropped, Linked
  <2>5. WaitsWhereLinked'
    BY <2>1, <2>3, Names DEF PlaceInv, WaitsWhereLinked, Linked, Initialised
  <2>6. NoSpuriousWakeup'
    BY <2>1, <2>3, Names DEF PlaceInv, NoSpuriousWakeup, Linked
  <2> QED  BY <2>1, <2>4, <2>5, <2>6 DEF PlaceInv, Places
<1> QED  BY <1>3, <1>4 DEF sys_clone, sys_fork

(* Every step of the kernel keeps it.                                       *)
LEMMA NextPlaceInv == PlaceInv /\ [Next]_vars => PlaceInv'
<1> SUFFICES ASSUME PlaceInv, [Next]_vars PROVE Places'
  BY NextIInv DEF PlaceInv, Places
<1>1. CASE Timer /\ UNCHANGED <<semVars, kbVars, lost>>
  BY <1>1, SwitchesKeepPlaces
<1>2. CASE sys_DEBUG_tswitch /\ UNCHANGED <<semVars, kbVars, lost>>
  BY <1>2, SwitchesKeepPlaces
<1>3. CASE SemNext /\ UNCHANGED <<kbVars, lost>>
  BY <1>3, SemaphoresKeepPlaces
<1>4. CASE KeyboardNext /\ UNCHANGED <<semVars, lost>>
  BY <1>4, KeyboardKeepsPlaces
<1>5. CASE sys_clone \/ sys_fork \/ fork_fails
  BY <1>5, CreationKeepsPlaces
<1>6. CASE sys_exit
  BY <1>6, SwitchesKeepPlaces DEF sys_exit
<1>7. CASE UNCHANGED vars
  <2>1. UNCHANGED <<queue, current, lost, sem_array, releasedBy, kernel_lr, kbinfo>>
    BY <1>7 DEF vars, switchVars, semVars
  <2>2. \A s \in Sem : Initialised(s)' <=> Initialised(s)
    BY <2>1 DEF Initialised
  <2> QED  BY <2>1, <2>2, SamePlaces
<1> QED
  BY <1>1, <1>2, <1>3, <1>4, <1>5, <1>6, <1>7 DEF Next

(* After boot the idle task and task 1 are out of freequeue, and nobody     *)
(* waits.                                                                   *)
LEMMA InitPlaceInv == Init => PlaceInv
<1> SUFFICES ASSUME Init PROVE Places
  BY InitIInv DEF PlaceInv, Places
<1> USE SchedAssumption DEF Init, SchedInit, SemInit, KeyboardInit
<1>1. \A t \in Task : kernel_lr[t] = "user"
  OBVIOUS
<1>2. /\ \A s \in Sem : queue[s] = <<>>
      /\ queue[keyboardqueue] = <<>>
  BY DEF Queue
<1>3. ToSet(<<>>) = {}
  BY DEF ToSet
<1>4. NoneDropped
  <2> SUFFICES ASSUME NEW t \in Task, t # idle_task, t # task1
               PROVE  t \in ToSet(queue[freequeue]) /\ freequeue \in Queue
    BY DEF NoneDropped, Linked
  <2> DEFINE free == [i \in 1 .. NR_TASKS - 2 |-> i + 1]
  <2>1. freequeue \in Queue /\ queue[freequeue] = free
    BY DEF Queue
  <2>2. t - 1 \in 1 .. NR_TASKS - 2
    BY DEF Task, idle_task, task1
  <2>3. DOMAIN free = 1 .. NR_TASKS - 2 /\ free[t - 1] = t
    BY <2>2 DEF Task
  <2> QED  BY <2>1, <2>2, <2>3 DEF ToSet
<1>5. WaitsWhereLinked
  BY <1>1, <1>2, <1>3 DEF WaitsWhereLinked, Linked
<1>6. NoSpuriousWakeup
  BY <1>1 DEF NoSpuriousWakeup
<1> QED  BY <1>1, <1>4, <1>5, <1>6, Names DEF Places

(* PlaceInv is an invariant of the kernel.                                  *)
LEMMA PlaceInvAlways == Spec => []PlaceInv
BY InitPlaceInv, NextPlaceInv, PTL DEF Spec

(* No task_struct disappears from the lists, whatever fork, exit, semaphores*)
(* and reads do with them; only a fork that fails keeps one.                *)
THEOREM NobodyIsDropped == Spec => []NoneDropped
<1>1. PlaceInv => NoneDropped
  BY DEF PlaceInv
<1> QED  BY <1>1, PlaceInvAlways, PTL

(* A task is linked where it waits: in the queue of the initialised         *)
(* semaphore it is blocked in, or in keyboardqueue inside sys_read_uart.    *)
THEOREM TasksWaitWhereLinked == Spec => []WaitsWhereLinked
<1>1. PlaceInv => WaitsWhereLinked
  BY DEF PlaceInv
<1> QED  BY <1>1, PlaceInvAlways, PTL

(* A task leaves the queue of a semaphore only because a signal or destroy  *)
(* took it out.                                                             *)
THEOREM WakeupsAreCaused == Spec => []NoSpuriousWakeup
<1>1. PlaceInv => NoSpuriousWakeup
  BY DEF PlaceInv
<1> QED  BY <1>1, PlaceInvAlways, PTL
-----------------------------------------------------------------------------
(* PIDs grow: lastPID is the largest one in use, and freequeue hands out    *)
(* only task_structs that no living task has.                               *)
PIDInv ==
  /\ IInv
  /\ PIDsDiffer
  /\ \A t \in Task : PID[t] <= lastPID

(* What a step does to the PIDs: it brings at most one task_struct to life, *)
(* and gives it a PID that no task has had before.                          *)
PIDsGrow ==
  /\ lastPID <= lastPID'
  /\ \A t \in Task : PID'[t] <= lastPID'
  /\ \A t \in Alive' : \/ t \in Alive /\ PID'[t] = PID[t]
                       \/ t = new_pcb /\ PID'[t] > lastPID

(* Steps that give nobody a PID and bring nobody to life.                   *)
LEMMA SamePIDs ==
  ASSUME PIDInv, UNCHANGED <<PID, lastPID, lost>>,
         \A u \in Task : u \in ToSet(queue[freequeue]) => u \in ToSet(queue'[freequeue])
  PROVE  PIDsGrow
BY IInvParts DEF PIDInv, PIDsGrow, Alive, Linked, DataOK

(* Every step of the kernel does only that.                                 *)
LEMMA NewPIDsAreNew == PIDInv /\ [Next]_vars => PIDsGrow
<1> SUFFICES ASSUME PIDInv, [Next]_vars PROVE PIDsGrow
  OBVIOUS
<1>0. /\ IInv /\ WellLinked(queue, {current, idle_task} \cup lost)
      /\ queue \in [Queue -> Seq(Task)]
      /\ PID \in [Task -> Nat] /\ lastPID \in Nat
  BY IInvParts DEF PIDInv, CPUOK, DataOK, WellLinked
<1>1. ASSUME UNCHANGED <<queue, PID, lastPID, lost>>
      PROVE  PIDsGrow
  BY <1>1, SamePIDs
<1>2. ASSUME UNCHANGED <<PID, lastPID, lost>>,
             NEW ls \in Queue, NEW kb, NEW buf, NEW rem, Yield(ls, kb, buf, rem)
      PROVE  PIDsGrow
  <2>1. /\ \A l \in Queue : \A u :
             u \in ToSet(queue'[l]) <=> /\ u \in ToSet(queue[l]) \/ (l = ls /\ u = current)
                                        /\ u # current' /\ u # idle_task
        /\ \/ current' = idle_task
           \/ current' \in ToSet(queue[readyqueue]) \cup ToSet(queue[keyboardqueue])
           \/ current' = current /\ ls \in {readyqueue, keyboardqueue}
    BY <1>0, <1>2, YieldMembers
  <2> QED  BY <1>0, <1>2, <2>1, SamePIDs, Names DEF WellLinked
<1>3. ASSUME UNCHANGED <<PID, lastPID, lost>>, queue'[freequeue] = queue[freequeue]
      PROVE  PIDsGrow
  BY <1>3, SamePIDs
<1>4. CASE Timer /\ UNCHANGED <<semVars, kbVars, lost>>
  BY <1>1, <1>2, <1>4, Names DEF Timer, pidVars
<1>5. CASE sys_DEBUG_tswitch /\ UNCHANGED <<semVars, kbVars, lost>>
  BY <1>2, <1>5, Names DEF sys_DEBUG_tswitch, pidVars
<1>6. CASE SemNext /\ UNCHANGED <<kbVars, lost>>
  <2> PICK s \in Sem :
        \/ \E value \in 0 .. MaxSemValue : sys_sem_init(s, value)
        \/ sys_sem_wait(s)
        \/ sem_wait_return(s)
        \/ sys_sem_signal(s)
        \/ sys_sem_destroy(s)
    BY <1>6 DEF SemNext
  <2>1. s # freequeue /\ freequeue # readyqueue /\ s \in Queue /\ freequeue \in Queue
    BY Names
  <2>2. ASSUME NEW woken, NEW rest, WakeUp(s, woken, rest)
        PROVE  queue'[freequeue] = queue[freequeue]
    BY <1>0, <2>1, <2>2 DEF WakeUp
  <2>3. UNCHANGED <<PID, lastPID, lost>>
    BY <1>6 DEF sys_sem_init, sys_sem_wait, sem_wait_return, sys_sem_signal,
                sys_sem_destroy, pidVars
  <2>4. CASE sys_sem_wait(s)
    BY <1>1, <1>2, <2>1, <2>3, <2>4 DEF sys_sem_wait, switchVars
  <2>5. CASE sem_wait_return(s)
    BY <1>1, <2>3, <2>5 DEF sem_wait_return, switchVars
  <2>6. CASE \E value \in 0 .. MaxSemValue : sys_sem_init(s, value)
    BY <1>0, <1>3, <2>1, <2>3, <2>6 DEF sys_sem_init
  <2>7. CASE sys_sem_signal(s) \/ sys_sem_destroy(s)
    BY <1>1, <1>3, <2>2, <2>3, <2>7 DEF sys_sem_signal, sys_sem_destroy, switchVars
  <2> QED  BY <2>4, <2>5, <2>6, <2>7
<1>7. CASE KeyboardNext /\ UNCHANGED <<semVars, lost>>
  <2>1. ASSUME NEW want, NEW had, NEW old, ReadPass(want, had, old), UNCHANGED <<PID, lastPID>>
        PROVE  PIDsGrow
    BY <1>1, <1>2, <1>7, <2>1, Names DEF ReadPass, switchVars
  <2>2. CASE interrupt_uart_routine
    BY <1>1, <1>7, <2>2 DEF interrupt_uart_routine, switchVars, pidVars
  <2>3. CASE \E size \in ReadSizes : sys_read(size)
    BY <1>2, <1>7, <2>1, <2>3, Names DEF sys_read, pidVars
  <2>4. CASE read_continue
    BY <2>1, <2>4 DEF read_continue, pidVars
  <2> QED  BY <1>7, <2>2, <2>3, <2>4 DEF KeyboardNext
<1>8. CASE sys_clone \/ sys_fork
  <2>1. /\ queue[freequeue] # <<>> /\ new_task
        /\ PID' = [PID EXCEPT ![new_pcb] = lastPID + 1]
        /\ lastPID' = lastPID + 1 /\ lost' = lost
    BY <1>8 DEF sys_clone, sys_fork, new_task
  <2>2. /\ new_pcb \in Task
        /\ \A u : u \in ToSet(queue'[freequeue]) <=> u # new_pcb /\ u \in ToSet(queue[freequeue])
    BY <1>0, <2>1, IInvParts, NewPcb, NewTaskMembers, Names
  <2> HIDE DEF new_pcb
  <2>3. /\ PID'[new_pcb] = lastPID + 1
        /\ \A t \in Task \ {new_pcb} : PID'[t] = PID[t] /\ PID[t] < lastPID + 1
    BY <1>0, <2>1, <2>2 DEF PIDInv
  <2>4. \A t \in Task : PID'[t] <= lastPID'
    BY <1>0, <2>1, <2>2, <2>3
  <2>5. ASSUME NEW t \in Alive', t # new_pcb PROVE t \in Alive /\ PID'[t] = PID[t]
    BY <2>1, <2>2, <2>3, <2>5 DEF Alive, Linked
  <2> QED  BY <1>0, <2>1, <2>3, <2>4, <2>5 DEF PIDsGrow
<1>9. CASE fork_fails
  <2>1. /\ queue' = [queue EXCEPT ![freequeue] = Tail(@)] /\ lost' = lost \cup {new_pcb}
        /\ UNCHANGED <<PID, lastPID>> /\ queue[freequeue] # <<>>
    BY <1>9 DEF fork_fails, pidVars
  <2>2. \A u : u \in ToSet(queue'[freequeue]) <=> u \in ToSet(queue[freequeue]) /\ u # new_pcb
    BY <1>0, <2>1, NewPcbMembers, Names
  <2> HIDE DEF new_pcb
  <2> QED  BY <1>0, <2>1, <2>2 DEF PIDInv, PIDsGrow, Alive, Linked
<1>10. CASE sys_exit
  BY <1>2, <1>10, Names DEF sys_exit, pidVars
<1>11. CASE UNCHANGED vars
  BY <1>1, <1>11 DEF vars, switchVars, pidVars
<1> QED
  BY <1>4, <1>5, <1>6, <1>7, <1>8, <1>9, <1>10, <1>11 DEF Next

(* The inductive invariant is kept.                                         *)
LEMMA NextPIDInv == PIDInv /\ [Next]_vars => PIDInv'
<1> SUFFICES ASSUME PIDInv, [Next]_vars PROVE PIDsDiffer' /\ \A t \in Task : PID'[t] <= lastPID'
  BY NextIInv DEF PIDInv
<1>1. PIDsGrow
  BY NewPIDsAreNew
<1>2. ASSUME NEW t \in Alive PROVE PID[t] <= lastPID /\ PID[t] \in Nat /\ lastPID \in Nat
  BY IInvParts DEF PIDInv, DataOK, Alive
<1> QED  BY <1>1, <1>2 DEF PIDInv, PIDsGrow, PIDsDiffer

(* After boot two tasks exist, with the PIDs 0 and 1.                       *)
LEMMA InitPIDInv == Init => PIDInv
<1> SUFFICES ASSUME Init PROVE PIDsDiffer /\ \A t \in Task : PID[t] <= lastPID
  BY InitIInv DEF PIDInv
<1> USE SchedAssumption DEF Init, SchedInit
<1>1. \A t \in Task : t \in {idle_task, task1} \/ Linked(t, freequeue)
  <2>1. /\ current = task1 /\ lost = {}
        /\ \A ls \in Queue : ls # freequeue => queue[ls] = <<>>
    OBVIOUS
  <2>2. \A ls \in Queue : ls # freequeue => ToSet(queue[ls]) = {}
    BY <2>1 DEF ToSet
  <2> QED  BY <2>1, <2>2, InitPlaceInv DEF PlaceInv, NoneDropped, Linked
<1> QED  BY <1>1, Names DEF PIDsDiffer, Alive, idle_task, task1

(* The tasks that exist have different PIDs: the owner of a semaphore is    *)
(* one task, and nobody else passes the check of sys_sem_destroy.           *)
THEOREM PIDsTellTasksApart == Spec => []PIDsDiffer
<1>1. PIDInv => PIDsDiffer
  BY DEF PIDInv
<1> QED  BY <1>1, InitPIDInv, NextPIDInv, PTL DEF Spec
-----------------------------------------------------------------------------
(***************************************************************************)
(* What becomes of semaphores whose owner has ended.                       *)
(***************************************************************************)
(* The PIDs remembered in sem_array are of tasks that have existed.         *)
OwnerInv ==
  /\ PIDInv
  /\ \A s \in Sem : sem_array[s].pid_owner <= lastPID

(* The running task exists, and a semaphore is only given to it when nobody *)
(* has it, or taken from it when it has it.                                 *)
LEMMA OwnersChange ==
  ASSUME PIDInv, [Next]_vars
  PROVE  /\ current \in Alive
         /\ \A s \in Sem :
              \/ sem_array'[s].pid_owner = sem_array[s].pid_owner
              \/ ~ Initialised(s) /\ sem_array'[s].pid_owner = PID[current]
              \/ sem_array[s].pid_owner = PID[current] /\ sem_array'[s].pid_owner = NoOwner
<1>0. CPUOK /\ SemTypeOK
  BY IInvParts DEF PIDInv, DataOK
<1>1. current \in Alive
  BY <1>0, Names DEF CPUOK, WellLinked, Alive, Linked
<1>2. ASSUME UNCHANGED sem_array
      PROVE  \A s \in Sem : sem_array'[s].pid_owner = sem_array[s].pid_owner
  BY <1>2
<1>3. CASE SemNext /\ UNCHANGED <<kbVars, lost>>
  <2> PICK r \in Sem :
        \/ \E value \in 0 .. MaxSemValue : sys_sem_init(r, value)
        \/ sys_sem_wait(r)
        \/ sem_wait_return(r)
        \/ sys_sem_signal(r)
        \/ sys_sem_destroy(r)
    BY <1>3 DEF SemNext
  <2>1. ASSUME NEW value \in 0 .. MaxSemValue, sys_sem_init(r, value)
        PROVE  \A s \in Sem :
                 \/ sem_array'[s].pid_owner = sem_array[s].pid_owner
                 \/ ~ Initialised(s) /\ sem_array'[s].pid_owner = PID[current]
    BY <1>0, <2>1 DEF sys_sem_init, SemTypeOK
  <2>2. CASE sys_sem_wait(r) \/ sem_wait_return(r) \/ sys_sem_signal(r)
    BY <1>0, <1>1, <2>2 DEF sys_sem_wait, sem_wait_return, sys_sem_signal, SemTypeOK
  <2>3. CASE sys_sem_destroy(r)
    BY <1>0, <1>1, <2>3 DEF sys_sem_destroy, SemTypeOK
  <2> QED  BY <1>1, <2>1, <2>2, <2>3
<1>4. CASE \/ Timer /\ UNCHANGED <<semVars, kbVars, lost>>
           \/ sys_DEBUG_tswitch /\ UNCHANGED <<semVars, kbVars, lost>>
           \/ KeyboardNext /\ UNCHANGED <<semVars, lost>>
           \/ UNCHANGED vars
  BY <1>1, <1>2, <1>4 DEF vars, semVars
<1>5. CASE sys_clone \/ sys_fork
  BY <1>1, <1>2, <1>5 DEF sys_clone, sys_fork, new_task, semVars
<1>6. CASE fork_fails \/ sys_exit
  BY <1>1, <1>2, <1>6 DEF fork_fails, sys_exit, semVars
<1> QED
  BY <1>3, <1>4, <1>5, <1>6 DEF Next

(* Every step of the kernel keeps the invariant.                            *)
LEMMA NextOwnerInv == OwnerInv /\ [Next]_vars => OwnerInv'
<1> SUFFICES ASSUME OwnerInv, [Next]_vars, NEW s \in Sem
             PROVE  sem_array'[s].pid_owner <= lastPID'
  BY NextPIDInv DEF OwnerInv
<1>1. /\ lastPID <= lastPID' /\ PID[current] <= lastPID /\ PID[current] \in Nat
      /\ lastPID \in Nat /\ lastPID' \in Nat
      /\ sem_array[s].pid_owner <= lastPID /\ sem_array[s].pid_owner \in Nat \cup {NoOwner}
  BY NewPIDsAreNew, NextPIDInv, OwnersChange, IInvParts, IInvPartsNext
     DEF OwnerInv, PIDInv, PIDsGrow, DataOK, SemTypeOK, Alive
<1>2. \/ sem_array'[s].pid_owner = sem_array[s].pid_owner
      \/ sem_array'[s].pid_owner = PID[current]
      \/ sem_array'[s].pid_owner = NoOwner
  BY OwnersChange DEF OwnerInv
<1> QED  BY <1>1, <1>2 DEF NoOwner

(* It holds after boot, and so always.                                      *)
LEMMA OwnerInvAlways == Spec => []OwnerInv
<1>1. Init => OwnerInv
  <2> SUFFICES ASSUME Init PROVE OwnerInv
    OBVIOUS
  <2>1. PIDInv /\ lastPID \in Nat
    BY InitPIDInv, IInvParts DEF PIDInv, DataOK
  <2> QED  BY <2>1 DEF OwnerInv, Init, SemInit, NoOwner
<1> QED  BY <1>1, NextOwnerInv, PTL DEF Spec

(* A semaphore whose owner has ended keeps it as its owner for ever, and    *)
(* nobody who comes later is taken for the owner.                           *)
THEOREM OrphansAreNotInherited == Spec => OrphansStay
<1> DEFINE Kept == \A s \in Sem : Orphaned(s) =>
                     Orphaned(s)' /\ sem_array'[s].pid_owner = sem_array[s].pid_owner
<1>1. OwnerInv /\ [Next]_vars => Kept
  <2> SUFFICES ASSUME OwnerInv, [Next]_vars, NEW s \in Sem, Orphaned(s)
               PROVE  Orphaned(s)' /\ sem_array'[s].pid_owner = sem_array[s].pid_owner
    OBVIOUS
  <2>1. sem_array'[s].pid_owner = sem_array[s].pid_owner
    BY OwnersChange DEF OwnerInv, Orphaned
  <2>2. PIDsGrow /\ sem_array[s].pid_owner <= lastPID
    BY NewPIDsAreNew DEF OwnerInv
  <2>3. ASSUME NEW t \in Alive' PROVE PID'[t] # sem_array[s].pid_owner
    <3>1. /\ lastPID \in Nat /\ PID'[t] \in Nat
          /\ sem_array[s].pid_owner \in Nat \cup {NoOwner}
      BY <2>3, NextPIDInv, IInvParts, IInvPartsNext
         DEF OwnerInv, PIDInv, DataOK, SemTypeOK, Alive
    <3>2. CASE t \in Alive /\ PID'[t] = PID[t]
      BY <3>2 DEF Orphaned
    <3>3. CASE PID'[t] > lastPID
      BY <2>2, <3>1, <3>3 DEF NoOwner
    <3> QED  BY <2>2, <2>3, <3>2, <3>3 DEF PIDsGrow
  <2> QED  BY <2>1, <2>3 DEF Orphaned, Initialised
<1> QED  BY <1>1, OwnerInvAlways, PTL DEF Spec, OrphansStay
=============================================================================
