---------------------------- MODULE OrderProofs ----------------------------
(***************************************************************************)
(* Proofs about Kernel that need the order in its lists: first come first  *)
(* served, and what blocking reads receive.  The last theorem is that the  *)
(* kernel implements LineDiscipline.                                       *)
(***************************************************************************)
EXTENDS KernelProofs

(* Before, of a sequence: t1 is in q and t2 is behind it, or not in q.      *)
Ahead(q, t1, t2) ==
  \E i \in DOMAIN q : q[i] = t1 /\ \A j \in DOMAIN q : q[j] = t2 => i < j

(* list_add_tail.                                                           *)
LEMMA AheadAppend ==
  ASSUME NEW q \in Seq(Task), NEW t \in Task, NEW t1, NEW t2, Ahead(q, t1, t2)
  PROVE  Ahead(Append(q, t), t1, t2)
<1>1. /\ DOMAIN Append(q, t) = 1 .. Len(q) + 1
      /\ \A i \in 1 .. Len(q) : Append(q, t)[i] = q[i]
      /\ DOMAIN q = 1 .. Len(q) /\ Len(q) \in Nat
  OBVIOUS
<1> QED  BY <1>1 DEF Ahead

(* list_add, of another task.                                               *)
LEMMA AheadCons ==
  ASSUME NEW q \in Seq(Task), NEW t \in Task, NEW t1, NEW t2, Ahead(q, t1, t2), t # t2
  PROVE  Ahead(<<t>> \o q, t1, t2)
<1> DEFINE c == <<t>> \o q
<1>1. /\ DOMAIN c = 1 .. Len(q) + 1
      /\ c[1] = t
      /\ \A i \in 2 .. Len(q) + 1 : c[i] = q[i - 1]
      /\ DOMAIN q = 1 .. Len(q) /\ Len(q) \in Nat
  OBVIOUS
<1> HIDE DEF c
<1>2. PICK i \in DOMAIN q : q[i] = t1 /\ \A j \in DOMAIN q : q[j] = t2 => i < j
  BY DEF Ahead
<1>3. i + 1 \in DOMAIN c /\ c[i + 1] = t1
  BY <1>1, <1>2
<1>4. ASSUME NEW j \in DOMAIN c, c[j] = t2
      PROVE  i + 1 < j
  <2>1. j \in 2 .. Len(q) + 1 /\ j - 1 \in DOMAIN q
    BY <1>1, <1>4
  <2> QED  BY <1>1, <1>2, <1>4, <2>1
<1> QED  BY <1>3, <1>4 DEF Ahead, c

(* list_del of the first task: what is behind a task that stays, stays too. *)
LEMMA AheadTail ==
  ASSUME NEW q \in Seq(Task), q # <<>>, IsInjective(q), NEW t1, NEW t2,
         Ahead(q, t1, t2), t1 \in ToSet(Tail(q))
  PROVE  Ahead(Tail(q), t1, t2) /\ (t2 \in ToSet(q) => t2 \in ToSet(Tail(q)))
<1> DEFINE r == Tail(q)
<1>1. /\ Len(q) \in Nat \ {0}
      /\ DOMAIN q = 1 .. Len(q)
      /\ DOMAIN r = 1 .. Len(q) - 1
      /\ \A i \in 1 .. Len(q) - 1 : r[i] = q[i + 1]
  OBVIOUS
<1> HIDE DEF r
<1>2. PICK i \in DOMAIN q : q[i] = t1 /\ \A j \in DOMAIN q : q[j] = t2 => i < j
  BY DEF Ahead
<1>3. PICK k \in DOMAIN r : r[k] = t1
  BY DEF ToSet, r
<1>4. k + 1 = i
  BY <1>1, <1>2, <1>3 DEF IsInjective
<1>5. \A j \in DOMAIN r : r[j] = t2 => k < j
  <2> SUFFICES ASSUME NEW j \in DOMAIN r, r[j] = t2 PROVE k < j
    OBVIOUS
  <2>1. j + 1 \in DOMAIN q /\ q[j + 1] = t2
    BY <1>1
  <2> QED  BY <1>1, <1>2, <1>4, <2>1
<1>6. ASSUME NEW j \in DOMAIN q, q[j] = t2
      PROVE  j - 1 \in DOMAIN r /\ r[j - 1] = t2
  <2>1. i < j
    BY <1>2, <1>6
  <2> QED  BY <1>1, <1>3, <1>4, <1>6, <2>1
<1> QED  BY <1>3, <1>5, <1>6 DEF Ahead, ToSet, r

(* list_add_tail of several tasks, one after the other.                     *)
LEMMA AheadConcat ==
  ASSUME NEW q \in Seq(Task), NEW r \in Seq(Task), NEW t1, NEW t2, Ahead(q, t1, t2)
  PROVE  Ahead(q \o r, t1, t2)
<1>1. /\ DOMAIN (q \o r) = 1 .. Len(q) + Len(r)
      /\ \A i \in 1 .. Len(q) : (q \o r)[i] = q[i]
      /\ DOMAIN q = 1 .. Len(q) /\ Len(q) \in Nat /\ Len(r) \in Nat
  OBVIOUS
<1> QED  BY <1>1 DEF Ahead

(* A task switch, list by list: the running task is linked at the tail of   *)
(* ls, or at the front of keyboardqueue if it is a reader with bytes; then  *)
(* the first task of one list, which becomes the running one, is unlinked.  *)
LEMMA YieldLists ==
  ASSUME IInv, NEW ls \in Queue, NEW kb, NEW buf, NEW rem, Yield(ls, kb, buf, rem),
         NEW qs, qs = Enqueue(queue, ls, current, kb),
         NEW from, from = PickQueue(qs, buf)
  PROVE  /\ from \in {readyqueue, keyboardqueue}
         /\ qs \in [Queue -> Seq(Task)] /\ \A l \in Queue : IsInjective(qs[l])
         /\ \A l \in Queue : l # ls => qs[l] = queue[l]
         /\ \/ qs[ls] = queue[ls] /\ current = idle_task
            \/ qs[ls] = Append(queue[ls], current)
            \/ /\ qs[ls] = <<current>> \o queue[ls]
               /\ ls = keyboardqueue /\ kb[current].keysread # 0
         /\ \A l \in Queue : l # from => queue'[l] = qs[l]
         /\ \/ qs[from] = <<>> /\ queue'[from] = <<>> /\ current' = idle_task
            \/ /\ qs[from] # <<>> /\ queue'[from] = Tail(qs[from])
               /\ current' = Head(qs[from])
<1>1. /\ idle_task \in Task /\ current \in Task
      /\ WellLinked(queue, {current, idle_task} \cup lost)
  BY IInvParts, Names DEF CPUOK
<1>2. WellLinked(qs, (({current, idle_task} \cup lost) \ {current}) \cup {idle_task})
  BY <1>1, EnqueueLemma
<1>3. /\ qs \in [Queue -> Seq(Task)] /\ \A l \in Queue : IsInjective(qs[l])
      /\ queue \in [Queue -> Seq(Task)]
  BY <1>1, <1>2 DEF WellLinked
<1>4. \/ qs[ls] = queue[ls] /\ current = idle_task
      \/ qs[ls] = Append(queue[ls], current)
      \/ /\ qs[ls] = <<current>> \o queue[ls]
         /\ ls = keyboardqueue /\ kb[current].keysread # 0
  BY <1>3 DEF Enqueue
<1>5. \A l \in Queue : l # ls => qs[l] = queue[l]
  BY <1>3 DEF Enqueue
<1>6. from \in {readyqueue, keyboardqueue}
  BY DEF PickQueue
<1>7. /\ queue' = Dequeue(qs, from)
      /\ current' = IF qs[from] = <<>> THEN idle_task ELSE Head(qs[from])
  BY DEF Yield, SwitchTo, task_switch
<1>8. from \in Queue
  BY <1>6, Names
<1>9. /\ \A l \in Queue : l # from => queue'[l] = qs[l]
      /\ \/ qs[from] = <<>> /\ queue'[from] = <<>> /\ current' = idle_task
         \/ /\ qs[from] # <<>> /\ queue'[from] = Tail(qs[from])
            /\ current' = Head(qs[from])
  BY <1>3, <1>7, <1>8 DEF Dequeue
<1> QED  BY <1>3, <1>4, <1>5, <1>6, <1>9
-----------------------------------------------------------------------------
(* What FirstComeFirstServed says of a step and of one list.                *)
Fair(ls, t1, t2) ==
  Ahead(queue[ls], t1, t2) /\ t1 \in ToSet(queue'[ls]) =>
    \/ /\ Ahead(queue'[ls], t1, t2)
       /\ t2 \in ToSet(queue[ls]) => t2 \in ToSet(queue'[ls])
    \/ ls = keyboardqueue /\ t2 \notin ToSet(queue[ls]) /\ kbinfo'[t2].keysread # 0

(* The running task leaves the CPU.                                         *)
LEMMA YieldIsFair ==
  ASSUME IInv, NEW ls \in Queue, NEW kb, NEW buf, NEW rem, Yield(ls, kb, buf, rem),
         kbinfo' = kb
  PROVE  \A l \in Queue : \A t1, t2 \in Task : Fair(l, t1, t2)
<1> SUFFICES ASSUME NEW l \in Queue, NEW t1 \in Task, NEW t2 \in Task,
                    Ahead(queue[l], t1, t2), t1 \in ToSet(queue'[l]),
                    ~ (l = keyboardqueue /\ t2 \notin ToSet(queue[l]) /\ kbinfo'[t2].keysread # 0)
             PROVE  /\ Ahead(queue'[l], t1, t2)
                    /\ t2 \in ToSet(queue[l]) => t2 \in ToSet(queue'[l])
  BY DEF Fair
<1> DEFINE qs   == Enqueue(queue, ls, current, kb)
           from == PickQueue(qs, buf)
<1>0. qs = Enqueue(queue, ls, current, kb) /\ from = PickQueue(qs, buf)
  OBVIOUS
<1> HIDE DEF qs, from
<1>1. /\ from \in {readyqueue, keyboardqueue}
      /\ qs \in [Queue -> Seq(Task)] /\ \A k \in Queue : IsInjective(qs[k])
      /\ \A k \in Queue : k # ls => qs[k] = queue[k]
      /\ \/ qs[ls] = queue[ls] /\ current = idle_task
         \/ qs[ls] = Append(queue[ls], current)
         \/ /\ qs[ls] = <<current>> \o queue[ls]
            /\ ls = keyboardqueue /\ kb[current].keysread # 0
      /\ \A k \in Queue : k # from => queue'[k] = qs[k]
      /\ \/ qs[from] = <<>> /\ queue'[from] = <<>> /\ current' = idle_task
         \/ /\ qs[from] # <<>> /\ queue'[from] = Tail(qs[from])
            /\ current' = Head(qs[from])
  BY <1>0, YieldLists
<1>2. /\ current \in Task /\ queue[l] \in Seq(Task) /\ qs[l] \in Seq(Task)
      /\ current \notin ToSet(queue[l])
  BY <1>1, IInvParts DEF CPUOK, WellLinked
<1>3. Ahead(qs[l], t1, t2) /\ (t2 \in ToSet(queue[l]) => t2 \in ToSet(qs[l]))
  <2>1. CASE qs[l] = queue[l]
    BY <2>1
  <2>2. CASE qs[l] = Append(queue[l], current)
    BY <1>2, <2>2, AheadAppend, AppendLemma
  <2>3. CASE /\ qs[l] = <<current>> \o queue[l]
             /\ l = keyboardqueue /\ kb[current].keysread # 0
    <3>1. current # t2
      BY <1>2, <2>3
    <3> QED  BY <1>2, <2>3, <3>1, AheadCons, ConsLemma
  <2> QED  BY <1>1, <2>1, <2>2, <2>3
<1>4. CASE queue'[l] = qs[l]
  BY <1>3, <1>4
<1>5. CASE queue'[l] = <<>>
  BY <1>5 DEF ToSet
<1>6. CASE qs[l] # <<>> /\ queue'[l] = Tail(qs[l])
  BY <1>1, <1>2, <1>3, <1>6, AheadTail
<1> QED  BY <1>1, <1>4, <1>5, <1>6

(* A list that stays, is emptied, loses its first task or gets more tasks   *)
(* at its tail.                                                             *)
LEMMA ListIsFair ==
  ASSUME NEW l \in Queue, NEW t1 \in Task, NEW t2 \in Task,
         queue[l] \in Seq(Task), IsInjective(queue[l]),
         \/ queue'[l] = queue[l]
         \/ queue'[l] = <<>>
         \/ queue[l] # <<>> /\ queue'[l] = Tail(queue[l])
         \/ \E t \in Task : queue'[l] = Append(queue[l], t)
         \/ \E r \in Seq(Task) : queue'[l] = queue[l] \o r
  PROVE  Fair(l, t1, t2)
<1> SUFFICES ASSUME Ahead(queue[l], t1, t2), t1 \in ToSet(queue'[l])
             PROVE  /\ Ahead(queue'[l], t1, t2)
                    /\ t2 \in ToSet(queue[l]) => t2 \in ToSet(queue'[l])
  BY DEF Fair
<1>1. CASE queue'[l] = queue[l]
  BY <1>1
<1>2. CASE queue'[l] = <<>>
  BY <1>2 DEF ToSet
<1>3. CASE queue[l] # <<>> /\ queue'[l] = Tail(queue[l])
  BY <1>3, AheadTail
<1>4. CASE \E t \in Task : queue'[l] = Append(queue[l], t)
  BY <1>4, AheadAppend, AppendLemma
<1>5. CASE \E r \in Seq(Task) : queue'[l] = queue[l] \o r
  BY <1>5, AheadConcat, ConcatLemma
<1> QED  BY <1>1, <1>2, <1>3, <1>4, <1>5

(* Every step of the kernel is fair to the tasks in every list.             *)
LEMMA NextIsFair ==
  ASSUME IInv, [Next]_vars
  PROVE  \A ls \in Queue : \A t1, t2 \in Task : Fair(ls, t1, t2)
<1>0. /\ queue \in [Queue -> Seq(Task)] /\ \A l \in Queue : IsInjective(queue[l])
      /\ current \in Task
  BY IInvParts DEF CPUOK, WellLinked
<1>1. ASSUME queue' = queue
      PROVE  \A ls \in Queue : \A t1, t2 \in Task : Fair(ls, t1, t2)
  BY <1>0, <1>1, ListIsFair
<1>2. CASE Timer
  BY <1>1, <1>2, YieldIsFair, Names DEF Timer
<1>3. CASE sys_DEBUG_tswitch
  BY <1>3, YieldIsFair, Names DEF sys_DEBUG_tswitch
<1>4. CASE SemNext
  <2> PICK s \in Sem :
        \/ \E value \in 0 .. MaxSemValue : sys_sem_init(s, value)
        \/ sys_sem_wait(s)
        \/ sem_wait_return(s)
        \/ sys_sem_signal(s)
        \/ sys_sem_destroy(s)
    BY <1>4 DEF SemNext
  <2>0. s \in Queue /\ readyqueue \in Queue /\ s # readyqueue
    BY Names
  <2>1. CASE \E value \in 0 .. MaxSemValue : sys_sem_init(s, value)
    <3>1. \A l \in Queue : queue'[l] = queue[l] \/ queue'[l] = <<>>
      BY <1>0, <2>0, <2>1 DEF sys_sem_init
    <3> QED  BY <1>0, <3>1, ListIsFair
  <2>2. CASE sys_sem_wait(s)
    BY <1>1, <2>0, <2>2, YieldIsFair DEF sys_sem_wait, switchVars
  <2>3. CASE sem_wait_return(s)
    BY <1>1, <2>3 DEF sem_wait_return, switchVars
  <2>4. CASE sys_sem_signal(s) /\ queue[s] = <<>>
    BY <1>1, <2>4 DEF sys_sem_signal, switchVars
  <2>5. CASE sys_sem_signal(s) /\ queue[s] # <<>>
    <3>1. queue' = [queue EXCEPT ![s] = Tail(queue[s]), ![readyqueue] = @ \o <<Head(queue[s])>>]
      BY <2>5 DEF sys_sem_signal, WakeUp
    <3>2. queue[s] \in Seq(Task)
      BY <1>0, <2>0
    <3>3. <<Head(queue[s])>> \in Seq(Task)
      BY <2>5, <3>2, TailLemma
    <3>4. \A l \in Queue : \/ queue'[l] = queue[l]
                           \/ queue[l] # <<>> /\ queue'[l] = Tail(queue[l])
                           \/ \E r \in Seq(Task) : queue'[l] = queue[l] \o r
      BY <1>0, <2>0, <2>5, <3>1, <3>3
    <3> QED  BY <1>0, <3>4, ListIsFair
  <2>6. CASE sys_sem_destroy(s)
    <3>1. queue' = [queue EXCEPT ![s] = <<>>, ![readyqueue] = @ \o queue[s]]
      BY <2>6 DEF sys_sem_destroy, WakeUp
    <3>2. \A l \in Queue : \/ queue'[l] = queue[l]
                           \/ queue'[l] = <<>>
                           \/ \E r \in Seq(Task) : queue'[l] = queue[l] \o r
      BY <1>0, <2>0, <3>1
    <3> QED  BY <1>0, <3>2, ListIsFair
  <2> QED  BY <2>1, <2>2, <2>3, <2>4, <2>5, <2>6
<1>5. CASE KeyboardNext
  <2>1. ASSUME NEW want, NEW had, NEW old, ReadPass(want, had, old)
        PROVE  \A ls \in Queue : \A t1, t2 \in Task : Fair(ls, t1, t2)
    BY <1>1, <2>1, YieldIsFair, Names DEF ReadPass, switchVars
  <2>2. CASE interrupt_uart_routine
    BY <1>1, <2>2 DEF interrupt_uart_routine, switchVars
  <2>3. CASE \E size \in ReadSizes : sys_read(size)
    BY <2>1, <2>3, YieldIsFair, Names DEF sys_read
  <2>4. CASE read_continue
    BY <2>1, <2>4 DEF read_continue
  <2> QED  BY <1>5, <2>2, <2>3, <2>4 DEF KeyboardNext
<1>6. CASE sys_clone \/ sys_fork
  <2>1. /\ queue' = [queue EXCEPT ![freequeue] = Tail(@), ![readyqueue] = Append(@, new_pcb)]
        /\ queue[freequeue] # <<>>
    BY <1>6 DEF sys_clone, sys_fork, new_task
  <2>2. new_pcb \in Task
    BY <2>1, IInvParts, NewPcb
  <2> HIDE DEF new_pcb
  <2>3. \A l \in Queue : \/ queue'[l] = queue[l]
                         \/ queue[l] # <<>> /\ queue'[l] = Tail(queue[l])
                         \/ \E t \in Task : queue'[l] = Append(queue[l], t)
    BY <1>0, <2>1, <2>2, Names
  <2> QED  BY <1>0, <2>3, ListIsFair
<1>7. CASE fork_fails
  <2>1. \A l \in Queue : \/ queue'[l] = queue[l]
                         \/ queue[l] # <<>> /\ queue'[l] = Tail(queue[l])
    BY <1>0, <1>7, Names DEF fork_fails
  <2> QED  BY <1>0, <2>1, ListIsFair
<1>8. CASE sys_exit
  BY <1>8, YieldIsFair, Names DEF sys_exit
<1>9. CASE UNCHANGED vars
  BY <1>1, <1>9 DEF vars, switchVars
<1> QED
  BY <1>2, <1>3, <1>4, <1>5, <1>6, <1>7, <1>8, <1>9 DEF Next

(* First come, first served in every list: sched_update_queues_state links  *)
(* at the tail and every list_del takes the first task, except that a       *)
(* reader with part of its bytes goes back to the front of keyboardqueue.   *)
THEOREM ListsAreFair == Spec => FirstComeFirstServed
<1>1. IInv /\ [Next]_vars =>
        [\A ls \in Queue : \A t1, t2 \in Task :
           Before(t1, t2, ls) /\ Linked(t1, ls)' =>
             \/ Before(t1, t2, ls)' /\ (Linked(t2, ls) => Linked(t2, ls)')
             \/ ls = keyboardqueue /\ ~ Linked(t2, ls) /\ kbinfo'[t2].keysread # 0]_vars
  <2> SUFFICES ASSUME IInv, [Next]_vars
               PROVE  \A ls \in Queue : \A t1, t2 \in Task :
                        Before(t1, t2, ls) /\ Linked(t1, ls)' =>
                          \/ Before(t1, t2, ls)' /\ (Linked(t2, ls) => Linked(t2, ls)')
                          \/ ls = keyboardqueue /\ ~ Linked(t2, ls) /\ kbinfo'[t2].keysread # 0
    OBVIOUS
  <2> QED  BY NextIsFair DEF Fair, Ahead, Before, Linked
<1> QED  BY <1>1, Inductive, PTL DEF Spec, FirstComeFirstServed
-----------------------------------------------------------------------------
(* The tasks inside sys_read_uart, in the order in which they are served.   *)
Readers == (IF kernel_lr[current] = "read" THEN <<current>> ELSE <<>>) \o queue[keyboardqueue]

(* They are the tasks whose kernel_lr says so.                              *)
LEMMA ReadersRead ==
  ASSUME PlaceInv
  PROVE  /\ Readers \in Seq(Task)
         /\ \A t \in Task : t \in ToSet(Readers) <=> kernel_lr[t] = "read"
         /\ kernel_lr[current] = "read" => /\ Readers = <<current>> \o queue[keyboardqueue]
                                           /\ Head(Readers) = current
         /\ kernel_lr[current] # "read" => Readers = queue[keyboardqueue]
<1>1. /\ current \in Task /\ queue[keyboardqueue] \in Seq(Task)
      /\ \A t \in Task : t \in ToSet(queue[keyboardqueue]) => kernel_lr[t] = "read"
      /\ \A t \in Task : kernel_lr[t] = "read" => t = current \/ t \in ToSet(queue[keyboardqueue])
  BY IInvParts, Names DEF PlaceInv, CPUOK, WellLinked, WaitsWhereLinked, Linked
<1>2. CASE kernel_lr[current] = "read"
  <2>1. Readers = <<current>> \o queue[keyboardqueue] /\ Head(Readers) = current
    BY <1>1, <1>2 DEF Readers
  <2>2. Readers \in Seq(Task) /\ ToSet(Readers) = ToSet(queue[keyboardqueue]) \cup {current}
    BY <1>1, <2>1, ConsLemma
  <2> QED  BY <1>1, <1>2, <2>1, <2>2
<1>3. CASE kernel_lr[current] # "read"
  <2>1. Readers = queue[keyboardqueue]
    BY <1>1, <1>3 DEF Readers
  <2> QED  BY <1>1, <1>3, <2>1
<1> QED  BY <1>2, <1>3

(* When the running task leaves the CPU and notes why in its kernel_lr, the *)
(* readers are the ones in keyboardqueue after it was linked: the one that  *)
(* gets the CPU next, if any, is the first of them.                         *)
LEMMA YieldReaders ==
  ASSUME PlaceInv, NEW ls \in Queue, NEW kb, NEW buf, NEW rem, Yield(ls, kb, buf, rem),
         NEW lr,
         \A t \in Task : kernel_lr'[t] = IF t = current THEN lr ELSE kernel_lr[t],
         ls = keyboardqueue <=> lr = "read",
         ls = keyboardqueue => current # idle_task,
         NEW q,
         q = IF ls # keyboardqueue THEN queue[keyboardqueue]
             ELSE IF kb[current].keysread # 0 THEN <<current>> \o queue[keyboardqueue]
             ELSE Append(queue[keyboardqueue], current)
  PROVE  /\ Readers' = q
         /\ kernel_lr'[current'] = "read" => buf # <<>>
<1> DEFINE qs   == Enqueue(queue, ls, current, kb)
           from == PickQueue(qs, buf)
<1>0. qs = Enqueue(queue, ls, current, kb) /\ from = PickQueue(qs, buf)
  OBVIOUS
<1> HIDE DEF qs, from
<1>1. /\ from \in {readyqueue, keyboardqueue}
      /\ qs \in [Queue -> Seq(Task)]
      /\ \A k \in Queue : k # ls => qs[k] = queue[k]
      /\ \/ qs[ls] = queue[ls] /\ current = idle_task
         \/ qs[ls] = Append(queue[ls], current)
         \/ /\ qs[ls] = <<current>> \o queue[ls]
            /\ ls = keyboardqueue /\ kb[current].keysread # 0
      /\ \A k \in Queue : k # from => queue'[k] = qs[k]
      /\ \/ qs[from] = <<>> /\ queue'[from] = <<>> /\ current' = idle_task
         \/ /\ qs[from] # <<>> /\ queue'[from] = Tail(qs[from])
            /\ current' = Head(qs[from])
  BY <1>0, YieldLists DEF PlaceInv
<1>2. /\ current \in Task /\ queue \in [Queue -> Seq(Task)]
      /\ WellLinked(queue, {current, idle_task} \cup lost)
      /\ \A t \in Task : t \in ToSet(queue[keyboardqueue]) => kernel_lr[t] = "read"
      /\ \A t \in Task : kernel_lr[t] = "read" => t = current \/ t \in ToSet(queue[keyboardqueue])
      /\ kernel_lr[idle_task] = "user"
  BY IInvParts, Names DEF PlaceInv, CPUOK, WellLinked, WaitsWhereLinked, Linked
<1>3. qs[keyboardqueue] = q
  <2>1. CASE ls # keyboardqueue
    BY <1>1, <2>1, Names
  <2>2. CASE ls = keyboardqueue
    <3>1. current # idle_task /\ keyboardqueue \in DOMAIN queue
      BY <1>2, <2>2, Names
    <3> QED  BY <1>0, <2>2, <3>1 DEF Enqueue
  <2> QED  BY <2>1, <2>2
<1>4. q \in Seq(Task)
  <2>1. keyboardqueue \in Queue /\ qs \in [Queue -> Seq(Task)]
    BY <1>1, Names
  <2>2. qs[keyboardqueue] \in Seq(Task)
    BY <2>1
  <2> QED  BY <1>3, <2>2
<1>5. CASE from = keyboardqueue
  <2>1. buf # <<>> /\ q # <<>>
    BY <1>0, <1>3, <1>5, Names DEF PickQueue
  <2>2. queue'[keyboardqueue] = Tail(q) /\ current' = Head(q)
    BY <1>1, <1>3, <1>5, <2>1
  <2>3. current' \in ToSet(q) /\ current' \in Task
    <3>1. Head(q) \in Task /\ ToSet(q) = ToSet(Tail(q)) \cup {Head(q)}
      BY <1>4, <2>1, TailLemma
    <3> QED  BY <2>2, <3>1
  <2>4. current' \in ToSet(queue[keyboardqueue]) \/ (current' = current /\ ls = keyboardqueue)
    <3>1. queue[keyboardqueue] \in Seq(Task)
      BY <1>2, Names
    <3>2. /\ ToSet(Append(queue[keyboardqueue], current)) = ToSet(queue[keyboardqueue]) \cup {current}
          /\ ToSet(<<current>> \o queue[keyboardqueue]) = ToSet(queue[keyboardqueue]) \cup {current}
      BY <1>2, <3>1, AppendLemma, ConsLemma
    <3> QED  BY <2>3, <3>2
  <2>5. kernel_lr'[current'] = "read"
    BY <1>2, <2>3, <2>4, Names DEF WellLinked
  <2>6. <<Head(q)>> \o Tail(q) = q
    BY <1>4, <2>1
  <2> QED  BY <2>1, <2>2, <2>5, <2>6 DEF Readers
<1>6. CASE from = readyqueue
  <2>1. queue'[keyboardqueue] = q
    BY <1>1, <1>3, <1>6, Names
  <2>2. \/ current' = idle_task
        \/ current' \in ToSet(qs[readyqueue]) /\ current' \in Task
    <3>1. qs[readyqueue] \in Seq(Task)
      BY <1>1, Names
    <3> QED  BY <1>1, <1>6, <3>1, TailLemma
  <2>3. current' \in ToSet(qs[readyqueue]) =>
          \/ current' \in ToSet(queue[readyqueue])
          \/ current' = current /\ ls = readyqueue
    <3>1. queue[readyqueue] \in Seq(Task)
      BY <1>2, Names
    <3>2. ToSet(Append(queue[readyqueue], current)) = ToSet(queue[readyqueue]) \cup {current}
      BY <1>2, <3>1, AppendLemma
    <3> QED  BY <1>1, <3>2, Names
  <2>4. kernel_lr'[current'] # "read"
    <3>1. CASE current' = idle_task
      BY <1>2, <3>1, Names
    <3>2. CASE current' = current /\ ls = readyqueue
      BY <1>2, <3>2, Names
    <3>3. CASE current' \in ToSet(queue[readyqueue]) /\ current' \in Task
      <4>1. current' # current /\ current' \notin ToSet(queue[keyboardqueue])
        BY <1>2, <3>3, Names DEF WellLinked
      <4> QED  BY <1>2, <3>3, <4>1
    <3> QED  BY <2>2, <2>3, <3>1, <3>2, <3>3
  <2>5. <<>> \o q = q
    BY <1>4
  <2> QED  BY <2>1, <2>4, <2>5 DEF Readers
<1> QED  BY <1>1, <1>5, <1>6
-----------------------------------------------------------------------------
(* The inductive invariant of reading.  Part of the bytes of a request is   *)
(* taken only by the first of the readers, and nobody has taken bytes       *)
(* after it, so its last byte and the first one in the buffer are           *)
(* neighbours; a reader has the CPU only while there is something to read,  *)
(* and leaves sys_read_uart when it has all it wanted.                      *)
ReadInv ==
  /\ PlaceInv
  /\ BytesInOrder
  /\ \A t \in Task : kernel_lr[t] = "read" => kbinfo[t].keystoread # 0
  /\ \A t \in Task : kernel_lr[t] = "read" /\ kbinfo[t].keysread # 0 =>
       /\ t = Head(Readers)
       /\ keybuffer[t][1] + kbinfo[t].keysread - 1 = received - Len(uart_read_buffer)
  /\ kernel_lr[current] = "read" => uart_read_buffer # <<>>

(* A step that does not concern the readers.                                *)
Quiet ==
  /\ Readers' = Readers
  /\ UNCHANGED <<uart_read_buffer, received, keybuffer>>
  /\ \A t \in Task : /\ kernel_lr'[t] = "read" <=> kernel_lr[t] = "read"
                     /\ kernel_lr[t] = "read" => kbinfo'[t] = kbinfo[t]
  /\ kernel_lr'[current'] = "read" => uart_read_buffer # <<>>

(* Leaving the CPU for another list than keyboardqueue is one.              *)
LEMMA YieldIsQuiet ==
  ASSUME ReadInv, kernel_lr[current] = "user",
         NEW ls \in Queue \ {keyboardqueue}, NEW rem,
         Yield(ls, kbinfo, uart_read_buffer, rem),
         NEW lr, lr # "read",
         \A t \in Task : kernel_lr'[t] = IF t = current THEN lr ELSE kernel_lr[t],
         UNCHANGED <<kbinfo, uart_read_buffer, received, keybuffer>>
  PROVE  Quiet
<1>1. PlaceInv
  BY DEF ReadInv
<1> DEFINE q == queue[keyboardqueue]
<1>2. q = IF ls # keyboardqueue THEN queue[keyboardqueue]
          ELSE IF kbinfo[current].keysread # 0 THEN <<current>> \o queue[keyboardqueue]
          ELSE Append(queue[keyboardqueue], current)
  OBVIOUS
<1>3. Readers = q
  BY <1>1, ReadersRead
<1> HIDE DEF q
<1>4. /\ Readers' = q
      /\ kernel_lr'[current'] = "read" => uart_read_buffer # <<>>
  BY <1>1, <1>2, YieldReaders
<1> QED  BY <1>3, <1>4 DEF Quiet

(* So is a step that keeps keyboardqueue and the running task.              *)
LEMMA SameQueueIsQuiet ==
  ASSUME ReadInv, queue'[keyboardqueue] = queue[keyboardqueue],
         UNCHANGED <<current, uart_read_buffer, received, keybuffer>>,
         \A t \in Task : /\ kernel_lr'[t] = "read" <=> kernel_lr[t] = "read"
                         /\ kernel_lr[t] = "read" => kbinfo'[t] = kbinfo[t]
  PROVE  Quiet
<1>1. current \in Task
  BY IInvParts DEF ReadInv, PlaceInv, CPUOK
<1>2. kernel_lr'[current'] = "read" <=> kernel_lr[current] = "read"
  BY <1>1
<1>3. Readers' = Readers
  BY <1>2 DEF Readers
<1> QED  BY <1>2, <1>3 DEF Quiet, ReadInv

(* The scheduler, the semaphores and the creation and end of tasks.         *)
LEMMA OthersAreQuiet ==
  ASSUME ReadInv, [Next]_vars, ~ (KeyboardNext /\ UNCHANGED <<semVars, lost>>)
  PROVE  Quiet
<1>0. /\ PlaceInv /\ IInv
      /\ queue \in [Queue -> Seq(Task)] /\ current \in Task
      /\ kernel_lr \in [Task -> {"user", "read"} \cup Sem]
      /\ kbinfo \in [Task -> [keystoread : Nat, keysread : Nat]]
  BY IInvParts DEF ReadInv, PlaceInv, CPUOK, WellLinked, DataOK, KeyboardTypeOK
<1>1. ASSUME UNCHANGED <<queue, current, kernel_lr, kbinfo, uart_read_buffer, received, keybuffer>>
      PROVE  Quiet
  BY <1>1, SameQueueIsQuiet
<1>2. ASSUME kernel_lr[current] = "user",
             UNCHANGED <<kernel_lr, kbinfo, uart_read_buffer, received, keybuffer>>,
             NEW ls \in {freequeue, readyqueue}, NEW rem, Yield(ls, kbinfo, uart_read_buffer, rem)
      PROVE  Quiet
  <2>1. \A t \in Task : kernel_lr'[t] = IF t = current THEN "user" ELSE kernel_lr[t]
    BY <1>2
  <2> QED  BY <1>2, <2>1, Names, YieldIsQuiet
<1>3. CASE Timer /\ UNCHANGED <<semVars, kbVars, lost>>
  BY <1>1, <1>2, <1>3 DEF Timer, Interruptible, kbVars
<1>4. CASE sys_DEBUG_tswitch /\ UNCHANGED <<semVars, kbVars, lost>>
  BY <1>2, <1>4 DEF sys_DEBUG_tswitch, InUser, Interruptible, kbVars
<1>5. CASE sys_exit
  BY <1>2, <1>5 DEF sys_exit, InUser, Interruptible, kbVars
<1>6. CASE SemNext /\ UNCHANGED <<kbVars, lost>>
  <2> PICK s \in Sem :
        \/ \E value \in 0 .. MaxSemValue : sys_sem_init(s, value)
        \/ sys_sem_wait(s)
        \/ sem_wait_return(s)
        \/ sys_sem_signal(s)
        \/ sys_sem_destroy(s)
    BY <1>6 DEF SemNext
  <2>0. /\ s \in Queue /\ keyboardqueue \in Queue /\ readyqueue # keyboardqueue
        /\ s # keyboardqueue /\ s # "read"
    BY Names
  <2>1. UNCHANGED <<kbinfo, uart_read_buffer, received, keybuffer>>
    BY <1>6 DEF sys_sem_init, sys_sem_wait, sem_wait_return, sys_sem_signal,
                sys_sem_destroy, kbVars
  <2>2. ASSUME NEW woken, NEW rest, WakeUp(s, woken, rest), kernel_lr' = kernel_lr
        PROVE  Quiet
    <3>1. queue'[keyboardqueue] = queue[keyboardqueue] /\ current' = current
      BY <1>0, <2>0, <2>2 DEF WakeUp
    <3> QED  BY <2>1, <2>2, <3>1, SameQueueIsQuiet
  <2>3. CASE \E value \in 0 .. MaxSemValue : sys_sem_init(s, value)
    <3>1. /\ queue'[keyboardqueue] = queue[keyboardqueue]
          /\ current' = current /\ kernel_lr' = kernel_lr
      BY <1>0, <2>0, <2>3 DEF sys_sem_init
    <3> QED  BY <2>1, <3>1, SameQueueIsQuiet
  <2>4. CASE sys_sem_wait(s) /\ sem_array[s].value <= 0
    <3>1. /\ kernel_lr' = [kernel_lr EXCEPT ![current] = s]
          /\ Yield(s, kbinfo, uart_read_buffer, remaining_quantum)
          /\ kernel_lr[current] = "user"
      BY <2>4 DEF sys_sem_wait, InUser, Interruptible
    <3>2. \A t \in Task : kernel_lr'[t] = IF t = current THEN s ELSE kernel_lr[t]
      BY <1>0, <3>1
    <3> QED  BY <2>0, <2>1, <3>1, <3>2, YieldIsQuiet
  <2>5. CASE sys_sem_wait(s) /\ ~ (sem_array[s].value <= 0)
    BY <1>1, <2>1, <2>5 DEF sys_sem_wait, switchVars
  <2>6. CASE sem_wait_return(s)
    <3>1. /\ queue' = queue /\ current' = current
          /\ kernel_lr' = [kernel_lr EXCEPT ![current] = "user"]
          /\ kernel_lr[current] # "read"
      BY <2>0, <2>6 DEF sem_wait_return, switchVars
    <3>2. \A t \in Task : kernel_lr'[t] = "read" <=> kernel_lr[t] = "read"
      BY <1>0, <3>1
    <3> QED  BY <2>1, <3>1, <3>2, SameQueueIsQuiet
  <2>7. CASE sys_sem_signal(s)
    BY <1>1, <2>1, <2>2, <2>7 DEF sys_sem_signal, switchVars
  <2>8. CASE sys_sem_destroy(s)
    BY <2>2, <2>8 DEF sys_sem_destroy
  <2> QED  BY <2>3, <2>4, <2>5, <2>6, <2>7, <2>8
<1>7. CASE sys_clone \/ sys_fork
  <2>1. /\ queue' = [queue EXCEPT ![freequeue] = Tail(@), ![readyqueue] = Append(@, new_pcb)]
        /\ kernel_lr' = [kernel_lr EXCEPT ![new_pcb] = "user"]
        /\ kbinfo' = [kbinfo EXCEPT ![new_pcb] = kbinfo[current]]
        /\ UNCHANGED <<current, uart_read_buffer, received, keybuffer>>
        /\ queue[freequeue] # <<>>
    BY <1>7 DEF sys_clone, sys_fork, new_task, kbVars
  <2>2. new_pcb \in Task /\ new_pcb # current /\ new_pcb \in ToSet(queue[freequeue])
    BY <1>0, <2>1, IInvParts, NewPcb, NewPcbMembers
  <2> HIDE DEF new_pcb
  <2>3. kernel_lr[new_pcb] # "read"
    BY <1>0, <2>2, IInvParts, Names DEF PlaceInv, WaitsWhereLinked, Linked, CPUOK, WellLinked
  <2>4. queue'[keyboardqueue] = queue[keyboardqueue]
    BY <1>0, <2>1, Names
  <2>5. \A t \in Task : /\ kernel_lr'[t] = "read" <=> kernel_lr[t] = "read"
                        /\ kernel_lr[t] = "read" => kbinfo'[t] = kbinfo[t]
    BY <1>0, <2>1, <2>2, <2>3
  <2> QED  BY <2>1, <2>4, <2>5, SameQueueIsQuiet
<1>8. CASE fork_fails
  <2>1. queue'[keyboardqueue] = queue[keyboardqueue]
    BY <1>0, <1>8, Names DEF fork_fails
  <2> QED  BY <1>8, <2>1, SameQueueIsQuiet DEF fork_fails, kbVars
<1>9. CASE UNCHANGED vars
  BY <1>1, <1>9 DEF vars, switchVars, kbVars
<1> QED
  BY <1>3, <1>4, <1>5, <1>6, <1>7, <1>8, <1>9 DEF Next
-----------------------------------------------------------------------------
(* Who passes through the loop of sys_read_uart: a reader that got the CPU, *)
(* or a task in sys_read with no reader before it.                          *)
PassStarts(want, had, old) ==
  \/ /\ kernel_lr[current] = "read"
     /\ want = kbinfo[current].keystoread
     /\ had = kbinfo[current].keysread
     /\ old = keybuffer[current]
  \/ /\ kernel_lr[current] = "user" /\ queue[keyboardqueue] = <<>>
     /\ had = 0 /\ old = <<>>

(* What one pass does that takes n bytes.  A task that does not have all    *)
(* its bytes has emptied the buffer and stays the first of the readers.     *)
PassResult(want, had, old, n) ==
  /\ n \in 0 .. want /\ n <= Len(uart_read_buffer)
  /\ n = want \/ n = Len(uart_read_buffer)
  /\ kernel_lr[current] = "read" => n # 0
  /\ kbinfo'[current].keystoread = want - n /\ kbinfo'[current].keysread = had + n
  /\ kernel_lr'[current] = IF n = want THEN "user" ELSE "read"
  /\ keybuffer' = [keybuffer EXCEPT ![current] = old \o SubSeq(uart_read_buffer, 1, n)]
  /\ \A t \in Task \ {current} : kbinfo'[t] = kbinfo[t] /\ kernel_lr'[t] = kernel_lr[t]
  /\ uart_read_buffer' = SubSeq(uart_read_buffer, n + 1, Len(uart_read_buffer))
  /\ Readers' = IF n = want THEN queue[keyboardqueue] ELSE <<current>> \o queue[keyboardqueue]
  /\ kernel_lr'[current'] = "read" => uart_read_buffer' # <<>>

(* What one pass of the loop of sys_read_uart does, if it starts well.       *)
LEMMA PassEffect ==
  ASSUME ReadInv, current # idle_task, NEW want \in Nat \ {0}, NEW had \in Nat, NEW old,
         PassStarts(want, had, old), ReadPass(want, had, old),
         NEW n, n = Taken(want)
  PROVE  PassResult(want, had, old, n)
<1> DEFINE rest == SubSeq(uart_read_buffer, n + 1, Len(uart_read_buffer))
           kb   == [kbinfo EXCEPT ![current] = [keystoread |-> want - n, keysread |-> had + n]]
<1>0. /\ PlaceInv /\ current \in Task /\ queue[keyboardqueue] \in Seq(Task)
      /\ kernel_lr \in [Task -> {"user", "read"} \cup Sem]
      /\ kbinfo \in [Task -> [keystoread : Nat, keysread : Nat]]
      /\ uart_read_buffer \in Seq(Byte) /\ Len(uart_read_buffer) \in Nat
  <2>1. PlaceInv /\ CPUOK /\ DataOK
    BY IInvParts DEF ReadInv, PlaceInv
  <2>2. current \in Task /\ queue[keyboardqueue] \in Seq(Task)
    BY <2>1, Names DEF CPUOK, WellLinked
  <2>3. /\ kernel_lr \in [Task -> {"user", "read"} \cup Sem]
        /\ kbinfo \in [Task -> [keystoread : Nat, keysread : Nat]]
        /\ uart_read_buffer \in Seq(Byte) /\ Len(uart_read_buffer) \in Nat
    BY <2>1 DEF DataOK, KeyboardTypeOK
  <2> QED  BY <2>1, <2>2, <2>3
<1>1. /\ n \in 0 .. want /\ n <= Len(uart_read_buffer)
      /\ n = want \/ n = Len(uart_read_buffer)
  BY <1>0 DEF Taken
<1>2. kernel_lr[current] = "read" => n # 0
  <2>1. kernel_lr[current] = "read" => Len(uart_read_buffer) # 0
    BY <1>0 DEF ReadInv
  <2> QED  BY <1>1, <2>1
<1>3. /\ kbinfo' = kb
      /\ uart_read_buffer' = rest
      /\ keybuffer' = [keybuffer EXCEPT ![current] = old \o SubSeq(uart_read_buffer, 1, n)]
      /\ n = want => /\ kernel_lr' = [kernel_lr EXCEPT ![current] = "user"]
                     /\ queue' = queue /\ current' = current
      /\ n # want => /\ kernel_lr' = [kernel_lr EXCEPT ![current] = "read"]
                     /\ Yield(keyboardqueue, kb, rest, remaining_quantum)
  BY DEF ReadPass, switchVars
<1>4. /\ kbinfo'[current].keystoread = want - n /\ kbinfo'[current].keysread = had + n
      /\ \A t \in Task \ {current} : kbinfo'[t] = kbinfo[t]
  BY <1>0, <1>3
<1>5. /\ kernel_lr'[current] = IF n = want THEN "user" ELSE "read"
      /\ \A t \in Task \ {current} : kernel_lr'[t] = kernel_lr[t]
  BY <1>0, <1>3
<1>6. kb[current].keysread = had + n
  BY <1>0
<1> HIDE DEF kb, rest
<1>7. CASE n = want
  <2>1. kernel_lr'[current'] = "user" /\ queue'[keyboardqueue] = queue[keyboardqueue]
    BY <1>0, <1>3, <1>5, <1>7
  <2>2. Readers' = <<>> \o queue[keyboardqueue]
    BY <2>1 DEF Readers
  <2>3. Readers' = queue[keyboardqueue]
    BY <1>0, <2>2
  <2> QED  BY <1>1, <1>2, <1>3, <1>4, <1>5, <1>7, <2>1, <2>3 DEF rest, PassResult
<1>8. CASE n # want
  <2> DEFINE q == <<current>> \o queue[keyboardqueue]
  <2>1. q = IF kb[current].keysread # 0 THEN <<current>> \o queue[keyboardqueue]
            ELSE Append(queue[keyboardqueue], current)
    <3>1. CASE had + n # 0
      BY <1>6, <3>1
    <3>2. CASE had + n = 0
      <4>1. queue[keyboardqueue] = <<>>
        BY <1>1, <1>2, <3>2 DEF PassStarts
      <4>2. <<current>> \o <<>> = Append(<<>>, current)
        OBVIOUS
      <4> QED  BY <1>6, <3>2, <4>1, <4>2
    <3> QED  BY <3>1, <3>2
  <2>2. q = IF keyboardqueue # keyboardqueue THEN queue[keyboardqueue]
            ELSE IF kb[current].keysread # 0 THEN <<current>> \o queue[keyboardqueue]
            ELSE Append(queue[keyboardqueue], current)
    BY <2>1
  <2>3. \A t \in Task : kernel_lr'[t] = IF t = current THEN "read" ELSE kernel_lr[t]
    BY <1>5, <1>8
  <2> HIDE DEF q
  <2>4. /\ Readers' = q
        /\ kernel_lr'[current'] = "read" => rest # <<>>
    <3>1. PlaceInv /\ keyboardqueue \in Queue /\ Yield(keyboardqueue, kb, rest, remaining_quantum)
      BY <1>0, <1>3, <1>8, Names
    <3> QED  BY <2>2, <2>3, <3>1, YieldReaders
  <2> QED  BY <1>1, <1>2, <1>3, <1>4, <1>5, <1>8, <2>4 DEF q, rest, PassResult
<1> QED  BY <1>7, <1>8

(* A request that has old takes n bytes from the buffer buf: got is what it *)
(* has then, and rest stays.                                                *)
Takes(buf, old, n, got, rest) ==
  /\ Len(rest) = Len(buf) - n
  /\ \A i \in 1 .. Len(buf) - n : rest[i] = buf[n + i]
  /\ Len(got) = Len(old) + n
  /\ \A i \in 1 .. Len(old) : got[i] = old[i]
  /\ \A i \in 1 .. n : got[Len(old) + i] = buf[i]

(* The bytes a pass took, and those it left, one by one.                     *)
LEMMA TakenBytes ==
  ASSUME NEW S, NEW buf \in Seq(S), NEW old \in Seq(S), NEW n \in 0 .. Len(buf),
         NEW got, got = old \o SubSeq(buf, 1, n),
         NEW rest, rest = SubSeq(buf, n + 1, Len(buf))
  PROVE  Takes(buf, old, n, got, rest)
<1> DEFINE first == SubSeq(buf, 1, n)
<1>1. Len(buf) \in Nat /\ n \in Nat /\ n <= Len(buf)
  OBVIOUS
<1>2. /\ Len(rest) = Len(buf) - n
      /\ \A i \in 1 .. Len(buf) - n : rest[i] = buf[n + i]
  <2>1. \A i \in n + 1 .. Len(buf) : buf[i] \in S
    BY <1>1
  <2>2. /\ Len(rest) = IF n + 1 <= Len(buf) THEN Len(buf) - (n + 1) + 1 ELSE 0
        /\ \A i \in 1 .. Len(buf) - (n + 1) + 1 : rest[i] = buf[(n + 1) + i - 1]
    BY <1>1, <2>1, SubSeqProperties
  <2>3. \A i \in 1 .. Len(buf) - n : (n + 1) + i - 1 = n + i /\ i \in 1 .. Len(buf) - (n + 1) + 1
    BY <1>1
  <2> QED  BY <1>1, <2>2, <2>3
<1>3. /\ first \in Seq(S) /\ Len(first) = n
      /\ \A i \in 1 .. n : first[i] = buf[i]
  BY <1>1
<1> HIDE DEF first
<1>4. /\ Len(old \o first) = Len(old) + n
      /\ \A i \in 1 .. Len(old) : (old \o first)[i] = old[i]
      /\ \A i \in 1 .. n : (old \o first)[Len(old) + i] = first[i]
  <2>1. /\ Len(old \o first) = Len(old) + Len(first)
        /\ \A i \in 1 .. Len(old) + Len(first) :
             (old \o first)[i] = IF i <= Len(old) THEN old[i] ELSE first[i - Len(old)]
    BY <1>3, ConcatProperties
  <2>2. \A i \in 1 .. n : /\ Len(old) + i \in 1 .. Len(old) + n
                          /\ ~ (Len(old) + i <= Len(old))
                          /\ (Len(old) + i) - Len(old) = i
    BY <1>1
  <2> QED  BY <1>1, <1>3, <2>1, <2>2
<1>5. got = old \o first
  BY DEF first
<1> QED  BY <1>2, <1>3, <1>4, <1>5 DEF Takes

(* The bytes of q have consecutive numbers, and last is the last of them.   *)
RunsTo(q, last) == \A i \in 1 .. Len(q) : q[i] = (last - Len(q)) + i

(* If the buffer holds the last bytes received, and the request has the     *)
(* ones before them, the same holds after it takes some.                    *)
LEMMA TakenNumbers ==
  ASSUME NEW r \in Int, NEW buf, NEW old, Len(buf) \in Nat, Len(old) \in Nat,
         NEW n \in 0 .. Len(buf), NEW got, NEW rest, Takes(buf, old, n, got, rest),
         RunsTo(buf, r), RunsTo(old, r - Len(buf))
  PROVE  RunsTo(rest, r) /\ RunsTo(got, r - Len(rest))
<1> DEFINE L == Len(buf)
           O == Len(old)
<1>0. /\ L \in Nat /\ O \in Nat /\ n \in 0 .. L
      /\ Len(rest) = L - n /\ Len(got) = O + n
      /\ \A i \in 1 .. L : buf[i] = (r - L) + i
      /\ \A i \in 1 .. O : old[i] = (r - L - O) + i
      /\ \A i \in 1 .. L - n : rest[i] = buf[n + i]
      /\ \A i \in 1 .. O : got[i] = old[i]
      /\ \A i \in 1 .. n : got[O + i] = buf[i]
  BY DEF Takes, RunsTo
<1> HIDE DEF L, O
<1>1. ASSUME NEW i \in 1 .. L - n
      PROVE  rest[i] = r - (L - n) + i
  <2>1. n + i \in 1 .. L
    BY <1>0
  <2>2. rest[i] = (r - L) + (n + i)
    BY <1>0, <2>1
  <2> QED  BY <1>0, <2>2
<1>2. ASSUME NEW i \in 1 .. O + n
      PROVE  got[i] = (r - L - O) + i
  <2>1. CASE i \in 1 .. O
    BY <1>0, <2>1
  <2>2. CASE i \notin 1 .. O
    <3>1. i - O \in 1 .. n /\ i - O \in 1 .. L /\ O + (i - O) = i
      BY <1>0, <2>2
    <3>2. got[i] = buf[i - O] /\ buf[i - O] = (r - L) + (i - O)
      BY <1>0, <3>1
    <3> QED  BY <1>0, <3>2
  <2> QED  BY <2>1, <2>2
<1>3. r - (L - n) - (O + n) = r - L - O
  BY <1>0
<1> QED  BY <1>0, <1>1, <1>2, <1>3 DEF RunsTo

(* The bytes of q have consecutive numbers.                                 *)
Consecutive(q) == \A i \in 1 .. Len(q) : q[i] = q[1] + i - 1

(* The two ways to say where they end.                                      *)
LEMMA RunsToLast ==
  ASSUME NEW q \in Seq(Byte), NEW last \in Int
  PROVE  RunsTo(q, last) <=> Consecutive(q) /\ (Len(q) # 0 => q[1] + Len(q) - 1 = last)
<1>1. Len(q) \in Nat /\ \A i \in 1 .. Len(q) : q[i] \in Int
  BY KeyboardAssumption DEF Byte
<1>2. CASE Len(q) = 0
  BY <1>2 DEF RunsTo, Consecutive
<1>3. CASE Len(q) # 0
  <2>1. q[1] \in Int /\ 1 \in 1 .. Len(q)
    BY <1>1, <1>3
  <2>2. ASSUME RunsTo(q, last)
        PROVE  Consecutive(q) /\ q[1] + Len(q) - 1 = last
    <3>1. \A i \in 1 .. Len(q) : q[i] = (last - Len(q)) + i
      BY <2>2 DEF RunsTo
    <3>2. q[1] = (last - Len(q)) + 1
      BY <2>1, <3>1
    <3>3. ASSUME NEW i \in 1 .. Len(q)
          PROVE  q[i] = q[1] + i - 1
      <4>1. q[i] = (last - Len(q)) + i
        BY <3>1
      <4> QED  BY <1>1, <3>2, <4>1
    <3>4. q[1] + Len(q) - 1 = last
      BY <1>1, <3>2
    <3> QED  BY <3>3, <3>4 DEF Consecutive
  <2>3. ASSUME Consecutive(q), q[1] + Len(q) - 1 = last
        PROVE  RunsTo(q, last)
    <3> SUFFICES ASSUME NEW i \in 1 .. Len(q)
                 PROVE  q[i] = (last - Len(q)) + i
      BY DEF RunsTo
    <3>1. q[i] = q[1] + i - 1
      BY <2>3 DEF Consecutive
    <3> QED  BY <1>1, <2>1, <2>3, <3>1
  <2> QED  BY <1>3, <2>2, <2>3
<1> QED  BY <1>2, <1>3

(* What ReadInv says of the numbers of the bytes.                           *)
Numbers ==
  /\ RunsTo(uart_read_buffer, received)
  /\ \A t \in Task :
       /\ Consecutive(keybuffer[t])
       /\ kernel_lr[t] = "read" =>
            /\ kbinfo[t].keystoread # 0
            /\ Len(keybuffer[t]) = kbinfo[t].keysread
            /\ kbinfo[t].keysread # 0 =>
                 /\ t = Head(Readers)
                 /\ RunsTo(keybuffer[t], received - Len(uart_read_buffer))

(* The two ways to say it.                                                  *)
LEMMA ReadInvParts ==
  ReadInv <=> /\ PlaceInv /\ Numbers
              /\ kernel_lr[current] = "read" => uart_read_buffer # <<>>
<1> SUFFICES ASSUME PlaceInv
             PROVE  ReadInv <=> Numbers /\ (kernel_lr[current] = "read" => uart_read_buffer # <<>>)
  BY DEF ReadInv
<1>1. /\ uart_read_buffer \in Seq(Byte) /\ keybuffer \in [Task -> Seq(Byte)]
      /\ received \in Int
  BY IInvParts DEF PlaceInv, DataOK, KeyboardTypeOK
<1>2. /\ DOMAIN uart_read_buffer = 1 .. Len(uart_read_buffer)
      /\ Len(uart_read_buffer) \in Nat
      /\ \A t \in Task : DOMAIN keybuffer[t] = 1 .. Len(keybuffer[t])
  BY <1>1
<1>3. RunsTo(uart_read_buffer, received) <=>
        \A i \in DOMAIN uart_read_buffer :
          uart_read_buffer[i] = received - Len(uart_read_buffer) + i
  BY <1>2 DEF RunsTo
<1>4. \A t \in Task : Consecutive(keybuffer[t]) <=>
        \A i \in DOMAIN keybuffer[t] : keybuffer[t][i] = keybuffer[t][1] + i - 1
  BY <1>2 DEF Consecutive
<1>5. BytesInOrder <=>
        /\ RunsTo(uart_read_buffer, received)
        /\ \A t \in Task : /\ Consecutive(keybuffer[t])
                           /\ kernel_lr[t] = "read" => Len(keybuffer[t]) = kbinfo[t].keysread
  BY <1>3, <1>4 DEF BytesInOrder
<1> DEFINE last == received - Len(uart_read_buffer)
<1>6. last \in Int
  BY <1>1, <1>2
<1> HIDE DEF last
<1>7. ASSUME NEW t \in Task, Consecutive(keybuffer[t]), Len(keybuffer[t]) # 0
      PROVE  RunsTo(keybuffer[t], last) <=> keybuffer[t][1] + Len(keybuffer[t]) - 1 = last
  BY <1>1, <1>6, <1>7, RunsToLast
<1>8. ASSUME BytesInOrder, NEW t \in Task, kernel_lr[t] = "read", kbinfo[t].keysread # 0
      PROVE  RunsTo(keybuffer[t], last) <=> keybuffer[t][1] + kbinfo[t].keysread - 1 = last
  <2>1. Len(keybuffer[t]) = kbinfo[t].keysread /\ Consecutive(keybuffer[t])
    BY <1>5, <1>8
  <2> QED  BY <1>7, <1>8, <2>1
<1> QED  BY <1>5, <1>8 DEF ReadInv, Numbers, last

(* The same, in the next state.                                             *)
LEMMA ReadInvPartsNext ==
  ReadInv' <=> (/\ PlaceInv /\ Numbers
                /\ kernel_lr[current] = "read" => uart_read_buffer # <<>>)'
BY ReadInvParts, PTL

(* One pass through the loop of sys_read_uart.                              *)
LEMMA PassKeepsReadInv ==
  ASSUME ReadInv, PlaceInv', current # idle_task, NEW want \in Nat \ {0}, NEW had \in Nat,
         NEW old \in Seq(Byte),
         PassStarts(want, had, old), ReadPass(want, had, old), received' = received
  PROVE  ReadInv'
<1> DEFINE n    == Taken(want)
           got  == old \o SubSeq(uart_read_buffer, 1, n)
           rest == SubSeq(uart_read_buffer, n + 1, Len(uart_read_buffer))
<1>0. /\ PlaceInv /\ Numbers /\ current \in Task
      /\ uart_read_buffer \in Seq(Byte) /\ keybuffer \in [Task -> Seq(Byte)]
      /\ received \in Int
  BY IInvParts, ReadInvParts DEF ReadInv, PlaceInv, CPUOK, DataOK, KeyboardTypeOK
<1>1. n = Taken(want)
  OBVIOUS
<1> HIDE DEF n
<1>2. PassResult(want, had, old, n)
  BY <1>1, PassEffect
<1>3. n \in 0 .. Len(uart_read_buffer) /\ Len(uart_read_buffer) \in Nat /\ Len(old) \in Nat
  BY <1>0, <1>2 DEF PassResult
<1>4. Len(old) = had /\ RunsTo(old, received - Len(uart_read_buffer))
  <2>1. CASE kernel_lr[current] = "user"
    BY <2>1 DEF PassStarts, RunsTo
  <2>2. CASE kernel_lr[current] = "read"
    <3>1. /\ old = keybuffer[current] /\ had = kbinfo[current].keysread
          /\ Len(old) = had
          /\ had # 0 => RunsTo(old, received - Len(uart_read_buffer))
      BY <1>0, <2>2 DEF PassStarts, Numbers
    <3>2. Len(old) = 0 => RunsTo(old, received - Len(uart_read_buffer))
      BY DEF RunsTo
    <3> QED  BY <3>1, <3>2
  <2> QED  BY <2>1, <2>2 DEF PassStarts
<1>5. Takes(uart_read_buffer, old, n, got, rest)
  BY <1>0, <1>3, TakenBytes
<1>6. got \in Seq(Byte) /\ Len(got) = had + n /\ Len(rest) \in Int
  <2>1. SubSeq(uart_read_buffer, 1, n) \in Seq(Byte)
    BY <1>0, <1>3
  <2>2. got \in Seq(Byte)
    BY <2>1
  <2> HIDE DEF got, rest
  <2> QED  BY <1>3, <1>4, <1>5, <2>2 DEF Takes
<1>7. /\ uart_read_buffer' = rest
      /\ keybuffer' = [keybuffer EXCEPT ![current] = got]
  BY <1>2 DEF PassResult
<1> HIDE DEF got, rest
<1>8. RunsTo(rest, received) /\ RunsTo(got, received - Len(rest)) /\ Consecutive(got)
  <2>1. RunsTo(rest, received) /\ RunsTo(got, received - Len(rest))
    BY <1>0, <1>3, <1>4, <1>5, TakenNumbers DEF Numbers
  <2>2. received - Len(rest) \in Int
    BY <1>0, <1>6
  <2> QED  BY <1>6, <2>1, <2>2, RunsToLast
<1>9. ASSUME NEW t \in Task, t # current, kernel_lr[t] = "read"
      PROVE  kbinfo[t].keysread = 0
  <2> SUFFICES ASSUME kbinfo[t].keysread # 0 PROVE FALSE
    OBVIOUS
  <2>1. t = Head(Readers)
    BY <1>0, <1>9 DEF Numbers
  <2>2. CASE kernel_lr[current] = "read"
    BY <1>0, <1>9, <2>1, <2>2, ReadersRead
  <2>3. CASE kernel_lr[current] = "user" /\ queue[keyboardqueue] = <<>>
    <3>1. t \in ToSet(Readers) /\ Readers = <<>>
      BY <1>0, <1>9, <2>3, ReadersRead
    <3> QED  BY <3>1 DEF ToSet
  <2> QED  BY <2>2, <2>3 DEF PassStarts
<1>10. Numbers'
  <2>1. RunsTo(uart_read_buffer', received')
    BY <1>7, <1>8
  <2>2. ASSUME NEW t \in Task
        PROVE  /\ Consecutive(keybuffer'[t])
               /\ kernel_lr'[t] = "read" =>
                    /\ kbinfo'[t].keystoread # 0
                    /\ Len(keybuffer'[t]) = kbinfo'[t].keysread
                    /\ kbinfo'[t].keysread # 0 =>
                         /\ t = Head(Readers')
                         /\ RunsTo(keybuffer'[t], received' - Len(uart_read_buffer'))
    <3>1. CASE t = current
      <4>1. keybuffer'[t] = got /\ kbinfo'[t].keysread = Len(got)
        BY <1>0, <1>2, <1>6, <1>7, <3>1 DEF PassResult
      <4>2. kernel_lr'[t] = "read" => t = Head(Readers')
        <5>1. queue[keyboardqueue] \in Seq(Task)
          BY <1>0, IInvParts, Names DEF PlaceInv, CPUOK, WellLinked
        <5>2. kernel_lr'[t] = "read" => Readers' = <<current>> \o queue[keyboardqueue]
          BY <1>2, <3>1 DEF PassResult
        <5>3. Head(<<current>> \o queue[keyboardqueue]) = current
          BY <1>0, <5>1
        <5> QED  BY <3>1, <5>2, <5>3
      <4>3. kernel_lr'[t] = "read" => kbinfo'[t].keystoread # 0
        <5>1. /\ kernel_lr'[t] = "read" => n # want
              /\ kbinfo'[t].keystoread = want - n
          BY <1>2, <3>1 DEF PassResult
        <5> QED  BY <1>3, <5>1
      <4> QED  BY <1>7, <1>8, <4>1, <4>2, <4>3
    <3>2. CASE t # current
      <4>1. keybuffer'[t] = keybuffer[t] /\ kbinfo'[t] = kbinfo[t] /\ kernel_lr'[t] = kernel_lr[t]
        BY <1>0, <1>2, <1>7, <3>2 DEF PassResult
      <4> QED  BY <1>0, <1>9, <3>2, <4>1 DEF Numbers
    <3> QED  BY <3>1, <3>2
  <2> QED  BY <2>1, <2>2 DEF Numbers
<1>11. kernel_lr'[current'] = "read" => uart_read_buffer' # <<>>
  BY <1>2 DEF PassResult
<1> QED  BY <1>10, <1>11, ReadInvPartsNext

(* sys_read behind other readers.                                           *)
RequestResult(size) ==
  /\ kernel_lr[current] = "user" /\ queue[keyboardqueue] # <<>>
  /\ kbinfo'[current].keystoread = size /\ kbinfo'[current].keysread = 0
  /\ kernel_lr'[current] = "read"
  /\ keybuffer' = [keybuffer EXCEPT ![current] = <<>>]
  /\ \A t \in Task \ {current} : kbinfo'[t] = kbinfo[t] /\ kernel_lr'[t] = kernel_lr[t]
  /\ uart_read_buffer' = uart_read_buffer
  /\ Readers' = Append(queue[keyboardqueue], current)
  /\ kernel_lr'[current'] = "read" => uart_read_buffer' # <<>>

(* A read that finds readers waiting only joins them.                        *)
LEMMA RequestEffect ==
  ASSUME ReadInv, NEW size, sys_read(size), queue[keyboardqueue] # <<>>
  PROVE  RequestResult(size)
<1> DEFINE kb == [kbinfo EXCEPT ![current] = [keystoread |-> size, keysread |-> 0]]
           q  == Append(queue[keyboardqueue], current)
<1>0. /\ PlaceInv /\ current \in Task
      /\ kernel_lr \in [Task -> {"user", "read"} \cup Sem]
      /\ kbinfo \in [Task -> [keystoread : Nat, keysread : Nat]]
  BY IInvParts DEF ReadInv, PlaceInv, CPUOK, DataOK, KeyboardTypeOK
<1>1. /\ kbinfo' = kb
      /\ keybuffer' = [keybuffer EXCEPT ![current] = <<>>]
      /\ kernel_lr' = [kernel_lr EXCEPT ![current] = "read"]
      /\ Yield(keyboardqueue, kb, uart_read_buffer, remaining_quantum)
      /\ uart_read_buffer' = uart_read_buffer
      /\ kernel_lr[current] = "user" /\ current # idle_task
  BY DEF sys_read, InUser, Interruptible
<1>2. kb[current].keystoread = size /\ kb[current].keysread = 0
  BY <1>0
<1>3. \A t \in Task \ {current} : kb[t] = kbinfo[t]
  OBVIOUS
<1> HIDE DEF kb
<1>4. q = IF keyboardqueue # keyboardqueue THEN queue[keyboardqueue]
          ELSE IF kb[current].keysread # 0 THEN <<current>> \o queue[keyboardqueue]
          ELSE Append(queue[keyboardqueue], current)
  BY <1>2
<1>5. \A t \in Task : kernel_lr'[t] = IF t = current THEN "read" ELSE kernel_lr[t]
  BY <1>0, <1>1
<1> HIDE DEF q
<1>6. /\ Readers' = q
      /\ kernel_lr'[current'] = "read" => uart_read_buffer # <<>>
  BY <1>0, <1>1, <1>4, <1>5, Names, YieldReaders
<1> QED  BY <1>0, <1>1, <1>2, <1>3, <1>5, <1>6 DEF RequestResult, q

(* It keeps the invariant: the new request is behind the others.            *)
LEMMA RequestKeepsReadInv ==
  ASSUME ReadInv, PlaceInv', NEW size, size # 0, RequestResult(size), received' = received
  PROVE  ReadInv'
<1>0. /\ PlaceInv /\ Numbers /\ current \in Task /\ queue[keyboardqueue] \in Seq(Task)
      /\ keybuffer \in [Task -> Seq(Byte)]
  BY IInvParts, ReadInvParts, Names
  DEF ReadInv, PlaceInv, CPUOK, WellLinked, DataOK, KeyboardTypeOK
<1>1. Readers = queue[keyboardqueue] /\ Head(Readers') = Head(Readers)
  <2>1. Readers = queue[keyboardqueue]
    BY <1>0, ReadersRead DEF RequestResult
  <2>2. Head(Append(queue[keyboardqueue], current)) = Head(queue[keyboardqueue])
    BY <1>0 DEF RequestResult
  <2> QED  BY <2>1, <2>2 DEF RequestResult
<1>2. Numbers'
  <2>1. uart_read_buffer' = uart_read_buffer
    BY DEF RequestResult
  <2>2. ASSUME NEW t \in Task
        PROVE  /\ Consecutive(keybuffer'[t])
               /\ kernel_lr'[t] = "read" =>
                    /\ kbinfo'[t].keystoread # 0
                    /\ Len(keybuffer'[t]) = kbinfo'[t].keysread
                    /\ kbinfo'[t].keysread # 0 =>
                         /\ t = Head(Readers')
                         /\ RunsTo(keybuffer'[t], received' - Len(uart_read_buffer'))
    <3>1. CASE t = current
      BY <1>0, <3>1 DEF RequestResult, Consecutive
    <3>2. CASE t # current
      <4>1. keybuffer'[t] = keybuffer[t] /\ kbinfo'[t] = kbinfo[t] /\ kernel_lr'[t] = kernel_lr[t]
        BY <1>0, <3>2 DEF RequestResult
      <4> QED  BY <1>0, <1>1, <2>1, <4>1 DEF Numbers
    <3> QED  BY <3>1, <3>2
  <2> QED  BY <1>0, <2>1, <2>2 DEF Numbers
<1> QED  BY <1>2, ReadInvPartsNext DEF RequestResult

(* A byte that arrives is the next one.                                     *)
LEMMA ArrivalKeepsReadInv ==
  ASSUME ReadInv, PlaceInv', interrupt_uart_routine
  PROVE  ReadInv'
<1>0. /\ PlaceInv /\ Numbers /\ current \in Task
      /\ uart_read_buffer \in Seq(Byte) /\ received \in Int
  BY IInvParts, ReadInvParts
  DEF ReadInv, PlaceInv, CPUOK, DataOK, KeyboardTypeOK
<1>1. /\ uart_read_buffer' = Append(uart_read_buffer, received + 1)
      /\ received' = received + 1
      /\ UNCHANGED <<current, queue, kernel_lr, kbinfo, keybuffer>>
      /\ kernel_lr[current] = "user"
  BY DEF interrupt_uart_routine, switchVars, Interruptible
<1>2. /\ Len(uart_read_buffer) \in Nat
      /\ Len(uart_read_buffer') = Len(uart_read_buffer) + 1
      /\ \A i \in 1 .. Len(uart_read_buffer) : uart_read_buffer'[i] = uart_read_buffer[i]
      /\ uart_read_buffer'[Len(uart_read_buffer) + 1] = received + 1
  BY <1>0, <1>1
<1>3. received' - Len(uart_read_buffer') = received - Len(uart_read_buffer)
  BY <1>0, <1>1, <1>2
<1>4. RunsTo(uart_read_buffer', received')
  BY <1>0, <1>1, <1>2, <1>3 DEF RunsTo, Numbers
<1>5. Readers' = Readers
  BY <1>1 DEF Readers
<1>6. Numbers'
  BY <1>0, <1>1, <1>3, <1>4, <1>5 DEF Numbers
<1> QED  BY <1>1, <1>6, ReadInvPartsNext

(* So does a step that does not concern the readers.                        *)
LEMMA QuietKeepsReadInv ==
  ASSUME ReadInv, PlaceInv', Quiet
  PROVE  ReadInv'
<1>1. Numbers
  BY ReadInvParts
<1>2. Numbers'
  BY <1>1 DEF Quiet, Numbers
<1> QED  BY <1>2, ReadInvPartsNext DEF Quiet

(* The steps of the keyboard: an arrival, a request behind others, or a     *)
(* pass through the loop of sys_read_uart.                                  *)
LEMMA KeyboardSteps ==
  ASSUME ReadInv, KeyboardNext
  PROVE  \/ interrupt_uart_routine
         \/ /\ \E size \in ReadSizes : RequestResult(size)
            /\ received' = received
         \/ /\ \E size \in ReadSizes :
                 /\ kernel_lr[current] = "user" /\ queue[keyboardqueue] = <<>>
                 /\ ReadPass(size, 0, <<>>)
            /\ current # idle_task /\ received' = received
         \/ read_continue /\ current # idle_task
<1>1. CASE \E size \in ReadSizes : sys_read(size)
  <2> PICK size \in ReadSizes : sys_read(size)
    BY <1>1
  <2>1. CASE queue[keyboardqueue] # <<>>
    BY <2>1, RequestEffect DEF sys_read
  <2>2. CASE queue[keyboardqueue] = <<>>
    BY <2>2 DEF sys_read, InUser, Interruptible
  <2> QED  BY <2>1, <2>2
<1>2. CASE read_continue
  BY <1>2 DEF read_continue, ReadInv, PlaceInv
<1> QED  BY <1>1, <1>2 DEF KeyboardNext

(* Every step of the kernel keeps the invariant.                            *)
LEMMA NextReadInv == ReadInv /\ [Next]_vars => ReadInv'
<1> SUFFICES ASSUME ReadInv, [Next]_vars PROVE ReadInv'
  OBVIOUS
<1>0. PlaceInv /\ PlaceInv'
  BY NextPlaceInv DEF ReadInv
<1>1. CASE ~ (KeyboardNext /\ UNCHANGED <<semVars, lost>>)
  BY <1>0, <1>1, OthersAreQuiet, QuietKeepsReadInv
<1>2. CASE KeyboardNext
  <2>1. CASE interrupt_uart_routine
    BY <1>0, <2>1, ArrivalKeepsReadInv
  <2>2. CASE (\E size \in ReadSizes : RequestResult(size)) /\ received' = received
    <3> PICK size \in ReadSizes : RequestResult(size)
      BY <2>2
    <3>1. size # 0
      BY KeyboardAssumption
    <3> QED  BY <1>0, <2>2, <3>1, RequestKeepsReadInv
  <2>3. CASE /\ \E size \in ReadSizes :
                  /\ kernel_lr[current] = "user" /\ queue[keyboardqueue] = <<>>
                  /\ ReadPass(size, 0, <<>>)
             /\ current # idle_task /\ received' = received
    <3> PICK size \in ReadSizes :
               /\ kernel_lr[current] = "user" /\ queue[keyboardqueue] = <<>>
               /\ ReadPass(size, 0, <<>>)
      BY <2>3
    <3>1. size \in Nat \ {0} /\ 0 \in Nat /\ <<>> \in Seq(Byte)
      BY KeyboardAssumption
    <3>2. PassStarts(size, 0, <<>>)
      BY DEF PassStarts
    <3> QED  BY <1>0, <2>3, <3>1, <3>2, PassKeepsReadInv
  <2>4. CASE read_continue /\ current # idle_task
    <3>1. /\ current \in Task /\ kernel_lr[current] = "read" /\ received' = received
          /\ ReadPass(kbinfo[current].keystoread, kbinfo[current].keysread, keybuffer[current])
      BY <1>0, <2>4, IInvParts DEF read_continue, PlaceInv, CPUOK
    <3>2. PassStarts(kbinfo[current].keystoread, kbinfo[current].keysread, keybuffer[current])
      BY <3>1 DEF PassStarts
    <3>3. /\ kbinfo[current].keystoread \in Nat \ {0} /\ kbinfo[current].keysread \in Nat
          /\ keybuffer[current] \in Seq(Byte)
      BY <1>0, <3>1, IInvParts DEF ReadInv, PlaceInv, DataOK, KeyboardTypeOK
    <3> QED  BY <1>0, <2>4, <3>1, <3>2, <3>3, PassKeepsReadInv
  <2> QED  BY <1>2, <2>1, <2>2, <2>3, <2>4, KeyboardSteps
<1> QED  BY <1>1, <1>2

(* At the start nobody reads and nothing was received.                      *)
LEMMA InitReadInv == Init => ReadInv
<1> SUFFICES ASSUME Init PROVE ReadInv
  OBVIOUS
<1>1. PlaceInv
  BY InitPlaceInv
<1>2. /\ uart_read_buffer = <<>> /\ received = 0
      /\ \A t \in Task : keybuffer[t] = <<>> /\ kernel_lr[t] = "user"
  BY DEF Init, KeyboardInit, SchedInit
<1>3. current \in Task
  BY <1>1, IInvParts DEF PlaceInv, CPUOK
<1> QED  BY <1>1, <1>2, <1>3 DEF ReadInv, BytesInOrder

(* ReadInv is an invariant of the kernel.                                    *)
LEMMA ReadInvAlways == Spec => []ReadInv
BY InitReadInv, NextReadInv, PTL DEF Spec

(* Every byte the buffer took is delivered once and in order: interrupts,   *)
(* task switches and other readers between two passes of the loop of        *)
(* sys_read_uart lose, repeat or mix up none.                               *)
THEOREM BytesAreInOrder == Spec => []BytesInOrder
<1>1. ReadInv => BytesInOrder
  BY DEF ReadInv
<1> QED  BY <1>1, ReadInvAlways, PTL

(* A reader that has part of its bytes runs, or is the first of             *)
(* keyboardqueue: list_add in sched_update_queues_state_RR and the first    *)
(* branch of sched_switch_process_RR let nobody overtake it.                *)
THEOREM PartlyServedReadersAreFirst == Spec => []PartlyServedFirst
<1>1. ReadInv => PartlyServedFirst
  <2> SUFFICES ASSUME ReadInv, NEW t \in Task, kernel_lr[t] = "read", kbinfo[t].keysread # 0
               PROVE  IF kernel_lr[current] = "read" THEN t = current
                      ELSE t = Head(queue[keyboardqueue])
    BY DEF PartlyServedFirst
  <2>1. t = Head(Readers) /\ PlaceInv
    BY DEF ReadInv
  <2> QED  BY <2>1, ReadersRead
<1> QED  BY <1>1, ReadInvAlways, PTL
-----------------------------------------------------------------------------
(* The requests of the tasks in q: pendingReads is Requests(Readers).       *)
Requests(q, kb) == [i \in DOMAIN q |-> [task |-> q[i], left |-> kb[q[i]].keystoread]]

RequestOf(t, kb) == [task |-> t, left |-> kb[t].keystoread]

(* A request with nobody before it.                                         *)
LEMMA RequestsCons ==
  ASSUME NEW q \in Seq(Task), NEW t \in Task, NEW kb
  PROVE  Requests(<<t>> \o q, kb) = <<RequestOf(t, kb)>> \o Requests(q, kb)
<1> DEFINE c == <<t>> \o q
           r == Requests(q, kb)
<1>1. /\ Len(q) \in Nat /\ DOMAIN q = 1 .. Len(q)
      /\ DOMAIN c = 1 .. Len(q) + 1 /\ c[1] = t
      /\ \A i \in 2 .. Len(q) + 1 : c[i] = q[i - 1]
  OBVIOUS
<1> DEFINE S == {RequestOf(u, kb) : u \in Task}
<1>2. r \in Seq(S) /\ Len(r) = Len(q) /\ \A i \in 1 .. Len(q) : r[i] = RequestOf(q[i], kb)
  <2>1. r = [i \in 1 .. Len(q) |-> RequestOf(q[i], kb)]
    BY <1>1 DEF Requests, RequestOf
  <2>2. \A i \in 1 .. Len(q) : RequestOf(q[i], kb) \in S
    OBVIOUS
  <2> HIDE DEF S, r
  <2> QED  BY <1>1, <2>1, <2>2
<1>3. RequestOf(t, kb) \in S
  OBVIOUS
<1> HIDE DEF S, r, c
<1>4. /\ DOMAIN (<<RequestOf(t, kb)>> \o r) = 1 .. Len(q) + 1
      /\ (<<RequestOf(t, kb)>> \o r)[1] = RequestOf(t, kb)
      /\ \A i \in 2 .. Len(q) + 1 : (<<RequestOf(t, kb)>> \o r)[i] = r[i - 1]
      /\ <<RequestOf(t, kb)>> \o r \in Seq(S)
  BY <1>1, <1>2, <1>3
<1>5. /\ DOMAIN Requests(c, kb) = 1 .. Len(q) + 1
      /\ \A i \in 1 .. Len(q) + 1 : Requests(c, kb)[i] = RequestOf(c[i], kb)
  BY <1>1 DEF Requests, RequestOf
<1>6. ASSUME NEW i \in 1 .. Len(q) + 1
      PROVE  Requests(c, kb)[i] = (<<RequestOf(t, kb)>> \o r)[i]
  <2>1. CASE i = 1
    BY <1>1, <1>4, <1>5, <2>1
  <2>2. CASE i # 1
    <3>1. i \in 2 .. Len(q) + 1 /\ i - 1 \in 1 .. Len(q)
      BY <1>1, <2>2
    <3> QED  BY <1>1, <1>2, <1>4, <1>5, <3>1
  <2> QED  BY <2>1, <2>2
<1>7. Requests(c, kb) = [i \in 1 .. Len(q) + 1 |-> (<<RequestOf(t, kb)>> \o r)[i]]
  BY <1>5, <1>6 DEF Requests
<1>8. <<RequestOf(t, kb)>> \o r = [i \in 1 .. Len(q) + 1 |-> (<<RequestOf(t, kb)>> \o r)[i]]
  BY <1>4
<1> QED  BY <1>7, <1>8 DEF c, r

(* A request behind all others.                                             *)
LEMMA RequestsAppend ==
  ASSUME NEW q \in Seq(Task), NEW t \in Task, NEW kb
  PROVE  Requests(Append(q, t), kb) = Append(Requests(q, kb), RequestOf(t, kb))
<1> DEFINE c == Append(q, t)
           r == Requests(q, kb)
           S == {RequestOf(u, kb) : u \in Task}
<1>1. /\ Len(q) \in Nat /\ DOMAIN q = 1 .. Len(q)
      /\ DOMAIN c = 1 .. Len(q) + 1 /\ c[Len(q) + 1] = t
      /\ \A i \in 1 .. Len(q) : c[i] = q[i]
  OBVIOUS
<1>2. r \in Seq(S) /\ Len(r) = Len(q) /\ \A i \in 1 .. Len(q) : r[i] = RequestOf(q[i], kb)
  <2>1. r = [i \in 1 .. Len(q) |-> RequestOf(q[i], kb)]
    BY <1>1 DEF Requests, RequestOf
  <2>2. \A i \in 1 .. Len(q) : RequestOf(q[i], kb) \in S
    OBVIOUS
  <2> HIDE DEF S, r
  <2> QED  BY <1>1, <2>1, <2>2
<1>3. RequestOf(t, kb) \in S
  OBVIOUS
<1> HIDE DEF S, r, c
<1>4. /\ DOMAIN Append(r, RequestOf(t, kb)) = 1 .. Len(q) + 1
      /\ Append(r, RequestOf(t, kb))[Len(q) + 1] = RequestOf(t, kb)
      /\ \A i \in 1 .. Len(q) : Append(r, RequestOf(t, kb))[i] = r[i]
      /\ Append(r, RequestOf(t, kb)) \in Seq(S)
  BY <1>1, <1>2, <1>3
<1>5. /\ DOMAIN Requests(c, kb) = 1 .. Len(q) + 1
      /\ \A i \in 1 .. Len(q) + 1 : Requests(c, kb)[i] = RequestOf(c[i], kb)
  BY <1>1 DEF Requests, RequestOf
<1>6. ASSUME NEW i \in 1 .. Len(q) + 1
      PROVE  Requests(c, kb)[i] = Append(r, RequestOf(t, kb))[i]
  <2>1. CASE i = Len(q) + 1
    BY <1>1, <1>4, <1>5, <2>1
  <2>2. CASE i # Len(q) + 1
    <3>1. i \in 1 .. Len(q)
      BY <1>1, <2>2
    <3> QED  BY <1>1, <1>2, <1>4, <1>5, <3>1
  <2> QED  BY <2>1, <2>2
<1>7. Requests(c, kb) = [i \in 1 .. Len(q) + 1 |-> Append(r, RequestOf(t, kb))[i]]
  BY <1>5, <1>6 DEF Requests
<1>8. Append(r, RequestOf(t, kb)) = [i \in 1 .. Len(q) + 1 |-> Append(r, RequestOf(t, kb))[i]]
  <2> DEFINE w == Append(r, RequestOf(t, kb))
  <2> HIDE DEF w
  <2>1. w \in Seq(S) /\ DOMAIN w = 1 .. Len(q) + 1
    BY <1>4 DEF w
  <2>2. w = [i \in 1 .. Len(q) + 1 |-> w[i]]
    BY <2>1
  <2> QED  BY <2>2 DEF w
<1> QED  BY <1>7, <1>8 DEF c, r

(* Requests in which nothing changes.                                       *)
LEMMA RequestsSame ==
  ASSUME NEW q \in Seq(Task), NEW kb1, NEW kb2,
         \A t \in Task : t \in ToSet(q) => kb1[t].keystoread = kb2[t].keystoread
  PROVE  Requests(q, kb1) = Requests(q, kb2)
<1>1. \A i \in DOMAIN q : q[i] \in ToSet(q) /\ q[i] \in Task
  BY DEF ToSet
<1> QED  BY <1>1 DEF Requests

(* How many and who.                                                        *)
LEMMA RequestsParts ==
  ASSUME NEW q \in Seq(Task), NEW kb
  PROVE  /\ Requests(q, kb) = <<>> <=> q = <<>>
         /\ \A i \in DOMAIN Requests(q, kb) : Requests(q, kb)[i].task \in ToSet(q)
         /\ Requests(q, kb) \in Seq({RequestOf(t, kb) : t \in Task})
<1>1. DOMAIN q = 1 .. Len(q) /\ Len(q) \in Nat
  OBVIOUS
<1>2. Requests(q, kb) = [i \in 1 .. Len(q) |-> RequestOf(q[i], kb)]
  BY <1>1 DEF Requests, RequestOf
<1>3. Requests(q, kb) \in Seq({RequestOf(t, kb) : t \in Task}) /\ Len(Requests(q, kb)) = Len(q)
  <2>1. \A i \in 1 .. Len(q) : RequestOf(q[i], kb) \in {RequestOf(t, kb) : t \in Task}
    OBVIOUS
  <2> DEFINE S == {RequestOf(t, kb) : t \in Task}
             r == Requests(q, kb)
  <2> HIDE DEF S, r
  <2>2. \A i \in 1 .. Len(q) : RequestOf(q[i], kb) \in S
    BY <2>1 DEF S
  <2>3. r = [i \in 1 .. Len(q) |-> RequestOf(q[i], kb)]
    BY <1>2 DEF r
  <2>4. r \in Seq(S) /\ Len(r) = Len(q)
    BY <1>1, <2>2, <2>3
  <2> QED  BY <2>4 DEF S, r
<1>4. \A i \in DOMAIN q : q[i] \in ToSet(q)
  BY DEF ToSet
<1>5. Requests(q, kb) = <<>> <=> q = <<>>
  BY <1>3
<1>6. \A i \in DOMAIN Requests(q, kb) : Requests(q, kb)[i].task \in ToSet(q)
  BY <1>1, <1>2, <1>4 DEF RequestOf
<1> QED  BY <1>3, <1>5, <1>6

(* The requests LineDiscipline knows of are those of the readers.            *)
LEMMA PendingIsRequests == pendingReads = Requests(Readers, kbinfo)
BY DEF pendingReads, Requests, Readers

(* The same in the next state.                                               *)
LEMMA PendingIsRequestsNext == pendingReads' = Requests(Readers', kbinfo')
BY DEF pendingReads, Requests, Readers

(* A step that does not concern the readers changes nothing in Line.        *)
LEMMA QuietIsStutter ==
  ASSUME ReadInv, Quiet
  PROVE  UNCHANGED Line!vars
<1>1. /\ Readers \in Seq(Task)
      /\ \A t \in Task : t \in ToSet(Readers) => kernel_lr[t] = "read"
  BY ReadersRead DEF ReadInv
<1>2. Requests(Readers, kbinfo') = Requests(Readers, kbinfo)
  BY <1>1, RequestsSame DEF Quiet
<1>3. pendingReads' = pendingReads
  BY <1>2, PendingIsRequests, PendingIsRequestsNext DEF Quiet
<1> QED  BY <1>3 DEF Line!vars, Quiet

(* interrupt_uart_routine.                                                  *)
LEMMA ArrivalIsArrive ==
  ASSUME ReadInv, interrupt_uart_routine
  PROVE  Line!Arrive
<1>1. pendingReads' = pendingReads
  BY DEF pendingReads, interrupt_uart_routine, switchVars
<1>2. Len(uart_read_buffer) \in Nat
  BY IInvParts DEF ReadInv, PlaceInv, DataOK, KeyboardTypeOK
<1>3. Len(uart_read_buffer) < UART_READ_BUFFER_SIZE - 1
  BY <1>2, KeyboardAssumption DEF interrupt_uart_routine, BufferFull
<1> QED  BY <1>1, <1>3 DEF Line!Arrive, interrupt_uart_routine

(* sys_read behind other readers.                                           *)
LEMMA RequestIsRequest ==
  ASSUME ReadInv, NEW size \in ReadSizes, RequestResult(size), received' = received
  PROVE  Line!Request(current, size)
<1> DEFINE q == queue[keyboardqueue]
<1>1. /\ Readers = q /\ q \in Seq(Task) /\ q # <<>>
      /\ current \in Task /\ current \notin ToSet(q)
      /\ \A t \in Task : t \in ToSet(q) <=> kernel_lr[t] = "read"
  BY ReadersRead, IInvParts DEF ReadInv, PlaceInv, CPUOK, RequestResult
<1>2. /\ Readers' = Append(q, current)
      /\ kbinfo'[current].keystoread = size
      /\ \A t \in Task \ {current} : kbinfo'[t] = kbinfo[t]
  BY DEF RequestResult
<1> HIDE DEF q
<1>3. Requests(q, kbinfo') = Requests(q, kbinfo)
  BY <1>1, <1>2, RequestsSame
<1>4. pendingReads' = Append(pendingReads, [task |-> current, left |-> size])
  <2>1. pendingReads' = Append(Requests(q, kbinfo'), RequestOf(current, kbinfo'))
    BY <1>1, <1>2, RequestsAppend, PendingIsRequestsNext
  <2> QED  BY <1>1, <1>2, <1>3, <2>1, PendingIsRequests DEF RequestOf
<1>5. pendingReads # <<>> /\ ~ Line!Waiting(current)
  BY <1>1, RequestsParts, PendingIsRequests DEF Line!Waiting
<1> QED  BY <1>4, <1>5 DEF Line!Request, RequestResult

(* What one pass through the loop leaves of the requests: the ones behind,  *)
(* and before them the one of the running task, if it still wants bytes.    *)
LEMMA PassLeaves ==
  ASSUME ReadInv, NEW want \in Nat, NEW had, NEW old, NEW n, PassResult(want, had, old, n),
         PassStarts(want, had, old)
  PROVE  pendingReads' = Line!Rest(current, want, n) \o Requests(queue[keyboardqueue], kbinfo)
<1> DEFINE q == queue[keyboardqueue]
<1>1. /\ q \in Seq(Task) /\ current \in Task /\ current \notin ToSet(q)
  BY IInvParts, Names DEF ReadInv, PlaceInv, CPUOK, WellLinked
<1>2. /\ kbinfo'[current].keystoread = want - n
      /\ \A t \in Task \ {current} : kbinfo'[t] = kbinfo[t]
      /\ Readers' = IF n = want THEN q ELSE <<current>> \o q
  BY DEF PassResult
<1> HIDE DEF q
<1>3. Requests(q, kbinfo') = Requests(q, kbinfo)
  BY <1>1, <1>2, RequestsSame
<1> DEFINE r == Requests(q, kbinfo)
           S == {RequestOf(t, kbinfo) : t \in Task}
<1>4. r \in Seq(S)
  BY <1>1, RequestsParts
<1>5. CASE n = want
  <2>1. pendingReads' = r
    BY <1>2, <1>3, <1>5, PendingIsRequestsNext
  <2> HIDE DEF r, S
  <2>2. <<>> \o r = r
    BY <1>4
  <2> QED  BY <1>5, <2>1, <2>2 DEF Line!Rest, r, q
<1>6. CASE n # want
  <2>1. pendingReads' = <<RequestOf(current, kbinfo')>> \o r
    <3>1. Readers' = <<current>> \o q
      BY <1>2, <1>6
    <3>2. Requests(<<current>> \o q, kbinfo') = <<RequestOf(current, kbinfo')>> \o Requests(q, kbinfo')
      BY <1>1, RequestsCons
    <3> QED  BY <1>3, <3>1, <3>2, PendingIsRequestsNext
  <2>2. RequestOf(current, kbinfo') = [task |-> current, left |-> want - n]
    BY <1>2 DEF RequestOf
  <2> QED  BY <1>6, <2>1, <2>2 DEF Line!Rest, q
<1> QED  BY <1>5, <1>6

(* sys_read with no reader before it.                                       *)
LEMMA FirstPassIsRequestAndServe ==
  ASSUME ReadInv, NEW size \in ReadSizes, NEW n, PassResult(size, 0, <<>>, n),
         kernel_lr[current] = "user", queue[keyboardqueue] = <<>>, received' = received
  PROVE  Line!RequestAndServe(current, size)
<1>1. /\ size \in Nat /\ PassStarts(size, 0, <<>>)
      /\ uart_read_buffer \in Seq(Byte) /\ Len(uart_read_buffer) \in Nat
  BY KeyboardAssumption, IInvParts DEF PassStarts, ReadInv, PlaceInv, DataOK, KeyboardTypeOK
<1>2. Readers = <<>>
  BY ReadersRead DEF ReadInv
<1>3. \A kb : Requests(<<>>, kb) = <<>>
  BY DEF Requests
<1>4. pendingReads = <<>>
  BY <1>2, <1>3, PendingIsRequests
<1>5. pendingReads' = Line!Rest(current, size, n)
  <2>1. pendingReads' = Line!Rest(current, size, n) \o <<>>
    BY <1>1, <1>3, PassLeaves
  <2>2. <<[task |-> current, left |-> size - n]>> \o <<>> = <<[task |-> current, left |-> size - n]>>
    OBVIOUS
  <2> QED  BY <2>1, <2>2 DEF Line!Rest
<1>6. n \in 0 .. size /\ n <= Len(uart_read_buffer) /\ (n = size \/ n = Len(uart_read_buffer))
  BY DEF PassResult
<1>7. SubSeq(uart_read_buffer, 1, n) \in Seq(Byte)
  BY <1>1, <1>6
<1>8. keybuffer' = [keybuffer EXCEPT ![current] = SubSeq(uart_read_buffer, 1, n)]
  <2> DEFINE s == SubSeq(uart_read_buffer, 1, n)
  <2> HIDE DEF s
  <2>1. <<>> \o s = s
    BY <1>7 DEF s
  <2> QED  BY <2>1 DEF s, PassResult
<1>9. uart_read_buffer' = SubSeq(uart_read_buffer, n + 1, Len(uart_read_buffer))
  BY DEF PassResult
<1> QED  BY <1>4, <1>5, <1>6, <1>8, <1>9 DEF Line!RequestAndServe, Line!Deliver

(* The next pass, when the reader has the CPU again.                        *)
LEMMA NextPassIsServe ==
  ASSUME ReadInv, NEW n, kernel_lr[current] = "read", received' = received,
         PassResult(kbinfo[current].keystoread, kbinfo[current].keysread, keybuffer[current], n)
  PROVE  Line!Serve
<1> DEFINE q    == queue[keyboardqueue]
           r    == Requests(q, kbinfo)
           S    == {RequestOf(t, kbinfo) : t \in Task}
           want == kbinfo[current].keystoread
<1>1. /\ current \in Task /\ q \in Seq(Task) /\ want \in Nat
      /\ Readers = <<current>> \o q
  BY IInvParts, Names, ReadersRead
  DEF ReadInv, PlaceInv, CPUOK, WellLinked, DataOK, KeyboardTypeOK
<1>2. PassStarts(want, kbinfo[current].keysread, keybuffer[current])
  BY DEF PassStarts
<1>3. /\ n \in 1 .. want /\ n <= Len(uart_read_buffer)
      /\ n = want \/ n = Len(uart_read_buffer)
      /\ keybuffer' = [keybuffer EXCEPT ![current] = @ \o SubSeq(uart_read_buffer, 1, n)]
      /\ uart_read_buffer' = SubSeq(uart_read_buffer, n + 1, Len(uart_read_buffer))
  BY <1>1 DEF PassResult
<1>4. pendingReads' = Line!Rest(current, want, n) \o r
  BY <1>1, <1>2, PassLeaves
<1>5. pendingReads = <<RequestOf(current, kbinfo)>> \o r
  BY <1>1, RequestsCons, PendingIsRequests
<1>6. r \in Seq(S) /\ RequestOf(current, kbinfo) \in S
  <2>1. Requests(q, kbinfo) \in Seq({RequestOf(t, kbinfo) : t \in Task})
    <3> HIDE DEF q
    <3> QED  BY <1>1, RequestsParts
  <2> QED  BY <1>1, <2>1
<1>7. /\ RequestOf(current, kbinfo).task = current
      /\ RequestOf(current, kbinfo).left = want
  BY DEF RequestOf
<1> HIDE DEF q, r, S, want
<1>8. pendingReads # <<>> /\ Head(pendingReads) = RequestOf(current, kbinfo) /\ Tail(pendingReads) = r
  BY <1>5, <1>6
<1> QED  BY <1>3, <1>4, <1>7, <1>8 DEF Line!Serve, Line!Deliver

(* Blocking reads are a line discipline: every step of the kernel serves,   *)
(* adds or completes requests as LineDiscipline does, or changes none of    *)
(* them and none of the bytes.                                              *)
LEMMA NextIsLineNext == ReadInv /\ [Next]_vars => [Line!Next]_(Line!vars)
<1> SUFFICES ASSUME ReadInv, [Next]_vars PROVE Line!Next \/ UNCHANGED Line!vars
  OBVIOUS
<1>0. PlaceInv /\ current \in Task
  BY IInvParts DEF ReadInv, PlaceInv, CPUOK
<1>1. CASE ~ (KeyboardNext /\ UNCHANGED <<semVars, lost>>)
  BY <1>1, OthersAreQuiet, QuietIsStutter
<1>2. CASE KeyboardNext
  <2>1. CASE interrupt_uart_routine
    BY <2>1, ArrivalIsArrive DEF Line!Next
  <2>2. CASE (\E size \in ReadSizes : RequestResult(size)) /\ received' = received
    BY <1>0, <2>2, RequestIsRequest DEF Line!Next
  <2>3. CASE /\ \E size \in ReadSizes :
                  /\ kernel_lr[current] = "user" /\ queue[keyboardqueue] = <<>>
                  /\ ReadPass(size, 0, <<>>)
             /\ current # idle_task /\ received' = received
    <3> PICK size \in ReadSizes :
               /\ kernel_lr[current] = "user" /\ queue[keyboardqueue] = <<>>
               /\ ReadPass(size, 0, <<>>)
      BY <2>3
    <3>1. size \in Nat \ {0} /\ 0 \in Nat
      BY KeyboardAssumption
    <3>2. PassStarts(size, 0, <<>>)
      BY DEF PassStarts
    <3>3. PassResult(size, 0, <<>>, Taken(size))
      BY <2>3, <3>1, <3>2, PassEffect
    <3> QED  BY <1>0, <2>3, <3>3, FirstPassIsRequestAndServe DEF Line!Next
  <2>4. CASE read_continue /\ current # idle_task
    <3>1. /\ kernel_lr[current] = "read" /\ received' = received
          /\ ReadPass(kbinfo[current].keystoread, kbinfo[current].keysread, keybuffer[current])
      BY <2>4 DEF read_continue
    <3>2. PassStarts(kbinfo[current].keystoread, kbinfo[current].keysread, keybuffer[current])
      BY <3>1 DEF PassStarts
    <3>3. kbinfo[current].keystoread \in Nat \ {0} /\ kbinfo[current].keysread \in Nat
      BY <1>0, <3>1, IInvParts DEF ReadInv, PlaceInv, DataOK, KeyboardTypeOK
    <3>4. PassResult(kbinfo[current].keystoread, kbinfo[current].keysread, keybuffer[current],
                     Taken(kbinfo[current].keystoread))
      BY <2>4, <3>1, <3>2, <3>3, PassEffect
    <3> QED  BY <3>1, <3>4, NextPassIsServe DEF Line!Next
  <2> QED  BY <1>2, <2>1, <2>2, <2>3, <2>4, KeyboardSteps
<1> QED  BY <1>1, <1>2

(* At boot nobody reads and nothing has arrived.                             *)
LEMMA InitIsLineInit == Init => Line!Init
<1> SUFFICES ASSUME Init PROVE Line!Init
  OBVIOUS
<1>1. current \in Task /\ kernel_lr \in [Task -> {"user", "read"} \cup Sem] /\ PlaceInv
  BY InitPlaceInv, IInvParts DEF PlaceInv, CPUOK, DataOK
<1>2. /\ uart_read_buffer = <<>> /\ received = 0 /\ keybuffer = [t \in Task |-> <<>>]
      /\ kernel_lr[current] = "user" /\ queue[keyboardqueue] = <<>>
  BY <1>1, Names, SchedAssumption DEF Init, KeyboardInit, SchedInit
<1>3. pendingReads = <<>>
  <2>1. Readers = <<>>
    BY <1>1, <1>2, ReadersRead
  <2> QED  BY <2>1, PendingIsRequests DEF Requests
<1> QED  BY <1>2, <1>3 DEF Line!Init

(* Whatever the scheduler, the other system calls and the interrupts do,    *)
(* read requests are served in the order they were made, and none receives  *)
(* a byte out of turn: the kernel implements LineDiscipline.                *)
THEOREM ReadsImplementLine == Spec => ReadsAreServedInOrder
BY InitIsLineInit, NextIsLineNext, ReadInvAlways, PTL DEF Spec, ReadsAreServedInOrder, Line!Spec
=============================================================================
