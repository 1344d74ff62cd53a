---------------------------- MODULE SystemProofs ----------------------------
(***************************************************************************)
(* Proofs about the kernel and the memory together.  The stores, reads and *)
(* copies of System go through translations that may be stale.  They are   *)
(* shown to reach what the page table of the running process names, or the *)
(* empty page, so that System implements Memory; and what this means for   *)
(* the code, the data a child starts with, and other processes.            *)
(***************************************************************************)
EXTENDS System, KernelProofs

(* The lemmas about Memory, for the memory of System.  What P names and     *)
(* what M names is the same: SameNext and the lemmas behind it.             *)
P == INSTANCE MemoryProofs WITH freequeue <- queue[freequeue], Byte <- UserByte

(* What Memory assumes of its constants.                                    *)
LEMMA MemoryAssumed ==
  /\ NR_TASKS \in Nat /\ NR_TASKS >= 2
  /\ NUM_PAG_CODE \in Nat \ {0} /\ NUM_PAG_DATA \in Nat \ {0}
  /\ TOTAL_PAGES_ENTRIES \in Nat /\ TOTAL_PAGES_ENTRIES > NUM_PAG_CODE + NUM_PAG_DATA
  /\ NUM_PAG_KERNEL \in Nat \ {0}
  /\ TOTAL_PH_PAGES \in Nat
  /\ TOTAL_PH_PAGES >= NUM_PAG_KERNEL + 2 * (NUM_PAG_CODE + NUM_PAG_DATA)
  /\ PAGE_SIZE \in Nat \ {0}
  /\ AddressSpace \in Nat /\ AddressSpace >= 2 * TOTAL_PAGES_ENTRIES * PAGE_SIZE
  /\ Increments \subseteq Int /\ UserByte # {}
<1>1. 0 \in UserByte
  BY KeyboardAssumption DEF UserByte
<1> QED  BY <1>1, SystemAssumption, SchedAssumption
-----------------------------------------------------------------------------
(* Whatever a step of the system does to memory, for the scheduler, the     *)
(* semaphores and the readers it is a step of the kernel, or none.          *)
LEMMA KernelStep == [SysNext]_sysVars => [Next]_vars
<1> SUFFICES ASSUME [SysNext]_sysVars PROVE [Next]_vars
  OBVIOUS
<1>1. ASSUME NEW p \in M!Page, NEW b \in UserByte, user_write(p, b) PROVE UNCHANGED vars
  BY <1>1 DEF user_write
<1>2. CASE other_calls
  BY <1>2 DEF other_calls, Next, KeyboardNext
<1>3. ASSUME NEW size \in ReadSizes, NEW p \in M!BufferPages, read(size, p) PROVE Next
  BY <1>3 DEF read, Next, KeyboardNext
<1>4. CASE read_goes_on
  BY <1>4 DEF read_goes_on, Next, KeyboardNext
<1>5. CASE clone \/ fork \/ fork_fails_early \/ fork_fails_late \/ exit
  BY <1>5 DEF clone, fork, fork_fails_early, fork_fails_late, exit, Next
<1>6. ASSUME NEW inc \in Increments, sbrk(inc) PROVE UNCHANGED vars
  BY <1>6 DEF sbrk
<1>7. CASE UNCHANGED sysVars
  BY <1>7 DEF sysVars
<1> QED  BY <1>1, <1>2, <1>3, <1>4, <1>5, <1>6, <1>7 DEF SysNext

-----------------------------------------------------------------------------
(* What the scheduler and Memory must agree on, and what the processor has  *)
(* loaded.                                                                  *)
BridgeInv ==
  /\ M!Lost = lost
  /\ keypage \in [Task -> M!BufferPages]
  /\ tlb \subseteq M!Page \X M!Frame
  /\ TranslationsCurrent

SysInv == PlaceInv /\ P!MemInv /\ P!CodeOK /\ BridgeInv

(* The parts of it the proofs use, in the terms of System.                  *)
Tables ==
  /\ P!TypeOK /\ P!TasksOK /\ P!CountsOK /\ P!TablesOK /\ P!FramesOK /\ P!CodeOK

(* What SysInv says, part by part.                                          *)
LEMMA SysParts ==
  ASSUME SysInv
  PROVE  Tables /\ IInv /\ CPUOK /\ DataOK /\ kernel_lr[idle_task] = "user"
BY MemoryAssumed, P!MemInvParts, IInvParts DEF SysInv, PlaceInv, Tables

(* The sets and lookups M and P name.                                       *)
LEMMA SameNames ==
  /\ M!Task = Task /\ P!Task = Task /\ M!idle_task = idle_task /\ P!idle_task = idle_task
  /\ M!Dir = P!Dir /\ M!Page = P!Page /\ M!CodePages = P!CodePages /\ M!DataPages = P!DataPages
  /\ M!HeapPages = P!HeapPages /\ M!Frame = P!Frame /\ M!set_user_pages = P!set_user_pages
  /\ M!Live = P!Live /\ M!Free = P!Free /\ M!Lost = P!Lost
  /\ M!UserFrame = P!UserFrame /\ M!CLEAR_PAGE = P!CLEAR_PAGE /\ M!new_dir = P!new_dir
  /\ \A d, p : M!used_page(d, p) <=> P!used_page(d, p)
BY DEF M!Task, P!Task, Task, M!idle_task, P!idle_task, idle_task, M!Dir, P!Dir, M!Page, P!Page,
       M!CodePages, P!CodePages, M!DataPages, P!DataPages, M!Live, P!Live, M!Free, P!Free,
       M!Lost, P!Lost, M!UserFrame, P!UserFrame, M!Frame, P!Frame, M!CLEAR_PAGE, P!CLEAR_PAGE,
       M!new_dir, P!new_dir, M!FirstFree, P!FirstFree, M!used_page, P!used_page,
       M!USR_P_HEAPSTART, P!USR_P_HEAPSTART, M!HeapPages, P!HeapPages,
       M!set_user_pages, P!set_user_pages

(* Memory counts the running task among those that exist.                   *)
LEMMA CurrentIsLive ==
  ASSUME SysInv, current # idle_task
  PROVE  current \in M!Live
<1>1. current \in Task \ lost /\ current \notin ToSet(queue[freequeue])
  BY SysParts DEF CPUOK, WellLinked, Queue
<1>2. M!Free = ToSet(queue[freequeue]) /\ M!Lost = lost
  BY DEF M!Free, ToSet, SysInv, BridgeInv
<1> QED  BY <1>1, <1>2, SameNames DEF M!Live

(* Leaving the CPU for another list than freequeue leaves freequeue alone.  *)
LEMMA YieldKeepsFree ==
  ASSUME IInv, NEW ls \in Queue, ls # freequeue, NEW kb, NEW buf, NEW rem,
         Yield(ls, kb, buf, rem)
  PROVE  queue'[freequeue] = queue[freequeue]
<1> DEFINE qs   == Enqueue(queue, ls, current, kb)
           from == PickQueue(qs, buf)
<1>1. queue \in [Queue -> Seq(Task)]
  BY IInvParts DEF CPUOK, WellLinked
<1>3. DOMAIN qs = Queue /\ qs[freequeue] = queue[freequeue]
  BY <1>1, Names DEF Enqueue
<1>4. from \in {readyqueue, keyboardqueue} /\ queue' = Dequeue(qs, from)
  BY DEF PickQueue, Yield
<1> HIDE DEF qs, from
<1>5. Dequeue(qs, from)[freequeue] = qs[freequeue]
  BY <1>3, <1>4, Names DEF Dequeue
<1> QED  BY <1>3, <1>4, <1>5

(* Neither the scheduler, nor semaphores, nor readers touch freequeue.      *)
LEMMA FreeStays ==
  ASSUME SysInv,
         \/ other_calls
         \/ \E size \in ReadSizes, p \in M!BufferPages : read(size, p)
         \/ read_goes_on
  PROVE  queue'[freequeue] = queue[freequeue]
<1>0. IInv /\ queue \in [Queue -> Seq(Task)]
  BY SysParts DEF CPUOK, WellLinked
<1>1. CASE Timer \/ sys_DEBUG_tswitch
  <2>1. \/ \E rem : Yield(readyqueue, kbinfo, uart_read_buffer, rem)
        \/ queue' = queue
    BY <1>1 DEF Timer, sys_DEBUG_tswitch
  <2> QED  BY <1>0, <2>1, YieldKeepsFree, Names
<1>2. CASE SemNext
  <2> PICK s \in Sem :
        \/ \E value \in 0 .. MaxSemValue : sys_sem_init(s, value)
        \/ sys_sem_wait(s)
        \/ sem_wait_return(s)
        \/ sys_sem_signal(s)
        \/ sys_sem_destroy(s)
    BY <1>2 DEF SemNext
  <2>1. s \in Queue /\ s # freequeue
    BY Names
  <2>2. CASE \E value \in 0 .. MaxSemValue : sys_sem_init(s, value)
    BY <1>0, <2>1, <2>2, Names DEF sys_sem_init
  <2>3. CASE sys_sem_wait(s)
    <3>1. \/ Yield(s, kbinfo, uart_read_buffer, remaining_quantum)
          \/ queue' = queue
      BY <2>3 DEF sys_sem_wait, switchVars
    <3> QED  BY <1>0, <2>1, <3>1, YieldKeepsFree
  <2>4. CASE sem_wait_return(s)
    BY <2>4 DEF sem_wait_return, switchVars
  <2>5. CASE sys_sem_signal(s) \/ sys_sem_destroy(s)
    <3>1. queue' = queue \/ \E woken, rest : WakeUp(s, woken, rest)
      BY <2>5 DEF sys_sem_signal, sys_sem_destroy, switchVars
    <3> QED  BY <1>0, <2>1, <3>1, Names DEF WakeUp
  <2> QED  BY <2>2, <2>3, <2>4, <2>5
<1>3. CASE interrupt_uart_routine
  BY <1>3 DEF interrupt_uart_routine, switchVars
<1>4. CASE \/ \E size \in ReadSizes, p \in M!BufferPages : read(size, p)
           \/ read_goes_on
  <2>1. (\E size : sys_read(size)) \/ read_continue
    BY <1>4 DEF read, read_goes_on
  <2>2. \/ \E kb, buf : Yield(keyboardqueue, kb, buf, remaining_quantum)
        \/ queue' = queue
    BY <2>1 DEF sys_read, read_continue, ReadPass, switchVars
  <2> QED  BY <1>0, <2>2, YieldKeepsFree, Names
<1> QED  BY <1>1, <1>2, <1>3, <1>4 DEF other_calls

-----------------------------------------------------------------------------
(* The ranges of pages, and the empty page.                                 *)
LEMMA SysPages ==
  /\ M!BufferPages \subseteq M!Page /\ NUM_PAG_CODE \in M!BufferPages
  /\ M!DataPages \subseteq M!Page /\ M!CodePages \subseteq M!Page
  /\ M!HeapPages \cap (M!CodePages \cup M!DataPages) = {}
  /\ M!Page \ (M!CodePages \cup M!DataPages) = M!HeapPages
  /\ M!CLEAR_PAGE \notin M!UserFrame
BY SystemAssumption DEF M!BufferPages, M!Page, M!CodePages, M!DataPages, M!HeapPages,
     M!USR_P_HEAPSTART, M!CLEAR_PAGE, M!UserFrame

(* A store of the running task reaches the frame in its own page table, or  *)
(* the empty page.                                                          *)
LEMMA StoreReaches ==
  ASSUME SysInv, NEW p \in M!Page, NEW b, Store(p, b)
  PROVE  \/ /\ M!used_page(dir_pages_baseAddr[current], p)
            /\ contents' = [contents EXCEPT ![pt[dir_pages_baseAddr[current]][p]] = b]
         \/ contents' = contents
<1> PICK f \in Reaches(p) :
      contents' = IF f \in M!UserFrame THEN [contents EXCEPT ![f] = b] ELSE contents
  BY DEF Store
<1>1. f \in {pt[dir_pages_baseAddr[current]][p], M!CLEAR_PAGE}
  BY DEF SysInv, BridgeInv, TranslationsCurrent, Reaches
<1> QED  BY <1>1, SysPages DEF M!used_page

(* Such a store is one of Memory.                                           *)
LEMMA StoreStep ==
  ASSUME SysInv, NEW p \in M!Page, NEW b, Store(p, b), UNCHANGED tableVars,
         queue'[freequeue] = queue[freequeue]
  PROVE  M!store(current, p, b) \/ UNCHANGED M!vars
<1>1. CASE contents' = contents
  BY <1>1 DEF M!vars, tableVars
<1>2. CASE /\ M!used_page(dir_pages_baseAddr[current], p)
           /\ contents' = [contents EXCEPT ![pt[dir_pages_baseAddr[current]][p]] = b]
  BY <1>2 DEF M!store, M!tableVars, tableVars
<1> QED  BY <1>1, <1>2, StoreReaches

(* What a pass of the loop stores is a byte that arrived.                   *)
LEMMA PassDelivers ==
  ASSUME SysInv, [Next]_vars, NEW want \in Nat, NEW had, NEW old, old \in Seq(Byte),
         ReadPass(want, had, old), uart_read_buffer' # uart_read_buffer
  PROVE  keybuffer'[current][Len(keybuffer'[current])] \in UserByte
<1> DEFINE n == Taken(want)
           got == old \o SubSeq(uart_read_buffer, 1, n)
<1>1. uart_read_buffer \in Seq(Byte) /\ keybuffer \in [Task -> Seq(Byte)] /\ current \in Task
  BY SysParts DEF DataOK, KeyboardTypeOK, CPUOK
<1>2. n \in 0 .. Len(uart_read_buffer)
  BY <1>1 DEF Taken
<1>3. n # 0
  BY <1>1 DEF ReadPass
<1>4. keybuffer'[current] = got
  BY <1>1 DEF ReadPass
<1> HIDE DEF n
<1>5. got \in Seq(Byte) /\ Len(got) \in 1 .. Len(got)
  BY <1>1, <1>2, <1>3
<1>6. got[Len(got)] \in Byte
  BY <1>5
<1>7. Byte \subseteq UserByte
  BY KeyboardAssumption DEF Byte, UserByte
<1> HIDE DEF got
<1> QED  BY <1>4, <1>6, <1>7

(* The bytes one step of a read puts in the buffer of the program.          *)
LEMMA DeliverStep ==
  ASSUME SysInv, [SysNext]_sysVars,
         \/ \E size \in ReadSizes, p \in M!BufferPages : read(size, p)
         \/ read_goes_on
  PROVE  /\ current # idle_task
         /\ \/ contents' = contents
            \/ /\ uart_read_buffer' # uart_read_buffer
               /\ \E b \in UserByte :
                    \/ \E size \in ReadSizes, p \in M!BufferPages : read(size, p) /\ Store(p, b)
                    \/ read_goes_on /\ Store(keypage[current], b)
<1>0. [Next]_vars /\ current \in Task /\ DataOK /\ kernel_lr[idle_task] = "user"
  BY KernelStep, SysParts DEF CPUOK
<1>2. CASE \E size \in ReadSizes, p \in M!BufferPages : read(size, p)
  <2> PICK size \in ReadSizes, p \in M!BufferPages : read(size, p)
    BY <1>2
  <2>1. current # idle_task /\ sys_read(size)
    BY DEF read, sys_read, InUser
  <2>3. CASE uart_read_buffer' = uart_read_buffer
    BY <2>1, <2>3 DEF read, Deliver
  <2>4. CASE uart_read_buffer' # uart_read_buffer
    <3>1. ReadPass(size, 0, <<>>)
      BY <2>1, <2>4 DEF sys_read
    <3>2. size \in Nat /\ <<>> \in Seq(Byte)
      BY KeyboardAssumption
    <3>3. keybuffer'[current][Len(keybuffer'[current])] \in UserByte
      BY <1>0, <2>4, <3>1, <3>2, PassDelivers
    <3>4. Store(p, keybuffer'[current][Len(keybuffer'[current])])
      BY <2>4 DEF read, Deliver
    <3> QED  BY <2>1, <2>4, <3>3, <3>4
  <2> QED  BY <2>3, <2>4
<1>3. CASE read_goes_on
  <2>1. /\ kernel_lr[current] = "read" /\ current # idle_task
        /\ ReadPass(kbinfo[current].keystoread, kbinfo[current].keysread, keybuffer[current])
    BY <1>0, <1>3 DEF read_goes_on, read_continue
  <2>3. CASE uart_read_buffer' = uart_read_buffer
    BY <1>3, <2>1, <2>3 DEF read_goes_on, Deliver
  <2>4. CASE uart_read_buffer' # uart_read_buffer
    <3>1. kbinfo[current].keystoread \in Nat /\ keybuffer[current] \in Seq(Byte)
      BY <1>0 DEF DataOK, KeyboardTypeOK
    <3>2. keybuffer'[current][Len(keybuffer'[current])] \in UserByte
      BY <1>0, <2>1, <2>4, <3>1, PassDelivers
    <3>3. Store(keypage[current], keybuffer'[current][Len(keybuffer'[current])])
      BY <1>3, <2>4 DEF read_goes_on, Deliver
    <3> QED  BY <1>3, <2>1, <2>4, <3>2, <3>3
  <2> QED  BY <2>3, <2>4
<1> QED  BY <1>2, <1>3

-----------------------------------------------------------------------------
(* What a fork that reaches its copies has found.                           *)
CopiesStart ==
  /\ queue[freequeue] # <<>> /\ current # idle_task
  /\ M!EnoughFrames(NUM_PAG_DATA) /\ M!FreePages(current) # {}

(* The TLB may hold the empty page for the page p is copied through.        *)
CopyAtRisk(p) ==
  p \in M!FirstRound(current) /\ <<M!temp_page(current, p), M!CLEAR_PAGE>> \in tlb

(* The operators of sys_fork M and P name.                                  *)
LEMMA SameFork ==
  /\ M!EnoughFrames(NUM_PAG_DATA) <=> P!EnoughFrames(NUM_PAG_DATA)
  /\ M!FreeFrames = P!FreeFrames
  /\ \A t : M!ChildTable(t) = P!ChildTable(t) /\ M!FreePages(t) = P!FreePages(t)
  /\ \A t, p : M!temp_page(t, p) = P!temp_page(t, p)
<1>1. M!FreeFrames = P!FreeFrames
  BY SameNames DEF M!FreeFrames, P!FreeFrames
<1>2. /\ \A n : M!alloc_frame(n) = P!alloc_frame(n)
      /\ M!EnoughFrames(NUM_PAG_DATA) <=> P!EnoughFrames(NUM_PAG_DATA)
  BY <1>1 DEF M!alloc_frame, P!alloc_frame, M!EnoughFrames, P!EnoughFrames,
              M!Cardinality, P!Cardinality
<1>3. \A t : M!ChildTable(t) = P!ChildTable(t)
  BY <1>2, SameNames DEF M!ChildTable, P!ChildTable
<1>4. \A t : M!FreePages(t) = P!FreePages(t)
  BY SameNames DEF M!FreePages, P!FreePages
<1>5. \A t, p : M!temp_page(t, p) = P!temp_page(t, p)
  BY <1>4 DEF M!temp_page, P!temp_page, M!Rank, P!Rank, M!Cardinality, P!Cardinality
<1> QED  BY <1>1, <1>2, <1>3, <1>4, <1>5

(* What the copy of a page is read from, and the frames it may reach.       *)
LEMMA CopyFrames ==
  ASSUME SysInv, CopiesStart, NEW p \in M!DataPages
  PROVE  /\ Reaches(p) = {pt[dir_pages_baseAddr[current]][p]}
         /\ CopyReaches(p) \subseteq {M!ChildTable(current)[p], M!CLEAR_PAGE}
         /\ ~ CopyAtRisk(p) => CopyReaches(p) = {M!ChildTable(current)[p]}
<1>1. /\ tlb \subseteq M!Page \X M!Frame /\ ttb = dir_pages_baseAddr[current]
      /\ \A m \in tlb : \/ m[2] = pt[ttb][m[1]]
                        \/ m[1] \in M!HeapPages /\ m[2] = M!CLEAR_PAGE
  BY DEF SysInv, BridgeInv, TranslationsCurrent
<1>2. Reaches(p) = {pt[dir_pages_baseAddr[current]][p]}
  BY <1>1, SysPages DEF Reaches
<1>3. M!temp_page(current, p) \in M!FreePages(current)
  BY MemoryAssumed, SameNames, SameFork, P!TempPages DEF CopiesStart
<1>4. \A m \in tlb : m[1] = M!temp_page(current, p) => m[2] = M!CLEAR_PAGE
  BY <1>1, <1>3 DEF M!FreePages, M!used_page
<1>5. \A m \in tlb : m = <<m[1], m[2]>>
  BY <1>1
<1> QED  BY <1>2, <1>4, <1>5 DEF CopyReaches, CopyAtRisk

(* The frames of the child were free, and each page has its own.            *)
LEMMA ChildFrames ==
  ASSUME SysInv, CopiesStart
  PROVE  /\ \A p \in M!DataPages : /\ M!ChildTable(current)[p] \in M!UserFrame
                                   /\ M!ChildTable(current)[p] \notin phys_mem
         /\ \A p, q \in M!DataPages :
              M!ChildTable(current)[p] = M!ChildTable(current)[q] => p = q
<1>1. current \in P!Live /\ P!EnoughFrames(NUM_PAG_DATA) /\ Tables /\ queue[freequeue] # <<>>
  BY CurrentIsLive, SameNames, SameFork, SysParts DEF CopiesStart
<1>2. P!new_dir \in P!Dir
  BY <1>1, MemoryAssumed, P!EntriesFound DEF Tables
<1>3. /\ \A p \in P!DataPages : P!ChildTable(current)[p] \in P!FreeFrames
      /\ \A p, q \in P!DataPages : P!ChildTable(current)[p] = P!ChildTable(current)[q] => p = q
  BY <1>1, <1>2, MemoryAssumed, P!ChildData DEF Tables
<1> QED  BY <1>3, SameNames, SameFork DEF M!FreeFrames

(* The copies reach the frames of the child, but for some of those at risk. *)
LEMMA CopyArrives ==
  ASSUME SysInv, CopiesStart, copy_user_data
  PROVE  \E arrived \in SUBSET M!DataPages :
           /\ \A p \in M!DataPages : ~ CopyAtRisk(p) => p \in arrived
           /\ contents' = [f \in M!UserFrame |->
                IF \E p \in arrived : f = M!ChildTable(current)[p]
                THEN contents[pt[dir_pages_baseAddr[current]]
                                [CHOOSE p \in arrived : f = M!ChildTable(current)[p]]]
                ELSE contents[f]]
<1> DEFINE D == M!DataPages
           C == M!ChildTable(current)
           T == pt[dir_pages_baseAddr[current]]
<1> PICK from \in [D -> UNION {Reaches(p) : p \in D}],
         to \in [D -> UNION {CopyReaches(p) : p \in D}] :
      /\ \A p \in D : from[p] \in Reaches(p) /\ to[p] \in CopyReaches(p)
      /\ contents' = [f \in M!UserFrame |->
           IF \E p \in D : to[p] = f THEN contents[from[CHOOSE p \in D : to[p] = f]]
           ELSE contents[f]]
  BY DEF copy_user_data
<1> DEFINE arrived == {p \in D : to[p] = C[p]}
<1>1. \A p \in D : from[p] = T[p] /\ (to[p] = C[p] \/ to[p] = M!CLEAR_PAGE)
  BY CopyFrames
<1>2. \A p \in D : ~ CopyAtRisk(p) => p \in arrived
  BY CopyFrames
<1>3. \A p, q \in D : C[p] = C[q] => p = q
  BY ChildFrames
<1> HIDE DEF C, T, D
<1>4. ASSUME NEW f \in M!UserFrame
      PROVE  (IF \E p \in D : to[p] = f THEN contents[from[CHOOSE p \in D : to[p] = f]]
              ELSE contents[f])
               = IF \E p \in arrived : f = C[p] THEN contents[T[CHOOSE p \in arrived : f = C[p]]]
                 ELSE contents[f]
  <2>1. \A p : p \in D /\ to[p] = f <=> p \in arrived /\ f = C[p]
    BY <1>1, <1>4, SysPages
  <2>2. CASE \E p \in D : to[p] = f
    <3> PICK q \in D : to[q] = f
      BY <2>2
    <3>1. q \in arrived /\ f = C[q]
      BY <2>1
    <3>2. (CHOOSE p \in D : to[p] = f) = q
      BY <1>3, <2>1, <3>1
    <3>3. (CHOOSE p \in arrived : f = C[p]) = q
      BY <1>3, <3>1
    <3> QED  BY <1>1, <2>2, <3>1, <3>2, <3>3
  <2>3. CASE ~ \E p \in D : to[p] = f
    BY <2>1, <2>3
  <2> QED  BY <2>2, <2>3
<1>5. contents' = [f \in M!UserFrame |->
        IF \E p \in arrived : f = C[p] THEN contents[T[CHOOSE p \in arrived : f = C[p]]]
        ELSE contents[f]]
  BY <1>4
<1> QED  BY <1>2, <1>5 DEF C, T, D

(* So they are the copies of Memory.                                        *)
LEMMA CopyStep ==
  ASSUME SysInv, CopiesStart, copy_user_data
  PROVE  M!copy_user_data(current)
BY CopyArrives DEF M!copy_user_data, CopyAtRisk

(* The directory a fork takes is one that no process uses.                  *)
LEMMA NewDirUnused ==
  ASSUME SysInv, queue[freequeue] # <<>>, NEW t \in M!Live
  PROVE  /\ dir_pages_baseAddr[t] # M!new_dir /\ M!new_dir \in M!Dir
         /\ M!new_pcb = new_pcb /\ new_pcb \in Task /\ new_pcb # current
<1>1. Tables
  BY SysParts
<1>2. P!new_dir \in P!Dir /\ \A u \in P!Live : dir_pages_baseAddr[u] # P!new_dir
  BY <1>1, MemoryAssumed, P!EntriesFound DEF Tables
<1>3. new_pcb \in Task /\ new_pcb # current
  BY SysParts, NewPcb
<1> QED  BY <1>2, <1>3, SameNames DEF M!new_pcb, new_pcb
-----------------------------------------------------------------------------
(* The steps of the system that are calls of Memory.                        *)
MemoryCall ==
  \/ M!sys_clone(current)
  \/ M!sys_fork(current)
  \/ M!sys_exit(current)
  \/ \E inc \in Increments : M!sbrk_grow(current, inc) \/ M!sbrk_shrink(current, inc)

(* Every step of the system is one of Memory, or leaves Memory alone.       *)
LEMMA MemoryStep ==
  ASSUME SysInv, [SysNext]_sysVars
  PROVE  [M!Next]_(M!vars)
<1>1. ASSUME NEW p \in M!Page, NEW b \in UserByte, user_write(p, b) PROVE [M!Next]_(M!vars)
  <2>1. /\ current # idle_task /\ p \notin M!CodePages /\ Store(p, b)
        /\ UNCHANGED tableVars /\ queue' = queue
    BY <1>1 DEF user_write, InUser, vars, switchVars
  <2>2. M!store(current, p, b) \/ UNCHANGED M!vars
    BY <2>1, StoreStep
  <2> QED  BY <2>1, <2>2, CurrentIsLive DEF M!Next, M!write
<1>2. CASE other_calls
  <2>1. queue'[freequeue] = queue[freequeue]
    BY <1>2, FreeStays
  <2> QED  BY <1>2, <2>1 DEF other_calls, M!vars, tableVars
<1>3. CASE \/ \E size \in ReadSizes, p \in M!BufferPages : read(size, p)
           \/ read_goes_on
  <2>1. queue'[freequeue] = queue[freequeue]
    BY <1>3, FreeStays
  <2>2. UNCHANGED tableVars
    BY <1>3 DEF read, read_goes_on
  <2>3. CASE contents' = contents
    BY <2>1, <2>2, <2>3 DEF M!vars, tableVars
  <2>4. CASE contents' # contents
    <3>1. current # idle_task /\ \E p \in M!BufferPages, b \in UserByte : Store(p, b)
      BY <1>3, <2>4, DeliverStep, SysParts DEF SysInv, BridgeInv, CPUOK
    <3> PICK p \in M!BufferPages, b \in UserByte : Store(p, b)
      BY <3>1
    <3>2. M!store(current, p, b) \/ UNCHANGED M!vars
      BY <2>1, <2>2, StoreStep, SysPages
    <3>3. M!store(current, p, b) => M!copy_to_user(current, p, b)
      BY DEF M!copy_to_user
    <3> QED  BY <3>1, <3>2, <3>3, SysPages, CurrentIsLive DEF M!Next
  <2> QED  BY <2>3, <2>4
<1>4. ASSUME current # idle_task, MemoryCall PROVE M!Next
  BY <1>4, CurrentIsLive DEF M!Next, MemoryCall
<1>5. CASE clone \/ fork \/ fork_fails_early \/ fork_fails_late \/ exit
  <2>1. current # idle_task
    BY <1>5 DEF clone, fork, fork_fails_early, fork_fails_late, exit, sys_clone, sys_fork,
                fork_fails, sys_exit, InUser
  <2>2. CASE clone \/ fork_fails_early \/ exit
    BY <1>4, <2>1, <2>2 DEF clone, fork_fails_early, exit, MemoryCall, M!sys_fork
  <2>3. CASE fork \/ fork_fails_late
    <3>1. M!fork_maps_heap(current) \/ M!fork_lacks_heap(current)
      BY <2>3 DEF fork, fork_fails_late
    <3>2. CopiesStart /\ copy_user_data
      BY <2>1, <2>3, <3>1 DEF fork, fork_fails_late, CopiesStart, M!fork_maps_heap,
                              M!fork_lacks_heap, M!ForkReachesHeap
    <3>3. M!sys_fork(current)
      BY <3>1, <3>2, CopyStep DEF M!sys_fork, M!fork_succeeds, M!fork_without_heap
    <3> QED  BY <1>4, <2>1, <3>3 DEF MemoryCall
  <2> QED  BY <1>5, <2>2, <2>3
<1>6. ASSUME NEW inc \in Increments, sbrk(inc) PROVE M!Next
  BY <1>4, <1>6 DEF sbrk, InUser, MemoryCall
<1>7. CASE UNCHANGED sysVars
  BY <1>7 DEF sysVars, vars, switchVars, tableVars, M!vars
<1> QED  BY <1>1, <1>2, <1>3, <1>5, <1>6, <1>7 DEF SysNext

-----------------------------------------------------------------------------
(* The actions and the initial states that M and P name are the same.       *)
LEMMA SameNext ==
  /\ M!Init <=> P!Init
  /\ [M!Next]_(M!vars) <=> [P!Next]_(P!vars)
BY DEF M!Init, P!Init, M!InitFrames, P!InitFrames, M!InitTables, P!InitTables,
       M!InitBreaks, P!InitBreaks, M!set_user_pages, P!set_user_pages,
       M!task1, P!task1, M!idle_task, P!idle_task, M!Task, P!Task, M!Dir, P!Dir,
       M!Frame, P!Frame, M!Page, P!Page, M!USR_P_HEAPSTART, P!USR_P_HEAPSTART,
       M!CodePages, P!CodePages, M!DataPages, P!DataPages, M!HeapPages, P!HeapPages,
       M!CLEAR_PAGE, P!CLEAR_PAGE, M!HeapStart, P!HeapStart, M!UserFrame, P!UserFrame,
       M!Next, P!Next, M!vars, P!vars, M!tableVars, P!tableVars,
       M!Free, P!Free, M!Lost, P!Lost, M!Live, P!Live, M!PAGE, P!PAGE, M!OFFSET, P!OFFSET,
       M!used_page, P!used_page, M!FreeFrames, P!FreeFrames, M!Cardinality, P!Cardinality,
       M!alloc_frame, P!alloc_frame, M!free_frames, P!free_frames,
       M!FirstFree, P!FirstFree, M!Rank, P!Rank, M!EnoughFrames, P!EnoughFrames,
       M!store, P!store, M!write, P!write, M!copy_to_user, P!copy_to_user,
       M!BufferPages, P!BufferPages, M!sys_clone, P!sys_clone, M!new_pcb, P!new_pcb,
       M!new_dir, P!new_dir, M!new_pb, P!new_pb, M!FreePages, P!FreePages,
       M!BrokenPages, P!BrokenPages, M!FreePagesAbove, P!FreePagesAbove,
       M!parent_break, P!parent_break, M!ChildTable, P!ChildTable,
       M!HeapFrame, P!HeapFrame, M!DataFrames, P!DataFrames,
       M!TakeDirectory, P!TakeDirectory, M!TakeBreak, P!TakeBreak,
       M!fork_without_data, P!fork_without_data, M!fork_without_page, P!fork_without_page,
       M!temp_page, P!temp_page, M!FirstRound, P!FirstRound,
       M!copy_user_data, P!copy_user_data, M!fork_lacks_heap, P!fork_lacks_heap,
       M!fork_maps_heap, P!fork_maps_heap,
       M!ForkReachesHeap, P!ForkReachesHeap, M!fork_without_heap, P!fork_without_heap,
       M!fork_succeeds, P!fork_succeeds, M!sys_fork, P!sys_fork, M!sys_exit, P!sys_exit,
       M!EndPage, P!EndPage, M!sbrk_grow, P!sbrk_grow, M!sbrk_shrink, P!sbrk_shrink

(* So the invariants of Memory are invariants of the system.                *)
LEMMA MemoryKept ==
  ASSUME SysInv, [SysNext]_sysVars
  PROVE  P!MemInv' /\ P!CodeOK' /\ PlaceInv'
<1>1. P!MemInv'
  BY MemoryStep, SameNext, MemoryAssumed, P!MemStep DEF SysInv
<1>2. P!CodeOK'
  BY MemoryStep, SameNext, MemoryAssumed, P!CodeStep DEF SysInv
<1>3. PlaceInv'
  BY KernelStep, NextPlaceInv DEF SysInv
<1> QED  BY <1>1, <1>2, <1>3

(* Both count the same task_structs as lost.                                *)
LEMMA LostKept ==
  ASSUME SysInv, [SysNext]_sysVars
  PROVE  (M!Lost = lost)'
<1>0. M!Lost = lost /\ M!Task = Task /\ abandoned \in [Task -> {"no", "bare", "directory", "break"}]
  BY SysParts, SameNames DEF SysInv, BridgeInv, Tables, P!TypeOK
<1>1. CASE UNCHANGED <<abandoned, lost>>
  BY <1>0, <1>1 DEF M!Lost
<1>2. CASE fork_fails_early \/ fork_fails_late
  <2>1. lost' = lost \cup {new_pcb} /\ new_pcb \in Task
    BY <1>2, SysParts, NewPcb DEF fork_fails_early, fork_fails_late, fork_fails
  <2>2. \E how \in {"bare", "directory", "break"} : abandoned' = [abandoned EXCEPT ![new_pcb] = how]
    BY <1>2 DEF fork_fails_early, fork_fails_late, M!fork_without_data, M!fork_without_page,
                M!fork_lacks_heap, M!new_pcb, new_pcb
  <2> QED  BY <1>0, <2>1, <2>2 DEF M!Lost
<1>3. ASSUME NEW inc, sbrk(inc) PROVE UNCHANGED <<abandoned, lost>>
  BY <1>3 DEF sbrk, vars, M!sbrk_grow, M!sbrk_shrink
<1>4. ASSUME other_calls \/ read_goes_on PROVE UNCHANGED <<abandoned, lost>>
  BY <1>4 DEF other_calls, read_goes_on, tableVars
<1>5. ASSUME NEW size, NEW p, read(size, p) \/ user_write(p, size)
      PROVE  UNCHANGED <<abandoned, lost>>
  BY <1>5 DEF read, user_write, vars, tableVars
<1>6. ASSUME clone \/ fork \/ exit PROVE UNCHANGED <<abandoned, lost>>
  BY <1>6 DEF clone, fork, exit, sys_clone, sys_fork, sys_exit, new_task,
              M!sys_clone, M!fork_maps_heap, M!sys_exit
<1>7. ASSUME UNCHANGED sysVars PROVE UNCHANGED <<abandoned, lost>>
  BY <1>7 DEF sysVars, vars, tableVars
<1> QED  BY <1>1, <1>2, <1>3, <1>4, <1>5, <1>6, <1>7 DEF SysNext

-----------------------------------------------------------------------------
(* A flush leaves nothing.                                                  *)
LEMMA FlushKeeps ==
  ASSUME mmu_change_dir(dir_pages_baseAddr'[current'])
  PROVE  TranslationsCurrent' /\ tlb' \subseteq M!Page \X M!Frame
BY DEF mmu_change_dir, TranslationsCurrent

(* What was loaded before is still in the tables, if the running process    *)
(* stays and only empty entries of the heap have changed in its table.      *)
LEMMA NoFlushKeeps ==
  ASSUME SysInv, ttb' = ttb, dir_pages_baseAddr'[current'] = dir_pages_baseAddr[current],
         \A m \in tlb' : m \in tlb \/ \E p \in M!Page : m = <<p, pt[ttb][p]>>,
         \A p \in M!Page : \/ pt'[ttb][p] = pt[ttb][p]
                           \/ p \in M!HeapPages /\ pt[ttb][p] = M!CLEAR_PAGE
  PROVE  TranslationsCurrent' /\ tlb' \subseteq M!Page \X M!Frame
<1>1. /\ ttb = dir_pages_baseAddr[current] /\ tlb \subseteq M!Page \X M!Frame
      /\ \A m \in tlb : \/ m[2] = pt[ttb][m[1]]
                        \/ m[1] \in M!HeapPages /\ m[2] = M!CLEAR_PAGE
  BY DEF SysInv, BridgeInv, TranslationsCurrent
<1>2. \A p \in M!Page : pt[ttb][p] \in M!Frame
  BY <1>1, SysParts, SameNames DEF Tables, P!TypeOK, CPUOK
<1>3. ASSUME NEW m \in tlb'
      PROVE  /\ m \in M!Page \X M!Frame
             /\ \/ m[2] = pt'[ttb][m[1]]
                \/ m[1] \in M!HeapPages /\ m[2] = M!CLEAR_PAGE
  <2>1. CASE m \in tlb
    <3>1. m \in M!Page \X M!Frame /\ m[1] \in M!Page
      BY <1>1, <2>1
    <3> QED  BY <1>1, <2>1, <3>1
  <2>2. ASSUME NEW p \in M!Page, m = <<p, pt[ttb][p]>>
        PROVE  /\ m \in M!Page \X M!Frame
               /\ \/ m[2] = pt'[ttb][m[1]]
                  \/ m[1] \in M!HeapPages /\ m[2] = M!CLEAR_PAGE
    BY <1>2, <2>2
  <2> QED  BY <2>1, <2>2
<1> QED  BY <1>1, <1>3 DEF TranslationsCurrent, M!HeapPages, M!CLEAR_PAGE, M!USR_P_HEAPSTART

(* A task switch flushes where the directory changes.                       *)
LEMMA SwitchKeeps ==
  ASSUME SysInv, NEW loaded, SwitchDir(loaded), UNCHANGED <<dir_pages_baseAddr, pt>>,
         \A m \in loaded : m \in tlb \/ \E p \in M!Page : m = <<p, pt[ttb][p]>>
  PROVE  TranslationsCurrent' /\ tlb' \subseteq M!Page \X M!Frame
<1>1. CASE dir_pages_baseAddr'[current'] # dir_pages_baseAddr'[current]
  BY <1>1, FlushKeeps DEF SwitchDir
<1>2. CASE dir_pages_baseAddr'[current'] = dir_pages_baseAddr'[current]
  BY <1>2, NoFlushKeeps DEF SwitchDir
<1> QED  BY <1>1, <1>2

(* A read may load the translation of its buffer, and switch.               *)
LEMMA DeliverKeeps ==
  ASSUME SysInv, NEW p \in M!Page, Deliver(p), UNCHANGED <<dir_pages_baseAddr, pt>>
  PROVE  TranslationsCurrent' /\ tlb' \subseteq M!Page \X M!Frame
BY SwitchKeeps DEF Deliver, Load

(* The translations stay what they should be.                               *)
LEMMA TranslationsKept ==
  ASSUME SysInv, [SysNext]_sysVars
  PROVE  TranslationsCurrent' /\ tlb' \subseteq M!Page \X M!Frame
<1>1. /\ ttb = dir_pages_baseAddr[current]
      /\ dir_pages_baseAddr \in [Task -> M!Dir]
      /\ pt \in [M!Dir -> [M!Page -> M!Frame]]
      /\ current \in Task /\ keypage[current] \in M!Page
  BY SysParts, SysPages, SameNames
     DEF SysInv, BridgeInv, TranslationsCurrent, Tables, P!TypeOK, CPUOK
<1>2. ASSUME NEW p \in M!Page, NEW b, user_write(p, b)
      PROVE  TranslationsCurrent' /\ tlb' \subseteq M!Page \X M!Frame
  <2>1. UNCHANGED <<current, dir_pages_baseAddr, pt, ttb>> /\ tlb' = Load(p)
    BY <1>2 DEF user_write, vars, switchVars, tableVars
  <2> QED  BY <2>1, NoFlushKeeps DEF Load
<1>3. CASE UNCHANGED sysVars
  <2>1. UNCHANGED <<current, dir_pages_baseAddr, pt, ttb, tlb>>
    BY <1>3 DEF sysVars, vars, switchVars, tableVars
  <2> QED  BY <2>1, NoFlushKeeps
<1>4. CASE other_calls \/ exit
  <2>1. SwitchDir(tlb) /\ UNCHANGED <<dir_pages_baseAddr, pt>>
    BY <1>4 DEF other_calls, exit, tableVars, M!sys_exit
  <2> QED  BY <2>1, SwitchKeeps
<1>5. ASSUME NEW p \in M!Page, \/ \E size \in ReadSizes : read(size, p)
                               \/ read_goes_on /\ p = keypage[current]
      PROVE  TranslationsCurrent' /\ tlb' \subseteq M!Page \X M!Frame
  <2>1. Deliver(p) /\ UNCHANGED <<dir_pages_baseAddr, pt>>
    BY <1>5 DEF read, read_goes_on, tableVars
  <2> QED  BY <2>1, DeliverKeeps
<1>6. ASSUME clone \/ fork \/ fork_fails_early \/ fork_fails_late
      PROVE  /\ queue[freequeue] # <<>> /\ current' = current /\ current \in M!Live
             /\ M!new_pcb = new_pcb /\ new_pcb # current
             /\ M!new_dir # dir_pages_baseAddr[current]
  <2>1. queue[freequeue] # <<>> /\ current' = current /\ current # idle_task
    BY <1>6 DEF clone, fork, fork_fails_early, fork_fails_late, sys_clone, sys_fork,
                fork_fails, new_task, InUser
  <2> QED  BY <2>1, CurrentIsLive, NewDirUnused
<1>7. CASE clone
  <2>1. /\ UNCHANGED <<ttb, tlb>>
        /\ pt' = pt /\ dir_pages_baseAddr'[current] = dir_pages_baseAddr[current]
    BY <1>1, <1>6, <1>7 DEF clone, M!sys_clone, M!new_pcb
  <2> QED  BY <1>6, <1>7, <2>1, NoFlushKeeps
<1>8. CASE fork \/ fork_fails_late
  <2>1. M!TakeDirectory(current) /\ mmu_change_dir(dir_pages_baseAddr[current])
    BY <1>8 DEF fork, fork_fails_late, M!fork_maps_heap, M!fork_lacks_heap, M!ForkReachesHeap
  <2>2. dir_pages_baseAddr'[current] = dir_pages_baseAddr[current]
    BY <1>1, <1>6, <1>8, <2>1 DEF M!TakeDirectory
  <2> QED  BY <1>6, <1>8, <2>1, <2>2, FlushKeeps
<1>9. CASE fork_fails_early
  <2>1. UNCHANGED <<ttb, tlb>>
    BY <1>9 DEF fork_fails_early
  <2>2. CASE M!fork_without_data(current)
    <3>1. pt' = pt /\ dir_pages_baseAddr' = dir_pages_baseAddr
      BY <2>2 DEF M!fork_without_data, M!tableVars
    <3> QED  BY <1>6, <1>9, <2>1, <3>1, NoFlushKeeps
  <2>3. CASE M!fork_without_page(current)
    <3>1. dir_pages_baseAddr'[current] = dir_pages_baseAddr[current]
      BY <1>1, <1>6, <1>9, <2>3 DEF M!fork_without_page, M!TakeDirectory
    <3>2. pt' = [pt EXCEPT ![M!new_dir] = M!ChildTable(current)]
      BY <2>3 DEF M!fork_without_page
    <3>3. pt'[ttb] = pt[ttb]
      BY <1>1, <1>6, <1>9, <3>2
    <3> QED  BY <1>6, <1>9, <2>1, <3>1, <3>3, NoFlushKeeps
  <2> QED  BY <1>9, <2>2, <2>3 DEF fork_fails_early
<1>10. ASSUME NEW inc \in Increments, sbrk(inc)
       PROVE  TranslationsCurrent' /\ tlb' \subseteq M!Page \X M!Frame
  <2>1. current' = current /\ dir_pages_baseAddr' = dir_pages_baseAddr /\ current # idle_task
    BY <1>10 DEF sbrk, InUser, vars, switchVars, M!sbrk_grow, M!sbrk_shrink, M!tableVars
  <2>2. CASE M!sbrk_grow(current, inc) /\ UNCHANGED <<ttb, tlb>>
    <3> DEFINE new_break == (M!parent_break(current) + inc) % AddressSpace
               end       == M!EndPage(new_break)
               wanted == {p \in M!Page :
                            /\ p >= M!PAGE(M!parent_break(current))
                            /\ p < end \/ (p = end /\ M!OFFSET(new_break) # 0)
                            /\ ~ M!used_page(dir_pages_baseAddr[current], p)}
               got == {p \in wanted : M!EnoughFrames(M!Rank(p, wanted))}
    <3>1. pt' = [pt EXCEPT ![dir_pages_baseAddr[current]] = [p \in M!Page |->
                   IF p \in got THEN M!alloc_frame(M!Rank(p, wanted))
                   ELSE pt[dir_pages_baseAddr[current]][p]]]
      BY <2>2 DEF M!sbrk_grow
    <3>2. \A p \in got : p \in M!Page /\ ~ M!used_page(ttb, p)
      BY <1>1
    <3> HIDE DEF got, wanted
    <3>3. \A p \in M!Page : p \notin got => pt'[ttb][p] = pt[ttb][p]
      BY <1>1, <3>1
    <3>4. \A p \in M!CodePages \cup M!DataPages : M!used_page(ttb, p)
      BY <1>1, <2>1, CurrentIsLive, SysParts, SameNames DEF Tables, P!TablesOK
    <3>5. \A p \in got : p \in M!HeapPages /\ pt[ttb][p] = M!CLEAR_PAGE
      BY <3>2, <3>4, SysPages DEF M!used_page
    <3> QED  BY <2>1, <2>2, <3>3, <3>5, NoFlushKeeps
  <2>3. CASE M!sbrk_shrink(current, inc) /\ mmu_change_dir(dir_pages_baseAddr[current])
    BY <2>1, <2>3, FlushKeeps
  <2> QED  BY <1>10, <2>2, <2>3 DEF sbrk
<1>11. M!BufferPages \subseteq M!Page
  BY SysPages
<1> QED
  BY <1>1, <1>2, <1>3, <1>4, <1>5, <1>7, <1>8, <1>9, <1>10, <1>11 DEF SysNext

(* The buffers of the reads that wait are in pages that access_ok accepts.  *)
LEMMA KeypageKept ==
  ASSUME SysInv, [SysNext]_sysVars
  PROVE  keypage' \in [Task -> M!BufferPages]
<1>1. keypage \in [Task -> M!BufferPages] /\ current \in Task
  BY SysParts DEF SysInv, BridgeInv, CPUOK
<1>2. ASSUME NEW p \in M!BufferPages, KeepPage(p)
      PROVE  keypage' \in [Task -> M!BufferPages]
  BY <1>1, <1>2, SysPages DEF KeepPage
<1>3. CASE \/ \E size \in ReadSizes, p \in M!BufferPages : read(size, p)
           \/ read_goes_on
  BY <1>1, <1>2, <1>3 DEF read, read_goes_on
<1>4. ASSUME \/ other_calls \/ clone \/ fork \/ fork_fails_early \/ fork_fails_late \/ exit
             \/ UNCHANGED sysVars
      PROVE  keypage' = keypage
  BY <1>4 DEF other_calls, clone, fork, fork_fails_early, fork_fails_late, exit, sysVars
<1>5. ASSUME NEW p, NEW b, user_write(p, b) \/ sbrk(p) PROVE keypage' = keypage
  BY <1>5 DEF user_write, sbrk
<1> QED  BY <1>1, <1>3, <1>4, <1>5 DEF SysNext

(* SysInv is an invariant of the system.                                    *)
LEMMA SysInvAlways == SysSpec => []SysInv
<1>1. SysInit => SysInv
  <2> SUFFICES ASSUME SysInit PROVE SysInv
    OBVIOUS
  <2>1. PlaceInv /\ P!MemInv /\ P!CodeOK
    BY InitPlaceInv, SameNext, MemoryAssumed, P!MemInit, P!CodeInit DEF SysInit
  <2>2. M!Lost = lost
    BY DEF SysInit, Init, M!Init, M!Lost, M!Task
  <2>3. keypage \in [Task -> M!BufferPages]
    BY SysPages DEF SysInit
  <2>4. TranslationsCurrent /\ tlb \subseteq M!Page \X M!Frame
    BY DEF SysInit, Init, SchedInit, TranslationsCurrent
  <2> QED  BY <2>1, <2>2, <2>3, <2>4 DEF SysInv, BridgeInv
<1>2. SysInv /\ [SysNext]_sysVars => SysInv'
  BY MemoryKept, LostKept, TranslationsKept, KeypageKept DEF SysInv, BridgeInv
<1> QED  BY <1>1, <1>2, PTL DEF SysSpec
-----------------------------------------------------------------------------
(* Whatever the scheduler does, and whatever the TLB still holds, the       *)
(* processor works in the tables of the running process: the translation    *)
(* base is its directory, and no stale translation leads elsewhere          *)
(* (task_switch, mmu_change_dir, sys_fork, sys_sbrk).                       *)
THEOREM RunningProcessIsMapped == SysSpec => []TranslationsCurrent
<1>1. SysInv => TranslationsCurrent
  BY DEF SysInv, BridgeInv
<1> QED  BY <1>1, SysInvAlways, PTL

(* The system implements Memory.  Whatever the TLB still holds, a store, a  *)
(* byte of a read, into code too, and a copy of a fork end in the frame the *)
(* page table names for them or are lost in the empty page, so that all     *)
(* that holds of Memory holds of the system.                                *)
THEOREM SystemIsMemory == SysSpec => ImplementsMemory
<1>1. SysInit => M!Init
  BY DEF SysInit
<1>2. SysInv /\ [SysNext]_sysVars => [M!Next]_(M!vars)
  BY MemoryStep
<1> QED  BY <1>1, <1>2, SysInvAlways, PTL DEF SysSpec, ImplementsMemory, M!Spec

-----------------------------------------------------------------------------
(* The page p of the task t is left alone.                                  *)
PageKept(t, p) ==
  LET d == dir_pages_baseAddr[t]
  IN pt'[d][p] = pt[d][p] /\ contents'[pt[d][p]] = contents[pt[d][p]]

(* A page of another process, as the proofs below have it.                  *)
Foreign(t, p) ==
  /\ t \in M!Live /\ p \in M!Page \ M!CodePages
  /\ dir_pages_baseAddr[t] # dir_pages_baseAddr[current]
  /\ M!used_page(dir_pages_baseAddr[t], p)

(* Until a directory is reused, the frame of such a page is marked used, is *)
(* not one of the code, and no other process has it.                        *)
LEMMA ForeignFrame ==
  ASSUME SysInv, ~ reused, NEW t, NEW p, Foreign(t, p)
  PROVE  LET f == pt[dir_pages_baseAddr[t]][p]
         IN /\ f \in M!UserFrame /\ f \in phys_mem
            /\ current # idle_task => \A q \in M!Page :
                 M!used_page(dir_pages_baseAddr[current], q)
                   => pt[dir_pages_baseAddr[current]][q] # f
<1> DEFINE f == pt[dir_pages_baseAddr[t]][p]
           c == dir_pages_baseAddr[current]
<1>1. Tables /\ t \in P!Live /\ P!Own(t, p) /\ p \in P!Page
  BY SameNames, SysParts DEF Foreign, P!Own
<1>2. dir_pages_baseAddr[t] \in P!Dir /\ P!used_page(dir_pages_baseAddr[t], p)
  BY <1>1, SameNames DEF Tables, P!TypeOK, P!Live, P!Own
<1>3. f \in phys_mem /\ f \in P!UserFrame /\ f \notin P!CodeFrames
  BY <1>1, <1>2 DEF Tables, P!FramesOK, P!TablesOK, P!CodeOK, P!Own
<1>4. ASSUME current # idle_task, NEW q \in M!Page, M!used_page(c, q)
      PROVE  pt[c][q] # f
  <2>1. current \in P!Live /\ c \in P!Dir /\ q \in P!Page /\ P!used_page(c, q)
    BY <1>1, <1>4, CurrentIsLive, SameNames, SysParts DEF Tables, P!TypeOK, CPUOK
  <2>2. CASE q \in P!CodePages
    <3>1. pt[c][q] = P!set_user_pages[q]
      BY <1>1, <2>1, <2>2 DEF Tables, P!CodeOK
    <3>2. pt[c][q] \in P!CodeFrames
      BY <2>2, <3>1, MemoryAssumed, P!CodeFramesDiffer
    <3> QED  BY <1>3, <3>2
  <2>3. CASE q \notin P!CodePages
    <3>1. P!Own(current, q)
      BY <2>1, <2>3 DEF P!Own
    <3> QED  BY <1>1, <2>1, <3>1 DEF Tables, P!FramesOK, Foreign
  <2> QED  BY <2>2, <2>3
<1> QED  BY <1>3, <1>4, SameNames

(* A store of the running task does not reach it.                           *)
LEMMA StoreIsLocal ==
  ASSUME SysInv, ~ reused, current # idle_task, NEW t, NEW p, Foreign(t, p), pt' = pt,
         NEW q \in M!Page, NEW b, Store(q, b)
  PROVE  PageKept(t, p)
<1>1. CASE contents' = contents
  BY <1>1 DEF PageKept
<1>2. CASE /\ M!used_page(dir_pages_baseAddr[current], q)
           /\ contents' = [contents EXCEPT ![pt[dir_pages_baseAddr[current]][q]] = b]
  <2>1. pt[dir_pages_baseAddr[t]][p] # pt[dir_pages_baseAddr[current]][q]
    BY <1>2, ForeignFrame
  <2> QED  BY <1>2, <2>1 DEF PageKept
<1> QED  BY <1>1, <1>2, StoreReaches

(* The copies of a fork reach only frames that were free.                   *)
LEMMA CopiesKeep ==
  ASSUME SysInv, CopiesStart, copy_user_data, NEW f \in M!UserFrame, f \in phys_mem
  PROVE  contents'[f] = contents[f]
<1> PICK arrived \in SUBSET M!DataPages :
      contents' = [g \in M!UserFrame |->
        IF \E p \in arrived : g = M!ChildTable(current)[p]
        THEN contents[pt[dir_pages_baseAddr[current]]
                        [CHOOSE p \in arrived : g = M!ChildTable(current)[p]]]
        ELSE contents[g]]
  BY CopyArrives
<1>1. \A p \in arrived : M!ChildTable(current)[p] # f
  BY ChildFrames
<1> QED  BY <1>1

(* What a fork does to memory: it sets at most the table of a new directory,*)
(* and copies, if at all, once it has the frames and the free pages.        *)
LEMMA ForkSteps ==
  ASSUME SysInv, fork \/ fork_fails_early \/ fork_fails_late
  PROVE  /\ queue[freequeue] # <<>>
         /\ pt' = pt \/ \E table : pt' = [pt EXCEPT ![M!new_dir] = table]
         /\ contents' = contents \/ (CopiesStart /\ copy_user_data)
<1>1. queue[freequeue] # <<>> /\ current # idle_task
  BY DEF fork, fork_fails_early, fork_fails_late, sys_fork, fork_fails, InUser
<1>2. CASE fork_fails_early
  BY <1>1, <1>2 DEF fork_fails_early, M!fork_without_data, M!fork_without_page
<1>3. CASE fork \/ fork_fails_late
  <2>1. M!ForkReachesHeap(current) /\ copy_user_data
    BY <1>3 DEF fork, fork_fails_late, M!fork_maps_heap, M!fork_lacks_heap
  <2>2. \E table : pt' = [pt EXCEPT ![M!new_dir] = table]
    BY <1>3 DEF fork, fork_fails_late, M!fork_maps_heap, M!fork_lacks_heap
  <2> QED  BY <1>1, <2>1, <2>2 DEF CopiesStart, M!ForkReachesHeap
<1> QED  BY <1>2, <1>3

(* A fork takes a directory and frames that the page has nothing to do with.*)
LEMMA ForkIsLocal ==
  ASSUME SysInv, ~ reused, NEW t, NEW p, Foreign(t, p),
         fork \/ fork_fails_early \/ fork_fails_late
  PROVE  PageKept(t, p)
<1> DEFINE d == dir_pages_baseAddr[t]
<1>1. d # M!new_dir
  BY NewDirUnused, ForkSteps DEF Foreign
<1>2. pt'[d] = pt[d]
  <2>1. DOMAIN pt = M!Dir /\ d \in M!Dir
    BY SysParts, SameNames DEF Foreign, Tables, P!TypeOK, P!Live
  <2>2. pt' = pt \/ \E table : pt' = [pt EXCEPT ![M!new_dir] = table]
    BY ForkSteps
  <2> QED  BY <1>1, <2>1, <2>2
<1>3. contents'[pt[d][p]] = contents[pt[d][p]]
  BY ForeignFrame, ForkSteps, CopiesKeep
<1> QED  BY <1>2, <1>3 DEF PageKept

(* Nobody changes the data or the heap of another process, whatever is      *)
(* stored, read, forked, ended or mapped, and whatever the TLB still holds, *)
(* as long as no directory has been reused.                                 *)
THEOREM ProcessesAreIsolated == SysSpec => ProcessesIsolated
<1>1. ASSUME SysInv, [SysNext]_sysVars, ~ reused', NEW t, NEW p, Foreign(t, p)
      PROVE  PageKept(t, p)
  <2>1. ~ reused
    <3>1. [M!Next]_(M!vars)
      BY <1>1, MemoryStep
    <3>2. CASE UNCHANGED M!vars
      BY <1>1, <3>2 DEF M!vars
    <3>3. CASE M!Next
      <4>1. PICK u \in M!Live :
              \/ \E q \in M!Page, b \in UserByte : M!write(u, q, b) \/ M!copy_to_user(u, q, b)
              \/ M!sys_clone(u)
              \/ M!sys_fork(u)
              \/ M!sys_exit(u)
              \/ \E inc \in Increments : M!sbrk_grow(u, inc) \/ M!sbrk_shrink(u, inc)
        BY <3>3 DEF M!Next
      <4>2. M!TakeDirectory(u) \/ reused' = reused
        BY <4>1 DEF M!write, M!copy_to_user, M!store, M!sys_clone, M!sys_fork,
                    M!fork_without_data, M!fork_without_page, M!fork_without_heap,
                    M!fork_succeeds, M!fork_lacks_heap, M!fork_maps_heap,
                    M!ForkReachesHeap, M!sys_exit, M!sbrk_grow, M!sbrk_shrink
      <4>3. CASE M!TakeDirectory(u)
        BY <1>1, <4>3 DEF M!TakeDirectory
      <4> QED  BY <1>1, <4>2, <4>3
    <3> QED  BY <3>1, <3>2, <3>3
  <2>2. CASE UNCHANGED <<pt, contents>>
    BY <2>2 DEF PageKept
  <2>3. ASSUME NEW q \in M!Page, NEW b \in UserByte, user_write(q, b) PROVE PageKept(t, p)
    BY <1>1, <2>1, <2>3, StoreIsLocal DEF user_write, InUser, tableVars
  <2>4. ASSUME \/ \E size \in ReadSizes, q \in M!BufferPages : read(size, q)
               \/ read_goes_on
        PROVE  PageKept(t, p)
    <3>1. pt' = pt
      BY <2>4 DEF read, read_goes_on, tableVars
    <3>2. keypage[current] \in M!Page
      BY <1>1, SysPages, SysParts DEF SysInv, BridgeInv, CPUOK
    <3>3. \/ contents' = contents
          \/ current # idle_task /\ \E q \in M!Page, b \in UserByte : Store(q, b)
      BY <1>1, <2>4, <3>2, DeliverStep, SysPages
    <3> QED  BY <1>1, <2>1, <2>2, <3>1, <3>3, StoreIsLocal
  <2>5. ASSUME other_calls \/ clone \/ exit \/ UNCHANGED sysVars
        PROVE  UNCHANGED <<pt, contents>>
    BY <2>5 DEF other_calls, clone, exit, sysVars, tableVars, M!sys_clone, M!sys_exit
  <2>6. ASSUME fork \/ fork_fails_early \/ fork_fails_late PROVE PageKept(t, p)
    BY <1>1, <2>1, <2>6, ForkIsLocal
  <2>7. ASSUME NEW inc \in Increments, sbrk(inc) PROVE PageKept(t, p)
    <3>1. /\ contents' = contents
          /\ \E table : pt' = [pt EXCEPT ![dir_pages_baseAddr[current]] = table]
      BY <2>7 DEF sbrk, M!sbrk_grow, M!sbrk_shrink
    <3>2. pt'[dir_pages_baseAddr[t]] = pt[dir_pages_baseAddr[t]]
      BY <1>1, <3>1 DEF Foreign
    <3> QED  BY <3>1, <3>2 DEF PageKept
  <2> QED  BY <1>1, <2>2, <2>3, <2>4, <2>5, <2>6, <2>7 DEF SysNext
<1>2. SysInv /\ [SysNext]_sysVars =>
        [~ reused' =>
           \A t \in M!Live, p \in M!Page \ M!CodePages :
             LET d == dir_pages_baseAddr[t]
             IN d # dir_pages_baseAddr[current] /\ M!used_page(d, p) =>
                  pt'[d][p] = pt[d][p] /\ contents'[pt[d][p]] = contents[pt[d][p]]]_sysVars
  BY <1>1 DEF Foreign, PageKept
<1> QED  BY <1>2, SysInvAlways, PTL DEF SysSpec, ProcessesIsolated
-----------------------------------------------------------------------------
(* Every process maps a page of the code to its own frame.                  *)
LEMMA CodeFrame ==
  ASSUME SysInv, NEW t \in M!Live, NEW p \in M!CodePages
  PROVE  LET f == pt[dir_pages_baseAddr[t]][p]
         IN f = P!set_user_pages[p] /\ f \in P!CodeFrames /\ f \in M!UserFrame /\ f \in phys_mem
<1>1. Tables /\ t \in P!Live /\ p \in P!CodePages /\ p \in P!Page
  BY SysParts, SameNames, SysPages
<1>2. dir_pages_baseAddr[t] \in P!Dir /\ P!used_page(dir_pages_baseAddr[t], p)
  BY <1>1 DEF Tables, P!TypeOK, P!TablesOK, P!Live
<1>3. pt[dir_pages_baseAddr[t]][p] = P!set_user_pages[p]
  BY <1>1, <1>2 DEF Tables, P!CodeOK
<1>4. P!set_user_pages[p] \in P!CodeFrames
  BY <1>1, MemoryAssumed, P!CodeFramesDiffer
<1>5. pt[dir_pages_baseAddr[t]][p] \in P!UserFrame
  BY <1>1, <1>2 DEF Tables, P!TablesOK
<1> QED  BY <1>1, <1>3, <1>4, <1>5, SameNames DEF Tables, P!CodeOK

(* A store that changes a page of the code went to that page.               *)
LEMMA StoreHits ==
  ASSUME SysInv, current # idle_task, NEW q \in M!Page, NEW b, Store(q, b),
         NEW t \in M!Live, NEW p \in M!CodePages,
         contents'[pt[dir_pages_baseAddr[t]][p]] # contents[pt[dir_pages_baseAddr[t]][p]]
  PROVE  q = p
<1> DEFINE f == pt[dir_pages_baseAddr[t]][p]
           c == dir_pages_baseAddr[current]
<1>1. M!used_page(c, q) /\ contents' = [contents EXCEPT ![pt[c][q]] = b]
  BY StoreReaches
<1>2. pt[c][q] = f
  BY <1>1
<1>3. f = P!set_user_pages[p] /\ f \in P!CodeFrames
  BY CodeFrame
<1>4. /\ c \in P!Dir /\ q \in P!Page /\ P!used_page(c, q) /\ Tables
      /\ current \in M!Live /\ p \in P!CodePages
  BY <1>1, CurrentIsLive, SameNames, SysParts DEF Tables, P!TypeOK, CPUOK
<1>5. q \in P!CodePages
  BY <1>2, <1>3, <1>4 DEF Tables, P!CodeOK
<1>6. pt[c][q] = P!set_user_pages[q]
  BY <1>4, <1>5 DEF Tables, P!CodeOK
<1> QED  BY <1>2, <1>3, <1>4, <1>5, <1>6, MemoryAssumed, P!CodeFramesDiffer

(* Only a read into the page changes the code: no store of a program, no    *)
(* copy of a fork and no frame of a heap reaches the frames of the code,    *)
(* through the TLB neither (set_user_pages, copy_to_user).                  *)
THEOREM OnlyReadsChangeCode == SysSpec => CodeChangedByReads
<1>1. ASSUME SysInv, [SysNext]_sysVars, NEW t \in M!Live, NEW p \in M!CodePages,
             contents'[pt[dir_pages_baseAddr[t]][p]] # contents[pt[dir_pages_baseAddr[t]][p]]
      PROVE  /\ uart_read_buffer' # uart_read_buffer
             /\ \/ \E size \in ReadSizes : read(size, p)
                \/ read_goes_on /\ keypage[current] = p
  <2>1. ASSUME NEW q \in M!Page, NEW b \in UserByte, user_write(q, b) PROVE FALSE
    <3>1. current # idle_task /\ Store(q, b) /\ q \notin M!CodePages
      BY <2>1 DEF user_write, InUser
    <3> QED  BY <1>1, <3>1, StoreHits
  <2>2. ASSUME \/ other_calls \/ clone \/ exit \/ UNCHANGED sysVars
               \/ \E inc \in Increments : sbrk(inc)
        PROVE  FALSE
    BY <1>1, <2>2 DEF other_calls, clone, exit, sysVars, sbrk, M!sys_clone, M!sys_exit,
                      M!sbrk_grow, M!sbrk_shrink
  <2>3. ASSUME fork \/ fork_fails_early \/ fork_fails_late PROVE FALSE
    BY <1>1, <2>3, ForkSteps, CodeFrame, CopiesKeep
  <2>4. CASE \/ \E size \in ReadSizes, q \in M!BufferPages : read(size, q)
             \/ read_goes_on
    <3>1. /\ current # idle_task /\ uart_read_buffer' # uart_read_buffer
          /\ \E b \in UserByte :
               \/ \E size \in ReadSizes, q \in M!BufferPages : read(size, q) /\ Store(q, b)
               \/ read_goes_on /\ Store(keypage[current], b)
      BY <1>1, <2>4, DeliverStep
    <3>2. keypage[current] \in M!Page
      BY <1>1, SysPages, SysParts DEF SysInv, BridgeInv, CPUOK
    <3> QED  BY <1>1, <3>1, <3>2, SysPages, StoreHits
  <2> QED  BY <1>1, <2>1, <2>2, <2>3, <2>4 DEF SysNext
<1>2. SysInv /\ [SysNext]_sysVars =>
        [\A t \in M!Live, p \in M!CodePages :
           LET f == pt[dir_pages_baseAddr[t]][p]
           IN contents'[f] # contents[f] =>
                /\ uart_read_buffer' # uart_read_buffer
                /\ \/ \E size \in ReadSizes : read(size, p)
                   \/ read_goes_on /\ keypage[current] = p]_sysVars
  BY <1>1
<1> QED  BY <1>2, SysInvAlways, PTL DEF SysSpec, CodeChangedByReads
-----------------------------------------------------------------------------
(* The child of a fork has the data of its parent, but for the copies that  *)
(* are the first to go through a free page the program has touched: all     *)
(* others are read from and stored in the right frames, through whatever    *)
(* the TLB holds (sys_fork, "Copy user data").                              *)
THEOREM ForksCopyData == SysSpec => DataIsCopied
<1>1. ASSUME SysInv, NEW p \in M!DataPages, fork, ~ CopyAtRisk(p)
      PROVE  M!Copies(current, {p})
  <2> DEFINE C == M!ChildTable(current)
             T == pt[dir_pages_baseAddr[current]]
  <2>1. CopiesStart /\ copy_user_data /\ queue[freequeue] # <<>>
    BY <1>1 DEF fork, sys_fork, InUser, CopiesStart, M!fork_maps_heap, M!ForkReachesHeap
  <2>2. PICK arrived \in SUBSET M!DataPages :
          /\ p \in arrived
          /\ contents' = [f \in M!UserFrame |->
               IF \E q \in arrived : f = C[q]
               THEN contents[T[CHOOSE q \in arrived : f = C[q]]]
               ELSE contents[f]]
    BY <1>1, <2>1, CopyArrives
  <2>3. C[p] \in M!UserFrame /\ \A q \in arrived : C[q] = C[p] => q = p
    BY <1>1, <2>1, ChildFrames
  <2>4. (CHOOSE q \in arrived : C[p] = C[q]) = p
    BY <2>2, <2>3
  <2>5. contents'[C[p]] = contents[T[p]]
    BY <2>2, <2>3, <2>4
  <2>6. pt \in [M!Dir -> [M!Page -> M!Frame]] /\ M!new_dir \in M!Dir
    BY <1>1, <2>1, NewDirUnused, CurrentIsLive, SysParts, SameNames
       DEF CopiesStart, Tables, P!TypeOK
  <2>7. pt'[M!new_dir][p] = C[p]
    <3> DEFINE heap == M!BrokenPages(M!parent_break(current))
    <3>1. pt' = [pt EXCEPT ![M!new_dir] = [q \in M!Page |->
                   IF q \in heap THEN M!HeapFrame(q, heap) ELSE C[q]]]
      BY <1>1 DEF fork, M!fork_maps_heap
    <3>2. p \in M!Page /\ p \notin heap
      BY <1>1, SysPages DEF M!BrokenPages
    <3> QED  BY <2>6, <3>1, <3>2
  <2> QED  BY <2>5, <2>7 DEF M!Copies
<1>2. SysInv /\ [SysNext]_sysVars =>
        [\A p \in M!DataPages :
           fork /\ (p \in M!FirstRound(current)
                      => <<M!temp_page(current, p), M!CLEAR_PAGE>> \notin tlb)
             => M!Copies(current, {p})]_sysVars
  BY <1>1 DEF CopyAtRisk
<1> QED  BY <1>2, SysInvAlways, PTL DEF SysSpec, DataIsCopied
=============================================================================
