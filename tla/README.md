# A formal model of zeOSpi

zeOSpi is a small preemptive operating system for the Raspberry Pi: processes
and threads, a round robin scheduler, semaphores, blocking reads from the serial
line, paging and a heap per process.  This directory holds TLA+ specifications
translated from its C code, the configurations with which TLC checks them, and
proofs for the TLA+ proof system (TLAPS).

Paths are relative to `src/`; `sys.c:340` is line 340 of `src/sys.c`.

## 1. The system

### Components

| component | code | state | operations | makes it correct |
|---|---|---|---|---|
| Scheduler | `sched.c`, `interrupt.c`, `interrupt_asm.S` | `task[]`, `idle_task`, `freequeue`, `readyqueue`, `keyboardqueue`, `rr_quantum`, `lastPID`, and per task PID, state, statistics, saved stack and return address | timer tick, `sched_update_queues_state`, `sched_switch_process`, `sys_DEBUG_tswitch` | each task is in one place; the running task is in no list; order of lists is order of arrival; no ready task starves; no idling while a task is ready |
| Tasks | `sys.c` | the task structures | `sys_clone`, `sys_fork`, `sys_exit`, `sys_getpid` | PIDs tell tasks apart; what fails gives back what it took |
| Semaphores | `sys.c`, `sem.h` | `sem_array[]`: owner, value, list of waiters | `sys_sem_init`, `sys_sem_wait`, `sys_sem_signal`, `sys_sem_destroy` | no lost and no spurious wake-up; every waiter released by destroy, and told so |
| Keyboard input | `devices.c`, `sys.c` | `uart_read_buffer`, `keyboardqueue`, `kbinfo` per task | `interrupt_uart_routine`, `sys_read` | requests are served in order, bytes delivered once and in order |
| Circular buffer | `include/cbuffer.h` | array, two indices, a counter | `circularbWrite`, `circularbRead` and tests | a bounded queue |
| Lists | `include/list.h` | pointers `next`, `prev` | `list_add`, `list_add_tail`, `list_del`, `INIT_LIST_HEAD` | the pointers lead through exactly the members |
| Process statistics | `sched.c:34-66`, `sys.c:302-315` | — | `sys_get_stats` | finds the task asked for, leaves the lists alone, ends |
| Memory | `mm.c`, `include/mm_address.h`, `sys.c` | `phys_mem`, page tables, directories and program breaks with reference counters | `sys_fork`, `sys_clone`, `sys_exit`, `sys_sbrk` | processes share no frame; counters exact; heap below the break mapped; fork copies |
| User memory access | `utils.c` | none | `access_ok`, copies | the kernel touches only what belongs to the program |
| Boot | `system.c`, the `init_*` functions | — | `main` | the state the rest starts from |
| Exception entry | `interrupt_asm.S`, `sys_call_table.S` | saved registers | system call and interrupt entry | the task goes on where it was |
| Output | `sys.c:253`, `devices.c:60`, `io.c`, `uart.c` | none | `sys_write` | the bytes of the caller, once and in order |
| User library | `libc.c`, `errno.c`, `perror.c` | `errno`, shared by the threads of a process | stubs, `perror`, `itoa`, `strlen` | a failure is reported, as what it was; numbers can be read back |
| Devices | `gpio.c`, `timer.c`, `hardware.c` | device registers, a tick counter | — | — |
| User program, build tools | `user.c`, `build.c`, `load_kernel.pl` | — | — | — |

### How they interact

User code enters the kernel by a system call or by an interrupt, on the kernel
stack of the running task.  System calls call the scheduler directly:
`sched_update_queues_state(list, task)` links a task into a list and
`sched_switch_process()` takes the next one.  The UART interrupt only fills the
circular buffer; it is `sched_switch_process_RR` that looks at that buffer and
prefers a blocked reader to a ready task.  `sys_fork` and `sys_clone` take a task
structure from `freequeue` and `sys_exit` returns it; both share directories,
program breaks and frames with `mm.c` by reference counters.  A task switch changes the
translation base when the directories of the two tasks differ, and a reader that goes on
stores its bytes through the tables that are then in force.  All lists use the
same field `list` of the task structure.

### What is hard

There is one processor and the kernel is not interruptible: system calls and
interrupt handlers run with interrupts masked, and they are enabled only in user
mode and in the loop of the idle task (`cpu_idle`).  So kernel code between two
switches of the stack is atomic.  The concurrency is in what happens *between* the
calls `sched_switch_process()` makes and their return: a task that blocks in
`sys_sem_wait` or `sys_read_uart` goes on in the middle of its call, after any
number of other calls, ticks and bytes.  Nothing is persistent and there is no
message passing.  The other difficulty is partial failure: `sys_fork` takes six
resources one after the other.

`PROJECT.json` lists these hazards one by one, each with its line and with the
properties that watch it.

## 2. The modules

| module | models | kind |
|---|---|---|
| `Sched` | scheduler, timer interrupt; declares the state the others share | component |
| `Semaphores` | the `sys_sem_*` calls | component, extends `Sched` |
| `Keyboard` | UART interrupt, `sys_read` | component, extends `Sched` |
| `Kernel` | composes the three and adds creation and end of tasks; states the properties | composition |
| `LineDiscipline` | what blocking reads promise, without a scheduler | abstract specification, implemented by `Kernel` |
| `CircularBuffer` | `cbuffer.h` with its indices | component |
| `BoundedQueue` | what the buffer promises | abstract specification, implemented by `CircularBuffer` |
| `ListHead` | `list.h` with its pointers | component |
| `GetStats` | `sys_get_stats` and `getStructPID`, pointer by pointer | component, extends `ListHead` |
| `Memory` | frames, page tables, breaks; `fork`, `clone`, `exit`, `sbrk` | component |
| `System` | `Kernel` and `Memory` in one system call, the translation base and the TLB | composition, extends `Kernel`, implements `Memory` |
| `UserAccess` | `access_ok`, `copy_from_user`, `copy_to_user` | operators |
| `Terminal` | `sys_read` and `sys_write` of one thread, turn by turn of their loops | component, extends `CircularBuffer` and `UserAccess` |
| `UserLibrary` | the stubs, `errno`, `perror`, `itoa`, `strlen` | component, extends `Terminal` |
| `MCKernel`, `MCMemory`, `MCSystem`, `MCUserLibrary` | symmetry, and constants a configuration cannot write | for TLC |
| `ListLemmas` | lemmas about sequences as lists, finite sets of numbers, and induction | proofs |
| `KernelProofs` | theorems about `Kernel` for which a list is a set of tasks | proofs |
| `OrderProofs` | theorems about `Kernel` that need the order in the lists, extends `KernelProofs` | proofs |
| `CircularBufferProofs`, `TerminalProofs` | theorems about `CircularBuffer` and `UserLibrary` | proofs |
| `MemoryProofs` | theorems about `Memory` | proofs |
| `SystemProofs` | theorems about `System`, from those of `KernelProofs` and `MemoryProofs` | proofs |
| `ListProofs` | theorems about `ListHead` and `GetStats` | proofs |

### State and code

*Tasks* are the indices of `task[]`; 0 is the idle task and 1 the first process,
as `init_idle` and `init_task1` take them.  `current` is the task whose stack `sp`
points into, which is what `current()` computes.

*Lists.*  `queue[ls]` is the sequence of the tasks linked in the list with head
`ls`; the heads are `freequeue`, `readyqueue`, `keyboardqueue` and one per
semaphore, named by the semaphore.  `ListHead` states that the pointers of
`list.h` represent such sequences as long as nobody links a task twice, which is
`LinkedOnce` of `Kernel`; `GetStats` runs it, with the searches of `sys_get_stats` in between.

*Where a task goes on.*  `kernel_lr[t]` is `"user"`, `"read"` (in the loop of
`sys_read_uart`) or a semaphore (in `sys_sem_wait`, after the switch).  A task
with another value than `"user"` that has the processor is inside the kernel: the
only step then is `read_continue` or `sem_wait_return`, because interrupts are
masked (`Interruptible`).

*Actions* are one per system call or interrupt, and one for the rest of each call
that blocks.  `Yield` is the pair of calls `sched_update_queues_state(ls,
current()); sched_switch_process()` by which the running task leaves the
processor; it takes the values the caller has already computed.  Calls that only
return an error and change nothing are not actions.

*History variables* record what the code does not keep: `releasedBy` (which call
ended a wait), `received` (how many bytes arrived: the nth byte is the number n),
`lost` and `abandoned` (task structures a failing fork kept), `reused` (has a
directory been given out twice), `order` (which tasks belong in a list).  None
appears in a guard, except that `received` is bounded.

*Memory* is a module of its own.  In `Kernel` a fork may or may not find the
memory it needs (`sys_fork`, `fork_fails`), and in `Memory` any task that exists
may make the next call: each leaves open what the other decides, and `System` joins them.  Of a page table
only the second directory entry is modelled, the user pages; an entry is the
number of its frame.  A page is one byte of contents, enough to tell a copy from
something that is not.  What kernel pages and the empty page contain is left out: where the
code of `fork` copies the heap between kernel addresses, the frames of the child keep what
they contained, and that a kernel page is overwritten does not show.  `store` is a byte that reaches
a page; `write` is one of user code, which may not write to its code, and `copy_to_user` one the kernel
stores for a read, in any page `access_ok` accepts (`BufferPages`: code, data and the first page of
the heap).  `fork` copies the data through free pages of the heap of the parent (`temp_page`), and
`copy_user_data` leaves open which of the first copies through such a page get lost.

*System.*  One action of `System` is one action of `Kernel` and the one of `Memory` for the same
call by the running task: `fork` is `sys_fork` with the tables of `M!fork_maps_heap(current)`, and a fork
fails when `Memory` says at which point it does.  `ttb` is the directory in the translation base
registers.  An access to a page loads its entry into the TLB, which may drop it at any time; `tlb` is the
set of the translations it *may* hold: those of the pages accessed since the last flush.  An access goes
through any of them or through the table (`Reaches`).  Fetches of code are left out, because the entries of code pages
never change.  Flushes are where the code has `mmu_change_dir`: a switch between
directories (`sched.c:167`), the middle and the end of a fork, and the end of an
`sbrk` that shrinks the heap.  So the data of a fork is not copied as `Memory` says, but page by page
through the entries `sys.c:158` sets for a moment and whatever the TLB holds for those pages (`CopyReaches`); that
this is one of the outcomes `Memory` allows is part of the refinement.  `keypage` is the page of the buffer
of a read; a read that goes on after a wait stores into it.

*Terminal and UserLibrary* follow one thread.  `Keyboard` has many readers and takes a pass of
the loop of `sys_read_uart` as one step; `Terminal` has the turns of the loop, the indices of
`cbuffer.h`, the addresses and the bytes behind them, the early returns in their order
(`Refusal`), and leaves open which reader gets the processor.  `ptr`, `left` and `ret` are the local variables
of `sys_write`, and for a read the fields of `kbinfo`.  The kernel is not interrupted, so bytes
arrive and other readers take some (`uart_others`) only in user code and in the waits.  The loops take
what the addresses name, inside of the program or not; a call that comes to bytes outside
(`goes_astray`) is not followed any further, since what it does to the kernel is not in the state.  `UserLibrary` adds what happens
around the `svc` instruction.  Between it and the assignment to `errno` the thread can be preempted, and
`other_thread_fails` stands for the calls of the other threads of the process, and for `sbrk`, whose stub
takes an address of 2^31 or more for an error and leaves a number in `errno` that no table has.  A message of
`perror` is the number of the error it is about.  `perror` names an entry of the table before it tests
`errno`; with no such entry the build decides whether a word is loaded there, and the load may end in
`data_abort_routine`, which does not return (`halted`).  The strings `perror` has of its own are
never refused; the prefix it is given may be, and then the write of the prefix changes `errno`.

*Left out of the state*: the counters `tics` and `cs`, register contents, permission
bits and data caches.

Operators marked *seeded fault* are not part of the models: each is a plausible
mistake in the operator below it, with which the property named beside it in
`PROJECT.json` no longer holds.

## 3. What is checked

| run | configuration | shows | bounds |
|---|---|---|---|
| `semaphores` | `MCKernelSem` | `LinkedOnce`, `NoneDropped`, `WaitsWhereLinked`, `NoLostWakeup`, `NoSpuriousWakeup`, `QuantumAgrees`, `PIDsDiffer`, `FirstComeFirstServed`, `OrphansStay` | 4 tasks, 2 semaphores with values to 1, quantum 2, PIDs to 4 |
| `keyboard` | `MCKernelKeyboard` | `LinkedOnce`, `PartlyServedFirst`, `BytesInOrder`, `WorkConserving`, `ReadsAreServedInOrder` (refinement of `LineDiscipline`) | 4 tasks, buffer of 2 bytes, reads of 1 and 3 bytes, 4 bytes of input |
| `liveness` | `MCKernelLive` | `ReadyTasksRun`, `OldestReadServed`, `ReleasedReturn` | 4 tasks, 1 semaphore, buffer of 1 byte, reads of 2 |
| `terminal` | `MCUserLibrary` | `CounterAgrees`, `IsBoundedQueue` (refinement of `BoundedQueue`), `BlocksInside`, `WriteSendsBuffer`, `ReadFillsBuffer`, `FailureReported`, `PerrorTellsError`, `NumbersReadBack` | 3 slots, 2 values, pages of 8 bytes, up to 3 calls with arguments for every early return, for 1, 2 and 3 pieces, for blocks in the code and for blocks that wrap, `errno` up to 100000 |
| `get_stats` | `MCGetStats` | `AnswerIsRight`, `ListsIntact` | 3 lists, one of them of a semaphore, 4 tasks in any order |
| `memory` | `MCMemory` | `CountsExact`, `TablesSuffice`, `BreakPerProcess`, `FramesPrivate`, `HeapIsMapped` | 3 tasks, 5 user frames, 4 pages per table, sbrk by half pages and pages, 2 values |
| `system` | `MCSystem` | `TranslationsCurrent`, `ProcessesIsolated`, `CodeChangedByReads`, `DataIsCopied`, `ImplementsMemory` (refinement of `Memory`) | 3 tasks, 6 user frames, 2 pages of data, 2 of heap, quantum 1, sbrk by a page, 1 byte of input, PIDs to 2; at most 2 frames written and 3 translations in the TLB |

and the runs that show the code to do something else than it says, section 4.

The bounds are small and the cases they reach are the ones that matter: with four
tasks two can wait in a list while a third acts and the idle task is chosen when
none is left; a quantum of two separates the tick that switches from the one that
does not; a read of three bytes is longer than the buffer, so that it is
interrupted twice; with 5 user frames a fork fails at each of its points and a
second process grows into what is left; three tasks suffice for a fork, an exit
and a fork into the reused directory.  In `system` the second user task is a thread or another process,
two pages of data are copied through two free pages of the heap, or both through the one that
is left when the heap has grown, and one stale translation is enough to lose the first copy.
Its frames start out alike (`BlankSpec`), and two constraints, `MaxWritten` and `MaxTlb`,
end the exploration beyond a few stores and translations; the proofs have none of these bounds.  In `terminal` a read of three bytes is longer than what the buffer of three slots
holds, three calls make a failure, a success after it and the report of the failure, and the indices wrap.  Memory there ends at 24, a block of 8 bytes at 124 wraps to 4, and the number 100000 stands for all that are
in no table.  `MaxPID`, `MaxSemValue`, `MaxInput` and `MaxCalls` bound
counters that have no bound in the code; they are in guards and nothing else.
`AddressSpace` is the modulus of `unsigned int`, scaled like the rest.

The `Memory` configurations do not check for deadlock: when every task has ended
only the idle task is left, and nothing of `Memory` happens any more.  In `Kernel` and `System` the timer
ticks for ever, in `UserLibrary` bytes arrive and in `GetStats` some call is always possible.

### Fairness

`LiveSpec` of `Kernel` assumes:

* strong fairness of the timer interrupt.  The interrupt stays pending in the
  controller until `timer_clear_irq`, and the processor takes it as soon as
  interrupts are enabled, which they are each time user code runs;
* weak fairness of `read_continue` and `sem_wait_return`: kernel code that has the
  processor goes on.

Nothing is assumed of programs or of the keyboard.  `ReadyTasksRun` does depend on
the keyboard falling silent: readers with bytes to take go before ready tasks,
and a user typing for ever could keep them there.  The bound `MaxInput` is that
assumption.  `GetLiveSpec` of `GetStats` only assumes that kernel code goes on.

## 4. Where the code differs from what it says

Each of these is a run in which TLC finds the property violated.

| run | property | code |
|---|---|---|
| `destroy_reported` | "We tell the user if the sem was destroyed or not" | `sys.c:347` reads `pid_owner` after the switch; if the semaphore was destroyed and initialised again, the waiter is told 0 |
| `heap_copied` | "Copy Heap data" | `sys.c:198` leaves out the 0x100 pages of offset line 159 has, and copies between kernel pages |
| `exit_frees` | "Free DATA & HEAP region" | `sys.c:242` starts behind the data |
| `break_in_heap` | "Upper limit of the HEAP" | `sys.c:415` is computed unsigned, a large negative increment passes the test |
| `get_stats_ends` | "Get task_struct of the process from the queue with the especified PID" | `sched.c:60` deletes the head of the list instead of its first entry; the loop does not end |

More things the models show.  They have no run of their own: the code says nothing else in so many words, or
a property of section 3 states the exception together with what holds in all other cases.

* `sys.c:243` frees the frames of the heap and leaves the page table entries.  A later
  process gets the table as it is, `sys_sbrk` takes the stale entries for pages in use, and
  frames come to be shared.  `FramesPrivate` and the second half of `HeapIsMapped` are
  therefore stated up to the first reuse of a directory (`reused`).
* every error return of `sys_fork` after `sys.c:108` keeps the task structure, and the later ones the
  directory, the frames of the data and the break: `lost` in `Kernel`, `abandoned` in `Memory`.
  `NoneDropped` and `CountsExact` count them.
* `sched.c:261` overwrites `ST_BLOCKED` by `ST_READY`: a task that waits has the
  `process_state` of a ready one.  No code reads it.
* `utils.c:75` says "Should suppose no support for automodifyable code", but the case for writing falls
  through to the one for reading, so that `read` into the code of the program is accepted, and the
  code is shared by all processes: a read of one changes what the others execute, also when it goes on after
  a wait.  `System` has these reads; `ProcessesIsolated` is about data and heap, and `CodeChangedByReads` says that
  the code changes in no other way.  Of the heap only a block that ends in its first page is accepted.
* `utils.c:62` says that false is for blocks that are definitely invalid, and a block whose end wraps is not
  found to be one: `utils.c:70` computes the end modulo 2^32, so that 0x200 bytes at 0xFFFFFF00 are
  accepted.  `sys_write` then sends, and `sys_read` overwrites, what is at the end of the address space and in the first pages
  of the kernel.  `BlocksInside` says that no other block leaves the program.
* `sys.c:143`, "Copy user data", goes through an entry of the parent's table that is set at line 158 and used
  at line 159 without a flush.  If the program touched that page before (any page of its heap behind
  the break, which it may read and write as the empty page) and the TLB still has it, the copy of one page of data is lost in the empty page, and
  the child starts with what its frame contained.  `DataIsCopied` excepts this case, at most one page for
  each free page, and says that all the others arrive.
* `errno.h:14` calls `ENSPID` "There is no task with the specified pid".  `sys_get_stats` searches `readyqueue` and
  `keyboardqueue` only (`sys.c:309-310`), so that a task that waits at a semaphore exists and is not found.  `AnswerIsRight`
  says that no other task is missed.
* `perror.c:31` reads the table before `perror.c:32` tests `errno`.  The stub of `sbrk` (`libc.c:297`) takes a break above
  2^31, which `sys_sbrk` accepts when an increment has wrapped, for an error, and `errno` becomes a number far
  outside of the table.  `PerrorTellsError` says that a failed call never does this.
* `sys.c:405` maps pages without a flush.  If the program touched such a page before, the
  TLB may still name the empty page; `TranslationsCurrent` makes this one exception.
* `sys.c:198` not only leaves the heap of the child as it was (`heap_copied`): page `free_pag` of the kernel's own pages is
  overwritten by another one.  What is in kernel pages is not modelled.
* `libc.c:16`: `itoa` leaves the string empty for a negative number, and writing it fails
  with `ESIZEB`, which replaces what `errno` was.
* `errno` is shared by the threads of a process: `FailureReported` and `PerrorTellsError` are about what a thread finds
  as long as no other call has failed in between.

## 5. What is proved

All theorems hold for every value of the constants that satisfies the named
assumptions, which say no more than the code needs: at least two tasks, a positive
quantum, list heads that are distinct and not task structures, a buffer of at least one slot,
non-empty reads in `Kernel`, non-empty pages, code and data, an address space and a memory that
hold what the kernel puts there.  The arguments of reads and writes are any addresses and any sizes that are an `int`.
One theorem has a hypothesis of its own, `NoWrap`, explained below.

Every invariant the passing runs check is a theorem, and so are their action
properties and refinements.  Each invariant got a strengthening that is inductive; TLC checked
it before it was proved.

### Kernel: where the tasks are (`KernelProofs`)

| theorem | property | rests on |
|---|---|---|
| `TypeCorrect`, `ListsStayWellFormed`, `QuantaAgree` | `TypeOK`, `LinkedOnce`, `QuantumAgrees` | `IInv` (`Inductive`) |
| `NoWakeupIsLost`, `NeverIdlesInVain` | `NoLostWakeup`, `WorkConserving` | `WaitInv` |
| `NobodyIsDropped`, `TasksWaitWhereLinked`, `WakeupsAreCaused` | `NoneDropped`, `WaitsWhereLinked`, `NoSpuriousWakeup` | `PlaceInv` |
| `PIDsTellTasksApart` | `PIDsDiffer` | `PIDInv` |
| `OrphansAreNotInherited` | `OrphansStay` (action property) | `OwnerInv` |

*`IInv`.*  `LinkedOnce` alone is not inductive: that the running task may be
linked into a list relies on its being in none, and that the task taken from a
list may become the running one relies on its not being the idle task, nor one
a failed fork lost.  `IInv` joins the types, `LinkedOnce` in the form
`WellLinked(queue, out)` — lists without repetition, disjoint, and without the
tasks in `out` — and the agreement of the two quanta.  The proof is in layers:
`ListLemmas` says what appending, prepending, taking the first and concatenating do to a list
without repetitions; `EnqueueLemma`, `DequeueLemma` and `MoveLemma` lift that to the
family of all lists; `YieldLemma` combines them into one switch of the
processor, with `out` growing and shrinking by a task; then one lemma per action,
`InitIInv`, `NextIInv` and the temporal step.

*`WaitInv`* adds `NoLostWakeup`, which needs that a switch leaves the other lists alone
(`YieldQueues`), and `WorkConserving`, which needs that a signal is sent by a task that is not the
idle one.

*`PlaceInv`* adds the three properties about where a task is and what it waits for, which are
inductive only together: `sys_sem_init` empties a list without a look at it, which drops nobody
because the waiters of a semaphore that is not initialised are none (`WaitsWhereLinked`), which
holds because a task that is linked in a semaphore's list got there in `sys_sem_wait`, and the idle
task never does.  What a switch does to the members of all lists is `YieldMembers`.

*`PIDInv`* adds that `lastPID` is the largest PID in use: PIDs differ because they grow.
`PIDsGrow` says what a step does to them: a task that exists afterwards existed before with the same PID, or
is the one `task_struct` taken from `freequeue` and has a larger PID than anybody before.

*`OwnerInv`* adds that the PIDs in `sem_array` have been given out, so that no task to come will have
one of them.  `OwnersChange` lists the ways an owner changes: it is given to the running task when
there is none, or taken away by the owner, which exists then.  So a semaphore whose owner has
ended keeps it for ever, and nobody can destroy or initialise it again: its waiters depend on the signals of
the others.

### Kernel: who comes first (`OrderProofs`)

* `ListsAreFair` (`FirstComeFirstServed`, an action property).  `Ahead(q, t1, t2)` — the order in
  one list — is kept by appending, by taking the first and by prepending anybody but
  `t2`; the exception of the property is the one task that `list_add` puts in front.
* `BytesAreInOrder` (`BytesInOrder`) and `PartlyServedReadersAreFirst` (`PartlyServedFirst`) from
  `ReadInv`: a reader that has part of its bytes is the first of all readers, has the
  last bytes that left the buffer, and one that runs inside `sys_read_uart` finds bytes.  So nobody else can
  have taken a byte between two of its passes.
* `ReadsImplementLine` (`ReadsAreServedInOrder`): `Kernel` implements `LineDiscipline`, where the
  queue of readers is `Readers` and the running reader is put back in front of it.  Each action is one
  of four: an arrival (`Arrive`), a request behind others (`Request`), a pass of the loop (`Serve`,
  or `RequestAndServe` for a first pass) or one that leaves readers and bytes alone (`Quiet`).

### Buffer and library (`CircularBufferProofs`, `TerminalProofs`)

* `CounterIsExact`: `TypeOK` and `CounterAgrees` hold for every array.
* `BufferIsQueue`: the buffer implements `BoundedQueue` under the mapping `contents`.
  Initial states map to initial states (`numelem` is 0); a write maps to `Write` and a read
  to `Read` (`WriteIsWrite`, `ReadIsRead`), where the index arithmetic is that `start + i`
  wraps at most once for `i < size`, and that full and empty differ because at most
  `size - 1` elements are stored (`EmptyAndFull`).

`TerminalProofs` is about `LibSpec` of `UserLibrary`, for every length and address of the blocks:

* `LibraryKeepsTypes` (`TypeOK`), `LibraryKeepsCounter` (`CounterAgrees`) and `LibraryKeepsQueue` (`IsBoundedQueue`): whatever turn
  of a loop, interrupt or other reader comes next, it is a step of `CircularBuffer` or leaves the buffer alone
  (`UsesBuffer`), so that the theorems of `CircularBufferProofs` apply.
* `WritesSendTheirBuffer` (`WriteSendsBuffer`).  The property speaks of the end of a call; the
  invariant `WriteInv` says what holds between two pieces: what has been sent is the part of the
  buffer in front of `ptr`, and `left` bytes are behind it.  `CopyConcat` joins two pieces.
* `ReadsFillTheirBuffer` (`ReadFillsBuffer`).  `ReadInv`: memory is what it was, with the bytes taken so
  far stored from the start of the buffer, across the passes and the waits (`StoreAppend`).
* `CallsStayInside` (`BlocksInside`): `AccessLemma` says where a block is that `access_ok` accepts, if it does not wrap.
  A call goes astray at a turn of its loop, so the rest is that the loops stay in the block (`AstrayBlockWraps`), which
  follows from what `WriteInv` and `ReadInv` know of `ptr`.
* `FailuresAreReported` (`FailureReported`) and `PerrorIsRight` (`PerrorTellsError`).  The properties speak of the moment a
  stub has returned; `ReportInv` says what `ret` is while the call is on its way, what `errno` is as long as
  nobody else has failed, and that the text `perror` is about to write is the one it chose
  before its prefix could fail.  A number that is in no table is the error of another call.
* `NumbersAreReadBack` (`NumbersReadBack`), for every `int` that is not negative.  `LowFirst`, the first loop of
  `itoa`, is a recursive function, so that first of all it has to exist: `LowFirstDef` shows by induction
  over `k` that there is a function on `0 .. k` that satisfies the equation, and `NumberOfDef` the same of the
  value of a sequence of digits.  Then, by strong induction over the number: its digits are digits, the last of
  `LowFirst` is not zero (`NoLeadingZero`), and reading them in the opposite order gives the number (`ReadFromTheLeft`).
  `TenDigits` bounds their number, `ExchangedReverses` is the second loop and `StrlenLemma` the call of `strlen`.
  The induction is over sets of numbers (`Induction`, `StrongInduction` in `ListLemmas`, from the smallest
  element of a finite set), because the theorems of the library are about operators, which the provers cannot instantiate.

### Memory (`MemoryProofs`)

| theorem | property | rests on |
|---|---|---|
| `MemoryTypes`, `ReferencesAreCounted`, `HeapsHaveOneBreak`, `FramesAreNotShared` | `TypeOK`, `CountsExact`, `BreakPerProcess`, `FramesPrivate` | `MemInv` |
| `SearchesSucceed` | `TablesSuffice` | `MemInv`, and counting |
| `HeapsAreMapped` | `HeapIsMapped` | `HeapInv`, under `NoWrap` |

*`MemInv`.*  A count is the cardinality of the set of its holders: the tasks that live, the idle
task, and the task structures a failed fork abandoned, as far as it got.  A call that adds or removes
a holder changes the set by one element, which is where the counter moves by one
(`FiniteSetTheorems`).  `FramesPrivate` needs that a table is empty until its directory is given
out, that the tables in use map data and code, and that only frames of user pages are mapped (`TablesOK`):
otherwise a new process could find entries in the directory it gets.  After the first reuse of a directory it does,
and the property says nothing (section 4).  `TablesSuffice` follows from `CountsExact`: there are as
many directories as task structures, and one that is free has no reference to any.  The frames
a fork takes are different ones and none of the parent's: `alloc_frame` takes the lowest
free frame each time (`UpTo`), so the frames of a fork are the lowest free ones, in order.

*`HeapInv`* adds that breaks are addresses of the heap and that the pages below them have entries.
It is not inductive for every set of increments: `sys_sbrk` adds modulo 2^32 and compares
afterwards, so that a large negative increment takes the break below the heap.  That is the run
`break_in_heap`.  `NoWrap` says that no increment is so large; the code does not see to it, so `HeapsAreMapped` is a
theorem about programs that pass no such increment.  Those of the run `memory` satisfy it.

### System (`SystemProofs`)

* `SystemIsMemory` (`ImplementsMemory`).  What is not by construction is the contents: a store or a byte of a
  read goes through a translation the TLB has kept, and has to be the one of the page table or name the empty
  page; and of the copies of a fork, each of which may reach several frames, the outcome has to be one `copy_user_data` of `Memory` allows.
  The lemmas of `MemoryProofs` are used by instance, `P`, with `queue[freequeue]` for `freequeue`.
* `ForksCopyData` (`DataIsCopied`, an action property): the copies of different pages reach different frames, none
  of them one the parent uses, and a translation that is stale for a temporary page is the empty page, by `TranslationsCurrent`.
* `OnlyReadsChangeCode` (`CodeChangedByReads`, an action property): the frames of the code are never free
  and mapped by pages of the code only (`CodeOK`), so neither the frames of a fork nor any other translation names one.
* `RunningProcessIsMapped` (`TranslationsCurrent`): the translation base is the directory of
  the running task, and what the TLB may hold is what the tables say, but for the pages
  `sbrk` maps without a flush.
* `ProcessesAreIsolated` (`ProcessesIsolated`, an action property): a store through any of these translations, by the program or
  by `copy_to_user`, changes a frame of the running process, and nobody else's has it (`FramesPrivate`).

Their invariant, `SysInv`, is `PlaceInv`, `MemInv`, `CodeOK` and `BridgeInv`: that the two parts agree which
task structures are lost, that every buffer of a waiting reader is in a page `access_ok` accepts, and `TranslationsCurrent`.  `PlaceInv`
is an invariant of `System` because each of its steps is one of `Kernel` or leaves the kernel alone (`KernelStep`).  It
is needed because the task that runs next is one that lives: a switch then loads a directory in use.

### Lists (`ListProofs`)

* `PointersAreRight` (`PointersFollowOrder`): for every number of lists and tasks, the pointers of
  `list.h` lead once round each list, both ways.  The other modules keep lists as
  sequences because of this theorem, together with `LinkedOnce`.  `ListInv` adds that lists are disjoint and
  without repetition; `AddLast`, `AddFirst` and `DelFirst` say what `list_add_tail`, `list_add` and `list_del`
  do to one list and which pointers they touch, and `LeadsElsewhere` that the others stay.
* `StatsAreRight` (`AnswerIsRight`) and `SearchesLeaveLists` (`ListsIntact`).  A search whose task
  is not the running one nor the first of the list is lost (`Lost`): it has deleted the head from its own
  list, and the head points at `NULL`.  `GetInv` says that lists are right unless a search is lost, and
  what each place of a search knows.
* `LostForever`: `[][Lost => Lost']`.  A lost search takes turns of its loop and never leaves it, for
  lists of every length.  This is why `SearchEnds` fails (`get_stats_ends`), and why the
  two theorems before it can hold: such a search never comes back with a wrong answer.

### Only model-checked

* The liveness properties `ReadyTasksRun`, `OldestReadServed` and `ReleasedReturn`, which rest
  on fairness and `ENABLED`.
* The violations of section 4 are traces TLC finds.

## 6. Not modelled

* `gpio.c`, `timer.c`, `hardware.c` and the configuration in `uart.c`: programming of device
  registers.  `clock_increase` counts ticks, `sys_gettime` returns the count, `sys_led` sets a pin.
* `printk` of `io.c` writes two lines at boot; `printint` and `printhex` have no caller.
* The stubs of `libc.c` other than those of `read` and `write`: the same text with other arguments.
* Register saving in `interrupt_asm.S` and the stack addresses `sys_fork` computes.
* The data caches, and permission bits but for the rule that user code does not write to its code.
* `free_user_pages`, `get_frame`, `circularbFree`, `circularbNumElements` and `list_is_last`
  have no caller.  (`circularbFree` would leave `numelem` as it was.)
* `set_vitual_to_phsycial` maps peripherals into the first directory entry at boot.
* `user.c`: a demonstration; the models allow every sequence of system calls.
* `build.c`, `load_kernel.pl`: tools that run on the host.

## 7. Plan

Done, in this order: `Sched`, `Semaphores`, `Keyboard`, `Kernel` with `LineDiscipline`; the proofs
of `IInv` and of the two invariants on top of it; `CircularBuffer` with its refinement and its proof;
`Memory`; `ListHead` and `GetStats`; `System`; `UserAccess`, `Terminal` and `UserLibrary` with
`TerminalProofs`; the other invariants of `Kernel` and its refinement of `LineDiscipline`; the proofs
about `Memory`, `System`, `ListHead` and `GetStats`; `OrphansStay` with the owners of semaphores and
`NumbersReadBack` with its proof; in `System` the copies of `fork` through the TLB and reads into code, in
`UserLibrary` blocks that wrap and numbers `errno` should not have, and tasks at semaphores in `GetStats`.

Next, in order of importance:

1. *Abstraction of the lists*: that `Kernel` with the pointers of `ListHead` instead of sequences
   is the same, stated as a refinement with `PointersAreRight` as its core.
2. *Safety parts of the liveness properties*: that a ready task moves forward in `readyqueue` with
   every switch, and bounds on how many switches it waits.
3. *Memory after a reuse*: which part of `FramesPrivate` still holds when stale entries remain.

## 8. Running

    tlc -workers 2 -config MCKernelSem.cfg MCKernel
    tlapm KernelProofs.tla

The module of each configuration is in `PROJECT.json` under `runs`; the longest
takes about two minutes on two cores.  `PROJECT.json` also maps each definition to the lines
of code it models.
