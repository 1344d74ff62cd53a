------------------------------- MODULE Memory -------------------------------
(***************************************************************************)
(* The memory of user processes: page directories, page tables, frames and *)
(* program breaks (mm.c), and what sys_fork, sys_clone, sys_exit and       *)
(* sys_sbrk (sys.c) do with them.  A system call runs with interrupts      *)
(* masked and is one action; which task makes the next one is left open,   *)
(* because the scheduler can run the tasks that exist in any order.        *)
(*                                                                         *)
(* Of each page table only the second directory entry is modelled, the one *)
(* with the user pages: an entry is the number of the frame it names.  The *)
(* first directory entry maps the kernel frames to themselves and never    *)
(* changes.                                                                *)
(***************************************************************************)
EXTENDS Integers, Sequences, FiniteSets

CONSTANTS
  NR_TASKS,
  TOTAL_PH_PAGES, NUM_PAG_KERNEL,       \* frames, and how many the kernel has
  NUM_PAG_CODE, NUM_PAG_DATA,           \* user pages of a new process
  TOTAL_PAGES_ENTRIES,                  \* entries of a page table
  PAGE_SIZE,
  AddressSpace,                         \* addresses are taken modulo this
  Increments,                           \* what user programs pass to sbrk
  Byte                                  \* what user programs write

ASSUME MemoryAssumption ==
  /\ NR_TASKS \in Nat /\ NR_TASKS >= 2
  /\ NUM_PAG_CODE \in Nat \ {0} /\ NUM_PAG_DATA \in Nat \ {0}
  /\ TOTAL_PAGES_ENTRIES \in Nat /\ TOTAL_PAGES_ENTRIES > NUM_PAG_CODE + NUM_PAG_DATA
  /\ NUM_PAG_KERNEL \in Nat \ {0}
  /\ TOTAL_PH_PAGES \in Nat
  /\ TOTAL_PH_PAGES >= NUM_PAG_KERNEL + 2 * (NUM_PAG_CODE + NUM_PAG_DATA)
  /\ PAGE_SIZE \in Nat \ {0}
  /\ AddressSpace \in Nat /\ AddressSpace >= 2 * TOTAL_PAGES_ENTRIES * PAGE_SIZE
  /\ Increments \subseteq Int /\ Byte # {}

Task == 0 .. NR_TASKS - 1
idle_task == 0
task1 == 1
Dir == 0 .. NR_TASKS - 1      \* directories; and slots of program_breaks
Frame == 0 .. TOTAL_PH_PAGES - 1
Page == 0 .. TOTAL_PAGES_ENTRIES - 1

USR_P_HEAPSTART == NUM_PAG_CODE + NUM_PAG_DATA
CodePages == 0 .. NUM_PAG_CODE - 1
DataPages == NUM_PAG_CODE .. USR_P_HEAPSTART - 1
HeapPages == USR_P_HEAPSTART .. TOTAL_PAGES_ENTRIES - 1

(* The entry of a page that is not used names the frame of empty_ph_page,   *)
(* which belongs to the kernel.                                             *)
CLEAR_PAGE == 0

VARIABLES
  freequeue,            \* the task_structs in freequeue, in order
  abandoned,            \* history: how far a failing fork got with a task_struct
  phys_mem,             \* the frames marked USED_FRAME
  pt,                   \* pt[d][p]: the frame in entry p of the table of directory d
  assigned_base_dir,    \* references to each directory
  program_breaks,       \* unsigned addresses
  pb_counter,           \* references to each program break
  dir_pages_baseAddr,   \* the directory of each task
  program_break,        \* the program break of each task
  contents,             \* what is stored in the frames for user pages
  reused                \* history: has a directory been given out a second time

vars == <<freequeue, abandoned, phys_mem, pt, assigned_base_dir, program_breaks,
          pb_counter, dir_pages_baseAddr, program_break, contents, reused>>

tableVars == <<assigned_base_dir, pb_counter, dir_pages_baseAddr, program_break>>

Free == {freequeue[i] : i \in DOMAIN freequeue}
Lost == {t \in Task : abandoned[t] # "no"}
Live == Task \ (Free \cup Lost \cup {idle_task})
-----------------------------------------------------------------------------
PAGE(x) == (x \div PAGE_SIZE) % TOTAL_PAGES_ENTRIES
OFFSET(x) == x % PAGE_SIZE
HeapStart == (TOTAL_PAGES_ENTRIES + USR_P_HEAPSTART) * PAGE_SIZE

used_page(d, p) == pt[d][p] # CLEAR_PAGE

(* The frames alloc_frame looks at: every second one.                       *)
UserFrame == {f \in Frame : f >= NUM_PAG_KERNEL /\ (f - NUM_PAG_KERNEL) % 2 = 0}
FreeFrames == UserFrame \ phys_mem

(* The frame the nth of several calls of alloc_frame returns.               *)
alloc_frame(n) ==
  CHOOSE f \in FreeFrames : Cardinality({g \in FreeFrames : g <= f}) = n

(* What free_frame does for every frame in F.                               *)
free_frames(F) == phys_mem \ {f \in F : f > NUM_PAG_KERNEL /\ f < TOTAL_PH_PAGES}

(* The first entry that is not assigned, or the last one if all are.        *)
FirstFree(counter) ==
  LET unassigned == {i \in Dir : counter[i] = 0}
  IN IF unassigned = {} THEN NR_TASKS - 1
     ELSE CHOOSE i \in unassigned : \A j \in unassigned : i <= j

(* Position of p in the ascending enumeration of the set of pages P.        *)
Rank(p, P) == Cardinality({q \in P : q <= p})

(* set_user_pages: the pages of task 1, the first process.                  *)
set_user_pages ==
  [p \in Page |-> IF p < USR_P_HEAPSTART THEN NUM_PAG_KERNEL + 2 * p ELSE CLEAR_PAGE]

(* init_table_pages and init_dir_pages, and the directories init_idle and   *)
(* init_task1 take.                                                         *)
InitTables ==
  /\ pt = [d \in Dir |-> IF d = 1 THEN set_user_pages ELSE [p \in Page |-> CLEAR_PAGE]]
  /\ assigned_base_dir = [d \in Dir |-> IF d \in {0, 1} THEN 1 ELSE 0]
  /\ dir_pages_baseAddr = [t \in Task |-> IF t = task1 THEN 1 ELSE 0]

(* init_pb, and the program break task 1 takes; the idle task has none.     *)
InitBreaks ==
  /\ program_breaks = [i \in Dir |-> HeapStart]
  /\ pb_counter = [i \in Dir |-> IF i = 0 THEN 1 ELSE 0]
  /\ program_break = [t \in Task |-> 0]

(* init_frames, and the frames set_user_pages takes.                        *)
InitFrames ==
  phys_mem = 0 .. NUM_PAG_KERNEL - 1
               \cup {set_user_pages[p] : p \in CodePages \cup DataPages}

(* The state in which task 1 enters its main.                               *)
Init ==
  /\ freequeue = [i \in 1 .. NR_TASKS - 2 |-> i + 1]
  /\ abandoned = [t \in Task |-> "no"]
  /\ InitFrames
  /\ InitTables
  /\ InitBreaks
  /\ contents \in [UserFrame -> Byte]
  /\ reused = FALSE
-----------------------------------------------------------------------------
(* A byte reaches page p of t.  What is stored in a page that is not mapped *)
(* goes to the empty page, and what that contains is left out.              *)
store(t, p, b) ==
  /\ used_page(dir_pages_baseAddr[t], p)
  /\ contents' = [contents EXCEPT ![pt[dir_pages_baseAddr[t]][p]] = b]
  /\ UNCHANGED <<freequeue, abandoned, phys_mem, pt, program_breaks, tableVars, reused>>

(* User code has no permission to write to its code pages.                  *)
write(t, p, b) == p \notin CodePages /\ store(t, p, b)

(* The kernel stores what t reads, in a page that access_ok accepts: code,  *)
(* data or the first page of the heap.                                      *)
BufferPages == 0 .. USR_P_HEAPSTART
copy_to_user(t, p, b) == p \in BufferPages /\ store(t, p, b)

(* Seeded fault: the reference to the program break is not counted.         *)
sys_clone_uncounted(t) ==
  /\ freequeue # <<>>
  /\ LET new == Head(freequeue)
     IN /\ freequeue' = Tail(freequeue)
        /\ dir_pages_baseAddr' = [dir_pages_baseAddr EXCEPT ![new] = dir_pages_baseAddr[t]]
        /\ program_break' = [program_break EXCEPT ![new] = program_break[t]]
        /\ assigned_base_dir' = [assigned_base_dir EXCEPT ![dir_pages_baseAddr[t]] = @ + 1]
        /\ UNCHANGED pb_counter
  /\ UNCHANGED <<abandoned, phys_mem, pt, program_breaks, contents, reused>>

(* sys_clone: a thread shares the directory and the program break.          *)
sys_clone(t) ==
  /\ freequeue # <<>>
  /\ LET new == Head(freequeue)
     IN /\ freequeue' = Tail(freequeue)
        /\ dir_pages_baseAddr' = [dir_pages_baseAddr EXCEPT ![new] = dir_pages_baseAddr[t]]
        /\ program_break' = [program_break EXCEPT ![new] = program_break[t]]
        /\ assigned_base_dir' = [assigned_base_dir EXCEPT ![dir_pages_baseAddr[t]] = @ + 1]
        /\ pb_counter' = [pb_counter EXCEPT ![program_break[t]] = @ + 1]
  /\ UNCHANGED <<abandoned, phys_mem, pt, program_breaks, contents, reused>>
-----------------------------------------------------------------------------
(* sys_fork takes a task_struct and then, in this order, frames for the     *)
(* data, a directory, entries of the parent's own page table through which  *)
(* it copies, a program break, and frames for the heap.                     *)
new_pcb == Head(freequeue)
new_dir == FirstFree(assigned_base_dir)
new_pb == FirstFree(pb_counter)

EnoughFrames(n) == Cardinality(FreeFrames) >= n

(* Pages of the parent that can take the temporary mapping for its data.    *)
FreePages(t) == {p \in HeapPages : ~ used_page(dir_pages_baseAddr[t], p)}

(* The pages of the heap below the break pb, and the pages that can take    *)
(* the temporary mapping to copy them.                                      *)
BrokenPages(pb) ==
  {p \in HeapPages : p < PAGE(pb) \/ (p = PAGE(pb) /\ OFFSET(pb) # 0)}
FreePagesAbove(t, pb) ==
  {p \in Page : p >= PAGE((pb + PAGE_SIZE) % AddressSpace)
                  /\ ~ used_page(dir_pages_baseAddr[t], p)}

parent_break(t) == program_breaks[program_break[t]]

(* The table of the child once its code and data entries are set; the other *)
(* entries stay as the last user of the directory left them.                *)
ChildTable(t) ==
  [p \in Page |-> IF p \in CodePages THEN pt[dir_pages_baseAddr[t]][p]
                  ELSE IF p \in DataPages THEN alloc_frame(p - NUM_PAG_CODE + 1)
                  ELSE pt[new_dir][p]]

(* The frames of the pages P of the heap, allocated after those of the data.*)
HeapFrame(p, P) == alloc_frame(NUM_PAG_DATA + Rank(p, P))

DataFrames == {alloc_frame(n) : n \in 1 .. NUM_PAG_DATA}

(* What holds once the data frames and the directory are taken.             *)
TakeDirectory(t) ==
  /\ freequeue' = Tail(freequeue)
  /\ dir_pages_baseAddr' = [dir_pages_baseAddr EXCEPT ![new_pcb] = new_dir]
  /\ assigned_base_dir' = [assigned_base_dir EXCEPT ![new_dir] = 1]
  /\ reused' = (reused \/ pt[new_dir][0] # CLEAR_PAGE)

(* Seeded fault: the child of a fork keeps the program break of its parent. *)
TakeBreakOfParent(t) ==
  /\ program_break' = [program_break EXCEPT ![new_pcb] = program_break[t]]
  /\ pb_counter' = [pb_counter EXCEPT ![program_break[t]] = @ + 1]
  /\ UNCHANGED program_breaks

(* What get_newpb and the next assignment do.                               *)
TakeBreak(t) ==
  /\ program_break' = [program_break EXCEPT ![new_pcb] = new_pb]
  /\ pb_counter' = [pb_counter EXCEPT ![new_pb] = 1]
  /\ program_breaks' = [program_breaks EXCEPT ![new_pb] = parent_break(t)]

(* No frames for the data: they are given back, the task_struct is not.     *)
fork_without_data(t) ==
  /\ freequeue # <<>>
  /\ ~ EnoughFrames(NUM_PAG_DATA)
  /\ freequeue' = Tail(freequeue)
  /\ abandoned' = [abandoned EXCEPT ![new_pcb] = "bare"]
  /\ UNCHANGED <<phys_mem, pt, program_breaks, tableVars, contents, reused>>

(* No entry for the temporary mapping of the data.                          *)
fork_without_page(t) ==
  /\ freequeue # <<>>
  /\ EnoughFrames(NUM_PAG_DATA)
  /\ FreePages(t) = {}
  /\ TakeDirectory(t)
  /\ abandoned' = [abandoned EXCEPT ![new_pcb] = "directory"]
  /\ phys_mem' = phys_mem \cup DataFrames
  /\ pt' = [pt EXCEPT ![new_dir] = ChildTable(t)]
  /\ program_break' = [program_break EXCEPT ![new_pcb] = program_break[t]]
  /\ UNCHANGED <<program_breaks, pb_counter, contents>>

(* Data page p is copied through a free page of the heap of the parent,     *)
(* which is given the frame of the child for as long as the copy takes.     *)
(* Each serves in turn, and before they serve again the TLB is flushed.     *)
temp_page(t, p) ==
  CHOOSE q \in FreePages(t) :
    Rank(q, FreePages(t)) - 1 = (p - NUM_PAG_CODE) % Cardinality(FreePages(t))
FirstRound(t) == {p \in DataPages : p - NUM_PAG_CODE < Cardinality(FreePages(t))}

(* Copy user data.  If the program has touched a free page before, the TLB  *)
(* may still hold the empty page for it.  The first copy through that page  *)
(* is then lost in the empty page, and the frame of the child stays as it   *)
(* was.                                                                     *)
copy_user_data(t) ==
  \E arrived \in SUBSET DataPages :
    /\ DataPages \ FirstRound(t) \subseteq arrived
    /\ contents' = [f \in UserFrame |->
         IF \E p \in arrived : f = ChildTable(t)[p]
         THEN contents[pt[dir_pages_baseAddr[t]][CHOOSE p \in arrived : f = ChildTable(t)[p]]]
         ELSE contents[f]]

(* The tables and counters of a fork that gets as far as the heap.          *)
ForkReachesHeap(t) ==
  /\ freequeue # <<>>
  /\ EnoughFrames(NUM_PAG_DATA)
  /\ FreePages(t) # {}
  /\ TakeDirectory(t)
  /\ TakeBreak(t)

(* There is a heap to copy, but no entry to map it or no frames for it.  In *)
(* the second case the frames are given back, and the entries stay.         *)
fork_lacks_heap(t) ==
  LET heap == BrokenPages(parent_break(t))
      here == {p \in heap : EnoughFrames(NUM_PAG_DATA + Rank(p, heap))}
      mapped == IF FreePagesAbove(t, parent_break(t)) = {} THEN {} ELSE here
  IN /\ ForkReachesHeap(t)
     /\ mapped # heap
     /\ abandoned' = [abandoned EXCEPT ![new_pcb] = "break"]
     /\ phys_mem' = phys_mem \cup DataFrames
     /\ pt' = [pt EXCEPT ![new_dir] = [p \in Page |->
                 IF p \in mapped THEN HeapFrame(p, heap) ELSE ChildTable(t)[p]]]

fork_maps_heap(t) ==
  LET heap == BrokenPages(parent_break(t))
  IN /\ ForkReachesHeap(t)
     /\ heap # {} => FreePagesAbove(t, parent_break(t)) # {}
     /\ EnoughFrames(NUM_PAG_DATA + Cardinality(heap))
     /\ phys_mem' = phys_mem \cup DataFrames \cup {HeapFrame(p, heap) : p \in heap}
     /\ pt' = [pt EXCEPT ![new_dir] = [p \in Page |->
                 IF p \in heap THEN HeapFrame(p, heap) ELSE ChildTable(t)[p]]]
     /\ UNCHANGED abandoned

(* The copy of the heap goes from kernel page p to the kernel page with the *)
(* number of the free page.  What kernel pages contain is left out here:    *)
(* the frames of the heap of the child keep what was in them.               *)
fork_without_heap(t) == fork_lacks_heap(t) /\ copy_user_data(t)
fork_succeeds(t) == fork_maps_heap(t) /\ copy_user_data(t)

sys_fork(t) ==
  \/ fork_without_data(t)
  \/ fork_without_page(t)
  \/ fork_without_heap(t)
  \/ fork_succeeds(t)
-----------------------------------------------------------------------------
(* Seeded fault: the reference to the program break is not given back.      *)
sys_exit_keeps_break(t) ==
  LET d == dir_pages_baseAddr[t]
  IN /\ phys_mem' = IF assigned_base_dir[d] = 1
                    THEN free_frames({pt[d][p] : p \in HeapPages}) ELSE phys_mem
     /\ assigned_base_dir' = [assigned_base_dir EXCEPT ![d] = @ - 1]
     /\ freequeue' = Append(freequeue, t)
     /\ UNCHANGED <<abandoned, pt, program_breaks, dir_pages_baseAddr, program_break,
                    contents, reused, pb_counter>>

(* Seeded fault: a thread frees the heap although others still use it.      *)
sys_exit_frees_always(t) ==
  LET d == dir_pages_baseAddr[t]
  IN /\ phys_mem' = free_frames({pt[d][p] : p \in HeapPages})
     /\ assigned_base_dir' = [assigned_base_dir EXCEPT ![d] = @ - 1]
     /\ pb_counter' = [pb_counter EXCEPT ![program_break[t]] = @ - 1]
     /\ freequeue' = Append(freequeue, t)
     /\ UNCHANGED <<abandoned, pt, program_breaks, dir_pages_baseAddr, program_break,
                    contents, reused>>

(* sys_exit: the last task of a process frees the frames of its heap.       *)
sys_exit(t) ==
  LET d == dir_pages_baseAddr[t]
  IN /\ phys_mem' = IF assigned_base_dir[d] = 1
                    THEN free_frames({pt[d][p] : p \in HeapPages}) ELSE phys_mem
     /\ assigned_base_dir' = [assigned_base_dir EXCEPT ![d] = @ - 1]
     /\ pb_counter' = [pb_counter EXCEPT ![program_break[t]] = @ - 1]
     /\ freequeue' = Append(freequeue, t)
     /\ UNCHANGED <<abandoned, pt, program_breaks, dir_pages_baseAddr, program_break,
                    contents, reused>>
-----------------------------------------------------------------------------
(* sbrk with an increment that would end above the last page returns        *)
(* -ENOMEM, one that would end below the heap -EHLIMI: nothing changes.     *)

(* The number of the page that holds new_break, relative to the user area.  *)
EndPage(new_break) == new_break \div PAGE_SIZE - TOTAL_PAGES_ENTRIES

(* sbrk(inc) with inc > 0: the unused pages up to the new break are mapped, *)
(* in ascending order.  If the frames run out those already mapped stay,    *)
(* and the break does not move.                                             *)
sbrk_grow(t, inc) ==
  LET d == dir_pages_baseAddr[t]
      new_break == (parent_break(t) + inc) % AddressSpace
      end == EndPage(new_break)
      wanted == {p \in Page : /\ p >= PAGE(parent_break(t))
                              /\ p < end \/ (p = end /\ OFFSET(new_break) # 0)
                              /\ ~ used_page(d, p)}
      got == {p \in wanted : EnoughFrames(Rank(p, wanted))}
  IN /\ inc > 0
     /\ end < TOTAL_PAGES_ENTRIES
     /\ phys_mem' = phys_mem \cup {alloc_frame(Rank(p, wanted)) : p \in got}
     /\ pt' = [pt EXCEPT ![d] = [p \in Page |->
                 IF p \in got THEN alloc_frame(Rank(p, wanted)) ELSE pt[d][p]]]
     /\ program_breaks' = IF got = wanted
                          THEN [program_breaks EXCEPT ![program_break[t]] = new_break]
                          ELSE program_breaks
     /\ UNCHANGED <<freequeue, abandoned, tableVars, contents, reused>>

(* Seeded fault: the page that holds the new break is unmapped too.         *)
sbrk_shrink_one_more(t, inc) ==
  LET d == dir_pages_baseAddr[t]
      new_break == (parent_break(t) + inc) % AddressSpace
      end == EndPage(new_break)
      dropped == {p \in Page : p <= PAGE(parent_break(t)) /\ p >= end}
  IN /\ inc < 0
     /\ end >= USR_P_HEAPSTART
     /\ phys_mem' = free_frames({pt[d][p] : p \in dropped})
     /\ pt' = [pt EXCEPT ![d] = [p \in Page |->
                 IF p \in dropped THEN CLEAR_PAGE ELSE pt[d][p]]]
     /\ program_breaks' = [program_breaks EXCEPT ![program_break[t]] = new_break]
     /\ UNCHANGED <<freequeue, abandoned, tableVars, contents, reused>>

(* sbrk(inc) with inc < 0: the pages above the new break are unmapped.      *)
sbrk_shrink(t, inc) ==
  LET d == dir_pages_baseAddr[t]
      new_break == (parent_break(t) + inc) % AddressSpace
      end == EndPage(new_break)
      dropped == {p \in Page : /\ p <= PAGE(parent_break(t))
                               /\ p > end \/ (p = end /\ OFFSET(new_break) = 0)}
  IN /\ inc < 0
     /\ end >= USR_P_HEAPSTART
     /\ phys_mem' = free_frames({pt[d][p] : p \in dropped})
     /\ pt' = [pt EXCEPT ![d] = [p \in Page |->
                 IF p \in dropped THEN CLEAR_PAGE ELSE pt[d][p]]]
     /\ program_breaks' = [program_breaks EXCEPT ![program_break[t]] = new_break]
     /\ UNCHANGED <<freequeue, abandoned, tableVars, contents, reused>>

Next ==
  \E t \in Live :
    \/ \E p \in Page, b \in Byte : write(t, p, b) \/ copy_to_user(t, p, b)
    \/ sys_clone(t)
    \/ sys_fork(t)
    \/ sys_exit(t)
    \/ \E inc \in Increments : sbrk_grow(t, inc) \/ sbrk_shrink(t, inc)

Spec == Init /\ [][Next]_vars
-----------------------------------------------------------------------------
TypeOK ==
  /\ freequeue \in Seq(Task)
  /\ abandoned \in [Task -> {"no", "bare", "directory", "break"}]
  /\ phys_mem \subseteq Frame
  /\ pt \in [Dir -> [Page -> Frame]]
  /\ assigned_base_dir \in [Dir -> 0 .. NR_TASKS]
  /\ program_breaks \in [Dir -> 0 .. AddressSpace - 1]
  /\ pb_counter \in [Dir -> 0 .. NR_TASKS]
  /\ dir_pages_baseAddr \in [Task -> Dir]
  /\ program_break \in [Task -> Dir]
  /\ contents \in [UserFrame -> Byte]
  /\ reused \in BOOLEAN

(* The reference counters are exact: as many tasks use a directory, or a    *)
(* program break, as its counter says, counting the idle task and the       *)
(* task_structs failing forks have left behind.  sys_exit frees the heap    *)
(* and allocate_page_dir and get_newpb choose by them.                      *)
CountsExact ==
  LET DirHolders == Live \cup {idle_task}
                      \cup {t \in Task : abandoned[t] \in {"directory", "break"}}
      PbHolders == Live \cup {t \in Task : abandoned[t] = "break"}
  IN \A i \in Dir :
       /\ assigned_base_dir[i] = Cardinality({t \in DirHolders : dir_pages_baseAddr[t] = i})
       /\ pb_counter[i] = Cardinality({t \in PbHolders : program_break[t] = i})

(* While there is a free task_struct there is a free directory and a free   *)
(* program break: the searches of allocate_page_dir and get_newpb, which    *)
(* take the last entry when they find none, always find one.                *)
TablesSuffice ==
  freequeue # <<>> =>
    /\ \E i \in Dir : assigned_base_dir[i] = 0
    /\ \E i \in Dir : pb_counter[i] = 0

(* Tasks share a program break exactly when they share a directory: a heap  *)
(* has one break (sys_clone against sys_fork).                              *)
BreakPerProcess ==
  \A t, u \in Live :
    dir_pages_baseAddr[t] = dir_pages_baseAddr[u] <=> program_break[t] = program_break[u]

(* Every page of a heap below its break is mapped, to a frame marked used   *)
(* unless directories were reused: whatever mixture of sbrk calls, of forks *)
(* and of ends of threads led there, user code can touch its whole heap.    *)
HeapIsMapped ==
  \A t \in Live : \A p \in BrokenPages(parent_break(t)) :
    /\ used_page(dir_pages_baseAddr[t], p)
    /\ reused \/ pt[dir_pages_baseAddr[t]][p] \in phys_mem

(* The pages other than code that a directory in use maps.                  *)
Mapped == {dp \in Dir \X Page :
             /\ \E t \in Live : dir_pages_baseAddr[t] = dp[1]
             /\ dp[2] \notin CodePages
             /\ used_page(dp[1], dp[2])}

(* Until a directory is given out a second time, processes share no frame   *)
(* but those of the code, and every frame they use is marked used, so that  *)
(* alloc_frame cannot give it to another (sys_fork, sys_sbrk, sys_exit).    *)
FramesPrivate ==
  ~ reused =>
    /\ \A m \in Mapped : pt[m[1]][m[2]] \in phys_mem /\ pt[m[1]][m[2]] >= NUM_PAG_KERNEL
    /\ \A m, n \in Mapped : m # n => pt[m[1]][m[2]] # pt[n[1]][n[2]]

(* The child of a fork starts with a copy of the data of its parent, and of *)
(* the pages P of it in general.                                            *)
Copies(t, P) ==
  \A p \in P : contents'[pt'[new_dir][p]] = contents[pt[dir_pages_baseAddr[t]][p]]

(* sys.c, in sys_fork: "Copy Heap data".                                    *)
HeapIsCopied ==
  [][\A t \in Live : fork_succeeds(t) => Copies(t, BrokenPages(parent_break(t)))]_vars

(* sys.c, in sys_exit: "Free DATA & HEAP region".  When the last task of a  *)
(* process has ended, the frames of its data and heap are free.             *)
ExitFreesProcess ==
  [][\A t \in Live :
       sys_exit(t) /\ assigned_base_dir[dir_pages_baseAddr[t]] = 1 =>
         \A p \in DataPages \cup HeapPages :
           used_page(dir_pages_baseAddr[t], p)
             => pt[dir_pages_baseAddr[t]][p] \notin phys_mem']_vars

(* sys.c, in sys_sbrk: "Upper limit of the HEAP".  A break never ends below *)
(* the start of the heap, nor above its last page.                          *)
BreakInHeap ==
  \A t \in Live :
    /\ parent_break(t) >= HeapStart
    /\ parent_break(t) < 2 * TOTAL_PAGES_ENTRIES * PAGE_SIZE
=============================================================================
