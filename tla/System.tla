------------------------------- MODULE System -------------------------------
(***************************************************************************)
(* The kernel and the memory of user processes together: the running task  *)
(* makes the calls, the task_structs are those of the scheduler, and       *)
(* whether a fork fails depends on the frames and entries that are left.   *)
(*                                                                         *)
(* The processor reaches memory through translations.  ttb is the directory *)
(* the translation base registers point to; an access to a page loads the   *)
(* entry of its table into the TLB, which may keep it until mmu_change_dir  *)
(* flushes it, or drop it at any time: tlb is what it may hold.  Code pages *)
(* that are fetched from are left out, because their entries never change.  *)
(***************************************************************************)
EXTENDS Kernel

CONSTANTS
  TOTAL_PH_PAGES, NUM_PAG_KERNEL, NUM_PAG_CODE, NUM_PAG_DATA,
  TOTAL_PAGES_ENTRIES, PAGE_SIZE, AddressSpace, Increments     \* as in Memory

ASSUME SystemAssumption ==
  /\ NUM_PAG_CODE \in Nat \ {0} /\ NUM_PAG_DATA \in Nat \ {0}
  /\ TOTAL_PAGES_ENTRIES \in Nat /\ TOTAL_PAGES_ENTRIES > NUM_PAG_CODE + NUM_PAG_DATA
  /\ NUM_PAG_KERNEL \in Nat \ {0}
  /\ TOTAL_PH_PAGES \in Nat
  /\ TOTAL_PH_PAGES >= NUM_PAG_KERNEL + 2 * (NUM_PAG_CODE + NUM_PAG_DATA)
  /\ PAGE_SIZE \in Nat \ {0}
  /\ AddressSpace \in Nat /\ AddressSpace >= 2 * TOTAL_PAGES_ENTRIES * PAGE_SIZE
  /\ Increments \subseteq Int

VARIABLES
  abandoned, phys_mem, pt, assigned_base_dir, program_breaks, pb_counter,
  dir_pages_baseAddr, program_break, reused, contents,         \* as in Memory
  keypage,     \* the page kbinfo.keybuffer of t points into, while a read of t waits
  ttb,         \* the directory the translation base registers point to
  tlb          \* the translations, <<page, frame>>, the TLB may hold

tableVars == <<abandoned, phys_mem, pt, assigned_base_dir, program_breaks, pb_counter,
               dir_pages_baseAddr, program_break, reused>>
sysVars == <<vars, tableVars, contents, keypage, ttb, tlb>>

(* What a page can contain: a byte that arrived, or another one.            *)
UserByte == 0 .. MaxInput

M == INSTANCE Memory WITH freequeue <- queue[freequeue], Byte <- UserByte

SysInit ==
  /\ Init
  /\ M!Init
  /\ keypage = [t \in Task |-> NUM_PAG_CODE]
  /\ ttb = dir_pages_baseAddr[task1]
  /\ tlb = {}
-----------------------------------------------------------------------------
(* Seeded fault: the TLB is not flushed.                                    *)
mmu_change_dir_only(d) == ttb' = d /\ UNCHANGED tlb

(* mmu_change_dir: ttb is set and the TLB flushed.                          *)
mmu_change_dir(d) == ttb' = d /\ tlb' = {}

(* task_switch: "Change directory base and flushes TLB except for threads", *)
(* after the kernel has loaded what it needed.                              *)
SwitchDir(loaded) ==
  LET dir_new == dir_pages_baseAddr'[current']
  IN IF dir_new # dir_pages_baseAddr'[current] THEN mmu_change_dir(dir_new)
     ELSE ttb' = ttb /\ tlb' = loaded

(* The frames an access to page p may reach, and what the TLB holds after.  *)
Reaches(p) == {m[2] : m \in {x \in tlb : x[1] = p}} \cup {pt[ttb][p]}
Load(p) == tlb \cup {<<p, pt[ttb][p]>>}

(* A store to page p.  The empty page belongs to the kernel; what it        *)
(* contains is left out.                                                    *)
Store(p, b) ==
  \E f \in Reaches(p) :
    contents' = IF f \in M!UserFrame THEN [contents EXCEPT ![f] = b] ELSE contents

(* Seeded fault: user code may write to its code pages (set_user_pages).    *)
user_write_code(p, b) ==
  /\ InUser
  /\ Store(p, b)
  /\ tlb' = Load(p)
  /\ UNCHANGED <<vars, tableVars, keypage, ttb>>

(* User code has no permission to write to its code pages.  A load of the   *)
(* page does to the TLB what a store of the byte does that is there.        *)
user_write(p, b) ==
  /\ InUser
  /\ p \notin M!CodePages
  /\ Store(p, b)
  /\ tlb' = Load(p)
  /\ UNCHANGED <<vars, tableVars, keypage, ttb>>
-----------------------------------------------------------------------------
(* What leaves the memory of user processes alone, and may switch tasks.    *)
other_calls ==
  /\ \/ Timer /\ UNCHANGED <<semVars, kbVars, lost>>
     \/ sys_DEBUG_tswitch /\ UNCHANGED <<semVars, kbVars, lost>>
     \/ SemNext /\ UNCHANGED <<kbVars, lost>>
     \/ interrupt_uart_routine /\ UNCHANGED <<semVars, lost>>
  /\ UNCHANGED <<tableVars, contents, keypage>>
  /\ SwitchDir(tlb)

(* copy_to_user of the bytes one pass of sys_read_uart took, before it may  *)
(* switch.  A page shows the last of them.                                  *)
Deliver(p) ==
  IF uart_read_buffer' = uart_read_buffer THEN UNCHANGED contents /\ SwitchDir(tlb)
  ELSE /\ Store(p, keybuffer'[current][Len(keybuffer'[current])])
       /\ SwitchDir(Load(p))

(* No pass uses the pointer of a read that has returned: it is left out.    *)
KeepPage(p) ==
  keypage' = [keypage EXCEPT ![current] =
                IF kernel_lr'[current] = "read" THEN p ELSE NUM_PAG_CODE]

(* sys_read into a buffer in page p, one of those access_ok accepts.        *)
read(size, p) ==
  /\ sys_read(size)
  /\ UNCHANGED <<semVars, lost, tableVars>>
  /\ KeepPage(p)
  /\ Deliver(p)

(* The reader has the CPU again, and its next bytes go to the same buffer.  *)
read_goes_on ==
  /\ read_continue
  /\ UNCHANGED <<semVars, lost, tableVars>>
  /\ KeepPage(keypage[current])
  /\ Deliver(keypage[current])

clone == sys_clone /\ M!sys_clone(current) /\ UNCHANGED <<keypage, ttb, tlb>>

(* Seeded fault: all copies go through the first free page, without a flush *)
(* between them (the increment of free_pag is missing).                     *)
CopyReachesOnePage(p) ==
  {M!ChildTable(current)[q] : q \in {r \in M!DataPages : r <= p}}
    \cup {m[2] : m \in {x \in tlb : x[1] = M!temp_page(current, NUM_PAG_CODE)}}

(* The frames the copy of data page p may reach: that of the child, which   *)
(* the entry of the temporary page names, and the first time that page is   *)
(* used those the TLB held for it.                                          *)
CopyReaches(p) ==
  {M!ChildTable(current)[p]}
    \cup {m[2] : m \in {x \in tlb : p \in M!FirstRound(current)
                                       /\ x[1] = M!temp_page(current, p)}}

(* Copy user data, through the translations of the parent.                  *)
copy_user_data ==
  \E from \in [M!DataPages -> UNION {Reaches(p) : p \in M!DataPages}],
    to \in [M!DataPages -> UNION {CopyReaches(p) : p \in M!DataPages}] :
    /\ \A p \in M!DataPages : from[p] \in Reaches(p) /\ to[p] \in CopyReaches(p)
    /\ contents' = [f \in M!UserFrame |->
         IF \E p \in M!DataPages : to[p] = f
         THEN contents[from[CHOOSE p \in M!DataPages : to[p] = f]]
         ELSE contents[f]]

(* The entries that took a temporary mapping are cleared before the flush.  *)
fork ==
  /\ sys_fork
  /\ M!fork_maps_heap(current)
  /\ copy_user_data
  /\ UNCHANGED keypage
  /\ mmu_change_dir(dir_pages_baseAddr[current])

(* The two first error returns come before the copies and the flush, the    *)
(* others after them.                                                       *)
fork_fails_early ==
  /\ fork_fails
  /\ M!fork_without_data(current) \/ M!fork_without_page(current)
  /\ UNCHANGED <<keypage, ttb, tlb>>

fork_fails_late ==
  /\ fork_fails
  /\ M!fork_lacks_heap(current)
  /\ copy_user_data
  /\ UNCHANGED keypage
  /\ mmu_change_dir(dir_pages_baseAddr[current])

exit == sys_exit /\ M!sys_exit(current) /\ UNCHANGED keypage /\ SwitchDir(tlb)

(* Seeded fault: the flush after the heap has shrunk is missing.            *)
sbrk_unflushed(inc) ==
  /\ InUser
  /\ UNCHANGED <<vars, keypage, ttb, tlb>>
  /\ M!sbrk_grow(current, inc) \/ M!sbrk_shrink(current, inc)

(* sys_sbrk: only shrinking flushes the TLB.                                *)
sbrk(inc) ==
  /\ InUser
  /\ UNCHANGED <<vars, keypage>>
  /\ \/ M!sbrk_grow(current, inc) /\ UNCHANGED <<ttb, tlb>>
     \/ M!sbrk_shrink(current, inc) /\ mmu_change_dir(dir_pages_baseAddr[current])

SysNext ==
  \/ \E p \in M!Page, b \in UserByte : user_write(p, b)
  \/ other_calls
  \/ \E size \in ReadSizes, p \in M!BufferPages : read(size, p)
  \/ read_goes_on
  \/ clone
  \/ fork
  \/ fork_fails_early
  \/ fork_fails_late
  \/ exit
  \/ \E inc \in Increments : sbrk(inc)

SysSpec == SysInit /\ [][SysNext]_sysVars
-----------------------------------------------------------------------------
(* Whatever runs sees the memory of its own process: the translation base   *)
(* is the directory of the running task, and a translation the TLB still    *)
(* holds is the one in the page table.  There is one exception: sys_sbrk    *)
(* maps pages of the heap without a flush, and where one was touched before *)
(* that the TLB may still name the empty page (task_switch and sys_sbrk).   *)
TranslationsCurrent ==
  /\ ttb = dir_pages_baseAddr[current]
  /\ \A m \in tlb : \/ m[2] = pt[ttb][m[1]]
                    \/ m[1] \in M!HeapPages /\ m[2] = M!CLEAR_PAGE

(* Nobody changes the data or the heap of another process: whatever stores  *)
(* the running task makes, whatever reads are completed for it and whatever *)
(* it asks of the kernel, the pages of the other processes keep their       *)
(* frames and what is in them, as long as no directory has been reused.     *)
ProcessesIsolated ==
  [][~ reused' =>
       \A t \in M!Live, p \in M!Page \ M!CodePages :
         LET d == dir_pages_baseAddr[t]
         IN d # dir_pages_baseAddr[current] /\ M!used_page(d, p) =>
              pt'[d][p] = pt[d][p] /\ contents'[pt[d][p]] = contents[pt[d][p]]]_sysVars

(* The code, which all processes share, changes only where a read puts      *)
(* bytes into a buffer that the running program has placed in that page;    *)
(* access_ok accepts such buffers, although it says that it supposes no     *)
(* support for code that modifies itself.  No store of a program, no fork,  *)
(* no page of a heap and no stale translation reaches it.                   *)
CodeChangedByReads ==
  [][\A t \in M!Live, p \in M!CodePages :
       LET f == pt[dir_pages_baseAddr[t]][p]
       IN contents'[f] # contents[f] =>
            /\ uart_read_buffer' # uart_read_buffer
            /\ \/ \E size \in ReadSizes : read(size, p)
               \/ read_goes_on /\ keypage[current] = p]_sysVars

(* sys_fork, "Copy user data": the child starts with a copy of each page of *)
(* the data of its parent, but for those whose copy is the first to go      *)
(* through a free page that the program touched since the last flush.  The  *)
(* TLB may hold the empty page for it, and the copy is lost.                *)
DataIsCopied ==
  [][\A p \in M!DataPages :
       fork /\ (p \in M!FirstRound(current)
                  => <<M!temp_page(current, p), M!CLEAR_PAGE>> \notin tlb)
         => M!Copies(current, {p})]_sysVars

(* The scheduler, the TLB and the keyboard do not show in memory.  What a   *)
(* store, a delivered byte or a copy of a fork does through the             *)
(* translations the TLB still holds is what Memory, where any task may make *)
(* the next call, does with the page table, or nothing.  So what holds of   *)
(* Memory holds of the system.                                              *)
ImplementsMemory == M!Spec
=============================================================================
