---------------------------- MODULE MemoryProofs ----------------------------
(***************************************************************************)
(* Proofs about Memory: the reference counters, the frames of processes,   *)
(* the copy a fork makes, the frames of the code and the pages of the heap.*)
(***************************************************************************)
EXTENDS Memory, ListLemmas

(* Who has a reference to a directory, and who has one to a program break.  *)
DirHolders == Live \cup {idle_task} \cup {t \in Task : abandoned[t] \in {"directory", "break"}}
PbHolders == Live \cup {t \in Task : abandoned[t] = "break"}

(* The counters c are exact: H are the holders, and f says what they hold.  *)
Exact(c, H, f) == \A i \in Dir : c[i] = Cardinality({t \in H : f[t] = i})

(* The task_structs in freequeue are different ones, and neither the idle   *)
(* task nor the abandoned ones are among them.                              *)
TasksOK ==
  /\ IsInjective(freequeue)
  /\ Free \cap (Lost \cup {idle_task}) = {}
  /\ idle_task \notin Lost

(* A table is empty until the directory is given out, and from then on it   *)
(* maps the code; those in use map the data as well.  Only frames for user  *)
(* pages are mapped.                                                        *)
TablesOK ==
  /\ \A d \in Dir, p \in Page : used_page(d, p) => pt[d][p] \in UserFrame
  /\ \A d \in Dir : ~ used_page(d, 0) => \A p \in Page : ~ used_page(d, p)
  /\ \A t \in Live : \A p \in CodePages \cup DataPages :
       used_page(dir_pages_baseAddr[t], p)

(* The inductive invariant.                                                 *)
MemInv ==
  /\ TypeOK
  /\ TasksOK
  /\ CountsExact
  /\ BreakPerProcess
  /\ TablesOK
  /\ FramesPrivate

(* The frames of the code are never free, whatever maps a page of the code  *)
(* maps it to its own frame, and nothing else maps one of them.             *)
CodeFrames == {set_user_pages[p] : p \in CodePages}
CodeOK ==
  /\ CodeFrames \subseteq phys_mem
  /\ \A d \in Dir, p \in CodePages : used_page(d, p) => pt[d][p] = set_user_pages[p]
  /\ \A d \in Dir, p \in Page \ CodePages : used_page(d, p) => pt[d][p] \notin CodeFrames

(* sbrk computes modulo AddressSpace.  This says that it never has to.      *)
NoWrap ==
  \A inc \in Increments :
    - HeapStart <= inc /\ inc <= AddressSpace - 2 * TOTAL_PAGES_ENTRIES * PAGE_SIZE

InHeap(x) == HeapStart <= x /\ x < 2 * TOTAL_PAGES_ENTRIES * PAGE_SIZE

(* The breaks are addresses of the heap, those nobody uses too, and the     *)
(* pages below those that are used have entries.                            *)
BreaksOK == \A i \in Dir : InHeap(program_breaks[i])
HeapUsed ==
  \A t \in Live : \A p \in BrokenPages(parent_break(t)) : used_page(dir_pages_baseAddr[t], p)

HeapInv == MemInv /\ BreaksOK /\ HeapUsed
-----------------------------------------------------------------------------
(* The frames of user pages are finitely many, and the empty page is none of *)
(* them.                                                                     *)
LEMMA FreeFramesFinite ==
  /\ UserFrame \in SUBSET Int /\ IsFiniteSet(UserFrame) /\ CLEAR_PAGE \notin UserFrame
  /\ UserFrame \subseteq Frame
  /\ FreeFrames \in SUBSET Int /\ IsFiniteSet(FreeFrames)
<1>1. IsFiniteSet(Frame)
  BY MemoryAssumption, Intervals DEF Frame
<1>2. UserFrame \in SUBSET Frame /\ FreeFrames \in SUBSET UserFrame
  BY DEF UserFrame, FreeFrames
<1>3. IsFiniteSet(UserFrame) /\ IsFiniteSet(FreeFrames)
  BY <1>1, <1>2, FS_Subset
<1>4. CLEAR_PAGE \notin UserFrame
  BY MemoryAssumption DEF CLEAR_PAGE, UserFrame
<1> QED  BY <1>2, <1>3, <1>4, MemoryAssumption DEF Frame

(* The nth of several calls of alloc_frame finds a free frame, if there are *)
(* n, and not the one another of them found.                                *)
LEMMA AllocFrame ==
  ASSUME NEW n \in Nat \ {0}, EnoughFrames(n)
  PROVE  alloc_frame(n) \in FreeFrames /\ UpTo(FreeFrames, alloc_frame(n)) = n
<1>1. n \in 1 .. Cardinality(FreeFrames)
  BY FreeFramesFinite, FS_CardinalityType DEF EnoughFrames
<1>2. \E f \in FreeFrames : UpTo(FreeFrames, f) = n
  BY <1>1, FreeFramesFinite, UpToOnto
<1> QED  BY <1>2 DEF alloc_frame, UpTo

(* Two calls of alloc_frame in one operation return two frames.              *)
LEMMA AllocDiffers ==
  ASSUME NEW m \in Nat \ {0}, NEW n \in Nat \ {0}, EnoughFrames(m), EnoughFrames(n),
         alloc_frame(m) = alloc_frame(n)
  PROVE  m = n
BY AllocFrame

(* With more frames than that, there are as many.                           *)
LEMMA EnoughForLess ==
  ASSUME NEW m \in Nat, NEW n \in Nat, m <= n, EnoughFrames(n)
  PROVE  EnoughFrames(m)
BY FreeFramesFinite, FS_CardinalityType DEF EnoughFrames

(* Pages are ranked from 1 on, and differently.                             *)
LEMMA RankLemma ==
  ASSUME NEW P \in SUBSET Page
  PROVE  /\ IsFiniteSet(P) /\ Cardinality(P) \in Nat
         /\ \A p \in P : Rank(p, P) \in Nat \ {0} /\ Rank(p, P) <= Cardinality(P)
         /\ \A p, q \in P : Rank(p, P) = Rank(q, P) => p = q
<1>1. P \in SUBSET Int /\ IsFiniteSet(P) /\ Cardinality(P) \in Nat
  <2>1. IsFiniteSet(Page)
    BY MemoryAssumption, Intervals DEF Page
  <2>2. IsFiniteSet(P)
    BY <2>1, FS_Subset
  <2> QED  BY <2>2, FS_CardinalityType DEF Page
<1>2. \A p : Rank(p, P) = UpTo(P, p)
  BY DEF Rank, UpTo
<1>3. ASSUME NEW p \in P
      PROVE  Rank(p, P) \in Nat \ {0} /\ Rank(p, P) <= Cardinality(P)
  <2>1. UpTo(P, p) \in 1 .. Cardinality(P)
    BY <1>1, UpToRange
  <2> QED  BY <1>1, <1>2, <2>1
<1>4. ASSUME NEW p \in P, NEW q \in P, Rank(p, P) = Rank(q, P)
      PROVE  p = q
  BY <1>1, <1>2, <1>4, UpToDiffers
<1> QED  BY <1>1, <1>3, <1>4

(* allocate_page_dir and get_newpb find an unassigned entry, if any.        *)
LEMMA FirstFreeLemma ==
  ASSUME NEW c, \E i \in Dir : c[i] = 0
  PROVE  FirstFree(c) \in Dir /\ c[FirstFree(c)] = 0
<1> DEFINE U == {i \in Dir : c[i] = 0}
<1>1. U \in SUBSET Int /\ IsFiniteSet(U) /\ U # {}
  <2>1. IsFiniteSet(Dir) /\ U \in SUBSET Dir
    BY MemoryAssumption, Intervals DEF Dir
  <2>2. IsFiniteSet(U)
    BY <2>1, FS_Subset
  <2> QED  BY <2>2 DEF Dir
<1>2. \E i \in U : \A j \in U : i <= j
  <2> HIDE DEF U
  <2> QED  BY <1>1, SmallestElement
<1>3. FirstFree(c) = CHOOSE i \in U : \A j \in U : i <= j
  BY <1>1 DEF FirstFree
<1>4. FirstFree(c) \in U
  BY <1>2, <1>3
<1> QED  BY <1>4
-----------------------------------------------------------------------------
(* The tasks are as many as the directories, and as the program breaks.     *)
LEMMA TasksFinite ==
  /\ IsFiniteSet(Task) /\ Cardinality(Task) = NR_TASKS /\ Dir = Task
  /\ \A H \in SUBSET Task : IsFiniteSet(H) /\ Cardinality(H) \in 0 .. NR_TASKS
<1>1. IsFiniteSet(Task) /\ Cardinality(Task) = NR_TASKS /\ Dir = Task
  BY MemoryAssumption, Intervals DEF Task, Dir
<1>2. ASSUME NEW H \in SUBSET Task
      PROVE  IsFiniteSet(H) /\ Cardinality(H) \in 0 .. NR_TASKS
  <2>1. IsFiniteSet(H) /\ Cardinality(H) <= NR_TASKS
    BY <1>1, FS_Subset
  <2>2. Cardinality(H) \in Nat
    BY <2>1, FS_CardinalityType
  <2> QED  BY <2>1, <2>2, MemoryAssumption
<1> QED  BY <1>1, <1>2

(* Counters that are exact stay in their range.                             *)
LEMMA ExactBounded ==
  ASSUME NEW H \in SUBSET Task, NEW f, NEW c \in [Dir -> Int], Exact(c, H, f)
  PROVE  c \in [Dir -> 0 .. NR_TASKS]
<1>1. \A i \in Dir : {t \in H : f[t] = i} \in SUBSET Task
  OBVIOUS
<1>2. \A i \in Dir : c[i] \in 0 .. NR_TASKS
  BY <1>1, TasksFinite DEF Exact
<1> QED  BY <1>2

(* With exact counters c, holders H and what they hold, f, task t takes a   *)
(* reference to j: the counters become e, the holders G, what they hold g.  *)
Takes(t, j, c, H, f, e, G, g) ==
  /\ H \subseteq Task /\ f \in [Task -> Dir] /\ c \in [Dir -> 0 .. NR_TASKS]
  /\ Exact(c, H, f)
  /\ t \in Task \ H /\ j \in Dir
  /\ G \subseteq Task /\ \A u \in Task : u \in G <=> u \in H \/ u = t
  /\ g = [f EXCEPT ![t] = j]
  /\ e = [c EXCEPT ![j] = c[j] + 1]

(* With exact counters c and holders H, task t gives back its reference to  *)
(* f[t]: the counters become e and the holders G.                           *)
Gives(t, f, c, H, e, G) ==
  /\ H \subseteq Task /\ f \in [Task -> Dir] /\ c \in [Dir -> 0 .. NR_TASKS]
  /\ Exact(c, H, f)
  /\ t \in H
  /\ G \subseteq Task /\ \A u \in Task : u \in G <=> u \in H /\ u # t
  /\ e = [c EXCEPT ![f[t]] = c[f[t]] - 1]

(* A task takes a reference.                                                *)
LEMMA TakeReference ==
  ASSUME NEW t, NEW j, NEW c, NEW H, NEW f, NEW e, NEW G, NEW g, Takes(t, j, c, H, f, e, G, g)
  PROVE  Exact(e, G, g) /\ e \in [Dir -> 0 .. NR_TASKS]
<1> USE DEF Takes
<1>1. ASSUME NEW i \in Dir
      PROVE  e[i] = Cardinality({u \in G : g[u] = i})
  <2> DEFINE A == {u \in H : f[u] = i}
             B == {u \in G : g[u] = i}
  <2>0. A \in SUBSET Task /\ c[i] = Cardinality(A)
    BY DEF Exact
  <2>1. IsFiniteSet(A)
    BY <2>0, TasksFinite
  <2>2. CASE i = j
    <3>1. B = A \cup {t} /\ t \notin A
      BY <2>2
    <3>2. Cardinality(A \cup {t}) = Cardinality(A) + 1
      <4> HIDE DEF A
      <4> QED  BY <2>1, <3>1, FS_AddElement
    <3>3. e[i] = c[i] + 1
      BY <2>2
    <3> QED  BY <2>0, <3>1, <3>2, <3>3
  <2>3. CASE i # j
    <3>1. B = A
      BY <2>3
    <3>2. e[i] = c[i]
      BY <2>3
    <3> QED  BY <2>0, <3>1, <3>2
  <2> QED  BY <2>2, <2>3
<1>2. e \in [Dir -> Int] /\ G \in SUBSET Task
  BY MemoryAssumption
<1>3. Exact(e, G, g)
  BY <1>1 DEF Exact
<1>4. e \in [Dir -> 0 .. NR_TASKS]
  BY <1>2, <1>3, ExactBounded
<1> QED  BY <1>3, <1>4

(* A task gives its reference back.                                         *)
LEMMA GiveReference ==
  ASSUME NEW t, NEW f, NEW c, NEW H, NEW e, NEW G, Gives(t, f, c, H, e, G)
  PROVE  Exact(e, G, f) /\ e \in [Dir -> 0 .. NR_TASKS]
<1> USE DEF Gives
<1>1. ASSUME NEW i \in Dir
      PROVE  e[i] = Cardinality({u \in G : f[u] = i})
  <2> DEFINE A == {u \in H : f[u] = i}
             B == {u \in G : f[u] = i}
  <2>0. A \in SUBSET Task /\ c[i] = Cardinality(A)
    BY DEF Exact
  <2>1. IsFiniteSet(A)
    BY <2>0, TasksFinite
  <2>2. CASE i = f[t]
    <3>1. B = A \ {t} /\ t \in A
      BY <2>2
    <3>2. Cardinality(A \ {t}) = Cardinality(A) - 1
      <4> HIDE DEF A
      <4> QED  BY <2>1, <3>1, FS_RemoveElement
    <3>3. e[i] = c[i] - 1
      BY <2>2
    <3> QED  BY <2>0, <3>1, <3>2, <3>3
  <2>3. CASE i # f[t]
    <3>1. B = A
      BY <2>3
    <3>2. e[i] = c[i]
      BY <2>3
    <3> QED  BY <2>0, <3>1, <3>2
  <2> QED  BY <2>2, <2>3
<1>2. e \in [Dir -> Int] /\ G \in SUBSET Task
  BY MemoryAssumption
<1>3. Exact(e, G, f)
  BY <1>1 DEF Exact
<1>4. e \in [Dir -> 0 .. NR_TASKS]
  BY <1>2, <1>3, ExactBounded
<1> QED  BY <1>3, <1>4

(* A task that has no reference may change what it would hold.              *)
LEMMA NoReference ==
  ASSUME NEW H \in SUBSET Task, NEW f \in [Task -> Dir], NEW c, Exact(c, H, f),
         NEW t \in Task \ H, NEW j, NEW g, g = [f EXCEPT ![t] = j]
  PROVE  Exact(c, H, g)
<1>1. \A u \in H : g[u] = f[u]
  OBVIOUS
<1>2. \A i \in Dir : {u \in H : g[u] = i} = {u \in H : f[u] = i}
  BY <1>1
<1> QED  BY <1>2 DEF Exact

(* An entry with counter 0 has no holder, and one with counter 1 has one.   *)
LEMMA Holders ==
  ASSUME NEW H \in SUBSET Task, NEW f, NEW c, Exact(c, H, f), NEW i \in Dir
  PROVE  /\ c[i] = 0 => \A t \in H : f[t] # i
         /\ c[i] = 1 => \A t, u \in H : f[t] = i /\ f[u] = i => t = u
         /\ \A t \in H : f[t] = i => c[i] # 0
<1> DEFINE A == {t \in H : f[t] = i}
<1>1. c[i] = Cardinality(A) /\ IsFiniteSet(A)
  <2>1. A \in SUBSET Task
    OBVIOUS
  <2> QED  BY <2>1, TasksFinite DEF Exact
<1>2. \A t \in H : t \in A <=> f[t] = i
  OBVIOUS
<1> HIDE DEF A
<1>3. c[i] = 0 <=> A = {}
  BY <1>1, FS_EmptySet
<1>4. c[i] = 1 => \E x : A = {x}
  BY <1>1, FS_Singleton
<1> QED  BY <1>2, <1>3, <1>4

(* If somebody has no reference there is an entry with counter 0.           *)
LEMMA EntryLeft ==
  ASSUME NEW H \in SUBSET Task, NEW f \in [Task -> Dir], NEW c, Exact(c, H, f),
         NEW t \in Task \ H
  PROVE  \E i \in Dir : c[i] = 0
<1> SUFFICES ASSUME \A i \in Dir : c[i] # 0
             PROVE  FALSE
  OBVIOUS
<1> DEFINE h == [u \in H |-> f[u]]
<1>1. ASSUME NEW i \in Dir
      PROVE  \E u \in H : f[u] = i
  <2> DEFINE A == {u \in H : f[u] = i}
  <2>1. c[i] = Cardinality(A)
    BY DEF Exact
  <2>2. A # {}
    <3> HIDE DEF A
    <3> QED  BY <2>1, FS_EmptySet
  <2> QED  BY <2>2
<1>2. h \in Surjection(H, Dir)
  <2>1. h \in [H -> Dir] /\ \A i \in Dir : \E u \in H : h[u] = i
    BY <1>1
  <2> HIDE DEF h
  <2> QED  BY <2>1 DEF Surjection
<1>3. IsFiniteSet(H) /\ Cardinality(H) \in 0 .. NR_TASKS
  BY TasksFinite
<1>4. Cardinality(Dir) <= Cardinality(H)
  <2> HIDE DEF h
  <2> QED  BY <1>2, <1>3, FS_Surjection
<1>5. Cardinality(H) = Cardinality(Task)
  BY <1>3, <1>4, TasksFinite, MemoryAssumption
<1>6. H = Task
  BY <1>5, TasksFinite, FS_Subset
<1> QED  BY <1>6
-----------------------------------------------------------------------------
(* CountsExact and FramesPrivate, in the form the proofs use.               *)
CountsOK ==
  /\ Exact(assigned_base_dir, DirHolders, dir_pages_baseAddr)
  /\ Exact(pb_counter, PbHolders, program_break)

Own(t, p) == p \in Page \ CodePages /\ used_page(dir_pages_baseAddr[t], p)

FramesOK ==
  ~ reused =>
    /\ \A t \in Live, p \in Page : Own(t, p) => pt[dir_pages_baseAddr[t]][p] \in phys_mem
    /\ \A t, u \in Live, p, q \in Page :
         /\ Own(t, p) /\ Own(u, q)
         /\ pt[dir_pages_baseAddr[t]][p] = pt[dir_pages_baseAddr[u]][q]
         => dir_pages_baseAddr[t] = dir_pages_baseAddr[u] /\ p = q

(* CountsExact, with the sums spelled out.                                   *)
LEMMA CountsParts == CountsExact <=> CountsOK
BY DEF CountsExact, CountsOK, Exact, DirHolders, PbHolders

(* FramesPrivate counts the pages of a frame; FramesOK names the owners.     *)
LEMMA FramesParts == TypeOK /\ TablesOK => (FramesPrivate <=> FramesOK)
<1> SUFFICES ASSUME TypeOK, TablesOK PROVE FramesPrivate <=> FramesOK
  OBVIOUS
<1>1. \A t \in Live : t \in Task /\ dir_pages_baseAddr[t] \in Dir
  BY DEF Live, TypeOK
<1>2. \A t \in Live, p \in Page : Own(t, p) => <<dir_pages_baseAddr[t], p>> \in Mapped
  BY <1>1 DEF Own, Mapped
<1>3. \A m \in Mapped : /\ m = <<m[1], m[2]>> /\ m[2] \in Page /\ m[1] \in Dir
                        /\ \E t \in Live : m[1] = dir_pages_baseAddr[t] /\ Own(t, m[2])
  BY DEF Own, Mapped
<1>4. \A m \in Mapped : pt[m[1]][m[2]] >= NUM_PAG_KERNEL
  <2>1. \A f \in UserFrame : f >= NUM_PAG_KERNEL
    BY DEF UserFrame
  <2>2. \A m \in Mapped : pt[m[1]][m[2]] \in UserFrame
    BY <1>3 DEF TablesOK, Mapped
  <2> QED  BY <2>1, <2>2
<1>5. ASSUME FramesPrivate
      PROVE  FramesOK
  <2> SUFFICES ASSUME ~ reused PROVE FramesOK
    BY DEF FramesOK
  <2>1. /\ \A m \in Mapped : pt[m[1]][m[2]] \in phys_mem
        /\ \A m, n \in Mapped : m # n => pt[m[1]][m[2]] # pt[n[1]][n[2]]
    BY <1>5 DEF FramesPrivate
  <2>2. ASSUME NEW t \in Live, NEW p \in Page, Own(t, p)
        PROVE  pt[dir_pages_baseAddr[t]][p] \in phys_mem
    BY <1>2, <2>1, <2>2
  <2>3. ASSUME NEW t \in Live, NEW u \in Live, NEW p \in Page, NEW q \in Page,
               Own(t, p), Own(u, q),
               pt[dir_pages_baseAddr[t]][p] = pt[dir_pages_baseAddr[u]][q]
        PROVE  dir_pages_baseAddr[t] = dir_pages_baseAddr[u] /\ p = q
    <3> DEFINE m == <<dir_pages_baseAddr[t], p>>
               n == <<dir_pages_baseAddr[u], q>>
    <3>1. m \in Mapped /\ n \in Mapped /\ pt[m[1]][m[2]] = pt[n[1]][n[2]]
      BY <1>2, <2>3
    <3>2. m = n
      BY <2>1, <3>1
    <3> QED  BY <3>2
  <2> QED  BY <2>2, <2>3 DEF FramesOK
<1>6. ASSUME FramesOK
      PROVE  FramesPrivate
  <2> SUFFICES ASSUME ~ reused PROVE FramesPrivate
    BY DEF FramesPrivate
  <2>1. \A m \in Mapped : pt[m[1]][m[2]] \in phys_mem
    BY <1>3, <1>6 DEF FramesOK
  <2>2. ASSUME NEW m \in Mapped, NEW n \in Mapped, pt[m[1]][m[2]] = pt[n[1]][n[2]]
        PROVE  m = n
    <3>1. PICK t \in Live : m[1] = dir_pages_baseAddr[t] /\ Own(t, m[2])
      BY <1>3
    <3>2. PICK u \in Live : n[1] = dir_pages_baseAddr[u] /\ Own(u, n[2])
      BY <1>3
    <3>3. m[1] = n[1] /\ m[2] = n[2]
      BY <1>3, <1>6, <2>2, <3>1, <3>2 DEF FramesOK
    <3> QED  BY <1>3, <3>3
  <2> QED  BY <1>4, <2>1, <2>2 DEF FramesPrivate
<1> QED  BY <1>5, <1>6

(* The invariant, in the parts the proofs use.                               *)
LEMMA MemInvParts ==
  MemInv <=> TypeOK /\ TasksOK /\ CountsOK /\ BreakPerProcess /\ TablesOK /\ FramesOK
BY CountsParts, FramesParts DEF MemInv

(* The same in the next state.                                               *)
LEMMA MemInvPartsNext ==
  MemInv' <=> (TypeOK /\ TasksOK /\ CountsOK /\ BreakPerProcess /\ TablesOK /\ FramesOK)'
BY MemInvParts, PTL
-----------------------------------------------------------------------------
(* The task_struct sys_clone and sys_fork take out of freequeue.            *)
LEMMA FirstTask ==
  ASSUME TypeOK, TasksOK, freequeue # <<>>
  PROVE  /\ new_pcb \in Task /\ new_pcb \in Free /\ new_pcb \notin Live
         /\ new_pcb \notin Lost /\ new_pcb # idle_task /\ abandoned[new_pcb] = "no"
         /\ new_pcb \notin DirHolders /\ new_pcb \notin PbHolders
         /\ Tail(freequeue) \in Seq(Task) /\ IsInjective(Tail(freequeue))
         /\ \A u : u \in ToSet(Tail(freequeue)) <=> u \in Free /\ u # new_pcb
<1>1. freequeue \in Seq(Task) /\ Free = ToSet(freequeue)
  BY DEF TypeOK, Free, ToSet
<1>2. /\ new_pcb \in Task
      /\ Tail(freequeue) \in Seq(Task) /\ IsInjective(Tail(freequeue))
      /\ ToSet(freequeue) = ToSet(Tail(freequeue)) \cup {new_pcb}
      /\ new_pcb \notin ToSet(Tail(freequeue))
  BY <1>1, TailLemma DEF TasksOK, new_pcb
<1>3. new_pcb \in Free /\ \A u : u \in ToSet(Tail(freequeue)) <=> u \in Free /\ u # new_pcb
  BY <1>1, <1>2
<1>4. new_pcb \notin Lost /\ new_pcb # idle_task /\ new_pcb \notin Live
  BY <1>3 DEF TasksOK, Live
<1>5. abandoned[new_pcb] = "no"
  BY <1>2, <1>4 DEF Lost
<1> QED  BY <1>2, <1>3, <1>4, <1>5 DEF DirHolders, PbHolders

(* The task becomes a live one.                                             *)
LEMMA TakeTask ==
  ASSUME TypeOK, TasksOK, freequeue # <<>>, freequeue' = Tail(freequeue), abandoned' = abandoned
  PROVE  /\ TasksOK' /\ freequeue' \in Seq(Task)
         /\ \A u \in Task : u \in Live' <=> u \in Live \/ u = new_pcb
         /\ \A u \in Task : u \in DirHolders' <=> u \in DirHolders \/ u = new_pcb
         /\ \A u \in Task : u \in PbHolders' <=> u \in PbHolders \/ u = new_pcb
         /\ Live' \subseteq Task /\ DirHolders' \subseteq Task /\ PbHolders' \subseteq Task
<1>1. Free' = ToSet(Tail(freequeue)) /\ Lost' = Lost
  BY DEF Free, Lost, ToSet
<1>2. \A u : u \in Free' <=> u \in Free /\ u # new_pcb
  BY <1>1, FirstTask
<1>3. \A u \in Task : u \in Live' <=> u \in Live \/ u = new_pcb
  BY <1>1, <1>2, FirstTask DEF Live
<1>4. TasksOK' /\ freequeue' \in Seq(Task)
  BY <1>1, <1>2, FirstTask DEF TasksOK
<1>5. Live' \subseteq Task /\ idle_task \in Task
  BY MemoryAssumption DEF Live, Task, idle_task
<1> QED  BY <1>3, <1>4, <1>5 DEF DirHolders, PbHolders

(* The fork fails, and leaves the task_struct behind.                       *)
LEMMA LoseTask ==
  ASSUME TypeOK, TasksOK, freequeue # <<>>, freequeue' = Tail(freequeue),
         NEW how \in {"bare", "directory", "break"},
         abandoned' = [abandoned EXCEPT ![new_pcb] = how]
  PROVE  /\ TasksOK' /\ freequeue' \in Seq(Task)
         /\ abandoned' \in [Task -> {"no", "bare", "directory", "break"}]
         /\ Live' = Live
         /\ how = "bare" => DirHolders' = DirHolders
         /\ how # "bare" => \A u \in Task : u \in DirHolders' <=> u \in DirHolders \/ u = new_pcb
         /\ how # "break" => PbHolders' = PbHolders
         /\ how = "break" => \A u \in Task : u \in PbHolders' <=> u \in PbHolders \/ u = new_pcb
         /\ DirHolders' \subseteq Task /\ PbHolders' \subseteq Task
<1>0. /\ abandoned \in [Task -> {"no", "bare", "directory", "break"}]
      /\ new_pcb \in Task /\ abandoned[new_pcb] = "no"
  BY FirstTask DEF TypeOK
<1>1. Free' = ToSet(Tail(freequeue))
  BY DEF Free, ToSet
<1>2. \A u : u \in Free' <=> u \in Free /\ u # new_pcb
  BY <1>1, FirstTask
<1>3. \A u \in Task : abandoned'[u] = IF u = new_pcb THEN how ELSE abandoned[u]
  BY <1>0
<1>4. \A u : u \in Lost' <=> u \in Lost \/ u = new_pcb
  BY <1>0, <1>3 DEF Lost
<1>5. Live' = Live
  BY <1>2, <1>4, FirstTask DEF Live
<1>6. TasksOK' /\ freequeue' \in Seq(Task)
  BY <1>2, <1>4, FirstTask DEF TasksOK
<1>7. abandoned' \in [Task -> {"no", "bare", "directory", "break"}]
  BY <1>0
<1>8. Live \subseteq Task /\ idle_task \in Task
  BY MemoryAssumption DEF Live, Task, idle_task
<1>9. \A u \in Task : /\ u \in DirHolders <=> u \in Live \/ u = idle_task \/ abandoned[u] \in {"directory", "break"}
                      /\ u \in PbHolders <=> u \in Live \/ abandoned[u] = "break"
                      /\ u \in DirHolders' <=> u \in Live \/ u = idle_task \/ abandoned'[u] \in {"directory", "break"}
                      /\ u \in PbHolders' <=> u \in Live \/ abandoned'[u] = "break"
  BY <1>5 DEF DirHolders, PbHolders
<1>10. /\ DirHolders \subseteq Task /\ PbHolders \subseteq Task
       /\ DirHolders' \subseteq Task /\ PbHolders' \subseteq Task
  BY <1>5, <1>8 DEF DirHolders, PbHolders
<1>11. /\ how = "bare" => \A u \in Task : u \in DirHolders' <=> u \in DirHolders
       /\ how # "bare" => \A u \in Task : u \in DirHolders' <=> u \in DirHolders \/ u = new_pcb
       /\ how # "break" => \A u \in Task : u \in PbHolders' <=> u \in PbHolders
       /\ how = "break" => \A u \in Task : u \in PbHolders' <=> u \in PbHolders \/ u = new_pcb
  BY <1>0, <1>3, <1>9
<1>12. /\ how = "bare" => DirHolders' = DirHolders
       /\ how # "break" => PbHolders' = PbHolders
  BY <1>10, <1>11
<1> QED  BY <1>5, <1>6, <1>7, <1>10, <1>11, <1>12

(* A task ends.                                                             *)
LEMMA EndTask ==
  ASSUME TypeOK, TasksOK, NEW t \in Live, freequeue' = Append(freequeue, t),
         abandoned' = abandoned
  PROVE  /\ TasksOK' /\ freequeue' \in Seq(Task)
         /\ t \in DirHolders /\ t \in PbHolders
         /\ \A u \in Task : u \in Live' <=> u \in Live /\ u # t
         /\ \A u \in Task : u \in DirHolders' <=> u \in DirHolders /\ u # t
         /\ \A u \in Task : u \in PbHolders' <=> u \in PbHolders /\ u # t
         /\ Live' \subseteq Task /\ DirHolders' \subseteq Task /\ PbHolders' \subseteq Task
<1>0. freequeue \in Seq(Task) /\ Free = ToSet(freequeue) /\ t \in Task /\ t \notin Free
      /\ t # idle_task /\ t \notin Lost
  BY DEF TypeOK, Free, ToSet, Live
<1>1. /\ Append(freequeue, t) \in Seq(Task)
      /\ ToSet(Append(freequeue, t)) = Free \cup {t}
      /\ IsInjective(Append(freequeue, t))
  BY <1>0, AppendLemma DEF TasksOK
<1>2. Free' = Free \cup {t} /\ Lost' = Lost
  BY <1>1 DEF Free, Lost, ToSet
<1>3. \A u \in Task : u \in Live' <=> u \in Live /\ u # t
  BY <1>2 DEF Live
<1>4. TasksOK' /\ freequeue' \in Seq(Task)
  BY <1>0, <1>1, <1>2 DEF TasksOK
<1>5. Live' \subseteq Task /\ idle_task \in Task
  BY MemoryAssumption DEF Live, Task, idle_task
<1>6. abandoned[t] = "no"
  BY <1>0 DEF Lost
<1> QED  BY <1>0, <1>3, <1>4, <1>5, <1>6 DEF DirHolders, PbHolders
-----------------------------------------------------------------------------
(* The pages of a table T in the set new get frames alloc_frame has found   *)
(* for them, and not one frame for two of them.                             *)
FreshIn(T, new) ==
  /\ \A p \in new : T[p] \in FreeFrames
  /\ \A p, q \in new : T[p] = T[q] => p = q

(* The table of directory d becomes T, and nothing else changes in pt.      *)
TableSet(d, T) == pt' = [pt EXCEPT ![d] = T]

(* If a directory that is in use or empty gets more pages, and its table is *)
(* otherwise as it was, processes still share no frame.                     *)
LEMMA MapFrames ==
  ASSUME TypeOK, TablesOK, FramesOK, reused => reused',
         NEW d \in Dir, NEW T \in [Page -> Frame], TableSet(d, T),
         NEW new \in SUBSET Page, FreshIn(T, new),
         \A p \in Page \ CodePages : p \notin new => T[p] = pt[d][p],
         phys_mem \subseteq phys_mem',
         \A u \in Live' : dir_pages_baseAddr'[u] = d => \A p \in new : T[p] \in phys_mem',
         reused' \/ (\E t \in Live : dir_pages_baseAddr[t] = d) \/ (\A p \in Page : ~ used_page(d, p)),
         \A u \in Live' : \/ dir_pages_baseAddr'[u] = d
                          \/ u \in Live /\ dir_pages_baseAddr'[u] = dir_pages_baseAddr[u]
  PROVE  FramesOK'
<1> SUFFICES ASSUME ~ reused'
             PROVE  (/\ \A t \in Live, p \in Page :
                          Own(t, p) => pt[dir_pages_baseAddr[t]][p] \in phys_mem
                     /\ \A t, u \in Live, p, q \in Page :
                          /\ Own(t, p) /\ Own(u, q)
                          /\ pt[dir_pages_baseAddr[t]][p] = pt[dir_pages_baseAddr[u]][q]
                          => dir_pages_baseAddr[t] = dir_pages_baseAddr[u] /\ p = q)'
  BY DEF FramesOK
<1> DEFINE where(u) == dir_pages_baseAddr'[u]
<1>0. /\ pt \in [Dir -> [Page -> Frame]]
      /\ \A u \in Live : dir_pages_baseAddr[u] \in Dir
  BY DEF TypeOK, Live
<1>1. /\ pt'[d] = T
      /\ \A c \in Dir : c # d => pt'[c] = pt[c]
  BY <1>0 DEF TableSet
<1>2. ASSUME NEW u \in Live', NEW p \in Page, Own(u, p)'
      PROVE  /\ p \notin CodePages /\ pt'[where(u)][p] # CLEAR_PAGE /\ where(u) \in Dir
             /\ \/ /\ where(u) = d /\ p \in new
                   /\ pt'[where(u)][p] \in FreeFrames /\ pt'[where(u)][p] \in phys_mem'
                \/ /\ ~ (where(u) = d /\ p \in new)
                   /\ pt'[where(u)][p] = pt[where(u)][p]
                   /\ \E t \in Live : dir_pages_baseAddr[t] = where(u)
  <2>1. p \notin CodePages /\ pt'[where(u)][p] # CLEAR_PAGE
    BY <1>2 DEF Own, used_page
  <2>2. CASE where(u) = d /\ p \in new
    BY <1>1, <2>1, <2>2 DEF FreshIn
  <2>3. CASE where(u) = d /\ p \notin new
    <3>1. pt'[where(u)][p] = pt[where(u)][p]
      BY <1>1, <2>1, <2>3
    <3> QED  BY <2>1, <2>3, <3>1 DEF used_page
  <2>4. CASE where(u) # d
    BY <1>0, <1>1, <2>1, <2>4
  <2> QED  BY <2>2, <2>3, <2>4
<1>3. FreeFrames \cap phys_mem = {}
  BY DEF FreeFrames
<1>4. /\ \A t \in Live, p \in Page : Own(t, p) => pt[dir_pages_baseAddr[t]][p] \in phys_mem
      /\ \A t, u \in Live, p, q \in Page :
           /\ Own(t, p) /\ Own(u, q)
           /\ pt[dir_pages_baseAddr[t]][p] = pt[dir_pages_baseAddr[u]][q]
           => dir_pages_baseAddr[t] = dir_pages_baseAddr[u] /\ p = q
  BY DEF FramesOK
<1>5. ASSUME NEW t \in Live, NEW p \in Page, p \notin CodePages,
             pt[dir_pages_baseAddr[t]][p] # CLEAR_PAGE
      PROVE  Own(t, p)
  BY <1>5 DEF Own, used_page
<1>6. ASSUME NEW u \in Live', NEW p \in Page, Own(u, p)'
      PROVE  pt'[where(u)][p] \in phys_mem'
  <2>1. CASE where(u) = d /\ p \in new
    BY <1>2, <1>6, <2>1
  <2>2. CASE ~ (where(u) = d /\ p \in new)
    <3> PICK t \in Live : dir_pages_baseAddr[t] = where(u)
      BY <1>2, <1>6, <2>2
    <3> QED  BY <1>2, <1>4, <1>5, <1>6, <2>2
  <2> QED  BY <2>1, <2>2
<1>7. ASSUME NEW u \in Live', NEW v \in Live', NEW p \in Page, NEW q \in Page,
             Own(u, p)', Own(v, q)', pt'[where(u)][p] = pt'[where(v)][q]
      PROVE  where(u) = where(v) /\ p = q
  <2>1. CASE where(u) = d /\ p \in new /\ where(v) = d /\ q \in new
    BY <1>1, <1>7, <2>1 DEF FreshIn
  <2>2. CASE where(u) = d /\ p \in new /\ ~ (where(v) = d /\ q \in new)
    <3> PICK t \in Live : dir_pages_baseAddr[t] = where(v)
      BY <1>2, <1>7, <2>2
    <3>1. pt'[where(v)][q] \in phys_mem
      BY <1>2, <1>4, <1>5, <1>7, <2>2
    <3>2. pt'[where(u)][p] \in FreeFrames
      BY <1>2, <1>7, <2>2
    <3> QED  BY <1>3, <1>7, <3>1, <3>2
  <2>3. CASE ~ (where(u) = d /\ p \in new) /\ where(v) = d /\ q \in new
    <3> PICK t \in Live : dir_pages_baseAddr[t] = where(u)
      BY <1>2, <1>7, <2>3
    <3>1. pt'[where(u)][p] \in phys_mem
      BY <1>2, <1>4, <1>5, <1>7, <2>3
    <3>2. pt'[where(v)][q] \in FreeFrames
      BY <1>2, <1>7, <2>3
    <3> QED  BY <1>3, <1>7, <3>1, <3>2
  <2>4. CASE ~ (where(u) = d /\ p \in new) /\ ~ (where(v) = d /\ q \in new)
    <3>1. PICK t \in Live : dir_pages_baseAddr[t] = where(u)
      BY <1>2, <1>7, <2>4
    <3>2. PICK s \in Live : dir_pages_baseAddr[s] = where(v)
      BY <1>2, <1>7, <2>4
    <3>3. /\ pt'[where(u)][p] = pt[where(u)][p] /\ p \notin CodePages /\ pt'[where(u)][p] # CLEAR_PAGE
          /\ pt'[where(v)][q] = pt[where(v)][q] /\ q \notin CodePages /\ pt'[where(v)][q] # CLEAR_PAGE
      BY <1>2, <1>7, <2>4
    <3>4. Own(t, p) /\ Own(s, q)
      BY <1>5, <3>1, <3>2, <3>3
    <3>5. pt[dir_pages_baseAddr[t]][p] = pt[dir_pages_baseAddr[s]][q]
      BY <1>7, <3>1, <3>2, <3>3
    <3>6. dir_pages_baseAddr[t] = dir_pages_baseAddr[s] /\ p = q
      BY <1>4, <3>4, <3>5
    <3> QED  BY <3>1, <3>2, <3>6
  <2> QED  BY <2>1, <2>2, <2>3, <2>4
<1> QED  BY <1>6, <1>7

(* The new table T of directory d maps user frames only, and what every     *)
(* process has.                                                             *)
LEMMA MapTables ==
  ASSUME TypeOK, TablesOK,
         NEW d \in Dir, NEW T \in [Page -> Frame], TableSet(d, T),
         \A p \in Page : T[p] # CLEAR_PAGE => T[p] \in UserFrame,
         \A p \in CodePages : T[p] # CLEAR_PAGE,
         \A u \in Live' : dir_pages_baseAddr'[u] = d => \A p \in DataPages : T[p] # CLEAR_PAGE,
         \A u \in Live' : \/ dir_pages_baseAddr'[u] = d
                          \/ u \in Live /\ dir_pages_baseAddr'[u] = dir_pages_baseAddr[u]
  PROVE  TablesOK'
<1>0. /\ pt \in [Dir -> [Page -> Frame]]
      /\ \A u \in Live : dir_pages_baseAddr[u] \in Dir
      /\ 0 \in CodePages /\ CodePages \subseteq Page /\ DataPages \subseteq Page
  BY MemoryAssumption DEF TypeOK, Live, CodePages, DataPages, USR_P_HEAPSTART, Page
<1>1. /\ pt'[d] = T
      /\ \A c \in Dir : c # d => pt'[c] = pt[c]
  BY <1>0 DEF TableSet
<1>2. ASSUME NEW c \in Dir, NEW p \in Page
      PROVE  pt'[c][p] # CLEAR_PAGE => pt'[c][p] \in UserFrame
  BY <1>1 DEF TablesOK, used_page
<1>3. ASSUME NEW c \in Dir, pt'[c][0] = CLEAR_PAGE
      PROVE  \A p \in Page : pt'[c][p] = CLEAR_PAGE
  BY <1>0, <1>1, <1>3 DEF TablesOK, used_page
<1>4. ASSUME NEW u \in Live', NEW p \in CodePages \cup DataPages
      PROVE  pt'[dir_pages_baseAddr'[u]][p] # CLEAR_PAGE
  BY <1>0, <1>1 DEF TablesOK, used_page
<1> QED  BY <1>2, <1>3, <1>4 DEF TablesOK, used_page

(* Giving back the frames of pages that nobody sees any more leaves the     *)
(* frames of the other processes alone.                                     *)
Unmaps(t, d, dropped) ==
  /\ t \in Live /\ d = dir_pages_baseAddr[t]
  /\ dropped \in SUBSET (Page \ CodePages)
  /\ phys_mem' = free_frames({pt[d][p] : p \in dropped})
  /\ \A c \in Dir, p \in Page : pt'[c][p] = pt[c][p] \/ pt'[c][p] = CLEAR_PAGE
  /\ \A u \in Live' : u \in Live /\ dir_pages_baseAddr'[u] = dir_pages_baseAddr[u]
  /\ \A u \in Live', p \in dropped : dir_pages_baseAddr[u] = d => pt'[d][p] = CLEAR_PAGE

(* Then what the live tasks share remains only code.                        *)
LEMMA UnmapFrames ==
  ASSUME TypeOK, FramesOK, reused => reused', NEW t, NEW d, NEW dropped, Unmaps(t, d, dropped)
  PROVE  FramesOK'
<1> USE DEF Unmaps
<1>0. \A u \in Live : dir_pages_baseAddr[u] \in Dir
  BY DEF TypeOK, Live
<1>1. ASSUME NEW u \in Live', NEW p \in Page, Own(u, p)'
      PROVE  /\ u \in Live /\ Own(u, p)
             /\ dir_pages_baseAddr'[u] = dir_pages_baseAddr[u]
             /\ pt'[dir_pages_baseAddr[u]][p] = pt[dir_pages_baseAddr[u]][p]
             /\ pt'[dir_pages_baseAddr[u]][p] # CLEAR_PAGE
  BY <1>0, <1>1 DEF Own, used_page
<1> SUFFICES ASSUME ~ reused'
             PROVE  (/\ \A u \in Live, p \in Page :
                          Own(u, p) => pt[dir_pages_baseAddr[u]][p] \in phys_mem
                     /\ \A u, v \in Live, p, q \in Page :
                          /\ Own(u, p) /\ Own(v, q)
                          /\ pt[dir_pages_baseAddr[u]][p] = pt[dir_pages_baseAddr[v]][q]
                          => dir_pages_baseAddr[u] = dir_pages_baseAddr[v] /\ p = q)'
  BY DEF FramesOK
<1>2. /\ \A u \in Live, p \in Page : Own(u, p) => pt[dir_pages_baseAddr[u]][p] \in phys_mem
      /\ \A u, v \in Live, p, q \in Page :
           /\ Own(u, p) /\ Own(v, q)
           /\ pt[dir_pages_baseAddr[u]][p] = pt[dir_pages_baseAddr[v]][q]
           => dir_pages_baseAddr[u] = dir_pages_baseAddr[v] /\ p = q
  BY DEF FramesOK
<1>3. ASSUME NEW u \in Live', NEW p \in Page, Own(u, p)'
      PROVE  pt'[dir_pages_baseAddr'[u]][p] \in phys_mem'
  <2> DEFINE f == pt[dir_pages_baseAddr[u]][p]
  <2>1. f \in phys_mem
    BY <1>1, <1>2, <1>3
  <2>2. ASSUME NEW q \in dropped, f = pt[d][q]
        PROVE  FALSE
    <3>1. Own(t, q)
      BY <1>1, <1>3, <2>2 DEF Own, used_page
    <3>2. dir_pages_baseAddr[u] = d /\ p = q
      BY <1>1, <1>2, <1>3, <2>2, <3>1
    <3> QED  BY <1>1, <1>3, <3>2
  <2>3. f \in phys_mem'
    BY <2>1, <2>2 DEF free_frames
  <2> QED  BY <1>1, <1>3, <2>3
<1>4. ASSUME NEW u \in Live', NEW v \in Live', NEW p \in Page, NEW q \in Page,
             Own(u, p)', Own(v, q)',
             pt'[dir_pages_baseAddr'[u]][p] = pt'[dir_pages_baseAddr'[v]][q]
      PROVE  dir_pages_baseAddr'[u] = dir_pages_baseAddr'[v] /\ p = q
  <2>1. /\ Own(u, p) /\ Own(v, q) /\ u \in Live /\ v \in Live
        /\ pt[dir_pages_baseAddr[u]][p] = pt[dir_pages_baseAddr[v]][q]
    BY <1>1, <1>4
  <2>2. dir_pages_baseAddr[u] = dir_pages_baseAddr[v] /\ p = q
    BY <1>2, <2>1
  <2> QED  BY <1>1, <1>4, <2>2
<1> QED  BY <1>3, <1>4
-----------------------------------------------------------------------------
(* A live task has a directory and a program break.                         *)
LEMMA LiveTask ==
  ASSUME TypeOK, NEW t \in Live
  PROVE  /\ t \in Task /\ t \in DirHolders /\ t \in PbHolders
         /\ dir_pages_baseAddr[t] \in Dir /\ program_break[t] \in Dir
         /\ parent_break(t) \in 0 .. AddressSpace - 1
BY DEF TypeOK, Live, DirHolders, PbHolders, parent_break

(* Only task_structs hold references.                                        *)
LEMMA HoldersAreTasks ==
  DirHolders \in SUBSET Task /\ PbHolders \in SUBSET Task
BY MemoryAssumption DEF DirHolders, PbHolders, Live, Task, idle_task

(* What sys_fork finds in the tables is used by nobody.                     *)
LEMMA EntriesFound ==
  ASSUME TypeOK, TasksOK, CountsOK, freequeue # <<>>
  PROVE  /\ new_dir \in Dir /\ assigned_base_dir[new_dir] = 0
         /\ new_pb \in Dir /\ pb_counter[new_pb] = 0
         /\ \A u \in Live : dir_pages_baseAddr[u] # new_dir /\ program_break[u] # new_pb
         /\ \E i \in Dir : assigned_base_dir[i] = 0
         /\ \E i \in Dir : pb_counter[i] = 0
<1>1. new_pcb \in Task \ DirHolders /\ new_pcb \in Task \ PbHolders
  BY FirstTask
<1>2. dir_pages_baseAddr \in [Task -> Dir] /\ program_break \in [Task -> Dir]
  BY DEF TypeOK
<1>3. \E i \in Dir : assigned_base_dir[i] = 0
  BY <1>1, <1>2, HoldersAreTasks, EntryLeft DEF CountsOK
<1>4. \E i \in Dir : pb_counter[i] = 0
  BY <1>1, <1>2, HoldersAreTasks, EntryLeft DEF CountsOK
<1>5. /\ new_dir \in Dir /\ assigned_base_dir[new_dir] = 0
      /\ new_pb \in Dir /\ pb_counter[new_pb] = 0
  BY <1>3, <1>4, FirstFreeLemma DEF new_dir, new_pb
<1>6. \A u \in DirHolders : dir_pages_baseAddr[u] # new_dir
  BY <1>5, HoldersAreTasks, Holders DEF CountsOK
<1>7. \A u \in PbHolders : program_break[u] # new_pb
  BY <1>5, HoldersAreTasks, Holders DEF CountsOK
<1> QED  BY <1>3, <1>4, <1>5, <1>6, <1>7, LiveTask

(* If no table changes and every live task uses a directory that one used,  *)
(* nothing is shared that was not.                                          *)
LEMMA SameTables ==
  ASSUME TypeOK, TablesOK, FramesOK, pt' = pt, phys_mem' = phys_mem, reused => reused',
         \A u \in Live' : \E s \in Live : dir_pages_baseAddr'[u] = dir_pages_baseAddr[s]
  PROVE  TablesOK' /\ FramesOK'
<1>1. TablesOK'
  BY DEF TablesOK, used_page
<1>2. ASSUME NEW u \in Live', NEW p \in Page, Own(u, p)'
      PROVE  \E s \in Live : Own(s, p) /\ dir_pages_baseAddr'[u] = dir_pages_baseAddr[s]
  BY <1>2 DEF Own, used_page
<1>3. ASSUME ~ reused'
      PROVE  (/\ \A t \in Live, p \in Page : Own(t, p) => pt[dir_pages_baseAddr[t]][p] \in phys_mem
              /\ \A t, u \in Live, p, q \in Page :
                   /\ Own(t, p) /\ Own(u, q)
                   /\ pt[dir_pages_baseAddr[t]][p] = pt[dir_pages_baseAddr[u]][q]
                   => dir_pages_baseAddr[t] = dir_pages_baseAddr[u] /\ p = q)'
  <2>1. /\ \A t \in Live, p \in Page : Own(t, p) => pt[dir_pages_baseAddr[t]][p] \in phys_mem
        /\ \A t, u \in Live, p, q \in Page :
             /\ Own(t, p) /\ Own(u, q)
             /\ pt[dir_pages_baseAddr[t]][p] = pt[dir_pages_baseAddr[u]][q]
             => dir_pages_baseAddr[t] = dir_pages_baseAddr[u] /\ p = q
    BY <1>3 DEF FramesOK
  <2>2. ASSUME NEW u \in Live', NEW p \in Page, Own(u, p)'
        PROVE  pt'[dir_pages_baseAddr'[u]][p] \in phys_mem'
    BY <1>2, <2>1, <2>2
  <2>3. ASSUME NEW u \in Live', NEW v \in Live', NEW p \in Page, NEW q \in Page,
               Own(u, p)', Own(v, q)',
               pt'[dir_pages_baseAddr'[u]][p] = pt'[dir_pages_baseAddr'[v]][q]
        PROVE  dir_pages_baseAddr'[u] = dir_pages_baseAddr'[v] /\ p = q
    <3>1. PICK r \in Live : Own(r, p) /\ dir_pages_baseAddr'[u] = dir_pages_baseAddr[r]
      BY <1>2, <2>3
    <3>2. PICK s \in Live : Own(s, q) /\ dir_pages_baseAddr'[v] = dir_pages_baseAddr[s]
      BY <1>2, <2>3
    <3>3. pt[dir_pages_baseAddr[r]][p] = pt[dir_pages_baseAddr[s]][q]
      BY <2>3, <3>1, <3>2
    <3>4. dir_pages_baseAddr[r] = dir_pages_baseAddr[s] /\ p = q
      BY <2>1, <3>1, <3>2, <3>3
    <3> QED  BY <3>1, <3>2, <3>4
  <2> QED  BY <2>2, <2>3
<1> QED  BY <1>1, <1>3 DEF FramesOK
-----------------------------------------------------------------------------
(* A store changes what is in the frames, and nothing else.                 *)
LEMMA MemStore ==
  ASSUME MemInv, NEW t \in Live, NEW p \in Page, NEW b \in Byte, store(t, p, b)
  PROVE  MemInv'
<1>1. TypeOK /\ TasksOK /\ CountsOK /\ BreakPerProcess /\ TablesOK /\ FramesOK
  BY MemInvParts
<1>2. UNCHANGED <<freequeue, abandoned, phys_mem, pt, program_breaks, assigned_base_dir,
                  pb_counter, dir_pages_baseAddr, program_break, reused>>
  BY DEF store, tableVars
<1>3. Live' = Live /\ Lost' = Lost /\ Free' = Free
  BY <1>2 DEF Live, Lost, Free
<1>4. TypeOK'
  BY <1>1, <1>2 DEF TypeOK, store
<1>5. TasksOK'
  BY <1>1, <1>2, <1>3 DEF TasksOK
<1>6. CountsOK'
  BY <1>1, <1>2, <1>3 DEF CountsOK, Exact, DirHolders, PbHolders
<1>7. BreakPerProcess'
  BY <1>1, <1>2, <1>3 DEF BreakPerProcess
<1>8. TablesOK' /\ FramesOK'
  BY <1>1, <1>2, <1>3, SameTables
<1> QED  BY <1>4, <1>5, <1>6, <1>7, <1>8, MemInvPartsNext

(* A thread has the directory and the break of the task that creates it.    *)
LEMMA MemClone ==
  ASSUME MemInv, NEW t \in Live, sys_clone(t)
  PROVE  MemInv'
<1>1. TypeOK /\ TasksOK /\ CountsOK /\ BreakPerProcess /\ TablesOK /\ FramesOK
  BY MemInvParts
<1>2. /\ freequeue # <<>> /\ freequeue' = Tail(freequeue)
      /\ dir_pages_baseAddr' = [dir_pages_baseAddr EXCEPT ![new_pcb] = dir_pages_baseAddr[t]]
      /\ program_break' = [program_break EXCEPT ![new_pcb] = program_break[t]]
      /\ assigned_base_dir' = [assigned_base_dir EXCEPT
             ![dir_pages_baseAddr[t]] = assigned_base_dir[dir_pages_baseAddr[t]] + 1]
      /\ pb_counter' = [pb_counter EXCEPT ![program_break[t]] = pb_counter[program_break[t]] + 1]
      /\ UNCHANGED <<abandoned, phys_mem, pt, program_breaks, contents, reused>>
  BY DEF sys_clone, new_pcb
<1>3. /\ TasksOK' /\ freequeue' \in Seq(Task)
      /\ \A u \in Task : u \in Live' <=> u \in Live \/ u = new_pcb
      /\ \A u \in Task : u \in DirHolders' <=> u \in DirHolders \/ u = new_pcb
      /\ \A u \in Task : u \in PbHolders' <=> u \in PbHolders \/ u = new_pcb
      /\ Live' \subseteq Task /\ DirHolders' \subseteq Task /\ PbHolders' \subseteq Task
  BY <1>1, <1>2, TakeTask
<1>4. /\ new_pcb \in Task /\ new_pcb \notin Live
      /\ new_pcb \in Task \ DirHolders /\ new_pcb \in Task \ PbHolders
  BY <1>1, <1>2, FirstTask
<1>5. /\ dir_pages_baseAddr \in [Task -> Dir] /\ program_break \in [Task -> Dir]
      /\ assigned_base_dir \in [Dir -> 0 .. NR_TASKS] /\ pb_counter \in [Dir -> 0 .. NR_TASKS]
      /\ t \in Task /\ dir_pages_baseAddr[t] \in Dir /\ program_break[t] \in Dir
  BY <1>1, LiveTask DEF TypeOK
<1>6. Exact(assigned_base_dir', DirHolders', dir_pages_baseAddr')
      /\ assigned_base_dir' \in [Dir -> 0 .. NR_TASKS]
  <2>1. Takes(new_pcb, dir_pages_baseAddr[t], assigned_base_dir, DirHolders, dir_pages_baseAddr,
              assigned_base_dir', DirHolders', dir_pages_baseAddr')
    BY <1>1, <1>2, <1>3, <1>4, <1>5, HoldersAreTasks DEF CountsOK, Takes
  <2> QED  BY <2>1, TakeReference
<1>7. Exact(pb_counter', PbHolders', program_break') /\ pb_counter' \in [Dir -> 0 .. NR_TASKS]
  <2>1. Takes(new_pcb, program_break[t], pb_counter, PbHolders, program_break,
              pb_counter', PbHolders', program_break')
    BY <1>1, <1>2, <1>3, <1>4, <1>5, HoldersAreTasks DEF CountsOK, Takes
  <2> QED  BY <2>1, TakeReference
<1>8. \A u \in Live' : \E s \in Live : /\ dir_pages_baseAddr'[u] = dir_pages_baseAddr[s]
                                       /\ program_break'[u] = program_break[s]
  BY <1>2, <1>3, <1>4, <1>5
<1>9. TypeOK'
  BY <1>1, <1>2, <1>3, <1>5, <1>6, <1>7 DEF TypeOK
<1>10. BreakPerProcess'
  BY <1>1, <1>8 DEF BreakPerProcess
<1>11. TablesOK' /\ FramesOK'
  BY <1>1, <1>2, <1>8, SameTables
<1>12. CountsOK'
  BY <1>6, <1>7 DEF CountsOK
<1> QED  BY <1>3, <1>9, <1>10, <1>11, <1>12, MemInvPartsNext
-----------------------------------------------------------------------------
(* The table of the child, when the pages mapped of its heap have frames.   *)
ForkTable(t, heap, mapped) ==
  [p \in Page |-> IF p \in mapped THEN HeapFrame(p, heap) ELSE ChildTable(t)[p]]

(* T is that table, for a task t that forks and a heap whose pages in       *)
(* mapped have frames.                                                      *)
IsForkTable(T, t, heap, mapped) ==
  /\ t \in Live /\ new_dir \in Dir
  /\ heap \subseteq HeapPages /\ mapped \subseteq heap
  /\ EnoughFrames(NUM_PAG_DATA)
  /\ \A p \in mapped : EnoughFrames(NUM_PAG_DATA + Rank(p, heap))
  /\ T = ForkTable(t, heap, mapped)

(* Such a table maps the code, has frames of its own for data and heap, and *)
(* maps user frames only.                                                   *)
MapsChild(T, t, mapped) ==
  /\ T \in [Page -> Frame]
  /\ FreshIn(T, DataPages \cup mapped)
  /\ \A p \in Page \ CodePages : p \notin DataPages \cup mapped => T[p] = pt[new_dir][p]
  /\ \A p \in Page : T[p] # CLEAR_PAGE => T[p] \in UserFrame
  /\ \A p \in CodePages \cup DataPages : T[p] # CLEAR_PAGE
  /\ \A p \in DataPages : T[p] \in DataFrames /\ T[p] = ChildTable(t)[p]

(* The ranges of pages follow each other, and page 0 is the first of code.  *)
LEMMA PageRanges ==
  /\ CodePages \subseteq Page /\ DataPages \subseteq Page /\ HeapPages \subseteq Page
  /\ CodePages \cap DataPages = {} /\ HeapPages \cap DataPages = {}
  /\ HeapPages \cap CodePages = {} /\ 0 \in CodePages
  /\ Page = CodePages \cup DataPages \cup HeapPages
  /\ \A p \in DataPages : p - NUM_PAG_CODE + 1 \in 1 .. NUM_PAG_DATA
BY MemoryAssumption DEF CodePages, DataPages, HeapPages, Page, USR_P_HEAPSTART

(* The entries of the child: those of code are the parent's, those of data  *)
(* and heap have frames of their own, all user frames.                      *)
LEMMA ForkTableLemma ==
  ASSUME TypeOK, TablesOK, NEW t, NEW heap, NEW mapped, NEW T, IsForkTable(T, t, heap, mapped)
  PROVE  MapsChild(T, t, mapped)
<1> DEFINE n(p) == IF p \in mapped THEN NUM_PAG_DATA + Rank(p, heap) ELSE p - NUM_PAG_CODE + 1
           new == DataPages \cup mapped
<1> USE DEF IsForkTable
<1>0. /\ pt \in [Dir -> [Page -> Frame]] /\ dir_pages_baseAddr[t] \in Dir
      /\ new \subseteq Page /\ new \cap CodePages = {} /\ mapped \cap DataPages = {}
      /\ mapped \cap CodePages = {}
      /\ NUM_PAG_DATA \in Nat /\ NUM_PAG_CODE \in Nat
  BY LiveTask, PageRanges, MemoryAssumption DEF TypeOK
<1>1. \A p, q \in mapped : /\ Rank(p, heap) \in Nat \ {0}
                           /\ Rank(p, heap) = Rank(q, heap) => p = q
  BY PageRanges, RankLemma
<1>2. ASSUME NEW p \in new
      PROVE  n(p) \in Nat \ {0} /\ EnoughFrames(n(p)) /\ T[p] = alloc_frame(n(p))
  <2>1. CASE p \in mapped
    <3>1. T[p] = HeapFrame(p, heap)
      BY <1>0, <2>1 DEF ForkTable
    <3> QED  BY <1>0, <1>1, <2>1, <3>1 DEF HeapFrame
  <2>2. CASE p \notin mapped
    <3>1. p \in DataPages /\ p \in Page /\ p \notin CodePages
      BY <1>0, <2>2
    <3>2. T[p] = ChildTable(t)[p]
      BY <2>2, <3>1 DEF ForkTable
    <3>3. T[p] = alloc_frame(p - NUM_PAG_CODE + 1)
      BY <3>1, <3>2 DEF ChildTable
    <3>4. p - NUM_PAG_CODE + 1 \in 1 .. NUM_PAG_DATA
      BY <3>1, PageRanges
    <3>5. EnoughFrames(p - NUM_PAG_CODE + 1)
      BY <1>0, <3>4, EnoughForLess
    <3> QED  BY <1>0, <2>2, <3>3, <3>4, <3>5
  <2> QED  BY <2>1, <2>2
<1>3. ASSUME NEW p \in new, NEW q \in new, n(p) = n(q)
      PROVE  p = q
  <2>1. \A r \in new : r \notin mapped => r \in DataPages /\ n(r) \in 1 .. NUM_PAG_DATA
    BY PageRanges
  <2>2. \A r \in mapped : n(r) > NUM_PAG_DATA
    BY <1>0, <1>1
  <2>3. p \in mapped <=> q \in mapped
    BY <1>0, <1>3, <2>1, <2>2
  <2>4. CASE p \in mapped
    BY <1>0, <1>1, <1>3, <2>3, <2>4
  <2>5. CASE p \notin mapped
    <3>1. p \in Int /\ q \in Int
      BY <1>0 DEF Page
    <3> QED  BY <1>0, <1>3, <2>3, <2>5, <3>1
  <2> QED  BY <2>4, <2>5
<1> HIDE DEF n, new
<1>4. FreshIn(T, new)
  <2>1. \A p \in new : T[p] \in FreeFrames
    BY <1>2, AllocFrame
  <2>2. ASSUME NEW p \in new, NEW q \in new, T[p] = T[q]
        PROVE  p = q
    <3>1. n(p) = n(q)
      BY <1>2, <2>2, AllocDiffers
    <3> QED  BY <1>3, <3>1
  <2> QED  BY <2>1, <2>2 DEF FreshIn
<1>5. \A p \in CodePages : T[p] = pt[dir_pages_baseAddr[t]][p] /\ T[p] # CLEAR_PAGE
  BY <1>0, PageRanges DEF ForkTable, ChildTable, TablesOK, used_page
<1>6. \A p \in Page \ CodePages : p \notin new => T[p] = pt[new_dir][p]
  BY DEF ForkTable, ChildTable, new
<1>7. \A p \in new : T[p] \in UserFrame /\ T[p] # CLEAR_PAGE
  BY <1>4, FreeFramesFinite DEF FreshIn, FreeFrames
<1>8. \A p \in Page : T[p] # CLEAR_PAGE => T[p] \in UserFrame
  BY <1>0, <1>5, <1>6, <1>7 DEF TablesOK, used_page
<1>9. \A p \in Page : T[p] \in Frame
  <2>1. \A c \in Dir, p \in Page : pt[c][p] \in Frame
    BY <1>0
  <2>2. \A p \in CodePages : p \in Page => T[p] \in Frame
    BY <1>0, <1>5, <2>1
  <2>3. \A p \in Page \ CodePages : p \notin new => T[p] \in Frame
    BY <1>6, <2>1
  <2> QED  BY <1>7, <2>2, <2>3, FreeFramesFinite
<1>10. T \in [Page -> Frame]
  <2>1. T = [p \in Page |-> T[p]]
    BY DEF ForkTable
  <2> QED  BY <1>9, <2>1
<1>11. \A p \in DataPages : T[p] \in DataFrames /\ T[p] = ChildTable(t)[p]
  <2>1. \A p \in DataPages : T[p] = ChildTable(t)[p]
    BY <1>0, PageRanges DEF ForkTable
  <2>2. \A p \in DataPages : ChildTable(t)[p] = alloc_frame(p - NUM_PAG_CODE + 1)
    BY <1>0, PageRanges DEF ChildTable
  <2>3. \A p \in DataPages : p - NUM_PAG_CODE + 1 \in 1 .. NUM_PAG_DATA
    BY PageRanges
  <2> QED  BY <2>1, <2>2, <2>3 DEF DataFrames
<1> QED  BY <1>4, <1>5, <1>6, <1>7, <1>8, <1>10, <1>11 DEF new, MapsChild

(* What a fork does to the tables, whether it then succeeds or not.         *)
LEMMA ForkMaps ==
  ASSUME TypeOK, TasksOK, CountsOK, TablesOK, FramesOK, freequeue # <<>>,
         NEW t, NEW heap, NEW mapped, NEW T, IsForkTable(T, t, heap, mapped),
         TakeDirectory(t), TableSet(new_dir, T),
         phys_mem \cup DataFrames \subseteq phys_mem',
         \A u \in Live' : \/ u \in Live
                          \/ u = new_pcb /\ \A p \in mapped : HeapFrame(p, heap) \in phys_mem'
  PROVE  /\ TablesOK' /\ FramesOK'
         /\ pt' \in [Dir -> [Page -> Frame]]
         /\ dir_pages_baseAddr' \in [Task -> Dir]
         /\ reused' \in BOOLEAN
<1>0. /\ pt \in [Dir -> [Page -> Frame]]
      /\ dir_pages_baseAddr \in [Task -> Dir] /\ reused \in BOOLEAN
  BY DEF TypeOK
<1>1. /\ new_dir \in Dir /\ new_pcb \in Task /\ new_pcb \notin Live
      /\ \A u \in Live : u \in Task /\ dir_pages_baseAddr[u] # new_dir
  BY EntriesFound, FirstTask, LiveTask
<1>2. /\ dir_pages_baseAddr' = [dir_pages_baseAddr EXCEPT ![new_pcb] = new_dir]
      /\ reused' = (reused \/ pt[new_dir][0] # CLEAR_PAGE)
  BY DEF TakeDirectory
<1>3. /\ T \in [Page -> Frame]
      /\ FreshIn(T, DataPages \cup mapped)
      /\ \A p \in Page \ CodePages : p \notin DataPages \cup mapped => T[p] = pt[new_dir][p]
      /\ \A p \in Page : T[p] # CLEAR_PAGE => T[p] \in UserFrame
      /\ \A p \in CodePages \cup DataPages : T[p] # CLEAR_PAGE
      /\ \A p \in DataPages : T[p] \in DataFrames
      /\ \A p \in mapped : T[p] = HeapFrame(p, heap)
  <2>1. MapsChild(T, t, mapped)
    BY ForkTableLemma
  <2>2. \A p \in mapped : T[p] = HeapFrame(p, heap)
    BY PageRanges DEF IsForkTable, ForkTable
  <2> QED  BY <2>1, <2>2 DEF MapsChild
<1>4. \A u \in Live' : \/ dir_pages_baseAddr'[u] = new_dir
                       \/ u \in Live /\ dir_pages_baseAddr'[u] = dir_pages_baseAddr[u]
  BY <1>0, <1>1, <1>2
<1>5. ASSUME NEW u \in Live', dir_pages_baseAddr'[u] = new_dir
      PROVE  \A p \in DataPages \cup mapped : T[p] \in phys_mem'
  <2>1. u = new_pcb
    <3>1. u \in Live => dir_pages_baseAddr'[u] = dir_pages_baseAddr[u]
      BY <1>0, <1>1, <1>2
    <3> QED  BY <1>1, <1>5, <3>1
  <2> QED  BY <1>1, <1>3, <2>1
<1>6. reused' \/ \A p \in Page : ~ used_page(new_dir, p)
  BY <1>1, <1>2 DEF TablesOK, used_page
<1>7. reused => reused'
  BY <1>2
<1>8. DataPages \cup mapped \in SUBSET Page /\ phys_mem \subseteq phys_mem'
  BY PageRanges DEF IsForkTable
<1>9. TablesOK'
  BY <1>1, <1>3, <1>4, MapTables
<1>10. FramesOK'
  BY <1>1, <1>3, <1>4, <1>5, <1>6, <1>7, <1>8, MapFrames
<1>11. pt' \in [Dir -> [Page -> Frame]]
  BY <1>0, <1>1, <1>3 DEF TableSet
<1>12. dir_pages_baseAddr' \in [Task -> Dir] /\ reused' \in BOOLEAN
  BY <1>0, <1>1, <1>2
<1> QED  BY <1>9, <1>10, <1>11, <1>12

(* The counter of the directory a fork takes stays exact.                   *)
LEMMA ForkCountsDirectory ==
  ASSUME TypeOK, TasksOK, CountsOK, freequeue # <<>>, NEW t, TakeDirectory(t),
         DirHolders' \subseteq Task, \A u \in Task : u \in DirHolders' <=> u \in DirHolders \/ u = new_pcb
  PROVE  /\ Exact(assigned_base_dir', DirHolders', dir_pages_baseAddr')
         /\ assigned_base_dir' \in [Dir -> 0 .. NR_TASKS]
<1>1. /\ new_dir \in Dir /\ assigned_base_dir[new_dir] = 0
      /\ new_pcb \in Task \ DirHolders /\ DirHolders \subseteq Task
  BY EntriesFound, FirstTask, HoldersAreTasks
<1>2. /\ dir_pages_baseAddr' = [dir_pages_baseAddr EXCEPT ![new_pcb] = new_dir]
      /\ assigned_base_dir' = [assigned_base_dir EXCEPT ![new_dir] = assigned_base_dir[new_dir] + 1]
  BY <1>1 DEF TakeDirectory
<1>3. Takes(new_pcb, new_dir, assigned_base_dir, DirHolders, dir_pages_baseAddr,
            assigned_base_dir', DirHolders', dir_pages_baseAddr')
  BY <1>1, <1>2 DEF Takes, CountsOK, TypeOK
<1> QED  BY <1>3, TakeReference

(* The counter of the program break a fork takes stays exact.               *)
LEMMA ForkCountsBreak ==
  ASSUME TypeOK, TasksOK, CountsOK, freequeue # <<>>, NEW t \in Live, TakeBreak(t),
         PbHolders' \subseteq Task, \A u \in Task : u \in PbHolders' <=> u \in PbHolders \/ u = new_pcb
  PROVE  /\ Exact(pb_counter', PbHolders', program_break')
         /\ pb_counter' \in [Dir -> 0 .. NR_TASKS]
         /\ program_break' \in [Task -> Dir]
         /\ program_breaks' \in [Dir -> 0 .. AddressSpace - 1]
<1>1. /\ new_pb \in Dir /\ pb_counter[new_pb] = 0
      /\ new_pcb \in Task \ PbHolders /\ PbHolders \subseteq Task
      /\ parent_break(t) \in 0 .. AddressSpace - 1
  BY EntriesFound, FirstTask, HoldersAreTasks, LiveTask
<1>2. /\ program_break' = [program_break EXCEPT ![new_pcb] = new_pb]
      /\ pb_counter' = [pb_counter EXCEPT ![new_pb] = pb_counter[new_pb] + 1]
      /\ program_breaks' = [program_breaks EXCEPT ![new_pb] = parent_break(t)]
  BY <1>1 DEF TakeBreak
<1>3. Takes(new_pcb, new_pb, pb_counter, PbHolders, program_break,
            pb_counter', PbHolders', program_break')
  BY <1>1, <1>2 DEF Takes, CountsOK, TypeOK
<1>4. program_break' \in [Task -> Dir] /\ program_breaks' \in [Dir -> 0 .. AddressSpace - 1]
  BY <1>1, <1>2 DEF TypeOK
<1> QED  BY <1>3, <1>4, TakeReference

(* The frames of the data receive what some user frame has.                 *)
LEMMA ForkContents ==
  ASSUME TypeOK, TablesOK, NEW t \in Live, copy_user_data(t)
  PROVE  contents' \in [UserFrame -> Byte]
<1> PICK arrived \in SUBSET DataPages :
      contents' = [f \in UserFrame |->
        IF \E p \in arrived : f = ChildTable(t)[p]
        THEN contents[pt[dir_pages_baseAddr[t]][CHOOSE p \in arrived : f = ChildTable(t)[p]]]
        ELSE contents[f]]
  BY DEF copy_user_data
<1>1. \A p \in DataPages : pt[dir_pages_baseAddr[t]][p] \in UserFrame
  BY LiveTask, PageRanges DEF TablesOK
<1>2. contents \in [UserFrame -> Byte]
  BY DEF TypeOK
<1>3. ASSUME NEW f \in UserFrame
      PROVE  contents'[f] \in Byte
  <2>1. CASE \E p \in arrived : f = ChildTable(t)[p]
    <3> DEFINE q == CHOOSE p \in arrived : f = ChildTable(t)[p]
    <3>1. q \in DataPages
      BY <2>1
    <3>2. contents'[f] = contents[pt[dir_pages_baseAddr[t]][q]]
      BY <2>1
    <3> HIDE DEF q
    <3> QED  BY <1>1, <1>2, <3>1, <3>2
  <2>2. CASE ~ \E p \in arrived : f = ChildTable(t)[p]
    BY <1>2, <2>2
  <2> QED  BY <2>1, <2>2
<1>4. contents' = [f \in UserFrame |-> contents'[f]]
  OBVIOUS
<1> QED  BY <1>3, <1>4

(* What fork takes for the data of the child was free.                       *)
LEMMA DataFramesAreFrames ==
  ASSUME EnoughFrames(NUM_PAG_DATA)
  PROVE  DataFrames \subseteq FreeFrames /\ FreeFrames \subseteq Frame
<1>1. \A n \in 1 .. NUM_PAG_DATA : alloc_frame(n) \in FreeFrames
  BY MemoryAssumption, EnoughForLess, AllocFrame
<1> QED  BY <1>1, FreeFramesFinite DEF DataFrames, FreeFrames

(* A fork that fails at once only loses a task_struct.                      *)
LEMMA MemForkWithoutData ==
  ASSUME MemInv, NEW t \in Live, fork_without_data(t)
  PROVE  MemInv'
<1>1. TypeOK /\ TasksOK /\ CountsOK /\ BreakPerProcess /\ TablesOK /\ FramesOK
  BY MemInvParts
<1>2. /\ freequeue # <<>> /\ freequeue' = Tail(freequeue)
      /\ abandoned' = [abandoned EXCEPT ![new_pcb] = "bare"]
      /\ UNCHANGED <<phys_mem, pt, program_breaks, assigned_base_dir, pb_counter,
                     dir_pages_baseAddr, program_break, contents, reused>>
  BY DEF fork_without_data, tableVars
<1>3. /\ TasksOK' /\ freequeue' \in Seq(Task)
      /\ abandoned' \in [Task -> {"no", "bare", "directory", "break"}]
      /\ Live' = Live /\ DirHolders' = DirHolders /\ PbHolders' = PbHolders
  BY <1>1, <1>2, LoseTask
<1>4. TypeOK'
  BY <1>1, <1>2, <1>3 DEF TypeOK
<1>5. CountsOK'
  BY <1>1, <1>2, <1>3 DEF CountsOK, Exact
<1>6. BreakPerProcess'
  BY <1>1, <1>2, <1>3 DEF BreakPerProcess
<1>7. TablesOK' /\ FramesOK'
  BY <1>1, <1>2, <1>3, SameTables
<1> QED  BY <1>3, <1>4, <1>5, <1>6, <1>7, MemInvPartsNext

(* A fork that fails after the directory leaves it assigned.                *)
LEMMA MemForkWithoutPage ==
  ASSUME MemInv, NEW t \in Live, fork_without_page(t)
  PROVE  MemInv'
<1>1. TypeOK /\ TasksOK /\ CountsOK /\ BreakPerProcess /\ TablesOK /\ FramesOK
  BY MemInvParts
<1>2. /\ freequeue # <<>> /\ freequeue' = Tail(freequeue) /\ EnoughFrames(NUM_PAG_DATA)
      /\ TakeDirectory(t)
      /\ dir_pages_baseAddr' = [dir_pages_baseAddr EXCEPT ![new_pcb] = new_dir]
      /\ program_break' = [program_break EXCEPT ![new_pcb] = program_break[t]]
      /\ abandoned' = [abandoned EXCEPT ![new_pcb] = "directory"]
      /\ phys_mem' = phys_mem \cup DataFrames
      /\ pt' = [pt EXCEPT ![new_dir] = ChildTable(t)]
      /\ UNCHANGED <<program_breaks, pb_counter, contents>>
  BY DEF fork_without_page, TakeDirectory
<1>3. /\ TasksOK' /\ freequeue' \in Seq(Task)
      /\ abandoned' \in [Task -> {"no", "bare", "directory", "break"}]
      /\ Live' = Live /\ PbHolders' = PbHolders /\ DirHolders' \subseteq Task
      /\ \A u \in Task : u \in DirHolders' <=> u \in DirHolders \/ u = new_pcb
  BY <1>1, <1>2, LoseTask
<1>4. /\ new_dir \in Dir /\ new_pcb \in Task \ PbHolders /\ new_pcb \notin Live
      /\ t \in Task /\ program_break[t] \in Dir
  BY <1>1, <1>2, EntriesFound, FirstTask, LiveTask
<1>5. Exact(assigned_base_dir', DirHolders', dir_pages_baseAddr')
      /\ assigned_base_dir' \in [Dir -> 0 .. NR_TASKS]
  BY <1>1, <1>2, <1>3, ForkCountsDirectory
<1>6. Exact(pb_counter', PbHolders', program_break')
  <2>1. Exact(pb_counter, PbHolders, program_break) /\ program_break \in [Task -> Dir]
    BY <1>1 DEF CountsOK, TypeOK
  <2>2. Exact(pb_counter, PbHolders, program_break')
    BY <1>2, <1>4, <2>1, HoldersAreTasks, NoReference
  <2> QED  BY <1>2, <1>3, <2>2
<1>7. IsForkTable(ChildTable(t), t, {}, {}) /\ TableSet(new_dir, ChildTable(t))
  <2>1. ForkTable(t, {}, {}) = [p \in Page |-> ChildTable(t)[p]]
    BY DEF ForkTable
  <2>2. ChildTable(t) = [p \in Page |-> ChildTable(t)[p]]
    BY DEF ChildTable
  <2> QED  BY <1>2, <1>4, <2>1, <2>2 DEF IsForkTable, TableSet
<1>8. /\ TablesOK' /\ FramesOK'
      /\ pt' \in [Dir -> [Page -> Frame]]
      /\ dir_pages_baseAddr' \in [Task -> Dir]
      /\ reused' \in BOOLEAN
  BY <1>1, <1>2, <1>3, <1>7, ForkMaps
<1>9. phys_mem' \subseteq Frame /\ program_break' \in [Task -> Dir]
  BY <1>1, <1>2, <1>4, DataFramesAreFrames DEF TypeOK
<1>10. TypeOK'
  BY <1>1, <1>2, <1>3, <1>5, <1>8, <1>9 DEF TypeOK
<1>11. BreakPerProcess'
  <2>1. \A u \in Live : /\ dir_pages_baseAddr'[u] = dir_pages_baseAddr[u]
                        /\ program_break'[u] = program_break[u]
    BY <1>1, <1>2, <1>4, LiveTask DEF TypeOK
  <2> QED  BY <1>1, <1>3, <2>1 DEF BreakPerProcess
<1>12. CountsOK'
  BY <1>5, <1>6 DEF CountsOK
<1> QED  BY <1>3, <1>8, <1>10, <1>11, <1>12, MemInvPartsNext

(* A fork that has everything but frames for the whole heap.                *)
LEMMA MemForkWithoutHeap ==
  ASSUME MemInv, NEW t \in Live, fork_without_heap(t)
  PROVE  MemInv'
<1> DEFINE heap == BrokenPages(parent_break(t))
           here == {p \in heap : EnoughFrames(NUM_PAG_DATA + Rank(p, heap))}
           mapped == IF FreePagesAbove(t, parent_break(t)) = {} THEN {} ELSE here
           T == ForkTable(t, heap, mapped)
<1>1. TypeOK /\ TasksOK /\ CountsOK /\ BreakPerProcess /\ TablesOK /\ FramesOK
  BY MemInvParts
<1>2. /\ freequeue # <<>> /\ EnoughFrames(NUM_PAG_DATA)
      /\ TakeDirectory(t) /\ TakeBreak(t) /\ copy_user_data(t)
      /\ abandoned' = [abandoned EXCEPT ![new_pcb] = "break"]
      /\ phys_mem' = phys_mem \cup DataFrames
      /\ pt' = [pt EXCEPT ![new_dir] = T]
  BY DEF fork_without_heap, fork_lacks_heap, ForkReachesHeap, ForkTable
<1>3. /\ heap \subseteq HeapPages /\ mapped \subseteq heap
      /\ \A p \in mapped : EnoughFrames(NUM_PAG_DATA + Rank(p, heap))
  BY DEF BrokenPages
<1> HIDE DEF heap, mapped, T
<1>4. freequeue' = Tail(freequeue)
  BY <1>2 DEF TakeDirectory
<1>5. /\ TasksOK' /\ freequeue' \in Seq(Task)
      /\ abandoned' \in [Task -> {"no", "bare", "directory", "break"}]
      /\ Live' = Live /\ PbHolders' \subseteq Task /\ DirHolders' \subseteq Task
      /\ \A u \in Task : u \in DirHolders' <=> u \in DirHolders \/ u = new_pcb
      /\ \A u \in Task : u \in PbHolders' <=> u \in PbHolders \/ u = new_pcb
  BY <1>1, <1>2, <1>4, LoseTask
<1>6. /\ new_dir \in Dir /\ new_pcb \in Task /\ new_pcb \notin Live
  BY <1>1, <1>2, EntriesFound, FirstTask
<1>7. Exact(assigned_base_dir', DirHolders', dir_pages_baseAddr')
      /\ assigned_base_dir' \in [Dir -> 0 .. NR_TASKS]
  BY <1>1, <1>2, <1>5, ForkCountsDirectory
<1>8. /\ Exact(pb_counter', PbHolders', program_break')
      /\ pb_counter' \in [Dir -> 0 .. NR_TASKS]
      /\ program_break' \in [Task -> Dir]
      /\ program_breaks' \in [Dir -> 0 .. AddressSpace - 1]
  BY <1>1, <1>2, <1>5, ForkCountsBreak
<1>9. IsForkTable(T, t, heap, mapped) /\ TableSet(new_dir, T)
  BY <1>2, <1>3, <1>6 DEF IsForkTable, TableSet, T
<1>10. /\ TablesOK' /\ FramesOK'
       /\ pt' \in [Dir -> [Page -> Frame]]
       /\ dir_pages_baseAddr' \in [Task -> Dir]
       /\ reused' \in BOOLEAN
  BY <1>1, <1>2, <1>5, <1>9, ForkMaps
<1>11. phys_mem' \subseteq Frame /\ contents' \in [UserFrame -> Byte]
  BY <1>1, <1>2, DataFramesAreFrames, ForkContents DEF TypeOK
<1>12. TypeOK'
  BY <1>5, <1>7, <1>8, <1>10, <1>11 DEF TypeOK
<1>13. BreakPerProcess'
  <2>1. \A u \in Live : /\ dir_pages_baseAddr'[u] = dir_pages_baseAddr[u]
                        /\ program_break'[u] = program_break[u]
    BY <1>1, <1>2, <1>6, LiveTask DEF TypeOK, TakeDirectory, TakeBreak
  <2> QED  BY <1>1, <1>5, <2>1 DEF BreakPerProcess
<1>14. CountsOK'
  BY <1>7, <1>8 DEF CountsOK
<1> QED  BY <1>5, <1>10, <1>12, <1>13, <1>14, MemInvPartsNext

(* A fork that succeeds: the child is a task with tables of its own.        *)
LEMMA MemForkSucceeds ==
  ASSUME MemInv, NEW t \in Live, fork_succeeds(t)
  PROVE  MemInv'
<1> DEFINE heap == BrokenPages(parent_break(t))
           T == ForkTable(t, heap, heap)
<1>1. TypeOK /\ TasksOK /\ CountsOK /\ BreakPerProcess /\ TablesOK /\ FramesOK
  BY MemInvParts
<1>2. /\ freequeue # <<>> /\ EnoughFrames(NUM_PAG_DATA)
      /\ EnoughFrames(NUM_PAG_DATA + Cardinality(heap))
      /\ TakeDirectory(t) /\ TakeBreak(t) /\ copy_user_data(t)
      /\ abandoned' = abandoned
      /\ phys_mem' = phys_mem \cup DataFrames \cup {HeapFrame(p, heap) : p \in heap}
      /\ pt' = [pt EXCEPT ![new_dir] = T]
  BY DEF fork_succeeds, fork_maps_heap, ForkReachesHeap, ForkTable
<1>3. heap \subseteq HeapPages /\ heap \in SUBSET Page
  BY PageRanges DEF BrokenPages
<1> HIDE DEF heap, T
<1>4. ASSUME NEW p \in heap
      PROVE  EnoughFrames(NUM_PAG_DATA + Rank(p, heap)) /\ HeapFrame(p, heap) \in Frame
  <2>1. /\ Cardinality(heap) \in Nat /\ NUM_PAG_DATA \in Nat
        /\ Rank(p, heap) \in Nat \ {0} /\ Rank(p, heap) <= Cardinality(heap)
    BY <1>3, RankLemma, MemoryAssumption
  <2> DEFINE n == NUM_PAG_DATA + Rank(p, heap)
             N == NUM_PAG_DATA + Cardinality(heap)
  <2>2. n \in Nat \ {0} /\ N \in Nat /\ n <= N /\ EnoughFrames(N)
    BY <1>2, <2>1
  <2> HIDE DEF n, N
  <2>3. EnoughFrames(n) /\ alloc_frame(n) \in FreeFrames
    BY <2>2, EnoughForLess, AllocFrame
  <2> QED  BY <2>3, FreeFramesFinite DEF n, HeapFrame, FreeFrames
<1>5. freequeue' = Tail(freequeue)
  BY <1>2 DEF TakeDirectory
<1>6. /\ TasksOK' /\ freequeue' \in Seq(Task)
      /\ \A u \in Task : u \in Live' <=> u \in Live \/ u = new_pcb
      /\ Live' \subseteq Task /\ PbHolders' \subseteq Task /\ DirHolders' \subseteq Task
      /\ \A u \in Task : u \in DirHolders' <=> u \in DirHolders \/ u = new_pcb
      /\ \A u \in Task : u \in PbHolders' <=> u \in PbHolders \/ u = new_pcb
  BY <1>1, <1>2, <1>5, TakeTask
<1>7. /\ new_dir \in Dir /\ new_pb \in Dir /\ new_pcb \in Task /\ new_pcb \notin Live
      /\ \A u \in Live : dir_pages_baseAddr[u] # new_dir /\ program_break[u] # new_pb
  BY <1>1, <1>2, EntriesFound, FirstTask
<1>8. Exact(assigned_base_dir', DirHolders', dir_pages_baseAddr')
      /\ assigned_base_dir' \in [Dir -> 0 .. NR_TASKS]
  BY <1>1, <1>2, <1>6, ForkCountsDirectory
<1>9. /\ Exact(pb_counter', PbHolders', program_break')
      /\ pb_counter' \in [Dir -> 0 .. NR_TASKS]
      /\ program_break' \in [Task -> Dir]
      /\ program_breaks' \in [Dir -> 0 .. AddressSpace - 1]
  BY <1>1, <1>2, <1>6, ForkCountsBreak
<1>10. IsForkTable(T, t, heap, heap) /\ TableSet(new_dir, T)
  BY <1>2, <1>3, <1>4, <1>7 DEF IsForkTable, TableSet, T
<1>11. /\ TablesOK' /\ FramesOK'
       /\ pt' \in [Dir -> [Page -> Frame]]
       /\ dir_pages_baseAddr' \in [Task -> Dir]
       /\ reused' \in BOOLEAN
  <2>1. \A u \in Live' : \/ u \in Live
                         \/ u = new_pcb /\ \A p \in heap : HeapFrame(p, heap) \in phys_mem'
    BY <1>2, <1>6
  <2>2. phys_mem \cup DataFrames \subseteq phys_mem'
    BY <1>2
  <2> QED  BY <1>1, <1>2, <1>10, <2>1, <2>2, ForkMaps
<1>12. phys_mem' \subseteq Frame /\ contents' \in [UserFrame -> Byte]
  BY <1>1, <1>2, <1>4, DataFramesAreFrames, ForkContents DEF TypeOK
<1>13. TypeOK'
  BY <1>1, <1>2, <1>6, <1>8, <1>9, <1>11, <1>12 DEF TypeOK
<1>14. BreakPerProcess'
  <2>1. \A u \in Live : /\ dir_pages_baseAddr'[u] = dir_pages_baseAddr[u]
                        /\ program_break'[u] = program_break[u]
    BY <1>1, <1>2, <1>7, LiveTask DEF TypeOK, TakeDirectory, TakeBreak
  <2>2. dir_pages_baseAddr'[new_pcb] = new_dir /\ program_break'[new_pcb] = new_pb
    BY <1>1, <1>2, <1>7 DEF TypeOK, TakeDirectory, TakeBreak
  <2>3. \A u \in Live' : u \in Live \/ u = new_pcb
    BY <1>6
  <2> QED  BY <1>1, <1>7, <2>1, <2>2, <2>3 DEF BreakPerProcess
<1>15. CountsOK'
  BY <1>8, <1>9 DEF CountsOK
<1> QED  BY <1>6, <1>11, <1>13, <1>14, <1>15, MemInvPartsNext
-----------------------------------------------------------------------------
(* The end of a task: only the last one of a process frees the heap.        *)
LEMMA MemExit ==
  ASSUME MemInv, NEW t \in Live, sys_exit(t)
  PROVE  MemInv'
<1> DEFINE d == dir_pages_baseAddr[t]
           dropped == IF assigned_base_dir[d] = 1 THEN HeapPages ELSE {}
<1>1. TypeOK /\ TasksOK /\ CountsOK /\ BreakPerProcess /\ TablesOK /\ FramesOK
  BY MemInvParts
<1>2. /\ assigned_base_dir' = [assigned_base_dir EXCEPT ![d] = assigned_base_dir[d] - 1]
      /\ pb_counter' = [pb_counter EXCEPT ![program_break[t]] = pb_counter[program_break[t]] - 1]
      /\ freequeue' = Append(freequeue, t)
      /\ UNCHANGED <<abandoned, pt, program_breaks, dir_pages_baseAddr, program_break,
                     contents, reused>>
  BY DEF sys_exit
<1>3. phys_mem' = free_frames({pt[d][p] : p \in dropped})
  <2>1. CASE assigned_base_dir[d] = 1
    BY <2>1 DEF sys_exit
  <2>2. CASE assigned_base_dir[d] # 1
    <3>1. phys_mem' = phys_mem
      BY <2>2 DEF sys_exit
    <3>2. {pt[d][p] : p \in dropped} = {}
      BY <2>2
    <3> QED  BY <3>1, <3>2 DEF free_frames
  <2> QED  BY <2>1, <2>2
<1>4. /\ TasksOK' /\ freequeue' \in Seq(Task)
      /\ t \in DirHolders /\ t \in PbHolders
      /\ \A u \in Task : u \in Live' <=> u \in Live /\ u # t
      /\ \A u \in Task : u \in DirHolders' <=> u \in DirHolders /\ u # t
      /\ \A u \in Task : u \in PbHolders' <=> u \in PbHolders /\ u # t
      /\ Live' \subseteq Task /\ DirHolders' \subseteq Task /\ PbHolders' \subseteq Task
  BY <1>1, <1>2, EndTask
<1>5. d \in Dir /\ program_break[t] \in Dir
  BY <1>1, LiveTask
<1>6. Exact(assigned_base_dir', DirHolders', dir_pages_baseAddr')
      /\ assigned_base_dir' \in [Dir -> 0 .. NR_TASKS]
  <2>1. Gives(t, dir_pages_baseAddr, assigned_base_dir, DirHolders, assigned_base_dir', DirHolders')
    BY <1>1, <1>2, <1>4, HoldersAreTasks DEF Gives, CountsOK, TypeOK
  <2> QED  BY <1>2, <2>1, GiveReference
<1>7. Exact(pb_counter', PbHolders', program_break') /\ pb_counter' \in [Dir -> 0 .. NR_TASKS]
  <2>1. Gives(t, program_break, pb_counter, PbHolders, pb_counter', PbHolders')
    BY <1>1, <1>2, <1>4, HoldersAreTasks DEF Gives, CountsOK, TypeOK
  <2> QED  BY <1>2, <2>1, GiveReference
<1>8. dropped \in SUBSET (Page \ CodePages)
  BY PageRanges
<1>9. ASSUME NEW u \in Live', NEW p \in dropped, dir_pages_baseAddr[u] = d
      PROVE  FALSE
  <2>1. assigned_base_dir[d] = 1 /\ u \in Live /\ u # t
    BY <1>4, <1>9
  <2>2. u \in DirHolders /\ t \in DirHolders
    BY <1>1, <2>1, LiveTask
  <2>3. Exact(assigned_base_dir, DirHolders, dir_pages_baseAddr) /\ DirHolders \in SUBSET Task
    BY <1>1, HoldersAreTasks DEF CountsOK
  <2> QED  BY <1>5, <1>9, <2>1, <2>2, <2>3, Holders
<1>10. \A u \in Live' : u \in Live /\ dir_pages_baseAddr'[u] = dir_pages_baseAddr[u]
  BY <1>2, <1>4
<1>11. TablesOK'
  BY <1>1, <1>2, <1>10 DEF TablesOK, used_page
<1>12. FramesOK'
  <2> HIDE DEF dropped
  <2>1. /\ reused => reused'
        /\ \A c \in Dir, p \in Page : pt'[c][p] = pt[c][p] \/ pt'[c][p] = CLEAR_PAGE
        /\ \A u \in Live', p \in dropped : dir_pages_baseAddr[u] = d => pt'[d][p] = CLEAR_PAGE
    BY <1>2, <1>9
  <2>2. Unmaps(t, d, dropped)
    BY <1>3, <1>8, <1>10, <2>1 DEF Unmaps
  <2> QED  BY <1>1, <2>1, <2>2, UnmapFrames
<1>13. TypeOK'
  <2>1. phys_mem' \subseteq Frame
    BY <1>1, <1>3 DEF TypeOK, free_frames
  <2> QED  BY <1>1, <1>2, <1>4, <1>6, <1>7, <2>1 DEF TypeOK
<1>14. BreakPerProcess'
  BY <1>1, <1>2, <1>10 DEF BreakPerProcess
<1>15. CountsOK'
  BY <1>6, <1>7 DEF CountsOK
<1> QED  BY <1>4, <1>11, <1>12, <1>13, <1>14, <1>15, MemInvPartsNext
-----------------------------------------------------------------------------
(* What sbrk leaves alone.                                                  *)
LEMMA SbrkKeeps ==
  ASSUME TypeOK, TasksOK, CountsOK, BreakPerProcess,
         UNCHANGED <<freequeue, abandoned, tableVars, contents, reused>>
  PROVE  /\ TasksOK' /\ CountsOK' /\ BreakPerProcess' /\ Live' = Live
         /\ dir_pages_baseAddr' = dir_pages_baseAddr /\ reused' = reused
         /\ program_break' = program_break
         /\ phys_mem' \subseteq Frame /\ pt' \in [Dir -> [Page -> Frame]]
            /\ program_breaks' \in [Dir -> 0 .. AddressSpace - 1] => TypeOK'
<1>1. UNCHANGED <<freequeue, abandoned, assigned_base_dir, pb_counter, dir_pages_baseAddr,
                  program_break, contents, reused>>
  BY DEF tableVars
<1>2. Live' = Live /\ Lost' = Lost /\ Free' = Free
  BY <1>1 DEF Live, Lost, Free
<1>3. DirHolders' = DirHolders /\ PbHolders' = PbHolders
  BY <1>1, <1>2 DEF DirHolders, PbHolders
<1>4. TasksOK' /\ CountsOK' /\ BreakPerProcess'
  BY <1>1, <1>2, <1>3 DEF TasksOK, CountsOK, Exact, BreakPerProcess
<1>5. phys_mem' \subseteq Frame /\ pt' \in [Dir -> [Page -> Frame]]
        /\ program_breaks' \in [Dir -> 0 .. AddressSpace - 1] => TypeOK'
  BY <1>1 DEF TypeOK
<1> QED  BY <1>1, <1>2, <1>4, <1>5

(* The break sbrk computes is an address.                                   *)
LEMMA NewBreak ==
  ASSUME TypeOK, NEW t \in Live, NEW inc \in Increments
  PROVE  /\ (parent_break(t) + inc) % AddressSpace \in 0 .. AddressSpace - 1
         /\ EndPage((parent_break(t) + inc) % AddressSpace) \in Int
<1>1. parent_break(t) \in 0 .. AddressSpace - 1 /\ inc \in Int
  BY LiveTask, MemoryAssumption
<1>2. AddressSpace \in Nat \ {0} /\ PAGE_SIZE \in Nat \ {0} /\ TOTAL_PAGES_ENTRIES \in Nat
  BY <1>1, MemoryAssumption
<1>3. (parent_break(t) + inc) % AddressSpace \in 0 .. AddressSpace - 1
  BY <1>1, <1>2
<1> QED  BY <1>2, <1>3 DEF EndPage

(* sbrk maps pages its process did not use.                                 *)
LEMMA MemGrow ==
  ASSUME MemInv, NEW t \in Live, NEW inc \in Increments, sbrk_grow(t, inc)
  PROVE  MemInv'
<1> DEFINE d == dir_pages_baseAddr[t]
           new_break == (parent_break(t) + inc) % AddressSpace
           end == EndPage(new_break)
           wanted == {p \in Page : /\ p >= PAGE(parent_break(t))
                                   /\ p < end \/ (p = end /\ OFFSET(new_break) # 0)
                                   /\ ~ used_page(d, p)}
           got == {p \in wanted : EnoughFrames(Rank(p, wanted))}
           T == [p \in Page |-> IF p \in got THEN alloc_frame(Rank(p, wanted)) ELSE pt[d][p]]
<1>1. TypeOK /\ TasksOK /\ CountsOK /\ BreakPerProcess /\ TablesOK /\ FramesOK
  BY MemInvParts
<1>2. /\ phys_mem' = phys_mem \cup {alloc_frame(Rank(p, wanted)) : p \in got}
      /\ pt' = [pt EXCEPT ![d] = T]
      /\ program_breaks' \in {program_breaks, [program_breaks EXCEPT ![program_break[t]] = new_break]}
      /\ UNCHANGED <<freequeue, abandoned, tableVars, contents, reused>>
  BY DEF sbrk_grow
<1>3. /\ wanted \in SUBSET Page /\ got \subseteq wanted
      /\ \A p \in wanted : ~ used_page(d, p)
      /\ \A p \in got : EnoughFrames(Rank(p, wanted))
  OBVIOUS
<1>4. new_break \in 0 .. AddressSpace - 1
  BY <1>1, NewBreak
<1>5. \A p \in Page : /\ p \in got => T[p] = alloc_frame(Rank(p, wanted))
                      /\ p \notin got => T[p] = pt[d][p]
  OBVIOUS
<1>6. T = [p \in Page |-> T[p]]
  OBVIOUS
<1> HIDE DEF wanted, got, T, end, new_break
<1>7. /\ TasksOK' /\ CountsOK' /\ BreakPerProcess' /\ Live' = Live
      /\ dir_pages_baseAddr' = dir_pages_baseAddr /\ reused' = reused
      /\ program_break' = program_break
      /\ phys_mem' \subseteq Frame /\ pt' \in [Dir -> [Page -> Frame]]
         /\ program_breaks' \in [Dir -> 0 .. AddressSpace - 1] => TypeOK'
  BY <1>1, <1>2, SbrkKeeps
<1>8. d \in Dir /\ program_break[t] \in Dir /\ pt \in [Dir -> [Page -> Frame]]
  BY <1>1, LiveTask DEF TypeOK
<1>9. FreshIn(T, got) /\ \A p \in got : alloc_frame(Rank(p, wanted)) \in FreeFrames
  <2>1. \A p, q \in wanted : /\ Rank(p, wanted) \in Nat \ {0}
                             /\ Rank(p, wanted) = Rank(q, wanted) => p = q
    BY <1>3, RankLemma
  <2>2. \A p \in got : alloc_frame(Rank(p, wanted)) \in FreeFrames
    BY <1>3, <2>1, AllocFrame
  <2>3. ASSUME NEW p \in got, NEW q \in got, T[p] = T[q]
        PROVE  p = q
    <3>1. Rank(p, wanted) = Rank(q, wanted)
      BY <1>3, <1>5, <2>1, <2>3, AllocDiffers
    <3> QED  BY <1>3, <2>1, <3>1
  <2> QED  BY <1>3, <1>5, <2>2, <2>3 DEF FreshIn
<1>10. \A p \in got : T[p] \in UserFrame /\ T[p] # CLEAR_PAGE /\ T[p] \in Frame
  BY <1>9, FreeFramesFinite DEF FreshIn, FreeFrames
<1>11. T \in [Page -> Frame]
  <2>1. \A p \in Page : T[p] \in Frame
    BY <1>5, <1>8, <1>10
  <2> QED  BY <1>6, <2>1
<1>12. \A p \in Page : T[p] # CLEAR_PAGE => T[p] \in UserFrame
  BY <1>1, <1>5, <1>8, <1>10 DEF TablesOK, used_page
<1>13. \A p \in CodePages \cup DataPages : T[p] # CLEAR_PAGE
  <2>1. \A p \in CodePages \cup DataPages : p \in Page /\ pt[d][p] # CLEAR_PAGE
    BY <1>1, PageRanges DEF TablesOK, used_page
  <2> QED  BY <1>5, <1>10, <2>1
<1>14. \A u \in Live' : u \in Live /\ dir_pages_baseAddr'[u] = dir_pages_baseAddr[u]
  BY <1>7
<1>15. TableSet(d, T) /\ d = dir_pages_baseAddr[t]
  BY <1>2 DEF TableSet
<1> HIDE DEF d
<1>16. TablesOK'
  BY <1>1, <1>8, <1>11, <1>12, <1>13, <1>14, <1>15, MapTables
<1>17. FramesOK'
  <2>1. /\ got \in SUBSET Page /\ phys_mem \subseteq phys_mem'
        /\ \A p \in got : T[p] \in phys_mem'
    BY <1>2, <1>3, <1>5
  <2> QED  BY <1>1, <1>5, <1>7, <1>8, <1>9, <1>11, <1>14, <1>15, <2>1, MapFrames
<1>18. phys_mem' \subseteq Frame
  <2>1. FreeFrames \subseteq Frame /\ phys_mem \subseteq Frame
    BY <1>1, FreeFramesFinite DEF TypeOK, FreeFrames
  <2>2. {alloc_frame(Rank(p, wanted)) : p \in got} \subseteq FreeFrames
    BY <1>9
  <2> QED  BY <1>2, <2>1, <2>2
<1>19. pt' \in [Dir -> [Page -> Frame]]
  BY <1>2, <1>8, <1>11
<1>20. program_breaks' \in [Dir -> 0 .. AddressSpace - 1]
  BY <1>1, <1>2, <1>4, <1>8 DEF TypeOK
<1> QED  BY <1>7, <1>16, <1>17, <1>18, <1>19, <1>20, MemInvPartsNext

(* sbrk unmaps pages of the heap of its process.                            *)
LEMMA MemShrink ==
  ASSUME MemInv, NEW t \in Live, NEW inc \in Increments, sbrk_shrink(t, inc)
  PROVE  MemInv'
<1> DEFINE d == dir_pages_baseAddr[t]
           new_break == (parent_break(t) + inc) % AddressSpace
           end == EndPage(new_break)
           dropped == {p \in Page : /\ p <= PAGE(parent_break(t))
                                    /\ p > end \/ (p = end /\ OFFSET(new_break) = 0)}
           T == [p \in Page |-> IF p \in dropped THEN CLEAR_PAGE ELSE pt[d][p]]
<1>1. TypeOK /\ TasksOK /\ CountsOK /\ BreakPerProcess /\ TablesOK /\ FramesOK
  BY MemInvParts
<1>2. /\ end >= USR_P_HEAPSTART
      /\ phys_mem' = free_frames({pt[d][p] : p \in dropped})
      /\ pt' = [pt EXCEPT ![d] = T]
      /\ program_breaks' = [program_breaks EXCEPT ![program_break[t]] = new_break]
      /\ UNCHANGED <<freequeue, abandoned, tableVars, contents, reused>>
  BY DEF sbrk_shrink
<1>3. new_break \in 0 .. AddressSpace - 1 /\ end \in Int
  BY <1>1, NewBreak
<1>4. \A p \in dropped : p \in Page /\ (p > end \/ p = end)
  OBVIOUS
<1>5. \A p \in Page : T[p] = IF p \in dropped THEN CLEAR_PAGE ELSE pt[d][p]
  OBVIOUS
<1>6. T = [p \in Page |-> T[p]]
  OBVIOUS
<1> HIDE DEF dropped, T, end, new_break
<1>7. dropped \in SUBSET HeapPages
  BY <1>2, <1>3, <1>4, MemoryAssumption DEF HeapPages, Page, USR_P_HEAPSTART
<1>8. dropped \in SUBSET (Page \ CodePages) /\ dropped \cap (CodePages \cup DataPages) = {}
  BY <1>7, PageRanges
<1>9. /\ TasksOK' /\ CountsOK' /\ BreakPerProcess' /\ Live' = Live
      /\ dir_pages_baseAddr' = dir_pages_baseAddr /\ reused' = reused
      /\ program_break' = program_break
      /\ phys_mem' \subseteq Frame /\ pt' \in [Dir -> [Page -> Frame]]
         /\ program_breaks' \in [Dir -> 0 .. AddressSpace - 1] => TypeOK'
  BY <1>1, <1>2, SbrkKeeps
<1>10. d \in Dir /\ program_break[t] \in Dir /\ pt \in [Dir -> [Page -> Frame]]
  BY <1>1, LiveTask DEF TypeOK
<1>11. CLEAR_PAGE \in Frame
  BY MemoryAssumption DEF CLEAR_PAGE, Frame
<1>12. T \in [Page -> Frame]
  <2>1. \A p \in Page : T[p] \in Frame
    BY <1>5, <1>10, <1>11
  <2> QED  BY <1>6, <2>1
<1>13. \A p \in Page : T[p] # CLEAR_PAGE => T[p] \in UserFrame
  BY <1>1, <1>5, <1>10 DEF TablesOK, used_page
<1>14. \A p \in CodePages \cup DataPages : T[p] # CLEAR_PAGE
  <2>1. \A p \in CodePages \cup DataPages : p \in Page /\ pt[d][p] # CLEAR_PAGE
    BY <1>1, PageRanges DEF TablesOK, used_page
  <2> QED  BY <1>5, <1>8, <2>1
<1>15. \A u \in Live' : u \in Live /\ dir_pages_baseAddr'[u] = dir_pages_baseAddr[u]
  BY <1>9
<1>16. TableSet(d, T) /\ d = dir_pages_baseAddr[t]
  BY <1>2 DEF TableSet
<1> HIDE DEF d
<1>17. TablesOK'
  BY <1>1, <1>10, <1>12, <1>13, <1>14, <1>15, <1>16, MapTables
<1>18. FramesOK'
  <2>1. pt'[d] = T /\ \A c \in Dir : c # d => pt'[c] = pt[c]
    BY <1>2, <1>10
  <2>2. /\ \A c \in Dir, p \in Page : pt'[c][p] = pt[c][p] \/ pt'[c][p] = CLEAR_PAGE
        /\ \A p \in dropped : pt'[d][p] = CLEAR_PAGE
    BY <1>5, <1>8, <2>1
  <2>3. reused => reused'
    BY <1>9
  <2>4. Unmaps(t, d, dropped)
    BY <1>2, <1>8, <1>15, <1>16, <2>2 DEF Unmaps
  <2> QED  BY <1>1, <2>3, <2>4, UnmapFrames
<1>19. phys_mem' \subseteq Frame
  BY <1>1, <1>2 DEF TypeOK, free_frames
<1>20. pt' \in [Dir -> [Page -> Frame]]
  BY <1>2, <1>10, <1>12
<1>21. program_breaks' \in [Dir -> 0 .. AddressSpace - 1]
  BY <1>1, <1>2, <1>3, <1>10 DEF TypeOK
<1> QED  BY <1>9, <1>17, <1>18, <1>19, <1>20, <1>21, MemInvPartsNext
-----------------------------------------------------------------------------
(* When task 1 starts, it and the idle task have a directory each, and it   *)
(* has a program break.                                                     *)
LEMMA MemInit ==
  ASSUME Init
  PROVE  MemInv
<1>0. /\ NR_TASKS \in Nat /\ NR_TASKS >= 2
      /\ idle_task \in Task /\ task1 \in Task /\ idle_task # task1
      /\ \A t \in Task : t \in Int
  BY MemoryAssumption DEF Task, idle_task, task1
<1>1. /\ freequeue = [i \in 1 .. NR_TASKS - 2 |-> i + 1]
      /\ DOMAIN freequeue = 1 .. NR_TASKS - 2
      /\ \A i \in DOMAIN freequeue : freequeue[i] = i + 1
  BY DEF Init
<1>2. freequeue \in Seq(Task)
  BY <1>0, <1>1 DEF Task
<1>3. IsInjective(freequeue)
  BY <1>1 DEF IsInjective
<1>4. \A t \in Task : t \in Free <=> t \notin {idle_task, task1}
  <2>1. ASSUME NEW t \in Task, t \in Free
        PROVE  t # idle_task /\ t # task1
    BY <1>0, <1>1, <2>1 DEF Free, idle_task, task1
  <2>2. ASSUME NEW t \in Task, t # idle_task, t # task1
        PROVE  t \in Free
    <3>1. t - 1 \in 1 .. NR_TASKS - 2
      BY <1>0, <2>2 DEF Task, idle_task, task1
    <3>2. t - 1 \in DOMAIN freequeue /\ freequeue[t - 1] = t
      BY <1>0, <1>1, <3>1
    <3> QED  BY <3>2 DEF Free
  <2> QED  BY <2>1, <2>2
<1>5. Lost = {} /\ \A t \in Task : abandoned[t] = "no"
  BY DEF Init, Lost
<1>6. /\ Live = {task1}
      /\ DirHolders = {idle_task, task1} /\ PbHolders = {task1}
  <2>1. Live = {task1}
    BY <1>0, <1>4, <1>5 DEF Live
  <2> QED  BY <1>5, <2>1 DEF DirHolders, PbHolders
<1>7. TasksOK
  <2>1. idle_task \notin Free
    BY <1>0, <1>4
  <2> QED  BY <1>3, <1>5, <2>1 DEF TasksOK
<1>8. /\ pt = [d \in Dir |-> IF d = 1 THEN set_user_pages ELSE [p \in Page |-> CLEAR_PAGE]]
      /\ assigned_base_dir = [d \in Dir |-> IF d \in {0, 1} THEN 1 ELSE 0]
      /\ dir_pages_baseAddr = [t \in Task |-> IF t = task1 THEN 1 ELSE 0]
      /\ program_breaks = [i \in Dir |-> HeapStart]
      /\ pb_counter = [i \in Dir |-> IF i = 0 THEN 1 ELSE 0]
      /\ program_break = [t \in Task |-> 0]
      /\ contents \in [UserFrame -> Byte] /\ reused = FALSE
      /\ phys_mem = 0 .. NUM_PAG_KERNEL - 1
                      \cup {set_user_pages[p] : p \in CodePages \cup DataPages}
  BY DEF Init, InitTables, InitBreaks, InitFrames
<1>9. \A p \in Page : /\ p \in CodePages \cup DataPages <=> p < USR_P_HEAPSTART
                      /\ p \in Int /\ p >= 0
  BY MemoryAssumption DEF Page, CodePages, DataPages, USR_P_HEAPSTART
<1>10. \A p \in CodePages \cup DataPages :
         /\ set_user_pages[p] = NUM_PAG_KERNEL + 2 * p
         /\ set_user_pages[p] \in UserFrame /\ set_user_pages[p] # CLEAR_PAGE
  <2> SUFFICES ASSUME NEW p \in CodePages \cup DataPages
               PROVE  /\ set_user_pages[p] = NUM_PAG_KERNEL + 2 * p
                      /\ set_user_pages[p] \in UserFrame /\ set_user_pages[p] # CLEAR_PAGE
    OBVIOUS
  <2>1. p \in Page /\ p < USR_P_HEAPSTART /\ p \in Int /\ p >= 0
    BY <1>9, PageRanges
  <2>2. set_user_pages[p] = NUM_PAG_KERNEL + 2 * p
    BY <2>1 DEF set_user_pages
  <2>3. NUM_PAG_KERNEL + 2 * p \in Frame /\ NUM_PAG_KERNEL + 2 * p >= NUM_PAG_KERNEL
        /\ NUM_PAG_KERNEL + 2 * p # 0
    BY <2>1, MemoryAssumption DEF Frame, USR_P_HEAPSTART
  <2>4. ((NUM_PAG_KERNEL + 2 * p) - NUM_PAG_KERNEL) % 2 = 0
    BY <2>1, MemoryAssumption
  <2> QED  BY <2>2, <2>3, <2>4 DEF UserFrame, CLEAR_PAGE
<1>11. \A p \in HeapPages : set_user_pages[p] = CLEAR_PAGE
  BY PageRanges, <1>9 DEF set_user_pages
<1>12. 1 \in Dir /\ 0 \in Dir /\ CLEAR_PAGE \in Frame /\ pt[1] = set_user_pages
       /\ \A d \in Dir : d # 1 => \A p \in Page : pt[d][p] = CLEAR_PAGE
  BY <1>0, <1>8, MemoryAssumption DEF Dir, CLEAR_PAGE, Frame
<1>13. \A p \in Page : set_user_pages[p] \in Frame
  BY <1>10, <1>11, <1>12, PageRanges, FreeFramesFinite
<1>14. TypeOK
  <2>1. pt \in [Dir -> [Page -> Frame]]
    <3>1. set_user_pages = [p \in Page |-> set_user_pages[p]]
      BY DEF set_user_pages
    <3>2. set_user_pages \in [Page -> Frame]
      BY <1>13, <3>1
    <3>3. [p \in Page |-> CLEAR_PAGE] \in [Page -> Frame]
      BY <1>12
    <3> QED  BY <1>8, <3>2, <3>3
  <2>2. phys_mem \subseteq Frame
    <3>1. 0 .. NUM_PAG_KERNEL - 1 \subseteq Frame
      BY MemoryAssumption DEF Frame
    <3>2. \A p \in CodePages \cup DataPages : set_user_pages[p] \in Frame
      BY <1>10, FreeFramesFinite
    <3> QED  BY <1>8, <3>1, <3>2
  <2>3. HeapStart \in 0 .. AddressSpace - 1
    <3> DEFINE n == TOTAL_PAGES_ENTRIES + USR_P_HEAPSTART
               m == 2 * TOTAL_PAGES_ENTRIES
    <3>1. n \in Nat /\ m \in Nat /\ n < m /\ PAGE_SIZE \in Nat /\ PAGE_SIZE > 0
      BY MemoryAssumption DEF USR_P_HEAPSTART
    <3>2. m * PAGE_SIZE <= AddressSpace /\ AddressSpace \in Nat
      BY MemoryAssumption
    <3> HIDE DEF n, m
    <3>3. n * PAGE_SIZE < m * PAGE_SIZE /\ n * PAGE_SIZE \in Nat /\ m * PAGE_SIZE \in Nat
      BY <3>1
    <3>4. n * PAGE_SIZE \in 0 .. AddressSpace - 1
      BY <3>2, <3>3
    <3> QED  BY <3>4 DEF HeapStart, n
  <2>4. /\ assigned_base_dir \in [Dir -> 0 .. NR_TASKS] /\ pb_counter \in [Dir -> 0 .. NR_TASKS]
        /\ dir_pages_baseAddr \in [Task -> Dir] /\ program_break \in [Task -> Dir]
        /\ program_breaks \in [Dir -> 0 .. AddressSpace - 1]
    BY <1>0, <1>8, <1>12, <2>3
  <2>5. abandoned \in [Task -> {"no", "bare", "directory", "break"}]
    BY DEF Init
  <2> QED  BY <1>2, <1>8, <2>1, <2>2, <2>4, <2>5 DEF TypeOK
<1>15. CountsOK
  <2>1. ASSUME NEW i \in Dir
        PROVE  assigned_base_dir[i] = Cardinality({t \in DirHolders : dir_pages_baseAddr[t] = i})
    <3> DEFINE A == {t \in DirHolders : dir_pages_baseAddr[t] = i}
    <3>0. dir_pages_baseAddr[idle_task] = 0 /\ dir_pages_baseAddr[task1] = 1
      BY <1>0, <1>8
    <3>1. CASE i = 0
      <4>1. A = {idle_task}
        BY <1>0, <1>6, <3>0, <3>1
      <4> QED  BY <1>8, <3>1, <4>1, FS_Singleton
    <3>2. CASE i = 1
      <4>1. A = {task1}
        BY <1>0, <1>6, <3>0, <3>2
      <4> QED  BY <1>8, <3>2, <4>1, FS_Singleton
    <3>3. CASE i # 0 /\ i # 1
      <4>1. A = {}
        BY <1>0, <1>6, <3>0, <3>3
      <4> QED  BY <1>8, <3>3, <4>1, FS_EmptySet
    <3> QED  BY <3>1, <3>2, <3>3
  <2>2. ASSUME NEW i \in Dir
        PROVE  pb_counter[i] = Cardinality({t \in PbHolders : program_break[t] = i})
    <3> DEFINE A == {t \in PbHolders : program_break[t] = i}
    <3>0. program_break[task1] = 0
      BY <1>0, <1>8
    <3>1. CASE i = 0
      <4>1. A = {task1}
        BY <1>0, <1>6, <3>0, <3>1
      <4> QED  BY <1>8, <3>1, <4>1, FS_Singleton
    <3>2. CASE i # 0
      <4>1. A = {}
        BY <1>0, <1>6, <3>0, <3>2
      <4> QED  BY <1>8, <3>2, <4>1, FS_EmptySet
    <3> QED  BY <3>1, <3>2
  <2> QED  BY <2>1, <2>2 DEF CountsOK, Exact
<1>16. BreakPerProcess
  BY <1>6 DEF BreakPerProcess
<1>17. dir_pages_baseAddr[task1] = 1
  BY <1>0, <1>8
<1>18. TablesOK
  <2>1. \A d \in Dir, p \in Page : pt[d][p] # CLEAR_PAGE => d = 1 /\ p \in CodePages \cup DataPages
                                                          /\ pt[d][p] \in UserFrame
    BY <1>10, <1>11, <1>12, PageRanges
  <2>2. pt[1][0] # CLEAR_PAGE
    BY <1>10, <1>12, PageRanges
  <2>3. \A p \in CodePages \cup DataPages : pt[1][p] # CLEAR_PAGE
    BY <1>10, <1>12
  <2> QED  BY <1>6, <1>17, <2>1, <2>2, <2>3 DEF TablesOK, used_page
<1>19. FramesOK
  <2>1. ASSUME NEW t \in Live, NEW p \in Page, Own(t, p)
        PROVE  /\ t = task1 /\ p \in CodePages \cup DataPages /\ p \in Int
               /\ pt[dir_pages_baseAddr[t]][p] = NUM_PAG_KERNEL + 2 * p
               /\ pt[dir_pages_baseAddr[t]][p] \in phys_mem
    <3>1. t = task1 /\ pt[dir_pages_baseAddr[t]] = set_user_pages
      BY <1>6, <1>12, <1>17
    <3>2. p \in CodePages \cup DataPages
      BY <1>11, <2>1, <3>1, PageRanges DEF Own, used_page
    <3>3. set_user_pages[p] \in phys_mem
      BY <1>8, <3>2
    <3> QED  BY <1>9, <1>10, <3>1, <3>2, <3>3
  <2>2. ASSUME NEW t \in Live, NEW u \in Live, NEW p \in Page, NEW q \in Page,
               Own(t, p), Own(u, q),
               pt[dir_pages_baseAddr[t]][p] = pt[dir_pages_baseAddr[u]][q]
        PROVE  dir_pages_baseAddr[t] = dir_pages_baseAddr[u] /\ p = q
    <3>1. /\ t = u /\ p \in Int /\ q \in Int /\ NUM_PAG_KERNEL \in Int
          /\ NUM_PAG_KERNEL + 2 * p = NUM_PAG_KERNEL + 2 * q
      BY <2>1, <2>2, MemoryAssumption
    <3> QED  BY <3>1
  <2> QED  BY <2>1, <2>2 DEF FramesOK
<1> QED  BY <1>7, <1>14, <1>15, <1>16, <1>18, <1>19, MemInvParts

(* A step that leaves the tables alone.                                      *)
LEMMA MemStutter ==
  ASSUME MemInv, UNCHANGED vars
  PROVE  MemInv'
<1>1. TypeOK /\ TasksOK /\ CountsOK /\ BreakPerProcess /\ TablesOK /\ FramesOK
  BY MemInvParts
<1>2. UNCHANGED <<freequeue, abandoned, phys_mem, pt, program_breaks, assigned_base_dir,
                  pb_counter, dir_pages_baseAddr, program_break, contents, reused>>
  BY DEF vars
<1>3. Live' = Live /\ Lost' = Lost /\ Free' = Free
  BY <1>2 DEF Live, Lost, Free
<1>4. TypeOK' /\ TasksOK' /\ CountsOK' /\ BreakPerProcess'
  BY <1>1, <1>2, <1>3 DEF TypeOK, TasksOK, CountsOK, Exact, DirHolders, PbHolders, BreakPerProcess
<1>5. TablesOK' /\ FramesOK'
  BY <1>1, <1>2, <1>3, SameTables
<1> QED  BY <1>4, <1>5, MemInvPartsNext

(* Every system call keeps the invariant.                                   *)
LEMMA MemStep == MemInv /\ [Next]_vars => MemInv'
<1> SUFFICES ASSUME MemInv, [Next]_vars PROVE MemInv'
  OBVIOUS
<1>1. CASE UNCHANGED vars
  BY <1>1, MemStutter
<1>2. CASE Next
  <2> PICK t \in Live :
        \/ \E p \in Page, b \in Byte : write(t, p, b) \/ copy_to_user(t, p, b)
        \/ sys_clone(t)
        \/ sys_fork(t)
        \/ sys_exit(t)
        \/ \E inc \in Increments : sbrk_grow(t, inc) \/ sbrk_shrink(t, inc)
    BY <1>2 DEF Next
  <2>1. CASE \E p \in Page, b \in Byte : write(t, p, b) \/ copy_to_user(t, p, b)
    BY <2>1, MemStore DEF write, copy_to_user
  <2>2. CASE sys_clone(t)
    BY <2>2, MemClone
  <2>3. CASE sys_fork(t)
    BY <2>3, MemForkWithoutData, MemForkWithoutPage, MemForkWithoutHeap, MemForkSucceeds DEF sys_fork
  <2>4. CASE sys_exit(t)
    BY <2>4, MemExit
  <2>5. CASE \E inc \in Increments : sbrk_grow(t, inc) \/ sbrk_shrink(t, inc)
    BY <2>5, MemGrow, MemShrink
  <2> QED  BY <2>1, <2>2, <2>3, <2>4, <2>5
<1> QED  BY <1>1, <1>2

(* MemInv is an invariant of Memory.                                         *)
LEMMA MemInvAlways == Spec => []MemInv
<1>1. Init => MemInv
  BY MemInit
<1> QED  BY <1>1, MemStep, PTL DEF Spec
-----------------------------------------------------------------------------
(* The types of the tables, and of what user code can write.                *)
THEOREM MemoryTypes == Spec => []TypeOK
<1>1. MemInv => TypeOK
  BY DEF MemInv
<1> QED  BY <1>1, MemInvAlways, PTL

(* The reference counters of directories and of program breaks are exact,   *)
(* after any calls of sys_fork, sys_clone and sys_exit.                     *)
THEOREM ReferencesAreCounted == Spec => []CountsExact
<1>1. MemInv => CountsExact
  BY DEF MemInv
<1> QED  BY <1>1, MemInvAlways, PTL

(* allocate_page_dir and get_newpb always find an entry, if there is a free *)
(* task_struct: somebody has no reference, and the counters are exact.      *)
THEOREM SearchesSucceed == Spec => []TablesSuffice
<1>1. MemInv => TablesSuffice
  BY MemInvParts, EntriesFound DEF TablesSuffice
<1> QED  BY <1>1, MemInvAlways, PTL

(* Tasks share a program break exactly when they share a directory          *)
(* (sys_clone, sys_fork).                                                   *)
THEOREM HeapsHaveOneBreak == Spec => []BreakPerProcess
<1>1. MemInv => BreakPerProcess
  BY DEF MemInv
<1> QED  BY <1>1, MemInvAlways, PTL

(* Processes share no frame but those of the code, until a directory is     *)
(* given out a second time (sys_fork, sys_exit, sys_sbrk).                  *)
THEOREM FramesAreNotShared == Spec => []FramesPrivate
<1>1. MemInv => FramesPrivate
  BY DEF MemInv
<1> QED  BY <1>1, MemInvAlways, PTL
-----------------------------------------------------------------------------
(* The pages of the code have different frames, and none the empty page.    *)
LEMMA CodeFramesDiffer ==
  /\ CLEAR_PAGE \notin CodeFrames
  /\ \A p, q \in CodePages : set_user_pages[p] = set_user_pages[q] => p = q
  /\ \A p \in CodePages : set_user_pages[p] \in CodeFrames
<1>1. \A p \in CodePages : /\ p \in Nat /\ p \in Page
                           /\ set_user_pages[p] = NUM_PAG_KERNEL + 2 * p
  BY MemoryAssumption DEF set_user_pages, CodePages, Page, USR_P_HEAPSTART
<1>2. \A p \in CodePages : set_user_pages[p] # CLEAR_PAGE
  BY <1>1, MemoryAssumption DEF CLEAR_PAGE
<1>3. ASSUME NEW p \in CodePages, NEW q \in CodePages, set_user_pages[p] = set_user_pages[q]
      PROVE  p = q
  <2>1. p \in Nat /\ q \in Nat /\ NUM_PAG_KERNEL + 2 * p = NUM_PAG_KERNEL + 2 * q
    BY <1>1, <1>3
  <2> QED  BY <2>1, MemoryAssumption
<1> QED  BY <1>2, <1>3 DEF CodeFrames

(* What keeps the frames of the code apart: a table that changes gets, for  *)
(* the pages that are not code, frames that were free or were mapped there. *)
LEMMA CodeMaps ==
  ASSUME TypeOK, CodeOK, CodeFrames \subseteq phys_mem',
         NEW d \in Dir, NEW T, TableSet(d, T),
         \A p \in CodePages : T[p] # CLEAR_PAGE => T[p] = set_user_pages[p],
         \A p \in Page \ CodePages : \/ T[p] = CLEAR_PAGE \/ T[p] \in FreeFrames
                                     \/ \E e \in Dir : T[p] = pt[e][p]
  PROVE  CodeOK'
<1>1. \A e \in Dir : pt'[e] = IF e = d THEN T ELSE pt[e]
  BY DEF TypeOK, TableSet
<1>2. FreeFrames \cap CodeFrames = {}
  BY DEF CodeOK, FreeFrames
<1>3. \A p \in Page \ CodePages : T[p] # CLEAR_PAGE => T[p] \notin CodeFrames
  BY <1>2 DEF CodeOK, used_page
<1>4. \A e \in Dir, p \in CodePages : pt'[e][p] # CLEAR_PAGE => pt'[e][p] = set_user_pages[p]
  BY <1>1 DEF CodeOK, used_page
<1>5. \A e \in Dir, p \in Page \ CodePages : pt'[e][p] # CLEAR_PAGE => pt'[e][p] \notin CodeFrames
  BY <1>1, <1>3 DEF CodeOK, used_page
<1> QED  BY <1>4, <1>5 DEF CodeOK, used_page

(* A fork gives its child the code of the parent.                           *)
LEMMA CodeFork ==
  ASSUME MemInv, CodeOK, NEW t \in Live, freequeue # <<>>,
         NEW heap, NEW mapped, EnoughFrames(NUM_PAG_DATA),
         heap \subseteq HeapPages, mapped \subseteq heap,
         \A p \in mapped : EnoughFrames(NUM_PAG_DATA + Rank(p, heap)),
         TableSet(new_dir, ForkTable(t, heap, mapped)), phys_mem \subseteq phys_mem'
  PROVE  CodeOK'
<1> DEFINE T == ForkTable(t, heap, mapped)
<1>1. TypeOK /\ TasksOK /\ CountsOK /\ TablesOK
  BY MemInvParts
<1>2. new_dir \in Dir /\ dir_pages_baseAddr[t] \in Dir
  BY <1>1, EntriesFound, LiveTask
<1>3. MapsChild(T, t, mapped)
  BY <1>1, <1>2, ForkTableLemma DEF IsForkTable
<1>4. \A p \in CodePages : T[p] = pt[dir_pages_baseAddr[t]][p]
  BY PageRanges DEF ForkTable, ChildTable
<1>5. \A p \in CodePages : T[p] # CLEAR_PAGE => T[p] = set_user_pages[p]
  BY <1>2, <1>4 DEF CodeOK, used_page
<1> HIDE DEF T
<1>6. \A p \in Page \ CodePages : T[p] \in FreeFrames \/ T[p] = pt[new_dir][p]
  BY <1>3 DEF MapsChild, FreshIn
<1>7. CodeFrames \subseteq phys_mem'
  BY DEF CodeOK
<1>8. TableSet(new_dir, T)
  BY DEF T
<1> QED  BY <1>1, <1>2, <1>5, <1>6, <1>7, <1>8, CodeMaps

(* No call of sys_fork gives out or overmaps the code.                      *)
LEMMA CodeForks ==
  ASSUME MemInv, CodeOK, NEW t \in Live, sys_fork(t)
  PROVE  CodeOK'
<1> DEFINE heap == BrokenPages(parent_break(t))
           here == {p \in heap : EnoughFrames(NUM_PAG_DATA + Rank(p, heap))}
<1>1. CASE fork_without_data(t)
  BY <1>1 DEF fork_without_data, CodeOK, CodeFrames, used_page
<1>2. CASE fork_without_page(t)
  <2>1. /\ freequeue # <<>> /\ EnoughFrames(NUM_PAG_DATA)
        /\ phys_mem \subseteq phys_mem'
        /\ pt' = [pt EXCEPT ![new_dir] = ChildTable(t)]
    BY <1>2 DEF fork_without_page
  <2>2. TableSet(new_dir, ForkTable(t, {}, {}))
    <3>1. ForkTable(t, {}, {}) = ChildTable(t)
      BY DEF ForkTable, ChildTable
    <3> QED  BY <2>1, <3>1 DEF TableSet
  <2> QED  BY <2>1, <2>2, CodeFork
<1>3. CASE fork_without_heap(t)
  <2> DEFINE mapped == IF FreePagesAbove(t, parent_break(t)) = {} THEN {} ELSE here
  <2>1. /\ freequeue # <<>> /\ EnoughFrames(NUM_PAG_DATA)
        /\ phys_mem \subseteq phys_mem'
        /\ TableSet(new_dir, ForkTable(t, heap, mapped))
    BY <1>3 DEF fork_without_heap, fork_lacks_heap, ForkReachesHeap, ForkTable, TableSet
  <2>2. /\ heap \subseteq HeapPages /\ mapped \subseteq heap
        /\ \A p \in mapped : EnoughFrames(NUM_PAG_DATA + Rank(p, heap))
    BY DEF BrokenPages
  <2> HIDE DEF heap, mapped
  <2> QED  BY <2>1, <2>2, CodeFork
<1>4. CASE fork_succeeds(t)
  <2>1. /\ freequeue # <<>> /\ EnoughFrames(NUM_PAG_DATA)
        /\ EnoughFrames(NUM_PAG_DATA + Cardinality(heap))
        /\ phys_mem \subseteq phys_mem'
        /\ TableSet(new_dir, ForkTable(t, heap, heap))
    BY <1>4 DEF fork_succeeds, fork_maps_heap, ForkReachesHeap, ForkTable, TableSet
  <2>2. heap \subseteq HeapPages /\ heap \in SUBSET Page
    BY PageRanges DEF BrokenPages
  <2> HIDE DEF heap
  <2>3. \A p \in heap : EnoughFrames(NUM_PAG_DATA + Rank(p, heap))
    <3> SUFFICES ASSUME NEW p \in heap PROVE EnoughFrames(NUM_PAG_DATA + Rank(p, heap))
      OBVIOUS
    <3>1. /\ Cardinality(heap) \in Nat /\ NUM_PAG_DATA \in Nat
          /\ Rank(p, heap) \in Nat \ {0} /\ Rank(p, heap) <= Cardinality(heap)
      BY <2>2, RankLemma, MemoryAssumption
    <3> DEFINE n == NUM_PAG_DATA + Rank(p, heap)
               N == NUM_PAG_DATA + Cardinality(heap)
    <3>2. n \in Nat /\ N \in Nat /\ n <= N /\ EnoughFrames(N)
      BY <2>1, <3>1
    <3> HIDE DEF n, N
    <3>3. EnoughFrames(n)
      BY <3>2, EnoughForLess
    <3> QED  BY <3>3 DEF n
  <2> QED  BY <2>1, <2>2, <2>3, CodeFork
<1> QED  BY <1>1, <1>2, <1>3, <1>4 DEF sys_fork

(* A growing heap takes free frames, and the pages of the code, which are   *)
(* used, are none of those it maps.                                         *)
LEMMA CodeGrow ==
  ASSUME MemInv, CodeOK, NEW t \in Live, NEW inc \in Increments, sbrk_grow(t, inc)
  PROVE  CodeOK'
<1> DEFINE d == dir_pages_baseAddr[t]
           new_break == (parent_break(t) + inc) % AddressSpace
           end == EndPage(new_break)
           wanted == {p \in Page : /\ p >= PAGE(parent_break(t))
                                   /\ p < end \/ (p = end /\ OFFSET(new_break) # 0)
                                   /\ ~ used_page(d, p)}
           got == {p \in wanted : EnoughFrames(Rank(p, wanted))}
           T == [p \in Page |-> IF p \in got THEN alloc_frame(Rank(p, wanted)) ELSE pt[d][p]]
<1>1. TypeOK /\ TablesOK /\ d \in Dir
  BY MemInvParts, LiveTask
<1>2. phys_mem \subseteq phys_mem' /\ TableSet(d, T)
  BY DEF sbrk_grow, TableSet
<1>3. /\ wanted \in SUBSET Page /\ got \subseteq wanted
      /\ \A p \in got : EnoughFrames(Rank(p, wanted)) /\ ~ used_page(d, p)
  OBVIOUS
<1>4. \A p \in Page : T[p] = IF p \in got THEN alloc_frame(Rank(p, wanted)) ELSE pt[d][p]
  OBVIOUS
<1> HIDE DEF d, wanted, got, T
<1>5. \A p \in got : alloc_frame(Rank(p, wanted)) \in FreeFrames
  BY <1>3, RankLemma, AllocFrame
<1>6. \A p \in CodePages : p \in Page /\ p \notin got
  BY <1>1, <1>3, PageRanges DEF TablesOK, d
<1>7. \A p \in CodePages : T[p] # CLEAR_PAGE => T[p] = set_user_pages[p]
  BY <1>1, <1>4, <1>6 DEF CodeOK, used_page
<1>8. \A p \in Page \ CodePages : T[p] \in FreeFrames \/ T[p] = pt[d][p]
  BY <1>4, <1>5
<1>9. CodeFrames \subseteq phys_mem'
  BY <1>2 DEF CodeOK
<1> QED  BY <1>1, <1>2, <1>7, <1>8, <1>9, CodeMaps

(* Freeing what pages other than the code map frees none of its frames.     *)
LEMMA CodeNotFreed ==
  ASSUME TypeOK, CodeOK, NEW d \in Dir, NEW dropped \in SUBSET (Page \ CodePages)
  PROVE  CodeFrames \subseteq free_frames({pt[d][p] : p \in dropped})
<1>1. \A p \in dropped : pt[d][p] \notin CodeFrames
  BY CodeFramesDiffer DEF CodeOK, used_page
<1> QED  BY <1>1 DEF CodeOK, free_frames

(* A shrinking heap gives up no page below its first.                       *)
LEMMA CodeShrink ==
  ASSUME MemInv, CodeOK, NEW t \in Live, NEW inc \in Increments, sbrk_shrink(t, inc)
  PROVE  CodeOK'
<1> DEFINE d == dir_pages_baseAddr[t]
           new_break == (parent_break(t) + inc) % AddressSpace
           end == EndPage(new_break)
           dropped == {p \in Page : /\ p <= PAGE(parent_break(t))
                                    /\ p > end \/ (p = end /\ OFFSET(new_break) = 0)}
           T == [p \in Page |-> IF p \in dropped THEN CLEAR_PAGE ELSE pt[d][p]]
<1>1. TypeOK /\ d \in Dir /\ parent_break(t) \in Nat
  BY MemInvParts, LiveTask, MemoryAssumption
<1>2. /\ end >= USR_P_HEAPSTART
      /\ phys_mem' = free_frames({pt[d][p] : p \in dropped})
      /\ TableSet(d, T)
  BY DEF sbrk_shrink, TableSet
<1>3. end \in Int
  <2>1. parent_break(t) + inc \in Int
    BY <1>1, MemoryAssumption
  <2>2. new_break \in Int
    BY <2>1, MemoryAssumption
  <2> HIDE DEF new_break
  <2>3. new_break \div PAGE_SIZE \in Int
    BY <2>2, MemoryAssumption
  <2> QED  BY <2>3, MemoryAssumption DEF EndPage
<1>4. \A p \in dropped : p \in Page /\ p >= end
  <2> HIDE DEF end, new_break
  <2> QED  BY <1>3, MemoryAssumption DEF Page
<1>5. \A p \in Page : T[p] = IF p \in dropped THEN CLEAR_PAGE ELSE pt[d][p]
  OBVIOUS
<1> HIDE DEF d, end, dropped, T
<1>6. dropped \in SUBSET (Page \ CodePages)
  BY <1>2, <1>3, <1>4, MemoryAssumption DEF CodePages, Page, USR_P_HEAPSTART
<1>7. \A p \in CodePages : T[p] # CLEAR_PAGE => T[p] = set_user_pages[p]
  BY <1>1, <1>5, <1>6, PageRanges DEF CodeOK, used_page
<1>8. \A p \in Page \ CodePages : T[p] = CLEAR_PAGE \/ T[p] = pt[d][p]
  BY <1>5
<1>9. CodeFrames \subseteq phys_mem'
  BY <1>1, <1>2, <1>6, CodeNotFreed
<1> QED  BY <1>1, <1>2, <1>7, <1>8, <1>9, CodeMaps

(* The first process has the frames of the code; no other exists.           *)
LEMMA CodeInit ==
  ASSUME Init
  PROVE  CodeOK
<1>1. /\ CodeFrames \subseteq phys_mem
      /\ \A d \in Dir : pt[d] = IF d = 1 THEN set_user_pages ELSE [p \in Page |-> CLEAR_PAGE]
  BY DEF Init, InitFrames, InitTables, CodeFrames
<1>2. \A p \in Page \ CodePages :
        set_user_pages[p] # CLEAR_PAGE => set_user_pages[p] \notin CodeFrames
  <2> SUFFICES ASSUME NEW p \in Page \ CodePages, NEW q \in CodePages,
                      set_user_pages[p] # CLEAR_PAGE, set_user_pages[p] = set_user_pages[q]
               PROVE  FALSE
    BY DEF CodeFrames
  <2>1. q \in Page /\ q < USR_P_HEAPSTART /\ p \in Int /\ q \in Int
    BY MemoryAssumption DEF CodePages, Page, USR_P_HEAPSTART
  <2>2. set_user_pages[p] = NUM_PAG_KERNEL + 2 * p /\ set_user_pages[q] = NUM_PAG_KERNEL + 2 * q
    BY <2>1 DEF set_user_pages
  <2>3. NUM_PAG_KERNEL + 2 * p = NUM_PAG_KERNEL + 2 * q
    BY <2>2
  <2>4. p = q
    BY <2>1, <2>3, MemoryAssumption
  <2> QED  BY <2>4
<1>3. \A d \in Dir, p \in CodePages : used_page(d, p) => pt[d][p] = set_user_pages[p]
  BY <1>1, PageRanges DEF used_page
<1>4. \A d \in Dir, p \in Page \ CodePages : used_page(d, p) => pt[d][p] \notin CodeFrames
  BY <1>1, <1>2 DEF used_page
<1> QED  BY <1>1, <1>3, <1>4 DEF CodeOK

(* No call touches the code: its frames stay used, and nothing but its      *)
(* pages maps them.                                                         *)
LEMMA CodeStep == MemInv /\ CodeOK /\ [Next]_vars => CodeOK'
<1> SUFFICES ASSUME MemInv, CodeOK, [Next]_vars PROVE CodeOK'
  OBVIOUS
<1>1. ASSUME UNCHANGED <<pt, phys_mem>> PROVE CodeOK'
  BY <1>1 DEF CodeOK, CodeFrames, used_page
<1>2. CASE UNCHANGED vars
  BY <1>1, <1>2 DEF vars
<1>3. CASE Next
  <2> PICK t \in Live :
        \/ \E p \in Page, b \in Byte : write(t, p, b) \/ copy_to_user(t, p, b)
        \/ sys_clone(t)
        \/ sys_fork(t)
        \/ sys_exit(t)
        \/ \E inc \in Increments : sbrk_grow(t, inc) \/ sbrk_shrink(t, inc)
    BY <1>3 DEF Next
  <2>1. CASE (\E p \in Page, b \in Byte : write(t, p, b) \/ copy_to_user(t, p, b)) \/ sys_clone(t)
    BY <1>1, <2>1 DEF write, copy_to_user, store, sys_clone
  <2>2. CASE sys_fork(t)
    BY <2>2, CodeForks
  <2>3. CASE sys_exit(t)
    <3>1. /\ pt' = pt
          /\ phys_mem' \in {phys_mem, free_frames({pt[dir_pages_baseAddr[t]][p] : p \in HeapPages})}
      BY <2>3 DEF sys_exit
    <3>2. HeapPages \in SUBSET (Page \ CodePages)
      BY PageRanges
    <3>3. CodeFrames \subseteq phys_mem'
      BY <3>1, <3>2, MemInvParts, LiveTask, CodeNotFreed DEF CodeOK
    <3> QED  BY <3>1, <3>3 DEF CodeOK, CodeFrames, used_page
  <2>4. CASE \E inc \in Increments : sbrk_grow(t, inc) \/ sbrk_shrink(t, inc)
    BY <2>4, CodeGrow, CodeShrink
  <2> QED  BY <2>1, <2>2, <2>3, <2>4
<1> QED  BY <1>2, <1>3

(* The data of the child of a fork get frames that are free, each its own.  *)
LEMMA ChildData ==
  ASSUME TypeOK, TablesOK, NEW t \in Live, EnoughFrames(NUM_PAG_DATA), new_dir \in Dir
  PROVE  /\ \A p \in DataPages : ChildTable(t)[p] \in FreeFrames
         /\ \A p, q \in DataPages : ChildTable(t)[p] = ChildTable(t)[q] => p = q
<1> DEFINE T == ForkTable(t, {}, {})
<1>1. IsForkTable(T, t, {}, {})
  BY DEF IsForkTable
<1> HIDE DEF T
<1>2. MapsChild(T, t, {})
  BY <1>1, ForkTableLemma
<1> QED  BY <1>2 DEF MapsChild, FreshIn

(* The copy of each page goes through one of the free pages.                *)
LEMMA TempPages ==
  ASSUME NEW t, FreePages(t) # {}, NEW p \in DataPages
  PROVE  temp_page(t, p) \in FreePages(t)
<1> DEFINE F == FreePages(t)
           n == Cardinality(F)
           k == p - NUM_PAG_CODE
<1>1. F \in SUBSET Page /\ F # {}
  BY PageRanges DEF FreePages
<1>2. temp_page(t, p) = CHOOSE q \in F : Rank(q, F) - 1 = k % n
  BY DEF temp_page
<1>3. k \in Nat
  BY MemoryAssumption DEF DataPages, USR_P_HEAPSTART
<1> HIDE DEF F, n, k
<1>4. IsFiniteSet(F) /\ F \in SUBSET Int /\ n \in Nat /\ n # 0
  <2>1. F \in SUBSET Int
    BY <1>1, MemoryAssumption DEF Page
  <2>2. IsFiniteSet(F) /\ n \in Nat
    BY <1>1, RankLemma DEF n
  <2> QED  BY <1>1, <2>1, <2>2, FS_EmptySet DEF n
<1>5. (k % n) + 1 \in 1 .. n
  BY <1>3, <1>4
<1>6. \E q \in F : UpTo(F, q) = (k % n) + 1
  BY <1>4, <1>5, UpToOnto DEF n
<1>7. \A q \in F : Rank(q, F) = UpTo(F, q)
  BY DEF Rank, UpTo
<1>8. \E q \in F : Rank(q, F) - 1 = k % n
  BY <1>3, <1>4, <1>5, <1>6, <1>7
<1>9. temp_page(t, p) \in F
  BY <1>2, <1>8
<1> QED  BY <1>9 DEF F
-----------------------------------------------------------------------------
(* Addresses are divided into pages.                                        *)
LEMMA Division ==
  ASSUME NEW x \in Nat
  PROVE  /\ x \div PAGE_SIZE \in Nat /\ OFFSET(x) \in 0 .. PAGE_SIZE - 1
         /\ x = PAGE_SIZE * (x \div PAGE_SIZE) + OFFSET(x)
BY MemoryAssumption DEF OFFSET

(* A larger address is on no earlier page, and no nearer to its start if it *)
(* is on the same.                                                          *)
LEMMA PagesAscend ==
  ASSUME NEW x \in Nat, NEW y \in Nat, x <= y
  PROVE  /\ EndPage(x) \in Int /\ EndPage(y) \in Int /\ EndPage(x) <= EndPage(y)
         /\ EndPage(x) = EndPage(y) => OFFSET(x) <= OFFSET(y)
<1> DEFINE a == x \div PAGE_SIZE
           b == y \div PAGE_SIZE
           r == OFFSET(x)
           s == OFFSET(y)
           P == PAGE_SIZE
<1>1. /\ a \in Nat /\ r \in 0 .. P - 1 /\ x = P * a + r
      /\ b \in Nat /\ s \in 0 .. P - 1 /\ y = P * b + s
      /\ P \in Nat \ {0}
  BY Division, MemoryAssumption
<1>2. TOTAL_PAGES_ENTRIES \in Nat
  BY MemoryAssumption
<1> HIDE DEF a, b, r, s, P
<1>3. a <= b
  <2> SUFFICES ASSUME a >= b + 1 PROVE FALSE
    BY <1>1
  <2>1. P * a >= P * (b + 1) /\ P * (b + 1) = P * b + P
    BY <1>1
  <2> QED  BY <1>1, <2>1
<1>4. a = b => r <= s
  BY <1>1
<1> QED  BY <1>1, <1>2, <1>3, <1>4 DEF EndPage, a, b, r, s

(* The page of an address of the heap.                                      *)
LEMMA PageInHeap ==
  ASSUME NEW x \in Nat
  PROVE  /\ InHeap(x) <=> EndPage(x) \in HeapPages
         /\ InHeap(x) => PAGE(x) = EndPage(x)
<1> DEFINE a == x \div PAGE_SIZE
           P == PAGE_SIZE
           E == TOTAL_PAGES_ENTRIES
           H == TOTAL_PAGES_ENTRIES + USR_P_HEAPSTART
<1>1. /\ a \in Nat /\ OFFSET(x) \in 0 .. P - 1 /\ x = P * a + OFFSET(x)
      /\ P \in Nat \ {0} /\ E \in Nat \ {0} /\ H \in Nat /\ H >= E /\ H < 2 * E
  <2>1. /\ P \in Nat \ {0} /\ E \in Nat \ {0} /\ H \in Nat /\ H >= E /\ H < 2 * E
    BY MemoryAssumption DEF USR_P_HEAPSTART
  <2> QED  BY <2>1, Division
<1>2. InHeap(x) <=> H * P <= x /\ x < 2 * E * P
  BY DEF InHeap, HeapStart
<1>3. EndPage(x) \in HeapPages <=> a >= H /\ a < 2 * E
  BY <1>1, MemoryAssumption DEF EndPage, HeapPages, USR_P_HEAPSTART
<1>4. PAGE(x) = a % E /\ EndPage(x) = a - E
  BY DEF PAGE, EndPage
<1> HIDE DEF a, P, E, H
<1>5. a >= H => H * P <= x
  <2> SUFFICES ASSUME a >= H PROVE H * P <= x
    OBVIOUS
  <2>1. P * a >= P * H
    BY <1>1
  <2> QED  BY <1>1, <2>1
<1>6. H * P <= x => a >= H
  <2> SUFFICES ASSUME H * P <= x, a + 1 <= H PROVE FALSE
    BY <1>1
  <2>1. P * (a + 1) <= P * H /\ P * (a + 1) = P * a + P
    BY <1>1
  <2> QED  BY <1>1, <2>1
<1>7. a < 2 * E => x < 2 * E * P
  <2> SUFFICES ASSUME a + 1 <= 2 * E PROVE x < 2 * E * P
    BY <1>1
  <2>1. P * (a + 1) <= P * (2 * E) /\ P * (a + 1) = P * a + P
    BY <1>1
  <2> QED  BY <1>1, <2>1
<1>8. x < 2 * E * P => a < 2 * E
  <2> SUFFICES ASSUME x < 2 * E * P, a >= 2 * E PROVE FALSE
    BY <1>1
  <2>1. P * a >= P * (2 * E)
    BY <1>1
  <2> QED  BY <1>1, <2>1
<1>9. a >= H /\ a < 2 * E => a % E = a - E
  BY <1>1
<1> QED  BY <1>1, <1>2, <1>3, <1>4, <1>5, <1>6, <1>7, <1>8, <1>9
-----------------------------------------------------------------------------
(* A task whose heap is as another's was, or mapped, has all of its heap.   *)
LEMMA HeapKept ==
  ASSUME HeapUsed,
         \A u \in Live' :
           \/ \E s \in Live :
                /\ parent_break(u)' = parent_break(s)
                /\ \A p \in HeapPages :
                     used_page(dir_pages_baseAddr[s], p) => used_page(dir_pages_baseAddr[u], p)'
           \/ \A p \in BrokenPages(parent_break(u)') : used_page(dir_pages_baseAddr[u], p)'
  PROVE  HeapUsed'
<1> SUFFICES ASSUME NEW u \in Live', NEW p \in BrokenPages(parent_break(u)')
             PROVE  used_page(dir_pages_baseAddr[u], p)'
  BY DEF HeapUsed
<1>1. p \in HeapPages
  BY DEF BrokenPages
<1>2. ASSUME NEW s \in Live, parent_break(u)' = parent_break(s),
             \A q \in HeapPages :
               used_page(dir_pages_baseAddr[s], q) => used_page(dir_pages_baseAddr[u], q)'
      PROVE  used_page(dir_pages_baseAddr[u], p)'
  <2>1. p \in BrokenPages(parent_break(s))
    BY <1>2
  <2> QED  BY <1>1, <1>2, <2>1 DEF HeapUsed
<1> QED  BY <1>2

(* Steps that bring nobody to life, and leave the heaps of the others.      *)
LEMMA HeapSame ==
  ASSUME HeapUsed, pt' = pt, program_breaks' = program_breaks,
         \A u \in Live' : \E s \in Live : /\ dir_pages_baseAddr'[u] = dir_pages_baseAddr[s]
                                          /\ program_break'[u] = program_break[s]
  PROVE  HeapUsed'
<1>1. ASSUME NEW u \in Live'
      PROVE  \E s \in Live :
               /\ parent_break(u)' = parent_break(s)
               /\ \A p \in HeapPages :
                    used_page(dir_pages_baseAddr[s], p) => used_page(dir_pages_baseAddr[u], p)'
  BY DEF parent_break, used_page
<1> QED  BY <1>1, HeapKept

(* What a fork does is not seen by those that were live before.             *)
LEMMA HeapForkOthers ==
  ASSUME MemInv, freequeue # <<>>, NEW T, TableSet(new_dir, T),
         NEW t, TakeDirectory(t),
         \/ program_breaks' = program_breaks
         \/ \E x : program_breaks' = [program_breaks EXCEPT ![new_pb] = x],
         \E x : program_break' = [program_break EXCEPT ![new_pcb] = x],
         NEW u \in Live
  PROVE  /\ parent_break(u)' = parent_break(u)
         /\ \A p \in HeapPages :
              used_page(dir_pages_baseAddr[u], p) => used_page(dir_pages_baseAddr[u], p)'
<1>1. TypeOK /\ TasksOK /\ CountsOK
  BY MemInvParts
<1>2. /\ new_dir \in Dir /\ new_pb \in Dir /\ new_pcb \in Task /\ u # new_pcb
      /\ dir_pages_baseAddr[u] # new_dir /\ program_break[u] # new_pb
      /\ u \in Task /\ dir_pages_baseAddr[u] \in Dir /\ program_break[u] \in Dir
  BY <1>1, EntriesFound, FirstTask, LiveTask
<1>3. program_break'[u] = program_break[u] /\ program_breaks'[program_break[u]] = program_breaks[program_break[u]]
  BY <1>1, <1>2 DEF TypeOK
<1>4. dir_pages_baseAddr'[u] = dir_pages_baseAddr[u]
  BY <1>1, <1>2 DEF TypeOK, TakeDirectory
<1>5. pt'[dir_pages_baseAddr[u]] = pt[dir_pages_baseAddr[u]]
  BY <1>1, <1>2 DEF TypeOK, TableSet
<1> QED  BY <1>3, <1>4, <1>5 DEF parent_break, used_page

(* The child of a fork has the break of its parent and entries below it; a   *)
(* fork that fails changes the breaks of nobody.                             *)
LEMMA HeapFork ==
  ASSUME HeapInv, NEW t \in Live, sys_fork(t)
  PROVE  BreaksOK' /\ HeapUsed'
<1>1. MemInv /\ BreaksOK /\ HeapUsed /\ TypeOK /\ TasksOK /\ CountsOK /\ TablesOK
  BY MemInvParts DEF HeapInv
<1>2. InHeap(parent_break(t)) /\ program_breaks \in [Dir -> 0 .. AddressSpace - 1]
  BY <1>1, LiveTask DEF BreaksOK, parent_break, TypeOK
<1>3. CASE fork_without_data(t)
  <2>1. /\ freequeue # <<>> /\ freequeue' = Tail(freequeue)
        /\ abandoned' = [abandoned EXCEPT ![new_pcb] = "bare"]
        /\ UNCHANGED <<pt, program_breaks, dir_pages_baseAddr, program_break>>
    BY <1>3 DEF fork_without_data, tableVars
  <2>2. Live' = Live
    BY <1>1, <2>1, LoseTask
  <2> QED  BY <1>1, <2>1, <2>2, HeapSame DEF BreaksOK
<1>4. CASE fork_without_page(t)
  <2>1. /\ freequeue # <<>> /\ freequeue' = Tail(freequeue)
        /\ abandoned' = [abandoned EXCEPT ![new_pcb] = "directory"]
        /\ TakeDirectory(t) /\ TableSet(new_dir, ChildTable(t))
        /\ program_breaks' = program_breaks
        /\ program_break' = [program_break EXCEPT ![new_pcb] = program_break[t]]
    BY <1>4 DEF fork_without_page, TakeDirectory, TableSet
  <2>2. Live' = Live
    BY <1>1, <2>1, LoseTask
  <2>3. \A u \in Live : /\ parent_break(u)' = parent_break(u)
                        /\ \A p \in HeapPages : used_page(dir_pages_baseAddr[u], p)
                                                  => used_page(dir_pages_baseAddr[u], p)'
    BY <1>1, <2>1, HeapForkOthers
  <2> QED  BY <1>1, <2>1, <2>2, <2>3, HeapKept DEF BreaksOK
<1>5. ASSUME NEW T, TableSet(new_dir, T), TakeDirectory(t), TakeBreak(t), freequeue # <<>>
      PROVE  /\ BreaksOK'
             /\ \A u \in Live : /\ parent_break(u)' = parent_break(u)
                                /\ \A p \in HeapPages : used_page(dir_pages_baseAddr[u], p)
                                                          => used_page(dir_pages_baseAddr[u], p)'
             /\ program_breaks'[program_break'[new_pcb]] = parent_break(t)
  <2>1. /\ program_breaks' = [program_breaks EXCEPT ![new_pb] = parent_break(t)]
        /\ program_break' = [program_break EXCEPT ![new_pcb] = new_pb]
    BY <1>5 DEF TakeBreak
  <2>2. \A u \in Live : /\ parent_break(u)' = parent_break(u)
                        /\ \A p \in HeapPages : used_page(dir_pages_baseAddr[u], p)
                                                  => used_page(dir_pages_baseAddr[u], p)'
    BY <1>1, <1>5, <2>1, HeapForkOthers
  <2>3. new_pb \in Dir /\ new_pcb \in Task
    BY <1>1, <1>5, EntriesFound, FirstTask
  <2>4. program_breaks'[program_break'[new_pcb]] = parent_break(t)
    <3>1. program_break'[new_pcb] = new_pb /\ program_breaks'[new_pb] = parent_break(t)
      BY <1>1, <1>2, <2>1, <2>3 DEF TypeOK
    <3> QED  BY <3>1
  <2>5. BreaksOK'
    BY <1>1, <1>2, <2>1, <2>3 DEF BreaksOK, TypeOK
  <2> QED  BY <2>2, <2>4, <2>5
<1>6. CASE fork_without_heap(t)
  <2> DEFINE heap == BrokenPages(parent_break(t))
             here == {p \in heap : EnoughFrames(NUM_PAG_DATA + Rank(p, heap))}
             mapped == IF FreePagesAbove(t, parent_break(t)) = {} THEN {} ELSE here
             T == ForkTable(t, heap, mapped)
  <2>1. /\ freequeue # <<>> /\ TakeDirectory(t) /\ TakeBreak(t)
        /\ abandoned' = [abandoned EXCEPT ![new_pcb] = "break"]
        /\ TableSet(new_dir, T)
    BY <1>6 DEF fork_without_heap, fork_lacks_heap, ForkReachesHeap, ForkTable, TableSet
  <2> HIDE DEF T
  <2>2. freequeue' = Tail(freequeue)
    BY <2>1 DEF TakeDirectory
  <2>3. Live' = Live
    BY <1>1, <2>1, <2>2, LoseTask
  <2>4. BreaksOK'
    BY <1>5, <2>1
  <2>5. \A u \in Live : /\ parent_break(u)' = parent_break(u)
                        /\ \A p \in HeapPages : used_page(dir_pages_baseAddr[u], p)
                                                  => used_page(dir_pages_baseAddr[u], p)'
    BY <1>5, <2>1
  <2> QED  BY <1>1, <2>3, <2>4, <2>5, HeapKept
<1>7. CASE fork_succeeds(t)
  <2> DEFINE heap == BrokenPages(parent_break(t))
             T == ForkTable(t, heap, heap)
  <2>1. /\ freequeue # <<>> /\ TakeDirectory(t) /\ TakeBreak(t)
        /\ abandoned' = abandoned
        /\ TableSet(new_dir, T)
        /\ pt' = [pt EXCEPT ![new_dir] = T]
    BY <1>7 DEF fork_succeeds, fork_maps_heap, ForkReachesHeap, ForkTable, TableSet
  <2>2. freequeue' = Tail(freequeue)
    BY <2>1 DEF TakeDirectory
  <2>3. \A u \in Task : u \in Live' <=> u \in Live \/ u = new_pcb
    BY <1>1, <2>1, <2>2, TakeTask
  <2>4. Live' \subseteq Task
    BY <1>1, <2>1, <2>2, TakeTask
  <2>5. \A p \in heap : pt'[dir_pages_baseAddr'[new_pcb]][p] # CLEAR_PAGE
    <3>1. MemInv'
      BY <1>1, <1>7, MemForkSucceeds
    <3>2. /\ new_dir \in Dir /\ new_pcb \in Task
      BY <1>1, <2>1, EntriesFound, FirstTask
    <3>3. dir_pages_baseAddr'[new_pcb] = new_dir
      BY <1>1, <2>1, <3>2 DEF TypeOK, TakeDirectory
    <3>4. \A p \in heap : pt'[new_dir][p] = HeapFrame(p, heap)
      <4>1. \A p \in heap : p \in Page /\ T[p] = HeapFrame(p, heap)
        BY PageRanges DEF ForkTable, BrokenPages
      <4> HIDE DEF heap, T
      <4> QED  BY <1>1, <2>1, <3>2, <4>1 DEF TypeOK
    <3>5. \A p \in heap : HeapFrame(p, heap) \in FreeFrames
      <4>1. heap \in SUBSET Page /\ EnoughFrames(NUM_PAG_DATA + Cardinality(heap))
        BY <1>7, PageRanges DEF fork_succeeds, fork_maps_heap, BrokenPages
      <4> HIDE DEF heap
      <4> SUFFICES ASSUME NEW p \in heap PROVE HeapFrame(p, heap) \in FreeFrames
        OBVIOUS
      <4>2. /\ Cardinality(heap) \in Nat /\ NUM_PAG_DATA \in Nat
            /\ Rank(p, heap) \in Nat \ {0} /\ Rank(p, heap) <= Cardinality(heap)
        BY <4>1, RankLemma, MemoryAssumption
      <4> DEFINE n == NUM_PAG_DATA + Rank(p, heap)
                 N == NUM_PAG_DATA + Cardinality(heap)
      <4>3. n \in Nat \ {0} /\ N \in Nat /\ n <= N /\ EnoughFrames(N)
        BY <4>1, <4>2
      <4> HIDE DEF n, N
      <4>4. EnoughFrames(n) /\ alloc_frame(n) \in FreeFrames
        BY <4>3, EnoughForLess, AllocFrame
      <4> QED  BY <4>4 DEF n, HeapFrame
    <3> HIDE DEF heap
    <3>6. \A p \in heap : pt'[new_dir][p] # CLEAR_PAGE
      BY <3>4, <3>5, FreeFramesFinite DEF FreeFrames
    <3> QED  BY <3>3, <3>6
  <2> HIDE DEF T
  <2>6. BreaksOK' /\ program_breaks'[program_break'[new_pcb]] = parent_break(t)
    BY <1>5, <2>1
  <2>7. \A u \in Live : /\ parent_break(u)' = parent_break(u)
                        /\ \A p \in HeapPages : used_page(dir_pages_baseAddr[u], p)
                                                  => used_page(dir_pages_baseAddr[u], p)'
    BY <1>5, <2>1
  <2>8. \A u \in Live' : u \in Live \/ u = new_pcb
    BY <2>3, <2>4
  <2>9. \A p \in BrokenPages(program_breaks'[program_break'[new_pcb]]) :
          pt'[dir_pages_baseAddr'[new_pcb]][p] # CLEAR_PAGE
    BY <2>5, <2>6
  <2> HIDE DEF heap
  <2>10. \A u \in Live' :
           \/ \E s \in Live :
                /\ parent_break(u)' = parent_break(s)
                /\ \A p \in HeapPages :
                     used_page(dir_pages_baseAddr[s], p) => used_page(dir_pages_baseAddr[u], p)'
           \/ \A p \in BrokenPages(parent_break(u)') : used_page(dir_pages_baseAddr[u], p)'
    <3> SUFFICES ASSUME NEW u \in Live'
                 PROVE  \/ \E s \in Live :
                             /\ parent_break(u)' = parent_break(s)
                             /\ \A p \in HeapPages : used_page(dir_pages_baseAddr[s], p)
                                                       => used_page(dir_pages_baseAddr[u], p)'
                        \/ \A p \in BrokenPages(parent_break(u)') : used_page(dir_pages_baseAddr[u], p)'
      OBVIOUS
    <3>1. CASE u \in Live
      BY <2>7, <3>1
    <3>2. CASE u = new_pcb
      BY <2>9, <3>2 DEF parent_break, used_page
    <3> QED  BY <2>8, <3>1, <3>2
  <2> QED  BY <1>1, <2>6, <2>10, HeapKept
<1> QED  BY <1>3, <1>4, <1>6, <1>7 DEF sys_fork

(* A task that ends takes no heap with it but its own.                      *)
LEMMA HeapExit ==
  ASSUME HeapInv, NEW t \in Live, sys_exit(t)
  PROVE  BreaksOK' /\ HeapUsed'
<1>1. TypeOK /\ TasksOK /\ BreaksOK /\ HeapUsed
  BY MemInvParts DEF HeapInv
<1>2. /\ freequeue' = Append(freequeue, t)
      /\ UNCHANGED <<abandoned, pt, program_breaks, dir_pages_baseAddr, program_break>>
  BY DEF sys_exit
<1>3. \A u \in Live' : u \in Live
  BY <1>1, <1>2, EndTask
<1> QED  BY <1>1, <1>2, <1>3, HeapSame DEF BreaksOK

(* The break that sbrk computes does not wrap around.                       *)
LEMMA NewBreakExact ==
  ASSUME NoWrap, NEW pb \in 0 .. AddressSpace - 1, InHeap(pb), NEW inc \in Increments
  PROVE  (pb + inc) % AddressSpace = pb + inc /\ pb + inc \in Nat /\ inc \in Int
<1> DEFINE m == 2 * TOTAL_PAGES_ENTRIES * PAGE_SIZE
<1>1. /\ AddressSpace \in Nat /\ pb \in Int /\ inc \in Int
      /\ HeapStart <= pb /\ pb < m
      /\ - HeapStart <= inc /\ inc <= AddressSpace - m
  BY MemoryAssumption DEF InHeap, NoWrap
<1>2. m \in Int /\ HeapStart \in Int
  BY MemoryAssumption DEF HeapStart, USR_P_HEAPSTART
<1> HIDE DEF m
<1>3. pb + inc \in Int /\ 0 <= pb + inc /\ pb + inc < AddressSpace
  BY <1>1, <1>2
<1> QED  BY <1>1, <1>3

(* After a change of the break of t and of its table, the heaps of all      *)
(* tasks are mapped, if that of t is.                                       *)
LEMMA HeapSbrk ==
  ASSUME TypeOK, BreakPerProcess, HeapUsed, NEW t \in Live, NEW T,
         UNCHANGED <<freequeue, abandoned, tableVars, contents, reused>>,
         pt' = [pt EXCEPT ![dir_pages_baseAddr[t]] = T],
         NEW x, program_breaks' = [program_breaks EXCEPT ![program_break[t]] = x],
         \A p \in BrokenPages(x) : T[p] # CLEAR_PAGE
  PROVE  HeapUsed'
<1>1. /\ dir_pages_baseAddr' = dir_pages_baseAddr /\ program_break' = program_break
      /\ freequeue' = freequeue /\ abandoned' = abandoned
  BY DEF tableVars
<1>2. Live' = Live
  BY <1>1 DEF Live, Free, Lost
<1>3. /\ dir_pages_baseAddr[t] \in Dir /\ program_break[t] \in Dir
      /\ pt \in [Dir -> [Page -> Frame]] /\ program_breaks \in [Dir -> 0 .. AddressSpace - 1]
  BY LiveTask DEF TypeOK
<1>4. ASSUME NEW u \in Live
      PROVE  \/ \E s \in Live :
                  /\ parent_break(u)' = parent_break(s)
                  /\ \A p \in HeapPages :
                       used_page(dir_pages_baseAddr[s], p) => used_page(dir_pages_baseAddr[u], p)'
             \/ \A p \in BrokenPages(parent_break(u)') : used_page(dir_pages_baseAddr[u], p)'
  <2>1. CASE dir_pages_baseAddr[u] = dir_pages_baseAddr[t]
    <3>1. program_break[u] = program_break[t]
      BY <2>1 DEF BreakPerProcess
    <3>2. pt'[dir_pages_baseAddr[u]] = T /\ program_breaks'[program_break[u]] = x
      BY <1>3, <2>1, <3>1
    <3> QED  BY <1>1, <3>2 DEF parent_break, used_page
  <2>2. CASE dir_pages_baseAddr[u] # dir_pages_baseAddr[t]
    <3>1. program_break[u] # program_break[t]
      BY <2>2 DEF BreakPerProcess
    <3>2. dir_pages_baseAddr[u] \in Dir /\ program_break[u] \in Dir
      BY LiveTask
    <3>3. /\ pt'[dir_pages_baseAddr[u]] = pt[dir_pages_baseAddr[u]]
          /\ program_breaks'[program_break[u]] = program_breaks[program_break[u]]
      BY <1>3, <2>2, <3>1, <3>2
    <3> QED  BY <1>1, <3>3 DEF parent_break, used_page
  <2> QED  BY <2>1, <2>2
<1> QED  BY <1>2, <1>4, HeapKept

(* sbrk(inc) with inc > 0 leaves no page below the new break without an     *)
(* entry: what is not wanted was mapped.                                    *)
LEMMA HeapGrow ==
  ASSUME HeapInv, NoWrap, NEW t \in Live, NEW inc \in Increments, sbrk_grow(t, inc)
  PROVE  BreaksOK' /\ HeapUsed'
<1> DEFINE d == dir_pages_baseAddr[t]
           pb == parent_break(t)
           new_break == (pb + inc) % AddressSpace
           end == EndPage(new_break)
           wanted == {p \in Page : /\ p >= PAGE(pb)
                                   /\ p < end \/ (p = end /\ OFFSET(new_break) # 0)
                                   /\ ~ used_page(d, p)}
           got == {p \in wanted : EnoughFrames(Rank(p, wanted))}
           T == [p \in Page |-> IF p \in got THEN alloc_frame(Rank(p, wanted)) ELSE pt[d][p]]
<1>1. TypeOK /\ BreakPerProcess /\ BreaksOK /\ HeapUsed
  BY MemInvParts DEF HeapInv
<1>2. /\ inc > 0 /\ end < TOTAL_PAGES_ENTRIES
      /\ pt' = [pt EXCEPT ![d] = T]
      /\ got = wanted => program_breaks' = [program_breaks EXCEPT ![program_break[t]] = new_break]
      /\ got # wanted => program_breaks' = program_breaks
      /\ UNCHANGED <<freequeue, abandoned, tableVars, contents, reused>>
  BY DEF sbrk_grow
<1>3. /\ pb \in 0 .. AddressSpace - 1 /\ program_break[t] \in Dir /\ d \in Dir
      /\ pb = program_breaks[program_break[t]]
      /\ program_breaks \in [Dir -> 0 .. AddressSpace - 1]
  BY <1>1, LiveTask DEF TypeOK, parent_break
<1>4. InHeap(pb)
  BY <1>1, <1>3 DEF BreaksOK
<1>5. new_break = pb + inc /\ new_break \in Nat /\ inc \in Int
  BY <1>3, <1>4, NewBreakExact
<1>6. \A p \in Page : /\ p \in wanted <=> /\ p >= PAGE(pb)
                                          /\ p < end \/ (p = end /\ OFFSET(new_break) # 0)
                                          /\ ~ used_page(d, p)
                      /\ p \in got => T[p] = alloc_frame(Rank(p, wanted))
                      /\ p \notin got => T[p] = pt[d][p]
  OBVIOUS
<1>7. /\ wanted \in SUBSET Page /\ got \subseteq wanted
      /\ \A p \in got : EnoughFrames(Rank(p, wanted))
  OBVIOUS
<1> HIDE DEF wanted, got, T, end, new_break, pb
<1>8. /\ InHeap(new_break) /\ PAGE(new_break) = end
  <2>1. pb \in Nat /\ pb <= new_break
    BY <1>2, <1>3, <1>5
  <2>2. EndPage(pb) \in HeapPages /\ EndPage(pb) <= end /\ end \in Int
    BY <1>4, <1>5, <2>1, PageInHeap, PagesAscend DEF end
  <2>3. end \in HeapPages
    BY <1>2, <2>2, MemoryAssumption DEF HeapPages, USR_P_HEAPSTART
  <2> QED  BY <1>5, <2>3, PageInHeap DEF end
<1>9. BreaksOK'
  BY <1>1, <1>2, <1>3, <1>8 DEF BreaksOK
<1>10. \A p \in got : T[p] # CLEAR_PAGE
  <2>1. \A p \in wanted : Rank(p, wanted) \in Nat \ {0}
    BY <1>7, RankLemma
  <2>2. \A p \in got : alloc_frame(Rank(p, wanted)) \in FreeFrames
    BY <1>7, <2>1, AllocFrame
  <2>3. \A p \in got : T[p] \in UserFrame
    BY <1>6, <1>7, <2>2 DEF FreeFrames
  <2> QED  BY <2>3, FreeFramesFinite
<1>11. \A p \in Page : used_page(d, p) => T[p] # CLEAR_PAGE
  BY <1>6, <1>10 DEF used_page
<1>12. \A p \in BrokenPages(pb) : p \in Page /\ used_page(d, p)
  BY <1>1, PageRanges DEF HeapUsed, BrokenPages, pb
<1>13. CASE got = wanted
  <2>1. ASSUME NEW p \in BrokenPages(new_break)
        PROVE  T[p] # CLEAR_PAGE
    <3>1. p \in HeapPages /\ p \in Page /\ (p < end \/ (p = end /\ OFFSET(new_break) # 0))
      BY <1>8, PageRanges DEF BrokenPages
    <3>2. CASE used_page(d, p)
      BY <1>11, <3>1, <3>2
    <3>3. CASE ~ used_page(d, p)
      <4>1. ~ (p < PAGE(pb))
        BY <1>12, <3>1, <3>3 DEF BrokenPages
      <4>2. p \in Int /\ PAGE(pb) \in Int
        <5>1. PAGE(pb) \in HeapPages
          BY <1>3, <1>4, PageInHeap
        <5> QED  BY <3>1, <5>1, MemoryAssumption DEF HeapPages, USR_P_HEAPSTART
      <4>3. p \in wanted
        BY <1>6, <3>1, <3>3, <4>1, <4>2
      <4> QED  BY <1>10, <1>13, <4>3
    <3> QED  BY <3>2, <3>3
  <2> QED  BY <1>1, <1>2, <1>9, <1>13, <2>1, HeapSbrk
<1>14. CASE got # wanted
  <2>1. program_breaks' = [program_breaks EXCEPT ![program_break[t]] = pb]
    BY <1>2, <1>3, <1>14
  <2>2. \A p \in BrokenPages(pb) : T[p] # CLEAR_PAGE
    BY <1>11, <1>12
  <2> QED  BY <1>1, <1>2, <1>9, <2>1, <2>2, HeapSbrk
<1> QED  BY <1>13, <1>14

(* sbrk(inc) with inc < 0 unmaps no page below the new break.               *)
LEMMA HeapShrink ==
  ASSUME HeapInv, NoWrap, NEW t \in Live, NEW inc \in Increments, sbrk_shrink(t, inc)
  PROVE  BreaksOK' /\ HeapUsed'
<1> DEFINE d == dir_pages_baseAddr[t]
           pb == parent_break(t)
           new_break == (pb + inc) % AddressSpace
           end == EndPage(new_break)
           dropped == {p \in Page : /\ p <= PAGE(pb)
                                    /\ p > end \/ (p = end /\ OFFSET(new_break) = 0)}
           T == [p \in Page |-> IF p \in dropped THEN CLEAR_PAGE ELSE pt[d][p]]
<1>1. TypeOK /\ BreakPerProcess /\ BreaksOK /\ HeapUsed
  BY MemInvParts DEF HeapInv
<1>2. /\ inc < 0 /\ end >= USR_P_HEAPSTART
      /\ pt' = [pt EXCEPT ![d] = T]
      /\ program_breaks' = [program_breaks EXCEPT ![program_break[t]] = new_break]
      /\ UNCHANGED <<freequeue, abandoned, tableVars, contents, reused>>
  BY DEF sbrk_shrink
<1>3. /\ pb \in 0 .. AddressSpace - 1 /\ program_break[t] \in Dir /\ d \in Dir
      /\ pb = program_breaks[program_break[t]]
      /\ program_breaks \in [Dir -> 0 .. AddressSpace - 1]
  BY <1>1, LiveTask DEF TypeOK, parent_break
<1>4. InHeap(pb)
  BY <1>1, <1>3 DEF BreaksOK
<1>5. new_break = pb + inc /\ new_break \in Nat /\ inc \in Int
  BY <1>3, <1>4, NewBreakExact
<1>6. \A p \in Page : /\ p \in dropped => p > end \/ (p = end /\ OFFSET(new_break) = 0)
                      /\ p \notin dropped => T[p] = pt[d][p]
  OBVIOUS
<1> HIDE DEF dropped, T, end, new_break, pb
<1>7. /\ EndPage(pb) \in HeapPages /\ PAGE(pb) = EndPage(pb)
      /\ end <= EndPage(pb) /\ end \in Int
      /\ end = EndPage(pb) => OFFSET(new_break) <= OFFSET(pb)
      /\ OFFSET(pb) \in Nat /\ OFFSET(new_break) \in Nat
  <2>1. pb \in Nat /\ new_break <= pb
    BY <1>2, <1>3, <1>5
  <2>2. /\ end <= EndPage(pb) /\ end \in Int
        /\ end = EndPage(pb) => OFFSET(new_break) <= OFFSET(pb)
    BY <1>5, <2>1, PagesAscend DEF end
  <2>3. EndPage(pb) \in HeapPages /\ PAGE(pb) = EndPage(pb)
    BY <1>4, <2>1, PageInHeap
  <2>4. OFFSET(pb) \in Nat /\ OFFSET(new_break) \in Nat
    BY <1>5, <2>1, Division, MemoryAssumption
  <2> QED  BY <2>2, <2>3, <2>4
<1>8. /\ InHeap(new_break) /\ PAGE(new_break) = end
  <2>1. end \in HeapPages
    BY <1>2, <1>7, MemoryAssumption DEF HeapPages, USR_P_HEAPSTART
  <2> QED  BY <1>5, <2>1, PageInHeap DEF end
<1>9. BreaksOK'
  BY <1>1, <1>2, <1>3, <1>8 DEF BreaksOK
<1>10. \A p \in BrokenPages(pb) : p \in Page /\ used_page(d, p)
  BY <1>1, PageRanges DEF HeapUsed, BrokenPages, pb
<1>11. ASSUME NEW p \in BrokenPages(new_break)
       PROVE  T[p] # CLEAR_PAGE
  <2>1. /\ p \in HeapPages /\ p \in Page /\ p \in Int /\ EndPage(pb) \in Int
        /\ p < end \/ (p = end /\ OFFSET(new_break) # 0)
    BY <1>7, <1>8, PageRanges, MemoryAssumption DEF BrokenPages, HeapPages, USR_P_HEAPSTART
  <2>2. p < PAGE(pb) \/ (p = PAGE(pb) /\ OFFSET(pb) # 0)
    BY <1>7, <2>1
  <2>3. used_page(d, p)
    BY <1>10, <2>1, <2>2 DEF BrokenPages
  <2>4. p \notin dropped
    BY <1>6, <1>7, <2>1
  <2> QED  BY <1>6, <2>1, <2>3, <2>4 DEF used_page
<1> QED  BY <1>1, <1>2, <1>9, <1>11, HeapSbrk

(* A heap starts empty, at the beginning of its first page.                 *)
LEMMA HeapInit ==
  ASSUME Init
  PROVE  HeapInv
<1>1. MemInv
  BY MemInit
<1>2. TypeOK
  BY <1>1, MemInvParts
<1>3. \A i \in Dir : program_breaks[i] = HeapStart
  BY DEF Init, InitBreaks
<1>4. HeapStart \in Nat /\ InHeap(HeapStart)
  <2> DEFINE n == TOTAL_PAGES_ENTRIES + USR_P_HEAPSTART
             m == 2 * TOTAL_PAGES_ENTRIES
  <2>1. n \in Nat /\ m \in Nat /\ n < m /\ PAGE_SIZE \in Nat /\ PAGE_SIZE > 0
    BY MemoryAssumption DEF USR_P_HEAPSTART
  <2> HIDE DEF n, m
  <2>2. n * PAGE_SIZE < m * PAGE_SIZE /\ n * PAGE_SIZE \in Nat
    BY <2>1
  <2>3. HeapStart = n * PAGE_SIZE
    BY DEF HeapStart, n
  <2>4. HeapStart <= HeapStart
    BY <2>2, <2>3
  <2> QED  BY <2>2, <2>3, <2>4 DEF InHeap, m
<1>5. PAGE(HeapStart) = USR_P_HEAPSTART /\ OFFSET(HeapStart) = 0
  <2> DEFINE n == TOTAL_PAGES_ENTRIES + USR_P_HEAPSTART
             a == HeapStart \div PAGE_SIZE
             r == OFFSET(HeapStart)
             P == PAGE_SIZE
  <2>1. /\ n \in Nat /\ P \in Nat \ {0} /\ a \in Nat /\ r \in 0 .. P - 1
        /\ HeapStart = P * a + r /\ HeapStart = n * P
    <3>1. n \in Nat /\ P \in Nat \ {0} /\ HeapStart = n * P
      BY MemoryAssumption DEF USR_P_HEAPSTART, HeapStart
    <3> QED  BY <1>4, <3>1, Division
  <2> HIDE DEF n, a, r, P
  <2>2. ~ (a < n)
    <3> SUFFICES ASSUME a + 1 <= n PROVE FALSE
      BY <2>1
    <3>1. P * (a + 1) <= P * n /\ P * (a + 1) = P * a + P /\ P * n = n * P
      BY <2>1
    <3> QED  BY <2>1, <3>1
  <2>3. ~ (n < a)
    <3> SUFFICES ASSUME n + 1 <= a PROVE FALSE
      BY <2>1
    <3>1. P * (n + 1) <= P * a /\ P * (n + 1) = P * n + P /\ P * n = n * P
      BY <2>1
    <3> QED  BY <2>1, <3>1
  <2>4. a = n
    BY <2>1, <2>2, <2>3
  <2>5. r = 0
    BY <2>1, <2>4
  <2>6. EndPage(HeapStart) = USR_P_HEAPSTART
    BY <2>4, MemoryAssumption DEF EndPage, n, a, USR_P_HEAPSTART
  <2> QED  BY <1>4, <2>5, <2>6, PageInHeap DEF r
<1>6. BreaksOK
  BY <1>3, <1>4 DEF BreaksOK
<1>7. HeapUsed
  <2>1. BrokenPages(HeapStart) = {}
    BY <1>5, MemoryAssumption DEF BrokenPages, HeapPages, USR_P_HEAPSTART
  <2>2. \A t \in Live : parent_break(t) = HeapStart
    BY <1>2, <1>3, LiveTask DEF parent_break
  <2> QED  BY <2>1, <2>2 DEF HeapUsed
<1> QED  BY <1>1, <1>6, <1>7 DEF HeapInv

(* Every system call keeps the heaps mapped.                                *)
LEMMA HeapStep == NoWrap /\ HeapInv /\ [Next]_vars => HeapInv'
<1> SUFFICES ASSUME NoWrap, HeapInv, [Next]_vars PROVE BreaksOK' /\ HeapUsed'
  BY MemStep DEF HeapInv
<1>1. TypeOK /\ TasksOK /\ BreaksOK /\ HeapUsed
  BY MemInvParts DEF HeapInv
<1>2. CASE UNCHANGED vars
  <2>1. /\ Live' = Live
        /\ UNCHANGED <<pt, program_breaks, dir_pages_baseAddr, program_break>>
    BY <1>2 DEF vars, Live, Free, Lost
  <2> QED  BY <1>1, <2>1, HeapSame DEF BreaksOK
<1>3. CASE Next
  <2> PICK t \in Live :
        \/ \E p \in Page, b \in Byte : write(t, p, b) \/ copy_to_user(t, p, b)
        \/ sys_clone(t)
        \/ sys_fork(t)
        \/ sys_exit(t)
        \/ \E inc \in Increments : sbrk_grow(t, inc) \/ sbrk_shrink(t, inc)
    BY <1>3 DEF Next
  <2>1. CASE \E p \in Page, b \in Byte : write(t, p, b) \/ copy_to_user(t, p, b)
    <3>1. /\ Live' = Live
          /\ UNCHANGED <<pt, program_breaks, dir_pages_baseAddr, program_break>>
      BY <2>1 DEF write, copy_to_user, store, tableVars, Live, Free, Lost
    <3> QED  BY <1>1, <3>1, HeapSame DEF BreaksOK
  <2>2. CASE sys_clone(t)
    <3>1. /\ freequeue # <<>> /\ freequeue' = Tail(freequeue) /\ abandoned' = abandoned
          /\ dir_pages_baseAddr' = [dir_pages_baseAddr EXCEPT ![new_pcb] = dir_pages_baseAddr[t]]
          /\ program_break' = [program_break EXCEPT ![new_pcb] = program_break[t]]
          /\ UNCHANGED <<pt, program_breaks>>
      BY <2>2 DEF sys_clone, new_pcb
    <3>2. \A u \in Task : u \in Live' <=> u \in Live \/ u = new_pcb
      BY <1>1, <3>1, TakeTask
    <3>3. Live' \subseteq Task /\ new_pcb \in Task
      BY <1>1, <3>1, TakeTask, FirstTask
    <3>4. \A u \in Live' : \E s \in Live : /\ dir_pages_baseAddr'[u] = dir_pages_baseAddr[s]
                                           /\ program_break'[u] = program_break[s]
      BY <1>1, <3>1, <3>2, <3>3 DEF TypeOK
    <3> QED  BY <1>1, <3>1, <3>4, HeapSame DEF BreaksOK
  <2>3. CASE sys_fork(t)
    BY <2>3, HeapFork
  <2>4. CASE sys_exit(t)
    BY <2>4, HeapExit
  <2>5. CASE \E inc \in Increments : sbrk_grow(t, inc) \/ sbrk_shrink(t, inc)
    BY <2>5, HeapGrow, HeapShrink
  <2> QED  BY <2>1, <2>2, <2>3, <2>4, <2>5
<1> QED  BY <1>2, <1>3

(* HeapInv is an invariant, if no increment wraps around.                    *)
LEMMA HeapInvAlways ==
  ASSUME NoWrap
  PROVE  Spec => []HeapInv
<1>1. Init => HeapInv
  BY HeapInit
<1>2. HeapInv /\ [Next]_vars => HeapInv'
  BY HeapStep
<1> QED  BY <1>1, <1>2, PTL DEF Spec

(* Every page of a heap below its break has an entry, to a frame marked     *)
(* used while no directory has been given out twice: user code can touch    *)
(* its whole heap, whatever sbrk, fork and exit did (sys_sbrk, sys_fork).   *)
(* It needs what sbrk does not check: that no increment takes a break below *)
(* address 0, or around the end of the address space.                       *)
THEOREM HeapsAreMapped ==
  ASSUME NoWrap
  PROVE  Spec => []HeapIsMapped
<1>1. HeapInv => HeapIsMapped
  <2> SUFFICES ASSUME HeapInv, NEW t \in Live, NEW p \in BrokenPages(parent_break(t))
               PROVE  /\ used_page(dir_pages_baseAddr[t], p)
                      /\ reused \/ pt[dir_pages_baseAddr[t]][p] \in phys_mem
    BY DEF HeapIsMapped
  <2>1. FramesOK /\ HeapUsed
    BY MemInvParts DEF HeapInv
  <2>2. used_page(dir_pages_baseAddr[t], p)
    BY <2>1 DEF HeapUsed
  <2>3. Own(t, p) /\ p \in Page
    BY <2>2, PageRanges DEF Own, BrokenPages
  <2> QED  BY <2>1, <2>2, <2>3 DEF FramesOK
<1> QED  BY <1>1, HeapInvAlways, PTL
=============================================================================
