------------------------------ MODULE GetStats ------------------------------
(***************************************************************************)
(* sys_get_stats and getStructPID: the search for a task by its PID, which *)
(* takes the lists apart while it walks round them.  It runs with          *)
(* interrupts masked, so that nothing else happens meanwhile; here each    *)
(* turn of its loop is a step, because whether the loop ends is the point. *)
(* A task and its PID are named by the address of its field list.          *)
(***************************************************************************)
EXTENDS ListHead, SequencesExt

CONSTANTS
  readyqueue, keyboardqueue,
  semqueues      \* the field semqueue of each semaphore

ASSUME GetStatsAssumption ==
  /\ Heads = {readyqueue, keyboardqueue} \cup semqueues
  /\ readyqueue # keyboardqueue /\ {readyqueue, keyboardqueue} \cap semqueues = {}

VARIABLES
  current,    \* the task that makes the call
  pc,         \* where it is: "user", "search", "loop", "return"
  pid,        \* the PID it asks for
  queue,      \* the list getStructPID searches
  first,      \* its first entry
  found, desired

searchVars == <<pid, queue, first, found, desired>>
getVars == <<vars, current, pc, searchVars>>

GetInit ==
  /\ Init
  /\ current \in Entries
  /\ pc = "user"
  /\ pid = NULL /\ queue = readyqueue /\ first = NULL
  /\ found = FALSE /\ desired = NULL
-----------------------------------------------------------------------------
(* Between two calls the rest of the kernel works on the lists and switches *)
(* tasks; the one that runs is in no list.                                  *)
other_calls ==
  /\ pc = "user"
  /\ Next
  /\ current' \in Unlinked'
  /\ UNCHANGED <<pc, searchVars>>

(* sys_get_stats(p); NULL stands for a PID that no task has. *)
sys_get_stats(p) ==
  /\ pc = "user"
  /\ pc' = "search"
  /\ pid' = p
  /\ queue' = readyqueue
  /\ UNCHANGED <<vars, current, first, found, desired>>

(* The calling task is looked at first, and then the first of the list. *)
search_current ==
  /\ pc = "search"
  /\ current = pid
  /\ found' = TRUE
  /\ desired' = current
  /\ pc' = "return"
  /\ UNCHANGED <<vars, current, pid, queue, first>>

search_empty ==
  /\ pc = "search"
  /\ current # pid
  /\ list_empty(links, queue)
  /\ found' = FALSE
  /\ pc' = "return"
  /\ UNCHANGED <<vars, current, pid, queue, first, desired>>

(* Seeded fault: the comparison with the first task is forgotten. *)
search_first_unchecked ==
  /\ pc = "search"
  /\ current # pid
  /\ ~ list_empty(links, queue)
  /\ first' = list_first(links, queue)
  /\ found' = FALSE
  /\ pc' = "loop"
  /\ UNCHANGED <<vars, current, pid, queue, desired>>

search_first ==
  /\ pc = "search"
  /\ current # pid
  /\ ~ list_empty(links, queue)
  /\ first' = list_first(links, queue)
  /\ IF first' = pid
     THEN found' = TRUE /\ desired' = pid /\ UNCHANGED links
     ELSE /\ found' = FALSE
          /\ links' = list_add_tail(list_del(links, queue), first', queue)
          /\ UNCHANGED desired
  /\ pc' = "loop"
  /\ UNCHANGED <<order, current, pid, queue>>

(* A turn of the loop.  When act is NULL its PID is read from the filler of *)
(* the empty page, which is not the PID of a task.                          *)
search_turn ==
  /\ pc = "loop"
  /\ first # list_first(links, queue)
  /\ LET act == list_first(links, queue)
     IN /\ IF act = pid /\ act # NULL
           THEN found' = TRUE /\ desired' = act
           ELSE UNCHANGED <<found, desired>>
        /\ links' = list_add_tail(list_del(links, queue), act, queue)
  /\ UNCHANGED <<order, current, pc, pid, queue, first>>

search_end ==
  /\ pc = "loop"
  /\ first = list_first(links, queue)
  /\ pc' = "return"
  /\ UNCHANGED <<vars, current, searchVars>>

(* A task that is not in readyqueue is searched for in keyboardqueue. *)
get_stats_again ==
  /\ pc = "return"
  /\ ~ found /\ queue = readyqueue
  /\ queue' = keyboardqueue
  /\ pc' = "search"
  /\ UNCHANGED <<vars, current, pid, first, found, desired>>

get_stats_return ==
  /\ pc = "return"
  /\ found \/ queue = keyboardqueue
  /\ pc' = "user"
  /\ UNCHANGED <<vars, current, searchVars>>

GetStep ==
  \/ search_current
  \/ search_empty
  \/ search_first
  \/ search_turn
  \/ search_end
  \/ get_stats_again
  \/ get_stats_return

GetNext ==
  \/ other_calls
  \/ \E p \in Entries \cup {NULL} : sys_get_stats(p)
  \/ GetStep

GetSpec == GetInit /\ [][GetNext]_getVars

(* Kernel code that has the CPU goes on: interrupts are masked. *)
GetLiveSpec == GetSpec /\ WF_getVars(GetStep)
-----------------------------------------------------------------------------
(* The tasks there are, but for the idle task: one runs, the others are     *)
(* ready or wait for something.                                             *)
Existing == {current} \cup UNION {ToSet(order[h]) : h \in Heads}

(* When sys_get_stats comes back it has the answer (getStructPID): a task   *)
(* it has found exists and is the one that was asked for.  It tells "There  *)
(* is no task with the specified pid" (errno.h) not only where that is so,  *)
(* but also of a task that waits at a semaphore, and of no other.           *)
AnswerIsRight ==
  pc = "return" =>
    /\ found => pid \in Existing /\ desired = pid
    /\ ~ found /\ queue = keyboardqueue =>
         pid \notin Existing \/ \E s \in semqueues : pid \in ToSet(order[s])

(* The lists are whole whenever user code runs: whatever was linked and     *)
(* unlinked, and whatever searches came back, the pointers lead through     *)
(* exactly the tasks in each list, both ways (list_add, list_del).          *)
ListsIntact == pc = "user" => PointersFollowOrder

(* sched.c: "Get task_struct of the process from the queue with the         *)
(* especified PID".  The search comes to an end.                            *)
SearchEnds == pc = "search" ~> pc = "user"
=============================================================================
