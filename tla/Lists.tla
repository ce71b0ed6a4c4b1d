--------------------------------- MODULE Lists ---------------------------------
(***************************************************************************)
(* The scheduler of ZeOS over the lists it really uses: the circular,      *)
(* doubly linked lists of list.c, threaded through the PCBs.               *)
(*                                                                         *)
(* A PCB has one pair of pointers for the three lists it can be in.  A PCB *)
(* in no list is told by its two pointers being NULL, which list_del sees  *)
(* to; sys_fork copies the pointers of the parent over those of the child. *)
(* The module shows that all of it amounts to the sequences of Sched.      *)
(***************************************************************************)
EXTENDS Integers, Sequences, FiniteSets

CONSTANTS NR_TASKS, QUANTUM, MAX_PID  \* as in Sched

ASSUME ListsAssumption ==
  /\ NR_TASKS \in Nat /\ NR_TASKS >= 2
  /\ QUANTUM \in Nat \ {0}
  /\ MAX_PID \in Nat

VARIABLES
  links,  \* the pointers next and prev of every PCB and of every list head
  current, PID, nice, quantum_ticks, nextPID  \* as in Sched

listVars == <<links, current, PID, nice, quantum_ticks, nextPID>>

Task   == 0 .. NR_TASKS - 1
NoTask == -1
High   == 0
Low    == 1

freequeue     == NR_TASKS      \* the heads of the three lists
readyqueue    == NR_TASKS + 1
priorityqueue == NR_TASKS + 2

ListHead == {freequeue, readyqueue, priorityqueue}
Node  == Task \cup ListHead
NULL  == -1

-----------------------------------------------------------------------------
(* list.c and list.h, on a value l of links.                               *)

INIT_LIST_HEAD(l, h) ==
  [next |-> [l.next EXCEPT ![h] = h], prev |-> [l.prev EXCEPT ![h] = h]]

(* Mutant of insert: the element after the new one is not linked back.     *)
insert_one_way(l, new, before, after) ==
  [next |-> [l.next EXCEPT ![new] = after, ![before] = new],
   prev |-> [l.prev EXCEPT ![new] = before]]

(* __list_add.                                                             *)
insert(l, new, before, after) ==
  [next |-> [l.next EXCEPT ![new] = after, ![before] = new],
   prev |-> [l.prev EXCEPT ![after] = new, ![new] = before]]

list_add(l, new, head) == insert(l, new, head, l.next[head])

(* Mutant of list_add_tail: the list is used as a stack.                   *)
list_add_tail_front(l, new, head) == list_add(l, new, head)

list_add_tail(l, new, head) == insert(l, new, l.prev[head], head)

(* Mutant of list_del: the pointers of the element stay as they were.      *)
list_del_keeps_pointers(l, e) ==
  [next |-> [l.next EXCEPT ![l.prev[e]] = l.next[e]],
   prev |-> [l.prev EXCEPT ![l.next[e]] = l.prev[e]]]

list_del(l, e) ==
  [next |-> [l.next EXCEPT ![l.prev[e]] = l.next[e], ![e] = NULL],
   prev |-> [l.prev EXCEPT ![l.next[e]] = l.prev[e], ![e] = NULL]]

list_empty(l, head) == l.next[head] = head

(* The first element, or the head itself when there is none.               *)
list_first(l, head) == l.next[head]

-----------------------------------------------------------------------------
(* The scheduler on these lists.                                           *)

(* Every PCB, its pointers still NULL, is pushed on freequeue.             *)
init_sched ==
  LET none  == [next |-> [n \in Node |-> NULL], prev |-> [n \in Node |-> NULL]]
      heads == INIT_LIST_HEAD(INIT_LIST_HEAD(INIT_LIST_HEAD(none,
                  freequeue), readyqueue), priorityqueue)
      pushed[n \in 0 .. NR_TASKS] ==
        IF n = 0 THEN heads ELSE list_add(pushed[n - 1], n - 1, freequeue)
  IN  pushed[NR_TASKS]

(* init_idle and init_task1 take the first one each.                       *)
Init ==
  /\ LET noIdle == list_del(init_sched, list_first(init_sched, freequeue))
     IN  /\ current = list_first(noIdle, freequeue)
         /\ links = list_del(noIdle, list_first(noIdle, freequeue))
  /\ PID = [t \in Task |-> IF t = current THEN 1 ELSE 0]
  /\ nice = [t \in Task |-> IF t = current THEN Low ELSE High]
  /\ quantum_ticks = -1
  /\ nextPID = 2

(* A task that runs, and is in no list, is only put in one.                *)
update_process_state_rr(l, t, dst) ==
  LET unlinked == l.next[t] = NULL /\ l.prev[t] = NULL
  IN  list_add_tail(IF unlinked THEN l ELSE list_del(l, t), t, dst)

(* The list head of an empty list is taken for a task, deleted included.   *)
sched_next_rr(l) ==
  LET chosen == IF nice[current] = Low /\ ~list_empty(l, priorityqueue)
                THEN list_first(l, priorityqueue)
                ELSE list_first(l, readyqueue)
  IN  /\ links' = list_del(l, chosen)
      /\ \/ /\ chosen \in Task
            /\ current' = chosen
            /\ quantum_ticks' = IF nice[current] = High THEN QUANTUM ELSE 5 * QUANTUM
         \/ /\ chosen \in ListHead
            /\ current' = NoTask
            /\ UNCHANGED quantum_ticks

queue_of(class) == IF class = Low THEN readyqueue ELSE priorityqueue

schedule ==
  /\ current # NoTask
  /\ \/ /\ quantum_ticks - 1 > 0
        /\ quantum_ticks' = quantum_ticks - 1
        /\ UNCHANGED <<links, current>>
     \/ /\ quantum_ticks - 1 <= 0
        /\ list_empty(links, readyqueue) /\ list_empty(links, priorityqueue)
        /\ quantum_ticks' = QUANTUM
        /\ UNCHANGED <<links, current>>
     \/ /\ quantum_ticks - 1 <= 0
        /\ ~list_empty(links, readyqueue) \/ ~list_empty(links, priorityqueue)
        /\ sched_next_rr(update_process_state_rr(links, current,
                                                 queue_of(nice[current])))
  /\ UNCHANGED <<PID, nice, nextPID>>

(* copy_data of the PCB of the parent, pointers included.                  *)
copy_pointers(l, from, to) ==
  [next |-> [l.next EXCEPT ![to] = l.next[from]],
   prev |-> [l.prev EXCEPT ![to] = l.prev[from]]]

(* An empty freequeue makes sys_fork fail with EAGAIN and change nothing.  *)
sys_fork ==
  /\ current # NoTask
  /\ ~list_empty(links, freequeue)
  /\ LET child  == list_first(links, freequeue)
         copied == copy_pointers(list_del(links, child), current, child)
     IN  /\ nice' = [nice EXCEPT ![child] = nice[current]]
         /\ \/ /\ links' = list_add(copied, child, freequeue)   \* ENOMEM
               /\ PID' = [PID EXCEPT ![child] = PID[current]]
               /\ UNCHANGED nextPID
            \/ /\ nextPID <= MAX_PID
               /\ links' = list_add_tail(copied, child, queue_of(nice[current]))
               /\ PID' = [PID EXCEPT ![child] = nextPID]
               /\ nextPID' = nextPID + 1
  /\ UNCHANGED <<current, quantum_ticks>>

sys_exit ==
  /\ current # NoTask
  /\ PID' = [PID EXCEPT ![current] = -1]
  /\ sched_next_rr(update_process_state_rr(links, current, freequeue))
  /\ UNCHANGED <<nice, nextPID>>

set_nice(v) ==
  /\ current # NoTask
  /\ nice' = [nice EXCEPT ![current] = v]
  /\ UNCHANGED <<links, current, PID, quantum_ticks, nextPID>>

Next == schedule \/ sys_fork \/ sys_exit \/ \E v \in {High, Low} : set_nice(v)

Spec == Init /\ [][Next]_listVars

-----------------------------------------------------------------------------
(* Properties *)

(* The nodes met by following next from a head, up to anything that is not *)
(* a PCB, and the elements of a list, first one first.                     *)
walk(l, head) ==
  LET at[n \in 0 .. NR_TASKS] ==
        IF n = 0 THEN l.next[head]
        ELSE IF at[n - 1] \in Task THEN l.next[at[n - 1]] ELSE at[n - 1]
  IN  at

elements(l, head) ==
  LET at == walk(l, head)
  IN  [i \in 1 .. Cardinality({n \in 0 .. NR_TASKS - 1 : at[n] \in Task}) |-> at[i - 1]]

(* The two directions of every list agree, and a PCB is in a list or has   *)
(* both of its pointers NULL, never half of them; a head always is in its  *)
(* own list, until sched_next_rr deletes one.                              *)
WellLinked ==
  \A n \in Node :
    \/ n \in Task /\ links.next[n] = NULL /\ links.prev[n] = NULL
    \/ n \in ListHead /\ current = NoTask
    \/ /\ links.next[n] \in Node /\ links.prev[n] \in Node
       /\ links.prev[links.next[n]] = n
       /\ links.next[links.prev[n]] = n

(* The running task is known by its NULL pointers: the test by which       *)
(* update_process_state_rr knows that there is nothing to unlink is right, *)
(* and the pointers that a child inherits are those of no list.            *)
RunningUnlinked ==
  current # NoTask => links.next[current] = NULL /\ links.prev[current] = NULL

Scheduler == INSTANCE Sched WITH
  freequeue <- elements(links, freequeue),
  readyqueue <- elements(links, readyqueue),
  priorityqueue <- elements(links, priorityqueue)

(* The pointers implement the sequences: every handler of Sched is what    *)
(* its list operations do, in the order of the elements too.               *)
ImplementsSched == Scheduler!Spec
=============================================================================
