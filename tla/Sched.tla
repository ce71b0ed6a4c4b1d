-------------------------------- MODULE Sched --------------------------------
(***************************************************************************)
(* The process table and the scheduler of ZeOS: the task vector of         *)
(* zeOS/sched.c, its three lists (freequeue, readyqueue, priorityqueue),   *)
(* the round robin with two classes, and the system calls of zeOS/sys.c    *)
(* that create, destroy and re-class processes.                            *)
(*                                                                         *)
(* Every entry to the kernel goes through an interrupt gate or sysenter,   *)
(* both of which mask interrupts, so a handler runs to its end without     *)
(* being interrupted: one handler is one action.                           *)
(*                                                                         *)
(* Address spaces are abstracted here to the one thing the scheduler sees  *)
(* of them, whether sys_fork obtained its frames.                          *)
(***************************************************************************)
EXTENDS Integers, Sequences, FiniteSets, FiniteSetsExt, Functions

CONSTANTS
  NR_TASKS,  \* length of the task vector
  QUANTUM,   \* ticks of a time slice
  MAX_PID    \* bound of the model: the last PID sys_fork hands out

ASSUME SchedAssumption ==
  /\ NR_TASKS \in Nat /\ NR_TASKS >= 2
  /\ QUANTUM \in Nat \ {0}
  /\ MAX_PID \in Nat

VARIABLES
  current,        \* the task the stack pointer lies in, or NoTask
  freequeue,      \* the three lists of PCBs, first element first
  readyqueue,
  priorityqueue,
  PID,            \* PID and class of every PCB, free ones included
  nice,
  quantum_ticks,  \* ticks left to the running process
  nextPID

schedVars == <<current, freequeue, readyqueue, priorityqueue, PID, nice,
               quantum_ticks, nextPID>>

Task   == 0 .. NR_TASKS - 1
NoTask == -1   \* the CPU runs on something that is not a task

(* init_sched pushes task[0], task[1], ... on the front of freequeue, so   *)
(* init_idle and init_task1 take the last two elements of the vector.      *)
Idle  == NR_TASKS - 1
Task1 == NR_TASKS - 2

High == 0      \* nice = 0: priority
Low  == 1      \* nice = 1: no priority

(* The CPU has a process to run: the handlers are entered from it.         *)
Running == current # NoTask

-----------------------------------------------------------------------------
(* The state main() leaves when it enters user mode: a tick between that   *)
(* and its enabling of interrupts leaves 0 in quantum_ticks (see Boot).    *)
Init ==
  /\ freequeue = [i \in 1 .. NR_TASKS - 2 |-> NR_TASKS - 2 - i]
  /\ readyqueue = <<>>
  /\ priorityqueue = <<>>
  /\ current = Task1
  /\ PID = [t \in Task |-> IF t = Task1 THEN 1 ELSE 0]
  /\ nice = [t \in Task |-> IF t = Task1 THEN Low ELSE High]
  /\ quantum_ticks \in {-1, 0}
  /\ nextPID = 2

(* The first PCB of the vector with the given PID, free ones included.     *)
get_task(p) ==
  LET found == {t \in Task : PID[t] = p}
  IN  IF found = {} THEN NoTask ELSE Min(found)

(* Mutant of dispatch: the length of the slice depends on the class of the *)
(* task that enters.                                                       *)
dispatch_by_entering(t) ==
  /\ current' = t
  /\ quantum_ticks' = IF nice[t] = High THEN QUANTUM ELSE 5 * QUANTUM

(* task_switch and the quantum of the incoming task, whose length depends  *)
(* on the class of the task that leaves.                                   *)
dispatch(t) ==
  /\ current' = t
  /\ quantum_ticks' = IF nice[current] = High THEN QUANTUM ELSE 5 * QUANTUM

(* Mutants of sched_next_rr: the priority queue first, whoever leaves; the *)
(* queue of the class that leaves.                                         *)
sched_next_priority(rq, pq) ==
  IF pq # <<>>
  THEN /\ dispatch(Head(pq))
       /\ readyqueue' = rq /\ priorityqueue' = Tail(pq)
  ELSE IF rq # <<>>
  THEN /\ dispatch(Head(rq))
       /\ readyqueue' = Tail(rq) /\ priorityqueue' = pq
  ELSE /\ current' = NoTask
       /\ readyqueue' = rq /\ priorityqueue' = pq
       /\ UNCHANGED quantum_ticks

sched_next_own_class(rq, pq) ==
  IF nice[current] = High /\ pq # <<>>
  THEN /\ dispatch(Head(pq))
       /\ readyqueue' = rq /\ priorityqueue' = Tail(pq)
  ELSE IF nice[current] = Low /\ rq # <<>>
  THEN /\ dispatch(Head(rq))
       /\ readyqueue' = Tail(rq) /\ priorityqueue' = pq
  ELSE /\ current' = NoTask
       /\ readyqueue' = rq /\ priorityqueue' = pq
       /\ UNCHANGED quantum_ticks

(* sched_next_rr on the queues rq and pq that its caller leaves.  When the *)
(* chosen list is empty, list_first returns the head of the list itself:   *)
(* what is switched to is no task, with a page directory and a stack read  *)
(* from unrelated memory, and the CPU is lost.                             *)
sched_next_rr(rq, pq) ==
  \/ /\ nice[current] = Low /\ pq # <<>>
     /\ dispatch(Head(pq))
     /\ readyqueue' = rq /\ priorityqueue' = Tail(pq)
  \/ /\ nice[current] = High \/ pq = <<>>
     /\ rq # <<>>
     /\ dispatch(Head(rq))
     /\ readyqueue' = Tail(rq) /\ priorityqueue' = pq
  \/ /\ nice[current] = High \/ pq = <<>>
     /\ rq = <<>>
     /\ current' = NoTask
     /\ readyqueue' = rq /\ priorityqueue' = pq
     /\ UNCHANGED quantum_ticks

(* Mutant of preempt: one queue for the two classes.                       *)
preempt_one_queue == sched_next_rr(Append(readyqueue, current), priorityqueue)

(* The end of a slice: the running task, which is in no list, goes to the  *)
(* tail of the queue of its class.                                         *)
preempt ==
  IF nice[current] = Low
  THEN sched_next_rr(Append(readyqueue, current), priorityqueue)
  ELSE sched_next_rr(readyqueue, Append(priorityqueue, current))

(* Mutant of schedule: the slice of a process that is alone is not renewed. *)
schedule_not_renewed ==
  /\ Running
  /\ \/ /\ quantum_ticks - 1 > 0 \/ (readyqueue = <<>> /\ priorityqueue = <<>>)
        /\ quantum_ticks' = quantum_ticks - 1
        /\ UNCHANGED <<current, readyqueue, priorityqueue>>
     \/ /\ quantum_ticks - 1 <= 0
        /\ readyqueue # <<>> \/ priorityqueue # <<>>
        /\ preempt
  /\ UNCHANGED <<freequeue, PID, nice, nextPID>>

(* The clock interrupt.  A process that is alone has its slice renewed.    *)
schedule ==
  /\ Running
  /\ \/ /\ quantum_ticks - 1 > 0
        /\ quantum_ticks' = quantum_ticks - 1
        /\ UNCHANGED <<current, readyqueue, priorityqueue>>
     \/ /\ quantum_ticks - 1 <= 0
        /\ readyqueue = <<>> /\ priorityqueue = <<>>
        /\ quantum_ticks' = QUANTUM
        /\ UNCHANGED <<current, readyqueue, priorityqueue>>
     \/ /\ quantum_ticks - 1 <= 0
        /\ readyqueue # <<>> \/ priorityqueue # <<>>
        /\ preempt
  /\ UNCHANGED <<freequeue, PID, nice, nextPID>>

(* sys_fork, by its three ways out.  The copy of the parent's PCB precedes *)
(* the allocation of frames, and is not undone when there are not enough.  *)
fork_EAGAIN ==
  /\ Running /\ freequeue = <<>>
  /\ UNCHANGED schedVars

(* Mutant of fork_ENOMEM: the PCB does not go back to freequeue.           *)
fork_ENOMEM_drops_PCB ==
  /\ Running /\ freequeue # <<>>
  /\ freequeue' = Tail(freequeue)
  /\ PID'  = [PID  EXCEPT ![Head(freequeue)] = PID[current]]
  /\ nice' = [nice EXCEPT ![Head(freequeue)] = nice[current]]
  /\ UNCHANGED <<current, readyqueue, priorityqueue, quantum_ticks, nextPID>>

fork_ENOMEM ==
  /\ Running /\ freequeue # <<>>
  /\ PID'  = [PID  EXCEPT ![Head(freequeue)] = PID[current]]
  /\ nice' = [nice EXCEPT ![Head(freequeue)] = nice[current]]
  /\ UNCHANGED <<current, freequeue, readyqueue, priorityqueue,
                 quantum_ticks, nextPID>>

(* Mutant of fork_child: the child keeps the PID copied from the parent.   *)
fork_child_keeps_PID ==
  /\ Running /\ freequeue # <<>>
  /\ nextPID <= MAX_PID
  /\ freequeue' = Tail(freequeue)
  /\ PID'  = [PID  EXCEPT ![Head(freequeue)] = PID[current]]
  /\ nice' = [nice EXCEPT ![Head(freequeue)] = nice[current]]
  /\ nextPID' = nextPID + 1
  /\ IF nice[current] = Low
     THEN /\ readyqueue' = Append(readyqueue, Head(freequeue))
          /\ UNCHANGED priorityqueue
     ELSE /\ priorityqueue' = Append(priorityqueue, Head(freequeue))
          /\ UNCHANGED readyqueue
  /\ UNCHANGED <<current, quantum_ticks>>

fork_child ==
  /\ Running /\ freequeue # <<>>
  /\ nextPID <= MAX_PID
  /\ freequeue' = Tail(freequeue)
  /\ PID'  = [PID  EXCEPT ![Head(freequeue)] = nextPID]
  /\ nice' = [nice EXCEPT ![Head(freequeue)] = nice[current]]
  /\ nextPID' = nextPID + 1
  /\ IF nice[current] = Low
     THEN /\ readyqueue' = Append(readyqueue, Head(freequeue))
          /\ UNCHANGED priorityqueue
     ELSE /\ priorityqueue' = Append(priorityqueue, Head(freequeue))
          /\ UNCHANGED readyqueue
  /\ UNCHANGED <<current, quantum_ticks>>

sys_fork == fork_EAGAIN \/ fork_ENOMEM \/ fork_child

(* Mutant of sys_exit: the dead process keeps its PID.                     *)
sys_exit_keeps_PID ==
  /\ Running
  /\ freequeue' = Append(freequeue, current)
  /\ sched_next_rr(readyqueue, priorityqueue)
  /\ UNCHANGED <<PID, nice, nextPID>>

sys_exit ==
  /\ Running
  /\ PID' = [PID EXCEPT ![current] = -1]
  /\ freequeue' = Append(freequeue, current)
  /\ sched_next_rr(readyqueue, priorityqueue)
  /\ UNCHANGED <<nice, nextPID>>

(* What sys_set_fps does to the scheduler: set_fps(-1) gives up priority,  *)
(* set_fps(n) takes it.                                                    *)
set_nice(v) ==
  /\ Running
  /\ nice' = [nice EXCEPT ![current] = v]
  /\ UNCHANGED <<current, freequeue, readyqueue, priorityqueue, PID,
                 quantum_ticks, nextPID>>

Next ==
  \/ schedule
  \/ sys_fork
  \/ sys_exit
  \/ \E v \in {High, Low} : set_nice(v)

Spec == Init /\ [][Next]_schedVars

(* The timer is programmed at boot and never masked again.                 *)
FairSpec == Spec /\ WF_schedVars(schedule)

-----------------------------------------------------------------------------
(* Properties *)

TypeOK ==
  /\ current \in Task \cup {NoTask}
  /\ freequeue \in Seq(Task)
  /\ readyqueue \in Seq(Task)
  /\ priorityqueue \in Seq(Task)
  /\ PID \in [Task -> Int]
  /\ nice \in [Task -> {High, Low}]
  /\ quantum_ticks \in -1 .. 5 * QUANTUM
  /\ nextPID \in Nat /\ nextPID >= 2

Live == Range(readyqueue) \cup Range(priorityqueue) \cup ({current} \ {NoTask})

(* Every PCB is in exactly one place: it is idle's, it is running, or it   *)
(* is once in one of the three lists.  A fork, an exit or a switch that    *)
(* lost a PCB, or linked one twice, would break it.                        *)
OnePlace ==
  /\ IsInjective(freequeue)
  /\ IsInjective(readyqueue)
  /\ IsInjective(priorityqueue)
  /\ Range(freequeue) \cap Live = {}
  /\ Range(readyqueue) \cap Range(priorityqueue) = {}
  /\ current \notin Range(readyqueue) \cup Range(priorityqueue)
  /\ Idle \notin Range(freequeue) \cup Live
  /\ Task = {Idle} \cup Range(freequeue) \cup Live

(* A waiting process is in the queue of its class, although only the       *)
(* running process can be re-classed and queues are filled in three places *)
(* (sys_fork and the two branches of schedule).                            *)
QueueOfClass ==
  /\ \A t \in Range(readyqueue) : nice[t] = Low
  /\ \A t \in Range(priorityqueue) : nice[t] = High

(* No two live processes have the same PID, and none has the PID of idle,  *)
(* the one of a dead process, or one that sys_fork will still hand out.    *)
LivePIDs ==
  /\ \A t \in Live : PID[t] \in 1 .. nextPID - 1
  /\ \A t, u \in Live : PID[t] = PID[u] => t = u

(* The CPU is only ever lost when no process without priority is waiting:  *)
(* such a process is always an answer for sched_next_rr.                   *)
LostOnlyWithoutReady == ~Running => readyqueue = <<>>

(* The slice given to a process that is let in: five quanta to a priority  *)
(* process; one quantum to one without priority while a priority process   *)
(* waits.                                                                  *)
FairSlice ==
  current' # current /\ Running' =>
    /\ nice[current'] = High => quantum_ticks' = 5 * QUANTUM
    /\ nice[current'] = Low /\ priorityqueue' # <<>> => quantum_ticks' = QUANTUM

(* So a priority process has five sixths of the CPU when it competes with  *)
(* others: sched_next_rr decides the slice and the queue it serves on the  *)
(* process that leaves, and the two choices agree.                         *)
PriorityShare == [][FairSlice]_schedVars

(* No process waits for ever, whatever its class and whatever the others   *)
(* do to theirs, as long as the CPU is not lost and, as in every run of    *)
(* this model, the system creates finitely many processes.                 *)
NoStarvation ==
  \A t \in Task :
    t \in Range(readyqueue) \cup Range(priorityqueue)
      ~> current = t \/ ~Running

(* The CPU is not lost while a process is waiting: there is somebody for   *)
(* sched_next_rr to execute.                                               *)
SomebodyRuns == ~Running => readyqueue = <<>> /\ priorityqueue = <<>>

(* The process table as its users see it: the live processes, their PIDs   *)
(* and which of them runs.                                                 *)
Table == INSTANCE Processes WITH
  First <- Task1, Pids <- 1 .. MAX_PID,
  running <- current,
  pid <- [t \in Live |-> PID[t]],
  used <- 1 .. nextPID - 1

(* Sched implements Processes: a fork adds one process with a PID never    *)
(* used before or nothing at all, an exit removes the running one, a clock *)
(* tick changes at most who runs, and nothing else touches the table.      *)
ImplementsProcesses == Table!Spec
=============================================================================
