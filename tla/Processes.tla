------------------------------ MODULE Processes ------------------------------
(***************************************************************************)
(* What the process management of ZeOS promises to its users, with no      *)
(* lists, classes or slices: a set of live processes, each with a PID of   *)
(* its own that no other process has had before, at most one of which      *)
(* runs.  Processes come from the running one, and only the running one    *)
(* can end.                                                                *)
(***************************************************************************)
EXTENDS Integers, Functions

CONSTANTS
  Task,    \* the slots of the table
  NoTask,  \* what runs when the CPU has been lost
  Idle,    \* the slot of the idle process, which is never live
  First,   \* the slot of the initial process
  Pids     \* the identifiers

VARIABLES
  running,  \* the slot that runs
  pid,      \* the PID of every live slot
  used      \* the PIDs that have been handed out

tableVars == <<running, pid, used>>

Init == running = First /\ pid = [t \in {First} |-> 1] /\ used = {1}

Fork ==
  \E t \in Task \ (DOMAIN pid \cup {Idle}), p \in Pids \ used :
    /\ running # NoTask
    /\ pid' = [s \in DOMAIN pid \cup {t} |-> IF s = t THEN p ELSE pid[s]]
    /\ used' = used \cup {p}
    /\ UNCHANGED running

(* The CPU passes to another live process, or is lost.                     *)
Switch ==
  /\ running # NoTask
  /\ running' \in (DOMAIN pid \ {running}) \cup {NoTask}
  /\ UNCHANGED <<pid, used>>

Exit ==
  /\ running # NoTask
  /\ running' \in (DOMAIN pid \ {running}) \cup {NoTask}
  /\ pid' = Restrict(pid, DOMAIN pid \ {running})
  /\ UNCHANGED used

Next == Fork \/ Switch \/ Exit

Spec == Init /\ [][Next]_tableVars
=============================================================================
