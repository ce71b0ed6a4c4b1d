-------------------------------- MODULE Stats --------------------------------
(***************************************************************************)
(* The statistics of ZeOS: the ticks of processor time that every process  *)
(* spends in its program, in the system and waiting, and how often it got  *)
(* the CPU.  The handlers of entry.S and inner_task_switch call one of     *)
(* three routines whenever a process changes from one to another, and each *)
(* reads the clock twice: for the time that ends, and for the start of the *)
(* next.                                                                   *)
(*                                                                         *)
(* The module extends Sched: who runs before and after a handler decides   *)
(* whose statistics its parts write.  Time goes on while a handler runs.   *)
(***************************************************************************)
EXTENDS Sched

CONSTANTS
  MAX_TIME,    \* bounds of the model: the last tick of get_ticks,
  MAX_TICKS,   \* and the last of zeos_ticks
  USER_FIRST_PAGE, NUM_PAG_CODE, NUM_PAG_DATA,
  BUFFERS      \* the first and the last page of the arguments of get_stats

ASSUME StatsAssumption ==
  /\ {MAX_TIME, MAX_TICKS, USER_FIRST_PAGE, NUM_PAG_CODE, NUM_PAG_DATA} \subseteq Nat
  /\ BUFFERS \subseteq Nat \X Nat

VARIABLES
  now,         \* what get_ticks returns, a count of its own
  zeos_ticks,  \* the interrupts of the clock
  estat,       \* struct stats of every PCB
  birth,       \* (for the properties) when the process of a PCB began,
  enomem       \* and whether a fork failed for lack of frames

statsOnly == <<now, zeos_ticks, estat, birth, enomem>>
statsVars == <<schedVars, statsOnly>>

Fresh(time) == [user |-> 0, system |-> 0, ready |-> 0, elapsed |-> time,
                trans |-> 0, remaining |-> QUANTUM]

StatsInit ==
  /\ Init
  /\ now = 0 /\ zeos_ticks = 0
  /\ estat = [t \in Task |-> [Fresh(0) EXCEPT !.remaining = IF t = Task1 THEN QUANTUM ELSE 0]]
  /\ birth = [t \in Task |-> 0]
  /\ enomem = FALSE

(* What n reads of the clock in a row may give, at most a tick apart.      *)
Reads(n) ==
  {[k \in 1 .. n |-> now + Cardinality(S \cap 1 .. k)] :
     S \in {S \in SUBSET (1 .. n) : now + Cardinality(S) <= MAX_TIME}}

(* The three routines, on statistics s, with q ticks left of the slice:    *)
(* the two reads are t and start.                                          *)
user_to_sys(s, q, t, start) ==
  [s EXCEPT !.user = @ + t - s.elapsed, !.elapsed = start, !.remaining = q]

sys_to_user_ready(s, q, t, start) ==
  [s EXCEPT !.system = @ + t - s.elapsed, !.elapsed = start, !.remaining = q]

(* Mutant of ready_to_sys: the wait is not closed.                         *)
ready_to_sys_open(s, q, t, start) ==
  [s EXCEPT !.ready = @ + t - s.elapsed, !.remaining = q, !.trans = @ + 1]

ready_to_sys(s, q, t, start) ==
  [s EXCEPT !.ready = @ + t - s.elapsed, !.elapsed = start, !.remaining = q,
            !.trans = @ + 1]

(* The start of a handler.                                                 *)
entered(t) == [estat EXCEPT ![current] = user_to_sys(@, quantum_ticks, t[1], t[2])]

(* Its end, when the same process goes on, with the last reads of t.       *)
leave(e, t) ==
  LET n == Len(t)
  IN  /\ estat' = [e EXCEPT ![current] =
                     sys_to_user_ready(@, quantum_ticks', t[n - 1], t[n])]
      /\ now' = t[n]

(* Mutant of switch: the process that enters is not told that it waited.   *)
switch_unseen(e, t) ==
  LET out == [e EXCEPT ![current] = sys_to_user_ready(@, quantum_ticks', t[3], t[4])]
  IN  /\ estat' = IF ~Running' THEN out
                  ELSE [out EXCEPT ![current'] =
                          sys_to_user_ready(@, quantum_ticks', t[7], t[8])]
      /\ now' = t[8]

(* Mutant of switch: the process that enters runs its routines before its  *)
(* slice is set, and is told the ticks of the one that leaves.             *)
switch_before_slice(e, t) ==
  LET out == [e EXCEPT ![current] = sys_to_user_ready(@, quantum_ticks', t[3], t[4])]
  IN  /\ estat' = IF ~Running' THEN out
                  ELSE [out EXCEPT ![current'] =
                          sys_to_user_ready(ready_to_sys(@, quantum_ticks, t[5], t[6]),
                                            quantum_ticks, t[7], t[8])]
      /\ now' = t[8]

(* inner_task_switch, then the end of the handler in which the process     *)
(* that enters had left the CPU, or of the fork that made it.              *)
switch(e, t) ==
  LET out == [e EXCEPT ![current] = sys_to_user_ready(@, quantum_ticks', t[3], t[4])]
  IN  /\ estat' = IF ~Running' THEN out
                  ELSE [out EXCEPT ![current'] =
                          sys_to_user_ready(ready_to_sys(@, quantum_ticks', t[5], t[6]),
                                            quantum_ticks', t[7], t[8])]
      /\ now' = t[8]

(* A slice that is renewed counts as a transition.                         *)
counted(e) ==
  IF quantum_ticks - 1 <= 0 /\ readyqueue = <<>> /\ priorityqueue = <<>>
  THEN [e EXCEPT ![current].trans = @ + 1] ELSE e

clock_handler ==
  /\ zeos_ticks < MAX_TICKS
  /\ zeos_ticks' = zeos_ticks + 1
  /\ schedule
  /\ \/ /\ current' = current
        /\ \E t \in Reads(4) : leave(counted(entered(t)), t)
     \/ /\ current' # current
        /\ \E t \in Reads(8) : switch(entered(t), t)
  /\ UNCHANGED <<birth, enomem>>

(* A fork without frames leaves the copy of the statistics in the free     *)
(* PCB; the child that is made begins with its own.                        *)
fork ==
  /\ UNCHANGED zeos_ticks
  /\ \/ /\ fork_EAGAIN
        /\ \E t \in Reads(4) : leave(entered(t), t)
        /\ UNCHANGED <<birth, enomem>>
     \/ /\ fork_ENOMEM
        /\ \E t \in Reads(4) :
             leave([entered(t) EXCEPT ![Head(freequeue)] = entered(t)[current]], t)
        /\ enomem' = TRUE
        /\ UNCHANGED birth
     \/ /\ fork_child
        /\ \E t \in Reads(5) :
             /\ leave([entered(t) EXCEPT ![Head(freequeue)] = Fresh(t[3])], t)
             /\ birth' = [birth EXCEPT ![Head(freequeue)] = t[3]]
        /\ UNCHANGED enomem

exit ==
  /\ sys_exit
  /\ \E t \in Reads(8) : switch(entered(t), t)
  /\ UNCHANGED <<zeos_ticks, birth, enomem>>

(* The pages from first to last are those of user memory: the page after   *)
(* the data is let through.                                                *)
access_ok(first, last) ==
  /\ first <= last
  /\ first >= USER_FIRST_PAGE
  /\ last <= USER_FIRST_PAGE + NUM_PAG_CODE + NUM_PAG_DATA

(* The ticks left are those of the caller, whoever is asked about.         *)
sys_get_stats(p, b) ==
  LET t == get_task(p)
      asked(e) == IF access_ok(b[1], b[2]) /\ p >= 0 /\ t # NoTask
                  THEN [e EXCEPT ![t].remaining = quantum_ticks] ELSE e
  IN  /\ Running
      /\ UNCHANGED schedVars
      /\ \E r \in Reads(4) : leave(asked(entered(r)), r)
      /\ UNCHANGED <<zeos_ticks, birth, enomem>>

(* set_fps, and with it the handlers that change nothing here.             *)
other_call ==
  /\ \E v \in {High, Low} : set_nice(v)
  /\ \E t \in Reads(4) : leave(entered(t), t)
  /\ UNCHANGED <<zeos_ticks, birth, enomem>>

StatsNext ==
  \/ clock_handler
  \/ fork
  \/ exit
  \/ \E p \in -1 .. nextPID, b \in BUFFERS : sys_get_stats(p, b)
  \/ other_call

StatsSpec == StatsInit /\ [][StatsNext]_statsVars

-----------------------------------------------------------------------------
(* Properties *)

Charged(t) == estat[t].user + estat[t].system

(* No tick of a process's life is counted twice, as time of its program,   *)
(* of the system or of waiting, although each is closed by a routine that  *)
(* another handler, or another process, starts.                            *)
NoTickTwice ==
  \A t \in Live : Charged(t) + estat[t].ready <= now - birth[t]

(* The time of the processor that the process of a PCB has had, if it has  *)
(* one.                                                                    *)
TimeShare(t) == IF t \in Live THEN Charged(t) ELSE 0

(* The sum of f over all tasks.                                            *)
SumOver(f) ==
  LET sum[n \in 0 .. NR_TASKS] == IF n = 0 THEN 0 ELSE sum[n - 1] + f[n - 1]
  IN  sum[NR_TASKS]

(* There is one processor: no tick of it is charged to two processes.      *)
ChargedOnce == SumOver([t \in Task |-> TimeShare(t)]) <= now

(* The statistics of the process that runs hold the ticks left of the      *)
(* slice it runs in.                                                       *)
RemainingTold == Running => estat[current].remaining = quantum_ticks

(* Every handler ends with that true of the process that runs after it.    *)
(* At a switch this is the process let in: what was written into its       *)
(* statistics while it waited, when it was switched out or when another    *)
(* process asked about it with get_stats, belonged to other slices.        *)
RemainingExact == [][RemainingTold']_statsVars

(* Unless a fork has failed for lack of frames, get_stats finds the live   *)
(* process that has the PID, and no process when it has ended.             *)
StatsExact ==
  ~enomem =>
    \A p \in 1 .. nextPID - 1 :
      LET holders == {t \in Live : PID[t] = p}
      IN  IF holders = {} THEN get_task(p) = NoTask ELSE get_task(p) \in holders
=============================================================================
