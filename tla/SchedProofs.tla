----------------------------- MODULE SchedProofs -----------------------------
(***************************************************************************)
(* The safety invariants of Sched, proved for every number of tasks, every *)
(* quantum and every bound on the PIDs.  OnePlace, QueueOfClass and        *)
(* LivePIDs need one another (a PCB that were in two lists could be re-    *)
(* classed while it waits), so they are proved together, as the inductive  *)
(* invariant IInv.                                                         *)
(***************************************************************************)
EXTENDS Sched, WellFoundedInduction, TLAPS

IInv == TypeOK /\ OnePlace /\ QueueOfClass /\ LivePIDs /\ LostOnlyWithoutReady

-----------------------------------------------------------------------------
(* Induction over the numbers, in the form the provers can use it.         *)
LEMMA SmallestNumber ==
  ASSUME NEW T, T \subseteq Nat, T # {}
  PROVE  \E n \in T : \A m \in T : n <= m
<1> DEFINE less == OpToRel(<, Nat)
<1>1. \A a, b \in Nat : <<a, b>> \in less <=> a < b
  BY DEF OpToRel
<1>2. IsWellFoundedOn(less, Nat)
  BY NatLessThanWellFounded
<1> HIDE DEF less
<1>3. PICK n \in T : \A m \in T : ~ (<<m, n>> \in less)
  BY <1>2, WFMin
<1>4. ASSUME NEW m \in T PROVE n <= m
  <2>1. n \in Nat /\ m \in Nat /\ ~ (<<m, n>> \in less)
    BY <1>3
  <2>2. ~ (m < n)
    BY <1>1, <2>1
  <2> QED
    BY <2>1, <2>2
<1> QED
  BY <1>4

-----------------------------------------------------------------------------
(* What the two list operations that are used do to a sequence of tasks.   *)

(* list_add_tail.                                                          *)
LEMMA AppendFacts ==
  ASSUME NEW S, NEW s \in Seq(S), NEW e \in S
  PROVE  /\ Append(s, e) \in Seq(S)
         /\ Range(Append(s, e)) = Range(s) \cup {e}
         /\ IsInjective(s) /\ e \notin Range(s) => IsInjective(Append(s, e))
<1> DEFINE t == Append(s, e)
<1>1. /\ t \in Seq(S) /\ Len(t) = Len(s) + 1
      /\ \A i \in 1 .. Len(s) : t[i] = s[i]
      /\ t[Len(s) + 1] = e
  OBVIOUS
<1>2. DOMAIN t = 1 .. Len(s) + 1 /\ DOMAIN s = 1 .. Len(s) /\ Len(s) \in Nat
  BY <1>1
<1> HIDE DEF t
<1>3. Range(t) = Range(s) \cup {e}
  BY <1>1, <1>2 DEF Range
<1>4. IsInjective(s) /\ e \notin Range(s) => IsInjective(t)
  BY <1>1, <1>2 DEF Range, IsInjective
<1> QED
  BY <1>1, <1>3, <1>4 DEF t

(* list_first and list_del of what it returns, on a list that has elements.*)
LEMMA TailFacts ==
  ASSUME NEW S, NEW s \in Seq(S), s # <<>>
  PROVE  /\ Head(s) \in S
         /\ Tail(s) \in Seq(S)
         /\ Range(s) = Range(Tail(s)) \cup {Head(s)}
         /\ IsInjective(s) => IsInjective(Tail(s)) /\ Head(s) \notin Range(Tail(s))
<1> DEFINE t == Tail(s)
<1>1. /\ Len(s) \in Nat /\ Len(s) >= 1 /\ DOMAIN s = 1 .. Len(s)
      /\ t \in Seq(S) /\ DOMAIN t = 1 .. Len(s) - 1
      /\ \A i \in 1 .. Len(s) - 1 : t[i] = s[i + 1]
      /\ Head(s) = s[1] /\ Head(s) \in S
  OBVIOUS
<1> HIDE DEF t
<1>2. ASSUME NEW x \in Range(s) PROVE x \in Range(t) \cup {Head(s)}
  <2>1. PICK i \in 1 .. Len(s) : x = s[i]
    BY <1>1 DEF Range
  <2>2. CASE i = 1
    BY <1>1, <2>1, <2>2
  <2>3. CASE i # 1
    <3>1. i - 1 \in 1 .. Len(s) - 1 /\ t[i - 1] = s[i]
      BY <1>1, <2>1, <2>3
    <3> QED
      BY <1>1, <2>1, <3>1 DEF Range
  <2> QED
    BY <2>2, <2>3
<1>3. ASSUME NEW i \in 1 .. Len(s) - 1
      PROVE  i + 1 \in 1 .. Len(s) /\ i + 1 # 1 /\ t[i] = s[i + 1]
  BY <1>1
<1>4. Range(t) \subseteq Range(s) /\ Head(s) \in Range(s)
  BY <1>1, <1>3, SMTT(60) DEF Range
<1>5. ASSUME IsInjective(s) PROVE IsInjective(t) /\ Head(s) \notin Range(t)
  <2>1. \A i, j \in 1 .. Len(s) : s[i] = s[j] => i = j
    BY <1>1, <1>5 DEF IsInjective
  <2>2. ASSUME NEW i \in 1 .. Len(s) - 1, NEW j \in 1 .. Len(s) - 1, t[i] = t[j]
        PROVE  i = j
    <3>1. i + 1 = j + 1
      BY <1>3, <2>1, <2>2
    <3> QED
      BY <3>1
  <2>3. ASSUME NEW i \in 1 .. Len(s) - 1 PROVE t[i] # Head(s)
    <3>1. 1 \in 1 .. Len(s) /\ Head(s) = s[1]
      BY <1>1
    <3> QED
      BY <1>3, <2>1, <3>1
  <2> QED
    BY <1>1, <2>2, <2>3 DEF Range, IsInjective
<1> QED
  BY <1>1, <1>2, <1>4, <1>5 DEF t

-----------------------------------------------------------------------------
(* The dispatcher: whatever queues it is given, it takes one task out of   *)
(* them and keeps the others, or there was no task without priority.       *)
LEMMA SchedNext ==
  ASSUME NEW rq \in Seq(Task), NEW pq \in Seq(Task),
         TypeOK, Running, sched_next_rr(rq, pq),
         IsInjective(rq), IsInjective(pq), Range(rq) \cap Range(pq) = {}
  PROVE  /\ readyqueue' \in Seq(Task) /\ priorityqueue' \in Seq(Task)
         /\ IsInjective(readyqueue') /\ IsInjective(priorityqueue')
         /\ Range(readyqueue') \subseteq Range(rq)
         /\ Range(priorityqueue') \subseteq Range(pq)
         /\ current' \in Task \cup {NoTask}
         /\ current' \notin Range(readyqueue') \cup Range(priorityqueue')
         /\ Range(readyqueue') \cup Range(priorityqueue')
              \cup ({current'} \ {NoTask}) = Range(rq) \cup Range(pq)
         /\ quantum_ticks' \in -1 .. 5 * QUANTUM
         /\ current' = NoTask => readyqueue' = <<>>
<1> USE SchedAssumption
<1>0. NoTask \notin Task /\ QUANTUM \in -1 .. 5 * QUANTUM
      /\ 5 * QUANTUM \in -1 .. 5 * QUANTUM
      /\ quantum_ticks \in -1 .. 5 * QUANTUM
  BY DEF Task, NoTask, TypeOK
<1>1. \A s \in Seq(Task) : Range(s) \subseteq Task
  BY DEF Range
<1>2. CASE pq # <<>> /\ dispatch(Head(pq)) /\ readyqueue' = rq
           /\ priorityqueue' = Tail(pq)
  <2>1. /\ Head(pq) \in Task /\ Tail(pq) \in Seq(Task)
        /\ Range(pq) = Range(Tail(pq)) \cup {Head(pq)}
        /\ IsInjective(Tail(pq)) /\ Head(pq) \notin Range(Tail(pq))
    BY <1>2, TailFacts
  <2>2. current' = Head(pq) /\ quantum_ticks' \in -1 .. 5 * QUANTUM
    BY <1>0, <1>2 DEF dispatch
  <2> QED
    BY <1>0, <1>2, <2>1, <2>2
<1>3. CASE rq # <<>> /\ dispatch(Head(rq)) /\ readyqueue' = Tail(rq)
           /\ priorityqueue' = pq
  <2>1. /\ Head(rq) \in Task /\ Tail(rq) \in Seq(Task)
        /\ Range(rq) = Range(Tail(rq)) \cup {Head(rq)}
        /\ IsInjective(Tail(rq)) /\ Head(rq) \notin Range(Tail(rq))
    BY <1>3, TailFacts
  <2>2. current' = Head(rq) /\ quantum_ticks' \in -1 .. 5 * QUANTUM
    BY <1>0, <1>3 DEF dispatch
  <2> QED
    BY <1>0, <1>3, <2>1, <2>2
<1>4. CASE rq = <<>> /\ current' = NoTask /\ readyqueue' = rq
           /\ priorityqueue' = pq /\ UNCHANGED quantum_ticks
  BY <1>0, <1>1, <1>4
<1> QED
  BY <1>2, <1>3, <1>4 DEF sched_next_rr

-----------------------------------------------------------------------------
(* The invariant, one lemma per operation.                                 *)

(* All PCBs but two are in freequeue at the start.                          *)
LEMMA InitInv == Init => IInv
<1> SUFFICES ASSUME Init PROVE IInv
  OBVIOUS
<1> USE SchedAssumption
<1> DEFINE n == NR_TASKS - 2
<1>1. /\ n \in Nat /\ Task1 \in Task /\ Idle \in Task /\ Task1 # Idle
      /\ NoTask \notin Task /\ Task = (0 .. n - 1) \cup {Idle, Task1}
      /\ Idle \notin 0 .. n - 1 /\ Task1 \notin 0 .. n - 1
  BY DEF Task, Task1, Idle, NoTask
<1>2. /\ freequeue = [i \in 1 .. n |-> n - i] /\ readyqueue = <<>>
      /\ priorityqueue = <<>> /\ current = Task1
  BY DEF Init
<1>3. /\ freequeue \in Seq(Task)
      /\ DOMAIN freequeue = 1 .. n
      /\ \A i \in 1 .. n : freequeue[i] = n - i
  <2>1. \A i \in 1 .. n : n - i \in Task
    BY <1>1 DEF Task
  <2> QED
    BY <1>1, <1>2, <2>1
<1>4. Range(freequeue) = 0 .. n - 1
  <2>1. ASSUME NEW x \in 0 .. n - 1 PROVE x \in Range(freequeue)
    <3>1. n - x \in 1 .. n /\ n - (n - x) = x
      BY <1>1
    <3> QED
      BY <1>3, <3>1 DEF Range
  <2>2. ASSUME NEW x \in Range(freequeue) PROVE x \in 0 .. n - 1
    BY <1>1, <1>3 DEF Range
  <2> QED
    BY <2>1, <2>2
<1>5. IsInjective(freequeue)
  BY <1>1, <1>3 DEF IsInjective
<1>6. Range(readyqueue) = {} /\ Range(priorityqueue) = {} /\ Live = {Task1}
      /\ IsInjective(readyqueue) /\ IsInjective(priorityqueue)
  BY <1>1, <1>2 DEF Range, Live, IsInjective
<1>7. TypeOK
  BY <1>1, <1>2, <1>3 DEF Init, TypeOK, High, Low
<1>8. OnePlace
  BY <1>1, <1>2, <1>4, <1>5, <1>6 DEF OnePlace
<1>9. QueueOfClass /\ LostOnlyWithoutReady
  BY <1>2, <1>6 DEF QueueOfClass, LostOnlyWithoutReady
<1>10. LivePIDs
  BY <1>1, <1>6 DEF Init, LivePIDs
<1> QED
  BY <1>7, <1>8, <1>9, <1>10 DEF IInv

(* A slice ends: the dispatcher is given the queues with the running task  *)
(* at the tail of that of its class.                                       *)
LEMMA PreemptQueues ==
  ASSUME IInv, Running, preempt
  PROVE  \E rq \in Seq(Task), pq \in Seq(Task) :
           /\ sched_next_rr(rq, pq)
           /\ IsInjective(rq) /\ IsInjective(pq) /\ Range(rq) \cap Range(pq) = {}
           /\ Range(rq) \cup Range(pq) = Live
           /\ \A t \in Range(rq) : nice[t] = Low
           /\ \A t \in Range(pq) : nice[t] = High
<1>1. /\ TypeOK /\ OnePlace /\ QueueOfClass /\ current \in Task
      /\ nice[current] \in {High, Low} /\ current # NoTask
  BY DEF IInv, Running, TypeOK
<1>2. CASE nice[current] = Low
  <2> DEFINE rq == Append(readyqueue, current)
  <2>1. /\ rq \in Seq(Task) /\ IsInjective(rq)
        /\ Range(rq) = Range(readyqueue) \cup {current}
    BY <1>1, AppendFacts DEF TypeOK, OnePlace
  <2>2. sched_next_rr(rq, priorityqueue)
    BY <1>2 DEF preempt
  <2> HIDE DEF rq
  <2>3. /\ priorityqueue \in Seq(Task) /\ IsInjective(priorityqueue)
        /\ Range(rq) \cap Range(priorityqueue) = {}
        /\ Range(rq) \cup Range(priorityqueue) = Live
    BY <1>1, <2>1 DEF TypeOK, OnePlace, Live
  <2>4. /\ \A t \in Range(rq) : nice[t] = Low
        /\ \A t \in Range(priorityqueue) : nice[t] = High
    BY <1>1, <1>2, <2>1 DEF QueueOfClass
  <2> QED
    BY <2>1, <2>2, <2>3, <2>4
<1>3. CASE nice[current] = High
  <2> DEFINE pq == Append(priorityqueue, current)
  <2>1. /\ pq \in Seq(Task) /\ IsInjective(pq)
        /\ Range(pq) = Range(priorityqueue) \cup {current}
    BY <1>1, AppendFacts DEF TypeOK, OnePlace
  <2>2. sched_next_rr(readyqueue, pq)
    BY <1>3 DEF preempt, High, Low
  <2> HIDE DEF pq
  <2>3. /\ readyqueue \in Seq(Task) /\ IsInjective(readyqueue)
        /\ Range(readyqueue) \cap Range(pq) = {}
        /\ Range(readyqueue) \cup Range(pq) = Live
    BY <1>1, <2>1 DEF TypeOK, OnePlace, Live
  <2>4. /\ \A t \in Range(readyqueue) : nice[t] = Low
        /\ \A t \in Range(pq) : nice[t] = High
    BY <1>1, <1>3, <2>1 DEF QueueOfClass
  <2> QED
    BY <2>1, <2>2, <2>3, <2>4
<1> QED
  BY <1>1, <1>2, <1>3

(* The clock tick: the running process stays, or joins the queue of its    *)
(* class before the dispatcher takes a task out.                           *)
LEMMA ScheduleInv == IInv /\ schedule => IInv'
<1> SUFFICES ASSUME IInv, schedule PROVE IInv'
  OBVIOUS
<1> USE SchedAssumption
<1>1. /\ TypeOK /\ OnePlace /\ QueueOfClass /\ LivePIDs /\ Running
      /\ current \in Task /\ NoTask \notin Task /\ nice[current] \in {High, Low}
      /\ UNCHANGED <<freequeue, PID, nice, nextPID>>
  BY DEF IInv, schedule, Running, TypeOK, Task, NoTask
<1>2. CASE UNCHANGED <<current, readyqueue, priorityqueue>>
           /\ quantum_ticks' \in -1 .. 5 * QUANTUM
  BY <1>1, <1>2 DEF IInv, TypeOK, OnePlace, QueueOfClass, LivePIDs, Live,
                    LostOnlyWithoutReady, Running
<1>3. CASE preempt
  <2>1. PICK rq \in Seq(Task), pq \in Seq(Task) :
          /\ sched_next_rr(rq, pq)
          /\ IsInjective(rq) /\ IsInjective(pq) /\ Range(rq) \cap Range(pq) = {}
          /\ Range(rq) \cup Range(pq) = Live
          /\ \A t \in Range(rq) : nice[t] = Low
          /\ \A t \in Range(pq) : nice[t] = High
    BY <1>1, <1>3, PreemptQueues
  <2>2. /\ readyqueue' \in Seq(Task) /\ priorityqueue' \in Seq(Task)
        /\ IsInjective(readyqueue') /\ IsInjective(priorityqueue')
        /\ Range(readyqueue') \subseteq Range(rq)
        /\ Range(priorityqueue') \subseteq Range(pq)
        /\ current' \in Task \cup {NoTask}
        /\ current' \notin Range(readyqueue') \cup Range(priorityqueue')
        /\ Live' = Live
        /\ quantum_ticks' \in -1 .. 5 * QUANTUM
        /\ current' = NoTask => readyqueue' = <<>>
    BY <1>1, <2>1, SchedNext DEF Live
  <2>3. TypeOK' /\ LivePIDs' /\ LostOnlyWithoutReady'
    BY <1>1, <2>2 DEF TypeOK, LivePIDs, LostOnlyWithoutReady, Running
  <2>4. OnePlace'
    BY <1>1, <2>1, <2>2 DEF OnePlace
  <2>5. QueueOfClass'
    BY <1>1, <2>1, <2>2 DEF QueueOfClass
  <2> QED
    BY <2>3, <2>4, <2>5 DEF IInv
<1>4. quantum_ticks \in -1 .. 5 * QUANTUM
  BY <1>1 DEF TypeOK
<1>5. CASE quantum_ticks - 1 > 0 /\ quantum_ticks' = quantum_ticks - 1
           /\ UNCHANGED <<current, readyqueue, priorityqueue>>
  BY <1>2, <1>4, <1>5
<1>6. CASE quantum_ticks' = QUANTUM /\ UNCHANGED <<current, readyqueue, priorityqueue>>
  BY <1>2, <1>6
<1> QED
  BY <1>3, <1>5, <1>6 DEF schedule

(* sys_exit: the PCB of the running process joins freequeue.               *)
LEMMA ExitInv == IInv /\ sys_exit => IInv'
<1> SUFFICES ASSUME IInv, sys_exit PROVE IInv'
  OBVIOUS
<1> USE SchedAssumption
<1>1. /\ TypeOK /\ OnePlace /\ QueueOfClass /\ LivePIDs /\ Running
      /\ current \in Task /\ NoTask \notin Task
      /\ sched_next_rr(readyqueue, priorityqueue)
      /\ freequeue' = Append(freequeue, current)
      /\ PID' = [PID EXCEPT ![current] = -1]
      /\ UNCHANGED <<nice, nextPID>>
  BY DEF IInv, sys_exit, Running, TypeOK, Task, NoTask
<1>2. /\ freequeue' \in Seq(Task) /\ IsInjective(freequeue')
      /\ Range(freequeue') = Range(freequeue) \cup {current}
  BY <1>1, AppendFacts DEF TypeOK, OnePlace, Live
<1>3. /\ readyqueue' \in Seq(Task) /\ priorityqueue' \in Seq(Task)
      /\ IsInjective(readyqueue') /\ IsInjective(priorityqueue')
      /\ Range(readyqueue') \subseteq Range(readyqueue)
      /\ Range(priorityqueue') \subseteq Range(priorityqueue)
      /\ current' \in Task \cup {NoTask}
      /\ current' \notin Range(readyqueue') \cup Range(priorityqueue')
      /\ Live' = Live \ {current}
      /\ quantum_ticks' \in -1 .. 5 * QUANTUM
      /\ current' = NoTask => readyqueue' = <<>>
  <2>1. /\ readyqueue \in Seq(Task) /\ priorityqueue \in Seq(Task)
        /\ IsInjective(readyqueue) /\ IsInjective(priorityqueue)
        /\ Range(readyqueue) \cap Range(priorityqueue) = {}
        /\ Live \ {current} = Range(readyqueue) \cup Range(priorityqueue)
    BY <1>1 DEF Live, TypeOK, OnePlace
  <2> QED
    BY <1>1, <2>1, SchedNext DEF Live
<1>4. TypeOK' /\ LostOnlyWithoutReady'
  BY <1>1, <1>2, <1>3 DEF TypeOK, LostOnlyWithoutReady, Running
<1>5. OnePlace'
  BY <1>1, <1>2, <1>3 DEF OnePlace, Live
<1>6. QueueOfClass'
  BY <1>1, <1>3 DEF QueueOfClass
<1>7. LivePIDs'
  <2>1. \A t \in Live' : t \in Live /\ PID'[t] = PID[t]
    BY <1>1, <1>3 DEF TypeOK
  <2> QED
    BY <1>1, <2>1 DEF LivePIDs
<1> QED
  BY <1>4, <1>5, <1>6, <1>7 DEF IInv

(* sys_fork without enough frames: the only PCB written to stays free.     *)
LEMMA ForkENOMEMInv == IInv /\ fork_ENOMEM => IInv'
<1> SUFFICES ASSUME IInv, fork_ENOMEM PROVE IInv'
  OBVIOUS
<1> DEFINE child == Head(freequeue)
<1>1. /\ TypeOK /\ OnePlace /\ QueueOfClass /\ LivePIDs /\ Running
      /\ current \in Task
      /\ PID' = [PID EXCEPT ![child] = PID[current]]
      /\ nice' = [nice EXCEPT ![child] = nice[current]]
      /\ UNCHANGED <<current, freequeue, readyqueue, priorityqueue,
                     quantum_ticks, nextPID>>
      /\ freequeue # <<>>
  BY DEF IInv, fork_ENOMEM, Running, TypeOK
<1>2. child \in Task /\ child \notin Live
  BY <1>1, TailFacts DEF TypeOK, OnePlace
<1> HIDE DEF child
<1>3. /\ PID' \in [Task -> Int] /\ nice' \in [Task -> {High, Low}]
      /\ \A t \in Live : PID'[t] = PID[t] /\ nice'[t] = nice[t]
  BY <1>1, <1>2 DEF TypeOK, OnePlace
<1>4. Live' = Live
  BY <1>1 DEF Live
<1>5. TypeOK'
  BY <1>1, <1>3 DEF TypeOK
<1>6. OnePlace' /\ LostOnlyWithoutReady'
  BY <1>1, <1>4 DEF OnePlace, LostOnlyWithoutReady, Running
<1>7. QueueOfClass' /\ LivePIDs'
  <2>1. Range(readyqueue) \subseteq Live /\ Range(priorityqueue) \subseteq Live
    BY DEF Live
  <2> QED
    BY <1>1, <1>3, <1>4, <2>1 DEF QueueOfClass, LivePIDs
<1> QED
  BY <1>5, <1>6, <1>7 DEF IInv

(* sys_fork: the first free PCB goes to the tail of the queue of the class *)
(* inherited from the parent, with a PID that nobody has.                  *)
LEMMA ForkChildInv == IInv /\ fork_child => IInv'
<1> SUFFICES ASSUME IInv, fork_child PROVE IInv'
  OBVIOUS
<1> DEFINE child == Head(freequeue)
<1>1. /\ TypeOK /\ OnePlace /\ QueueOfClass /\ LivePIDs /\ Running
      /\ current \in Task /\ current \in Live /\ nice[current] \in {High, Low}
      /\ freequeue # <<>> /\ freequeue' = Tail(freequeue)
      /\ PID' = [PID EXCEPT ![child] = nextPID]
      /\ nice' = [nice EXCEPT ![child] = nice[current]]
      /\ nextPID' = nextPID + 1 /\ nextPID \in Nat /\ nextPID >= 2
      /\ UNCHANGED <<current, quantum_ticks>>
  BY DEF IInv, fork_child, Running, TypeOK, Live
<1>2. /\ child \in Task /\ child \notin Live /\ child \in Range(freequeue)
      /\ freequeue' \in Seq(Task) /\ IsInjective(freequeue')
      /\ Range(freequeue) = Range(freequeue') \cup {child}
      /\ child \notin Range(freequeue')
  BY <1>1, TailFacts DEF TypeOK, OnePlace
<1>3. /\ readyqueue' \in Seq(Task) /\ priorityqueue' \in Seq(Task)
      /\ IsInjective(readyqueue') /\ IsInjective(priorityqueue')
      /\ \/ /\ nice[current] = Low
            /\ Range(readyqueue') = Range(readyqueue) \cup {child}
            /\ Range(priorityqueue') = Range(priorityqueue)
         \/ /\ nice[current] = High
            /\ Range(readyqueue') = Range(readyqueue)
            /\ Range(priorityqueue') = Range(priorityqueue) \cup {child}
  <2>1. /\ readyqueue \in Seq(Task) /\ priorityqueue \in Seq(Task)
        /\ IsInjective(readyqueue) /\ IsInjective(priorityqueue)
        /\ child \notin Range(readyqueue) /\ child \notin Range(priorityqueue)
    BY <1>1, <1>2 DEF TypeOK, OnePlace, Live
  <2>2. CASE nice[current] = Low
    <3>1. readyqueue' = Append(readyqueue, child) /\ UNCHANGED priorityqueue
      BY <2>2 DEF fork_child
    <3> HIDE DEF child
    <3> QED
      BY <1>2, <2>1, <2>2, <3>1, AppendFacts
  <2>3. CASE nice[current] = High
    <3>1. priorityqueue' = Append(priorityqueue, child) /\ UNCHANGED readyqueue
      BY <2>3 DEF fork_child, High, Low
    <3> HIDE DEF child
    <3> QED
      BY <1>2, <2>1, <2>3, <3>1, AppendFacts
  <2> QED
    BY <1>1, <2>2, <2>3
<1> HIDE DEF child
<1>4. Live' = Live \cup {child}
  BY <1>1, <1>3 DEF Live
<1>5. /\ PID' \in [Task -> Int] /\ nice' \in [Task -> {High, Low}]
      /\ PID'[child] = nextPID /\ nice'[child] = nice[current]
      /\ \A t \in Live : PID'[t] = PID[t] /\ nice'[t] = nice[t]
  BY <1>1, <1>2 DEF TypeOK, OnePlace
<1>6. TypeOK'
  BY <1>1, <1>2, <1>3, <1>5 DEF TypeOK
<1>7. OnePlace'
  <2>1. /\ Range(freequeue') \cap Live' = {}
        /\ Idle \notin Range(freequeue') \cup Live'
        /\ Task = {Idle} \cup Range(freequeue') \cup Live'
    BY <1>1, <1>2, <1>4 DEF OnePlace
  <2>2. /\ Range(readyqueue') \cap Range(priorityqueue') = {}
        /\ current' \notin Range(readyqueue') \cup Range(priorityqueue')
    BY <1>1, <1>2, <1>3 DEF OnePlace, Live
  <2> QED
    BY <1>2, <1>3, <2>1, <2>2 DEF OnePlace
<1>8. QueueOfClass'
  <2>1. Range(readyqueue) \subseteq Live /\ Range(priorityqueue) \subseteq Live
    BY DEF Live
  <2> QED
    BY <1>1, <1>3, <1>5, <2>1 DEF QueueOfClass
<1>9. LivePIDs'
  <2>1. \A t \in Live : PID'[t] \in 1 .. nextPID - 1 /\ PID'[t] # PID'[child]
    BY <1>1, <1>5 DEF LivePIDs
  <2>2. 1 .. nextPID' - 1 = (1 .. nextPID - 1) \cup {nextPID}
    BY <1>1
  <2> QED
    BY <1>1, <1>4, <1>5, <2>1, <2>2 DEF LivePIDs
<1>10. LostOnlyWithoutReady'
  BY <1>1 DEF LostOnlyWithoutReady, Running
<1> QED
  BY <1>6, <1>7, <1>8, <1>9, <1>10 DEF IInv

(* set_fps: only the class of the running process changes, and the running *)
(* process is in no queue.                                                 *)
LEMMA SetNiceInv == ASSUME NEW v \in {High, Low}, IInv, set_nice(v) PROVE IInv'
<1>1. /\ TypeOK /\ OnePlace /\ QueueOfClass /\ LivePIDs
      /\ nice' = [nice EXCEPT ![current] = v]
      /\ UNCHANGED <<current, freequeue, readyqueue, priorityqueue, PID,
                     quantum_ticks, nextPID>>
      /\ Live' = Live
  BY DEF IInv, set_nice, Live
<1>2. TypeOK'
  BY <1>1 DEF TypeOK
<1>3. OnePlace' /\ LivePIDs' /\ LostOnlyWithoutReady'
  BY <1>1 DEF OnePlace, LivePIDs, LostOnlyWithoutReady, IInv, Running
<1>4. QueueOfClass'
  <2>1. /\ \A t \in Task : t # current => nice'[t] = nice[t]
        /\ Range(readyqueue) \subseteq Task /\ Range(priorityqueue) \subseteq Task
    BY <1>1 DEF TypeOK, Range
  <2> QED
    BY <1>1, <2>1 DEF QueueOfClass, OnePlace
<1> QED
  BY <1>2, <1>3, <1>4 DEF IInv

-----------------------------------------------------------------------------
(* Every reachable state satisfies the inductive invariant.                *)
THEOREM Invariance == Spec => []IInv
<1>1. IInv /\ UNCHANGED schedVars => IInv'
  BY DEF schedVars, IInv, TypeOK, OnePlace, QueueOfClass, LivePIDs, Live,
         LostOnlyWithoutReady, Running
<1>2. IInv /\ [Next]_schedVars => IInv'
  <2>1. IInv /\ sys_fork => IInv'
    BY <1>1, ForkENOMEMInv, ForkChildInv DEF sys_fork, fork_EAGAIN
  <2> QED
    BY <1>1, <2>1, ScheduleInv, ExitInv, SetNiceInv DEF Next
<1> QED
  BY InitInv, <1>2, PTL DEF Spec

(* The scheduler's data keep their types: the slice left never falls below *)
(* the -1 of the first tick and never exceeds five quanta.                 *)
THEOREM TypeCorrect == Spec => []TypeOK
BY Invariance, PTL DEF IInv

(* For any number of tasks, no PCB is ever lost by the lists or linked     *)
(* twice, whatever forks fail, processes exit and slices end.              *)
THEOREM PCBsInOnePlace == Spec => []OnePlace
BY Invariance, PTL DEF IInv

(* A waiting process is always in the queue that its class is served from. *)
THEOREM WaitingByClass == Spec => []QueueOfClass
BY Invariance, PTL DEF IInv

(* Two live processes never share a PID.                                   *)
THEOREM UniquePIDs == Spec => []LivePIDs
BY Invariance, PTL DEF IInv

(* A process without priority that waits keeps the CPU from being lost.    *)
THEOREM ReadyKeepsCPU == Spec => []LostOnlyWithoutReady
BY Invariance, PTL DEF IInv

-----------------------------------------------------------------------------
(* The slices.                                                             *)

(* The dispatcher gives a fair slice when each of the queues it is given   *)
(* holds tasks of its class only.                                          *)
LEMMA DispatchFair ==
  ASSUME NEW rq \in Seq(Task), NEW pq \in Seq(Task), sched_next_rr(rq, pq),
         \A t \in Range(rq) : nice[t] = Low,
         \A t \in Range(pq) : nice[t] = High
  PROVE  FairSlice
<1>1. CASE nice[current] = Low /\ pq # <<>> /\ dispatch(Head(pq))
  <2>1. nice[Head(pq)] = High
    BY <1>1, TailFacts
  <2> QED
    BY <1>1, <2>1 DEF dispatch, High, Low, FairSlice
<1>2. CASE /\ nice[current] = High \/ pq = <<>>
           /\ rq # <<>> /\ dispatch(Head(rq)) /\ priorityqueue' = pq
  <2>1. nice[Head(rq)] = Low
    BY <1>2, TailFacts
  <2> QED
    BY <1>2, <2>1 DEF dispatch, High, Low, FairSlice
<1>3. CASE current' = NoTask
  BY <1>3 DEF Running, FairSlice
<1> QED
  BY <1>1, <1>2, <1>3 DEF sched_next_rr

(* A process of the priority class always gets five quanta, and a process  *)
(* without priority that is let in while one waits gets one.               *)
THEOREM Share == Spec => PriorityShare
<1>1. ASSUME IInv, Next PROVE FairSlice
  <2>1. CASE schedule
    <3>1. CASE preempt
      <4>1. Running
        BY <2>1 DEF schedule
      <4> QED
        BY <1>1, <3>1, <4>1, PreemptQueues, DispatchFair
    <3>2. CASE current' = current
      BY <3>2 DEF FairSlice
    <3> QED
      BY <2>1, <3>1, <3>2 DEF schedule
  <2>2. CASE sys_exit
    BY <1>1, <2>2, DispatchFair DEF sys_exit, IInv, TypeOK, QueueOfClass
  <2>3. CASE sys_fork \/ \E v \in {High, Low} : set_nice(v)
    BY <2>3 DEF sys_fork, fork_EAGAIN, fork_ENOMEM, fork_child, set_nice,
                FairSlice, schedVars
  <2> QED
    BY <1>1, <2>1, <2>2, <2>3 DEF Next
<1>2. IInv /\ [Next]_schedVars => [FairSlice]_schedVars
  BY <1>1
<1> QED
  BY Invariance, <1>2, PTL DEF Spec, PriorityShare

-----------------------------------------------------------------------------
(* Sched implements Processes.                                             *)

(* The live processes are those that are not free.                         *)
LEMMA LiveIsRest ==
  ASSUME OnePlace, OnePlace'
  PROVE  /\ Live = Task \ ({Idle} \cup Range(freequeue))
         /\ Live' = Task \ ({Idle} \cup Range(freequeue'))
BY DEF OnePlace

(* Who is alive after each operation.                                      *)
LEMMA LiveSteps ==
  ASSUME IInv, IInv'
  PROVE  /\ Live \subseteq Task /\ Idle \notin Live
         /\ Running' => current' \in Live'
         /\ schedule => Live' = Live
         /\ sys_exit => Live' = Live \ {current}
         /\ fork_child => /\ Live' = Live \cup {Head(freequeue)}
                          /\ Head(freequeue) \in Task \ Live
         /\ fork_ENOMEM => /\ Live' = Live
                           /\ Head(freequeue) \in Task \ Live
         /\ fork_EAGAIN => Live' = Live
         /\ \A v : set_nice(v) => Live' = Live
         /\ UNCHANGED schedVars => Live' = Live
<1>1. Live \subseteq Task /\ Idle \notin Live /\ (Running' => current' \in Live')
  BY DEF IInv, OnePlace, Live, Running
<1>2. ASSUME schedule PROVE Live' = Live
  BY <1>2, LiveIsRest DEF IInv, schedule
<1>3. ASSUME sys_exit PROVE Live' = Live \ {current}
  <2>1. current \in Live /\ current \in Task /\ freequeue' = Append(freequeue, current)
    BY <1>3 DEF sys_exit, Running, Live, IInv, TypeOK
  <2>2. Range(freequeue') = Range(freequeue) \cup {current}
    BY <2>1, AppendFacts DEF IInv, TypeOK
  <2> QED
    BY <2>1, <2>2, LiveIsRest DEF IInv
<1>4. ASSUME freequeue # <<>>
      PROVE  /\ Head(freequeue) \in Task \ Live
             /\ Range(freequeue) = Range(Tail(freequeue)) \cup {Head(freequeue)}
             /\ Head(freequeue) \notin Range(Tail(freequeue))
             /\ Head(freequeue) # Idle
  BY <1>4, TailFacts DEF IInv, TypeOK, OnePlace
<1>5. ASSUME fork_child PROVE Live' = Live \cup {Head(freequeue)}
  <2>1. freequeue # <<>> /\ freequeue' = Tail(freequeue)
    BY <1>5 DEF fork_child
  <2> QED
    BY <1>4, <2>1, LiveIsRest DEF IInv
<1>6. fork_ENOMEM \/ fork_EAGAIN \/ UNCHANGED schedVars \/ (\E v : set_nice(v))
        => Live' = Live
  BY DEF fork_ENOMEM, fork_EAGAIN, schedVars, set_nice, Live
<1> QED
  BY <1>1, <1>2, <1>3, <1>4, <1>5, <1>6 DEF fork_child, fork_ENOMEM

(* The first process is the only one of the table.                          *)
LEMMA TableInit == Init => Table!Init
<1> SUFFICES ASSUME Init PROVE Table!Init
  OBVIOUS
<1>1. Live = {Task1} /\ Task1 \in Task
  BY SchedAssumption DEF Init, Live, Range, Task1, NoTask, Task
<1>2. PID[Task1] = 1 /\ nextPID = 2 /\ current = Task1
  BY <1>1 DEF Init
<1>3. [t \in Live |-> PID[t]] = [t \in {Task1} |-> 1]
  BY <1>1, <1>2
<1>4. 1 .. nextPID - 1 = {1}
  BY <1>2
<1> QED
  BY <1>2, <1>3, <1>4 DEF Table!Init

(* A tick changes at most who runs.                                        *)
LEMMA TableSwitch ==
  ASSUME IInv, IInv', schedule
  PROVE  Table!Switch \/ UNCHANGED Table!tableVars
<1>1. Live' = Live /\ UNCHANGED <<freequeue, PID, nextPID>>
  BY LiveIsRest DEF IInv, schedule
<1>2. [t \in Live |-> PID[t]]' = [t \in Live |-> PID[t]]
  BY <1>1
<1>3. current # NoTask /\ current' \in Live' \cup {NoTask}
  BY DEF schedule, Running, Live
<1>4. (1 .. nextPID - 1)' = 1 .. nextPID - 1
  BY <1>1
<1>5. CASE current' = current
  BY <1>2, <1>4, <1>5 DEF Table!tableVars
<1>6. CASE current' # current
  BY <1>1, <1>2, <1>3, <1>4, <1>6 DEF Table!Switch
<1> QED
  BY <1>5, <1>6

(* An exit removes the running process.                                    *)
LEMMA TableExit == ASSUME IInv, IInv', sys_exit PROVE Table!Exit
<1>1. /\ current \in Live /\ current \in Task /\ current # NoTask
      /\ PID' = [PID EXCEPT ![current] = -1] /\ UNCHANGED nextPID
      /\ current' \in Live' \cup {NoTask}
      /\ PID \in [Task -> Int]
  BY DEF sys_exit, Running, Live, IInv, TypeOK
<1>2. Range(freequeue') = Range(freequeue) \cup {current}
  BY <1>1, AppendFacts DEF sys_exit, IInv, TypeOK
<1>3. Live' = Live \ {current} /\ Live \subseteq Task
  BY <1>2, LiveIsRest DEF IInv
<1>4. [t \in Live |-> PID[t]]'
        = Restrict([t \in Live |-> PID[t]], Live \ {current})
  BY <1>1, <1>3 DEF Restrict
<1> QED
  BY <1>1, <1>3, <1>4 DEF Table!Exit, Restrict, Table!Restrict

(* A fork adds one process, with a PID that has never been used.           *)
LEMMA TableFork == ASSUME IInv, IInv', fork_child PROVE Table!Fork
<1> DEFINE child == Head(freequeue)
<1>1. /\ current # NoTask /\ UNCHANGED current
      /\ PID' = [PID EXCEPT ![child] = nextPID] /\ nextPID' = nextPID + 1
      /\ nextPID \in Nat /\ nextPID >= 2 /\ nextPID \in 1 .. MAX_PID
      /\ PID \in [Task -> Int]
  BY SchedAssumption DEF fork_child, Running, IInv, TypeOK
<1>2. /\ child \in Task /\ child \in Range(freequeue)
      /\ Range(freequeue) = Range(freequeue') \cup {child}
      /\ child \notin Range(freequeue')
  BY TailFacts DEF fork_child, IInv, TypeOK, OnePlace
<1>3. /\ Live' = Live \cup {child} /\ Live \subseteq Task
      /\ child \in Task \ (Live \cup {Idle})
  BY <1>2, LiveIsRest DEF IInv, OnePlace
<1> HIDE DEF child
<1>4. [t \in Live |-> PID[t]]' =
        [s \in DOMAIN [t \in Live |-> PID[t]] \cup {child} |->
           IF s = child THEN nextPID ELSE [t \in Live |-> PID[t]][s]]
  BY <1>1, <1>3
<1>5. (1 .. nextPID - 1)' = (1 .. nextPID - 1) \cup {nextPID}
  BY <1>1
<1>6. nextPID \in (1 .. MAX_PID) \ (1 .. nextPID - 1)
  BY <1>1
<1> QED
  BY <1>1, <1>3, <1>4, <1>5, <1>6 DEF Table!Fork

(* Whatever the lists, the classes and the slices do, the users of the     *)
(* process table see processes come and go as Processes says, for every    *)
(* size of the table.                                                      *)
THEOREM Refinement == Spec => ImplementsProcesses
<1>1. ASSUME IInv, IInv', [Next]_schedVars
      PROVE  Table!Next \/ UNCHANGED Table!tableVars
  <2>1. CASE schedule
    BY <1>1, <2>1, TableSwitch DEF Table!Next
  <2>2. CASE sys_exit
    BY <1>1, <2>2, TableExit DEF Table!Next
  <2>3. CASE fork_child
    BY <1>1, <2>3, TableFork DEF Table!Next
  <2>4. CASE fork_ENOMEM
    <3>1. /\ Live' = Live /\ UNCHANGED <<current, nextPID>>
          /\ PID' = [PID EXCEPT ![Head(freequeue)] = PID[current]]
      BY <2>4 DEF fork_ENOMEM, Live
    <3>2. Head(freequeue) \notin Live /\ Live \subseteq Task /\ PID \in [Task -> Int]
      BY <1>1, <2>4, TailFacts DEF fork_ENOMEM, IInv, TypeOK, OnePlace
    <3>3. [t \in Live |-> PID[t]]' = [t \in Live |-> PID[t]]
      BY <3>1, <3>2
    <3> QED
      BY <3>1, <3>3 DEF Table!tableVars
  <2>5. CASE UNCHANGED schedVars \/ \E v \in {High, Low} : set_nice(v)
    <3>1. UNCHANGED <<current, nextPID, PID>> /\ Live' = Live
      BY <2>5 DEF schedVars, set_nice, Live
    <3> QED
      BY <3>1 DEF Table!tableVars
  <2> QED
    BY <1>1, <2>1, <2>2, <2>3, <2>4, <2>5 DEF Next, sys_fork, fork_EAGAIN
<1>2. IInv /\ IInv' /\ [Next]_schedVars => [Table!Next]_(Table!tableVars)
  BY <1>1
<1> QED
  BY Invariance, TableInit, <1>2, PTL DEF Spec, ImplementsProcesses, Table!Spec
=============================================================================
