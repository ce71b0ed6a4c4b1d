----------------------------- MODULE StatsProofs -----------------------------
(***************************************************************************)
(* The statistics of ZeOS, proved for every number of tasks, every quantum *)
(* and every bound of time.  Like FpsProofs, the module starts from the    *)
(* fact that each handler is a step of Sched, and so may use the invariant *)
(* of the process table.                                                   *)
(*                                                                         *)
(* NoTickTwice is not inductive: what a process has been charged is        *)
(* bounded by the time of its last reading of the clock (Accounted), and   *)
(* that reading by the time now.  StatsExact needs that no free PCB keeps  *)
(* a PID that get_task could find (FreeUnnamed).  ChargedOnce is proved    *)
(* from Spent: what everybody was charged, together, ends at the last      *)
(* reading of the process that runs.                                       *)
(***************************************************************************)
EXTENDS Stats, SchedProofs, FiniteSetTheorems

Record == [user : Int, system : Int, ready : Int, elapsed : Nat,
           trans : Int, remaining : Int]

Total(s) == s.user + s.system + s.ready

StatsTypeOK ==
  /\ now \in Nat
  /\ estat \in [Task -> Record]
  /\ birth \in [Task -> Nat]
  /\ enomem \in BOOLEAN

(* What s has been charged since b ends at its last reading of the clock.  *)
Settled(s, b) == Total(s) <= s.elapsed - b

Accounted ==
  \A t \in Live : Settled(estat[t], birth[t]) /\ estat[t].elapsed <= now

(* The time of the processor that s has been charged.                      *)
Used(s) == s.user + s.system

Shares == [t \in Task |-> TimeShare(t)]

(* All that live processes were charged, together, is before the running   *)
(* process's last reading of the clock.                                    *)
Spent ==
  /\ \A t \in Live : 0 <= Used(estat[t])
  /\ SumOver(Shares) <= IF Running THEN estat[current].elapsed ELSE now

FreeUnnamed ==
  /\ \A t \in Task : PID[t] < nextPID
  /\ ~enomem => \A t \in Task : PID[t] \in 1 .. nextPID - 1 => t \in Live

StatsInv == StatsTypeOK /\ Accounted /\ Spent /\ FreeUnnamed

-----------------------------------------------------------------------------
(* Every handler, with what it adds to the statistics, is a step of Sched  *)
(* or changes nothing in the process table.                                *)
LEMMA StatsStepOfSched == [StatsNext]_statsVars => [Next]_schedVars
<1>1. clock_handler => schedule
  BY DEF clock_handler
<1>2. fork => sys_fork
  BY DEF fork, sys_fork
<1>3. exit => sys_exit
  BY DEF exit
<1>4. (\E p \in -1 .. nextPID, b \in BUFFERS : sys_get_stats(p, b)) => UNCHANGED schedVars
  BY DEF sys_get_stats
<1>5. other_call => \E v \in {High, Low} : set_nice(v)
  BY DEF other_call
<1> QED
  BY <1>1, <1>2, <1>3, <1>4, <1>5 DEF StatsNext, Next, statsVars

(* Keeping the statistics never disturbs the process table.                *)
THEOREM StatsKeepsSched == StatsSpec => Spec
BY StatsStepOfSched, PTL DEF StatsSpec, StatsInit, Spec

-----------------------------------------------------------------------------
(* The sum over all tasks.                                                 *)

(* s holds the sums of the first terms of f, up to n of them.              *)
Partial(s, f, n) ==
  /\ DOMAIN s = 0 .. n
  /\ s[0] = 0
  /\ \A k \in 1 .. n : s[k] = s[k - 1] + f[k - 1]

(* Every task's partial sum exists.                                        *)
LEMMA PartialExists ==
  ASSUME NEW f \in [Task -> Int], NEW n \in 0 .. NR_TASKS
  PROVE  \E s \in [0 .. n -> Int] : Partial(s, f, n)
<1> DEFINE Bad == {m \in 0 .. NR_TASKS : ~ \E s \in [0 .. m -> Int] : Partial(s, f, m)}
<1>1. ASSUME Bad # {} PROVE FALSE
  <2>0. Bad \subseteq Nat
    BY SchedAssumption
  <2>1. PICK m \in Bad : \A k \in Bad : m <= k
    <3> HIDE DEF Bad
    <3> QED
      BY <1>1, <2>0, SmallestNumber
  <2>2. m \in Nat /\ m <= NR_TASKS /\ NR_TASKS \in Nat
    BY SchedAssumption
  <2>3. m # 0
    <3>1. Partial([k \in 0 .. 0 |-> 0], f, 0)
      BY DEF Partial
    <3> QED
      BY <3>1
  <2>4. m - 1 \in 0 .. NR_TASKS /\ ~ (m <= m - 1) /\ m - 1 \in Task
    BY <2>2, <2>3 DEF Task
  <2>5. PICK s \in [0 .. m - 1 -> Int] : Partial(s, f, m - 1)
    BY <2>1, <2>4
  <2> DEFINE r == [k \in 0 .. m |-> IF k = m THEN s[m - 1] + f[m - 1] ELSE s[k]]
  <2>6. s[m - 1] \in Int /\ f[m - 1] \in Int
    BY <2>2, <2>3, <2>4
  <2>7. r \in [0 .. m -> Int]
    BY <2>2, <2>6
  <2>8. r[0] = 0
    BY <2>2, <2>3, <2>5 DEF Partial
  <2>9. ASSUME NEW k \in 1 .. m PROVE r[k] = r[k - 1] + f[k - 1]
    <3>1. CASE k = m
      BY <2>2, <3>1
    <3>2. CASE k # m
      <4>1. k \in 1 .. m - 1 /\ k - 1 \in 0 .. m /\ k - 1 # m /\ k \in 0 .. m
        BY <2>2, <3>2
      <4> QED
        BY <2>5, <3>2, <4>1 DEF Partial
    <3> QED
      BY <3>1, <3>2
  <2>10. Partial(r, f, m)
    BY <2>7, <2>8, <2>9 DEF Partial
  <2> HIDE DEF r
  <2> QED
    BY <2>7, <2>10
<1> QED
  BY <1>1

(* Partial sums are determined by what is summed.                          *)
LEMMA PartialUnique ==
  ASSUME NEW f \in [Task -> Int], NEW s \in [0 .. NR_TASKS -> Int], NEW r,
         Partial(s, f, NR_TASKS), Partial(r, f, NR_TASKS)
  PROVE  r[NR_TASKS] = s[NR_TASKS]
<1> DEFINE Bad == {m \in 0 .. NR_TASKS : r[m] # s[m]}
<1>1. ASSUME Bad # {} PROVE FALSE
  <2>1. Bad \subseteq Nat
    BY SchedAssumption
  <2>2. PICK m \in Bad : \A k \in Bad : m <= k
    <3> HIDE DEF Bad
    <3> QED
      BY <1>1, <2>1, SmallestNumber
  <2>3. m \in Nat /\ m <= NR_TASKS /\ NR_TASKS \in Nat
    BY SchedAssumption
  <2>4. m # 0
    BY DEF Partial
  <2>5. m - 1 \in 0 .. NR_TASKS /\ ~ (m <= m - 1) /\ m \in 1 .. NR_TASKS
    BY <2>3, <2>4
  <2>6. r[m - 1] = s[m - 1]
    BY <2>2, <2>5
  <2> QED
    BY <2>5, <2>6 DEF Partial
<1>2. NR_TASKS \in 0 .. NR_TASKS
  BY SchedAssumption
<1> QED
  BY <1>1, <1>2

(* The sum of the model is the last of the partial ones.                   *)
LEMMA SumIs ==
  ASSUME NEW f \in [Task -> Int], NEW s \in [0 .. NR_TASKS -> Int],
         Partial(s, f, NR_TASKS)
  PROVE  SumOver(f) = s[NR_TASKS]
<1> DEFINE Rec(g) == g = [n \in 0 .. NR_TASKS |-> IF n = 0 THEN 0 ELSE g[n - 1] + f[n - 1]]
           sum == CHOOSE g : Rec(g)
<1>1. NR_TASKS \in Nat
  BY SchedAssumption
<1>2. Rec(s)
  <2> DEFINE h == [n \in 0 .. NR_TASKS |-> IF n = 0 THEN 0 ELSE s[n - 1] + f[n - 1]]
  <2>1. ASSUME NEW n \in 0 .. NR_TASKS PROVE s[n] = h[n]
    BY <1>1 DEF Partial
  <2> QED
    BY <2>1
<1>3. Rec(sum)
  BY <1>2
<1>4. SumOver(f) = sum[NR_TASKS]
  BY DEF SumOver
<1>5. sum = [n \in 0 .. NR_TASKS |-> IF n = 0 THEN 0 ELSE sum[n - 1] + f[n - 1]]
  BY <1>3
<1> HIDE DEF sum, Rec
<1>6. Partial(sum, f, NR_TASKS)
  <2>1. DOMAIN sum = 0 .. NR_TASKS /\ sum[0] = 0
    BY <1>1, <1>5
  <2>2. ASSUME NEW k \in 1 .. NR_TASKS PROVE sum[k] = sum[k - 1] + f[k - 1]
    BY <1>1, <1>5
  <2> QED
    BY <2>1, <2>2 DEF Partial
<1> QED
  BY <1>4, <1>6, PartialUnique

Changed(g, f, p, v) == g = [f EXCEPT ![p] = v]

(* A sum changes as the one of its terms that changes.                     *)
LEMMA SumChange ==
  ASSUME NEW f \in [Task -> Int], NEW p \in Task, NEW v \in Int,
         NEW g, Changed(g, f, p, v)
  PROVE  /\ SumOver(f) \in Int /\ SumOver(g) \in Int
         /\ SumOver(g) = SumOver(f) + v - f[p]
<1>1. /\ NR_TASKS \in Nat /\ p \in Nat /\ p < NR_TASKS /\ f[p] \in Int
      /\ NR_TASKS \in 0 .. NR_TASKS
  BY SchedAssumption DEF Task
<1>2. PICK s \in [0 .. NR_TASKS -> Int] : Partial(s, f, NR_TASKS)
  BY <1>1, PartialExists
<1> DEFINE r == [k \in 0 .. NR_TASKS |-> IF k <= p THEN s[k] ELSE s[k] + v - f[p]]
<1>3. r \in [0 .. NR_TASKS -> Int]
  BY <1>1
<1>4. g \in [Task -> Int] /\ g[p] = v /\ \A k \in Task : k # p => g[k] = f[k]
  BY DEF Changed
<1>5. ASSUME NEW k \in 1 .. NR_TASKS PROVE r[k] = r[k - 1] + g[k - 1]
  <2>1. /\ k - 1 \in Task /\ k \in Int /\ k - 1 \in 0 .. NR_TASKS /\ k \in 0 .. NR_TASKS
        /\ s[k] = s[k - 1] + f[k - 1]
    BY <1>1, <1>2 DEF Task, Partial
  <2>2. CASE k - 1 = p
    BY <1>1, <1>4, <2>1, <2>2
  <2>3. CASE k - 1 < p
    BY <1>1, <1>4, <2>1, <2>3
  <2>4. CASE k - 1 > p
    BY <1>1, <1>4, <2>1, <2>4
  <2> QED
    BY <1>1, <2>1, <2>2, <2>3, <2>4
<1>6. r[0] = 0
  BY <1>1, <1>2 DEF Partial
<1>7. Partial(r, g, NR_TASKS)
  BY <1>3, <1>5, <1>6 DEF Partial
<1>8. r[NR_TASKS] = s[NR_TASKS] + v - f[p]
  BY <1>1
<1>9. SumOver(f) = s[NR_TASKS]
  BY <1>2, SumIs
<1>10. SumOver(g) = r[NR_TASKS]
  BY <1>3, <1>4, <1>7, SumIs
<1> HIDE DEF r
<1> QED
  BY <1>1, <1>2, <1>3, <1>8, <1>9, <1>10

(* The sum of nothing.                                                     *)
LEMMA SumZero == SumOver([t \in Task |-> 0]) = 0
<1> DEFINE f == [t \in Task |-> 0]
           s == [k \in 0 .. NR_TASKS |-> 0]
<1>1. /\ NR_TASKS \in Nat /\ NR_TASKS \in 0 .. NR_TASKS
      /\ f \in [Task -> Int] /\ s \in [0 .. NR_TASKS -> Int]
  BY SchedAssumption
<1>2. Partial(s, f, NR_TASKS)
  BY <1>1 DEF Partial, Task
<1>3. s[NR_TASKS] = 0
  BY <1>1
<1> HIDE DEF f, s
<1>4. SumOver(f) = 0
  BY <1>1, <1>2, <1>3, SumIs
<1> QED
  BY <1>4 DEF f

-----------------------------------------------------------------------------
(* The clock and the three routines that read it.                          *)

(* n reads in a row are n numbers that do not decrease.                    *)
LEMMA ReadsFacts ==
  ASSUME now \in Nat, NEW n \in Nat \ {0}, NEW t \in Reads(n)
  PROVE  /\ Len(t) = n /\ \A k \in 1 .. n : t[k] \in Nat /\ now <= t[k]
         /\ \A j, k \in 1 .. n : j <= k => t[j] <= t[k]
<1>1. PICK S \in SUBSET (1 .. n) : t = [k \in 1 .. n |-> now + Cardinality(S \cap 1 .. k)]
  BY DEF Reads
<1> DEFINE c(k) == Cardinality(S \cap 1 .. k)
<1>2. ASSUME NEW k \in 1 .. n
      PROVE  IsFiniteSet(S \cap 1 .. k) /\ c(k) \in Nat
  <2>1. IsFiniteSet(1 .. k)
    BY FS_Interval
  <2>2. IsFiniteSet(S \cap 1 .. k)
    BY <2>1, FS_Subset
  <2> QED
    BY <2>2, FS_CardinalityType
<1>3. ASSUME NEW j \in 1 .. n, NEW k \in 1 .. n, j <= k PROVE c(j) <= c(k)
  <2>1. S \cap 1 .. j \in SUBSET (S \cap 1 .. k)
    BY <1>3
  <2> QED
    BY <1>2, <2>1, FS_Subset
<1>4. \A k \in 1 .. n : t[k] = now + c(k)
  BY <1>1
<1>5. Len(t) = n
  BY <1>1
<1> HIDE DEF c
<1>6. PICK m \in Nat : m = now
  OBVIOUS
<1>7. ASSUME NEW k \in 1 .. n PROVE t[k] \in Nat /\ now <= t[k]
  <2>1. PICK x \in Nat : x = c(k)
    BY <1>2
  <2> QED
    BY <1>4, <1>6, <2>1
<1>8. ASSUME NEW j \in 1 .. n, NEW k \in 1 .. n, j <= k PROVE t[j] <= t[k]
  <2>1. PICK x \in Nat, y \in Nat : x = c(j) /\ y = c(k) /\ x <= y
    BY <1>2, <1>3, <1>8
  <2> QED
    BY <1>4, <1>6, <2>1
<1> QED
  BY <1>5, <1>7, <1>8

(* The fields of a record of statistics.                                   *)
LEMMA RecordFields ==
  ASSUME NEW user \in Int, NEW system \in Int, NEW ready \in Int,
         NEW elapsed \in Nat, NEW trans \in Int, NEW remaining \in Int,
         NEW r, r = [user |-> user, system |-> system, ready |-> ready,
                     elapsed |-> elapsed, trans |-> trans, remaining |-> remaining]
  PROVE  /\ r \in Record
         /\ Total(r) = user + system + ready /\ Used(r) = user + system
         /\ r.elapsed = elapsed /\ r.remaining = remaining
BY DEF Record, Total, Used

(* Each of the routines closes the time since the last reading and begins  *)
(* the next at its second reading.                                         *)
Charges(r, s, q, t, start) ==
  /\ r \in Record
  /\ Total(r) = Total(s) + t - s.elapsed
  /\ r.elapsed = start /\ r.remaining = q

(* Each of the three routines charges the time since the last one, once.    *)
LEMMA RoutineFacts ==
  ASSUME NEW s \in Record, NEW q \in Int, NEW t \in Nat, NEW start \in Nat
  PROVE  /\ Charges(user_to_sys(s, q, t, start), s, q, t, start)
         /\ Charges(sys_to_user_ready(s, q, t, start), s, q, t, start)
         /\ Charges(ready_to_sys(s, q, t, start), s, q, t, start)
<1> SUFFICES ASSUME NEW r \in {user_to_sys(s, q, t, start),
                               sys_to_user_ready(s, q, t, start),
                               ready_to_sys(s, q, t, start)}
             PROVE  Charges(r, s, q, t, start)
  OBVIOUS
<1> USE DEF Charges
<1>1. PICK user \in Int, system \in Int, ready \in Int, elapsed \in Nat,
           trans \in Int, remaining \in Int :
        s = [user |-> user, system |-> system, ready |-> ready,
             elapsed |-> elapsed, trans |-> trans, remaining |-> remaining]
  BY DEF Record
<1>2. Total(s) = user + system + ready /\ s.elapsed = elapsed
  BY <1>1, RecordFields
<1>3. CASE r = user_to_sys(s, q, t, start)
  <2>1. r = [user |-> user + t - elapsed, system |-> system, ready |-> ready,
             elapsed |-> start, trans |-> trans, remaining |-> q]
    BY <1>1, <1>3 DEF user_to_sys
  <2>2. user + t - elapsed \in Int
    OBVIOUS
  <2>3. /\ r \in Record /\ Total(r) = (user + t - elapsed) + system + ready
        /\ r.elapsed = start /\ r.remaining = q
    BY <2>1, <2>2, RecordFields
  <2> QED
    BY <1>2, <2>3
<1>4. CASE r = sys_to_user_ready(s, q, t, start)
  <2>1. r = [user |-> user, system |-> system + t - elapsed, ready |-> ready,
             elapsed |-> start, trans |-> trans, remaining |-> q]
    BY <1>1, <1>4 DEF sys_to_user_ready
  <2>2. system + t - elapsed \in Int
    OBVIOUS
  <2>3. /\ r \in Record /\ Total(r) = user + (system + t - elapsed) + ready
        /\ r.elapsed = start /\ r.remaining = q
    BY <2>1, <2>2, RecordFields
  <2> QED
    BY <1>2, <2>3
<1>5. CASE r = ready_to_sys(s, q, t, start)
  <2>1. r = [user |-> user, system |-> system, ready |-> ready + t - elapsed,
             elapsed |-> start, trans |-> trans + 1, remaining |-> q]
    BY <1>1, <1>5 DEF ready_to_sys
  <2>2. ready + t - elapsed \in Int /\ trans + 1 \in Int
    OBVIOUS
  <2>3. /\ r \in Record /\ Total(r) = user + system + (ready + t - elapsed)
        /\ r.elapsed = start /\ r.remaining = q
    BY <2>1, <2>2, RecordFields
  <2> QED
    BY <1>2, <2>3
<1> QED
  BY <1>3, <1>4, <1>5

(* A routine has closed a record that counts since b: what it has been     *)
(* charged ends at the second reading.                                     *)
Closed(r, b, start, q) ==
  r \in Record /\ Settled(r, b) /\ r.elapsed = start /\ r.remaining = q

(* A routine leaves a record that was settled settled at its last reading.  *)
LEMMA RoutineSettles ==
  ASSUME NEW s \in Record, NEW b \in Nat, Settled(s, b),
         NEW q \in Int, NEW t \in Nat, NEW start \in Nat, t <= start
  PROVE  /\ Closed(user_to_sys(s, q, t, start), b, start, q)
         /\ Closed(sys_to_user_ready(s, q, t, start), b, start, q)
         /\ Closed(ready_to_sys(s, q, t, start), b, start, q)
<1>1. PICK e \in Nat, x \in Int : e = s.elapsed /\ x = Total(s)
  BY DEF Record, Total
<1>2. x <= e - b
  BY <1>1 DEF Settled
<1>3. x + t - e <= start - b
  BY <1>2
<1>4. ASSUME NEW r, Charges(r, s, q, t, start) PROVE Closed(r, b, start, q)
  BY <1>1, <1>3, <1>4 DEF Charges, Settled, Closed
<1>5. /\ Charges(user_to_sys(s, q, t, start), s, q, t, start)
      /\ Charges(sys_to_user_ready(s, q, t, start), s, q, t, start)
      /\ Charges(ready_to_sys(s, q, t, start), s, q, t, start)
  BY RoutineFacts
<1> QED
  BY <1>4, <1>5

(* The start of a handler settles the time of the program.                 *)
LEMMA EnteredFacts ==
  ASSUME IInv, StatsInv, Running, NEW n \in {4, 5, 8}, NEW t \in Reads(n)
  PROVE  /\ entered(t) \in [Task -> Record]
         /\ Settled(entered(t)[current], birth[current])
         /\ \A u \in Task : u # current => entered(t)[u] = estat[u]
<1>1. /\ current \in Live /\ current \in Task /\ now \in Nat
      /\ estat \in [Task -> Record] /\ birth \in [Task -> Nat]
      /\ quantum_ticks \in Int
      /\ Settled(estat[current], birth[current])
  BY SchedAssumption
     DEF IInv, TypeOK, Running, Live, StatsInv, StatsTypeOK, Accounted
<1>2. /\ n \in Nat \ {0} /\ 1 \in 1 .. n /\ 2 \in 1 .. n
  OBVIOUS
<1>3. t[1] \in Nat /\ t[2] \in Nat /\ t[1] <= t[2]
  BY <1>1, <1>2, ReadsFacts
<1> DEFINE r == user_to_sys(estat[current], quantum_ticks, t[1], t[2])
<1>4. r \in Record /\ Settled(r, birth[current])
  <2>1. estat[current] \in Record /\ birth[current] \in Nat
    BY <1>1
  <2>2. Closed(r, birth[current], t[2], quantum_ticks)
    BY <1>1, <1>3, <2>1, RoutineSettles
  <2> QED
    BY <2>2 DEF Closed
<1>5. entered(t) = [estat EXCEPT ![current] = r]
  BY DEF entered
<1> HIDE DEF r
<1> QED
  BY <1>1, <1>4, <1>5

(* The end of a handler whose process goes on.                             *)
LEMMA LeaveFacts ==
  ASSUME IInv, IInv', StatsInv, Running, NEW n \in {4, 5}, NEW t \in Reads(n),
         NEW e \in [Task -> Record], Settled(e[current], birth[current]),
         leave(e, t)
  PROVE  /\ estat' \in [Task -> Record] /\ now' \in Nat /\ now <= now'
         /\ \A k \in 1 .. n : t[k] <= now'
         /\ Settled(estat'[current], birth[current])
         /\ estat'[current].elapsed = now'
         /\ estat'[current].remaining = quantum_ticks'
         /\ \A u \in Task : u # current => estat'[u] = e[u]
<1>1. /\ current \in Task /\ now \in Nat /\ birth[current] \in Nat
      /\ e[current] \in Record /\ quantum_ticks' \in Int
  BY SchedAssumption DEF IInv, TypeOK, Running, StatsInv, StatsTypeOK
<1>2. /\ n \in Nat \ {0} /\ n - 1 \in 1 .. n /\ n \in 1 .. n /\ n - 1 <= n
      /\ \A k \in 1 .. n : k <= n
  OBVIOUS
<1>3. /\ t[n - 1] \in Nat /\ t[n] \in Nat /\ t[n - 1] <= t[n] /\ now <= t[n]
      /\ Len(t) = n /\ \A k \in 1 .. n : t[k] <= t[n]
  BY <1>1, <1>2, ReadsFacts
<1> DEFINE r == sys_to_user_ready(e[current], quantum_ticks', t[n - 1], t[n])
<1>4. /\ r \in Record /\ Settled(r, birth[current])
      /\ r.elapsed = t[n] /\ r.remaining = quantum_ticks'
  <2>1. Closed(r, birth[current], t[n], quantum_ticks')
    BY <1>1, <1>3, RoutineSettles
  <2> QED
    BY <2>1 DEF Closed
<1>5. estat' = [e EXCEPT ![current] = r] /\ now' = t[n]
  BY <1>3 DEF leave
<1> HIDE DEF r
<1>6. /\ estat' \in [Task -> Record] /\ estat'[current] = r
      /\ \A u \in Task : u # current => estat'[u] = e[u]
  BY <1>1, <1>4, <1>5
<1> QED
  BY <1>3, <1>4, <1>5, <1>6

(* The end of a handler in which another process, or none, enters.         *)
LEMMA SwitchFacts ==
  ASSUME IInv, IInv', StatsInv, Running, NEW t \in Reads(8),
         NEW e \in [Task -> Record], Settled(e[current], birth[current]),
         Running' => Settled(e[current'], birth[current']),
         switch(e, t)
  PROVE  /\ estat' \in [Task -> Record] /\ now' \in Nat /\ now <= now'
         /\ \A u \in Task :
              u \in {current, current'} =>
                Settled(estat'[u], birth[u]) /\ estat'[u].elapsed <= now'
         /\ Running' => estat'[current'].remaining = quantum_ticks'
         /\ \A u \in Task : u \notin {current, current'} => estat'[u] = e[u]
<1>1. /\ current \in Task /\ now \in Nat /\ birth \in [Task -> Nat]
      /\ quantum_ticks' \in Int
  BY SchedAssumption DEF IInv, TypeOK, Running, StatsInv, StatsTypeOK
<1>1a. /\ Running' => current' \in Task
       /\ ~Running' => current' \notin Task
  <2>1. NoTask \notin Task
    BY SchedAssumption DEF NoTask, Task
  <2> QED
    BY <2>1 DEF IInv, TypeOK, Running
<1>2. /\ \A k \in 3 .. 8 : t[k] \in Nat /\ now <= t[k]
      /\ t[3] <= t[4] /\ t[4] <= t[8] /\ t[5] <= t[6] /\ t[7] <= t[8]
  <2>1. 8 \in Nat \ {0} /\ \A k \in 3 .. 8 : k \in 1 .. 8
    OBVIOUS
  <2>2. \A k \in 3 .. 8 : t[k] \in Nat /\ now <= t[k]
    BY <1>1, <2>1, ReadsFacts
  <2>3. \A j, k \in 1 .. 8 : j <= k => t[j] <= t[k]
    BY <1>1, <2>1, ReadsFacts
  <2> QED
    BY <2>2, <2>3
<1> DEFINE r   == sys_to_user_ready(e[current], quantum_ticks', t[3], t[4])
           out == [e EXCEPT ![current] = r]
<1>3. /\ r \in Record /\ Settled(r, birth[current]) /\ r.elapsed = t[4]
  <2>1. t[3] \in Nat /\ t[4] \in Nat /\ t[3] <= t[4]
    BY <1>2
  <2>2. e[current] \in Record /\ birth[current] \in Nat
    BY <1>1
  <2> QED
    <3>1. Closed(r, birth[current], t[4], quantum_ticks')
      BY <1>1, <2>1, <2>2, RoutineSettles
    <3> QED
      BY <3>1 DEF Closed
<1>4. /\ now' = t[8]
      /\ ~Running' => estat' = out
      /\ Running' => estat' =
           [out EXCEPT ![current'] =
              sys_to_user_ready(ready_to_sys(out[current'], quantum_ticks', t[5], t[6]),
                                quantum_ticks', t[7], t[8])]
  BY DEF switch
<1> HIDE DEF r
<1>5. /\ out \in [Task -> Record] /\ out[current] = r
      /\ \A u \in Task : u # current => out[u] = e[u]
  BY <1>1, <1>3
<1> HIDE DEF out
<1>6. now' \in Nat /\ now <= now' /\ t[4] <= now' /\ t[4] \in Nat
  BY <1>2, <1>4
<1>7. CASE ~Running'
  BY <1>1, <1>1a, <1>3, <1>4, <1>5, <1>6, <1>7
<1>8. CASE Running'
  <2> DEFINE w == ready_to_sys(out[current'], quantum_ticks', t[5], t[6])
             x == sys_to_user_ready(w, quantum_ticks', t[7], t[8])
  <2>1. /\ current' \in Task /\ out[current'] \in Record
        /\ Settled(out[current'], birth[current']) /\ birth[current'] \in Nat
    BY <1>1, <1>1a, <1>3, <1>5, <1>8
  <2>2. /\ t[5] \in Nat /\ t[6] \in Nat /\ t[7] \in Nat /\ t[8] \in Nat
        /\ t[5] <= t[6] /\ t[7] <= t[8]
    BY <1>2
  <2>3. w \in Record /\ Settled(w, birth[current'])
    <3>1. Closed(w, birth[current'], t[6], quantum_ticks')
      BY <1>1, <2>1, <2>2, RoutineSettles
    <3> QED
      BY <3>1 DEF Closed
  <2> HIDE DEF w
  <2>4. /\ x \in Record /\ Settled(x, birth[current']) /\ x.elapsed = t[8]
        /\ x.remaining = quantum_ticks'
    <3>1. Closed(x, birth[current'], t[8], quantum_ticks')
      BY <1>1, <2>1, <2>2, <2>3, RoutineSettles
    <3> QED
      BY <3>1 DEF Closed
  <2>5. estat' = [out EXCEPT ![current'] = x]
    BY <1>4, <1>8 DEF w
  <2> HIDE DEF x
  <2>6. /\ estat' \in [Task -> Record] /\ estat'[current'] = x
        /\ \A u \in Task : u # current' => estat'[u] = out[u]
    BY <1>5, <2>1, <2>4, <2>5
  <2>7. x.elapsed <= now'
    BY <1>4, <2>2, <2>4
  <2> QED
    BY <1>1, <1>3, <1>5, <1>6, <2>4, <2>6, <2>7
<1> QED
  BY <1>7, <1>8

(* What a routine adds to the time of the processor that s has used.       *)
Spends(r, s, x) == r \in Record /\ Used(s) \in Int /\ Used(r) = Used(s) + x

(* Two of the routines charge the processor's time, the third a wait.      *)
LEMMA RoutineSpends ==
  ASSUME NEW s \in Record, NEW q \in Int, NEW t \in Nat, NEW start \in Nat
  PROVE  /\ Spends(user_to_sys(s, q, t, start), s, t - s.elapsed)
         /\ Spends(sys_to_user_ready(s, q, t, start), s, t - s.elapsed)
         /\ Spends(ready_to_sys(s, q, t, start), s, 0)
<1>1. PICK user \in Int, system \in Int, ready \in Int, elapsed \in Nat,
           trans \in Int, remaining \in Int :
        s = [user |-> user, system |-> system, ready |-> ready,
             elapsed |-> elapsed, trans |-> trans, remaining |-> remaining]
  BY DEF Record
<1>2. Used(s) = user + system /\ s.elapsed = elapsed
  BY <1>1 DEF Used
<1>3. ASSUME NEW r, r = user_to_sys(s, q, t, start)
      PROVE  r = [user |-> user + t - elapsed, system |-> system, ready |-> ready,
           elapsed |-> start, trans |-> trans, remaining |-> q]
  BY <1>1, <1>3 DEF user_to_sys
<1>4. ASSUME NEW r, r = sys_to_user_ready(s, q, t, start)
      PROVE  r = [user |-> user, system |-> system + t - elapsed, ready |-> ready,
           elapsed |-> start, trans |-> trans, remaining |-> q]
  BY <1>1, <1>4 DEF sys_to_user_ready
<1>5. ASSUME NEW r, r = ready_to_sys(s, q, t, start)
      PROVE  r = [user |-> user, system |-> system, ready |-> ready + t - elapsed,
           elapsed |-> start, trans |-> trans + 1, remaining |-> q]
  BY <1>1, <1>5 DEF ready_to_sys
<1>6. ASSUME NEW a \in Int, NEW b \in Int, NEW c \in Int, NEW d \in Int, NEW r,
             r = [user |-> a, system |-> b, ready |-> c,
                  elapsed |-> start, trans |-> d, remaining |-> q]
      PROVE  r \in Record /\ Used(r) = a + b
  BY <1>6 DEF Record, Used
<1>7. user + t - elapsed \in Int /\ system + t - elapsed \in Int
      /\ ready + t - elapsed \in Int /\ trans + 1 \in Int
  OBVIOUS
<1>8. /\ user_to_sys(s, q, t, start) \in Record
      /\ Used(user_to_sys(s, q, t, start)) = (user + t - elapsed) + system
  BY <1>3, <1>6, <1>7
<1>9. /\ sys_to_user_ready(s, q, t, start) \in Record
      /\ Used(sys_to_user_ready(s, q, t, start)) = user + (system + t - elapsed)
  BY <1>4, <1>6, <1>7
<1>10. /\ ready_to_sys(s, q, t, start) \in Record
       /\ Used(ready_to_sys(s, q, t, start)) = user + system
  BY <1>5, <1>6, <1>7
<1> QED
  BY <1>2, <1>8, <1>9, <1>10 DEF Spends

(* Of a record that was s, and is r at the time end, no more was used than *)
(* the time between.                                                       *)
Within(r, s, begin, end) ==
  /\ Used(r) \in Int /\ Used(s) \in Int
  /\ Used(s) <= Used(r) /\ Used(r) - Used(s) <= end - begin

(* The start of a handler, and its end if the same process goes on, charge *)
(* it no more than the time since its last reading.                        *)
LEMMA LeaveSpends ==
  ASSUME IInv, IInv', StatsInv, Running, NEW n \in {4, 5}, NEW t \in Reads(n),
         NEW e \in [Task -> Record],
         Used(e[current]) = Used(entered(t)[current]),
         e[current].elapsed = entered(t)[current].elapsed,
         leave(e, t)
  PROVE  /\ Within(estat'[current], estat[current], estat[current].elapsed, now')
         /\ estat'[current].elapsed = now'
         /\ \A u \in Task : u # current => estat'[u] = e[u]
<1>1. /\ current \in Task /\ now \in Nat /\ current \in Live
      /\ e[current] \in Record /\ quantum_ticks \in Int /\ quantum_ticks' \in Int
      /\ estat \in [Task -> Record] /\ estat[current].elapsed <= now
  BY SchedAssumption
     DEF IInv, TypeOK, Running, Live, StatsInv, StatsTypeOK, Accounted
<1>2. PICK a \in Nat, x \in Nat, s \in Record :
        a = estat[current].elapsed /\ x = now /\ a <= x /\ s = estat[current]
  BY <1>1 DEF Record
<1>3. /\ n \in Nat \ {0} /\ 1 \in 1 .. n /\ 2 \in 1 .. n /\ n - 1 \in 1 .. n
      /\ n \in 1 .. n /\ 1 <= 2 /\ 2 <= n - 1 /\ n - 1 <= n
  OBVIOUS
<1>4. PICK t1 \in Nat, t2 \in Nat, t3 \in Nat, t4 \in Nat :
        /\ t1 = t[1] /\ t2 = t[2] /\ t3 = t[n - 1] /\ t4 = t[n]
        /\ x <= t1 /\ t1 <= t2 /\ t2 <= t3 /\ t3 <= t4
        /\ Len(t) = n
  <2>1. /\ t[1] \in Nat /\ t[2] \in Nat /\ t[n - 1] \in Nat /\ t[n] \in Nat
        /\ x <= t[1] /\ Len(t) = n
    BY <1>1, <1>2, <1>3, ReadsFacts
  <2>2. t[1] <= t[2] /\ t[2] <= t[n - 1] /\ t[n - 1] <= t[n]
    BY <1>1, <1>3, ReadsFacts
  <2> QED
    BY <2>1, <2>2, Zenon
<1> DEFINE r == user_to_sys(s, quantum_ticks, t1, t2)
           w == sys_to_user_ready(e[current], quantum_ticks', t3, t4)
<1>5. entered(t)[current] = r
  BY <1>1, <1>2, <1>4 DEF entered
<1>6. estat' = [e EXCEPT ![current] = w] /\ now' = t4
  BY <1>4 DEF leave
<1>7. Spends(r, s, t1 - s.elapsed) /\ Spends(w, e[current], t3 - e[current].elapsed)
  BY <1>1, RoutineSpends
<1>8. r.elapsed = t2 /\ w.elapsed = t4
  <2>1. Charges(r, s, quantum_ticks, t1, t2)
    BY <1>1, RoutineFacts
  <2>2. Charges(w, e[current], quantum_ticks', t3, t4)
    BY <1>1, RoutineFacts
  <2> QED
    BY <2>1, <2>2 DEF Charges
<1>9. estat'[current] = w /\ \A u \in Task : u # current => estat'[u] = e[u]
  BY <1>1, <1>6
<1> HIDE DEF r, w
<1>10. /\ Used(s) \in Int /\ Used(r) = Used(s) + (t1 - a)
       /\ Used(w) = Used(r) + (t3 - t2)
  BY <1>2, <1>5, <1>7, <1>8 DEF Spends
<1>11. Within(w, s, a, t4)
  <2>1. PICK i \in Int : i = Used(s)
    BY <1>10
  <2>2. Used(r) = i + (t1 - a) /\ Used(w) = i + (t1 - a) + (t3 - t2)
    BY <1>10, <2>1
  <2>3. /\ i <= i + (t1 - a) + (t3 - t2)
        /\ i + (t1 - a) + (t3 - t2) - i <= t4 - a
    <3>1. a <= x /\ x <= t1 /\ t1 <= t2 /\ t2 <= t3 /\ t3 <= t4
      BY <1>2, <1>4
    <3> QED
      BY <3>1
  <2> QED
    BY <2>1, <2>2, <2>3 DEF Within
<1> QED
  BY <1>2, <1>6, <1>8, <1>9, <1>11

(* A switch charges whoever leaves no more than the time until then, and   *)
(* whoever enters no more than the time since.                             *)
LEMMA SwitchSpends ==
  ASSUME IInv, IInv', StatsInv, Running, current' # current,
         NEW t \in Reads(8), switch(entered(t), t)
  PROVE  \E y \in Nat :
           /\ Within(estat'[current], estat[current], estat[current].elapsed, y)
           /\ y <= now'
           /\ Running' => /\ Within(estat'[current'], estat[current'], y, now')
                          /\ estat'[current'].elapsed = now'
           /\ \A u \in Task : u \notin {current, current'} => estat'[u] = estat[u]
<1>1. /\ current \in Task /\ now \in Nat /\ current \in Live
      /\ quantum_ticks \in Int /\ quantum_ticks' \in Int
      /\ estat \in [Task -> Record] /\ estat[current].elapsed <= now
      /\ Running' => current' \in Task
  BY SchedAssumption
     DEF IInv, TypeOK, Running, Live, StatsInv, StatsTypeOK, Accounted
<1>2. PICK a \in Nat, x \in Nat, s \in Record :
        a = estat[current].elapsed /\ x = now /\ a <= x /\ s = estat[current]
  BY <1>1 DEF Record
<1>3. /\ \A k \in 1 .. 8 : t[k] \in Nat /\ x <= t[k]
      /\ \A j, k \in 1 .. 8 : j <= k => t[j] <= t[k]
  <2>1. 8 \in Nat \ {0}
    OBVIOUS
  <2> QED
    BY <1>1, <1>2, <2>1, ReadsFacts
<1>4. PICK t1 \in Nat, t2 \in Nat, t3 \in Nat, t4 \in Nat,
           t5 \in Nat, t6 \in Nat, t7 \in Nat, t8 \in Nat :
        /\ t1 = t[1] /\ t2 = t[2] /\ t3 = t[3] /\ t4 = t[4]
        /\ t5 = t[5] /\ t6 = t[6] /\ t7 = t[7] /\ t8 = t[8]
        /\ x <= t1 /\ t1 <= t2 /\ t2 <= t3 /\ t3 <= t4
        /\ t4 <= t5 /\ t5 <= t6 /\ t6 <= t7 /\ t7 <= t8
  <2>1. /\ t[1] \in Nat /\ t[2] \in Nat /\ t[3] \in Nat /\ t[4] \in Nat
        /\ t[5] \in Nat /\ t[6] \in Nat /\ t[7] \in Nat /\ t[8] \in Nat
        /\ x <= t[1]
    BY <1>3
  <2>2. t[1] <= t[2] /\ t[2] <= t[3] /\ t[3] <= t[4]
    BY <1>3
  <2>3. t[4] <= t[5] /\ t[5] <= t[6] /\ t[6] <= t[7] /\ t[7] <= t[8]
    BY <1>3
  <2> QED
    BY <2>1, <2>2, <2>3, Zenon
<1> DEFINE r   == user_to_sys(s, quantum_ticks, t1, t2)
           w   == sys_to_user_ready(r, quantum_ticks', t3, t4)
           old == estat[current']
           v   == ready_to_sys(old, quantum_ticks', t5, t6)
           z   == sys_to_user_ready(v, quantum_ticks', t7, t8)
<1>5. entered(t) = [estat EXCEPT ![current] = r]
  BY <1>2, <1>4 DEF entered
<1>6. Spends(r, s, t1 - a) /\ r.elapsed = t2
  <2>1. Charges(r, s, quantum_ticks, t1, t2)
    BY <1>1, RoutineFacts
  <2> QED
    BY <1>1, <1>2, <2>1, RoutineSpends DEF Charges
<1>7. Spends(w, r, t3 - t2) /\ w.elapsed = t4
  <2>1. r \in Record
    BY <1>6 DEF Spends
  <2> HIDE DEF r
  <2>2. Charges(w, r, quantum_ticks', t3, t4)
    BY <1>1, <2>1, RoutineFacts
  <2>3. Spends(w, r, t3 - r.elapsed)
    BY <1>1, <2>1, RoutineSpends
  <2> QED
    BY <1>6, <2>2, <2>3 DEF Charges
<1>8. ASSUME Running'
      PROVE  Spends(v, old, 0) /\ v.elapsed = t6 /\ v \in Record
  <2>1. old \in Record
    BY <1>1, <1>8
  <2> HIDE DEF old
  <2>2. Charges(v, old, quantum_ticks', t5, t6)
    BY <1>1, <2>1, RoutineFacts
  <2>3. Spends(v, old, 0)
    BY <1>1, <2>1, RoutineSpends
  <2> QED
    BY <2>2, <2>3 DEF Charges
<1>9. ASSUME Running'
      PROVE  Spends(z, v, t7 - t6) /\ z.elapsed = t8
  <2>1. v \in Record
    BY <1>8, <1>9
  <2> HIDE DEF v
  <2>2. Charges(z, v, quantum_ticks', t7, t8)
    BY <1>1, <2>1, RoutineFacts
  <2>3. Spends(z, v, t7 - v.elapsed)
    BY <1>1, <2>1, RoutineSpends
  <2> QED
    BY <1>8, <1>9, <2>2, <2>3 DEF Charges
<1>10. /\ now' = t8
       /\ ~Running' => estat' = [estat EXCEPT ![current] = w]
       /\ Running' => estat' = [[estat EXCEPT ![current] = w] EXCEPT ![current'] = z]
  <2>1. /\ entered(t)[current] = r
        /\ [entered(t) EXCEPT ![current] = w] = [estat EXCEPT ![current] = w]
    <3> HIDE DEF r, w
    <3> QED
      BY <1>1, <1>5
  <2>2. [entered(t) EXCEPT ![current] =
           sys_to_user_ready(@, quantum_ticks', t[3], t[4])]
          = [estat EXCEPT ![current] = w]
    BY <1>4, <2>1
  <2>3. Running' => [estat EXCEPT ![current] = w][current'] = old
    <3> HIDE DEF r, w
    <3> QED
      BY <1>1
  <2> QED
    BY <1>4, <2>2, <2>3 DEF switch
<1> HIDE DEF r, w, v, z, old
<1>11. /\ estat'[current] = w
       /\ Running' => estat'[current'] = z
       /\ \A u \in Task : u \notin {current, current'} => estat'[u] = estat[u]
  <2>1. CASE Running'
    BY <1>1, <1>10, <2>1
  <2>2. CASE ~Running'
    BY <1>1, <1>10, <2>2
  <2> QED
    BY <2>1, <2>2
<1>12. Within(w, s, a, t4)
  <2>1. PICK i \in Int : i = Used(s)
    BY <1>6 DEF Spends
  <2>2. Used(w) = i + (t1 - a) + (t3 - t2)
    BY <1>6, <1>7, <2>1 DEF Spends
  <2>3. /\ i <= i + (t1 - a) + (t3 - t2)
        /\ i + (t1 - a) + (t3 - t2) - i <= t4 - a
    BY <1>2, <1>4
  <2> QED
    BY <2>1, <2>2, <2>3 DEF Within
<1>13. ASSUME Running' PROVE Within(z, old, t4, t8)
  <2>1. PICK i \in Int : i = Used(old)
    BY <1>8, <1>13 DEF Spends
  <2>2. Used(z) = i + (t7 - t6)
    BY <1>8, <1>9, <1>13, <2>1 DEF Spends
  <2>3. i <= i + (t7 - t6) /\ i + (t7 - t6) - i <= t8 - t4
    BY <1>4
  <2> QED
    BY <2>1, <2>2, <2>3 DEF Within
<1> QED
  BY <1>2, <1>4, <1>9, <1>10, <1>11, <1>12, <1>13 DEF old

-----------------------------------------------------------------------------
(* The time of one processor, shared among the processes.                  *)

(* The share of everybody is a number, and that of the processes that live *)
(* is what they have used.                                                 *)
LEMMA ShareFacts ==
  ASSUME IInv, StatsInv
  PROVE  /\ Shares \in [Task -> Int]
         /\ \A u \in Task : TimeShare(u) \in Int /\ 0 <= TimeShare(u)
         /\ \A u \in Live : TimeShare(u) = Used(estat[u])
<1>1. Live \subseteq Task /\ estat \in [Task -> Record]
  BY DEF IInv, OnePlace, StatsInv, StatsTypeOK
<1>2. \A s \in Record : Used(s) \in Int
  BY DEF Record, Used
<1>3. \A u \in Live : TimeShare(u) = Used(estat[u])
  BY DEF TimeShare, Charged, Used
<1>4. \A u \in Task : u \notin Live => TimeShare(u) = 0
  BY DEF TimeShare
<1>5. \A u \in Live : Used(estat[u]) \in Int /\ 0 <= Used(estat[u])
  BY <1>1, <1>2 DEF StatsInv, Spent
<1>6. \A u \in Task : TimeShare(u) \in Int /\ 0 <= TimeShare(u)
  BY <1>3, <1>4, <1>5
<1> QED
  BY <1>3, <1>6 DEF Shares

(* When the same process goes on, and nobody else's share changes.         *)
LEMMA SpentGoesOn ==
  ASSUME IInv, IInv', StatsInv, Running, current' = current,
         Live \subseteq Live', now' \in Nat,
         Within(estat'[current], estat[current], estat[current].elapsed, now'),
         estat'[current].elapsed = now',
         \A u \in Task : u # current => TimeShare(u)' = TimeShare(u)
  PROVE  Spent'
<1>1. /\ current \in Task /\ current \in Live /\ Live' \subseteq Task /\ Running'
      /\ estat[current] \in Record
  BY DEF IInv, TypeOK, OnePlace, Running, Live, StatsInv, StatsTypeOK
<1>2. /\ Shares \in [Task -> Int]
      /\ \A u \in Task : TimeShare(u) \in Int /\ 0 <= TimeShare(u)
      /\ TimeShare(current) = Used(estat[current])
  BY <1>1, ShareFacts
<1>3. \A u \in Live' : TimeShare(u)' = Used(estat'[u])
  BY DEF TimeShare, Charged, Used
<1>4. PICK i \in Int, j \in Int, a \in Nat, b \in Nat, v \in Int :
        /\ i = Used(estat[current]) /\ j = Used(estat'[current])
        /\ a = estat[current].elapsed /\ b = now'
        /\ v = SumOver(Shares)
        /\ 0 <= i /\ i <= j /\ j - i <= b - a
  <2>1. SumOver(Shares) \in Int
    <3>1. Changed([Shares EXCEPT ![current] = 0], Shares, current, 0)
      BY DEF Changed
    <3> QED
      BY <1>1, <1>2, <3>1, SumChange
  <2>2. estat[current].elapsed \in Nat
    BY <1>1 DEF Record
  <2> QED
    BY <1>1, <1>2, <2>1, <2>2 DEF Within
<1>5. v <= a
  BY <1>4 DEF StatsInv, Spent
<1>6. TimeShare(current)' = j
  BY <1>1, <1>3, <1>4
<1>7. Shares' = [Shares EXCEPT ![current] = j]
  <2>1. Shares' = [u \in Task |-> TimeShare(u)']
    BY DEF Shares
  <2>2. Shares = [u \in Task |-> TimeShare(u)]
    BY DEF Shares
  <2>3. \A u \in Task : TimeShare(u)' = IF u = current THEN j ELSE TimeShare(u)
    BY <1>6
  <2> QED
    BY <1>1, <2>1, <2>2, <2>3
<1>8. SumOver(Shares') = v + j - i
  <2>1. Shares[current] = i
    BY <1>1, <1>2, <1>4 DEF Shares
  <2>2. PICK f \in [Task -> Int], p \in Task, g \in [Task -> Int] :
          f = Shares /\ p = current /\ Changed(g, f, p, j)
    BY <1>1, <1>2 DEF Changed
  <2>3. SumOver(g) = SumOver(f) + j - f[p]
    BY <2>2, SumChange
  <2>4. g = Shares'
    BY <1>7, <2>2 DEF Changed
  <2> QED
    BY <1>4, <2>1, <2>2, <2>3, <2>4
<1>9. SumOver(Shares') <= estat'[current'].elapsed
  BY <1>4, <1>5, <1>8
<1>10. \A u \in Live' : 0 <= Used(estat'[u])
  <2>1. \A u \in Task : 0 <= TimeShare(u)'
    BY <1>2, <1>4, <1>6
  <2> QED
    BY <1>1, <1>3, <2>1
<1> QED
  BY <1>1, <1>9, <1>10 DEF Spent

(* When another process, or none, enters, and whoever left goes to a queue *)
(* or is dead.                                                             *)
LEMMA SpentSwitches ==
  ASSUME IInv, IInv', StatsInv, Running, current' # current, now' \in Nat,
         Live' \subseteq Live, Live \ {current} \subseteq Live',
         NEW y \in Nat, y <= now',
         Within(estat'[current], estat[current], estat[current].elapsed, y),
         Running' => /\ Within(estat'[current'], estat[current'], y, now')
                     /\ estat'[current'].elapsed = now',
         \A u \in Task : u \notin {current, current'} => estat'[u] = estat[u]
  PROVE  Spent'
<1>1. /\ current \in Task /\ current \in Live /\ Live \subseteq Task
      /\ estat[current] \in Record
      /\ Running' => current' \in Task /\ current' \in Live'
      /\ ~Running' => current' \notin Task
  <2>1. NoTask \notin Task
    BY SchedAssumption DEF NoTask, Task
  <2> QED
    BY <2>1 DEF IInv, TypeOK, OnePlace, Running, Live, StatsInv, StatsTypeOK
<1>2. /\ Shares \in [Task -> Int]
      /\ \A u \in Task : TimeShare(u) \in Int /\ 0 <= TimeShare(u)
      /\ \A u \in Live : TimeShare(u) = Used(estat[u])
  BY <1>1, ShareFacts
<1>3. \A u \in Live' : TimeShare(u)' = Used(estat'[u])
  BY DEF TimeShare, Charged, Used
<1>4. PICK i \in Int, j \in Int, a \in Nat, b \in Nat, v \in Int :
        /\ i = Used(estat[current]) /\ j = Used(estat'[current])
        /\ a = estat[current].elapsed /\ b = now'
        /\ v = SumOver(Shares)
        /\ 0 <= i /\ i <= j /\ j - i <= y - a
  <2>1. SumOver(Shares) \in Int
    <3>1. Changed([Shares EXCEPT ![current] = 0], Shares, current, 0)
      BY DEF Changed
    <3> QED
      BY <1>1, <1>2, <3>1, SumChange
  <2>2. estat[current].elapsed \in Nat
    BY <1>1 DEF Record
  <2> QED
    BY <1>1, <1>2, <2>1, <2>2 DEF Within
<1>5. v <= a
  BY <1>4 DEF StatsInv, Spent
<1>6. PICK k \in Int : k = Shares'[current] /\ 0 <= k /\ k <= j
  <2>1. CASE current \in Live'
    <3>1. Shares'[current] = j
      BY <1>1, <1>4, <2>1 DEF TimeShare, Shares, Charged, Used
    <3> QED
      BY <1>4, <3>1
  <2>2. CASE current \notin Live'
    <3>1. Shares'[current] = 0
      BY <1>1, <2>2 DEF TimeShare, Shares
    <3> QED
      BY <1>4, <3>1
  <2> QED
    BY <2>1, <2>2
<1>7. ASSUME NEW u \in Task, u \notin {current, current'}
      PROVE  TimeShare(u)' = TimeShare(u)
  <2>1. u \in Live' <=> u \in Live
    BY <1>7
  <2> QED
    BY <1>7, <2>1 DEF TimeShare, Charged
<1> DEFINE h == [Shares EXCEPT ![current] = k]
<1>8. h \in [Task -> Int] /\ SumOver(h) = v + k - i
  <2>1. Shares[current] = i
    BY <1>1, <1>2, <1>4 DEF Shares
  <2>2. PICK f \in [Task -> Int], p \in Task, g \in [Task -> Int] :
          f = Shares /\ p = current /\ Changed(g, f, p, k)
    BY <1>1, <1>2 DEF Changed
  <2>3. SumOver(g) = SumOver(f) + k - f[p]
    BY <2>2, SumChange
  <2>4. g = h /\ h \in [Task -> Int]
    BY <1>2, <2>2 DEF Changed
  <2> HIDE DEF h
  <2> QED
    BY <1>4, <2>1, <2>2, <2>3, <2>4
<1>9. PICK w \in Int : w = SumOver(h) /\ w <= y
  BY <1>4, <1>5, <1>6, <1>8
<1>10. /\ \A u \in Task : u # current => h[u] = TimeShare(u)
       /\ h[current] = Shares'[current]
  BY <1>1, <1>2, <1>6 DEF Shares
<1>11. Shares' = [u \in Task |-> TimeShare(u)']
  BY DEF Shares
<1> HIDE DEF h
<1>12. CASE ~Running'
  <2>1. \A u \in Task : TimeShare(u)' = h[u]
    BY <1>1, <1>7, <1>10, <1>11, <1>12
  <2>2. Shares' = h
    BY <1>8, <1>11, <2>1
  <2>3. SumOver(Shares') <= now'
    BY <1>4, <1>9, <2>2
  <2>4. \A u \in Live' : u # current => TimeShare(u)' = TimeShare(u)
    BY <1>1, <1>7, <1>12
  <2>5. ASSUME NEW u \in Live' PROVE 0 <= Used(estat'[u])
    <3>1. u \in Task /\ Shares'[u] = Used(estat'[u])
      BY <1>1, <1>3, <1>11
    <3>2. u # current => Shares'[u] = TimeShare(u)
      BY <1>11, <2>4, <3>1
    <3> QED
      BY <1>2, <1>6, <3>1, <3>2
  <2> QED
    BY <1>12, <2>3, <2>5 DEF Spent
<1>13. CASE Running'
  <2>1. PICK m \in Int, n \in Int :
          /\ m = Used(estat[current']) /\ n = Used(estat'[current'])
          /\ m <= n /\ n - m <= b - y
    BY <1>4, <1>13 DEF Within
  <2>2. /\ current' \in Task /\ current' \in Live /\ current' \in Live'
        /\ TimeShare(current') = m /\ 0 <= m
    BY <1>1, <1>2, <1>13, <2>1
  <2>3. h[current'] = m
    BY <1>10, <2>2
  <2>4. Shares'[current'] = n /\ \A u \in Live' : u = current' => TimeShare(u)' = n
    BY <1>3, <1>11, <2>1, <2>2
  <2>5. Shares' = [h EXCEPT ![current'] = n]
    <3>1. ASSUME NEW u \in Task
          PROVE  Shares'[u] = IF u = current' THEN n ELSE h[u]
      <4>1. CASE u = current'
        BY <2>4, <4>1
      <4>2. CASE u = current
        BY <1>10, <4>2
      <4>3. CASE u \notin {current, current'}
        BY <1>7, <1>10, <1>11, <4>3
      <4> QED
        BY <4>1, <4>2, <4>3
    <3>2. Shares' = [u \in Task |-> Shares'[u]]
      BY <1>11
    <3> QED
      BY <1>8, <2>2, <3>1, <3>2
  <2>6. SumOver(Shares') = w + n - m
    <3>1. PICK f \in [Task -> Int], p \in Task, g \in [Task -> Int] :
            f = h /\ p = current' /\ Changed(g, f, p, n)
      BY <1>8, <2>2 DEF Changed
    <3>2. SumOver(g) = SumOver(f) + n - f[p]
      BY <3>1, SumChange
    <3>3. g = Shares'
      BY <2>5, <3>1 DEF Changed
    <3> QED
      BY <1>9, <2>3, <3>1, <3>2, <3>3
  <2>7. SumOver(Shares') <= estat'[current'].elapsed
    BY <1>4, <1>9, <1>13, <2>1, <2>6
  <2>8. \A u \in Live' : 0 <= Used(estat'[u])
    <3>1. ASSUME NEW u \in Live' PROVE 0 <= TimeShare(u)'
      <4>1. CASE u = current
        BY <1>1, <1>6, <1>11, <4>1
      <4>2. CASE u = current'
        BY <2>1, <2>2, <2>4, <4>2
      <4>3. CASE u \notin {current, current'}
        BY <1>1, <1>2, <1>7, <4>3
      <4> QED
        BY <4>1, <4>2, <4>3
    <3> QED
      BY <1>3, <3>1
  <2> QED
    BY <1>13, <2>7, <2>8 DEF Spent
<1> QED
  BY <1>12, <1>13

-----------------------------------------------------------------------------
(* The inductive invariant, and RemainingTold after every step: the last   *)
(* routine of a handler writes the ticks left.                             *)

(* A handler whose process goes on keeps every account, as long as what it *)
(* leaves to the others was settled by its third reading.                  *)
LEMMA LeaveAccounts ==
  ASSUME IInv, IInv', StatsInv, Running, current' = current,
         NEW n \in {4, 5}, NEW t \in Reads(n), NEW e \in [Task -> Record],
         birth' \in [Task -> Nat], birth'[current] = birth[current],
         Settled(e[current], birth[current]),
         \A u \in Live' : u # current =>
           Settled(e[u], birth'[u]) /\ e[u].elapsed <= t[3],
         Used(e[current]) = Used(entered(t)[current]),
         e[current].elapsed = entered(t)[current].elapsed,
         Live \subseteq Live',
         \A u \in Live : u # current => Used(e[u]) = Used(estat[u]),
         \A u \in Live' \ Live : Used(e[u]) = 0,
         leave(e, t)
  PROVE  /\ estat' \in [Task -> Record] /\ now' \in Nat
         /\ Accounted' /\ Spent' /\ RemainingTold'
<1>1. /\ estat' \in [Task -> Record] /\ now' \in Nat /\ now <= now'
      /\ \A k \in 1 .. n : t[k] <= now'
      /\ Settled(estat'[current], birth[current])
      /\ estat'[current].elapsed = now'
      /\ estat'[current].remaining = quantum_ticks'
      /\ \A u \in Task : u # current => estat'[u] = e[u]
  BY LeaveFacts
<1>2. Live' \subseteq Task
  BY DEF IInv, OnePlace
<1>3. t[3] \in Nat /\ t[3] <= now'
  <2>1. n \in Nat \ {0} /\ 3 \in 1 .. n /\ now \in Nat
    BY DEF StatsInv, StatsTypeOK
  <2> QED
    BY <1>1, <2>1, ReadsFacts
<1>4. ASSUME NEW u \in Live'
      PROVE  Settled(estat'[u], birth'[u]) /\ estat'[u].elapsed <= now'
  <2>1. CASE u = current
    BY <1>1, <2>1
  <2>2. CASE u # current
    <3>1. estat'[u] = e[u] /\ Settled(e[u], birth'[u]) /\ e[u].elapsed <= t[3]
      BY <1>1, <1>2, <2>2
    <3>2. e[u].elapsed \in Nat
      BY <1>2 DEF Record
    <3>3. PICK x \in Nat, y \in Nat : x = now' /\ y = t[3] /\ y <= x
      BY <1>1, <1>3
    <3> QED
      BY <3>1, <3>2, <3>3
  <2> QED
    BY <2>1, <2>2
<1>5. Within(estat'[current], estat[current], estat[current].elapsed, now')
  BY LeaveSpends
<1>6. ASSUME NEW u \in Task, u # current PROVE TimeShare(u)' = TimeShare(u)
  <2>1. estat'[u] = e[u]
    BY <1>1, <1>6
  <2>2. TimeShare(u) = IF u \in Live THEN Used(estat[u]) ELSE 0
    BY DEF TimeShare, Charged, Used
  <2>3. TimeShare(u)' = IF u \in Live' THEN Used(e[u]) ELSE 0
    BY <2>1 DEF TimeShare, Charged, Used
  <2> QED
    BY <1>6, <2>2, <2>3
<1>7. Spent'
  BY <1>1, <1>5, <1>6, SpentGoesOn
<1> QED
  BY <1>1, <1>4, <1>7 DEF Accounted, RemainingTold, Running

(* The others' records, and the caller's, are settled when a handler has   *)
(* entered, and the changes that a handler makes beside the routines (a    *)
(* transition, the ticks left) do not touch what was charged.              *)
SameCharge(r, s) ==
  /\ r \in Record /\ r.elapsed = s.elapsed
  /\ Total(r) = Total(s) /\ Used(r) = Used(s)

(* Counting a transition and noting the remaining ticks charge nothing.     *)
LEMMA CountedFacts ==
  ASSUME NEW s \in Record
  PROVE  /\ SameCharge([s EXCEPT !.trans = @ + 1], s)
         /\ \A q \in Int : SameCharge([s EXCEPT !.remaining = q], s)
<1>1. PICK user \in Int, system \in Int, ready \in Int, elapsed \in Nat,
           trans \in Int, remaining \in Int :
        s = [user |-> user, system |-> system, ready |-> ready,
             elapsed |-> elapsed, trans |-> trans, remaining |-> remaining]
  BY DEF Record
<1>2. /\ Total(s) = user + system + ready /\ Used(s) = user + system
      /\ s.elapsed = elapsed
  BY <1>1, RecordFields
<1>3. ASSUME NEW x \in Int, NEW y \in Int, NEW r,
             r = [user |-> user, system |-> system, ready |-> ready,
                  elapsed |-> elapsed, trans |-> x, remaining |-> y]
      PROVE  SameCharge(r, s)
  BY <1>2, <1>3, RecordFields DEF SameCharge
<1>4. [s EXCEPT !.trans = @ + 1]
        = [user |-> user, system |-> system, ready |-> ready,
           elapsed |-> elapsed, trans |-> trans + 1, remaining |-> remaining]
  BY <1>1
<1>5. ASSUME NEW q \in Int
      PROVE  [s EXCEPT !.remaining = q]
               = [user |-> user, system |-> system, ready |-> ready,
                  elapsed |-> elapsed, trans |-> trans, remaining |-> q]
  BY <1>1
<1>6. trans + 1 \in Int
  OBVIOUS
<1> QED
  BY <1>3, <1>4, <1>5, <1>6

(* What a handler passes to leave keeps the accounts when it has the       *)
(* charges of entered.                                                     *)
LEMMA SameChargeLeaves ==
  ASSUME IInv, IInv', StatsInv, Running, current' = current, Live' = Live,
         birth' = birth, NEW n \in {4, 5}, NEW t \in Reads(n),
         NEW e \in [Task -> Record],
         \A u \in Task : SameCharge(e[u], entered(t)[u]), leave(e, t)
  PROVE  /\ estat' \in [Task -> Record] /\ now' \in Nat
         /\ Accounted' /\ Spent' /\ RemainingTold'
<1>1. /\ entered(t) \in [Task -> Record]
      /\ Settled(entered(t)[current], birth[current])
      /\ \A u \in Task : u # current => entered(t)[u] = estat[u]
  BY EnteredFacts
<1>2. ASSUME NEW u \in Task, NEW b, Settled(entered(t)[u], b)
      PROVE  Settled(e[u], b)
  BY <1>2 DEF SameCharge, Settled
<1>3. /\ current \in Task /\ birth \in [Task -> Nat] /\ Live \subseteq Task
      /\ now \in Nat /\ estat \in [Task -> Record]
      /\ \A u \in Live : Settled(estat[u], birth[u]) /\ estat[u].elapsed <= now
  BY DEF StatsInv, StatsTypeOK, Accounted, IInv, TypeOK, OnePlace, Running
<1>4. now <= t[3] /\ t[3] \in Nat
  <2>1. n \in Nat \ {0} /\ 3 \in 1 .. n
    OBVIOUS
  <2> QED
    BY <1>3, <2>1, ReadsFacts
<1>5. ASSUME NEW u \in Live', u # current
      PROVE  Settled(e[u], birth'[u]) /\ e[u].elapsed <= t[3]
  <2>1. u \in Task /\ u \in Live /\ entered(t)[u] = estat[u]
    BY <1>1, <1>3, <1>5
  <2>2. Settled(e[u], birth'[u])
    BY <1>2, <1>3, <2>1
  <2>3. e[u].elapsed = estat[u].elapsed /\ estat[u].elapsed <= now
        /\ estat[u].elapsed \in Nat
    BY <1>3, <2>1 DEF SameCharge, Record
  <2>4. PICK x \in Nat, y \in Nat : x = now /\ y = t[3] /\ x <= y
    BY <1>3, <1>4
  <2> QED
    BY <2>2, <2>3, <2>4
<1>6. Settled(e[current], birth[current])
  BY <1>1, <1>2, <1>3
<1>7. /\ \A u \in Task : Used(e[u]) = Used(entered(t)[u])
      /\ e[current].elapsed = entered(t)[current].elapsed
      /\ \A u \in Live : u # current => Used(e[u]) = Used(estat[u])
  BY <1>1, <1>3 DEF SameCharge
<1> QED
  BY <1>3, <1>5, <1>6, <1>7, LeaveAccounts

(* A switch settles whoever leaves and whoever enters.                     *)
LEMMA SwitchAccounts ==
  ASSUME IInv, IInv', StatsInv, Running, birth' = birth, Live' \subseteq Live,
         Live \ {current} \subseteq Live', current' # current,
         NEW t \in Reads(8), switch(entered(t), t)
  PROVE  /\ estat' \in [Task -> Record] /\ now' \in Nat
         /\ Accounted' /\ Spent' /\ RemainingTold'
<1>1. /\ entered(t) \in [Task -> Record]
      /\ Settled(entered(t)[current], birth[current])
      /\ \A u \in Task : u # current => entered(t)[u] = estat[u]
  BY EnteredFacts
<1>2. /\ birth \in [Task -> Nat] /\ Live \subseteq Task
      /\ now \in Nat /\ estat \in [Task -> Record]
      /\ \A u \in Live : Settled(estat[u], birth[u]) /\ estat[u].elapsed <= now
  BY DEF StatsInv, StatsTypeOK, Accounted, IInv, OnePlace
<1>3. Running' => Settled(entered(t)[current'], birth[current'])
  <2>1. Running' => current' \in Live
    BY LiveSteps
  <2> QED
    BY <1>1, <1>2, <2>1
<1>4. /\ estat' \in [Task -> Record] /\ now' \in Nat /\ now <= now'
      /\ \A u \in Task :
           u \in {current, current'} =>
             Settled(estat'[u], birth[u]) /\ estat'[u].elapsed <= now'
      /\ Running' => estat'[current'].remaining = quantum_ticks'
      /\ \A u \in Task : u \notin {current, current'} => estat'[u] = entered(t)[u]
  BY <1>1, <1>3, SwitchFacts
<1>5. ASSUME NEW u \in Live'
      PROVE  Settled(estat'[u], birth'[u]) /\ estat'[u].elapsed <= now'
  <2>1. u \in Task /\ u \in Live
    BY <1>2
  <2>2. CASE u \in {current, current'}
    BY <1>4, <2>1, <2>2
  <2>3. CASE u \notin {current, current'}
    <3>1. estat'[u] = estat[u] /\ Settled(estat[u], birth[u])
          /\ estat[u].elapsed <= now /\ estat[u].elapsed \in Nat
      BY <1>1, <1>2, <1>4, <2>1, <2>3 DEF Record
    <3>2. PICK x \in Nat, y \in Nat : x = now /\ y = now' /\ x <= y
      BY <1>2, <1>4
    <3> QED
      BY <3>1, <3>2
  <2> QED
    BY <2>2, <2>3
<1>6. Spent'
  BY <1>4, SwitchSpends, SpentSwitches
<1> QED
  BY <1>4, <1>5, <1>6 DEF Accounted, RemainingTold, Running

(* The statistics while a clock interrupt is handled: a slice renewed is   *)
(* one more transition of the process that goes on.                        *)
LEMMA ClockStats ==
  ASSUME IInv, IInv', StatsInv, clock_handler
  PROVE  /\ estat' \in [Task -> Record] /\ now' \in Nat
         /\ Accounted' /\ Spent' /\ RemainingTold'
<1>1. Running /\ schedule /\ Live' = Live /\ birth' = birth /\ current \in Task
  BY LiveSteps DEF clock_handler, schedule, IInv, TypeOK, Running
<1>2. CASE /\ current' = current
           /\ \E t \in Reads(4) : leave(counted(entered(t)), t)
  <2>1. PICK t \in Reads(4) : leave(counted(entered(t)), t)
    BY <1>2
  <2> DEFINE e == counted(entered(t))
  <2>2. entered(t) \in [Task -> Record]
    BY <1>1, EnteredFacts
  <2>3. e \in [Task -> Record] /\ \A u \in Task : SameCharge(e[u], entered(t)[u])
    <3>1. SameCharge([entered(t)[current] EXCEPT !.trans = @ + 1], entered(t)[current])
      BY <1>1, <2>2, CountedFacts
    <3>2. \A s \in Record : SameCharge(s, s)
      BY DEF SameCharge
    <3>3. \/ e = entered(t)
          \/ e = [entered(t) EXCEPT ![current] =
                     [entered(t)[current] EXCEPT !.trans = @ + 1]]
      BY <1>1, <2>2 DEF counted
    <3> HIDE DEF e
    <3> DEFINE r == [entered(t)[current] EXCEPT !.trans = @ + 1]
    <3>4. SameCharge(r, entered(t)[current]) /\ r \in Record
          /\ (e = entered(t) \/ e = [entered(t) EXCEPT ![current] = r])
      BY <3>1, <3>3 DEF SameCharge
    <3> HIDE DEF r
    <3> QED
      BY <1>1, <2>2, <3>2, <3>4
  <2>4. leave(e, t)
    BY <2>1
  <2> HIDE DEF e
  <2> QED
    BY <1>1, <1>2, <2>3, <2>4, SameChargeLeaves
<1>3. CASE /\ current' # current
           /\ \E t \in Reads(8) : switch(entered(t), t)
  BY <1>1, <1>3, SwitchAccounts
<1> QED
  BY <1>2, <1>3 DEF clock_handler

(* The statistics while a fork is handled, by its three ways out.          *)
LEMMA ForkStats ==
  ASSUME IInv, IInv', StatsInv, fork
  PROVE  /\ estat' \in [Task -> Record] /\ now' \in Nat
         /\ birth' \in [Task -> Nat] /\ enomem' \in BOOLEAN
         /\ Accounted' /\ Spent' /\ RemainingTold'
<1>1. /\ now \in Nat /\ estat \in [Task -> Record] /\ birth \in [Task -> Nat]
      /\ enomem \in BOOLEAN /\ Live \subseteq Task /\ current' = current
      /\ Running /\ current \in Task /\ current \in Live
      /\ \A u \in Live : Settled(estat[u], birth[u]) /\ estat[u].elapsed <= now
  BY DEF StatsInv, StatsTypeOK, Accounted, IInv, OnePlace, TypeOK, fork, Live,
         fork_EAGAIN, fork_ENOMEM, fork_child, Running, schedVars
<1>2. ASSUME NEW n \in {4, 5}, NEW t \in Reads(n)
      PROVE  /\ entered(t) \in [Task -> Record]
             /\ Settled(entered(t)[current], birth[current])
             /\ \A u \in Task : u # current => entered(t)[u] = estat[u]
             /\ t[3] \in Nat /\ now <= t[3]
  <2>1. n \in Nat \ {0} /\ 3 \in 1 .. n
    OBVIOUS
  <2> QED
    BY <1>1, <2>1, EnteredFacts, ReadsFacts
<1>3. ASSUME NEW n \in {4, 5}, NEW t \in Reads(n), NEW u \in Live, u # current
      PROVE  entered(t)[u].elapsed <= t[3]
  <2>1. /\ entered(t)[u] = estat[u] /\ estat[u].elapsed \in Nat
        /\ estat[u].elapsed <= now /\ t[3] \in Nat /\ now <= t[3]
    BY <1>1, <1>2, <1>3 DEF Record
  <2>2. PICK x \in Nat, y \in Nat : x = now /\ y = t[3] /\ x <= y
    BY <1>1, <2>1
  <2> QED
    BY <2>1, <2>2
<1>4. CASE fork_EAGAIN
  <2>1. Live' = Live
    BY <1>4, LiveSteps
  <2> QED
    <3>1. birth' = birth /\ enomem' = enomem
          /\ \E t \in Reads(4) : leave(entered(t), t)
      BY <1>4 DEF fork, fork_EAGAIN, fork_ENOMEM, fork_child
    <3>2. PICK t \in Reads(4) : leave(entered(t), t)
      BY <3>1
    <3>3. \A u \in Task : SameCharge(entered(t)[u], entered(t)[u])
      BY <1>2 DEF SameCharge
    <3> QED
      BY <1>1, <1>2, <2>1, <3>1, <3>2, <3>3, SameChargeLeaves
<1> DEFINE child == Head(freequeue)
<1>5. ASSUME fork_ENOMEM, enomem' = TRUE, birth' = birth, NEW t \in Reads(4),
             leave([entered(t) EXCEPT ![child] = entered(t)[current]], t)
      PROVE  /\ estat' \in [Task -> Record] /\ now' \in Nat
             /\ birth' \in [Task -> Nat] /\ enomem' \in BOOLEAN
             /\ Accounted' /\ Spent' /\ RemainingTold'
  <2> DEFINE e == [entered(t) EXCEPT ![child] = entered(t)[current]]
  <2>1. Live' = Live /\ child \in Task \ Live
    BY <1>5, LiveSteps
  <2>2. e \in [Task -> Record] /\ \A u \in Live : e[u] = entered(t)[u]
    BY <1>1, <1>2, <2>1
  <2>3. leave(e, t)
    BY <1>5
  <2> HIDE DEF child, e
  <2>4. \A u \in Live' : u # current =>
          Settled(e[u], birth'[u]) /\ e[u].elapsed <= t[3]
    BY <1>1, <1>2, <1>3, <1>5, <2>1, <2>2
  <2>5. birth'[current] = birth[current] /\ birth' \in [Task -> Nat]
        /\ Settled(e[current], birth[current]) /\ enomem' \in BOOLEAN
    BY <1>1, <1>2, <1>5, <2>2
  <2>6. /\ e[current] = entered(t)[current]
        /\ \A u \in Live : u # current => e[u] = estat[u]
    BY <1>1, <1>2, <2>2
  <2> QED
    BY <1>1, <2>1, <2>2, <2>3, <2>4, <2>5, <2>6, LeaveAccounts
<1>6. ASSUME fork_child, enomem' = enomem, NEW t \in Reads(5),
             leave([entered(t) EXCEPT ![child] = Fresh(t[3])], t),
             birth' = [birth EXCEPT ![child] = t[3]]
      PROVE  /\ estat' \in [Task -> Record] /\ now' \in Nat
             /\ birth' \in [Task -> Nat] /\ enomem' \in BOOLEAN
             /\ Accounted' /\ Spent' /\ RemainingTold'
  <2> DEFINE e == [entered(t) EXCEPT ![child] = Fresh(t[3])]
  <2>1. Live' = Live \cup {child} /\ child \in Task \ Live
    BY <1>6, LiveSteps
  <2>2. /\ Fresh(t[3]) \in Record /\ Fresh(t[3]).elapsed = t[3]
        /\ Settled(Fresh(t[3]), t[3]) /\ Used(Fresh(t[3])) = 0
    <3>1. t[3] \in Nat /\ QUANTUM \in Int
      BY <1>2, SchedAssumption
    <3>2. /\ Total(Fresh(t[3])) = 0 + 0 + 0 /\ Fresh(t[3]).elapsed = t[3]
          /\ Used(Fresh(t[3])) = 0 + 0 /\ Fresh(t[3]) \in Record
      BY <3>1, RecordFields DEF Fresh
    <3> QED
      BY <3>1, <3>2 DEF Settled
  <2>3. /\ e \in [Task -> Record] /\ e[child] = Fresh(t[3])
        /\ \A u \in Live : e[u] = entered(t)[u]
    BY <1>1, <1>2, <2>1, <2>2
  <2>4. leave(e, t)
    BY <1>6
  <2>5. /\ birth' \in [Task -> Nat] /\ birth'[child] = t[3]
        /\ \A u \in Live : birth'[u] = birth[u]
    BY <1>1, <1>2, <1>6, <2>1
  <2> HIDE DEF child, e
  <2>6. ASSUME NEW u \in Live', u # current
        PROVE  Settled(e[u], birth'[u]) /\ e[u].elapsed <= t[3]
    <3>1. CASE u = child
      BY <1>2, <2>2, <2>3, <2>5, <3>1
    <3>2. CASE u \in Live
      <4>1. e[u] = entered(t)[u] /\ entered(t)[u] = estat[u]
            /\ birth'[u] = birth[u] /\ Settled(estat[u], birth[u])
        BY <1>1, <1>2, <2>3, <2>5, <2>6, <3>2
      <4> QED
        BY <1>3, <2>6, <3>2, <4>1
    <3> QED
      BY <2>1, <3>1, <3>2
  <2>7. /\ birth'[current] = birth[current] /\ enomem' \in BOOLEAN
        /\ Settled(e[current], birth[current])
    BY <1>1, <1>2, <1>6, <2>3, <2>5
  <2>8. /\ e[current] = entered(t)[current]
        /\ \A u \in Live : u # current => e[u] = estat[u]
        /\ \A u \in Live' \ Live : Used(e[u]) = 0
    BY <1>1, <1>2, <2>1, <2>2, <2>3
  <2> QED
    BY <1>1, <2>1, <2>3, <2>4, <2>5, <2>6, <2>7, <2>8, LeaveAccounts
<1> QED
  BY <1>1, <1>4, <1>5, <1>6 DEF fork

(* get_stats writes the ticks left into the record of whoever is asked     *)
(* about, live or not, and nothing else.                                   *)
LEMMA GetStatsStats ==
  ASSUME IInv, IInv', StatsInv, NEW p, NEW b, sys_get_stats(p, b)
  PROVE  /\ estat' \in [Task -> Record] /\ now' \in Nat
         /\ Accounted' /\ Spent' /\ RemainingTold'
<1>1. /\ Running /\ Live' = Live /\ birth' = birth /\ current' = current
      /\ current \in Task /\ quantum_ticks \in Int
  BY SchedAssumption, LiveSteps
     DEF sys_get_stats, schedVars, IInv, TypeOK, Running
<1> DEFINE who      == get_task(p)
           asked(e) == IF access_ok(b[1], b[2]) /\ p >= 0 /\ who # NoTask
                       THEN [e EXCEPT ![who].remaining = quantum_ticks] ELSE e
<1>2. PICK r \in Reads(4) : leave(asked(entered(r)), r)
  BY DEF sys_get_stats
<1>3. entered(r) \in [Task -> Record]
  BY <1>1, EnteredFacts
<1>4. ASSUME NEW f \in [Task -> Record]
      PROVE  /\ asked(f) \in [Task -> Record]
             /\ \A u \in Task : SameCharge(asked(f)[u], f[u])
  <2>1. \A s \in Record : SameCharge(s, s)
    BY DEF SameCharge
  <2> DEFINE g == [f[who] EXCEPT !.remaining = quantum_ticks]
  <2>2. asked(f) = f \/ asked(f) = [f EXCEPT ![who] = g]
    OBVIOUS
  <2>3. who \in Task => SameCharge(g, f[who]) /\ g \in Record
    BY <1>1, CountedFacts DEF SameCharge
  <2> HIDE DEF asked, g, who
  <2> QED
    BY <2>1, <2>2, <2>3
<1> DEFINE e == asked(entered(r))
<1>5. e \in [Task -> Record] /\ \A u \in Task : SameCharge(e[u], entered(r)[u])
  BY <1>3, <1>4
<1>6. leave(e, r)
  BY <1>2
<1> HIDE DEF e
<1> QED
  BY <1>1, <1>5, <1>6, SameChargeLeaves

(* What is charged, and when it was last, after any step.                  *)
LEMMA StatsStep ==
  ASSUME IInv, IInv', StatsInv, StatsNext
  PROVE  StatsTypeOK' /\ Accounted' /\ Spent' /\ RemainingTold'
<1>1. birth \in [Task -> Nat] /\ enomem \in BOOLEAN
  BY DEF StatsInv, StatsTypeOK
<1>2. CASE clock_handler
  BY <1>1, <1>2, ClockStats DEF clock_handler, StatsTypeOK
<1>3. CASE fork
  BY <1>3, ForkStats DEF StatsTypeOK
<1>4. CASE exit
  <2>1. /\ Live' = Live \ {current} /\ Running /\ birth' = birth /\ enomem' = enomem
        /\ current' # current
    BY <1>4, LiveSteps DEF exit, sys_exit, Running
  <2>2. PICK t \in Reads(8) : switch(entered(t), t)
    BY <1>4 DEF exit
  <2> QED
    BY <1>1, <2>1, <2>2, SwitchAccounts DEF StatsTypeOK
<1>5. CASE \E p \in -1 .. nextPID, b \in BUFFERS : sys_get_stats(p, b)
  <2>1. birth' = birth /\ enomem' = enomem
    BY <1>5 DEF sys_get_stats
  <2> QED
    BY <1>1, <1>5, <2>1, GetStatsStats DEF StatsTypeOK
<1>6. CASE other_call
  <2>1. PICK v \in {High, Low} : set_nice(v)
    BY <1>6 DEF other_call
  <2>2. /\ Live' = Live /\ Running /\ current' = current
        /\ birth' = birth /\ enomem' = enomem
    BY <1>6, <2>1, LiveSteps DEF other_call, set_nice
  <2>3. PICK t \in Reads(4) : leave(entered(t), t)
    BY <1>6 DEF other_call
  <2>4. entered(t) \in [Task -> Record]
    BY <2>2, EnteredFacts
  <2>5. \A u \in Task : SameCharge(entered(t)[u], entered(t)[u])
    BY <2>4 DEF SameCharge
  <2> QED
    BY <1>1, <2>2, <2>3, <2>4, <2>5, SameChargeLeaves DEF StatsTypeOK
<1> QED
  BY <1>2, <1>3, <1>4, <1>5, <1>6 DEF StatsNext

(* A free PCB has a PID that is in use only after a fork that failed for   *)
(* lack of frames.                                                         *)
LEMMA UnnamedStep ==
  ASSUME IInv, IInv', StatsInv, StatsNext
  PROVE  FreeUnnamed'
<1>1. /\ PID \in [Task -> Int] /\ nextPID \in Nat /\ Live \subseteq Task
      /\ \A t \in Task : PID[t] < nextPID
      /\ ~enomem => \A t \in Task : PID[t] \in 1 .. nextPID - 1 => t \in Live
  BY DEF IInv, TypeOK, OnePlace, StatsInv, FreeUnnamed
<1>2. CASE Live' = Live /\ UNCHANGED <<PID, nextPID, enomem>>
  BY <1>1, <1>2 DEF FreeUnnamed
<1>3. CASE fork_ENOMEM /\ enomem' = TRUE
  <2>1. /\ PID' = [PID EXCEPT ![Head(freequeue)] = PID[current]]
        /\ nextPID' = nextPID /\ current \in Task
    BY <1>3 DEF fork_ENOMEM, IInv, TypeOK, Running
  <2> QED
    BY <1>1, <1>3, <2>1 DEF FreeUnnamed
<1>4. CASE fork_child /\ enomem' = enomem
  <2>1. PID' = [PID EXCEPT ![Head(freequeue)] = nextPID] /\ nextPID' = nextPID + 1
    BY <1>4 DEF fork_child
  <2>2. Live' = Live \cup {Head(freequeue)}
    BY <1>4, LiveSteps
  <2>3. \A t \in Task : t # Head(freequeue) => PID'[t] = PID[t]
    BY <1>1, <2>1
  <2>4. \A t \in Task : t = Head(freequeue) => PID'[t] = nextPID
    BY <1>1, <2>1
  <2>5. ASSUME NEW t \in Task PROVE PID'[t] < nextPID'
    BY <1>1, <2>1, <2>3, <2>4
  <2>6. ASSUME ~enomem', NEW t \in Task, PID'[t] \in 1 .. nextPID' - 1
        PROVE  t \in Live'
    <3>1. CASE t = Head(freequeue)
      BY <2>2, <3>1
    <3>2. CASE t # Head(freequeue)
      <4>1. PID'[t] = PID[t] /\ PID[t] < nextPID /\ PID[t] \in Int /\ 1 <= PID[t]
        BY <1>1, <2>3, <2>6, <3>2
      <4> QED
        BY <1>1, <1>4, <2>2, <2>6, <4>1
    <3> QED
      BY <3>1, <3>2
  <2> QED
    BY <2>5, <2>6 DEF FreeUnnamed
<1>5. CASE exit
  <2>1. PID' = [PID EXCEPT ![current] = -1] /\ nextPID' = nextPID
        /\ enomem' = enomem /\ Live' = Live \ {current} /\ current \in Task
    BY <1>5, LiveSteps DEF exit, sys_exit, IInv, TypeOK, Running
  <2> QED
    BY <1>1, <2>1 DEF FreeUnnamed
<1>6. CASE clock_handler \/ other_call
  <2>1. UNCHANGED <<PID, nextPID, enomem>> /\ Live' = Live
    BY <1>6, LiveSteps DEF clock_handler, schedule, other_call, set_nice
  <2> QED
    BY <1>2, <2>1
<1>7. CASE \E p \in -1 .. nextPID, b \in BUFFERS : sys_get_stats(p, b)
  <2>1. UNCHANGED <<PID, nextPID, enomem>> /\ Live' = Live
    BY <1>7, LiveSteps DEF sys_get_stats, schedVars
  <2> QED
    BY <1>2, <2>1
<1>8. CASE fork_EAGAIN /\ enomem' = enomem
  BY <1>2, <1>8, LiveSteps DEF fork_EAGAIN, schedVars
<1> QED
  BY <1>3, <1>4, <1>5, <1>6, <1>7, <1>8 DEF StatsNext, fork

(* The first process has lived no time.                                     *)
LEMMA StatsInitInv == StatsInit => StatsInv
<1> SUFFICES ASSUME StatsInit PROVE StatsInv
  OBVIOUS
<1> DEFINE first(t) == [Fresh(0) EXCEPT !.remaining = IF t = Task1 THEN QUANTUM ELSE 0]
<1>1. /\ now = 0 /\ birth = [t \in Task |-> 0] /\ enomem = FALSE
      /\ estat = [t \in Task |-> first(t)]
  BY DEF StatsInit
<1>2. /\ Live = {Task1} /\ Task1 \in Task
      /\ PID = [t \in Task |-> IF t = Task1 THEN 1 ELSE 0] /\ nextPID = 2
      /\ current = Task1 /\ Running
  <2>1. Range(<<>>) = {} /\ Task1 \in Task /\ Task1 # NoTask
    BY SchedAssumption DEF Range, Task1, NoTask, Task
  <2> QED
    BY <2>1 DEF StatsInit, Init, Live, Running
<1>3. ASSUME NEW t \in Task
      PROVE  /\ first(t) \in Record /\ Settled(first(t), 0)
             /\ first(t).elapsed = 0 /\ Used(first(t)) = 0
  <2> DEFINE q == IF t = Task1 THEN QUANTUM ELSE 0
  <2>1. q \in Int
    BY SchedAssumption
  <2>2. first(t) = [user |-> 0, system |-> 0, ready |-> 0, elapsed |-> 0,
                    trans |-> 0, remaining |-> q]
    BY DEF Fresh
  <2> HIDE DEF q, first
  <2>3. /\ first(t) \in Record /\ Total(first(t)) = 0 + 0 + 0
        /\ first(t).elapsed = 0 /\ Used(first(t)) = 0 + 0
    BY <2>1, <2>2, RecordFields
  <2> QED
    BY <2>3 DEF Settled
<1> HIDE DEF first
<1>4. StatsTypeOK
  BY <1>1, <1>3 DEF StatsTypeOK
<1>5. Accounted
  <2>1. /\ estat[Task1] = first(Task1) /\ birth[Task1] = 0
    BY <1>1, <1>2
  <2> QED
    BY <1>1, <1>2, <1>3, <2>1 DEF Accounted
<1>6. FreeUnnamed
  BY <1>1, <1>2 DEF FreeUnnamed
<1>7. Spent
  <2>1. \A t \in Task : Used(estat[t]) = 0 /\ estat[t].elapsed = 0
    BY <1>1, <1>3
  <2>2. \A t \in Task : TimeShare(t) = 0
    BY <2>1 DEF TimeShare, Charged, Used
  <2>3. Shares = [t \in Task |-> 0]
    BY <2>2 DEF Shares
  <2>4. SumOver(Shares) = 0
    BY <2>3, SumZero
  <2> QED
    BY <1>2, <2>1, <2>4 DEF Spent
<1> QED
  BY <1>4, <1>5, <1>6, <1>7 DEF StatsInv

(* Every step of the accounting, by its lemma.                              *)
LEMMA StatsInvStep ==
  ASSUME IInv, IInv', StatsInv, [StatsNext]_statsVars
  PROVE  StatsInv'
<1>1. CASE StatsNext
  BY <1>1, StatsStep, UnnamedStep DEF StatsInv
<1>2. CASE UNCHANGED statsVars
  <2>1. /\ Live' = Live
        /\ UNCHANGED <<current, PID, nextPID, now, zeos_ticks, estat, birth, enomem>>
    BY <1>2 DEF statsVars, statsOnly, schedVars, Live
  <2>2. Shares' = Shares
    BY <2>1 DEF Shares, TimeShare, Charged
  <2>3. Spent'
    BY <2>1, <2>2 DEF StatsInv, Spent, Running
  <2> QED
    BY <2>1, <2>3 DEF StatsInv, StatsTypeOK, Accounted, FreeUnnamed
<1> QED
  BY <1>1, <1>2

(* The accounts, with the process table they are kept for.                 *)
THEOREM StatsInvariance == StatsSpec => [](IInv /\ StatsInv)
<1>1. IInv /\ IInv' /\ StatsInv /\ [StatsNext]_statsVars => StatsInv'
  BY StatsInvStep
<1>2. StatsSpec => []IInv
  BY StatsKeepsSched, Invariance, PTL
<1> QED
  BY StatsInitInv, <1>1, <1>2, PTL DEF StatsSpec

(* A process's time of its program, of the system and of waiting together  *)
(* never exceed its life: no handler, and no process that is let in,       *)
(* counts a tick that another one has counted.                             *)
THEOREM EachTickOnce == StatsSpec => []NoTickTwice
<1>1. StatsInv /\ IInv => NoTickTwice
  <2> SUFFICES ASSUME StatsInv, IInv, NEW t \in Live
               PROVE  Charged(t) + estat[t].ready <= now - birth[t]
    BY DEF NoTickTwice
  <2>1. PICK n \in Nat, b \in Nat, s \in Record :
          /\ n = now /\ b = birth[t] /\ s = estat[t]
          /\ Settled(s, b) /\ s.elapsed <= n
    BY DEF StatsInv, StatsTypeOK, Accounted, IInv, OnePlace
  <2>2. PICK e \in Nat, x \in Int : e = s.elapsed /\ x = s.user + s.system + s.ready
    BY DEF Record
  <2>3. x <= n - b
    BY <2>1, <2>2 DEF Settled, Total
  <2> QED
    BY <2>1, <2>2, <2>3 DEF Charged
<1> QED
  BY StatsInvariance, <1>1, PTL

(* The time of the processor is charged once: what the live processes      *)
(* were charged, each for its program and for the system, is together no   *)
(* more than the time there was, whoever was let in when and by whom.      *)
THEOREM ProcessorOnce == StatsSpec => []ChargedOnce
<1>1. ASSUME IInv, StatsInv PROVE ChargedOnce
  <2>1. SumOver(Shares) <= now
    <3>1. CASE ~Running
      BY <1>1, <3>1 DEF StatsInv, Spent
    <3>2. CASE Running
      <4>1. /\ current \in Live /\ current \in Task /\ now \in Nat
            /\ estat[current] \in Record /\ estat[current].elapsed <= now
            /\ SumOver(Shares) <= estat[current].elapsed
        BY <1>1, <3>2
           DEF IInv, TypeOK, Running, Live, StatsInv, StatsTypeOK, Accounted, Spent
      <4>2. Shares \in [Task -> Int]
        BY <1>1, ShareFacts
      <4>3. SumOver(Shares) \in Int
        <5>1. Changed([Shares EXCEPT ![current] = 0], Shares, current, 0)
          BY DEF Changed
        <5> QED
          BY <4>1, <4>2, <5>1, SumChange
      <4>4. PICK x \in Int, y \in Nat, z \in Nat :
              x = SumOver(Shares) /\ y = estat[current].elapsed /\ z = now
              /\ x <= y /\ y <= z
        BY <4>1, <4>3 DEF Record
      <4> QED
        BY <4>4
    <3> QED
      BY <3>1, <3>2
  <2> QED
    BY <2>1 DEF ChargedOnce, Shares
<1> QED
  BY StatsInvariance, <1>1, PTL

(* After every handler the ticks left in the statistics of the process     *)
(* that runs, at a switch the one let in, are those of its slice: every    *)
(* handler ends in a routine of that process that writes them, after       *)
(* whatever was written by others while it waited.                         *)
THEOREM RemainingOfSlice == StatsSpec => RemainingExact
<1>1. IInv /\ IInv' /\ StatsInv /\ [StatsNext]_statsVars
        => [RemainingTold']_statsVars
  BY StatsStep
<1> QED
  BY <1>1, StatsInvariance, PTL DEF StatsSpec, RemainingExact

(* get_stats finds whoever has the PID, as long as no fork has failed for  *)
(* lack of frames: the free PCBs hold no PID that was ever handed out.     *)
THEOREM GetStatsFinds == StatsSpec => []StatsExact
<1>1. ASSUME IInv, StatsInv PROVE StatsExact
  <2> SUFFICES ASSUME ~enomem, NEW p \in 1 .. nextPID - 1
               PROVE  LET holders == {t \in Live : PID[t] = p}
                      IN  IF holders = {} THEN get_task(p) = NoTask
                          ELSE get_task(p) \in holders
    BY DEF StatsExact
  <2> DEFINE holders == {t \in Live : PID[t] = p}
  <2>1. {t \in Task : PID[t] = p} = holders
    BY <1>1 DEF StatsInv, FreeUnnamed, IInv, OnePlace
  <2>2. get_task(p) = IF holders = {} THEN NoTask ELSE Min(holders)
    BY <2>1 DEF get_task
  <2>3. ASSUME holders # {} PROVE Min(holders) \in holders
    <3>1. PICK u \in holders : TRUE
      BY <2>3
    <3>2. holders = {u} /\ u \in Int
      BY <1>1, <3>1 DEF IInv, LivePIDs, OnePlace, Task
    <3> HIDE DEF holders
    <3> QED
      BY <3>2 DEF Min
  <2> QED
    BY <2>2, <2>3
<1> QED
  BY StatsInvariance, <1>1, PTL

=============================================================================
