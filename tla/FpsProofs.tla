------------------------------ MODULE FpsProofs ------------------------------
(***************************************************************************)
(* The regulation of frames per second, proved for every length of a       *)
(* period, every set of rates and every number of tasks.  Fps extends      *)
(* Sched and each of its steps is a step of Sched or leaves Sched alone,   *)
(* so what SchedProofs shows of the process table holds here too, and the  *)
(* PIDs that the regulation remembers are read from that table.            *)
(***************************************************************************)
EXTENDS Fps, SchedProofs

FpsInv == FpsTypeOK /\ FrameBudget

(* What one step of Fps does to the process table is a step of Sched: the  *)
(* clock routine runs schedule whatever schedule_fps has done before it.   *)
LEMMA FpsStepOfSched == [FpsNext]_fpsVars => [Next]_schedVars
<1>1. clock_routine => schedule
  BY DEF clock_routine
<1>2. sys_put_screen => UNCHANGED schedVars
  BY DEF sys_put_screen
<1>3. sys_set_fps => \E v \in {High, Low} : set_nice(v)
  BY DEF sys_set_fps, set_fps_off, set_fps
<1> QED
  BY <1>1, <1>2, <1>3 DEF FpsNext, Next, fpsVars

(* The regulation never disturbs the process table: every theorem about    *)
(* Sched is one about Fps.                                                 *)
THEOREM FpsKeepsSched == FpsSpec => Spec
BY FpsStepOfSched, PTL DEF FpsSpec, FpsInit, Spec

(* sys_put_screen and the clock's display of the screen left over, with    *)
(* the counters they are given: the semaphore and the frames shown move    *)
(* together, and no screen is left while the semaphore is positive.        *)
LEMMA PutScreen ==
  ASSUME NEW s, NEW ticks \in Int, NEW sem \in Int, NEW n \in Nat,
         put_screen(s, ticks, sem, n)
  PROVE  /\ spf_sem' \in Int /\ frames' \in Nat
         /\ frames' + spf_sem' = n + sem
         /\ ticks # -1 /\ sem \in Nat => spf_sem' \in Nat
         /\ spf_last_screen' # NoScreen =>
              spf_last_screen' = s /\ spf_sem' = sem /\ frames' = n /\ sem <= 0
BY DEF put_screen

(* The clock: a period that ends renews the semaphore before the screen    *)
(* left over is shown, so that screen counts in the new period.            *)
LEMMA ScheduleFpsInv ==
  ASSUME IInv, IInv', FpsInv, Running, schedule_fps, UNCHANGED nextPID
  PROVE  /\ FpsInv'
         /\ spf_last_screen' \in {NoScreen, spf_last_screen}
<1> USE FpsAssumption DEF NoScreen
<1>1. nextPID \in Nat /\ UNCHANGED nextPID /\ FpsTypeOK /\ FrameBudget
  BY DEF IInv, TypeOK, FpsInv
<1>2. CASE UNCHANGED fpsOnly
  BY <1>1, <1>2 DEF fpsOnly, FpsInv, FpsTypeOK, FrameBudget
<1>3. CASE /\ spf_ticks # -1 /\ spf_ticks' = spf_ticks - 1
           /\ UNCHANGED <<spf_PID, spf_sem, gfps, spf_last_screen, frames>>
  BY <1>1, <1>3 DEF FpsInv, FpsTypeOK, FrameBudget
<1>4. CASE /\ spf_ticks # -1
           /\ spf_ticks - 1 <= 0 /\ spf_PID = PID[current]
           /\ spf_ticks' = spf_ticks - 1 + SPF_PERIOD
           /\ IF spf_last_screen = NoScreen
              THEN /\ spf_sem' = gfps /\ frames' = 0
                   /\ UNCHANGED spf_last_screen
              ELSE put_screen(spf_last_screen, spf_ticks', gfps, 0)
           /\ UNCHANGED <<spf_PID, gfps>>
  <2>1. spf_ticks' \in 0 .. SPF_PERIOD /\ gfps \in Nat /\ UNCHANGED <<spf_PID, gfps>>
    BY <1>1, <1>4 DEF FpsTypeOK
  <2>2. CASE spf_sem' = gfps /\ frames' = 0 /\ UNCHANGED spf_last_screen
    BY <1>1, <2>1, <2>2 DEF FpsInv, FpsTypeOK, FrameBudget
  <2>3. CASE put_screen(spf_last_screen, spf_ticks', gfps, 0)
    <3>1. /\ spf_sem' \in Nat /\ frames' \in Nat /\ frames' + spf_sem' = gfps
          /\ spf_last_screen' \in {NoScreen, spf_last_screen}
      <4>1. spf_ticks' \in Int /\ spf_ticks' # -1 /\ gfps \in Int /\ 0 \in Nat
        BY <2>1
      <4> QED
        BY <2>1, <2>3, <4>1, PutScreen
    <3>2. FpsTypeOK'
      BY <1>1, <2>1, <3>1 DEF FpsTypeOK
    <3>3. FrameBudget'
      BY <2>1, <3>1 DEF FrameBudget
    <3> QED
      BY <3>1, <3>2, <3>3 DEF FpsInv
  <2> QED
    BY <1>4, <2>2, <2>3
<1> QED
  BY <1>2, <1>3, <1>4 DEF schedule_fps

(* A put_screen of the user: a screen that is left for later belongs to a  *)
(* process that has no frames left.                                        *)
LEMMA PutScreenInv ==
  ASSUME IInv, FpsInv, sys_put_screen
  PROVE  /\ FpsInv'
         /\ spf_last_screen' \notin {NoScreen, spf_last_screen} =>
              frames' = gfps' /\ spf_sem' = 0
<1> USE FpsAssumption DEF NoScreen
<1>1. /\ nextPID \in Nat /\ FpsTypeOK /\ FrameBudget
      /\ UNCHANGED <<spf_PID, spf_ticks, gfps, nextPID>>
      /\ PID[current] \in 1 .. nextPID - 1
      /\ gfps \in Nat
  BY DEF IInv, TypeOK, LivePIDs, Live, Running, FpsInv, FpsTypeOK,
         sys_put_screen, schedVars
<1>2. CASE UNCHANGED <<spf_sem, frames, spf_last_screen>>
  BY <1>1, <1>2 DEF FpsInv, FpsTypeOK, FrameBudget
<1>3. CASE put_screen(PID[current], spf_ticks, spf_sem, frames)
  <2>1. /\ spf_sem' \in Int /\ frames' \in Nat
        /\ frames' + spf_sem' = frames + spf_sem
        /\ spf_ticks # -1 /\ spf_sem \in Nat => spf_sem' \in Nat
        /\ spf_last_screen' \in {NoScreen, PID[current]}
    BY <1>1, <1>3, PutScreen DEF FpsTypeOK
  <2>2. FpsInv'
    BY <1>1, <2>1 DEF FpsInv, FpsTypeOK, FrameBudget
  <2>3. ASSUME spf_last_screen' # NoScreen PROVE frames' = gfps' /\ spf_sem' = 0
    <3>1. spf_sem <= 0 /\ spf_ticks # -1 /\ spf_sem' = spf_sem /\ frames' = frames
      BY <1>3, <2>3 DEF put_screen
    <3> QED
      BY <1>1, <3>1 DEF FrameBudget, FpsTypeOK
  <2> QED
    BY <2>2, <2>3
<1> QED
  BY <1>2, <1>3 DEF sys_put_screen

(* set_fps, with a rate or with -1.                                        *)
LEMMA SetFpsInv == ASSUME IInv, FpsInv, sys_set_fps PROVE FpsInv'
<1> USE FpsAssumption DEF NoScreen
<1>1. /\ nextPID \in Nat /\ nextPID >= 2 /\ UNCHANGED <<nextPID, spf_last_screen>>
      /\ PID[current] \in 1 .. nextPID - 1
      /\ FpsTypeOK /\ FrameBudget
  BY DEF IInv, TypeOK, LivePIDs, Live, Running, FpsInv, sys_set_fps,
         set_fps_off, set_fps, set_nice
<1>2. CASE set_fps_off
  BY <1>1, <1>2 DEF set_fps_off, FpsInv, FpsTypeOK, FrameBudget
<1>3. CASE \E fps \in FPS : set_fps(fps)
  BY <1>1, <1>3 DEF set_fps, FpsInv, FpsTypeOK, FrameBudget
<1> QED
  BY <1>2, <1>3 DEF sys_set_fps

(* A fork adds a PID to those handed out and takes none back.              *)
LEMMA HandedOut ==
  ASSUME NEW n \in Nat
  PROVE  /\ -1 .. n - 1 \subseteq -1 .. (n + 1) - 1
         /\ 1 .. n - 1 \subseteq 1 .. (n + 1) - 1
OBVIOUS

(* Every step of Fps keeps the invariant and leaves a screen for later     *)
(* only when the period has shown all its frames.                          *)
LEMMA FpsStep ==
  ASSUME IInv, IInv', FpsInv, [FpsNext]_fpsVars
  PROVE  /\ FpsInv'
         /\ spf_last_screen' \notin {NoScreen, spf_last_screen} =>
              frames' = gfps' /\ spf_sem' = 0
<1>1. CASE clock_routine
  BY <1>1, ScheduleFpsInv DEF clock_routine, schedule
<1>2. CASE sys_put_screen
  BY <1>2, PutScreenInv
<1>3. CASE sys_set_fps
  BY <1>3, SetFpsInv DEF sys_set_fps, set_fps_off, set_fps
<1>4. CASE (sys_fork \/ sys_exit) /\ UNCHANGED fpsOnly
  <2>1. nextPID' = nextPID \/ nextPID' = nextPID + 1
    BY <1>4 DEF sys_fork, fork_EAGAIN, fork_ENOMEM, fork_child, sys_exit, schedVars
  <2>2. UNCHANGED <<spf_PID, spf_ticks, spf_sem, gfps, spf_last_screen, frames>>
    BY <1>4 DEF fpsOnly
  <2>3. FpsTypeOK'
    <3>1. /\ spf_PID \in -1 .. nextPID - 1
          /\ spf_last_screen \in {NoScreen} \cup 1 .. nextPID - 1
      BY DEF FpsInv, FpsTypeOK
    <3>2. nextPID \in Nat
      BY DEF IInv, TypeOK
    <3>3. /\ -1 .. nextPID - 1 \subseteq -1 .. nextPID' - 1
          /\ 1 .. nextPID - 1 \subseteq 1 .. nextPID' - 1
      BY <2>1, <3>2, HandedOut
    <3> QED
      BY <2>2, <3>1, <3>3 DEF FpsInv, FpsTypeOK
  <2>4. FrameBudget'
    BY <2>2 DEF FpsInv, FrameBudget
  <2> QED
    BY <2>2, <2>3, <2>4 DEF FpsInv
<1>5. CASE UNCHANGED fpsVars
  BY <1>5 DEF fpsVars, fpsOnly, schedVars, FpsInv, FpsTypeOK, FrameBudget
<1> QED
  BY <1>1, <1>2, <1>3, <1>4, <1>5 DEF FpsNext

-----------------------------------------------------------------------------
(* The counters of the regulation and the frames of the period agree in    *)
(* every reachable state.                                                  *)
THEOREM FpsInvariance == FpsSpec => []FpsInv
<1>1. FpsInit => FpsInv
  BY FpsAssumption
     DEF FpsInit, Init, FpsInv, FpsTypeOK, FrameBudget, NoScreen
<1> QED
  BY <1>1, FpsKeepsSched, Invariance, FpsStep, PTL DEF FpsSpec

(* The regulated PID is one that was handed out, or none; the counter of   *)
(* ticks never leaves -1 .. SPF_PERIOD, so the one negative value it has   *)
(* is the one that schedule_fps reads as "not regulating".                 *)
THEOREM FpsTypes == FpsSpec => []FpsTypeOK
BY FpsInvariance, PTL DEF FpsInv

(* No period shows more frames than its rate, whatever put_screen calls,   *)
(* ticks, forks, exits and changes of class come between.                  *)
THEOREM FpsBudget == FpsSpec => []FrameBudget
BY FpsInvariance, PTL DEF FpsInv

(* A frame is delayed only when the period has shown as many as its rate.  *)
THEOREM FpsDelay == FpsSpec => DelayedOnlyOverBudget
BY FpsKeepsSched, Invariance, FpsInvariance, FpsStep, PTL
   DEF FpsSpec, DelayedOnlyOverBudget
=============================================================================
