--------------------------------- MODULE Fps ---------------------------------
(***************************************************************************)
(* The regulation of frames per second of ZeOS: one process at a time asks *)
(* with set_fps for the CPU priority and for a number of frames every      *)
(* SPF_PERIOD clock ticks (a second), and its put_screen calls show no     *)
(* more than that.  A call over the limit leaves its screen to be shown by *)
(* the clock when the next period begins.                                  *)
(*                                                                         *)
(* The module extends Sched: schedule_fps and schedule are two steps of    *)
(* the same interrupt, and which process the interrupt finds running       *)
(* decides what the first one does.                                        *)
(***************************************************************************)
EXTENDS Sched

CONSTANTS
  SPF_PERIOD,  \* clock ticks in a second, 18 in the code
  FPS,         \* the rates a process asks for
  MAX_EXTRA    \* bound of the model: screens shown beyond the rate

ASSUME FpsAssumption ==
  /\ SPF_PERIOD \in Nat \ {0}
  /\ FPS \subseteq Nat
  /\ MAX_EXTRA \in Nat

VARIABLES
  spf_PID,          \* the process that is regulated, or -1
  spf_ticks,        \* ticks to the end of the period; -1 is "not regulating"
  spf_sem,          \* frames left in the period
  gfps,             \* frames in a period
  spf_last_screen,  \* the screen left to be shown: the PID in whose address
                    \* space the pointer means something, or NoScreen
  frames            \* (for the properties) frames of spf_PID in the period

fpsOnly == <<spf_PID, spf_ticks, spf_sem, gfps, spf_last_screen, frames>>
fpsVars == <<schedVars, fpsOnly>>

NoScreen == -1

FpsInit ==
  /\ Init
  /\ spf_PID = 0 /\ spf_ticks = -1 /\ spf_sem = -1 /\ gfps = 0
  /\ spf_last_screen = NoScreen
  /\ frames = 0

(* Mutant of put_screen: the last frame of the period is left for later.   *)
put_screen_keeps_one(s, ticks, sem, n) ==
  IF sem > 1 \/ ticks = -1
  THEN spf_sem' = sem - 1 /\ frames' = n + 1 /\ spf_last_screen' = NoScreen
  ELSE spf_sem' = sem /\ frames' = n /\ spf_last_screen' = s

(* sys_put_screen(s) by the regulated process, s # NULL, when the counters *)
(* hold ticks and sem and the period has shown n frames.                   *)
put_screen(s, ticks, sem, n) ==
  \/ /\ sem > 0 \/ ticks = -1
     /\ spf_sem' = sem - 1 /\ frames' = n + 1 /\ spf_last_screen' = NoScreen
  \/ /\ sem <= 0 /\ ticks # -1
     /\ spf_sem' = sem /\ frames' = n /\ spf_last_screen' = s

(* A process that is not regulated shows its screen at once.               *)
sys_put_screen ==
  /\ Running
  /\ IF spf_PID = PID[current]
     THEN /\ spf_sem > -MAX_EXTRA
          /\ put_screen(PID[current], spf_ticks, spf_sem, frames)
     ELSE UNCHANGED <<spf_sem, frames, spf_last_screen>>
  /\ UNCHANGED <<spf_PID, spf_ticks, gfps>>
  /\ UNCHANGED schedVars

(* set_fps(-1) ends the regulation, whoever is regulated; any other value  *)
(* makes the caller the regulated process and starts a period.  Neither    *)
(* forgets the screen left to be shown.                                    *)
set_fps_off ==
  /\ set_nice(Low)
  /\ spf_PID' = -1 /\ spf_ticks' = -1
  /\ UNCHANGED <<spf_sem, gfps, spf_last_screen, frames>>

set_fps(fps) ==
  /\ set_nice(High)
  /\ spf_PID' = PID[current] /\ spf_ticks' = SPF_PERIOD
  /\ gfps' = fps /\ spf_sem' = fps /\ frames' = 0
  /\ UNCHANGED spf_last_screen

sys_set_fps == set_fps_off \/ \E fps \in FPS : set_fps(fps)

(* Mutants of schedule_fps: the counter is not kept at -1; the budget is   *)
(* renewed after the screen left is shown; that screen waits for the next  *)
(* put_screen instead.                                                     *)
schedule_fps_past_zero ==
  /\ IF spf_ticks - 1 > 0 \/ spf_PID # PID[current]
     THEN /\ spf_ticks' = spf_ticks - 1
          /\ UNCHANGED <<spf_sem, frames, spf_last_screen>>
     ELSE /\ spf_ticks' = spf_ticks - 1 + SPF_PERIOD
          /\ IF spf_last_screen = NoScreen
             THEN /\ spf_sem' = gfps /\ frames' = 0
                  /\ UNCHANGED spf_last_screen
             ELSE put_screen(spf_last_screen, spf_ticks', gfps, 0)
  /\ UNCHANGED <<spf_PID, gfps>>

schedule_fps_renews_late ==
  IF spf_ticks = -1 THEN UNCHANGED fpsOnly
  ELSE /\ IF spf_ticks - 1 > 0 \/ spf_PID # PID[current]
          THEN /\ spf_ticks' = spf_ticks - 1
               /\ UNCHANGED <<spf_sem, frames, spf_last_screen>>
          ELSE /\ spf_ticks' = spf_ticks - 1 + SPF_PERIOD
               /\ spf_sem' = gfps
               /\ frames' = IF spf_last_screen = NoScreen THEN 0 ELSE 1
               /\ spf_last_screen' = NoScreen
       /\ UNCHANGED <<spf_PID, gfps>>

schedule_fps_no_flush ==
  IF spf_ticks = -1 THEN UNCHANGED fpsOnly
  ELSE /\ IF spf_ticks - 1 > 0 \/ spf_PID # PID[current]
          THEN /\ spf_ticks' = spf_ticks - 1
               /\ UNCHANGED <<spf_sem, frames>>
          ELSE /\ spf_ticks' = spf_ticks - 1 + SPF_PERIOD
               /\ spf_sem' = gfps /\ frames' = 0
       /\ UNCHANGED <<spf_PID, gfps, spf_last_screen>>

(* The first half of the clock interrupt.  The period is renewed, and the  *)
(* screen left is shown, at a tick that finds the regulated process        *)
(* running; the counter goes on below zero meanwhile, and at -1 it reads   *)
(* "not regulating".                                                       *)
schedule_fps ==
  \/ /\ spf_ticks = -1
     /\ UNCHANGED fpsOnly
  \/ /\ spf_ticks # -1
     /\ spf_ticks - 1 > 0 \/ spf_PID # PID[current]
     /\ spf_ticks' = spf_ticks - 1
     /\ UNCHANGED <<spf_PID, spf_sem, gfps, spf_last_screen, frames>>
  \/ /\ spf_ticks # -1
     /\ spf_ticks - 1 <= 0 /\ spf_PID = PID[current]
     /\ spf_ticks' = spf_ticks - 1 + SPF_PERIOD
     /\ IF spf_last_screen = NoScreen
        THEN /\ spf_sem' = gfps /\ frames' = 0
             /\ UNCHANGED spf_last_screen
        ELSE put_screen(spf_last_screen, spf_ticks', gfps, 0)
     /\ UNCHANGED <<spf_PID, gfps>>

clock_routine == Running /\ schedule_fps /\ schedule

FpsNext ==
  \/ clock_routine
  \/ sys_put_screen
  \/ sys_set_fps
  \/ (sys_fork \/ sys_exit) /\ UNCHANGED fpsOnly

FpsSpec == FpsInit /\ [][FpsNext]_fpsVars

(* The timer is programmed at boot and never masked again.                 *)
FairFpsSpec == FpsSpec /\ WF_fpsVars(clock_routine)

-----------------------------------------------------------------------------
(* Properties *)

FpsTypeOK ==
  /\ spf_PID \in -1 .. nextPID - 1
  /\ spf_ticks \in -1 .. SPF_PERIOD
  /\ spf_sem \in Int
  /\ gfps \in FPS \cup {0}
  /\ spf_last_screen \in {NoScreen} \cup 1 .. nextPID - 1
  /\ frames \in Nat

(* While it is regulated, a process shows at most the frames it asked for  *)
(* in a period, the screen left over by the previous one included, and     *)
(* what the semaphore says is left is what it may still show.              *)
FrameBudget == spf_ticks # -1 => spf_sem \in Nat /\ frames + spf_sem = gfps

(* A screen is left for later only by a period that has shown all its      *)
(* frames: no frame is delayed while there is budget for it.               *)
DelayedOnlyOverBudget ==
  [][spf_last_screen' \notin {NoScreen, spf_last_screen} =>
       frames' = gfps' /\ spf_sem' = 0]_fpsVars

(* While the process that is regulated lives, the rate is guaranteed until *)
(* it is given up with set_fps(-1).                                        *)
RegulationKept ==
  [][spf_ticks # -1 /\ spf_ticks' = -1 /\ spf_PID \in {PID[t] : t \in Live}
       => set_fps_off]_fpsVars

(* The screen left to be shown is shown, by the clock or because a later   *)
(* one is, unless it is the last thing its process asked for, the rate is  *)
(* none, or the regulation or the CPU has been lost: the process runs in   *)
(* the end at a tick when the period is over, whoever has priority.        *)
DelayedShown ==
  <>[][~sys_set_fps]_fpsVars =>
    (spf_last_screen # NoScreen ~>
       \/ spf_last_screen = NoScreen
       \/ spf_ticks = -1 \/ gfps = 0
       \/ ~Running \/ spf_PID \notin {PID[t] : t \in Live})
=============================================================================
