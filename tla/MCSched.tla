------------------------------- MODULE MCSched -------------------------------
(* Instances of Sched for TLC; the configurations give the constants.      *)
EXTENDS Sched
=============================================================================
