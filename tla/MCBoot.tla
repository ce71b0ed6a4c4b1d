------------------------------- MODULE MCBoot -------------------------------
(* An instance of Boot for TLC; the configuration gives the constants.     *)
EXTENDS Boot

(* Systems of three to five words, and programs from none to one that does *)
(* not fit in its pages.                                                   *)
MCSYSTEMS == 3 .. 5
MCUSERS   == 0 .. 9
=============================================================================
