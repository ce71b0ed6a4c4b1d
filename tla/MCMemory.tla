------------------------------ MODULE MCMemory ------------------------------
(* Instances of Memory for TLC; the configurations give the constants.     *)
EXTENDS Memory

(* Arguments of sbrk: growth within a page and over it, and releases.      *)
AnySize == {1, 4, -1, -2}
=============================================================================
