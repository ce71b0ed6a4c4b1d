------------------------------ MODULE MCEntry ------------------------------
(* An instance of Entry for TLC.                                           *)
EXTENDS Entry

(* A number that is not implemented, one with arguments, one beyond the    *)
(* table.                                                                  *)
MCRAW == {3, 35, 37}
=============================================================================
