------------------------------ MODULE MCLists ------------------------------
(* An instance of Lists for TLC; the configuration gives the constants.    *)
EXTENDS Lists
=============================================================================
