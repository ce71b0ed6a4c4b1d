------------------------------- MODULE MCStats -------------------------------
(* An instance of Stats for TLC; the configuration gives the other         *)
(* constants.                                                              *)
EXTENDS Stats

(* One page of code, one of data: a buffer that ends in the page after     *)
(* them, and one that starts in the kernel.                                *)
MCBUFFERS == {<<9, 10>>, <<7, 8>>}
=============================================================================
