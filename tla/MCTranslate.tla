----------------------------- MODULE MCTranslate -----------------------------
(* Instances of Translate for TLC; the configurations give the constants.  *)
EXTENDS Translate

(* Arguments of sbrk: growth within a page and over it, releases, and one  *)
(* of more than all the addresses below any heap's end.                    *)
AnySize == {1, 4, -1, -2, -20}
=============================================================================
