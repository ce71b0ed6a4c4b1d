----------------------------- MODULE MCTerminal -----------------------------
(* Instances of Terminal for TLC; the configuration gives the constants.   *)
EXTENDS Terminal

(* One piece and a rest, more pieces than CHUNK, whole pieces, a new line, *)
(* the errors.                                                             *)
AnyWrite ==
  LET text == <<65, 66, NL, 67, 68, 69, 70>>
  IN  {<<text, 3>>, <<text, 7>>, <<text, 4>>, <<NULL, 3>>, <<text, -1>>}

AnyNumber == {0, -7, 305}
AnyMessage == <<<<97>>, <<98, 99, 100>>>>
Unknown == <<63>>
=============================================================================
