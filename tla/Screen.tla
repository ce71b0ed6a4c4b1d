-------------------------------- MODULE Screen --------------------------------
(***************************************************************************)
(* What the console of ZeOS promises to the programs that write on it: a   *)
(* screen of cells one after the other and a cursor among them, with no    *)
(* rows, buffers or pieces.  A write shows a text from the cursor on, a    *)
(* new line goes on at the start of the next row, and after the last cell  *)
(* comes the first.                                                        *)
(***************************************************************************)
EXTENDS Integers, FiniteSets, Sequences

CONSTANTS
  Columns, Rows,
  NewLine,
  Text,   \* what may be written: the beginnings of what programs ask for
  Frame,  \* the contents that a whole screen may be given
  Mark    \* what the clock shows of itself

VARIABLES
  cursor,  \* the cell of the next character
  stored,  \* the cells that the last call changed, with what it put there
  result   \* of that call

screenVars == <<cursor, stored, result>>

Cell == 0 .. Columns * Rows - 1

next(cell, c) ==
  (IF c = NewLine THEN (cell \div Columns + 1) * Columns ELSE cell + 1)
    % (Columns * Rows)

(* Where every character of a text goes, and the cursor after it.          *)
place(text) ==
  LET at[k \in 1 .. Len(text) + 1] ==
        IF k = 1 THEN cursor ELSE next(at[k - 1], text[k - 1])
  IN  at

Init == cursor \in Cell /\ stored = <<>> /\ result = 0

(* The result counts the characters shown; zero says nothing of them.      *)
Show(text) ==
  LET at == place(text)
      on(cell) == {k \in DOMAIN text : at[k] = cell /\ text[k] # NewLine}
      last(S)  == CHOOSE k \in S : \A j \in S : j <= k
  IN  /\ cursor' = at[Len(text) + 1]
      /\ stored' = [cell \in {c \in Cell : on(c) # {}} |-> text[last(on(cell))]]
      /\ result' \in {0, Len(text)}

Refuse == result' < 0 /\ stored' = <<>> /\ UNCHANGED cursor

(* A whole screen: the cursor goes back to the first cell.                 *)
Fill ==
  /\ \E f \in Frame : stored' = [cell \in Cell |-> f]
  /\ cursor' = 0
  /\ result' = 1

(* The clock shows itself in a cell, and the cursor stays.                 *)
Tick ==
  /\ \E cell \in Cell : stored' = [c \in {cell} |-> Mark]
  /\ UNCHANGED <<cursor, result>>

Next == (\E text \in Text : Show(text)) \/ Refuse \/ Fill \/ Tick

Spec == Init /\ [][Next]_screenVars
=============================================================================
