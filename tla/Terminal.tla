------------------------------- MODULE Terminal -------------------------------
(***************************************************************************)
(* The keyboard and the console of ZeOS together, under the program that   *)
(* user.c has in a comment of its loop: it asks for a key and, if there is *)
(* one, writes it.  Between any two of its calls come keys, clock ticks    *)
(* and the calls of other programs, which write, show screens and empty    *)
(* the keyboard buffer.                                                    *)
(***************************************************************************)
EXTENDS Keyboard, Console

VARIABLES
  pc,      \* the next call of the program: "get_key" or "write"
  a,       \* the key it has got
  flushed  \* (for the properties) keys pressed before the last fflush

terminalVars == <<keyboardVars, consoleVars, pc, a, flushed>>

TerminalInit ==
  /\ Init /\ ConsoleInit
  /\ pc = "get_key" /\ a = NUL /\ flushed = 0

get_key ==
  /\ pc = "get_key"
  /\ sys_get_key
  /\ a' = got'
  /\ pc' = IF got' # NUL THEN "write" ELSE "get_key"
  /\ UNCHANGED <<consoleVars, flushed>>

write_key ==
  /\ pc = "write"
  /\ sys_write(1, <<a>>, 1)
  /\ pc' = "get_key" /\ a' = NUL
  /\ UNCHANGED <<keyboardVars, flushed>>

Program == get_key \/ write_key

Key == \E value \in Value : keyboard_routine(value) /\ UNCHANGED <<consoleVars, pc, a, flushed>>

Flush == sys_fflush /\ flushed' = pressed /\ UNCHANGED <<consoleVars, pc, a>>

Others == ConsoleNext /\ UNCHANGED <<keyboardVars, pc, a, flushed>>

TerminalNext == Program \/ Key \/ Flush \/ Others

(* The scheduler gives the CPU to every process again and again            *)
(* (NoStarvation of Sched).                                                *)
TerminalSpec == TerminalInit /\ [][TerminalNext]_terminalVars /\ WF_terminalVars(Program)

-----------------------------------------------------------------------------
(* Properties *)

(* The characters of the console, cell by cell.                            *)
Scr == INSTANCE Screen WITH
  Columns <- NUM_COLUMNS, Rows <- NUM_ROWS, NewLine <- NL, Mark <- CLOCK,
  Frame <- FRAMES,
  Text <- Shown \cup {<<k>> : k \in 1 .. MAX_KEYS},
  cursor <- y * NUM_COLUMNS + x,
  result <- ret

(* What programs see of the console is a screen of cells with a cursor:    *)
(* a write shows the beginning of its buffer from the cursor on and its    *)
(* result, when it is positive, counts what it showed; numbers come out in *)
(* decimal; the clock does not disturb anybody's writing.  It does not     *)
(* matter that the text goes by pieces, or that the cursor is kept as row  *)
(* and column.                                                             *)
ImplementsScreen == Scr!Spec

(* Every key pressed is shown in the end, unless it was flushed or more    *)
(* keys waited than the buffer holds.                                      *)
EchoShown ==
  \A k \in 1 .. MAX_KEYS :
    pressed >= k ~> (k \in delivered /\ a # k) \/ overrun \/ k <= flushed
=============================================================================
