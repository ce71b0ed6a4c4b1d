------------------------------ MODULE Keyboard ------------------------------
(***************************************************************************)
(* The keyboard of ZeOS: the interrupt routine that stores a character for *)
(* every key, the circular buffer it is stored in (circular_buffer.c), and *)
(* the system calls that read it and empty it.                             *)
(*                                                                         *)
(* The buffer has no count: a slot is free when it holds the character     *)
(* NUL, and the writer overwrites whatever it finds.  The interrupt and    *)
(* the system calls exclude each other, so each is one action.             *)
(*                                                                         *)
(* A character is represented by the number of the key press it comes      *)
(* from, so that two presses of one key are told apart; NUL is 0.          *)
(***************************************************************************)
EXTENDS Naturals, Sequences, FiniteSets

CONSTANTS
  MAX_VAL,   \* slots of the buffer, 8 in the code
  Mapped,    \* the scan codes that char_map gives a character to
  Value,     \* the bytes the keyboard port delivers
  MAX_KEYS   \* bound of the model: key presses

ASSUME KeyboardAssumption ==
  /\ MAX_VAL \in Nat \ {0}
  /\ Mapped \subseteq 0 .. 127
  /\ Value \subseteq 0 .. 255
  /\ MAX_KEYS \in Nat

VARIABLES
  buffer, read, write,  \* struct circular_buffer
  pressed,    \* (the next character) key presses so far
  got,        \* (for the properties) what the last get_key returned,
  delivered,  \* the characters get_key has returned,
  overrun     \* and whether a character was overwritten since circular_init

keyboardVars == <<buffer, read, write, pressed, got, delivered, overrun>>

Slot == 0 .. MAX_VAL - 1
NUL  == 0   \* in get_key's result, ENOINP

(* Mutant of circular_init: the reader stays where it is.                  *)
circular_init_keeps_read ==
  /\ buffer' = [i \in Slot |-> NUL]
  /\ write' = 0
  /\ UNCHANGED read

circular_init ==
  /\ buffer' = [i \in Slot |-> NUL]
  /\ read' = 0
  /\ write' = 0

Init ==
  /\ buffer = [i \in Slot |-> NUL] /\ read = 0 /\ write = 0
  /\ pressed = 0 /\ got = NUL /\ delivered = {} /\ overrun = FALSE

circular_empty == buffer[read] = NUL

circular_write(char) ==
  /\ buffer' = [buffer EXCEPT ![write] = char]
  /\ write' = (write + 1) % MAX_VAL
  /\ UNCHANGED read

(* Mutant of circular_read: the slot is not cleared.                       *)
circular_read_keeps ==
  IF circular_empty
  THEN got' = NUL /\ UNCHANGED <<buffer, read, write>>
  ELSE /\ got' = buffer[read]
       /\ read' = (read + 1) % MAX_VAL
       /\ UNCHANGED <<buffer, write>>

(* And: the reader stays at the slot that it has cleared.                  *)
circular_read_stays ==
  IF circular_empty
  THEN got' = NUL /\ UNCHANGED <<buffer, read, write>>
  ELSE /\ got' = buffer[read]
       /\ buffer' = [buffer EXCEPT ![read] = NUL]
       /\ UNCHANGED <<read, write>>

circular_read ==
  \/ /\ ~circular_empty
     /\ got' = buffer[read]
     /\ buffer' = [buffer EXCEPT ![read] = NUL]
     /\ read' = (read + 1) % MAX_VAL
     /\ UNCHANGED write
  \/ /\ circular_empty
     /\ got' = NUL
     /\ UNCHANGED <<buffer, read, write>>

(* Mutant of character: a key without a character is stored as it is in    *)
(* char_map.                                                               *)
character_unmapped_NUL(code) == IF code \in Mapped THEN pressed + 1 ELSE NUL

(* The character stored for a scan code: that of char_map, or 'C' for a    *)
(* code without one or outside the map; never NUL.                         *)
character(code) == pressed + 1

(* The keyboard interrupt: only the release of a key stores a character.   *)
keyboard_routine(value) ==
  /\ pressed < MAX_KEYS
  /\ value >= 128
  /\ circular_write(character(value - 128))
  /\ pressed' = pressed + 1
  /\ overrun' = (overrun \/ buffer[write] # NUL)
  /\ UNCHANGED <<got, delivered>>

sys_get_key ==
  /\ circular_read
  /\ delivered' = delivered \cup ({got'} \ {NUL})
  /\ UNCHANGED <<pressed, overrun>>

sys_fflush ==
  /\ circular_init
  /\ overrun' = FALSE
  /\ UNCHANGED <<pressed, got, delivered>>

Next == (\E value \in Value : keyboard_routine(value)) \/ sys_get_key \/ sys_fflush

Spec == Init /\ [][Next]_keyboardVars

-----------------------------------------------------------------------------
(* Properties *)

Waiting == {i \in Slot : buffer[i] # NUL}

(* Until a character is overwritten, the slots in use are the ones from    *)
(* read to write, although neither index is ever compared with the other.  *)
Contiguous ==
  ~overrun =>
    /\ (read + Cardinality(Waiting)) % MAX_VAL = write
    /\ Waiting = {(read + i) % MAX_VAL : i \in 0 .. Cardinality(Waiting) - 1}

(* No key press is read twice, not even after the writer has overtaken the *)
(* reader.                                                                 *)
ReadOnce ==
  [][sys_get_key /\ got' # NUL => got' \notin delivered]_keyboardVars

(* The characters waiting, oldest first; none that can be told after one   *)
(* has been overwritten.                                                   *)
Queued ==
  IF overrun THEN <<>>
  ELSE [i \in 1 .. Cardinality(Waiting) |-> buffer[(read + i - 1) % MAX_VAL]]

(* The buffer seen as the queue that KeyQueue promises.                    *)
KeyQ == INSTANCE KeyQueue WITH
  Key <- 1 .. MAX_KEYS, NoKey <- NUL, Capacity <- MAX_VAL,
  queue <- Queued, lost <- overrun

(* Keys are read in the order they were pressed, and all of them, unless   *)
(* more than MAX_VAL wait.                                                 *)
ImplementsQueue == KeyQ!Spec
=============================================================================
