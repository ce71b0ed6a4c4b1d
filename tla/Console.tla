------------------------------- MODULE Console -------------------------------
(***************************************************************************)
(* The console of ZeOS: the screen and the cursor of io.c, sys_write of    *)
(* sys.c, which copies what a program writes in pieces, and what the user  *)
(* library writes with it, numbers and the messages of perror.             *)
(*                                                                         *)
(* A character is a number.  A buffer is the sequence of characters from   *)
(* its address on; NULL has none.                                          *)
(***************************************************************************)
EXTENDS Integers, SequencesExt

CONSTANTS
  NUM_COLUMNS, NUM_ROWS,
  CHUNK,    \* chunk_size of sys_write, 500 in the code
  WRITES,   \* the pairs of a buffer and a size that programs write
  NUMBERS,  \* the integers they write
  etos,     \* the messages of perror,
  UNKNOWN,  \* the one it has for other errors,
  ERRNOS,   \* and the values of errno it is called with
  FRAMES    \* the characters that fill the screens of put_screen

NL     == 10  \* '\n'
CLOCK  == 1   \* what zeos_show_clock shows of itself
NULL   == <<>>
EFAULT == 14
EDOM   == 33

INT_MAX == 2147483647

ASSUME ConsoleAssumption ==
  /\ {NUM_COLUMNS, NUM_ROWS, CHUNK} \subseteq Nat \ {0}
  /\ \A w \in WRITES : /\ w[1] \in Seq(Int) /\ w[2] \in Int
                       /\ w[1] = NULL \/ w[2] <= Len(w[1])
  /\ NUMBERS \subseteq -INT_MAX - 1 .. INT_MAX
  /\ etos \in Seq(Seq(Int)) /\ UNKNOWN \in Seq(Int)

VARIABLES
  x, y,    \* column and row of the cursor
  stored,  \* what the last call stored in the video memory, by cells
  ret      \* (for the properties) and its result

consoleVars == <<x, y, stored, ret>>

Cell == 0 .. NUM_COLUMNS * NUM_ROWS - 1

(* Row 19 of the 25, after the 39 characters of the 80 that main shows.    *)
ConsoleInit ==
  /\ x = (NUM_COLUMNS * 39) \div 80 /\ y = (NUM_ROWS * 19) \div 25
  /\ stored = <<>> /\ ret = 0

(* Where a text stands: the cursor, and the cells stored so far.           *)
Start == [x |-> x, y |-> y, cells |-> <<>>]
Finish(s) == x' = s.x /\ y' = s.y /\ stored' = s.cells

(* The cells with the character c in one of them.                          *)
put(cells, cell, c) ==
  [i \in DOMAIN cells \cup {cell} |-> IF i = cell THEN c ELSE cells[i]]

(* What stands after the character c is put where s stands.                *)
printc(s, c) ==
  LET cells == IF c = NL THEN s.cells
               ELSE put(s.cells, s.y * NUM_COLUMNS + s.x, c)
  IN  IF c # NL /\ s.x + 1 < NUM_COLUMNS
      THEN [x |-> s.x + 1, y |-> s.y, cells |-> cells]
      ELSE [x |-> 0, y |-> (s.y + 1) % NUM_ROWS, cells |-> cells]

(* What stands after the characters of a text, one after the other.        *)
printed(text) ==
  LET at[k \in 0 .. Len(text)] ==
        IF k = 0 THEN Start ELSE printc(at[k - 1], text[k])
  IN  at[Len(text)]

sys_write_console(text) == Finish(printed(text))

print_screen(f) == Finish([x |-> 0, y |-> 0, cells |-> [i \in Cell |-> f]])

(* Mutant of copied: the rest is copied from the start of the buffer.      *)
copied_rest_again(b, size) ==
  LET i == CHUNK * ((size \div CHUNK + CHUNK - 1) \div CHUNK)
  IN  SubSeq(b, 1, i) \o SubSeq(b, 1, size % CHUNK)

(* What sys_write copies and shows.  The counter of the loop goes up by    *)
(* chunk_size to the number of chunks: one chunk unless they are more than *)
(* chunk_size.  The rest of the division comes right after.                *)
copied(b, size) ==
  LET i == CHUNK * ((size \div CHUNK + CHUNK - 1) \div CHUNK)
  IN  SubSeq(b, 1, i) \o SubSeq(b, i + 1, i + (size % CHUNK))

(* The result of check_fd is never positive, so fd is not looked at.  With *)
(* no rest sys_write returns the zero of its last call of                  *)
(* sys_write_console, whatever was shown before.                           *)
sys_write(fd, b, size) ==
  \/ /\ b = NULL
     /\ ret' = -EFAULT /\ Finish(Start)
  \/ /\ b # NULL /\ size < 0
     /\ ret' = -EDOM /\ Finish(Start)
  \/ /\ b # NULL /\ size >= 0
     /\ sys_write_console(copied(b, size))
     /\ ret' = IF size % CHUNK = 0 THEN 0 ELSE Len(copied(b, size))

-----------------------------------------------------------------------------
(* The user library *)

(* The characters before the final NUL: none for a negative number.        *)
itoa(n) ==
  LET digits[k \in 0 .. INT_MAX] ==
        IF k = 0 THEN <<>> ELSE <<48 + (k % 10)>> \o digits[k \div 10]
  IN  IF n = 0 THEN <<48>> ELSE IF n < 0 THEN <<>> ELSE Reverse(digits[n])

(* A number has ten digits at most, and chunk_size is 500: no number needs *)
(* more than one piece and a rest.                                         *)
ASSUME NumbersFit == \A n \in NUMBERS : Len(itoa(n)) < 2 * CHUNK

(* write(1, a, strlen(a)); the buffer of an empty string has its NUL.      *)
write_string(s) == sys_write(1, Append(s, 0), Len(s))

perror(errno) ==
  write_string(IF errno \in 1 .. Len(etos) THEN etos[errno] ELSE UNKNOWN)

-----------------------------------------------------------------------------
(* The clock stores itself at the end of the first row, with no cursor.    *)
zeos_show_clock ==
  /\ stored' = [cell \in {NUM_COLUMNS - 1} |-> CLOCK]
  /\ UNCHANGED <<x, y, ret>>

(* sys_put_screen, when nothing is regulated.                              *)
put_screen(f) ==
  /\ print_screen(f)
  /\ ret' = 1

ConsoleNext ==
  \/ \E w \in WRITES : sys_write(1, w[1], w[2])
  \/ \E n \in NUMBERS : write_string(itoa(n))
  \/ \E errno \in ERRNOS : perror(errno)
  \/ \E f \in FRAMES : put_screen(f)
  \/ zeos_show_clock

ConsoleSpec == ConsoleInit /\ [][ConsoleNext]_consoleVars

-----------------------------------------------------------------------------
(* Properties *)

(* The digits of a number of a word, by the powers of ten from one on: as  *)
(* many as it takes, the first one for the highest power.                  *)
Power == <<1, 10, 100, 1000, 10000, 100000, 1000000, 10000000, 100000000, 1000000000>>

Decimal(n) ==
  LET width == CHOOSE w \in 1 .. 10 :
                 (w = 1 \/ n >= Power[w]) /\ (w = 10 \/ n < Power[w + 1])
  IN  [k \in 1 .. width |-> 48 + ((n \div Power[width - k + 1]) % 10)]

Beginnings(s) == {SubSeq(s, 1, n) : n \in 0 .. Len(s)}

(* What the writes of programs may show: the beginnings of their texts,    *)
(* and natural numbers in decimal.                                         *)
Shown ==
  (UNION {Beginnings(w[1]) : w \in WRITES}) \cup {Decimal(n) : n \in NUMBERS \cap Nat}
    \cup {<<>>} \cup Beginnings(UNKNOWN) \cup (UNION {Beginnings(m) : m \in Range(etos)})
=============================================================================
