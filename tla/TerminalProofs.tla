---------------------------- MODULE TerminalProofs ----------------------------
(***************************************************************************)
(* The keyboard and the console, proved for every size of the buffer, of   *)
(* the screen and of the pieces of sys_write, for any writes and any       *)
(* number of key presses: no key press is read twice, the slots in use are *)
(* the ones from read to write, the buffer is the queue of KeyQueue, and   *)
(* the console is the screen of Screen.                                    *)
(*                                                                         *)
(* Contiguous speaks of the number of slots in use, which the code never   *)
(* computes.  The inductive form, Filled, says which slots they are: going *)
(* round from read, first the characters and then the free slots.          *)
(*                                                                         *)
(* Of the console only the cursor matters from one call to the next.  What *)
(* a write does is a matter of its loops: the pieces of sys_write, the     *)
(* characters of sys_write_console and the digits of itoa, each a          *)
(* recursive function here and in Screen.                                  *)
(***************************************************************************)
EXTENDS Terminal, FiniteSetTheorems, SequenceTheorems, WellFoundedInduction, TLAPS

-----------------------------------------------------------------------------
(* The keyboard.                                                           *)

KeyboardTypeOK ==
  /\ buffer \in [Slot -> 0 .. pressed]
  /\ read \in Slot /\ write \in Slot
  /\ pressed \in 0 .. MAX_KEYS
  /\ got \in 0 .. pressed
  /\ delivered \subseteq 1 .. pressed
  /\ overrun \in BOOLEAN

(* A character that waits is in one slot and has not been read.            *)
Unread ==
  /\ \A i \in Slot : buffer[i] \notin delivered
  /\ \A i, j \in Slot : buffer[i] # NUL /\ buffer[i] = buffer[j] => i = j

(* Of the slots of b, the n that follow r hold a character.                *)
Holds(b, r, n) == \A i \in Slot : b[(r + i) % MAX_VAL] # NUL <=> i < n

Filled ==
  ~overrun => \E n \in 0 .. MAX_VAL :
                /\ Holds(buffer, read, n)
                /\ write = (read + n) % MAX_VAL

(* The characters in those slots, oldest first.                            *)
Queue(b, r, n) == [i \in 1 .. n |-> b[(r + i - 1) % MAX_VAL]]

KeyboardInv == KeyboardTypeOK /\ Unread /\ Filled

-----------------------------------------------------------------------------
(* Going round the buffer.                                                 *)

(* A slot and a distance of at most one round.                             *)
LEMMA Round ==
  ASSUME NEW r \in Slot, NEW i \in 0 .. MAX_VAL
  PROVE  /\ (r + i) % MAX_VAL = IF r + i < MAX_VAL THEN r + i ELSE r + i - MAX_VAL
         /\ (r + i) % MAX_VAL \in Slot
BY KeyboardAssumption DEF Slot

(* No distance, and a whole round.                                         *)
LEMMA NoDistance ==
  ASSUME NEW r \in Slot
  PROVE  /\ 0 \in Slot /\ MAX_VAL \in 0 .. MAX_VAL /\ 0 \in 0 .. MAX_VAL
         /\ (r + 0) % MAX_VAL = r /\ (r + MAX_VAL) % MAX_VAL = r
<1>1. 0 \in Slot /\ MAX_VAL \in 0 .. MAX_VAL /\ 0 \in 0 .. MAX_VAL
  BY KeyboardAssumption DEF Slot
<1>2. (r + 0) % MAX_VAL = r
  BY KeyboardAssumption DEF Slot
<1>3. (r + MAX_VAL) % MAX_VAL = r
  BY KeyboardAssumption DEF Slot
<1> QED
  BY <1>1, <1>2, <1>3

(* Every slot is at one distance from r.                                   *)
LEMMA RoundOnce ==
  ASSUME NEW r \in Slot
  PROVE  /\ \A i, j \in Slot : (r + i) % MAX_VAL = (r + j) % MAX_VAL => i = j
         /\ \A s \in Slot : \E i \in Slot : s = (r + i) % MAX_VAL
<1> USE KeyboardAssumption
<1>1. ASSUME NEW i \in Slot, NEW j \in Slot, (r + i) % MAX_VAL = (r + j) % MAX_VAL
      PROVE  i = j
  <2>1. i \in 0 .. MAX_VAL /\ j \in 0 .. MAX_VAL
    BY DEF Slot
  <2>2. /\ (r + i) % MAX_VAL = IF r + i < MAX_VAL THEN r + i ELSE r + i - MAX_VAL
        /\ (r + j) % MAX_VAL = IF r + j < MAX_VAL THEN r + j ELSE r + j - MAX_VAL
    BY <2>1, Round
  <2> HIDE DEF Slot
  <2> QED
    BY <1>1, <2>2 DEF Slot
<1>2. ASSUME NEW s \in Slot PROVE \E i \in Slot : s = (r + i) % MAX_VAL
  <2> DEFINE i == IF s >= r THEN s - r ELSE s - r + MAX_VAL
  <2>1. i \in Slot /\ i \in 0 .. MAX_VAL
    BY DEF Slot
  <2>2. s = IF r + i < MAX_VAL THEN r + i ELSE r + i - MAX_VAL
    BY DEF Slot
  <2> QED
    BY <2>1, <2>2, Round
<1> QED
  BY <1>1, <1>2

(* The index that is advanced: the slot after the one at distance i is at  *)
(* distance i + 1, and seen from the next slot everything is one nearer.   *)
LEMMA RoundNext ==
  ASSUME NEW r \in Slot, NEW i \in 0 .. MAX_VAL - 1
  PROVE  /\ (((r + i) % MAX_VAL) + 1) % MAX_VAL = (r + (i + 1)) % MAX_VAL
         /\ (((r + 1) % MAX_VAL) + i) % MAX_VAL = (r + (i + 1)) % MAX_VAL
<1> USE KeyboardAssumption
<1> DEFINE v == (r + i) % MAX_VAL
           b == (r + 1) % MAX_VAL
<1>1. i \in 0 .. MAX_VAL /\ i + 1 \in 0 .. MAX_VAL /\ 1 \in 0 .. MAX_VAL
  OBVIOUS
<1>2. /\ v = IF r + i < MAX_VAL THEN r + i ELSE r + i - MAX_VAL
      /\ b = IF r + 1 < MAX_VAL THEN r + 1 ELSE r + 1 - MAX_VAL
      /\ v \in Slot /\ b \in Slot
  BY <1>1, Round
<1> HIDE DEF v, b
<1>3. (r + (i + 1)) % MAX_VAL =
        IF r + (i + 1) < MAX_VAL THEN r + (i + 1) ELSE r + (i + 1) - MAX_VAL
  BY <1>1, Round
<1>4. /\ (v + 1) % MAX_VAL = IF v + 1 < MAX_VAL THEN v + 1 ELSE v + 1 - MAX_VAL
      /\ (b + i) % MAX_VAL = IF b + i < MAX_VAL THEN b + i ELSE b + i - MAX_VAL
  BY <1>1, <1>2, Round
<1>5. (v + 1) % MAX_VAL = (r + (i + 1)) % MAX_VAL
  BY <1>2, <1>3, <1>4 DEF Slot
<1>6. (b + i) % MAX_VAL = (r + (i + 1)) % MAX_VAL
  BY <1>2, <1>3, <1>4 DEF Slot
<1> QED
  BY <1>5, <1>6 DEF v, b

(* How many slots are in use, from which they are.                         *)
LEMMA Count ==
  ASSUME NEW b \in [Slot -> Nat], NEW r \in Slot, NEW n \in 0 .. MAX_VAL,
         Holds(b, r, n)
  PROVE  /\ Cardinality({i \in Slot : b[i] # NUL}) = n
         /\ {i \in Slot : b[i] # NUL} = {(r + i) % MAX_VAL : i \in 0 .. n - 1}
<1> USE KeyboardAssumption
<1> DEFINE W == {i \in Slot : b[i] # NUL}
           f == [i \in 1 .. n |-> (r + (i - 1)) % MAX_VAL]
<1>1. 0 .. n - 1 \subseteq Slot /\ \A i \in Slot : i < n => i \in 0 .. n - 1
  BY DEF Slot
<1>2. \A i \in 1 .. n : i - 1 \in 0 .. n - 1
  OBVIOUS
<1>3. \A i \in 0 .. n - 1 : i + 1 \in 1 .. n /\ (i + 1) - 1 = i /\ i < n
  OBVIOUS
<1>4. ASSUME NEW i \in 0 .. n - 1 PROVE (r + i) % MAX_VAL \in W
  <2>1. i \in Slot /\ i < n /\ i \in 0 .. MAX_VAL
    BY <1>1, <1>3
  <2> QED
    BY <2>1, Round DEF Holds
<1>5. ASSUME NEW s \in W PROVE \E i \in 0 .. n - 1 : s = (r + i) % MAX_VAL
  <2>1. s \in Slot /\ b[s] # NUL
    OBVIOUS
  <2>2. PICK i \in Slot : s = (r + i) % MAX_VAL
    BY <2>1, RoundOnce
  <2>3. i < n
    BY <2>1, <2>2 DEF Holds
  <2> QED
    BY <1>1, <2>2, <2>3
<1>6. W = {(r + i) % MAX_VAL : i \in 0 .. n - 1}
  BY <1>4, <1>5
<1>7. f \in [1 .. n -> W]
  BY <1>2, <1>4
<1>8. ASSUME NEW i \in 1 .. n, NEW j \in 1 .. n, f[i] = f[j] PROVE i = j
  <2>1. i - 1 \in Slot /\ j - 1 \in Slot
    BY <1>1, <1>2
  <2>2. i - 1 = j - 1
    BY <1>8, <2>1, RoundOnce
  <2> QED
    BY <2>2
<1>9. ASSUME NEW s \in W PROVE \E i \in 1 .. n : f[i] = s
  <2>1. PICK i \in 0 .. n - 1 : s = (r + i) % MAX_VAL
    BY <1>5
  <2>2. i + 1 \in 1 .. n /\ f[i + 1] = s
    BY <1>3, <2>1
  <2> QED
    BY <2>2
<1> HIDE DEF f, W
<1>10. ExistsBijection(1 .. n, W)
  BY <1>7, <1>8, <1>9
     DEF ExistsBijection, Bijection, Injection, Surjection, IsInjective
<1> QED
  BY <1>6, <1>10, FS_CountingElements DEF W

(* The slot to be read is free when none is in use, and the slot to be     *)
(* written when not all are.                                               *)
LEMMA EmptyOrFull ==
  ASSUME NEW b \in [Slot -> Nat], NEW r \in Slot, NEW n \in 0 .. MAX_VAL,
         Holds(b, r, n)
  PROVE  /\ b[r] = NUL <=> n = 0
         /\ b[(r + n) % MAX_VAL] = NUL <=> n < MAX_VAL
<1> USE KeyboardAssumption
<1>1. 0 \in Slot /\ (r + 0) % MAX_VAL = r /\ (r + MAX_VAL) % MAX_VAL = r
  BY NoDistance
<1>2. b[r] = NUL <=> n = 0
  BY <1>1 DEF Holds
<1>3. CASE n < MAX_VAL
  <2>1. n \in Slot /\ ~(n < n)
    BY <1>3 DEF Slot
  <2> QED
    BY <1>2, <1>3, <2>1 DEF Holds
<1>4. CASE n = MAX_VAL
  BY <1>1, <1>2, <1>4
<1> QED
  BY <1>2, <1>3, <1>4

(* A function on 1 .. m is a sequence of length m.                         *)
LEMMA IsSequence ==
  ASSUME NEW S, NEW m \in Nat, NEW s,
         s = [i \in 1 .. m |-> s[i]], \A i \in 1 .. m : s[i] \in S
  PROVE  s \in Seq(S) /\ Len(s) = m
OBVIOUS

(* circular_write into a buffer that is not full: one more slot is in use, *)
(* and its character is the last.                                          *)
LEMMA Written ==
  ASSUME NEW b \in [Slot -> Nat], NEW r \in Slot, NEW n \in 0 .. MAX_VAL - 1,
         NEW c \in Nat \ {0}, Holds(b, r, n)
  PROVE  LET w  == (r + n) % MAX_VAL
             b2 == [b EXCEPT ![w] = c]
         IN  /\ Holds(b2, r, n + 1)
             /\ (w + 1) % MAX_VAL = (r + (n + 1)) % MAX_VAL
             /\ Queue(b2, r, n + 1) = Append(Queue(b, r, n), c)
<1> USE KeyboardAssumption
<1> DEFINE w  == (r + n) % MAX_VAL
           b2 == [b EXCEPT ![w] = c]
<1>0. w = (r + n) % MAX_VAL /\ b2 = [b EXCEPT ![w] = c]
  OBVIOUS
<1> HIDE DEF w, b2
<1>1. n \in Slot /\ n \in 0 .. MAX_VAL /\ w \in Slot
  BY <1>0, Round DEF Slot
<1>2. b2[w] = c /\ \A i \in Slot : i # w => b2[i] = b[i]
  BY <1>0, <1>1
<1>3. ASSUME NEW i \in Slot, i # n
      PROVE  /\ (r + i) % MAX_VAL \in Slot
             /\ b2[(r + i) % MAX_VAL] = b[(r + i) % MAX_VAL]
  <2>1. i \in 0 .. MAX_VAL
    BY DEF Slot
  <2>2. (r + i) % MAX_VAL \in Slot
    BY <2>1, Round
  <2>3. (r + i) % MAX_VAL # w
    BY <1>0, <1>1, <1>3, RoundOnce
  <2> QED
    BY <1>2, <2>2, <2>3
<1>4. Holds(b2, r, n + 1)
  <2> SUFFICES ASSUME NEW i \in Slot
               PROVE  b2[(r + i) % MAX_VAL] # NUL <=> i < n + 1
    BY DEF Holds
  <2>1. CASE i = n
    BY <1>0, <1>1, <1>2, <2>1 DEF NUL
  <2>2. CASE i # n
    <3>1. i < n + 1 <=> i < n
      BY <2>2 DEF Slot
    <3> QED
      BY <1>3, <2>2, <3>1 DEF Holds
  <2> QED
    BY <2>1, <2>2
<1>5. (w + 1) % MAX_VAL = (r + (n + 1)) % MAX_VAL
  BY <1>0, RoundNext
<1>6. Queue(b2, r, n + 1) = Append(Queue(b, r, n), c)
  <2> DEFINE q == Queue(b, r, n)
             q2 == Queue(b2, r, n + 1)
  <2>1. \A i \in 1 .. n : i - 1 \in Slot /\ i - 1 # n /\ r + i - 1 = r + (i - 1)
    BY DEF Slot
  <2>2. ASSUME NEW i \in 1 .. n
        PROVE  /\ b[(r + i - 1) % MAX_VAL] \in Nat
               /\ b2[(r + i - 1) % MAX_VAL] = b[(r + i - 1) % MAX_VAL]
    BY <1>3, <2>1
  <2>3. q = [i \in 1 .. n |-> b[(r + i - 1) % MAX_VAL]]
    BY DEF Queue
  <2>4. q \in Seq(Nat) /\ Len(q) = n
    BY <2>2, <2>3
  <2>5. b2[(r + (n + 1) - 1) % MAX_VAL] = c
    <3>1. r + (n + 1) - 1 = r + n
      BY DEF Slot
    <3> QED
      BY <1>0, <1>2, <3>1
  <2>6. \A i \in 1 .. n + 1 : i \in 1 .. n \/ i = n + 1
    OBVIOUS
  <2>7. /\ \A i \in 1 .. n : q2[i] = q[i]
        /\ q2[n + 1] = c
        /\ q2 = [i \in 1 .. n + 1 |-> b2[(r + i - 1) % MAX_VAL]]
    BY <2>2, <2>3, <2>5 DEF Queue
  <2>8. q2 \in Seq(Nat) /\ Len(q2) = n + 1
    <3>1. ASSUME NEW i \in 1 .. n + 1 PROVE q2[i] \in Nat
      <4> HIDE DEF q, q2
      <4>1. CASE i \in 1 .. n
        <5>1. q[i] \in Nat
          BY <2>4, <4>1
        <5> QED
          BY <2>7, <4>1, <5>1
      <4>2. CASE i = n + 1
        BY <2>7, <4>2
      <4> QED
        BY <2>6, <4>1, <4>2
    <3>2. q2 = [i \in 1 .. n + 1 |-> q2[i]] /\ n + 1 \in Nat
      BY DEF Queue
    <3> HIDE DEF q2
    <3> QED
      BY <3>1, <3>2, IsSequence
  <2> HIDE DEF q, q2
  <2>9. /\ Append(q, c) \in Seq(Nat) /\ Len(Append(q, c)) = n + 1
        /\ \A i \in 1 .. n : Append(q, c)[i] = q[i]
        /\ Append(q, c)[n + 1] = c
    BY <2>4
  <2>10. \A i \in 1 .. Len(q2) : q2[i] = Append(q, c)[i]
    BY <2>6, <2>7, <2>8, <2>9
  <2>11. q2 = Append(q, c)
    BY <2>8, <2>9, <2>10, SeqEqual
  <2> QED
    BY <2>11 DEF q, q2
<1> QED
  BY <1>4, <1>5, <1>6 DEF w, b2

(* circular_read from a buffer that is not empty: the first character goes *)
(* and the others are one nearer.                                          *)
LEMMA Taken ==
  ASSUME NEW b \in [Slot -> Nat], NEW r \in Slot, NEW n \in 1 .. MAX_VAL,
         Holds(b, r, n)
  PROVE  LET r2 == (r + 1) % MAX_VAL
             b2 == [b EXCEPT ![r] = NUL]
         IN  /\ Holds(b2, r2, n - 1)
             /\ (r2 + (n - 1)) % MAX_VAL = (r + n) % MAX_VAL
             /\ Queue(b, r, n) # <<>>
             /\ Head(Queue(b, r, n)) = b[r]
             /\ Queue(b2, r2, n - 1) = Tail(Queue(b, r, n))
<1> USE KeyboardAssumption
<1> DEFINE r2 == (r + 1) % MAX_VAL
           b2 == [b EXCEPT ![r] = NUL]
<1>00. r2 = (r + 1) % MAX_VAL /\ b2 = [b EXCEPT ![r] = NUL]
  OBVIOUS
<1> HIDE DEF r2, b2
<1>0. 1 \in 0 .. MAX_VAL /\ n - 1 \in 0 .. MAX_VAL - 1 /\ (n - 1) + 1 = n
  OBVIOUS
<1>1. 0 \in Slot /\ r2 \in Slot /\ (r + 0) % MAX_VAL = r
  BY <1>00, <1>0, Round, NoDistance
<1>2. b2[r] = NUL /\ \A i \in Slot : i # r => b2[i] = b[i]
  BY <1>00
<1>3. ASSUME NEW i \in 1 .. MAX_VAL - 1
      PROVE  /\ (r + i) % MAX_VAL \in Slot
             /\ b2[(r + i) % MAX_VAL] = b[(r + i) % MAX_VAL]
  <2>1. i \in Slot /\ i # 0 /\ i \in 0 .. MAX_VAL
    BY DEF Slot
  <2>2. (r + i) % MAX_VAL \in Slot
    BY <2>1, Round
  <2>3. (r + i) % MAX_VAL # (r + 0) % MAX_VAL
    <3>1. \A j, k \in Slot : (r + j) % MAX_VAL = (r + k) % MAX_VAL => j = k
      BY RoundOnce
    <3> QED
      BY <1>1, <2>1, <3>1
  <2> QED
    BY <1>1, <1>2, <2>2, <2>3
<1>4. ASSUME NEW i \in Slot PROVE (r2 + i) % MAX_VAL = (r + (i + 1)) % MAX_VAL
  <2>1. i \in 0 .. MAX_VAL - 1
    BY DEF Slot
  <2> QED
    BY <1>00, <2>1, RoundNext
<1>5. Holds(b2, r2, n - 1)
  <2> SUFFICES ASSUME NEW i \in Slot
               PROVE  b2[(r2 + i) % MAX_VAL] # NUL <=> i < n - 1
    BY DEF Holds
  <2>1. CASE i + 1 = MAX_VAL
    <3>1. (r + (i + 1)) % MAX_VAL = r
      BY <2>1, NoDistance
    <3>2. ~(i < n - 1)
      BY <2>1 DEF Slot
    <3> QED
      BY <1>2, <1>4, <3>1, <3>2
  <2>2. CASE i + 1 # MAX_VAL
    <3>1. i + 1 \in 1 .. MAX_VAL - 1 /\ i + 1 \in Slot /\ (i < n - 1 <=> i + 1 < n)
      BY <2>2 DEF Slot
    <3> QED
      BY <1>3, <1>4, <3>1 DEF Holds
  <2> QED
    BY <2>1, <2>2
<1>6. (r2 + (n - 1)) % MAX_VAL = (r + n) % MAX_VAL
  BY <1>00, <1>0, RoundNext
<1> DEFINE q == Queue(b, r, n)
           q2 == Queue(b2, r2, n - 1)
<1>7. q = [i \in 1 .. n |-> b[(r + i - 1) % MAX_VAL]]
  BY DEF Queue
<1>8. ASSUME NEW i \in 1 .. n
      PROVE  r + i - 1 = r + (i - 1) /\ b[(r + i - 1) % MAX_VAL] \in Nat
  <2>1. r + i - 1 = r + (i - 1) /\ i - 1 \in 0 .. MAX_VAL
    BY DEF Slot
  <2> QED
    BY <2>1, Round
<1>9. q \in Seq(Nat) /\ Len(q) = n
  BY <1>7, <1>8
<1>9a. q # <<>> /\ q[1] = b[r]
  <2>1. 1 \in 1 .. n /\ r + 1 - 1 = r + 0
    BY DEF Slot
  <2>2. q[1] = b[(r + 0) % MAX_VAL]
    BY <1>7, <2>1
  <2>3. q # <<>>
    <3> HIDE DEF q
    <3> QED
      BY <1>9
  <2> QED
    BY <1>1, <2>2, <2>3
<1>10. ASSUME NEW i \in 1 .. n - 1 PROVE q2[i] = q[i + 1]
  <2>1. /\ i - 1 \in Slot /\ i \in 1 .. MAX_VAL - 1 /\ i + 1 \in 1 .. n
        /\ (i - 1) + 1 = i /\ r + (i + 1) - 1 = r + i /\ r2 + i - 1 = r2 + (i - 1)
    BY <1>1 DEF Slot
  <2>2. q2[i] = b2[(r2 + (i - 1)) % MAX_VAL]
    BY <2>1 DEF Queue
  <2>3. (r2 + (i - 1)) % MAX_VAL = (r + i) % MAX_VAL
    BY <1>4, <2>1
  <2>4. q[i + 1] = b[(r + i) % MAX_VAL]
    BY <1>7, <2>1
  <2> QED
    BY <1>3, <2>1, <2>2, <2>3, <2>4
<1>11. q2 \in Seq(Nat) /\ Len(q2) = n - 1
  <2>1. \A i \in 1 .. n - 1 : i + 1 \in 1 .. n
    BY <1>0
  <2>2. \A i \in 1 .. n - 1 : q2[i] \in Nat
    BY <1>7, <1>8, <1>10, <2>1, ZenonT(60)
  <2>3. q2 = [i \in 1 .. n - 1 |-> q2[i]] /\ n - 1 \in Nat
    BY <1>0 DEF Queue
  <2> HIDE DEF q2
  <2> QED
    BY <2>2, <2>3, IsSequence
<1> HIDE DEF q, q2
<1>12. /\ Head(q) = q[1] /\ Tail(q) \in Seq(Nat) /\ Len(Tail(q)) = n - 1
       /\ \A i \in 1 .. n - 1 : Tail(q)[i] = q[i + 1]
  BY <1>9, <1>9a, HeadTailProperties
<1>13. q2 = Tail(q)
  BY <1>10, <1>11, <1>12, SeqEqual
<1> QED
  BY <1>5, <1>6, <1>9a, <1>12, <1>13 DEF q, q2, r2, b2

-----------------------------------------------------------------------------
(* The invariant, one lemma per operation.                                 *)

(* The keyboard interrupt: a new character, and it is lost that the slots  *)
(* are those from read to write exactly when one is overwritten.           *)
LEMMA RoutineInv ==
  ASSUME KeyboardInv, NEW value \in Value, keyboard_routine(value)
  PROVE  KeyboardInv'
<1> USE KeyboardAssumption
<1>1. /\ buffer \in [Slot -> 0 .. pressed] /\ read \in Slot /\ write \in Slot
      /\ pressed \in 0 .. MAX_KEYS /\ pressed < MAX_KEYS
      /\ pressed' = pressed + 1 /\ pressed' \in 0 .. MAX_KEYS
      /\ buffer' = [buffer EXCEPT ![write] = pressed + 1]
      /\ write' = (write + 1) % MAX_VAL
      /\ overrun' = (overrun \/ buffer[write] # NUL)
      /\ UNCHANGED <<read, got, delivered>>
      /\ Unread /\ delivered \subseteq 1 .. pressed
      /\ overrun \in BOOLEAN /\ got \in 0 .. pressed
  BY DEF KeyboardInv, KeyboardTypeOK, keyboard_routine, circular_write, character
<1>2. write' \in Slot
  <2>1. 1 \in 0 .. MAX_VAL
    OBVIOUS
  <2> QED
    BY <1>1, <2>1, Round
<1>3. 0 .. pressed \subseteq 0 .. pressed' /\ pressed + 1 \in 0 .. pressed'
      /\ pressed + 1 \notin 0 .. pressed /\ pressed + 1 # NUL
      /\ pressed + 1 \in Nat \ {0} /\ 1 .. pressed \subseteq 1 .. pressed'
      /\ 0 .. pressed \subseteq Nat /\ pressed + 1 \notin 1 .. pressed
  BY <1>1 DEF NUL
<1>4. buffer'[write] = pressed + 1 /\ \A i \in Slot : i # write => buffer'[i] = buffer[i]
  BY <1>1
<1>5. KeyboardTypeOK'
  <2>1. buffer' \in [Slot -> 0 .. pressed']
    BY <1>1, <1>3
  <2>2. overrun' \in BOOLEAN
    BY <1>1
  <2> QED
    BY <1>1, <1>2, <1>3, <2>1, <2>2 DEF KeyboardTypeOK
<1>6. Unread'
  <2>1. \A i \in Slot : buffer'[i] \notin delivered'
    BY <1>1, <1>3, <1>4 DEF Unread
  <2>2. \A i \in Slot : i # write => buffer'[i] # pressed + 1
    BY <1>1, <1>3, <1>4
  <2>3. ASSUME NEW i \in Slot, NEW j \in Slot, buffer'[i] # NUL, buffer'[i] = buffer'[j]
        PROVE  i = j
    BY <1>1, <1>4, <2>2, <2>3 DEF Unread
  <2> QED
    BY <2>1, <2>3 DEF Unread
<1>7. Filled'
  <2> SUFFICES ASSUME ~overrun'
               PROVE  \E n \in 0 .. MAX_VAL : /\ Holds(buffer', read', n)
                                              /\ write' = (read' + n) % MAX_VAL
    BY DEF Filled, Holds
  <2>1. ~overrun /\ buffer[write] = NUL
    BY <1>1
  <2>2. PICK n \in 0 .. MAX_VAL : Holds(buffer, read, n) /\ write = (read + n) % MAX_VAL
    BY <2>1 DEF KeyboardInv, Filled
  <2>3. buffer \in [Slot -> Nat]
    BY <1>1, <1>3
  <2>4. n < MAX_VAL
    BY <1>1, <2>1, <2>2, <2>3, EmptyOrFull
  <2>5. n \in 0 .. MAX_VAL - 1 /\ n + 1 \in 0 .. MAX_VAL
    BY <2>4
  <2>6. Holds(buffer', read, n + 1) /\ (write + 1) % MAX_VAL = (read + (n + 1)) % MAX_VAL
    <3>1. PICK r \in Slot, c \in Nat \ {0} :
            r = read /\ buffer' = [buffer EXCEPT ![write] = c]
      BY <1>1, <1>3
    <3>2. Holds(buffer, r, n) /\ write = (r + n) % MAX_VAL
      BY <2>2, <3>1
    <3>3. Holds(buffer', r, n + 1) /\ (write + 1) % MAX_VAL = (r + (n + 1)) % MAX_VAL
      BY <2>3, <2>5, <3>1, <3>2, Written
    <3> QED
      BY <3>1, <3>3
  <2> QED
    BY <1>1, <2>5, <2>6
<1> QED
  BY <1>5, <1>6, <1>7 DEF KeyboardInv

(* sys_get_key: the character that is returned leaves the buffer.          *)
LEMMA GetKeyInv ==
  ASSUME KeyboardInv, sys_get_key
  PROVE  /\ KeyboardInv'
         /\ got' # NUL => got' \notin delivered
<1> USE KeyboardAssumption
<1>1. /\ buffer \in [Slot -> 0 .. pressed] /\ read \in Slot /\ write \in Slot
      /\ pressed \in 0 .. MAX_KEYS
      /\ UNCHANGED <<pressed, overrun, write>>
      /\ Unread /\ delivered \subseteq 1 .. pressed
      /\ overrun \in BOOLEAN
      /\ 0 .. pressed \subseteq Nat /\ NUL \in 0 .. pressed
      /\ 1 .. pressed \subseteq 0 .. pressed
      /\ delivered' = delivered \cup ({got'} \ {NUL})
  BY DEF KeyboardInv, KeyboardTypeOK, sys_get_key, circular_read, NUL
<1>2. CASE got' = NUL /\ UNCHANGED <<buffer, read, write>>
  <2>1. delivered' = delivered
    BY <1>1, <1>2
  <2> QED
    BY <1>1, <1>2, <2>1 DEF KeyboardInv, KeyboardTypeOK, Unread, Filled, Holds
<1>3. CASE /\ ~circular_empty
           /\ got' = buffer[read]
           /\ buffer' = [buffer EXCEPT ![read] = NUL]
           /\ read' = (read + 1) % MAX_VAL
  <2>1. /\ buffer[read] # NUL /\ buffer[read] \in 1 .. pressed
        /\ delivered' = delivered \cup {buffer[read]}
    BY <1>1, <1>3 DEF circular_empty, NUL
  <2>2. read' \in Slot
    <3>1. 1 \in 0 .. MAX_VAL
      OBVIOUS
    <3> QED
      BY <1>1, <1>3, <3>1, Round
  <2>3. buffer'[read] = NUL /\ \A i \in Slot : i # read => buffer'[i] = buffer[i]
    BY <1>1, <1>3
  <2>4. KeyboardTypeOK'
    <3>1. buffer' \in [Slot -> 0 .. pressed]
      BY <1>1, <1>3
    <3>2. got' \in 0 .. pressed
      BY <1>1, <1>3
    <3>3. delivered' \subseteq 1 .. pressed
      <4> DEFINE S == 1 .. pressed
      <4>1. /\ delivered \subseteq S /\ buffer[read] \in S
            /\ delivered' = delivered \cup {buffer[read]}
        BY <1>1, <2>1
      <4> HIDE DEF S
      <4>2. delivered' \subseteq S
        BY ONLY <4>1
      <4> QED
        BY <4>2 DEF S
    <3>4. /\ pressed' = pressed /\ pressed \in 0 .. MAX_KEYS
          /\ write' = write /\ write \in Slot
          /\ overrun' = overrun /\ overrun \in BOOLEAN
      BY <1>1
    <3> QED
      BY ONLY <2>2, <3>1, <3>2, <3>3, <3>4 DEF KeyboardTypeOK
  <2>5. Unread'
    <3>1. NUL \notin delivered'
      BY <1>1, <2>1 DEF NUL
    <3>2. \A i \in Slot : i # read => buffer[i] # buffer[read]
      BY <1>1, <2>1 DEF Unread
    <3>3. \A i \in Slot : buffer'[i] \notin delivered'
      BY <1>1, <2>1, <2>3, <3>1, <3>2 DEF Unread
    <3>4. \A i, j \in Slot : buffer'[i] # NUL /\ buffer'[i] = buffer'[j] => i = j
      BY <1>1, <2>3 DEF Unread
    <3> QED
      BY <3>3, <3>4 DEF Unread
  <2>6. Filled'
    <3> SUFFICES ASSUME ~overrun'
                 PROVE  \E n \in 0 .. MAX_VAL : /\ Holds(buffer', read', n)
                                                /\ write' = (read' + n) % MAX_VAL
      BY DEF Filled, Holds
    <3>1. PICK n \in 0 .. MAX_VAL : Holds(buffer, read, n) /\ write = (read + n) % MAX_VAL
      BY <1>1 DEF KeyboardInv, Filled
    <3>2. buffer \in [Slot -> Nat]
      BY <1>1
    <3>3. n # 0
      BY <1>1, <2>1, <3>1, <3>2, EmptyOrFull
    <3>4. n \in 1 .. MAX_VAL /\ n - 1 \in 0 .. MAX_VAL
      BY <3>3
    <3>5. Holds(buffer', read', n - 1) /\ (read' + (n - 1)) % MAX_VAL = (read + n) % MAX_VAL
      <4>1. PICK r \in Slot : r = read
        BY <1>1
      <4>2. /\ Holds(buffer, r, n) /\ buffer' = [buffer EXCEPT ![r] = NUL]
            /\ read' = (r + 1) % MAX_VAL
        BY <1>3, <3>1, <4>1
      <4>3. Holds(buffer', read', n - 1) /\ (read' + (n - 1)) % MAX_VAL = (r + n) % MAX_VAL
        BY <3>2, <3>4, <4>2, Taken
      <4> QED
        BY <4>1, <4>3
    <3> QED
      BY <1>1, <3>1, <3>4, <3>5
  <2> QED
    BY <1>1, <1>3, <2>1, <2>4, <2>5, <2>6 DEF KeyboardInv, Unread
<1> QED
  BY <1>2, <1>3 DEF sys_get_key, circular_read

(* The buffer that circular_init leaves, at boot and in sys_fflush.        *)
LEMMA InitFilled ==
  /\ Holds([i \in Slot |-> NUL], 0, 0)
  /\ 0 = (0 + 0) % MAX_VAL
<1>1. 0 \in Slot
  BY KeyboardAssumption DEF Slot
<1>2. (0 + 0) % MAX_VAL = 0
  BY <1>1, NoDistance
<1>3. ASSUME NEW i \in Slot PROVE (0 + i) % MAX_VAL \in Slot /\ ~(i < 0)
  <2>1. i \in 0 .. MAX_VAL /\ ~(i < 0)
    BY KeyboardAssumption DEF Slot
  <2> QED
    BY <1>1, <2>1, Round
<1> QED
  BY <1>2, <1>3 DEF Holds

(* fflush empties the buffer, which is an invariant state wherever it was.  *)
LEMMA FflushInv == ASSUME KeyboardInv, sys_fflush PROVE KeyboardInv'
<1> USE KeyboardAssumption
<1>1. /\ buffer' = [i \in Slot |-> NUL] /\ read' = 0 /\ write' = 0 /\ overrun' = FALSE
      /\ UNCHANGED <<pressed, got, delivered>>
      /\ pressed \in 0 .. MAX_KEYS /\ NUL \in 0 .. pressed /\ 0 \in Slot
      /\ delivered \subseteq 1 .. pressed /\ NUL \notin delivered
      /\ got \in 0 .. pressed
  BY DEF KeyboardInv, KeyboardTypeOK, sys_fflush, circular_init, Slot, NUL
<1>2. KeyboardTypeOK'
  BY <1>1 DEF KeyboardTypeOK
<1>3. Unread'
  BY <1>1 DEF Unread
<1>4. 0 \in 0 .. MAX_VAL /\ Holds(buffer', read', 0) /\ write' = (read' + 0) % MAX_VAL
  BY <1>1, InitFilled
<1>5. Filled'
  BY <1>4 DEF Filled, Holds
<1> QED
  BY <1>2, <1>3, <1>5 DEF KeyboardInv

(* Every reachable state of the keyboard satisfies the invariant.          *)
THEOREM KeyboardInvariance == Spec => []KeyboardInv
<1>1. Init => KeyboardInv
  <2> SUFFICES ASSUME Init PROVE KeyboardInv
    OBVIOUS
  <2>1. KeyboardTypeOK /\ Unread
    <3>1. 0 \in Slot /\ 0 \in 0 .. MAX_KEYS /\ 0 \in 0 .. 0
      BY KeyboardAssumption DEF Slot
    <3>2. KeyboardTypeOK
      BY <3>1 DEF Init, KeyboardTypeOK, NUL
    <3>3. Unread
      BY DEF Init, Unread
    <3> QED
      BY <3>2, <3>3
  <2>2. 0 \in 0 .. MAX_VAL /\ Holds(buffer, read, 0) /\ write = (read + 0) % MAX_VAL
    BY InitFilled, KeyboardAssumption DEF Init
  <2>3. Filled
    BY <2>2 DEF Filled
  <2> QED
    BY <2>1, <2>3 DEF KeyboardInv
<1>2. KeyboardInv /\ [Next]_keyboardVars => KeyboardInv'
  <2>1. KeyboardInv /\ UNCHANGED keyboardVars => KeyboardInv'
    BY DEF keyboardVars, KeyboardInv, KeyboardTypeOK, Unread, Filled, Holds
  <2> QED
    BY <2>1, RoutineInv, GetKeyInv, FflushInv DEF Next
<1> QED
  BY <1>1, <1>2, PTL DEF Spec

-----------------------------------------------------------------------------
(* No key press is read twice, for any buffer and any number of presses,   *)
(* also after characters have been overwritten.                            *)
THEOREM KeysReadOnce == Spec => ReadOnce
<1>1. KeyboardInv => (sys_get_key /\ got' # NUL => got' \notin delivered)
  BY GetKeyInv
<1> QED
  BY <1>1, KeyboardInvariance, PTL DEF Spec, ReadOnce

(* The number of slots in use is the distance from read to write, and the  *)
(* slots in use are those between them, until a character is overwritten.  *)
THEOREM SlotsContiguous == Spec => []Contiguous
<1>1. KeyboardInv => Contiguous
  <2> SUFFICES ASSUME KeyboardInv, ~overrun
               PROVE  /\ (read + Cardinality(Waiting)) % MAX_VAL = write
                      /\ Waiting = {(read + i) % MAX_VAL :
                                      i \in 0 .. Cardinality(Waiting) - 1}
    BY DEF Contiguous
  <2>1. PICK n \in 0 .. MAX_VAL : Holds(buffer, read, n) /\ write = (read + n) % MAX_VAL
    BY DEF KeyboardInv, Filled
  <2>2. buffer \in [Slot -> Nat] /\ read \in Slot
    BY KeyboardAssumption DEF KeyboardInv, KeyboardTypeOK
  <2>3. /\ Cardinality(Waiting) = n
        /\ Waiting = {(read + i) % MAX_VAL : i \in 0 .. n - 1}
    BY <2>1, <2>2, Count DEF Waiting
  <2> QED
    BY <2>1, <2>3
<1> QED
  BY <1>1, KeyboardInvariance, PTL

-----------------------------------------------------------------------------
(* The buffer is the queue of KeyQueue.                                    *)

(* n slots from r on are a sequence of n numbers.                           *)
LEMMA QueueType ==
  ASSUME NEW b \in [Slot -> Nat], NEW r \in Slot, NEW n \in 0 .. MAX_VAL
  PROVE  /\ Queue(b, r, n) \in Seq(Nat) /\ Len(Queue(b, r, n)) = n
         /\ n = 0 => Queue(b, r, n) = <<>>
         /\ n # 0 => Queue(b, r, n) # <<>>
<1> DEFINE q == Queue(b, r, n)
<1>1. ASSUME NEW i \in 1 .. n PROVE b[(r + i - 1) % MAX_VAL] \in Nat
  <2>1. r + i - 1 = r + (i - 1) /\ i - 1 \in 0 .. MAX_VAL
    BY KeyboardAssumption DEF Slot
  <2> QED
    BY <2>1, Round
<1>2. q = [i \in 1 .. n |-> q[i]] /\ \A i \in 1 .. n : q[i] \in Nat
  BY <1>1 DEF Queue
<1>3. n \in Nat
  BY KeyboardAssumption
<1> HIDE DEF q
<1>4. q \in Seq(Nat) /\ Len(q) = n
  BY <1>2, <1>3, IsSequence
<1>5. (n = 0 => q = <<>>) /\ (n # 0 => q # <<>>)
  BY <1>4
<1> QED
  BY <1>4, <1>5 DEF q

(* The queue that is seen, before a step and after it.                     *)
LEMMA QueuedIs ==
  /\ \A n \in 0 .. MAX_VAL :
       KeyboardInv /\ ~overrun /\ Holds(buffer, read, n)
         => Queued = Queue(buffer, read, n)
  /\ \A n \in 0 .. MAX_VAL :
       KeyboardInv' /\ ~overrun' /\ Holds(buffer', read', n)
         => Queued' = Queue(buffer', read', n)
<1>1. ASSUME NEW n \in 0 .. MAX_VAL, KeyboardInv, ~overrun, Holds(buffer, read, n)
      PROVE  Queued = Queue(buffer, read, n)
  <2>1. buffer \in [Slot -> Nat] /\ read \in Slot
    BY <1>1, KeyboardAssumption DEF KeyboardInv, KeyboardTypeOK
  <2>2. Cardinality(Waiting) = n
    BY <1>1, <2>1, Count DEF Waiting
  <2> QED
    BY <1>1, <2>2 DEF Queued, Queue
<1>2. ASSUME NEW n \in 0 .. MAX_VAL, KeyboardInv', ~overrun', Holds(buffer', read', n)
      PROVE  Queued' = Queue(buffer', read', n)
  <2>1. buffer' \in [Slot -> Nat] /\ read' \in Slot
    BY <1>2, KeyboardAssumption DEF KeyboardInv, KeyboardTypeOK
  <2>2. Cardinality(Waiting)' = n
    BY <1>2, <2>1, Count DEF Waiting
  <2> QED
    BY <1>2, <2>2 DEF Queued, Queue
<1> QED
  BY <1>1, <1>2

(* A key press is a Press of the queue: it is appended, or it is the one   *)
(* too many; and while the queue is lost nothing is promised.              *)
LEMMA PressStep ==
  ASSUME KeyboardInv, KeyboardInv', NEW value \in Value, keyboard_routine(value)
  PROVE  KeyQ!Press \/ UNCHANGED KeyQ!queueVars
<1> USE KeyboardAssumption
<1>1. /\ buffer \in [Slot -> Nat] /\ read \in Slot /\ overrun \in BOOLEAN
      /\ pressed + 1 \in 1 .. MAX_KEYS
      /\ buffer' = [buffer EXCEPT ![write] = pressed + 1]
      /\ overrun' = (overrun \/ buffer[write] # NUL)
      /\ UNCHANGED <<read, got>>
  BY DEF KeyboardInv, KeyboardTypeOK, keyboard_routine, circular_write, character
<1>2. CASE overrun
  <2>1. Queued = <<>> /\ Queued' = <<>> /\ UNCHANGED overrun
    BY <1>1, <1>2 DEF Queued
  <2> QED
    BY <1>1, <2>1 DEF KeyQ!queueVars
<1>3. CASE ~overrun
  <2>1. PICK n \in 0 .. MAX_VAL : Holds(buffer, read, n) /\ write = (read + n) % MAX_VAL
    BY <1>3 DEF KeyboardInv, Filled
  <2>2. Queued = Queue(buffer, read, n)
    BY <1>3, <2>1, QueuedIs
  <2>3. Len(Queued) = n
    BY <1>1, <2>2, QueueType
  <2>4. buffer[write] = NUL <=> n < MAX_VAL
    BY <1>1, <2>1, EmptyOrFull
  <2>5. CASE buffer[write] = NUL
    <3>1. n < MAX_VAL /\ n \in 0 .. MAX_VAL - 1 /\ n + 1 \in 0 .. MAX_VAL
      BY <2>4, <2>5
    <3>2. PICK r \in Slot, c \in Nat \ {0} :
            /\ r = read /\ c = pressed + 1
            /\ buffer' = [buffer EXCEPT ![write] = c]
      <4>1. pressed + 1 \in Nat \ {0}
        BY <1>1
      <4> QED
        BY <1>1, <4>1
    <3>3. Holds(buffer, r, n) /\ write = (r + n) % MAX_VAL
      BY <2>1, <3>2
    <3>4. /\ Holds(buffer', r, n + 1)
          /\ Queue(buffer', r, n + 1) = Append(Queue(buffer, r, n), c)
      <4>1. buffer \in [Slot -> Nat]
        BY <1>1
      <4> QED
        BY <3>1, <3>2, <3>3, <4>1, Written
    <3>5. ~overrun' /\ read' = r
      BY <1>1, <1>3, <2>5, <3>2
    <3>6. Queued' = Append(Queued, pressed + 1)
      BY <2>2, <3>1, <3>2, <3>4, <3>5, QueuedIs
    <3> QED
      BY <1>1, <1>3, <2>3, <3>1, <3>5, <3>6 DEF KeyQ!Press
  <2>6. CASE buffer[write] # NUL
    <3>1. n = MAX_VAL
      BY <2>4, <2>6
    <3>2. overrun' = TRUE /\ Queued' = <<>>
      BY <1>1, <2>6 DEF Queued
    <3> QED
      BY <1>1, <2>3, <3>1, <3>2 DEF KeyQ!Press
  <2> QED
    BY <2>5, <2>6
<1> QED
  BY <1>1, <1>2, <1>3

(* get_key is a Read of the queue: the first of the keys that wait, or     *)
(* none when there is none.                                                *)
LEMMA ReadStep ==
  ASSUME KeyboardInv, KeyboardInv', sys_get_key
  PROVE  KeyQ!Read
<1> USE KeyboardAssumption
<1>1. /\ buffer \in [Slot -> Nat] /\ read \in Slot /\ overrun \in BOOLEAN
      /\ buffer[read] \in 1 .. MAX_KEYS \cup {NUL}
      /\ UNCHANGED overrun
  BY DEF KeyboardInv, KeyboardTypeOK, sys_get_key, circular_read, NUL
<1>2. got' = buffer[read]
  BY DEF sys_get_key, circular_read, circular_empty
<1>3. CASE overrun
  <2>1. Queued = <<>> /\ Queued' = <<>>
    BY <1>1, <1>3 DEF Queued
  <2> QED
    BY <1>1, <1>2, <1>3, <2>1 DEF KeyQ!Read
<1>4. CASE ~overrun
  <2>1. PICK n \in 0 .. MAX_VAL : Holds(buffer, read, n) /\ write = (read + n) % MAX_VAL
    BY <1>4 DEF KeyboardInv, Filled
  <2>2. Queued = Queue(buffer, read, n)
    BY <1>4, <2>1, QueuedIs
  <2>3. buffer[read] = NUL <=> n = 0
    BY <1>1, <2>1, EmptyOrFull
  <2>4. CASE n = 0
    <3>1. Queued = <<>> /\ got' = NUL
      BY <1>1, <1>2, <2>2, <2>3, <2>4, QueueType
    <3>2. UNCHANGED <<buffer, read>>
      BY <2>3, <2>4 DEF sys_get_key, circular_read, circular_empty
    <3>3. Queued' = Queued
      BY <1>1, <3>2 DEF Queued, Waiting
    <3> QED
      BY <1>1, <1>4, <3>1, <3>3 DEF KeyQ!Read
  <2>5. CASE n # 0
    <3>1. PICK r \in Slot : r = read
      BY <1>1
    <3>2. /\ Holds(buffer, r, n) /\ buffer' = [buffer EXCEPT ![r] = NUL]
          /\ read' = (r + 1) % MAX_VAL
      BY <2>1, <2>3, <2>5, <3>1 DEF sys_get_key, circular_read, circular_empty
    <3>3. n \in 1 .. MAX_VAL /\ n - 1 \in 0 .. MAX_VAL
      BY <2>5
    <3>4. /\ Holds(buffer', read', n - 1)
          /\ Queue(buffer, r, n) # <<>>
          /\ Head(Queue(buffer, r, n)) = buffer[r]
          /\ Queue(buffer', read', n - 1) = Tail(Queue(buffer, r, n))
      BY <1>1, <3>2, <3>3, Taken
    <3>5. Queued' = Queue(buffer', read', n - 1)
      BY <1>1, <1>4, <3>3, <3>4, QueuedIs
    <3>6. Queued # <<>> /\ got' = Head(Queued) /\ Queued' = Tail(Queued)
      BY <1>2, <2>2, <3>1, <3>4, <3>5
    <3> QED
      BY <1>1, <1>4, <3>6 DEF KeyQ!Read
  <2> QED
    BY <2>4, <2>5
<1> QED
  BY <1>1, <1>3, <1>4

(* A buffer that circular_init has filled with NUL is the empty queue.     *)
LEMMA EmptyQueue ==
  /\ buffer = [i \in Slot |-> NUL] => Queued = <<>>
  /\ buffer' = [i \in Slot |-> NUL] => Queued' = <<>>
<1>1. ASSUME buffer = [i \in Slot |-> NUL] PROVE Queued = <<>>
  <2>1. Waiting = {}
    BY <1>1 DEF Waiting
  <2>2. Cardinality(Waiting) = 0
    BY <2>1, FS_EmptySet
  <2> QED
    BY <2>2 DEF Queued
<1>2. ASSUME buffer' = [i \in Slot |-> NUL] PROVE Queued' = <<>>
  <2>1. Waiting' = {}
    BY <1>2 DEF Waiting
  <2>2. Cardinality(Waiting') = 0
    BY <2>1, FS_EmptySet
  <2> QED
    BY <2>2 DEF Queued
<1> QED
  BY <1>1, <1>2

(* Whatever the order of presses, reads and flushes, the buffer without a  *)
(* count behaves as the queue of KeyQueue, for every size of the buffer.   *)
THEOREM QueueRefinement == Spec => ImplementsQueue
<1>1. Init => KeyQ!Init
  BY EmptyQueue DEF Init, KeyQ!Init
<1>2. ASSUME KeyboardInv, KeyboardInv', [Next]_keyboardVars
      PROVE  KeyQ!Next \/ UNCHANGED KeyQ!queueVars
  <2>1. CASE \E value \in Value : keyboard_routine(value)
    BY <1>2, <2>1, PressStep DEF KeyQ!Next
  <2>2. CASE sys_get_key
    BY <1>2, <2>2, ReadStep DEF KeyQ!Next
  <2>3. CASE sys_fflush
    BY <2>3, EmptyQueue DEF sys_fflush, circular_init, KeyQ!Next, KeyQ!Flush
  <2>4. CASE UNCHANGED keyboardVars
    BY <2>4 DEF keyboardVars, KeyQ!queueVars, Queued, Waiting
  <2> QED
    BY <1>2, <2>1, <2>2, <2>3, <2>4 DEF Next
<1>3. KeyboardInv /\ KeyboardInv' /\ [Next]_keyboardVars
        => [KeyQ!Next]_(KeyQ!queueVars)
  BY <1>2
<1> QED
  BY KeyboardInvariance, <1>1, <1>3, PTL DEF Spec, ImplementsQueue, KeyQ!Spec

-----------------------------------------------------------------------------
(* The console.                                                            *)

(* The cursor stays on the screen.                                         *)
OnScreen(s) == s.x \in 0 .. NUM_COLUMNS - 1 /\ s.y \in 0 .. NUM_ROWS - 1

(* The cell of the next character.                                         *)
cell_of(s) == s.y * NUM_COLUMNS + s.x

-----------------------------------------------------------------------------
(* Induction over the numbers, in the form the provers can use it.         *)
LEMMA LeastNumber ==
  ASSUME NEW T, T \subseteq Nat, T # {}
  PROVE  \E n \in T : \A m \in T : n <= m
<1> DEFINE less == OpToRel(<, Nat)
<1>1. \A i, j \in Nat : <<i, j>> \in less <=> i < j
  BY DEF OpToRel
<1>2. IsWellFoundedOn(less, Nat)
  BY NatLessThanWellFounded
<1> HIDE DEF less
<1>3. PICK n \in T : \A m \in T : ~ (<<m, n>> \in less)
  BY <1>2, WFMin
<1>4. ASSUME NEW m \in T PROVE n <= m
  <2>1. n \in Nat /\ m \in Nat /\ ~ (<<m, n>> \in less)
    BY <1>3
  <2>2. ~ (m < n)
    BY <1>1, <2>1
  <2> QED
    BY <2>1, <2>2
<1> QED
  BY <1>4

(* What holds of 0 and goes on to the next holds up to n.                  *)
LEMMA UpTo ==
  ASSUME NEW n \in Nat, NEW T, 0 \in T,
         \A k \in 0 .. n : k # n /\ k \in T => k + 1 \in T
  PROVE  \A k \in 0 .. n : k \in T
<1>1. SUFFICES ASSUME NEW m \in 0 .. n, m \notin T PROVE FALSE
  OBVIOUS
<1> DEFINE U == {k \in 0 .. n : k \notin T}
<1>2. PICK k \in U : \A i \in U : k <= i
  <2>1. U \subseteq Nat /\ U # {}
    BY <1>1
  <2> QED
    BY <2>1, LeastNumber
<1>3. k \in 0 .. n /\ k # 0 /\ k \notin T
  OBVIOUS
<1>4. k - 1 \in 0 .. n /\ k - 1 # n /\ k - 1 + 1 = k
  BY <1>3
<1>5. k - 1 \notin U
  BY <1>2, <1>4
<1>6. k - 1 \in T
  BY <1>4, <1>5
<1> QED
  BY <1>3, <1>4, <1>6

-----------------------------------------------------------------------------
(* Quotients and remainders.                                               *)
LEMMA Division ==
  ASSUME NEW m \in Nat, NEW d \in Nat \ {0}
  PROVE  m \div d \in Nat /\ m % d \in 0 .. d - 1 /\ m = d * (m \div d) + (m % d)
OBVIOUS

(* Of products with d, as of the factors.                                  *)
LEMMA Products ==
  ASSUME NEW i \in Int, NEW j \in Int, NEW d \in Nat \ {0}, d * i < d * (j + 1)
  PROVE  i <= j
OBVIOUS

(* Quotient and remainder are known by the sum they make.                  *)
LEMMA Quotient ==
  ASSUME NEW d \in Nat \ {0}, NEW q \in Nat, NEW r \in 0 .. d - 1
  PROVE  (d * q + r) \div d = q /\ (d * q + r) % d = r
<1>1. PICK p \in Nat : p = d * q
  OBVIOUS
<1>2. PICK v \in Nat, s \in 0 .. d - 1 :
        v = (p + r) \div d /\ s = (p + r) % d /\ p + r = d * v + s
  BY <1>1, Division
<1>3. d * v < d * (q + 1) /\ d * q < d * (v + 1)
  <2>1. d * (q + 1) = d * q + d /\ d * (v + 1) = d * v + d
    OBVIOUS
  <2> QED
    BY <1>1, <1>2, <2>1
<1>4. v = q
  BY <1>3, Products
<1> QED
  BY <1>1, <1>2, <1>4

-----------------------------------------------------------------------------
(* printc moves the cursor as next does, over the end of a row and of the  *)
(* screen.                                                                 *)
LEMMA CellBounds ==
  ASSUME NEW i \in 0 .. NUM_COLUMNS - 1, NEW j \in 0 .. NUM_ROWS - 1
  PROVE  /\ j * NUM_COLUMNS + i \in Cell
         /\ (j * NUM_COLUMNS + i) \div NUM_COLUMNS = j
<1>1. PICK w \in Nat \ {0}, h \in Nat \ {0} : w = NUM_COLUMNS /\ h = NUM_ROWS
  BY ConsoleAssumption
<1>2. i \in 0 .. w - 1 /\ j \in 0 .. h - 1
  BY <1>1
<1>3. j * w + w <= w * h /\ j * w \in Nat
  <2>1. PICK e \in Nat : h = j + 1 + e
    BY <1>2
  <2>2. w * (j + 1 + e) = j * w + w + w * e /\ w * e \in Nat /\ j * w \in Nat
    BY <1>2
  <2> QED
    BY <2>1, <2>2
<1>4. j * w + i \in 0 .. w * h - 1
  BY <1>2, <1>3
<1>5. (w * j + i) \div w = j /\ j * w = w * j
  BY <1>2, Quotient
<1> QED
  BY <1>1, <1>4, <1>5 DEF Cell

(* A new line, the end of a row and the end of the screen included.        *)
LEMMA PrintcNext ==
  ASSUME NEW s, OnScreen(s), NEW c
  PROVE  OnScreen(printc(s, c)) /\ cell_of(printc(s, c)) = Scr!next(cell_of(s), c)
<1>1. PICK w \in Nat \ {0}, h \in Nat \ {0} : w = NUM_COLUMNS /\ h = NUM_ROWS
  BY ConsoleAssumption
<1>2. PICK i \in 0 .. w - 1, j \in 0 .. h - 1 : s.x = i /\ s.y = j
  BY <1>1 DEF OnScreen
<1>3. j * w + i \in 0 .. w * h - 1 /\ (j * w + i) \div w = j
  BY <1>1, <1>2, CellBounds DEF Cell
<1>4. /\ printc(s, c).x = IF c # NL /\ i + 1 < w THEN i + 1 ELSE 0
      /\ printc(s, c).y = IF c # NL /\ i + 1 < w THEN j ELSE (j + 1) % h
  BY <1>1, <1>2 DEF printc
<1>5. (j + 1) % h \in 0 .. h - 1
  BY <1>2, Division
<1>6. OnScreen(printc(s, c))
  BY <1>1, <1>2, <1>4, <1>5 DEF OnScreen
<1>7. Scr!next(cell_of(s), c) =
        (IF c = NL THEN (j + 1) * w ELSE j * w + i + 1) % (w * h)
  BY <1>1, <1>2, <1>3 DEF Scr!next, cell_of
<1>8. w * h \in Nat \ {0} /\ j * w \in Nat /\ (j + 1) * w = j * w + w
  BY <1>2
<1>9. CASE c # NL /\ i + 1 < w
  <2>1. cell_of(printc(s, c)) = j * w + i + 1
    BY <1>1, <1>4, <1>9, <1>2, <1>8 DEF cell_of
  <2>2. PICK p \in Nat, m \in Nat \ {0} : p = j * w /\ m = w * h
    BY <1>8
  <2>3. p + i + 1 \in 0 .. m - 1
    <3>1. j * w + (i + 1) \in 0 .. w * h - 1
      BY <1>1, <1>2, <1>9, CellBounds DEF Cell
    <3> QED
      BY <1>2, <2>2, <3>1
  <2>4. (p + i + 1) % m = p + i + 1
    BY <2>2, <2>3, <1>2
  <2> QED
    BY <1>6, <1>7, <1>9, <2>1, <2>2, <2>4
<1>10. CASE ~ (c # NL /\ i + 1 < w)
  <2>1. cell_of(printc(s, c)) = ((j + 1) % h) * w
    <3>1. PICK v \in 0 .. h - 1 : v = (j + 1) % h
      BY <1>5
    <3>2. cell_of(printc(s, c)) = v * w + 0
      BY <1>1, <1>4, <1>10, <3>1 DEF cell_of
    <3> QED
      BY <3>1, <3>2
  <2>2. Scr!next(cell_of(s), c) = ((j + 1) * w) % (w * h)
    <3>1. c = NL \/ j * w + i + 1 = (j + 1) * w
      <4>1. c = NL \/ i + 1 = w
        BY <1>2, <1>10
      <4> QED
        BY <1>2, <1>8, <4>1
    <3> QED
      BY <1>7, <3>1
  <2>3. ((j + 1) * w) % (w * h) = ((j + 1) % h) * w
    <3>1. CASE j + 1 < h
      <4>1. (j + 1) % h = j + 1
        BY <1>2, <3>1
      <4>2. (j + 1) * w + 0 \in 0 .. w * h - 1
        BY <1>1, <1>2, <3>1, CellBounds DEF Cell
      <4>3. PICK p \in Nat, m \in Nat \ {0} : p = (j + 1) * w /\ m = w * h
        BY <1>2, <1>8
      <4>4. p % m = p
        BY <4>2, <4>3
      <4> QED
        BY <4>1, <4>3, <4>4
    <3>2. CASE j + 1 = h
      <4>1. (j + 1) % h = 0
        BY <1>2, <3>2
      <4>2. PICK m \in Nat \ {0} : m = w * h
        BY <1>8
      <4>3. (j + 1) * w = m
        BY <3>2, <4>2
      <4>4. m % m = 0
        BY <4>2
      <4> QED
        BY <4>1, <4>2, <4>3, <4>4
    <3> QED
      BY <1>2, <3>1, <3>2
  <2> QED
    BY <1>6, <2>1, <2>2, <2>3
<1> QED
  BY <1>9, <1>10

-----------------------------------------------------------------------------
(* What stands after each of the characters of a text.                     *)
Printing(f, text, n) ==
  f = [k \in 0 .. n |-> IF k = 0 THEN Start ELSE printc(f[k - 1], text[k])]

(* Such a function exists, for as many characters as one likes.            *)
LEMMA PrintingExists ==
  ASSUME NEW text, NEW n \in Nat
  PROVE  \E f : Printing(f, text, n)
<1> DEFINE T == {k \in 0 .. n : \E f : Printing(f, text, k)}
<1>1. 0 \in T
  <2>1. Printing([k \in 0 .. 0 |-> Start], text, 0)
    <3> DEFINE f == [k \in 0 .. 0 |-> Start]
    <3>1. \A k \in 0 .. 0 : k = 0
      OBVIOUS
    <3>2. f = [k \in 0 .. 0 |-> IF k = 0 THEN Start ELSE printc(f[k - 1], text[k])]
      BY <3>1
    <3> QED
      BY <3>2 DEF Printing
  <2> QED
    BY <2>1
<1>2. ASSUME NEW k \in 0 .. n, k # n, k \in T PROVE k + 1 \in T
  <2>1. PICK f : Printing(f, text, k)
    BY <1>2
  <2> DEFINE g == [i \in 0 .. k + 1 |-> IF i = k + 1 THEN printc(f[k], text[k + 1]) ELSE f[i]]
             h == [i \in 0 .. k + 1 |-> IF i = 0 THEN Start ELSE printc(g[i - 1], text[i])]
  <2>2. ASSUME NEW i \in 0 .. k + 1 PROVE g[i] = h[i]
    <3>1. CASE i = k + 1
      <4>1. i # 0 /\ i - 1 = k /\ k \in 0 .. k + 1 /\ k # k + 1
        BY <3>1
      <4>2. g[i - 1] = f[k]
        BY <4>1
      <4> QED
        BY <3>1, <4>1, <4>2
    <3>2. CASE i # k + 1
      <4>1. i \in 0 .. k
        BY <3>2
      <4>2. f[i] = IF i = 0 THEN Start ELSE printc(f[i - 1], text[i])
        BY <2>1, <4>1 DEF Printing
      <4>3. i # 0 => i - 1 \in 0 .. k + 1 /\ i - 1 # k + 1
        BY <4>1
      <4>4. i # 0 => g[i - 1] = f[i - 1]
        BY <4>3
      <4> QED
        BY <3>2, <4>2, <4>4
    <3> QED
      BY <3>1, <3>2
  <2>3. g = h
    <3> HIDE DEF Start, printc
    <3> QED
      BY <2>2
  <2>4. Printing(g, text, k + 1)
    BY <2>3 DEF Printing
  <2>5. k + 1 \in 0 .. n
    BY <1>2
  <2> HIDE DEF g, h
  <2> QED
    BY <2>4, <2>5
<1>3. n \in T
  <2>1. \A k \in 0 .. n : k \in T
    <3> HIDE DEF T
    <3> QED
      BY <1>1, <1>2, UpTo
  <2>2. n \in 0 .. n
    OBVIOUS
  <2> QED
    BY <2>1, <2>2
<1> QED
  BY <1>3

(* It is the one by which printed is defined.                              *)
LEMMA PrintedIs ==
  ASSUME NEW text, Len(text) \in Nat
  PROVE  \E f : Printing(f, text, Len(text)) /\ printed(text) = f[Len(text)]
<1> DEFINE f == CHOOSE g : g = [k \in 0 .. Len(text) |->
                                  IF k = 0 THEN Start ELSE printc(g[k - 1], text[k])]
<1>1. Printing(f, text, Len(text))
  BY PrintingExists DEF Printing
<1>2. printed(text) = f[Len(text)]
  BY Zenon DEF printed
<1> QED
  BY <1>1, <1>2

(* Each character, and the cursor after it.                                *)
LEMMA PrintingSteps ==
  ASSUME NEW text, NEW n \in Nat, NEW f, Printing(f, text, n), OnScreen(Start)
  PROVE  /\ f[0] = Start
         /\ \A k \in 0 .. n : OnScreen(f[k])
         /\ \A k \in 1 .. n : /\ f[k] = printc(f[k - 1], text[k])
                              /\ cell_of(f[k]) = Scr!next(cell_of(f[k - 1]), text[k])
<1>1. 0 \in 0 .. n /\ \A k \in 1 .. n : k \in 0 .. n /\ k # 0
  OBVIOUS
<1>2. f[0] = Start
  BY <1>1 DEF Printing
<1>3. \A k \in 1 .. n : f[k] = printc(f[k - 1], text[k])
  BY <1>1 DEF Printing
<1> DEFINE T == {k \in 0 .. n : OnScreen(f[k])}
<1>4. \A k \in 0 .. n : k \in T
  <2>1. 0 \in T
    BY <1>1, <1>2
  <2>2. ASSUME NEW k \in 0 .. n, k # n, k \in T PROVE k + 1 \in T
    <3>1. k + 1 \in 1 .. n /\ k + 1 - 1 = k /\ k + 1 \in 0 .. n
      BY <2>2
    <3>2. f[k + 1] = printc(f[k], text[k + 1])
      BY <1>3, <3>1
    <3> QED
      BY <2>2, <3>1, <3>2, PrintcNext
  <2> HIDE DEF T
  <2> QED
    BY <2>1, <2>2, UpTo
<1>5. \A k \in 0 .. n : OnScreen(f[k])
  BY <1>4
<1>6. ASSUME NEW k \in 1 .. n
      PROVE  cell_of(f[k]) = Scr!next(cell_of(f[k - 1]), text[k])
  <2>1. k - 1 \in 0 .. n
    OBVIOUS
  <2> QED
    BY <1>3, <1>5, <2>1, PrintcNext
<1> QED
  BY <1>2, <1>3, <1>5, <1>6

(* So the text stands where Screen places it.                              *)
LEMMA PlaceIs ==
  ASSUME NEW text, Len(text) \in Nat, NEW f, Printing(f, text, Len(text)), OnScreen(Start)
  PROVE  Scr!place(text) = [k \in 1 .. Len(text) + 1 |-> cell_of(f[k - 1])]
<1>1. PICK n \in Nat : n = Len(text)
  OBVIOUS
<1> DEFINE Placed(p) == p = [k \in 1 .. n + 1 |->
                               IF k = 1 THEN y * NUM_COLUMNS + x
                               ELSE Scr!next(p[k - 1], text[k - 1])]
           at  == CHOOSE p : Placed(p)
           pos == [k \in 1 .. n + 1 |-> cell_of(f[k - 1])]
<1>2. Scr!place(text) = at
  BY <1>1, Zenon DEF Scr!place
<1>3. f[0] = Start /\ \A k \in 1 .. n : cell_of(f[k]) = Scr!next(cell_of(f[k - 1]), text[k])
  BY <1>1, PrintingSteps
<1>4. cell_of(f[0]) = y * NUM_COLUMNS + x
  BY <1>3 DEF cell_of, Start
<1>5. Placed(pos)
  <2> DEFINE r == [k \in 1 .. n + 1 |->
                     IF k = 1 THEN y * NUM_COLUMNS + x
                     ELSE Scr!next(pos[k - 1], text[k - 1])]
  <2>1. ASSUME NEW k \in 1 .. n + 1 PROVE pos[k] = r[k]
    <3>1. CASE k = 1
      BY <1>4, <3>1
    <3>2. CASE k # 1
      <4>1. k - 1 \in 1 .. n /\ k - 1 \in 1 .. n + 1
        BY <3>2
      <4>2. pos[k - 1] = cell_of(f[k - 1 - 1])
        BY <4>1
      <4>3. cell_of(f[k - 1]) = Scr!next(cell_of(f[k - 1 - 1]), text[k - 1])
        BY <1>3, <4>1
      <4> QED
        BY <3>2, <4>2, <4>3
    <3> QED
      BY <3>1, <3>2
  <2>2. pos = r
    <3> DEFINE c(k) == cell_of(f[k - 1])
               d(k) == IF k = 1 THEN y * NUM_COLUMNS + x ELSE Scr!next(pos[k - 1], text[k - 1])
    <3>1. \A k \in 1 .. n + 1 : c(k) = d(k)
      BY <2>1
    <3> HIDE DEF c, d
    <3>2. [k \in 1 .. n + 1 |-> c(k)] = [k \in 1 .. n + 1 |-> d(k)]
      BY <3>1
    <3> QED
      BY <3>2 DEF c, d
  <2> QED
    BY <2>2
<1>6. Placed(at)
  BY <1>5
<1> HIDE DEF at, pos
<1>7. at = pos
  <2> DEFINE T == {k \in 0 .. n : at[k + 1] = pos[k + 1]}
             first == y * NUM_COLUMNS + x
  <2> HIDE DEF first
  <2>1. \A p : Placed(p) =>
          /\ p = [k \in 1 .. n + 1 |-> p[k]]
          /\ p[1] = first
          /\ \A k \in 0 .. n : k # n => p[k + 2] = Scr!next(p[k + 1], text[k + 1])
    <3> SUFFICES ASSUME NEW p, Placed(p)
                 PROVE  /\ p = [k \in 1 .. n + 1 |-> p[k]]
                        /\ p[1] = first
                        /\ \A k \in 0 .. n : k # n => p[k + 2] = Scr!next(p[k + 1], text[k + 1])
      OBVIOUS
    <3>1. 1 \in 1 .. n + 1
      OBVIOUS
    <3>2. p = [k \in 1 .. n + 1 |-> p[k]]
      OBVIOUS
    <3>3. p[1] = first
      BY <3>1 DEF first
    <3>4. ASSUME NEW k \in 0 .. n, k # n PROVE p[k + 2] = Scr!next(p[k + 1], text[k + 1])
      <4>1. k + 2 \in 1 .. n + 1 /\ k + 2 # 1 /\ k + 2 - 1 = k + 1
        BY <3>4
      <4> QED
        BY <4>1
    <3> QED
      BY <3>2, <3>3, <3>4
  <2> HIDE DEF Placed
  <2>2. 0 \in T
    BY <1>5, <1>6, <2>1
  <2>3. ASSUME NEW k \in 0 .. n, k # n, k \in T PROVE k + 1 \in T
    <3>1. k + 1 \in 0 .. n /\ k + 1 + 1 = k + 2
      BY <2>3
    <3>2. at[k + 2] = pos[k + 2]
      BY <1>5, <1>6, <2>1, <2>3
    <3> QED
      BY <3>1, <3>2
  <2>4. \A k \in 0 .. n : k \in T
    <3> HIDE DEF T
    <3> QED
      BY <2>2, <2>3, UpTo
  <2>5. ASSUME NEW k \in 1 .. n + 1 PROVE at[k] = pos[k]
    <3>1. k - 1 \in 0 .. n /\ k - 1 + 1 = k
      OBVIOUS
    <3>2. k - 1 \in T
      BY <2>4, <3>1
    <3> QED
      BY <3>1, <3>2
  <2>6. at = [k \in 1 .. n + 1 |-> at[k]] /\ pos = [k \in 1 .. n + 1 |-> pos[k]]
    BY <1>5, <1>6, <2>1
  <2> QED
    BY <2>5, <2>6
<1> QED
  BY <1>1, <1>2, <1>7 DEF pos

-----------------------------------------------------------------------------
(* The characters that were stored in a cell, and the last of them.        *)
On(f, text, n, cell) == {k \in 1 .. n : cell_of(f[k - 1]) = cell /\ text[k] # NL}

Latest(S) == CHOOSE k \in S : \A j \in S : j <= k

Cells(f, text, n) ==
  [cell \in {c \in Cell : On(f, text, n, c) # {}} |-> text[Latest(On(f, text, n, cell))]]

(* The last of a set of numbers is the one that none exceeds.              *)
LEMMA LatestIs ==
  ASSUME NEW S, NEW k \in S, S \subseteq Int, \A j \in S : j <= k
  PROVE  Latest(S) = k
<1>1. Latest(S) \in S /\ \A j \in S : j <= Latest(S)
  BY DEF Latest
<1>2. Latest(S) <= k /\ k <= Latest(S) /\ Latest(S) \in Int /\ k \in Int
  BY <1>1
<1> QED
  BY <1>2

(* A cell shows the last character that was stored in it.                  *)
LEMMA CellsStep ==
  ASSUME NEW text, NEW n \in Nat, NEW f, NEW k \in 1 .. n,
         OnScreen(f[k - 1]), f[k] = printc(f[k - 1], text[k]),
         f[k - 1].cells = Cells(f, text, k - 1)
  PROVE  f[k].cells = Cells(f, text, k)
<1> DEFINE p == cell_of(f[k - 1])
           A(c) == On(f, text, k - 1, c)
           B(c) == On(f, text, k, c)
<1>1. p \in Cell
  BY CellBounds DEF OnScreen, cell_of
<1>2. \A j : j \in 1 .. k <=> j \in 1 .. k - 1 \/ j = k
  OBVIOUS
<1>3. \A c : c # p \/ text[k] = NL => B(c) = A(c)
  BY <1>2 DEF On
<1>4. text[k] # NL => B(p) = A(p) \cup {k}
  BY <1>2 DEF On
<1>5. text[k] # NL => Latest(B(p)) = k
  <2>1. SUFFICES ASSUME text[k] # NL PROVE Latest(B(p)) = k
    OBVIOUS
  <2>2. B(p) \subseteq 1 .. k
    BY DEF On
  <2> HIDE DEF B, A, p
  <2>3. k \in B(p) /\ B(p) \subseteq Int /\ \A j \in B(p) : j <= k
    BY <1>4, <2>1, <2>2
  <2> QED
    BY <2>3, LatestIs
<1>6. f[k].cells = IF text[k] = NL THEN Cells(f, text, k - 1)
                   ELSE put(Cells(f, text, k - 1), p, text[k])
  BY DEF printc, cell_of
<1>7. Cells(f, text, k - 1) = [c \in {c \in Cell : A(c) # {}} |-> text[Latest(A(c))]]
  BY DEF Cells
<1>8. Cells(f, text, k) = [c \in {c \in Cell : B(c) # {}} |-> text[Latest(B(c))]]
  BY DEF Cells
<1> HIDE DEF A, B, p
<1>9. CASE text[k] = NL
  <2>1. \A c : A(c) = B(c)
    BY <1>3, <1>9
  <2>2. {c \in Cell : A(c) # {}} = {c \in Cell : B(c) # {}}
    BY <2>1
  <2> QED
    BY <1>6, <1>7, <1>8, <1>9, <2>1, <2>2
<1>10. CASE text[k] # NL
  <2> DEFINE DA == {c \in Cell : A(c) # {}}
             DB == {c \in Cell : B(c) # {}}
             va(c) == text[Latest(A(c))]
             vb(c) == text[Latest(B(c))]
  <2>1. DB = DA \cup {p}
    BY <1>1, <1>3, <1>4, <1>10
  <2>2. \A c \in DA \cup {p} : vb(c) = IF c = p THEN text[k] ELSE va(c)
    BY <1>3, <1>5, <1>10
  <2> HIDE DEF DA, DB, va, vb
  <2>3. put([c \in DA |-> va(c)], p, text[k])
          = [c \in DA \cup {p} |-> IF c = p THEN text[k] ELSE [e \in DA |-> va(e)][c]]
    BY DEF put
  <2>4. \A c \in DA \cup {p} : vb(c) = IF c = p THEN text[k] ELSE [e \in DA |-> va(e)][c]
    BY <2>2
  <2>5. put([c \in DA |-> va(c)], p, text[k]) = [c \in DB |-> vb(c)]
    BY <2>1, <2>3, <2>4
  <2> QED
    BY <1>6, <1>7, <1>8, <1>10, <2>5 DEF DA, DB, va, vb
<1> QED
  BY <1>9, <1>10

(* So the cells after a text are those of its last characters.             *)
LEMMA CellsAre ==
  ASSUME NEW text, NEW n \in Nat, NEW f, Printing(f, text, n), OnScreen(Start)
  PROVE  f[n].cells = Cells(f, text, n)
<1>1. /\ f[0] = Start
      /\ \A k \in 0 .. n : OnScreen(f[k])
      /\ \A k \in 1 .. n : f[k] = printc(f[k - 1], text[k])
  BY PrintingSteps
<1> DEFINE T == {k \in 0 .. n : f[k].cells = Cells(f, text, k)}
<1>2. 0 \in T
  <2>1. \A c : On(f, text, 0, c) = {}
    BY DEF On
  <2>2. {c \in Cell : On(f, text, 0, c) # {}} = {}
    BY <2>1
  <2>3. Cells(f, text, 0) = <<>>
    BY <2>2 DEF Cells
  <2>4. f[0].cells = <<>>
    BY <1>1 DEF Start
  <2> QED
    BY <2>3, <2>4
<1>3. ASSUME NEW k \in 0 .. n, k # n, k \in T PROVE k + 1 \in T
  <2>1. k + 1 \in 1 .. n /\ k + 1 - 1 = k /\ k + 1 \in 0 .. n
    BY <1>3
  <2>2. f[k].cells = Cells(f, text, k)
    BY <1>3
  <2>3. OnScreen(f[k]) /\ f[k + 1] = printc(f[k], text[k + 1])
    BY <1>1, <2>1
  <2> HIDE DEF T
  <2>4. PICK i \in 1 .. n : i = k + 1 /\ i - 1 = k
    BY <2>1
  <2>5. f[i].cells = Cells(f, text, i)
    <3>1. OnScreen(f[i - 1]) /\ f[i] = printc(f[i - 1], text[i])
          /\ f[i - 1].cells = Cells(f, text, i - 1)
      BY <2>2, <2>3, <2>4
    <3> QED
      BY <3>1, CellsStep
  <2>6. k + 1 \in 0 .. n /\ f[k + 1].cells = Cells(f, text, k + 1)
    BY <2>1, <2>4, <2>5
  <2> QED
    BY <2>6 DEF T
<1>4. n \in T
  <2>1. \A k \in 0 .. n : k \in T
    <3> HIDE DEF T
    <3> QED
      BY <1>2, <1>3, UpTo
  <2>2. n \in 0 .. n
    OBVIOUS
  <2> QED
    BY <2>1, <2>2
<1> QED
  BY <1>4

-----------------------------------------------------------------------------
(* The type invariant: the cursor is on the screen.                        *)
CursorInv == x \in 0 .. NUM_COLUMNS - 1 /\ y \in 0 .. NUM_ROWS - 1

(* A text starts at the cursor.                                            *)
LEMMA StartOnScreen == CursorInv <=> OnScreen(Start)
BY DEF CursorInv, OnScreen, Start

(* What sys_write_console does is a Show of Screen.                        *)
LEMMA ShowStep ==
  ASSUME CursorInv, NEW S, NEW text \in Seq(S), sys_write_console(text), ret' \in {0, Len(text)}
  PROVE  CursorInv' /\ Scr!Show(text)
<1>1. PICK n \in Nat : n = Len(text)
  OBVIOUS
<1>2. OnScreen(Start)
  BY StartOnScreen
<1>3. PICK f : Printing(f, text, n) /\ printed(text) = f[n]
  BY <1>1, PrintedIs
<1>4. x' = f[n].x /\ y' = f[n].y /\ stored' = f[n].cells
  BY <1>3 DEF sys_write_console, Finish
<1>5. OnScreen(f[n])
  <2>1. n \in 0 .. n
    OBVIOUS
  <2> QED
    BY <1>2, <1>3, <2>1, PrintingSteps
<1>6. CursorInv'
  BY <1>4, <1>5 DEF CursorInv, OnScreen
<1> DEFINE at      == Scr!place(text)
           on(c)   == {k \in DOMAIN text : at[k] = c /\ text[k] # NL}
           shown   == [c \in {c \in Cell : on(c) # {}} |-> text[Latest(on(c))]]
<1>7. at = [k \in 1 .. n + 1 |-> cell_of(f[k - 1])]
  BY <1>1, <1>2, <1>3, PlaceIs
<1>8. y' * NUM_COLUMNS + x' = at[n + 1]
  <2>1. n + 1 \in 1 .. n + 1 /\ n + 1 - 1 = n
    OBVIOUS
  <2>2. at[n + 1] = cell_of(f[n])
    BY <1>7, <2>1
  <2> QED
    BY <1>4, <2>2 DEF cell_of
<1>9. stored' = shown
  <2>1. f[n].cells = Cells(f, text, n)
    BY <1>2, <1>3, CellsAre
  <2>2. ASSUME NEW c PROVE on(c) = On(f, text, n, c)
    <3>1. DOMAIN text = 1 .. n
      BY <1>1
    <3>2. \A k \in 1 .. n : at[k] = cell_of(f[k - 1])
      <4>1. \A k \in 1 .. n : k \in 1 .. n + 1
        OBVIOUS
      <4> QED
        BY <1>7, <4>1
    <3> HIDE DEF at
    <3> QED
      BY <3>1, <3>2 DEF On
  <2> HIDE DEF on
  <2>3. {c \in Cell : on(c) # {}} = {c \in Cell : On(f, text, n, c) # {}}
    BY <2>2
  <2>4. shown = Cells(f, text, n)
    BY <2>2, <2>3 DEF Cells
  <2> QED
    BY <1>4, <2>1, <2>4
<1>10. Scr!Cell = Cell
  BY DEF Scr!Cell, Cell
<1>11. Scr!Show(text) <=>
         /\ y' * NUM_COLUMNS + x' = at[n + 1]
         /\ stored' = shown
         /\ ret' \in {0, n}
  BY <1>1, <1>10 DEF Scr!Show, Latest
<1> QED
  BY <1>1, <1>6, <1>8, <1>9, <1>11

-----------------------------------------------------------------------------
(* However it goes by pieces, what sys_write copies is a beginning of the  *)
(* buffer, and all that was asked when that is less than two pieces.       *)
LEMMA Pieces ==
  ASSUME NEW size \in Nat
  PROVE  LET i == CHUNK * ((size \div CHUNK + CHUNK - 1) \div CHUNK)
         IN  /\ i \in Nat /\ size % CHUNK \in Nat /\ i + (size % CHUNK) \in 0 .. size
             /\ size < 2 * CHUNK => i + (size % CHUNK) = size
<1>1. PICK d \in Nat \ {0} : d = CHUNK
  BY ConsoleAssumption
<1>2. PICK q \in Nat, r \in 0 .. d - 1 : q = size \div d /\ r = size % d /\ size = d * q + r
  BY Division
<1>3. PICK k \in Nat, e \in 0 .. d - 1 : k = (q + d - 1) \div d /\ q + d - 1 = d * k + e
  <2>1. PICK m \in Nat : m = q + d - 1
    OBVIOUS
  <2> QED
    BY <2>1, Division
<1>4. k <= q
  <2>1. q <= d * q
    <3>1. PICK c \in Nat : d = c + 1
      OBVIOUS
    <3>2. (c + 1) * q = c * q + q /\ c * q \in Nat
      BY <3>1
    <3> QED
      BY <3>1, <3>2
  <2>2. d * k < d * (q + 1)
    BY <1>3, <2>1
  <2> QED
    BY <2>2, Products
<1>5. d * k \in Nat /\ d * k <= d * q
  BY <1>4
<1>6. size < 2 * d => k = q
  <2>1. SUFFICES ASSUME size < 2 * d PROVE k = q
    OBVIOUS
  <2>2. d * q < d * (1 + 1)
    BY <1>2, <2>1
  <2>3. q <= 1
    BY <2>2, Products
  <2>4. CASE q = 0
    BY <1>4, <2>4
  <2>5. CASE q = 1
    <3>1. k # 0
      BY <1>3, <2>5
    <3> QED
      BY <1>4, <2>5, <3>1
  <2> QED
    BY <2>3, <2>4, <2>5
<1>7. d * k + r \in 0 .. size /\ (k = q => d * k + r = size)
  BY <1>2, <1>5
<1> QED
  BY <1>1, <1>2, <1>3, <1>5, <1>6, <1>7

(* The piece and the rest, one after the other, have no gap between them.  *)
LEMMA CopiedIs ==
  ASSUME NEW S, NEW b \in Seq(S), NEW size \in Nat, size <= Len(b)
  PROVE  \E n \in 0 .. size : /\ copied(b, size) = SubSeq(b, 1, n)
                              /\ size < 2 * CHUNK => n = size
<1> DEFINE j == CHUNK * ((size \div CHUNK + CHUNK - 1) \div CHUNK)
<1>1. PICK i \in Nat, r \in Nat : i = j /\ r = size % CHUNK
  BY Pieces
<1>2. i + r \in 0 .. size /\ (size < 2 * CHUNK => i + r = size)
  BY <1>1, Pieces
<1>3. copied(b, size) = SubSeq(b, 1, i) \o SubSeq(b, i + 1, i + r)
  BY <1>1 DEF copied
<1>4. 1 \in 1 .. Len(b) + 1 /\ i \in 1 - 1 .. Len(b) /\ i + r \in i .. Len(b)
  BY <1>2
<1>5. SubSeq(b, 1, i) \o SubSeq(b, i + 1, i + r) = SubSeq(b, 1, i + r)
  BY <1>4, ConcatAdjacentSubSeq
<1> QED
  BY <1>2, <1>3, <1>5

(* The beginning of a buffer is that of the string in it.                  *)
LEMMA StringBeginning ==
  ASSUME NEW s \in Seq(Int), NEW n \in 0 .. Len(s)
  PROVE  /\ SubSeq(Append(s, 0), 1, n) = SubSeq(s, 1, n)
         /\ n = Len(s) => SubSeq(s, 1, n) = s
         /\ SubSeq(s, 1, n) \in Seq(Int) /\ Len(SubSeq(s, 1, n)) = n
<1>1. Append(s, 0) \in Seq(Int) /\ Len(Append(s, 0)) = Len(s) + 1
      /\ \A k \in 1 .. Len(s) : Append(s, 0)[k] = s[k]
  OBVIOUS
<1>2. SubSeq(Append(s, 0), 1, n) = [k \in 1 .. n |-> Append(s, 0)[k]]
  BY <1>1
<1>3. SubSeq(s, 1, n) = [k \in 1 .. n |-> s[k]]
  OBVIOUS
<1>4. \A k \in 1 .. n : Append(s, 0)[k] = s[k]
  BY <1>1
<1>5. [k \in 1 .. n |-> Append(s, 0)[k]] = [k \in 1 .. n |-> s[k]]
  BY <1>4
<1>6. n = Len(s) => [k \in 1 .. n |-> s[k]] = s
  OBVIOUS
<1>7. SubSeq(s, 1, n) \in Seq(Int) /\ Len(SubSeq(s, 1, n)) = n
  OBVIOUS
<1> QED
  BY <1>2, <1>3, <1>5, <1>6, <1>7

(* A write shows a beginning of its buffer, or is refused.                 *)
LEMMA WriteStep ==
  ASSUME CursorInv, NEW b \in Seq(Int), NEW size \in Int, b = NULL \/ size <= Len(b),
         NEW fd, sys_write(fd, b, size)
  PROVE  /\ CursorInv'
         /\ \/ Scr!Refuse /\ (b = NULL \/ size < 0)
            \/ /\ size \in Nat /\ size <= Len(b)
               /\ \E n \in 0 .. size : /\ Scr!Show(SubSeq(b, 1, n))
                                       /\ size < 2 * CHUNK => n = size
<1>1. CASE b = NULL /\ ret' = -EFAULT /\ Finish(Start)
  <2>1. x' = x /\ y' = y /\ stored' = <<>> /\ ret' < 0
    BY <1>1 DEF Finish, Start, EFAULT
  <2> QED
    BY <1>1, <2>1 DEF CursorInv, Scr!Refuse
<1>2. CASE b # NULL /\ size < 0 /\ ret' = -EDOM /\ Finish(Start)
  <2>1. x' = x /\ y' = y /\ stored' = <<>> /\ ret' < 0
    BY <1>2 DEF Finish, Start, EDOM
  <2> QED
    BY <1>2, <2>1 DEF CursorInv, Scr!Refuse
<1>3. CASE /\ b # NULL /\ size >= 0
           /\ sys_write_console(copied(b, size))
           /\ ret' = IF size % CHUNK = 0 THEN 0 ELSE Len(copied(b, size))
  <2>1. size \in Nat /\ size <= Len(b)
    BY <1>3
  <2>2. PICK n \in 0 .. size : /\ copied(b, size) = SubSeq(b, 1, n)
                               /\ size < 2 * CHUNK => n = size
    BY <2>1, CopiedIs
  <2>3. PICK text \in Seq(Int) : text = copied(b, size)
    <3>1. n \in 0 .. Len(b)
      BY <2>1
    <3>2. SubSeq(b, 1, n) \in Seq(Int)
      BY ONLY <3>1, b \in Seq(Int)
    <3> QED
      BY <2>2, <3>2
  <2>4. sys_write_console(text) /\ ret' \in {0, Len(text)}
    BY <1>3, <2>3
  <2>5. CursorInv' /\ Scr!Show(text)
    BY <2>4, ShowStep
  <2> QED
    BY <2>1, <2>2, <2>3, <2>5
<1> QED
  BY <1>1, <1>2, <1>3 DEF sys_write

-----------------------------------------------------------------------------
(* How many digits a number has.                                           *)
IsWidth(w, n) == (w = 1 \/ n >= Power[w]) /\ (w = 10 \/ n < Power[w + 1])

(* The powers of ten, one from the other.                                  *)
LEMMA Powers ==
  /\ Power[1] = 1
  /\ \A w \in 1 .. 10 : Power[w] \in Nat \ {0}
  /\ \A w \in 1 .. 9 : Power[w + 1] = 10 * Power[w]
BY SMT DEF Power

(* A number has one width only.                                            *)
LEMMA WidthOnce ==
  ASSUME NEW n \in Nat, NEW v \in 1 .. 10, NEW w \in 1 .. 10, IsWidth(v, n), IsWidth(w, n)
  PROVE  v = w
BY SMT DEF IsWidth, Power

(* A number has one digit more than its quotient by ten.                   *)
LEMMA WidthNext ==
  ASSUME NEW n \in 1 .. INT_MAX, NEW w \in 1 .. 10,
         n \div 10 # 0 => w # 10 /\ IsWidth(w, n \div 10)
  PROVE  IsWidth(IF n \div 10 = 0 THEN 1 ELSE w + 1, n)
BY SMT DEF IsWidth, Power

(* Ten digits are enough for an int.                                       *)
LEMMA IntMax == INT_MAX \in Nat /\ INT_MAX < 10 * Power[10]
BY SMT DEF INT_MAX, Power

(* The quotient by ten is smaller, and has nine digits at most.            *)
LEMMA WidthBound ==
  ASSUME NEW n \in 1 .. INT_MAX
  PROVE  n \div 10 \in 0 .. INT_MAX /\ n \div 10 < n /\ ~ IsWidth(10, n \div 10)
<1>1. n \in Nat /\ INT_MAX \in Nat /\ 0 < n /\ n <= INT_MAX
  BY IntMax
<1>2. PICK q \in Nat : q = n \div 10 /\ 10 * q <= n
  BY <1>1
<1>3. q < n /\ q <= INT_MAX
  BY <1>1, <1>2
<1>4. q < Power[10]
  BY <1>1, <1>2, IntMax, Powers
<1>5. ~ IsWidth(10, q)
  BY <1>4, Powers DEF IsWidth
<1> QED
  BY <1>1, <1>2, <1>3, <1>5

(* Every number has a width.                                               *)
LEMMA WidthExists ==
  ASSUME NEW n \in Nat
  PROVE  \E w \in 1 .. 10 : IsWidth(w, n)
BY SMT DEF IsWidth, Power

(* The digits of a quotient by ten are those of the number, but the first. *)
LEMMA DigitNext ==
  ASSUME NEW n \in 0 .. INT_MAX, NEW i \in 1 .. 9
  PROVE  (n \div 10) \div Power[i] = n \div Power[i + 1]
<1>1. PICK p \in Nat \ {0} : p = Power[i] /\ Power[i + 1] = 10 * p
  BY Powers
<1>2. PICK q \in Nat, m \in 0 .. 9 : q = n \div 10 /\ n = 10 * q + m
  <2>1. PICK k \in Nat : k = n
    OBVIOUS
  <2>2. k \div 10 \in Nat /\ k % 10 \in 0 .. 9 /\ k = 10 * (k \div 10) + (k % 10)
    OBVIOUS
  <2> QED
    BY <2>1, <2>2
<1>3. PICK v \in Nat, s \in 0 .. p - 1 : v = q \div p /\ q = p * v + s
  BY Division
<1>4. n = (10 * p) * v + (10 * s + m)
  <2>1. 10 * (p * v + s) = (10 * p) * v + 10 * s
    OBVIOUS
  <2> QED
    BY <1>2, <1>3, <2>1
<1>5. 10 * p \in Nat \ {0} /\ 10 * s + m \in 0 .. 10 * p - 1
  OBVIOUS
<1>6. n \div (10 * p) = v
  BY <1>4, <1>5, Quotient
<1> QED
  BY <1>1, <1>2, <1>3, <1>6

-----------------------------------------------------------------------------
(* The digits as itoa finds them, the last one first.                      *)
Width(n) == CHOOSE w \in 1 .. 10 : IsWidth(w, n)

Digits(n) ==
  IF n = 0 THEN <<>> ELSE [i \in 1 .. Width(n) |-> 48 + ((n \div Power[i]) % 10)]

(* It is the one that Width chooses.                                       *)
LEMMA WidthIs ==
  ASSUME NEW n \in Nat
  PROVE  Width(n) \in 1 .. 10 /\ IsWidth(Width(n), n)
BY WidthExists DEF Width

(* The digits are a sequence as long as the number is wide.                *)
LEMMA DigitsSeq ==
  ASSUME NEW n \in 0 .. INT_MAX
  PROVE  /\ Digits(n) \in Seq(Int)
         /\ Len(Digits(n)) = IF n = 0 THEN 0 ELSE Width(n)
<1>1. CASE n = 0
  BY <1>1 DEF Digits
<1>2. CASE n # 0
  <2>1. PICK w \in 1 .. 10 : w = Width(n)
    BY WidthIs
  <2>2. \A i \in 1 .. w : 48 + ((n \div Power[i]) % 10) \in Int
    BY Powers
  <2> DEFINE d(i) == 48 + ((n \div Power[i]) % 10)
  <2> HIDE DEF d
  <2>3. [i \in 1 .. w |-> d(i)] \in Seq(Int) /\ Len([i \in 1 .. w |-> d(i)]) = w
    BY <2>2 DEF d
  <2> QED
    BY <1>2, <2>1, <2>3 DEF Digits, d
<1> QED
  BY <1>1, <1>2

(* One turn of the loop of itoa.                                           *)
LEMMA DigitsNext ==
  ASSUME NEW n \in 1 .. INT_MAX
  PROVE  Digits(n) = <<48 + (n % 10)>> \o Digits(n \div 10)
<1>1. PICK q \in 0 .. INT_MAX : q = n \div 10
  BY WidthBound
<1>2. PICK v \in 1 .. 10, w \in 1 .. 10 :
        v = Width(q) /\ w = Width(n) /\ IsWidth(v, q) /\ IsWidth(w, n)
  BY WidthIs
<1>3. v # 10
  BY <1>1, <1>2, WidthBound
<1>4. w = IF q = 0 THEN 1 ELSE v + 1
  <2>1. IsWidth(IF q = 0 THEN 1 ELSE v + 1, n)
    BY <1>1, <1>2, <1>3, WidthNext
  <2>2. (IF q = 0 THEN 1 ELSE v + 1) \in 1 .. 10
    BY <1>3
  <2> QED
    BY <1>2, <2>1, <2>2, WidthOnce
<1>5. PICK t \in Seq(Int) : t = Digits(q) /\ Len(t) = w - 1
  <2>1. Digits(q) \in Seq(Int) /\ Len(Digits(q)) = IF q = 0 THEN 0 ELSE v
    BY <1>2, DigitsSeq
  <2> QED
    BY <1>4, <2>1
<1>6. \A i \in 1 .. w - 1 : t[i] = 48 + ((q \div Power[i]) % 10)
  <2>1. w - 1 # 0 => q # 0 /\ v = w - 1
    BY <1>4
  <2> QED
    BY <1>2, <1>5, <2>1 DEF Digits
<1>7. \A i \in 1 .. w - 1 : t[i] = 48 + ((n \div Power[i + 1]) % 10)
  <2>1. ASSUME NEW i \in 1 .. w - 1 PROVE q \div Power[i] = n \div Power[i + 1]
    <3>1. i \in 1 .. 9 /\ n \in 0 .. INT_MAX
      OBVIOUS
    <3>2. (n \div 10) \div Power[i] = n \div Power[i + 1]
      BY <3>1, DigitNext
    <3> QED
      BY <1>1, <3>2
  <2> QED
    BY <1>6, <2>1
<1> DEFINE s == <<48 + (n % 10)>> \o t
           d(i) == 48 + ((n \div Power[i]) % 10)
<1>8. s \in Seq(Int) /\ Len(s) = w /\ s[1] = 48 + (n % 10)
      /\ \A i \in 1 .. w : i # 1 => s[i] = t[i - 1]
  <2>1. PICK e \in Int : e = 48 + (n % 10)
    OBVIOUS
  <2>2. <<e>> \o t \in Seq(Int) /\ Len(<<e>> \o t) = w /\ (<<e>> \o t)[1] = e
        /\ \A i \in 1 .. w : i # 1 => (<<e>> \o t)[i] = t[i - 1]
    BY <1>5
  <2> QED
    BY <2>1, <2>2
<1>9. ASSUME NEW i \in 1 .. w PROVE s[i] = d(i)
  <2>1. CASE i = 1
    <3>1. n \div Power[1] = n
      BY Powers
    <3> QED
      BY <1>8, <2>1, <3>1
  <2>2. CASE i # 1
    <3>1. i - 1 \in 1 .. w - 1 /\ i - 1 + 1 = i
      BY <2>2
    <3>2. t[i - 1] = d(i)
      BY <1>7, <3>1
    <3> HIDE DEF s, d
    <3> QED
      BY <1>8, <2>2, <3>2
  <2> QED
    BY <2>1, <2>2
<1> HIDE DEF s, d
<1>10. s = [i \in 1 .. w |-> d(i)]
  BY <1>8, <1>9
<1>11. Digits(n) = [i \in 1 .. w |-> d(i)]
  BY <1>2 DEF Digits, d
<1> QED
  BY <1>1, <1>5, <1>10, <1>11 DEF s

-----------------------------------------------------------------------------
(* itoa, whose loop is a recursive function, is one number by its digits.  *)
LEMMA ItoaIs ==
  ASSUME NEW n \in 1 .. INT_MAX
  PROVE  itoa(n) = Reverse(Digits(n))
<1> DEFINE Loop(f) == f = [k \in 0 .. INT_MAX |->
                             IF k = 0 THEN <<>> ELSE <<48 + (k % 10)>> \o f[k \div 10]]
           digits  == CHOOSE f : Loop(f)
           D       == [k \in 0 .. INT_MAX |-> Digits(k)]
<1>1. itoa(n) = Reverse(digits[n])
  <2>1. n # 0 /\ ~ (n < 0)
    OBVIOUS
  <2> QED
    BY <2>1, Zenon DEF itoa
<1>2. Loop(D)
  <2> DEFINE r(k) == IF k = 0 THEN <<>> ELSE <<48 + (k % 10)>> \o D[k \div 10]
  <2>1. ASSUME NEW k \in 0 .. INT_MAX PROVE Digits(k) = r(k)
    <3>1. CASE k = 0
      BY <3>1 DEF Digits
    <3>2. CASE k # 0
      <4>1. k \in 1 .. INT_MAX
        BY <3>2
      <4>2. k \div 10 \in 0 .. INT_MAX
        BY <4>1, WidthBound
      <4>3. D[k \div 10] = Digits(k \div 10)
        BY <4>2
      <4> QED
        BY <3>2, <4>1, <4>3, DigitsNext
    <3> QED
      BY <3>1, <3>2
  <2>2. D = [k \in 0 .. INT_MAX |-> r(k)]
    <3> HIDE DEF r
    <3> QED
      BY <2>1
  <2> QED
    BY <2>2
<1>3. Loop(digits)
  <2> HIDE DEF Loop, D
  <2> QED
    BY <1>2
<1>4. \A f : Loop(f) => \A k \in 0 .. INT_MAX :
        f[k] = IF k = 0 THEN <<>> ELSE <<48 + (k % 10)>> \o f[k \div 10]
  OBVIOUS
<1> HIDE DEF Loop, digits, D
<1>5. digits[n] = D[n]
  <2> DEFINE T == {k \in 0 .. INT_MAX : digits[k] # D[k]}
  <2>1. SUFFICES ASSUME T # {} PROVE FALSE
    <3>1. n \in 0 .. INT_MAX
      OBVIOUS
    <3> QED
      BY <3>1
  <2>2. PICK k \in T : \A i \in T : k <= i
    <3>1. T \subseteq Nat
      OBVIOUS
    <3> QED
      BY <2>1, <3>1, LeastNumber
  <2>3. k \in 0 .. INT_MAX /\ digits[k] # D[k]
    OBVIOUS
  <2>4. k # 0
    BY <1>2, <1>3, <1>4, <2>3
  <2>5. k \in 1 .. INT_MAX
    BY <2>3, <2>4
  <2>6. k \div 10 \in 0 .. INT_MAX /\ k \div 10 < k
    BY <2>5, WidthBound
  <2>7. k \div 10 \notin T
    BY <2>2, <2>5, <2>6
  <2>8. digits[k \div 10] = D[k \div 10]
    BY <2>6, <2>7
  <2> QED
    BY <1>2, <1>3, <1>4, <2>3, <2>4, <2>8
<1>6. D[n] = Digits(n)
  BY DEF D
<1> QED
  BY <1>1, <1>5, <1>6

(* So a number comes out in decimal.                                       *)
LEMMA ItoaDecimal ==
  ASSUME NEW n \in NUMBERS
  PROVE  /\ itoa(n) \in Seq(Int)
         /\ n \in Nat => itoa(n) = Decimal(n)
         /\ n \notin Nat => itoa(n) = <<>>
<1>1. n \in -INT_MAX - 1 .. INT_MAX /\ INT_MAX \in Nat
  <2>1. NUMBERS \subseteq -INT_MAX - 1 .. INT_MAX
    BY ConsoleAssumption
  <2> QED
    BY <2>1, IntMax
<1>2. CASE n < 0
  <2>1. n # 0 /\ n \notin Nat
    BY <1>1, <1>2
  <2>2. itoa(n) = <<>>
    BY <1>2, <2>1, Zenon DEF itoa
  <2>3. <<>> \in Seq(Int)
    OBVIOUS
  <2> QED
    BY <2>1, <2>2, <2>3
<1>3. CASE n = 0
  <2>1. itoa(n) = <<48>>
    BY <1>3 DEF itoa
  <2>2. PICK w \in 1 .. 10 : w = Width(0) /\ IsWidth(w, 0)
    BY WidthIs
  <2>3. w = 1
    BY <2>2, SMT DEF IsWidth, Power
  <2>4. Decimal(0) = [k \in 1 .. w |-> 48 + ((0 \div Power[w - k + 1]) % 10)]
    BY <2>2 DEF Decimal, Width, IsWidth
  <2>5. \A k \in 1 .. 1 : 48 + ((0 \div Power[1 - k + 1]) % 10) = 48
    BY SMT DEF Power
  <2>6. Decimal(0) = [k \in 1 .. 1 |-> 48]
    BY <2>3, <2>4, <2>5
  <2>7. <<48>> = [k \in 1 .. 1 |-> 48]
    OBVIOUS
  <2>8. itoa(n) = Decimal(n)
    BY <1>3, <2>1, <2>6, <2>7, Zenon
  <2>9. <<48>> \in Seq(Int) /\ n \in Nat
    BY <1>3
  <2> QED
    BY ONLY <2>1, <2>8, <2>9
<1>4. CASE n > 0
  <2>1. n \in 1 .. INT_MAX /\ n \in Nat /\ n # 0
    BY <1>1, <1>4
  <2>2. PICK w \in 1 .. 10 : w = Width(n)
    BY <2>1, WidthIs
  <2>3. Digits(n) \in Seq(Int) /\ Len(Digits(n)) = w
    BY <2>1, <2>2, DigitsSeq
  <2>4. PICK t \in Seq(Int) : t = Digits(n) /\ Len(t) = w
    BY <2>3
  <2>5. Reverse(t) = [k \in 1 .. w |-> t[w - k + 1]]
    BY <2>4 DEF Reverse
  <2>6. \A k \in 1 .. w : t[k] = 48 + ((n \div Power[k]) % 10)
    BY <2>1, <2>2, <2>4 DEF Digits
  <2>7. \A k \in 1 .. w : t[w - k + 1] = 48 + ((n \div Power[w - k + 1]) % 10)
    <3>1. \A k \in 1 .. w : w - k + 1 \in 1 .. w
      OBVIOUS
    <3> QED
      BY <2>6, <3>1
  <2>8. Decimal(n) = [k \in 1 .. w |-> 48 + ((n \div Power[w - k + 1]) % 10)]
    BY <2>2 DEF Decimal, Width, IsWidth
  <2>9. Reverse(t) = Decimal(n)
    BY <2>5, <2>7, <2>8
  <2>10. Reverse(t) \in Seq(Int)
    <3>1. \A k \in 1 .. w : t[w - k + 1] \in Int
      BY <2>4
    <3> QED
      BY <2>5, <3>1
  <2>11. itoa(n) = Reverse(t)
    BY <2>1, <2>4, ItoaIs
  <2> QED
    BY <2>1, <2>9, <2>10, <2>11
<1> QED
  BY <1>1, <1>2, <1>3, <1>4

-----------------------------------------------------------------------------
(* The handlers of the console, one by one.                                *)

(* What may be written of a string.                                        *)
LEMMA StringStep ==
  ASSUME CursorInv, NEW s \in Seq(Int), write_string(s)
  PROVE  /\ CursorInv'
         /\ \E n \in 0 .. Len(s) : /\ Scr!Show(SubSeq(s, 1, n))
                                   /\ Len(s) < 2 * CHUNK => SubSeq(s, 1, n) = s
<1>1. PICK b \in Seq(Int) : b = Append(s, 0) /\ Len(b) = Len(s) + 1 /\ b # NULL
  <2>1. /\ Append(s, 0) \in Seq(Int) /\ Append(s, 0) # <<>>
        /\ Len(Append(s, 0)) = Len(s) + 1
    BY AppendProperties
  <2> QED
    BY <2>1 DEF NULL
<1>2. sys_write(1, b, Len(s))
  BY <1>1 DEF write_string
<1>3. PICK size \in Nat : size = Len(s)
  OBVIOUS
<1>4. /\ CursorInv'
      /\ \E n \in 0 .. size : Scr!Show(SubSeq(b, 1, n)) /\ (size < 2 * CHUNK => n = size)
  <2>1. size \in Int /\ size <= Len(b) /\ ~ (size < 0) /\ sys_write(1, b, size)
    BY <1>1, <1>2, <1>3
  <2> QED
    BY <1>1, <2>1, WriteStep
<1>5. PICK n \in 0 .. size : Scr!Show(SubSeq(b, 1, n)) /\ (size < 2 * CHUNK => n = size)
  BY <1>4
<1>6. /\ SubSeq(b, 1, n) = SubSeq(s, 1, n)
      /\ n = Len(s) => SubSeq(s, 1, n) = s
  BY <1>1, <1>3, StringBeginning
<1>7. Scr!Show(SubSeq(s, 1, n))
  BY <1>5, <1>6
<1>8. Len(s) < 2 * CHUNK => SubSeq(s, 1, n) = s
  BY <1>3, <1>5, <1>6
<1> QED
  BY <1>3, <1>4, <1>7, <1>8

(* What may be shown, part by part.                                        *)
LEMMA ShownParts ==
  /\ (UNION {Beginnings(w[1]) : w \in WRITES}) \subseteq Shown
  /\ {Decimal(n) : n \in NUMBERS \cap Nat} \subseteq Shown
  /\ <<>> \in Shown
  /\ Beginnings(UNKNOWN) \subseteq Shown
  /\ (UNION {Beginnings(m) : m \in Range(etos)}) \subseteq Shown
<1> DEFINE A == UNION {Beginnings(w[1]) : w \in WRITES}
           B == {Decimal(n) : n \in NUMBERS \cap Nat}
           C == {<<>>}
           D == Beginnings(UNKNOWN)
           E == UNION {Beginnings(m) : m \in Range(etos)}
<1>1. Shown = A \cup B \cup C \cup D \cup E
  BY DEF Shown
<1>2. <<>> \in C
  OBVIOUS
<1> HIDE DEF A, B, C, D, E
<1>3. A \subseteq Shown /\ B \subseteq Shown /\ C \subseteq Shown /\ D \subseteq Shown /\ E \subseteq Shown
  BY <1>1
<1>4. <<>> \in Shown
  BY <1>2, <1>3
<1> QED
  BY <1>3, <1>4 DEF A, B, D, E

(* A write of a program.                                                   *)
LEMMA WritesStep ==
  ASSUME CursorInv, NEW w \in WRITES, sys_write(1, w[1], w[2])
  PROVE  CursorInv' /\ Scr!Next
<1>1. PICK b \in Seq(Int), size \in Int :
        b = w[1] /\ size = w[2] /\ (b = NULL \/ size <= Len(b))
  BY ConsoleAssumption
<1>2. sys_write(1, b, size)
  BY <1>1
<1>3. /\ CursorInv'
      /\ \/ Scr!Refuse
         \/ /\ size \in Nat /\ size <= Len(b)
            /\ \E n \in 0 .. size : Scr!Show(SubSeq(b, 1, n))
  BY <1>1, <1>2, WriteStep
<1>4. ASSUME size \in Nat, size <= Len(b), NEW n \in 0 .. size, Scr!Show(SubSeq(b, 1, n))
      PROVE  Scr!Next
  <2>1. n \in 0 .. Len(b)
    BY <1>1, <1>4
  <2>2. SubSeq(b, 1, n) \in Beginnings(w[1])
    BY <1>1, <2>1 DEF Beginnings
  <2>3. SubSeq(b, 1, n) \in Shown
    BY <2>2, ShownParts
  <2> QED
    BY <1>4, <2>3 DEF Scr!Next
<1> QED
  BY <1>3, <1>4 DEF Scr!Next

(* A number, which comes out whole and in decimal.                         *)
LEMMA NumbersStep ==
  ASSUME CursorInv, NEW n \in NUMBERS, write_string(itoa(n))
  PROVE  CursorInv' /\ Scr!Next
<1>1. PICK s \in Seq(Int) : /\ s = itoa(n) /\ Len(s) < 2 * CHUNK
                            /\ n \in Nat => s = Decimal(n)
                            /\ n \notin Nat => s = <<>>
  BY ItoaDecimal, NumbersFit
<1>2. s \in Shown
  <2>1. CASE n \in Nat
    <3>1. s \in {Decimal(m) : m \in NUMBERS \cap Nat}
      BY <1>1, <2>1
    <3> QED
      BY <3>1, ShownParts
  <2>2. CASE n \notin Nat
    <3>1. s = <<>>
      BY <1>1, <2>2
    <3> QED
      BY <3>1, ShownParts
  <2> QED
    BY <2>1, <2>2
<1>3. write_string(s)
  BY <1>1
<1>4. CursorInv' /\ \E k \in 0 .. Len(s) : Scr!Show(SubSeq(s, 1, k)) /\ SubSeq(s, 1, k) = s
  BY <1>1, <1>3, StringStep
<1>5. Scr!Show(s)
  BY <1>4
<1> QED
  BY <1>2, <1>4, <1>5 DEF Scr!Next

(* A message of perror, that for unknown errors included.                  *)
LEMMA PerrorStep ==
  ASSUME CursorInv, NEW errno, perror(errno)
  PROVE  CursorInv' /\ Scr!Next
<1>1. PICK s \in Seq(Int) : /\ s = IF errno \in 1 .. Len(etos) THEN etos[errno] ELSE UNKNOWN
                            /\ s = UNKNOWN \/ s \in Range(etos)
  <2>1. CASE errno \in 1 .. Len(etos)
    <3>1. etos[errno] \in Seq(Int) /\ etos[errno] \in Range(etos)
      BY <2>1, ConsoleAssumption DEF Range
    <3> QED
      BY <2>1, <3>1
  <2>2. CASE errno \notin 1 .. Len(etos)
    BY <2>2, ConsoleAssumption
  <2> QED
    BY <2>1, <2>2
<1>2. write_string(s)
  BY <1>1 DEF perror
<1>3. CursorInv'
  BY <1>2, StringStep
<1>4. PICK k \in 0 .. Len(s) : Scr!Show(SubSeq(s, 1, k))
  BY <1>2, StringStep
<1>5. SubSeq(s, 1, k) \in Beginnings(s)
  BY DEF Beginnings
<1>6. SubSeq(s, 1, k) \in Shown
  <2>1. \/ SubSeq(s, 1, k) \in Beginnings(UNKNOWN)
        \/ SubSeq(s, 1, k) \in UNION {Beginnings(m) : m \in Range(etos)}
    BY <1>1, <1>5
  <2> QED
    BY <2>1, ShownParts
<1> QED
  BY <1>3, <1>4, <1>6 DEF Scr!Next

(* print_screen and the clock reach only cells of the screen.              *)
LEMMA FillStep ==
  ASSUME NEW f \in FRAMES, put_screen(f)
  PROVE  CursorInv' /\ Scr!Next
<1>1. x' = 0 /\ y' = 0 /\ stored' = [i \in Cell |-> f] /\ ret' = 1
  BY DEF put_screen, print_screen, Finish
<1>2. PICK w \in Nat \ {0}, h \in Nat \ {0} : w = NUM_COLUMNS /\ h = NUM_ROWS
  BY ConsoleAssumption
<1>3. CursorInv'
  BY <1>1, <1>2 DEF CursorInv
<1>4. y' * NUM_COLUMNS + x' = 0
  BY <1>1, <1>2
<1>5. Scr!Fill
  BY <1>1, <1>4 DEF Scr!Fill, Scr!Cell, Cell
<1> QED
  BY <1>3, <1>5 DEF Scr!Next

(* The clock's cell is the last one of the first row.                      *)
LEMMA TickStep ==
  ASSUME CursorInv, zeos_show_clock
  PROVE  CursorInv' /\ Scr!Next
<1>1. UNCHANGED <<x, y, ret>> /\ stored' = [cell \in {NUM_COLUMNS - 1} |-> CLOCK]
  BY DEF zeos_show_clock
<1>2. PICK w \in Nat \ {0}, h \in Nat \ {0} : w = NUM_COLUMNS /\ h = NUM_ROWS
  BY ConsoleAssumption
<1>3. NUM_COLUMNS - 1 \in Scr!Cell
  <2>1. 0 * NUM_COLUMNS + (w - 1) \in Cell
    <3>1. w - 1 \in 0 .. w - 1 /\ 0 \in 0 .. h - 1
      OBVIOUS
    <3> QED
      BY <1>2, <3>1, CellBounds
  <2>2. 0 * w + (w - 1) = w - 1
    OBVIOUS
  <2> QED
    BY <1>2, <2>1, <2>2 DEF Scr!Cell, Cell
<1>4. Scr!Tick
  BY <1>1, <1>3 DEF Scr!Tick
<1> QED
  BY <1>1, <1>4 DEF CursorInv, Scr!Next

(* All that may happen to the console between two calls of the program.    *)
LEMMA ConsoleStep ==
  ASSUME CursorInv, ConsoleNext
  PROVE  CursorInv' /\ Scr!Next
BY WritesStep, NumbersStep, PerrorStep, FillStep, TickStep DEF ConsoleNext

(* The cursor that main leaves is on the screen.                           *)
LEMMA ConsoleStarts == ConsoleInit => CursorInv /\ Scr!Init
<1> SUFFICES ASSUME ConsoleInit PROVE CursorInv /\ Scr!Init
  OBVIOUS
<1>1. PICK w \in Nat \ {0}, h \in Nat \ {0} : w = NUM_COLUMNS /\ h = NUM_ROWS
  BY ConsoleAssumption
<1>2. x = (w * 39) \div 80 /\ y = (h * 19) \div 25 /\ stored = <<>> /\ ret = 0
  BY <1>1 DEF ConsoleInit
<1>3. x \in 0 .. w - 1 /\ y \in 0 .. h - 1
  BY <1>2
<1>4. CursorInv
  BY <1>1, <1>3 DEF CursorInv
<1>5. y * NUM_COLUMNS + x \in Scr!Cell
  BY <1>1, <1>3, CellBounds DEF Scr!Cell, Cell
<1> QED
  BY <1>2, <1>4, <1>5 DEF Scr!Init

-----------------------------------------------------------------------------
(* The program writes a key that it has got.                               *)
TerminalInv ==
  /\ CursorInv
  /\ pc \in {"get_key", "write"}
  /\ pc = "write" => a \in 1 .. MAX_KEYS

(* One key is less than a piece, so it is shown.                           *)
LEMMA WriteKeyStep ==
  ASSUME TerminalInv, write_key
  PROVE  CursorInv' /\ Scr!Next
<1>1. CursorInv /\ a \in 1 .. MAX_KEYS /\ sys_write(1, <<a>>, 1)
  BY DEF TerminalInv, write_key
<1>2. PICK k \in Int : k = a
  BY <1>1, KeyboardAssumption
<1>3. <<k>> \in Seq(Int) /\ Len(<<k>>) = 1 /\ <<k>> # NULL /\ SubSeq(<<k>>, 1, 1) = <<k>>
  <2>1. <<k>> \in Seq(Int) /\ Len(<<k>>) = 1 /\ <<k>> # <<>>
    OBVIOUS
  <2>2. SubSeq(<<k>>, 1, 1) = <<k>>
    BY <2>1, SubSeqFull
  <2> QED
    BY <2>1, <2>2 DEF NULL
<1>4. /\ CursorInv'
      /\ \E n \in 0 .. 1 : Scr!Show(SubSeq(<<k>>, 1, n)) /\ (1 < 2 * CHUNK => n = 1)
  <2>1. CursorInv /\ <<k>> \in Seq(Int) /\ 1 \in Int /\ 1 <= Len(<<k>>) /\ sys_write(1, <<k>>, 1)
    BY <1>1, <1>2, <1>3
  <2>2. ~ (1 < 0)
    OBVIOUS
  <2> QED
    BY <1>3, <2>1, <2>2, WriteStep
<1>5. 1 < 2 * CHUNK
  BY ConsoleAssumption
<1>6. Scr!Show(<<k>>)
  BY <1>3, <1>4, <1>5
<1>7. <<k>> \in {<<i>> : i \in 1 .. MAX_KEYS}
  BY <1>1, <1>2
<1> QED
  BY <1>4, <1>6, <1>7 DEF Scr!Next

-----------------------------------------------------------------------------
(* The keyboard and the console together.                                  *)

(* The steps of the whole are steps of the keyboard, or leave it alone.    *)
LEMMA KeyboardSteps == TerminalNext => [Next]_keyboardVars
BY DEF TerminalNext, Program, get_key, write_key, Key, Flush, Others, Next

(* Everything proved of Keyboard holds of it under the program, the clock  *)
(* and the writes of others.                                               *)
THEOREM TerminalKeepsKeyboard == TerminalSpec => Spec
<1>1. [TerminalNext]_terminalVars => [Next]_keyboardVars
  <2>1. UNCHANGED terminalVars => UNCHANGED keyboardVars
    BY DEF terminalVars
  <2> QED
    BY <2>1, KeyboardSteps
<1>2. TerminalInit => Init
  BY DEF TerminalInit
<1> QED
  BY <1>1, <1>2, PTL DEF TerminalSpec, Spec

(* A step shows what Screen allows, or leaves the screen alone; and what   *)
(* the program has got and not yet written is a key.                       *)
LEMMA TerminalStep ==
  ASSUME TerminalInv, KeyboardInv', [TerminalNext]_terminalVars
  PROVE  TerminalInv' /\ [Scr!Next]_(Scr!screenVars)
<1>1. ASSUME UNCHANGED consoleVars PROVE CursorInv' /\ UNCHANGED Scr!screenVars
  BY <1>1 DEF TerminalInv, CursorInv, consoleVars, Scr!screenVars
<1>2. CASE get_key
  <2>1. UNCHANGED consoleVars /\ a' = got' /\ pc' = IF got' # NUL THEN "write" ELSE "get_key"
    BY <1>2 DEF get_key
  <2>2. got' # NUL => got' \in 1 .. MAX_KEYS
    BY KeyboardAssumption DEF KeyboardInv, KeyboardTypeOK, NUL
  <2> QED
    BY <1>1, <2>1, <2>2 DEF TerminalInv
<1>3. CASE write_key
  <2>1. pc' = "get_key"
    BY <1>3 DEF write_key
  <2> QED
    BY <1>3, <2>1, WriteKeyStep DEF TerminalInv
<1>4. CASE Key \/ Flush
  <2>1. UNCHANGED consoleVars /\ UNCHANGED <<pc, a>>
    BY <1>4 DEF Key, Flush
  <2> QED
    BY <1>1, <2>1 DEF TerminalInv
<1>5. CASE Others
  <2>1. ConsoleNext /\ UNCHANGED <<pc, a>>
    BY <1>5 DEF Others
  <2> QED
    BY <2>1, ConsoleStep DEF TerminalInv
<1>6. CASE UNCHANGED terminalVars
  <2>1. UNCHANGED consoleVars /\ UNCHANGED <<pc, a>>
    BY <1>6 DEF terminalVars
  <2> QED
    BY <1>1, <2>1 DEF TerminalInv
<1> QED
  BY <1>2, <1>3, <1>4, <1>5, <1>6 DEF TerminalNext, Program

(* At first the program has nothing to write.                              *)
LEMMA TerminalStarts == TerminalInit => TerminalInv
BY ConsoleStarts DEF TerminalInit, TerminalInv

(* In every reachable state the cursor is on the screen, and what the      *)
(* program writes next is a key.                                           *)
THEOREM TerminalInvariance == TerminalSpec => []TerminalInv
<1>1. TerminalInv /\ KeyboardInv' /\ [TerminalNext]_terminalVars => TerminalInv'
  BY TerminalStep
<1> QED
  BY <1>1, TerminalStarts, TerminalKeepsKeyboard, KeyboardInvariance, PTL DEF TerminalSpec

(* sys_write with its pieces, numbers, messages, screens and the clock, on *)
(* a cursor kept as row and column, are what Screen promises: for every    *)
(* size of the screen and of the pieces, and whatever is written.          *)
THEOREM ScreenRefinement == TerminalSpec => ImplementsScreen
<1>1. TerminalInit => Scr!Init
  BY ConsoleStarts DEF TerminalInit
<1>2. TerminalInv /\ KeyboardInv' /\ [TerminalNext]_terminalVars => [Scr!Next]_(Scr!screenVars)
  BY TerminalStep
<1> QED
  BY <1>1, <1>2, TerminalInvariance, TerminalKeepsKeyboard, KeyboardInvariance, PTL
  DEF TerminalSpec, ImplementsScreen, Scr!Spec
=============================================================================
