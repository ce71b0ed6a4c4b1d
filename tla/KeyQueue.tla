------------------------------ MODULE KeyQueue ------------------------------
(***************************************************************************)
(* What the keyboard of ZeOS promises to its readers: the keys pressed are *)
(* read once, in order, and a read finds none only when there is none.     *)
(* The promise holds until more keys wait than there is room for; from     *)
(* then on, until the next fflush, nothing is promised of the order.       *)
(***************************************************************************)
EXTENDS Naturals, Sequences

CONSTANTS Key, NoKey, Capacity

VARIABLES
  queue,  \* the keys waiting
  lost,   \* a key did not fit since the last fflush
  got     \* the result of the last read

queueVars == <<queue, lost, got>>

Init == queue = <<>> /\ lost = FALSE /\ got = NoKey

Press ==
  \/ /\ ~lost /\ Len(queue) < Capacity
     /\ \E k \in Key : queue' = Append(queue, k)
     /\ UNCHANGED <<lost, got>>
  \/ /\ Len(queue) = Capacity
     /\ queue' = <<>> /\ lost' = TRUE
     /\ UNCHANGED got

Read ==
  \/ /\ ~lost /\ queue # <<>>
     /\ got' = Head(queue) /\ queue' = Tail(queue)
     /\ UNCHANGED lost
  \/ /\ lost \/ queue = <<>>
     /\ got' \in IF lost THEN Key \cup {NoKey} ELSE {NoKey}
     /\ UNCHANGED <<queue, lost>>

Flush == queue' = <<>> /\ lost' = FALSE /\ UNCHANGED got

Next == Press \/ Read \/ Flush

Spec == Init /\ [][Next]_queueVars
=============================================================================
