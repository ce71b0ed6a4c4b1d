----------------------------- MODULE ListsProofs -----------------------------
(***************************************************************************)
(* The lists of pointers are the sequences of Sched, proved for every      *)
(* number of tasks.                                                        *)
(*                                                                         *)
(* That the two directions agree is not inductive: list_first must find an *)
(* element of the list and of no other, and an element that is deleted or  *)
(* inserted must be in the list that its callers take it to be in.  So the *)
(* invariant keeps, beside the pointers, what they thread: a sequence of   *)
(* tasks for each head, no task twice in them, and the running one nowhere.*)
(***************************************************************************)
EXTENDS Lists, FiniteSetTheorems, WellFoundedInduction, TLAPS

(* The nodes of the list of head h with elements s: h is node 0, and again *)
(* the one after the last element.                                         *)
At(s, h, i) == IF i \in 1 .. Len(s) THEN s[i] ELSE h

Ring(l, h, s) ==
  \A i \in 0 .. Len(s) :
    l.next[At(s, h, i)] = At(s, h, i + 1) /\ l.prev[At(s, h, i + 1)] = At(s, h, i)

In(q, t) == \E h \in ListHead : \E i \in 1 .. Len(q[h]) : q[h][i] = t

Once(q) ==
  \A g, h \in ListHead : \A i \in 1 .. Len(q[g]), j \in 1 .. Len(q[h]) :
    q[g][i] = q[h][j] => g = h /\ i = j

Linked(l) == l \in [next : [Node -> Node \cup {NULL}], prev : [Node -> Node \cup {NULL}]]

(* The pointers l thread the sequences q, from the heads H; a head that is *)
(* not in H was deleted, and its list is empty.                            *)
Threaded(l, q, H) ==
  /\ Linked(l)
  /\ q \in [ListHead -> Seq(Task)]
  /\ Once(q)
  /\ \A h \in H : Ring(l, h, q[h])
  /\ \A h \in ListHead \ H : q[h] = <<>> /\ l.next[h] = NULL /\ l.prev[h] = NULL
  /\ \A t \in Task : ~In(q, t) => l.next[t] = NULL /\ l.prev[t] = NULL

Heads == IF current = NoTask THEN ListHead \ {readyqueue} ELSE ListHead

ListsInv ==
  /\ current \in Task \cup {NoTask}
  /\ nice \in [Task -> {High, Low}]
  /\ \E q : Threaded(links, q, Heads) /\ ~In(q, current)

-----------------------------------------------------------------------------
(* Induction over the numbers, in the form the provers can use it.         *)
LEMMA LeastNumber ==
  ASSUME NEW T, T \subseteq Nat, T # {}
  PROVE  \E n \in T : \A m \in T : n <= m
<1> DEFINE less == OpToRel(<, Nat)
<1>1. \A a, b \in Nat : <<a, b>> \in less <=> a < b
  BY DEF OpToRel
<1>2. IsWellFoundedOn(less, Nat)
  BY NatLessThanWellFounded
<1> HIDE DEF less
<1>3. PICK n \in T : \A m \in T : ~ (<<m, n>> \in less)
  BY <1>2, WFMin
<1>4. ASSUME NEW m \in T PROVE n <= m
  <2>1. n \in Nat /\ m \in Nat /\ ~ (<<m, n>> \in less)
    BY <1>3
  <2>2. ~ (m < n)
    BY <1>1, <2>1
  <2> QED
    BY <2>1, <2>2
<1> QED
  BY <1>4

(* A sequence is known by its length and its elements.                     *)
LEMMA SameSequence ==
  ASSUME NEW S, NEW s \in Seq(S), NEW t \in Seq(S), Len(s) = Len(t),
         \A i \in 1 .. Len(s) : s[i] = t[i]
  PROVE  s = t
<1>1. s = [i \in 1 .. Len(s) |-> s[i]]
  OBVIOUS
<1>2. t = [i \in 1 .. Len(t) |-> t[i]]
  OBVIOUS
<1> QED
  BY <1>1, <1>2, Zenon

(* The heads are not tasks, and they are three.                            *)
LEMMA HeadFacts ==
  /\ Task \cap ListHead = {} /\ NULL \notin Node /\ NoTask \notin Task
  /\ freequeue # readyqueue /\ freequeue # priorityqueue /\ readyqueue # priorityqueue
  /\ freequeue \in ListHead /\ readyqueue \in ListHead /\ priorityqueue \in ListHead
  /\ Task \subseteq Node /\ ListHead \subseteq Node
BY ListsAssumption DEF Task, ListHead, Node, NULL, NoTask, freequeue, readyqueue, priorityqueue

-----------------------------------------------------------------------------
(* What At is, where it is used.                                           *)
LEMMA AtFacts ==
  ASSUME NEW s \in Seq(Task), NEW h \in ListHead
  PROVE  /\ Len(s) \in Nat
         /\ At(s, h, 0) = h /\ At(s, h, Len(s) + 1) = h
         /\ \A i \in 1 .. Len(s) : At(s, h, i) = s[i] /\ At(s, h, i) \in Task
         /\ \A i \in 0 .. Len(s) + 1 : At(s, h, i) \in Node
<1>1. Len(s) \in Nat /\ \A i \in 1 .. Len(s) : s[i] \in Task
  OBVIOUS
<1>2. Task \subseteq Node /\ ListHead \subseteq Node
  BY HeadFacts
<1>3. At(s, h, 0) = h /\ At(s, h, Len(s) + 1) = h
  BY <1>1 DEF At
<1>4. \A i \in 1 .. Len(s) : At(s, h, i) = s[i] /\ At(s, h, i) \in Task
  BY <1>1 DEF At
<1>5. ASSUME NEW i \in 0 .. Len(s) + 1 PROVE At(s, h, i) \in Node
  BY <1>1, <1>2 DEF At
<1> QED
  BY <1>1, <1>3, <1>4, <1>5

(* No node is met twice before the head is met again.                      *)
LEMMA NodesDiffer ==
  ASSUME NEW q \in [ListHead -> Seq(Task)], Once(q),
         NEW g \in ListHead, NEW h \in ListHead,
         NEW i \in 0 .. Len(q[g]), NEW j \in 0 .. Len(q[h]),
         At(q[g], g, i) = At(q[h], h, j)
  PROVE  g = h /\ i = j
<1>1. q[g] \in Seq(Task) /\ q[h] \in Seq(Task)
  OBVIOUS
<1>2. /\ Len(q[g]) \in Nat /\ Len(q[h]) \in Nat
      /\ At(q[g], g, 0) = g /\ At(q[h], h, 0) = h
      /\ \A k \in 1 .. Len(q[g]) : At(q[g], g, k) = q[g][k] /\ q[g][k] \in Task
      /\ \A k \in 1 .. Len(q[h]) : At(q[h], h, k) = q[h][k] /\ q[h][k] \in Task
  BY <1>1, AtFacts
<1>3. i = 0 \/ i \in 1 .. Len(q[g])
  BY <1>2
<1>4. j = 0 \/ j \in 1 .. Len(q[h])
  BY <1>2
<1>5. g \notin Task /\ h \notin Task
  BY HeadFacts
<1>6. CASE i = 0 /\ j = 0
  BY <1>2, <1>6
<1>7. CASE i = 0 /\ j \in 1 .. Len(q[h])
  BY <1>2, <1>5, <1>7
<1>8. CASE i \in 1 .. Len(q[g]) /\ j = 0
  BY <1>2, <1>5, <1>8
<1>9. CASE i \in 1 .. Len(q[g]) /\ j \in 1 .. Len(q[h])
  BY <1>2, <1>9 DEF Once
<1> QED
  BY <1>3, <1>4, <1>6, <1>7, <1>8, <1>9

(* The same, the head being counted at the end.                            *)
LEMMA NodesDifferAfter ==
  ASSUME NEW q \in [ListHead -> Seq(Task)], Once(q),
         NEW g \in ListHead, NEW h \in ListHead,
         NEW i \in 1 .. Len(q[g]) + 1, NEW j \in 1 .. Len(q[h]) + 1,
         At(q[g], g, i) = At(q[h], h, j)
  PROVE  g = h /\ i = j
<1>1. q[g] \in Seq(Task) /\ q[h] \in Seq(Task)
  OBVIOUS
<1>2. /\ Len(q[g]) \in Nat /\ Len(q[h]) \in Nat
      /\ At(q[g], g, Len(q[g]) + 1) = g /\ At(q[h], h, Len(q[h]) + 1) = h
      /\ \A k \in 1 .. Len(q[g]) : At(q[g], g, k) = q[g][k] /\ q[g][k] \in Task
      /\ \A k \in 1 .. Len(q[h]) : At(q[h], h, k) = q[h][k] /\ q[h][k] \in Task
  BY <1>1, AtFacts
<1>3. i = Len(q[g]) + 1 \/ i \in 1 .. Len(q[g])
  BY <1>2
<1>4. j = Len(q[h]) + 1 \/ j \in 1 .. Len(q[h])
  BY <1>2
<1>5. g \notin Task /\ h \notin Task
  BY HeadFacts
<1>6. CASE i = Len(q[g]) + 1 /\ j = Len(q[h]) + 1
  BY <1>2, <1>6
<1>7. CASE i = Len(q[g]) + 1 /\ j \in 1 .. Len(q[h])
  BY <1>2, <1>5, <1>7
<1>8. CASE i \in 1 .. Len(q[g]) /\ j = Len(q[h]) + 1
  BY <1>2, <1>5, <1>8
<1>9. CASE i \in 1 .. Len(q[g]) /\ j \in 1 .. Len(q[h])
  BY <1>2, <1>9 DEF Once
<1> QED
  BY <1>3, <1>4, <1>6, <1>7, <1>8, <1>9

(* A task that is in no list is none of their nodes.                       *)
LEMMA OutsideNode ==
  ASSUME NEW q \in [ListHead -> Seq(Task)], NEW t \in Task, ~In(q, t),
         NEW h \in ListHead, NEW i \in 0 .. Len(q[h]) + 1
  PROVE  At(q[h], h, i) # t
<1>1. q[h] \in Seq(Task)
  OBVIOUS
<1>2. Len(q[h]) \in Nat /\ t # h
  BY <1>1, HeadFacts
<1> QED
  BY <1>2 DEF At, In

-----------------------------------------------------------------------------
(* z is s with t after its first k elements.                               *)
Inserted(z, s, k, t) ==
  /\ z \in Seq(Task) /\ Len(z) = Len(s) + 1
  /\ \A i \in 1 .. k : z[i] = s[i]
  /\ z[k + 1] = t
  /\ \A i \in k + 1 .. Len(s) : z[i + 1] = s[i]

(* The nodes after an insertion.                                           *)
LEMMA InsertedNodes ==
  ASSUME NEW s \in Seq(Task), NEW k \in 0 .. Len(s), NEW t \in Task,
         NEW z, Inserted(z, s, k, t), NEW h \in ListHead
  PROVE  /\ \A i \in 0 .. k : At(z, h, i) = At(s, h, i)
         /\ At(z, h, k + 1) = t
         /\ \A i \in k + 1 .. Len(s) + 1 : At(z, h, i + 1) = At(s, h, i)
<1>1. /\ Len(s) \in Nat /\ k \in Nat /\ k <= Len(s) /\ Len(z) = Len(s) + 1
      /\ \A i \in 1 .. k : z[i] = s[i]
      /\ z[k + 1] = t
      /\ \A i \in k + 1 .. Len(s) : z[i + 1] = s[i]
  BY DEF Inserted
<1>2. ASSUME NEW i \in 0 .. k PROVE At(z, h, i) = At(s, h, i)
  BY <1>1 DEF At
<1>3. At(z, h, k + 1) = t
  BY <1>1 DEF At
<1>4. ASSUME NEW i \in k + 1 .. Len(s) + 1 PROVE At(z, h, i + 1) = At(s, h, i)
  BY <1>1 DEF At
<1> QED
  BY <1>2, <1>3, <1>4

(* The pointers that insert writes, and no others.                         *)
LEMMA InsertLinks ==
  ASSUME NEW l, Linked(l), NEW t \in Task, NEW b \in Node, NEW a \in Node, b # t, a # t
  PROVE  LET m == insert(l, t, b, a)
         IN  /\ Linked(m)
             /\ m.next[t] = a /\ m.next[b] = t /\ m.prev[a] = t /\ m.prev[t] = b
             /\ \A n \in Node \ {t, b} : m.next[n] = l.next[n]
             /\ \A n \in Node \ {t, a} : m.prev[n] = l.prev[n]
<1>1. t \in Node /\ Node \subseteq Node \cup {NULL}
  BY HeadFacts
<1>2. l.next \in [Node -> Node \cup {NULL}] /\ l.prev \in [Node -> Node \cup {NULL}]
  BY DEF Linked
<1> QED
  BY <1>1, <1>2 DEF insert, Linked

(* An insertion in the list that holds the two nodes threads the sequence  *)
(* with the new element, and leaves the other lists alone.                 *)
LEMMA InsertThreads ==
  ASSUME NEW l, NEW q, Threaded(l, q, ListHead), NEW t \in Task, ~In(q, t),
         NEW h \in ListHead, NEW k \in 0 .. Len(q[h]),
         NEW z, Inserted(z, q[h], k, t)
  PROVE  LET m == insert(l, t, At(q[h], h, k), At(q[h], h, k + 1))
             r == [q EXCEPT ![h] = z]
         IN  Threaded(m, r, ListHead)
<1> DEFINE b == At(q[h], h, k)
           a == At(q[h], h, k + 1)
           m == insert(l, t, b, a)
           r == [q EXCEPT ![h] = z]
<1>1. /\ Linked(l) /\ q \in [ListHead -> Seq(Task)] /\ Once(q)
      /\ \A g \in ListHead : Ring(l, g, q[g])
      /\ \A u \in Task : ~In(q, u) => l.next[u] = NULL /\ l.prev[u] = NULL
  BY DEF Threaded
<1>2. q[h] \in Seq(Task) /\ Len(q[h]) \in Nat /\ k \in Nat /\ k <= Len(q[h])
  BY <1>1, AtFacts
<1>3. a \in Node /\ b \in Node /\ a # t /\ b # t
  BY <1>1, <1>2, AtFacts, OutsideNode
<1>4. /\ Linked(m)
      /\ m.next[t] = a /\ m.next[b] = t /\ m.prev[a] = t /\ m.prev[t] = b
      /\ \A n \in Node \ {t, b} : m.next[n] = l.next[n]
      /\ \A n \in Node \ {t, a} : m.prev[n] = l.prev[n]
  BY <1>1, <1>3, InsertLinks
<1>5. /\ r \in [ListHead -> Seq(Task)] /\ r[h] = z
      /\ \A g \in ListHead : g # h => r[g] = q[g]
  BY <1>1 DEF Inserted
<1>6. /\ \A i \in 0 .. k : At(z, h, i) = At(q[h], h, i)
      /\ At(z, h, k + 1) = t
      /\ \A i \in k + 1 .. Len(q[h]) + 1 : At(z, h, i + 1) = At(q[h], h, i)
      /\ Len(z) = Len(q[h]) + 1
  <2>1. Len(z) = Len(q[h]) + 1
    BY DEF Inserted
  <2> QED
    BY <1>2, <2>1, InsertedNodes
<1> HIDE DEF m, r
<1>7. ASSUME NEW g \in ListHead, NEW i \in 0 .. Len(q[g]), g # h \/ i # k
      PROVE  /\ m.next[At(q[g], g, i)] = At(q[g], g, i + 1)
             /\ m.prev[At(q[g], g, i + 1)] = At(q[g], g, i)
  <2>1. q[g] \in Seq(Task) /\ Len(q[g]) \in Nat
    BY <1>1, AtFacts
  <2>2. At(q[g], g, i) \in Node \ {t} /\ At(q[g], g, i + 1) \in Node \ {t}
    BY <1>1, <2>1, AtFacts, OutsideNode
  <2>3. At(q[g], g, i) # b
    BY <1>1, <1>7, NodesDiffer
  <2>4. At(q[g], g, i + 1) # a
    <3>1. i + 1 \in 1 .. Len(q[g]) + 1 /\ k + 1 \in 1 .. Len(q[h]) + 1
      BY <1>2, <2>1
    <3>2. g # h \/ i + 1 # k + 1
      BY <1>2, <1>7, <2>1
    <3> QED
      BY <1>1, <3>1, <3>2, NodesDifferAfter
  <2>5. l.next[At(q[g], g, i)] = At(q[g], g, i + 1) /\ l.prev[At(q[g], g, i + 1)] = At(q[g], g, i)
    BY <1>1 DEF Ring
  <2> HIDE DEF a, b
  <2> QED
    BY <1>4, <2>2, <2>3, <2>4, <2>5
<1>8. ASSUME NEW g \in ListHead PROVE Ring(m, g, r[g])
  <2>1. CASE g # h
    BY <1>5, <1>7, <2>1 DEF Ring
  <2>2. CASE g = h
    <3>1. SUFFICES ASSUME NEW i \in 0 .. Len(z)
                   PROVE  m.next[At(z, h, i)] = At(z, h, i + 1) /\ m.prev[At(z, h, i + 1)] = At(z, h, i)
      BY <1>5, <2>2 DEF Ring
    <3>2. CASE i < k
      <4>1. i \in 0 .. k /\ i + 1 \in 0 .. k /\ i \in 0 .. Len(q[h]) /\ i # k
        BY <1>2, <1>6, <3>2
      <4> QED
        BY <1>6, <1>7, <4>1
    <3>3. CASE i = k
      <4>1. k \in 0 .. k
        BY <1>2
      <4> QED
        BY <1>4, <1>6, <3>3, <4>1
    <3>4. CASE i = k + 1
      <4>1. k + 1 \in k + 1 .. Len(q[h]) + 1
        BY <1>2
      <4> QED
        BY <1>4, <1>6, <3>4, <4>1
    <3>5. CASE i > k + 1
      <4> DEFINE j == i - 1
      <4>1. /\ j \in k + 1 .. Len(q[h]) + 1 /\ j + 1 \in k + 1 .. Len(q[h]) + 1
            /\ j \in 0 .. Len(q[h]) /\ j # k /\ j + 1 = i /\ (j + 1) + 1 = i + 1
        BY <1>2, <1>6, <3>5
      <4> HIDE DEF j
      <4>2. At(z, h, i) = At(q[h], h, j) /\ At(z, h, i + 1) = At(q[h], h, j + 1)
        BY <1>6, <4>1
      <4> QED
        BY <1>7, <4>1, <4>2
    <3> QED
      BY <1>2, <1>6, <3>2, <3>3, <3>4, <3>5
  <2> QED
    BY <2>1, <2>2
<1>9. ASSUME NEW g \in ListHead, NEW i \in 1 .. Len(r[g])
      PROVE  \/ g = h /\ i = k + 1 /\ r[g][i] = t
             \/ \E j \in 1 .. Len(q[g]) :
                  /\ r[g][i] = q[g][j] /\ r[g][i] # t
                  /\ i = IF g = h /\ j > k THEN j + 1 ELSE j
  <2>0. q[g] \in Seq(Task) /\ Len(q[g]) \in Nat /\ \A j \in 1 .. Len(q[g]) : q[g][j] # t
    <3>1. q[g] \in Seq(Task) /\ Len(q[g]) \in Nat
      BY <1>1, AtFacts
    <3>2. \A j \in 1 .. Len(q[g]) : q[g][j] # t
      BY DEF In
    <3> QED
      BY <3>1, <3>2
  <2>1. CASE g # h
    BY <1>5, <2>0, <2>1
  <2>2. CASE g = h /\ i <= k
    <3>1. i \in 1 .. k /\ i \in 1 .. Len(q[g]) /\ ~ (i > k)
      BY <1>2, <1>5, <2>2
    <3> QED
      BY <1>5, <2>0, <2>2, <3>1 DEF Inserted
  <2>3. CASE g = h /\ i = k + 1
    BY <1>5, <2>3 DEF Inserted
  <2>4. CASE g = h /\ i > k + 1
    <3>1. /\ i - 1 \in k + 1 .. Len(q[h]) /\ i - 1 \in 1 .. Len(q[g])
          /\ i - 1 > k /\ i = (i - 1) + 1
      BY <1>2, <1>5, <1>6, <2>4
    <3>2. r[g][i] = q[g][i - 1]
      BY <1>5, <2>4, <3>1 DEF Inserted
    <3> QED
      BY <2>0, <2>4, <3>1, <3>2
  <2> QED
    BY <1>2, <1>5, <1>6, <2>1, <2>2, <2>3, <2>4
<1>10. Once(r)
  <2>1. SUFFICES ASSUME NEW g \in ListHead, NEW f \in ListHead,
                        NEW i \in 1 .. Len(r[g]), NEW j \in 1 .. Len(r[f]), r[g][i] = r[f][j]
                 PROVE  g = f /\ i = j
    BY DEF Once
  <2>2. CASE r[g][i] = t
    <3>1. g = h /\ i = k + 1
      BY <1>9, <2>2
    <3>2. f = h /\ j = k + 1
      BY <1>9, <2>1, <2>2
    <3> QED
      BY <3>1, <3>2
  <2>3. CASE r[g][i] # t
    <3>1. PICK c \in 1 .. Len(q[g]) : r[g][i] = q[g][c] /\ i = IF g = h /\ c > k THEN c + 1 ELSE c
      BY <1>9, <2>3
    <3>2. PICK d \in 1 .. Len(q[f]) : r[f][j] = q[f][d] /\ j = IF f = h /\ d > k THEN d + 1 ELSE d
      BY <1>9, <2>1, <2>3
    <3>3. q[g][c] = q[f][d]
      BY <2>1, <3>1, <3>2
    <3>4. g = f /\ c = d
      <4>1. Once(q)
        BY <1>1
      <4>2. \A x, y \in ListHead : \A v \in 1 .. Len(q[x]), w \in 1 .. Len(q[y]) :
              q[x][v] = q[y][w] => x = y /\ v = w
        BY ONLY <4>1 DEF Once
      <4> QED
        BY ONLY <3>3, <4>2, g \in ListHead, f \in ListHead, c \in 1 .. Len(q[g]), d \in 1 .. Len(q[f])
    <3> QED
      BY <3>1, <3>2, <3>4, Zenon
  <2> QED
    BY <2>2, <2>3
<1>11. ASSUME NEW u \in Task, ~In(r, u) PROVE m.next[u] = NULL /\ m.prev[u] = NULL
  <2>1. u # t
    <3>1. k + 1 \in 1 .. Len(r[h]) /\ r[h][k + 1] = t
      BY <1>2, <1>5, <1>6 DEF Inserted
    <3> QED
      BY <1>11, <3>1 DEF In
  <2>2. ~In(q, u)
    <3>1. SUFFICES ASSUME NEW g \in ListHead, NEW i \in 1 .. Len(q[g]), q[g][i] = u PROVE FALSE
      BY DEF In
    <3>2. CASE g # h
      BY <1>5, <1>11, <3>1, <3>2 DEF In
    <3>3. CASE g = h /\ i <= k
      <4>1. i \in 1 .. k /\ i \in 1 .. Len(r[h]) /\ r[h][i] = u
        BY <1>2, <1>5, <1>6, <3>1, <3>3 DEF Inserted
      <4> QED
        BY <1>11, <4>1 DEF In
    <3>4. CASE g = h /\ i > k
      <4>1. i \in k + 1 .. Len(q[h]) /\ i + 1 \in 1 .. Len(r[h])
        BY <1>2, <1>5, <1>6, <3>4
      <4>2. r[h][i + 1] = u
        BY <1>5, <3>1, <3>4, <4>1 DEF Inserted
      <4> QED
        BY <1>11, <4>1, <4>2 DEF In
    <3> QED
      BY <1>2, <3>2, <3>3, <3>4
  <2>3. u \in Node
    BY HeadFacts
  <2>4. u # a /\ u # b
    BY <1>1, <1>2, <2>2, OutsideNode
  <2> HIDE DEF a, b
  <2> QED
    BY <1>1, <1>4, <2>1, <2>2, <2>3, <2>4
<1> QED
  BY <1>4, <1>5, <1>8, <1>10, <1>11 DEF Threaded, m, r

-----------------------------------------------------------------------------
(* list_first and list_empty see the sequence of the list.                 *)
LEMMA FirstFacts ==
  ASSUME NEW l, NEW q, Threaded(l, q, ListHead), NEW h \in ListHead
  PROVE  /\ list_empty(l, h) <=> q[h] = <<>>
         /\ q[h] # <<>> => /\ list_first(l, h) = Head(q[h]) /\ Head(q[h]) \in Task
                           /\ In(q, Head(q[h]))
         /\ q[h] = <<>> => list_first(l, h) = h
         /\ l.next[h] = At(q[h], h, 1) /\ l.prev[h] = At(q[h], h, Len(q[h]))
<1>1. q[h] \in Seq(Task) /\ Ring(l, h, q[h])
  BY DEF Threaded
<1>2. Len(q[h]) \in Nat /\ At(q[h], h, 0) = h /\ At(q[h], h, Len(q[h]) + 1) = h
  BY <1>1, AtFacts
<1>3. l.next[h] = At(q[h], h, 1) /\ l.prev[h] = At(q[h], h, Len(q[h]))
  <2>1. 0 \in 0 .. Len(q[h]) /\ Len(q[h]) \in 0 .. Len(q[h])
    BY <1>2
  <2> QED
    BY <1>1, <1>2, <2>1 DEF Ring
<1>4. CASE q[h] = <<>>
  BY <1>2, <1>3, <1>4 DEF list_empty, list_first
<1>5. CASE q[h] # <<>>
  <2>1. 1 \in 1 .. Len(q[h]) /\ Head(q[h]) = q[h][1] /\ Head(q[h]) \in Task
    BY <1>1, <1>5
  <2>2. At(q[h], h, 1) = Head(q[h]) /\ Head(q[h]) # h
    BY <2>1, HeadFacts DEF At
  <2> QED
    BY <1>3, <1>5, <2>1, <2>2 DEF list_empty, list_first, In
<1> QED
  BY <1>3, <1>4, <1>5

(* list_add puts the new element first.                                    *)
LEMMA AddThreads ==
  ASSUME NEW l, NEW q, Threaded(l, q, ListHead), NEW t \in Task, ~In(q, t),
         NEW h \in ListHead, NEW z, Inserted(z, q[h], 0, t)
  PROVE  Threaded(list_add(l, t, h), [q EXCEPT ![h] = z], ListHead)
<1>1. q[h] \in Seq(Task)
  BY DEF Threaded
<1>2. 0 \in 0 .. Len(q[h]) /\ At(q[h], h, 0) = h /\ 0 + 1 = 1
  BY <1>1, AtFacts
<1>3. l.next[h] = At(q[h], h, 0 + 1)
  BY <1>2, FirstFacts
<1>4. list_add(l, t, h) = insert(l, t, At(q[h], h, 0), At(q[h], h, 0 + 1))
  BY <1>2, <1>3, Zenon DEF list_add
<1> QED
  BY <1>2, <1>4, InsertThreads

(* list_add_tail puts it last.                                             *)
LEMMA AddTailThreads ==
  ASSUME NEW l, NEW q, Threaded(l, q, ListHead), NEW t \in Task, ~In(q, t), NEW h \in ListHead
  PROVE  Threaded(list_add_tail(l, t, h), [q EXCEPT ![h] = Append(q[h], t)], ListHead)
<1> DEFINE k == Len(q[h])
<1>1. q[h] \in Seq(Task)
  BY DEF Threaded
<1>2. k \in 0 .. k /\ At(q[h], h, k + 1) = h
  BY <1>1, AtFacts
<1>3. l.prev[h] = At(q[h], h, k)
  BY <1>2, FirstFacts
<1>4. list_add_tail(l, t, h) = insert(l, t, At(q[h], h, k), At(q[h], h, k + 1))
  BY <1>2, <1>3, Zenon DEF list_add_tail
<1>5. Inserted(Append(q[h], t), q[h], k, t)
  BY <1>1 DEF Inserted
<1> QED
  BY <1>2, <1>4, <1>5, InsertThreads

(* The pointers that list_del writes for an element between two others.    *)
LEMMA DeleteLinks ==
  ASSUME NEW l, Linked(l), NEW t \in Node, NEW b \in Node, NEW a \in Node,
         l.prev[t] = b, l.next[t] = a
  PROVE  LET m == list_del(l, t)
         IN  /\ Linked(m)
             /\ m.next[t] = NULL /\ m.prev[t] = NULL
             /\ b # t => m.next[b] = a
             /\ a # t => m.prev[a] = b
             /\ \A n \in Node \ {t, b} : m.next[n] = l.next[n]
             /\ \A n \in Node \ {t, a} : m.prev[n] = l.prev[n]
<1>1. l.next \in [Node -> Node \cup {NULL}] /\ l.prev \in [Node -> Node \cup {NULL}]
  BY DEF Linked
<1>2. NULL \in Node \cup {NULL} /\ Node \subseteq Node \cup {NULL}
  OBVIOUS
<1> QED
  BY <1>1, <1>2 DEF list_del, Linked

(* The deletion of the first element.                                      *)
LEMMA DeleteThreads ==
  ASSUME NEW l, NEW q, Threaded(l, q, ListHead), NEW h \in ListHead, q[h] # <<>>
  PROVE  LET r == [q EXCEPT ![h] = Tail(q[h])]
         IN  Threaded(list_del(l, Head(q[h])), r, ListHead) /\ ~In(r, Head(q[h]))
<1> DEFINE t == Head(q[h])
           a == At(q[h], h, 2)
           z == Tail(q[h])
           m == list_del(l, t)
           r == [q EXCEPT ![h] = z]
<1>1. /\ Linked(l) /\ q \in [ListHead -> Seq(Task)] /\ Once(q)
      /\ \A g \in ListHead : Ring(l, g, q[g])
      /\ \A u \in Task : ~In(q, u) => l.next[u] = NULL /\ l.prev[u] = NULL
  BY DEF Threaded
<1>2. /\ q[h] \in Seq(Task) /\ Len(q[h]) \in Nat /\ Len(q[h]) >= 1
      /\ t = q[h][1] /\ t \in Task /\ 1 \in 1 .. Len(q[h])
      /\ z \in Seq(Task) /\ Len(z) = Len(q[h]) - 1
      /\ \A i \in 1 .. Len(q[h]) - 1 : z[i] = q[h][i + 1]
  BY <1>1
<1>3. /\ At(q[h], h, 0) = h /\ At(q[h], h, 1) = t /\ a \in Node
      /\ t \in Node /\ h \in Node /\ t # h
  BY <1>2, AtFacts, HeadFacts
<1>4. l.prev[t] = h /\ l.next[t] = a
  <2>1. 0 \in 0 .. Len(q[h]) /\ 1 \in 0 .. Len(q[h]) /\ 0 + 1 = 1 /\ 1 + 1 = 2
    BY <1>2
  <2>2. Ring(l, h, q[h])
    BY <1>1
  <2> QED
    BY <1>3, <2>1, <2>2 DEF Ring
<1>5. ASSUME NEW g \in ListHead, NEW i \in 0 .. Len(q[g]) + 1, At(q[g], g, i) = t
      PROVE  g = h /\ i = 1
  <2>1. q[g] \in Seq(Task)
    BY <1>1
  <2>2. Len(q[g]) \in Nat /\ At(q[g], g, Len(q[g]) + 1) = g /\ g \notin Task
    BY <2>1, AtFacts, HeadFacts
  <2>3. i \in 0 .. Len(q[g])
    BY <1>2, <1>5, <2>2
  <2>4. 1 \in 0 .. Len(q[h]) /\ At(q[g], g, i) = At(q[h], h, 1)
    BY <1>2, <1>3, <1>5
  <2> QED
    BY <1>1, <2>3, <2>4, NodesDiffer
<1>6. a # t
  <2>1. 2 \in 0 .. Len(q[h]) + 1 /\ 2 # 1
    BY <1>2
  <2> QED
    BY <1>5, <2>1
<1>7. /\ Linked(m) /\ m.next[t] = NULL /\ m.prev[t] = NULL
      /\ m.next[h] = a /\ m.prev[a] = h
      /\ \A n \in Node \ {t, h} : m.next[n] = l.next[n]
      /\ \A n \in Node \ {t, a} : m.prev[n] = l.prev[n]
  BY <1>1, <1>3, <1>4, <1>6, DeleteLinks
<1>8. /\ r \in [ListHead -> Seq(Task)] /\ r[h] = z
      /\ \A g \in ListHead : g # h => r[g] = q[g]
  BY <1>1, <1>2
<1> HIDE DEF m, r, z
<1>9. /\ At(z, h, 0) = h
      /\ \A i \in 1 .. Len(q[h]) : At(z, h, i) = At(q[h], h, i + 1)
  <2>1. At(z, h, 0) = h
    BY <1>2, AtFacts
  <2>2. ASSUME NEW i \in 1 .. Len(q[h]) PROVE At(z, h, i) = At(q[h], h, i + 1)
    BY <1>2 DEF At
  <2> QED
    BY <2>1, <2>2
<1>10. ASSUME NEW g \in ListHead, NEW i \in 0 .. Len(q[g]), g # h \/ i \notin {0, 1}
       PROVE  /\ m.next[At(q[g], g, i)] = At(q[g], g, i + 1)
              /\ m.prev[At(q[g], g, i + 1)] = At(q[g], g, i)
  <2>1. q[g] \in Seq(Task) /\ Len(q[g]) \in Nat
    BY <1>1, AtFacts
  <2>2. /\ i \in 0 .. Len(q[g]) + 1 /\ i + 1 \in 0 .. Len(q[g]) + 1
    BY <2>1, <1>10
  <2>3. At(q[g], g, i) \in Node \ {t} /\ At(q[g], g, i + 1) \in Node \ {t}
    <3>1. At(q[g], g, i) \in Node /\ At(q[g], g, i + 1) \in Node
      BY <2>1, <2>2, AtFacts
    <3>2. At(q[g], g, i) # t
      BY <1>5, <1>10, <2>2
    <3>3. At(q[g], g, i + 1) # t
      <4>1. g = h => i + 1 # 1
        BY <1>10, <2>1
      <4> QED
        BY <1>5, <2>2, <4>1
    <3> QED
      BY <3>1, <3>2, <3>3
  <2>4. At(q[g], g, i) # h
    <3>1. 0 \in 0 .. Len(q[h]) /\ (g # h \/ i # 0)
      BY <1>2, <1>10
    <3> QED
      BY <1>1, <1>3, <3>1, NodesDiffer
  <2>5. At(q[g], g, i + 1) # a
    <3>1. i + 1 \in 1 .. Len(q[g]) + 1 /\ 2 \in 1 .. Len(q[h]) + 1 /\ (g # h \/ i + 1 # 2)
      BY <1>2, <1>10, <2>1
    <3> QED
      BY <1>1, <3>1, NodesDifferAfter
  <2>6. l.next[At(q[g], g, i)] = At(q[g], g, i + 1) /\ l.prev[At(q[g], g, i + 1)] = At(q[g], g, i)
    BY <1>1 DEF Ring
  <2> HIDE DEF a, t
  <2> QED
    BY <1>7, <2>3, <2>4, <2>5, <2>6
<1>11. ASSUME NEW g \in ListHead PROVE Ring(m, g, r[g])
  <2>1. CASE g # h
    BY <1>8, <1>10, <2>1 DEF Ring
  <2>2. CASE g = h
    <3>1. SUFFICES ASSUME NEW i \in 0 .. Len(z)
                   PROVE  m.next[At(z, h, i)] = At(z, h, i + 1) /\ m.prev[At(z, h, i + 1)] = At(z, h, i)
      BY <1>8, <2>2 DEF Ring
    <3>2. CASE i = 0
      <4>1. 1 \in 1 .. Len(q[h]) /\ 1 + 1 = 2 /\ 0 + 1 = 1
        BY <1>2
      <4>2. At(z, h, 1) = a
        BY <1>9, <4>1
      <4> QED
        BY <1>7, <1>9, <3>2, <4>1, <4>2
    <3>3. CASE i # 0
      <4>1. /\ i \in 1 .. Len(q[h]) /\ i + 1 \in 1 .. Len(q[h])
            /\ i + 1 \in 0 .. Len(q[h]) /\ i + 1 \notin {0, 1}
        BY <1>2, <3>3
      <4>2. At(z, h, i) = At(q[h], h, i + 1) /\ At(z, h, i + 1) = At(q[h], h, (i + 1) + 1)
        BY <1>9, <4>1
      <4> QED
        BY <1>10, <4>1, <4>2
    <3> QED
      BY <3>2, <3>3
  <2> QED
    BY <2>1, <2>2
<1>12. ASSUME NEW g \in ListHead, NEW i \in 1 .. Len(r[g])
       PROVE  LET j == IF g = h THEN i + 1 ELSE i
              IN  j \in 1 .. Len(q[g]) /\ r[g][i] = q[g][j] /\ (g = h => j # 1)
  <2>1. CASE g # h
    BY <1>8, <2>1
  <2>2. CASE g = h
    <3>1. i \in 1 .. Len(q[h]) - 1 /\ i + 1 \in 1 .. Len(q[h]) /\ i + 1 # 1
      BY <1>2, <1>8, <2>2
    <3> QED
      BY <1>2, <1>8, <2>2, <3>1
  <2> QED
    BY <2>1, <2>2
<1>13. \A x, y \in ListHead : \A v \in 1 .. Len(q[x]), w \in 1 .. Len(q[y]) :
         q[x][v] = q[y][w] => x = y /\ v = w
  <2>1. Once(q)
    BY <1>1
  <2> QED
    BY ONLY <2>1 DEF Once
<1>14. Once(r)
  <2>1. SUFFICES ASSUME NEW g \in ListHead, NEW f \in ListHead,
                        NEW i \in 1 .. Len(r[g]), NEW j \in 1 .. Len(r[f]), r[g][i] = r[f][j]
                 PROVE  g = f /\ i = j
    BY DEF Once
  <2>2. PICK c \in 1 .. Len(q[g]) : r[g][i] = q[g][c] /\ c = IF g = h THEN i + 1 ELSE i
    BY <1>12
  <2>3. PICK d \in 1 .. Len(q[f]) : r[f][j] = q[f][d] /\ d = IF f = h THEN j + 1 ELSE j
    BY <1>12
  <2>4. g = f /\ c = d
    <3>1. q[g][c] = q[f][d]
      BY <2>1, <2>2, <2>3
    <3> QED
      BY ONLY <1>13, <3>1, g \in ListHead, f \in ListHead, c \in 1 .. Len(q[g]), d \in 1 .. Len(q[f])
  <2>5. i \in Nat /\ j \in Nat
    <3>1. r[g] \in Seq(Task) /\ r[f] \in Seq(Task)
      BY <1>8
    <3> QED
      BY <3>1
  <2> QED
    BY <2>2, <2>3, <2>4, <2>5
<1>15. ~In(r, t)
  <2>1. SUFFICES ASSUME NEW g \in ListHead, NEW i \in 1 .. Len(r[g]), r[g][i] = t PROVE FALSE
    BY DEF In
  <2>2. PICK j \in 1 .. Len(q[g]) : r[g][i] = q[g][j] /\ (g = h => j # 1)
    BY <1>12
  <2>3. q[g][j] = q[h][1] /\ 1 \in 1 .. Len(q[h])
    BY <1>2, <2>1, <2>2
  <2>4. g = h /\ j = 1
    BY ONLY <1>13, <2>3, g \in ListHead, h \in ListHead, j \in 1 .. Len(q[g])
  <2> QED
    BY <2>2, <2>4
<1>16. ASSUME NEW u \in Task, ~In(r, u) PROVE m.next[u] = NULL /\ m.prev[u] = NULL
  <2>1. CASE u = t
    BY <1>7, <2>1
  <2>2. CASE u # t
    <3>1. ~In(q, u)
      <4>1. SUFFICES ASSUME NEW g \in ListHead, NEW i \in 1 .. Len(q[g]), q[g][i] = u PROVE FALSE
        BY DEF In
      <4>2. CASE g # h
        BY <1>8, <1>16, <4>1, <4>2 DEF In
      <4>3. CASE g = h
        <5>1. i # 1
          BY <1>2, <2>2, <4>1, <4>3
        <5>2. i - 1 \in 1 .. Len(q[h]) - 1 /\ (i - 1) + 1 = i /\ i - 1 \in 1 .. Len(r[h])
          BY <1>2, <1>8, <4>3, <5>1
        <5>3. r[h][i - 1] = u
          BY <1>2, <1>8, <4>1, <4>3, <5>2
        <5> QED
          BY <1>16, <5>2, <5>3 DEF In
      <4> QED
        BY <4>2, <4>3
    <3>2. u \in Node /\ u # h
      BY HeadFacts
    <3>3. u # a
      <4>1. 2 \in 0 .. Len(q[h]) + 1
        BY <1>2
      <4> QED
        BY <1>1, <3>1, <4>1, OutsideNode
    <3> HIDE DEF a, t
    <3> QED
      BY <1>1, <1>7, <2>2, <3>1, <3>2, <3>3
  <2> QED
    BY <2>1, <2>2
<1> QED
  BY <1>7, <1>8, <1>11, <1>14, <1>15, <1>16 DEF Threaded, m, r, z

(* sched_next_rr deletes the head of an empty list.                        *)
LEMMA DeleteHeadThreads ==
  ASSUME NEW l, NEW q, Threaded(l, q, ListHead), NEW h \in ListHead, q[h] = <<>>
  PROVE  Threaded(list_del(l, h), q, ListHead \ {h})
<1>1. /\ Linked(l) /\ q \in [ListHead -> Seq(Task)] /\ Once(q)
      /\ \A g \in ListHead : Ring(l, g, q[g])
      /\ \A u \in Task : ~In(q, u) => l.next[u] = NULL /\ l.prev[u] = NULL
  BY DEF Threaded
<1> DEFINE m == list_del(l, h)
<1>2. l.next[h] = h /\ l.prev[h] = h /\ h \in Node /\ h \notin Task
  <2>1. At(q[h], h, 1) = h /\ At(q[h], h, Len(q[h])) = h
    BY DEF At
  <2> QED
    BY <2>1, FirstFacts, HeadFacts
<1>3. /\ Linked(m) /\ m.next[h] = NULL /\ m.prev[h] = NULL
      /\ \A n \in Node \ {h} : m.next[n] = l.next[n] /\ m.prev[n] = l.prev[n]
  BY <1>1, <1>2, DeleteLinks
<1> HIDE DEF m
<1>4. ASSUME NEW g \in ListHead \ {h} PROVE Ring(m, g, q[g])
  <2>1. SUFFICES ASSUME NEW i \in 0 .. Len(q[g])
                 PROVE  /\ m.next[At(q[g], g, i)] = At(q[g], g, i + 1)
                        /\ m.prev[At(q[g], g, i + 1)] = At(q[g], g, i)
    BY DEF Ring
  <2>2. q[g] \in Seq(Task) /\ Len(q[g]) \in Nat
    BY <1>1, AtFacts
  <2>3. i \in 0 .. Len(q[g]) + 1 /\ i + 1 \in 0 .. Len(q[g]) + 1
    BY <2>2
  <2>4. ASSUME NEW j \in 0 .. Len(q[g]) + 1 PROVE At(q[g], g, j) \in Node \ {h}
    <3>1. At(q[g], g, j) \in Node
      BY <2>2, AtFacts
    <3>2. At(q[g], g, j) \in Task \cup {g}
      BY <2>2 DEF At
    <3> QED
      BY <1>2, <3>1, <3>2
  <2>5. l.next[At(q[g], g, i)] = At(q[g], g, i + 1) /\ l.prev[At(q[g], g, i + 1)] = At(q[g], g, i)
    BY <1>1 DEF Ring
  <2> QED
    BY <1>3, <2>3, <2>4, <2>5
<1>5. ASSUME NEW u \in Task, ~In(q, u) PROVE m.next[u] = NULL /\ m.prev[u] = NULL
  BY <1>1, <1>2, <1>3, <1>5, HeadFacts
<1> QED
  BY <1>1, <1>3, <1>4, <1>5 DEF Threaded, m

-----------------------------------------------------------------------------
(* What walk meets, whose definition is recursive, and elements.           *)

(* No list has more elements than there are tasks.                         *)
LEMMA ListLength ==
  ASSUME NEW q \in [ListHead -> Seq(Task)], Once(q), NEW h \in ListHead
  PROVE  Len(q[h]) \in 0 .. NR_TASKS
<1> DEFINE s == q[h]
<1>1. s \in Seq(Task) /\ Len(s) \in Nat /\ s \in [1 .. Len(s) -> Task]
  OBVIOUS
<1>2. \A i, j \in 1 .. Len(s) : s[i] = s[j] => i = j
  BY DEF Once
<1>3. s \in Injection(1 .. Len(s), Task)
  BY <1>1, <1>2 DEF Injection, IsInjective
<1>4. IsFiniteSet(Task) /\ Cardinality(Task) = NR_TASKS
  BY FS_Interval, ListsAssumption DEF Task
<1>5. Cardinality(1 .. Len(s)) = Len(s)
  BY <1>1, FS_Interval
<1>6. Cardinality(1 .. Len(s)) <= Cardinality(Task)
  BY <1>3, <1>4, FS_Injection
<1> QED
  BY <1>1, <1>4, <1>5, <1>6

(* What one step of the walk does.                                         *)
Walked(l, h, g) ==
  g = [n \in 0 .. NR_TASKS |->
         IF n = 0 THEN l.next[h]
         ELSE IF g[n - 1] \in Task THEN l.next[g[n - 1]] ELSE g[n - 1]]

(* The elements of the list, and then what follows the last one.           *)
Steps(l, h, s) ==
  [n \in 0 .. NR_TASKS |-> IF n < Len(s) THEN s[n + 1] ELSE l.next[At(s, h, Len(s))]]

(* The pointers lead from h through s to something that is not a task.     *)
Leads(l, h, s) ==
  /\ \A i \in 0 .. Len(s) - 1 : l.next[At(s, h, i)] = s[i + 1]
  /\ l.next[At(s, h, Len(s))] \notin Task

(* The elements of a list are steps of the walk.                           *)
LEMMA StepsWalked ==
  ASSUME NEW l, NEW h \in ListHead, NEW s \in Seq(Task), Leads(l, h, s)
  PROVE  Walked(l, h, Steps(l, h, s))
<1> DEFINE g == Steps(l, h, s)
           e == l.next[At(s, h, Len(s))]
           f == [n \in 0 .. NR_TASKS |->
                   IF n = 0 THEN l.next[h]
                   ELSE IF g[n - 1] \in Task THEN l.next[g[n - 1]] ELSE g[n - 1]]
<1>1. /\ NR_TASKS \in Nat /\ Len(s) \in Nat /\ At(s, h, 0) = h
      /\ \A i \in 1 .. Len(s) : At(s, h, i) = s[i] /\ s[i] \in Task
  BY ListsAssumption, AtFacts
<1>2. (\A i \in 0 .. Len(s) - 1 : l.next[At(s, h, i)] = s[i + 1]) /\ e \notin Task
  BY DEF Leads
<1>3. \A n \in 0 .. NR_TASKS : g[n] = IF n < Len(s) THEN s[n + 1] ELSE e
  BY DEF Steps
<1> HIDE DEF e
<1>4. ASSUME NEW n \in 0 .. NR_TASKS PROVE g[n] = f[n]
  <2>1. CASE n = 0
    <3>1. CASE Len(s) = 0
      <4>1. e = l.next[h]
        BY <1>1, <3>1 DEF e
      <4> QED
        BY <1>1, <1>3, <2>1, <3>1, <4>1
    <3>2. CASE Len(s) > 0
      <4>1. 0 \in 0 .. Len(s) - 1 /\ 0 + 1 = 1
        BY <1>1, <3>2
      <4>2. l.next[h] = s[0 + 1]
        BY <1>1, <1>2, <4>1
      <4> QED
        BY <1>3, <2>1, <3>2, <4>2
    <3> QED
      BY <1>1, <3>1, <3>2
  <2>2. CASE n # 0 /\ n - 1 < Len(s)
    <3>1. n - 1 \in 0 .. NR_TASKS /\ (n - 1) + 1 = n /\ n \in 1 .. Len(s)
      BY <1>1, <2>2
    <3>2. g[n - 1] = s[n] /\ s[n] \in Task /\ At(s, h, n) = s[n]
      BY <1>1, <1>3, <2>2, <3>1
    <3>3. f[n] = l.next[At(s, h, n)]
      BY <2>2, <3>2
    <3>4. CASE n < Len(s)
      <4>1. n \in 0 .. Len(s) - 1
        BY <1>1, <3>1, <3>4
      <4> QED
        BY <1>2, <1>3, <3>3, <3>4, <4>1
    <3>5. CASE n = Len(s)
      BY <1>1, <1>3, <3>3, <3>5 DEF e
    <3> QED
      BY <1>1, <3>1, <3>4, <3>5
  <2>3. CASE n # 0 /\ ~ (n - 1 < Len(s))
    <3>1. n - 1 \in 0 .. NR_TASKS /\ ~ (n < Len(s))
      BY <1>1, <2>3
    <3>2. g[n - 1] = e /\ g[n] = e
      BY <1>3, <2>3, <3>1
    <3> QED
      BY <1>2, <2>3, <3>2
  <2> QED
    BY <2>1, <2>2, <2>3
<1>5. g = [n \in 0 .. NR_TASKS |-> g[n]]
  BY DEF Steps
<1> HIDE DEF g
<1>6. f = [n \in 0 .. NR_TASKS |-> f[n]]
  OBVIOUS
<1>7. g = f
  <2> HIDE DEF f
  <2> QED
    BY <1>4, <1>5, <1>6
<1> QED
  BY <1>7 DEF Walked, g

(* Nothing else is one.                                                    *)
LEMMA WalkedUnique ==
  ASSUME NEW l, NEW h, NEW f, NEW g, Walked(l, h, f), Walked(l, h, g)
  PROVE  \A n \in 0 .. NR_TASKS : f[n] = g[n]
<1> DEFINE T == {n \in 0 .. NR_TASKS : f[n] # g[n]}
<1>1. SUFFICES ASSUME T # {} PROVE FALSE
  OBVIOUS
<1>2. NR_TASKS \in Nat
  BY ListsAssumption
<1>3. T \subseteq Nat
  BY <1>2
<1>4. PICK n \in T : \A m \in T : n <= m
  BY <1>1, <1>3, LeastNumber
<1>5. n \in 0 .. NR_TASKS /\ f[n] # g[n]
  OBVIOUS
<1>6. \A k \in 0 .. NR_TASKS :
        f[k] = IF k = 0 THEN l.next[h]
               ELSE IF f[k - 1] \in Task THEN l.next[f[k - 1]] ELSE f[k - 1]
  BY DEF Walked
<1>7. \A k \in 0 .. NR_TASKS :
        g[k] = IF k = 0 THEN l.next[h]
               ELSE IF g[k - 1] \in Task THEN l.next[g[k - 1]] ELSE g[k - 1]
  BY DEF Walked
<1>8. n # 0
  BY <1>5, <1>6, <1>7
<1>9. n - 1 \in 0 .. NR_TASKS /\ ~ (n <= n - 1)
  BY <1>2, <1>5, <1>8
<1>10. f[n - 1] = g[n - 1]
  BY <1>4, <1>9
<1> HIDE DEF T
<1> QED
  BY <1>5, <1>6, <1>7, <1>8, <1>10

(* So the walk is known.                                                   *)
LEMMA WalkIs ==
  ASSUME NEW l, NEW h \in ListHead, NEW s \in Seq(Task), Leads(l, h, s)
  PROVE  \A n \in 0 .. NR_TASKS :
           walk(l, h)[n] = IF n < Len(s) THEN s[n + 1] ELSE l.next[At(s, h, Len(s))]
<1>1. Walked(l, h, Steps(l, h, s))
  BY StepsWalked
<1>2. walk(l, h) = CHOOSE g : Walked(l, h, g)
  BY DEF walk, Walked
<1>3. Walked(l, h, walk(l, h))
  BY <1>1, <1>2
<1>4. \A n \in 0 .. NR_TASKS : walk(l, h)[n] = Steps(l, h, s)[n]
  BY <1>1, <1>3, WalkedUnique
<1> QED
  BY <1>4 DEF Steps

(* The elements of a list that is threaded are its sequence, and those of  *)
(* a list whose head was deleted are none.                                 *)
LEMMA ElementsAre ==
  ASSUME NEW l, NEW q, NEW H, Threaded(l, q, H), NEW h \in ListHead
  PROVE  elements(l, h) = q[h]
<1> DEFINE s == q[h]
           at == walk(l, h)
           D == {n \in 0 .. NR_TASKS - 1 : at[n] \in Task}
<1>1. /\ s \in Seq(Task) /\ Len(s) \in 0 .. NR_TASKS /\ NR_TASKS \in Nat /\ Len(s) \in Nat
      /\ At(s, h, 0) = h /\ At(s, h, Len(s) + 1) = h
      /\ \A i \in 1 .. Len(s) : At(s, h, i) = s[i] /\ s[i] \in Task
  <2>1. q \in [ListHead -> Seq(Task)] /\ Once(q)
    BY DEF Threaded
  <2> QED
    BY <2>1, ListsAssumption, ListLength, AtFacts
<1>2. Leads(l, h, s)
  <2>1. CASE h \in H
    <3>1. \A i \in 0 .. Len(s) : l.next[At(s, h, i)] = At(s, h, i + 1)
      BY <2>1 DEF Threaded, Ring
    <3>2. ASSUME NEW i \in 0 .. Len(s) - 1 PROVE l.next[At(s, h, i)] = s[i + 1]
      <4>1. i \in 0 .. Len(s) /\ i + 1 \in 1 .. Len(s)
        BY <1>1
      <4> QED
        BY <1>1, <3>1, <4>1
    <3>3. Len(s) \in 0 .. Len(s)
      BY <1>1
    <3>4. l.next[At(s, h, Len(s))] = h /\ h \notin Task
      BY <1>1, <3>1, <3>3, HeadFacts
    <3> QED
      BY <3>2, <3>4 DEF Leads
  <2>2. CASE h \notin H
    <3>1. s = <<>> /\ l.next[h] = NULL
      BY <2>2 DEF Threaded
    <3>2. Len(s) = 0 /\ 0 .. Len(s) - 1 = {} /\ NULL \notin Task
      BY <3>1, HeadFacts
    <3> QED
      BY <1>1, <3>1, <3>2 DEF Leads
  <2> QED
    BY <2>1, <2>2
<1>3. \A n \in 0 .. NR_TASKS : at[n] = IF n < Len(s) THEN s[n + 1] ELSE l.next[At(s, h, Len(s))]
  BY <1>1, <1>2, WalkIs
<1>4. elements(l, h) = [i \in 1 .. Cardinality(D) |-> at[i - 1]]
  BY DEF elements
<1>5. l.next[At(s, h, Len(s))] \notin Task
  BY <1>2 DEF Leads
<1> HIDE DEF at, s
<1>6. D = 0 .. Len(s) - 1
  <2>1. ASSUME NEW n \in 0 .. NR_TASKS - 1 PROVE at[n] \in Task <=> n < Len(s)
    <3>1. n \in 0 .. NR_TASKS /\ (n < Len(s) => n + 1 \in 1 .. Len(s))
      BY <1>1
    <3> QED
      BY <1>1, <1>3, <1>5, <3>1
  <2> QED
    BY <1>1, <2>1
<1>7. Cardinality(D) = Len(s)
  <2>1. PICK k \in Int : k = Len(s) - 1
    BY <1>1
  <2>2. Cardinality(0 .. k) = IF 0 > k THEN 0 ELSE k - 0 + 1
    BY FS_Interval
  <2>3. Cardinality(0 .. k) = Len(s)
    BY <1>1, <2>1, <2>2
  <2> QED
    BY <1>6, <2>1, <2>3
<1>8. ASSUME NEW i \in 1 .. Len(s) PROVE at[i - 1] = s[i]
  <2>1. i - 1 \in 0 .. NR_TASKS /\ i - 1 < Len(s) /\ (i - 1) + 1 = i
    BY <1>1
  <2> QED
    BY <1>3, <2>1
<1>9. elements(l, h) = [i \in 1 .. Len(s) |-> s[i]]
  BY <1>4, <1>7, <1>8
<1>10. s = [i \in 1 .. Len(s) |-> s[i]]
  BY <1>1
<1> QED
  BY <1>9, <1>10 DEF s

-----------------------------------------------------------------------------
(* What init_sched makes, whose definition is recursive too.               *)

(* The pointers when n tasks have been pushed: n - 1 is the first one.     *)
Pushed(n) ==
  [next |-> [x \in Node |->
     IF x = freequeue THEN IF n = 0 THEN freequeue ELSE n - 1
     ELSE IF x \in ListHead THEN x
     ELSE IF x >= n THEN NULL
     ELSE IF x = 0 THEN freequeue ELSE x - 1],
   prev |-> [x \in Node |->
     IF x = freequeue THEN IF n = 0 THEN freequeue ELSE 0
     ELSE IF x \in ListHead THEN x
     ELSE IF x >= n THEN NULL
     ELSE IF x = n - 1 THEN freequeue ELSE x + 1]]

EmptyLists ==
  LET none == [next |-> [n \in Node |-> NULL], prev |-> [n \in Node |-> NULL]]
  IN  INIT_LIST_HEAD(INIT_LIST_HEAD(INIT_LIST_HEAD(none, freequeue), readyqueue), priorityqueue)

(* What one turn of the loop of init_sched does.                           *)
Loop(g) ==
  g = [n \in 0 .. NR_TASKS |->
         IF n = 0 THEN EmptyLists ELSE list_add(g[n - 1], n - 1, freequeue)]

(* Nothing is pushed yet.                                                   *)
LEMMA PushedNone == EmptyLists = Pushed(0)
<1>1. /\ freequeue = NR_TASKS /\ readyqueue = NR_TASKS + 1 /\ priorityqueue = NR_TASKS + 2
      /\ NR_TASKS \in Nat /\ ListHead = {freequeue, readyqueue, priorityqueue}
      /\ Node = 0 .. NR_TASKS + 2
  BY ListsAssumption DEF freequeue, readyqueue, priorityqueue, ListHead, Node, Task
<1>2. \A x \in Node : x >= 0
  BY <1>1
<1> QED
  BY <1>1, <1>2 DEF EmptyLists, Pushed, INIT_LIST_HEAD

(* The pointers of Pushed, one by one.                                      *)
LEMMA PushedFacts ==
  ASSUME NEW n \in 0 .. NR_TASKS
  PROVE  LET l == Pushed(n)
         IN  /\ l = [next |-> l.next, prev |-> l.prev]
             /\ l.next = [x \in Node |-> l.next[x]] /\ l.prev = [x \in Node |-> l.prev[x]]
             /\ \A x \in Node :
                  /\ l.next[x] = IF x = freequeue THEN IF n = 0 THEN freequeue ELSE n - 1
                                 ELSE IF x \in ListHead THEN x
                                 ELSE IF x >= n THEN NULL
                                 ELSE IF x = 0 THEN freequeue ELSE x - 1
                  /\ l.prev[x] = IF x = freequeue THEN IF n = 0 THEN freequeue ELSE 0
                                 ELSE IF x \in ListHead THEN x
                                 ELSE IF x >= n THEN NULL
                                 ELSE IF x = n - 1 THEN freequeue ELSE x + 1
BY DEF Pushed

(* One turn pushes one more.                                                *)
LEMMA PushedNext ==
  ASSUME NEW n \in 1 .. NR_TASKS
  PROVE  list_add(Pushed(n - 1), n - 1, freequeue) = Pushed(n)
<1> DEFINE l == Pushed(n - 1)
           a == l.next[freequeue]
           m == list_add(l, n - 1, freequeue)
<1>1. /\ freequeue = NR_TASKS /\ readyqueue = NR_TASKS + 1 /\ priorityqueue = NR_TASKS + 2
      /\ NR_TASKS \in Nat /\ ListHead = {freequeue, readyqueue, priorityqueue}
      /\ Node = 0 .. NR_TASKS + 2 /\ n - 1 \in Node /\ freequeue \in Node
  BY ListsAssumption DEF freequeue, readyqueue, priorityqueue, ListHead, Node, Task
<1>2. a = IF n = 1 THEN freequeue ELSE n - 2
  BY <1>1 DEF Pushed
<1>3. m = [next |-> [l.next EXCEPT ![n - 1] = a, ![freequeue] = n - 1],
           prev |-> [l.prev EXCEPT ![a] = n - 1, ![n - 1] = freequeue]]
  BY DEF list_add, insert
<1> DEFINE k == Pushed(n)
           f == [l.next EXCEPT ![n - 1] = a, ![freequeue] = n - 1]
           g == [l.prev EXCEPT ![a] = n - 1, ![n - 1] = freequeue]
<1>4. n \in 0 .. NR_TASKS /\ n - 1 \in 0 .. NR_TASKS /\ n \in Int
  BY <1>1
<1>5. /\ l.next = [x \in Node |-> l.next[x]] /\ l.prev = [x \in Node |-> l.prev[x]]
      /\ \A x \in Node :
           /\ l.next[x] = IF x = freequeue THEN IF n - 1 = 0 THEN freequeue ELSE n - 1 - 1
                          ELSE IF x \in ListHead THEN x
                          ELSE IF x >= n - 1 THEN NULL
                          ELSE IF x = 0 THEN freequeue ELSE x - 1
           /\ l.prev[x] = IF x = freequeue THEN IF n - 1 = 0 THEN freequeue ELSE 0
                          ELSE IF x \in ListHead THEN x
                          ELSE IF x >= n - 1 THEN NULL
                          ELSE IF x = n - 1 - 1 THEN freequeue ELSE x + 1
  BY <1>4, PushedFacts
<1>6. /\ k = [next |-> k.next, prev |-> k.prev]
      /\ k.next = [x \in Node |-> k.next[x]] /\ k.prev = [x \in Node |-> k.prev[x]]
      /\ \A x \in Node :
           /\ k.next[x] = IF x = freequeue THEN IF n = 0 THEN freequeue ELSE n - 1
                          ELSE IF x \in ListHead THEN x
                          ELSE IF x >= n THEN NULL
                          ELSE IF x = 0 THEN freequeue ELSE x - 1
           /\ k.prev[x] = IF x = freequeue THEN IF n = 0 THEN freequeue ELSE 0
                          ELSE IF x \in ListHead THEN x
                          ELSE IF x >= n THEN NULL
                          ELSE IF x = n - 1 THEN freequeue ELSE x + 1
  BY <1>4, PushedFacts
<1> HIDE DEF a, l, k
<1>7. /\ f = [x \in Node |-> f[x]] /\ g = [x \in Node |-> g[x]]
      /\ \A x \in Node :
           /\ f[x] = IF x = freequeue THEN n - 1 ELSE IF x = n - 1 THEN a ELSE l.next[x]
           /\ g[x] = IF x = n - 1 THEN freequeue ELSE IF x = a THEN n - 1 ELSE l.prev[x]
  BY <1>1, <1>5
<1> HIDE DEF f, g
<1>8. ASSUME NEW x \in Node PROVE f[x] = k.next[x]
  BY <1>1, <1>2, <1>4, <1>5, <1>6, <1>7
<1>9. ASSUME NEW x \in Node PROVE g[x] = k.prev[x]
  <2>1. CASE x = n - 1
    BY <1>1, <1>4, <1>6, <1>7, <2>1
  <2>2. CASE x # n - 1 /\ x = a
    BY <1>1, <1>2, <1>4, <1>6, <1>7, <2>2
  <2>3. CASE x # n - 1 /\ x # a
    <3>1. g[x] = l.prev[x]
      BY <1>7, <2>3
    <3>2. l.prev[x] = k.prev[x]
      BY <1>1, <1>2, <1>4, <1>5, <1>6, <2>3
    <3> QED
      BY <3>1, <3>2
  <2> QED
    BY <2>1, <2>2, <2>3
<1>10. f = k.next /\ g = k.prev
  <2>1. f = k.next
    BY <1>6, <1>7, <1>8, Zenon
  <2>2. g = k.prev
    BY <1>6, <1>7, <1>9, Zenon
  <2> QED
    BY <2>1, <2>2
<1>11. m = [next |-> f, prev |-> g]
  BY <1>3 DEF f, g
<1> QED
  BY <1>6, <1>10, <1>11, Zenon DEF k, l

(* The loop of init_sched is known.                                         *)
LEMMA InitSched == init_sched = Pushed(NR_TASKS)
<1> DEFINE w == [n \in 0 .. NR_TASKS |-> Pushed(n)]
           f == [n \in 0 .. NR_TASKS |->
                   IF n = 0 THEN EmptyLists ELSE list_add(w[n - 1], n - 1, freequeue)]
           p == CHOOSE g : Loop(g)
<1>1. NR_TASKS \in Nat
  BY ListsAssumption
<1>2. Loop(w)
  <2>1. ASSUME NEW n \in 0 .. NR_TASKS PROVE w[n] = f[n]
    <3>1. CASE n = 0
      BY <3>1, PushedNone
    <3>2. CASE n # 0
      <4>1. n \in 1 .. NR_TASKS /\ n - 1 \in 0 .. NR_TASKS
        BY <1>1, <3>2
      <4>2. f[n] = list_add(Pushed(n - 1), n - 1, freequeue)
        BY <3>2, <4>1
      <4> QED
        BY <4>1, <4>2, PushedNext
    <3> QED
      BY <3>1, <3>2
  <2>2. w = [n \in 0 .. NR_TASKS |-> w[n]] /\ f = [n \in 0 .. NR_TASKS |-> f[n]]
    OBVIOUS
  <2>3. w = f
    <3> HIDE DEF w, f
    <3> QED
      BY <2>1, <2>2
  <2> QED
    BY <2>3 DEF Loop
<1>3. Loop(p)
  BY <1>2
<1>4. init_sched = p[NR_TASKS]
  BY DEF init_sched, Loop, EmptyLists
<1> HIDE DEF p, w, f
<1>5. ASSUME NEW n \in 0 .. NR_TASKS
      PROVE  p[n] = IF n = 0 THEN EmptyLists ELSE list_add(p[n - 1], n - 1, freequeue)
  BY <1>3 DEF Loop
<1> DEFINE T == {n \in 0 .. NR_TASKS : p[n] # Pushed(n)}
<1>6. T = {}
  <2>1. SUFFICES ASSUME T # {} PROVE FALSE
    OBVIOUS
  <2>2. T \subseteq Nat
    BY <1>1
  <2>3. PICK n \in T : \A m \in T : n <= m
    BY <2>1, <2>2, LeastNumber
  <2>4. n \in 0 .. NR_TASKS /\ p[n] # Pushed(n)
    OBVIOUS
  <2>5. n # 0
    BY <1>5, <2>4, PushedNone
  <2>6. n \in 1 .. NR_TASKS /\ n - 1 \in 0 .. NR_TASKS /\ ~ (n <= n - 1)
    BY <1>1, <2>4, <2>5
  <2>7. p[n - 1] = Pushed(n - 1)
    BY <2>3, <2>6
  <2>8. p[n] = list_add(Pushed(n - 1), n - 1, freequeue)
    BY <1>5, <2>4, <2>5, <2>7
  <2> QED
    BY <2>4, <2>6, <2>8, PushedNext
<1> QED
  BY <1>1, <1>4, <1>6

FirstLists ==
  [h \in ListHead |-> IF h = freequeue THEN [i \in 1 .. NR_TASKS |-> NR_TASKS - i] ELSE <<>>]

(* The lists that init_sched leaves.                                        *)
LEMMA FirstThreads == Threaded(init_sched, FirstLists, ListHead)
<1> DEFINE l == Pushed(NR_TASKS)
           q == FirstLists
           s == [i \in 1 .. NR_TASKS |-> NR_TASKS - i]
<1>1. /\ freequeue = NR_TASKS /\ readyqueue = NR_TASKS + 1 /\ priorityqueue = NR_TASKS + 2
      /\ NR_TASKS \in Nat /\ NR_TASKS >= 2 /\ ListHead = {freequeue, readyqueue, priorityqueue}
      /\ Node = 0 .. NR_TASKS + 2 /\ Task = 0 .. NR_TASKS - 1 /\ NULL = -1
  BY ListsAssumption DEF freequeue, readyqueue, priorityqueue, ListHead, Node, Task, NULL
<1>2. s \in Seq(Task) /\ Len(s) = NR_TASKS /\ \A i \in 1 .. NR_TASKS : s[i] = NR_TASKS - i
  BY <1>1
<1>3. /\ q \in [ListHead -> Seq(Task)] /\ q[freequeue] = s
      /\ \A h \in ListHead : h # freequeue => q[h] = <<>>
  <2>1. \A h \in ListHead : q[h] = IF h = freequeue THEN s ELSE <<>>
    BY DEF FirstLists
  <2>2. <<>> \in Seq(Task) /\ freequeue \in ListHead
    BY <1>1
  <2>3. q = [h \in ListHead |-> q[h]]
    BY DEF FirstLists
  <2> HIDE DEF q, s
  <2>4. \A h \in ListHead : q[h] \in Seq(Task)
    BY <1>2, <2>1, <2>2
  <2> QED
    BY <2>1, <2>2, <2>3, <2>4
<1>4. /\ Linked(l)
      /\ \A x \in Node : l.next[x] =
           IF x = freequeue THEN NR_TASKS - 1
           ELSE IF x \in ListHead THEN x ELSE IF x = 0 THEN freequeue ELSE x - 1
      /\ \A x \in Node : l.prev[x] =
           IF x = freequeue THEN 0
           ELSE IF x \in ListHead THEN x ELSE IF x = NR_TASKS - 1 THEN freequeue ELSE x + 1
  BY <1>1 DEF Pushed, Linked
<1> HIDE DEF l, q, s
<1>5. Once(q)
  <2>1. SUFFICES ASSUME NEW g \in ListHead, NEW h \in ListHead,
                        NEW i \in 1 .. Len(q[g]), NEW j \in 1 .. Len(q[h]), q[g][i] = q[h][j]
                 PROVE  g = h /\ i = j
    BY DEF Once
  <2>2. g = freequeue /\ h = freequeue
    BY <1>3
  <2>3. i \in 1 .. NR_TASKS /\ j \in 1 .. NR_TASKS /\ s[i] = s[j]
    BY <1>2, <1>3, <2>1, <2>2
  <2> QED
    BY <1>1, <1>2, <2>2, <2>3
<1>6. Ring(l, freequeue, s)
  <2>1. SUFFICES ASSUME NEW i \in 0 .. NR_TASKS
                 PROVE  /\ l.next[At(s, freequeue, i)] = At(s, freequeue, i + 1)
                        /\ l.prev[At(s, freequeue, i + 1)] = At(s, freequeue, i)
    BY <1>2 DEF Ring
  <2>2. /\ At(s, freequeue, i) = IF i = 0 THEN freequeue ELSE NR_TASKS - i
        /\ At(s, freequeue, i + 1) = IF i = NR_TASKS THEN freequeue ELSE NR_TASKS - (i + 1)
    BY <1>1, <1>2 DEF At
  <2> QED
    BY <1>1, <1>4, <2>2
<1>7. ASSUME NEW h \in ListHead, h # freequeue PROVE Ring(l, h, q[h])
  <2>1. l.next[h] = h /\ l.prev[h] = h /\ q[h] = <<>>
    BY <1>1, <1>3, <1>4, <1>7
  <2> QED
    BY <2>1 DEF Ring, At
<1>8. ASSUME NEW t \in Task PROVE In(q, t)
  <2>1. /\ NR_TASKS - t \in 1 .. NR_TASKS /\ NR_TASKS - (NR_TASKS - t) = t
        /\ freequeue \in ListHead
    BY <1>1
  <2> QED
    BY <1>2, <1>3, <2>1 DEF In
<1>9. Threaded(l, q, ListHead)
  BY <1>3, <1>4, <1>5, <1>6, <1>7, <1>8 DEF Threaded
<1> QED
  BY <1>9, InitSched DEF l, q

-----------------------------------------------------------------------------
(* What the handlers do to the sequences.                                  *)

(* The first process runs, idle's PCB is in no list, and the others are    *)
(* free, in the order of Sched.                                            *)
LEMMA InitThreads ==
  ASSUME Init
  PROVE  /\ current = NR_TASKS - 2 /\ current \in Task
         /\ \E q : /\ Threaded(links, q, ListHead) /\ ~In(q, current)
                   /\ q[freequeue] = [i \in 1 .. NR_TASKS - 2 |-> NR_TASKS - 2 - i]
                   /\ q[readyqueue] = <<>> /\ q[priorityqueue] = <<>>
<1> DEFINE F == freequeue
           l0 == init_sched
           q0 == FirstLists
           l1 == list_del(l0, Head(q0[F]))
           q1 == [q0 EXCEPT ![F] = Tail(q0[F])]
           l2 == list_del(l1, Head(q1[F]))
           q2 == [q1 EXCEPT ![F] = Tail(q1[F])]
           s0 == [i \in 1 .. NR_TASKS |-> NR_TASKS - i]
<1>1. /\ NR_TASKS \in Nat /\ NR_TASKS >= 2 /\ F \in ListHead
      /\ readyqueue \in ListHead /\ priorityqueue \in ListHead
      /\ readyqueue # F /\ priorityqueue # F
  BY ListsAssumption, HeadFacts
<1>2. Threaded(l0, q0, ListHead)
  BY FirstThreads
<1>3. /\ DOMAIN q0 = ListHead /\ q0[F] = s0
      /\ q0[readyqueue] = <<>> /\ q0[priorityqueue] = <<>>
  BY <1>1 DEF FirstLists
<1>4. /\ s0 # <<>> /\ Head(s0) = NR_TASKS - 1
      /\ Tail(s0) = [i \in 1 .. NR_TASKS - 1 |-> NR_TASKS - 1 - i]
  <2> DEFINE s1 == [i \in 1 .. NR_TASKS - 1 |-> NR_TASKS - 1 - i]
  <2>1. s0 \in Seq(Int) /\ Len(s0) = NR_TASKS /\ \A i \in 1 .. NR_TASKS : s0[i] = NR_TASKS - i
    BY <1>1
  <2>2. /\ s1 \in Seq(Int) /\ Len(s1) = NR_TASKS - 1
        /\ \A i \in 1 .. NR_TASKS - 1 : s1[i] = NR_TASKS - 1 - i
    BY <1>1
  <2> HIDE DEF s0, s1
  <2>3. s0 # <<>> /\ Head(s0) = NR_TASKS - 1
    BY <1>1, <2>1
  <2>4. /\ Tail(s0) \in Seq(Int) /\ Len(Tail(s0)) = NR_TASKS - 1
        /\ \A i \in 1 .. NR_TASKS - 1 : Tail(s0)[i] = s0[i + 1]
    BY <1>1, <2>1, <2>3
  <2>5. ASSUME NEW i \in 1 .. NR_TASKS - 1 PROVE Tail(s0)[i] = s1[i]
    <3>1. i + 1 \in 1 .. NR_TASKS /\ NR_TASKS - (i + 1) = NR_TASKS - 1 - i
      BY <1>1
    <3> QED
      BY <2>1, <2>2, <2>4, <3>1
  <2>6. Tail(s0) = s1
    BY <2>2, <2>4, <2>5, SameSequence
  <2> QED
    BY <2>3, <2>6 DEF s1
<1> DEFINE s1 == [i \in 1 .. NR_TASKS - 1 |-> NR_TASKS - 1 - i]
<1>5. /\ s1 # <<>> /\ Head(s1) = NR_TASKS - 2
      /\ Tail(s1) = [i \in 1 .. NR_TASKS - 2 |-> NR_TASKS - 2 - i]
  <2> DEFINE s2 == [i \in 1 .. NR_TASKS - 2 |-> NR_TASKS - 2 - i]
  <2>1. s1 \in Seq(Int) /\ Len(s1) = NR_TASKS - 1 /\ \A i \in 1 .. NR_TASKS - 1 : s1[i] = NR_TASKS - 1 - i
    BY <1>1
  <2>2. /\ s2 \in Seq(Int) /\ Len(s2) = NR_TASKS - 2
        /\ \A i \in 1 .. NR_TASKS - 2 : s2[i] = NR_TASKS - 2 - i
    BY <1>1
  <2> HIDE DEF s1, s2
  <2>3. s1 # <<>> /\ Head(s1) = NR_TASKS - 2
    BY <1>1, <2>1
  <2>4. /\ Tail(s1) \in Seq(Int) /\ Len(Tail(s1)) = NR_TASKS - 2
        /\ \A i \in 1 .. NR_TASKS - 2 : Tail(s1)[i] = s1[i + 1]
    BY <1>1, <2>1, <2>3
  <2>5. ASSUME NEW i \in 1 .. NR_TASKS - 2 PROVE Tail(s1)[i] = s2[i]
    <3>1. i + 1 \in 1 .. NR_TASKS - 1 /\ NR_TASKS - 1 - (i + 1) = NR_TASKS - 2 - i
      BY <1>1
    <3> QED
      BY <2>1, <2>2, <2>4, <3>1
  <2>6. Tail(s1) = s2
    BY <2>2, <2>4, <2>5, SameSequence
  <2> QED
    BY <2>3, <2>6 DEF s2
<1> HIDE DEF s0, s1, l0, q0
<1>6. Threaded(l1, q1, ListHead) /\ list_first(l0, F) = Head(q0[F])
  <2>1. q0[F] # <<>>
    BY <1>3, <1>4
  <2>2. Threaded(l1, q1, ListHead)
    BY <1>1, <1>2, <2>1, DeleteThreads
  <2>3. list_first(l0, F) = Head(q0[F])
    BY <1>1, <1>2, <2>1, FirstFacts
  <2> QED
    BY <2>2, <2>3
<1>7. /\ DOMAIN q1 = ListHead /\ q1[F] = s1
      /\ q1[readyqueue] = <<>> /\ q1[priorityqueue] = <<>>
  BY <1>1, <1>3, <1>4 DEF s1
<1> HIDE DEF l1, q1
<1>8. /\ Threaded(l2, q2, ListHead) /\ ~In(q2, Head(q1[F]))
      /\ list_first(l1, F) = Head(q1[F]) /\ Head(q1[F]) \in Task
  BY <1>1, <1>5, <1>6, <1>7, DeleteThreads, FirstFacts
<1>9. /\ q2[F] = [i \in 1 .. NR_TASKS - 2 |-> NR_TASKS - 2 - i]
      /\ q2[readyqueue] = <<>> /\ q2[priorityqueue] = <<>>
  BY <1>1, <1>5, <1>7
<1>10. links = l2 /\ current = Head(q1[F])
  <2>1. LET noIdle == list_del(l0, list_first(l0, F))
        IN  /\ current = list_first(noIdle, F)
            /\ links = list_del(noIdle, list_first(noIdle, F))
    BY DEF Init, l0
  <2>2. l1 = list_del(l0, list_first(l0, F))
    BY <1>6 DEF l1
  <2>3. current = list_first(l1, F) /\ links = list_del(l1, list_first(l1, F))
    BY <2>1, <2>2
  <2> QED
    BY <1>8, <2>3
<1> HIDE DEF l2, q2
<1> QED
  BY <1>5, <1>7, <1>8, <1>9, <1>10

(* Nothing joins a list by a deletion, and only the element does by an     *)
(* insertion.                                                              *)
LEMMA InTail ==
  ASSUME NEW q \in [ListHead -> Seq(Task)], NEW h \in ListHead, q[h] # <<>>,
         NEW u, In([q EXCEPT ![h] = Tail(q[h])], u)
  PROVE  In(q, u)
<1> DEFINE z == Tail(q[h])
           r == [q EXCEPT ![h] = z]
<1>1. /\ q[h] \in Seq(Task) /\ Len(q[h]) \in Nat /\ Len(q[h]) >= 1 /\ Len(z) = Len(q[h]) - 1
      /\ \A i \in 1 .. Len(q[h]) - 1 : z[i] = q[h][i + 1]
  OBVIOUS
<1>2. r[h] = z /\ \A g \in ListHead : g # h => r[g] = q[g]
  OBVIOUS
<1> HIDE DEF r, z
<1>3. PICK g \in ListHead : \E i \in 1 .. Len(r[g]) : r[g][i] = u
  <2>1. In(r, u)
    BY DEF r, z
  <2> QED
    BY <2>1 DEF In
<1>4. CASE g # h
  BY <1>2, <1>3, <1>4 DEF In
<1>5. CASE g = h
  <2>0. PICK i \in 1 .. Len(r[g]) : r[g][i] = u
    BY <1>3
  <2>1. i \in 1 .. Len(q[h]) - 1 /\ i + 1 \in 1 .. Len(q[h])
    BY <1>1, <1>2, <1>5
  <2>2. q[h][i + 1] = u
    BY <1>1, <1>2, <1>5, <2>0, <2>1
  <2> QED
    BY <2>1, <2>2 DEF In
<1> QED
  BY <1>4, <1>5

(* The same for list_add_tail.                                             *)
LEMMA InAppend ==
  ASSUME NEW q \in [ListHead -> Seq(Task)], NEW h \in ListHead, NEW t \in Task,
         NEW u, In([q EXCEPT ![h] = Append(q[h], t)], u), u # t
  PROVE  In(q, u)
<1> DEFINE z == Append(q[h], t)
           r == [q EXCEPT ![h] = z]
<1>1. /\ q[h] \in Seq(Task) /\ Len(q[h]) \in Nat /\ Len(z) = Len(q[h]) + 1
      /\ \A i \in 1 .. Len(q[h]) : z[i] = q[h][i]
      /\ z[Len(q[h]) + 1] = t
  OBVIOUS
<1>2. r[h] = z /\ \A g \in ListHead : g # h => r[g] = q[g]
  OBVIOUS
<1> HIDE DEF r, z
<1>3. PICK g \in ListHead : \E i \in 1 .. Len(r[g]) : r[g][i] = u
  <2>1. In(r, u)
    BY DEF r, z
  <2> QED
    BY <2>1 DEF In
<1>4. CASE g # h
  BY <1>2, <1>3, <1>4 DEF In
<1>5. CASE g = h
  <2>0. PICK i \in 1 .. Len(r[g]) : r[g][i] = u
    BY <1>3
  <2>1. i \in 1 .. Len(q[h])
    BY <1>1, <1>2, <1>5, <2>0
  <2>2. q[h][i] = u
    BY <1>1, <1>2, <1>5, <2>0, <2>1
  <2> QED
    BY <2>1, <2>2 DEF In
<1> QED
  BY <1>4, <1>5

(* A task whose pointers say that it is in no list is put in one.          *)
LEMMA UpdateThreads ==
  ASSUME NEW l, NEW q, Threaded(l, q, ListHead), NEW t \in Task, ~In(q, t), NEW h \in ListHead
  PROVE  Threaded(update_process_state_rr(l, t, h), [q EXCEPT ![h] = Append(q[h], t)], ListHead)
<1>1. l.next[t] = NULL /\ l.prev[t] = NULL
  BY DEF Threaded
<1>2. update_process_state_rr(l, t, h) = list_add_tail(l, t, h)
  BY <1>1 DEF update_process_state_rr
<1> QED
  BY <1>2, AddTailThreads

(* The pointers that a child inherits are the ones it had: NULL.           *)
LEMMA CopyThreads ==
  ASSUME NEW l, NEW q, Threaded(l, q, ListHead),
         NEW t \in Task, ~In(q, t), NEW u \in Task, ~In(q, u)
  PROVE  copy_pointers(l, t, u) = l
<1>1. /\ l.next[t] = NULL /\ l.prev[t] = NULL /\ l.next[u] = NULL /\ l.prev[u] = NULL
      /\ l \in [next : [Node -> Node \cup {NULL}], prev : [Node -> Node \cup {NULL}]]
  BY DEF Threaded, Linked
<1> QED
  BY <1>1 DEF copy_pointers

(* What sched_next_rr of Sched does to the sequences q, which become r.    *)
Chosen(q, r) ==
  /\ r[freequeue] = q[freequeue]
  /\ \/ /\ nice[current] = Low /\ q[priorityqueue] # <<>>
        /\ current' = Head(q[priorityqueue])
        /\ quantum_ticks' = IF nice[current] = High THEN QUANTUM ELSE 5 * QUANTUM
        /\ r[readyqueue] = q[readyqueue] /\ r[priorityqueue] = Tail(q[priorityqueue])
     \/ /\ nice[current] = High \/ q[priorityqueue] = <<>>
        /\ q[readyqueue] # <<>>
        /\ current' = Head(q[readyqueue])
        /\ quantum_ticks' = IF nice[current] = High THEN QUANTUM ELSE 5 * QUANTUM
        /\ r[readyqueue] = Tail(q[readyqueue]) /\ r[priorityqueue] = q[priorityqueue]
     \/ /\ nice[current] = High \/ q[priorityqueue] = <<>>
        /\ q[readyqueue] = <<>>
        /\ current' = NoTask
        /\ UNCHANGED quantum_ticks
        /\ r[readyqueue] = q[readyqueue] /\ r[priorityqueue] = q[priorityqueue]

(* sched_next_rr on the pointers is what it is on the sequences.           *)
LEMMA NextThreads ==
  ASSUME NEW l, NEW q, Threaded(l, q, ListHead),
         nice[current] \in {High, Low}, sched_next_rr(l)
  PROVE  \E r : /\ Threaded(links', r, Heads') /\ ~In(r, current')
                /\ current' \in Task \cup {NoTask} /\ Chosen(q, r)
<1> DEFINE F == freequeue
           R == readyqueue
           P == priorityqueue
           chosen == IF nice[current] = Low /\ ~list_empty(l, P)
                     THEN list_first(l, P) ELSE list_first(l, R)
<1>1. /\ F \in ListHead /\ R \in ListHead /\ P \in ListHead
      /\ F # R /\ F # P /\ R # P /\ Task \cap ListHead = {} /\ NoTask \notin Task
      /\ High # Low
  BY HeadFacts DEF High, Low
<1>2. q \in [ListHead -> Seq(Task)]
  BY DEF Threaded
<1>3. /\ links' = list_del(l, chosen)
      /\ \/ /\ chosen \in Task
            /\ current' = chosen
            /\ quantum_ticks' = IF nice[current] = High THEN QUANTUM ELSE 5 * QUANTUM
         \/ /\ chosen \in ListHead
            /\ current' = NoTask
            /\ UNCHANGED quantum_ticks
  BY DEF sched_next_rr
<1>4. \A h \in ListHead :
        /\ list_empty(l, h) <=> q[h] = <<>>
        /\ q[h] # <<>> => list_first(l, h) = Head(q[h]) /\ Head(q[h]) \in Task
        /\ q[h] = <<>> => list_first(l, h) = h
  BY FirstFacts
<1>5. ASSUME NEW h \in {R, P}, q[h] # <<>>, chosen = list_first(l, h)
      PROVE  LET r == [q EXCEPT ![h] = Tail(q[h])]
             IN  /\ Threaded(links', r, Heads') /\ ~In(r, current')
                 /\ current' = Head(q[h]) /\ current' \in Task
                 /\ quantum_ticks' = IF nice[current] = High THEN QUANTUM ELSE 5 * QUANTUM
  <2>1. h \in ListHead /\ chosen = Head(q[h]) /\ chosen \in Task
    BY <1>1, <1>4, <1>5
  <2> HIDE DEF chosen
  <2>2. /\ current' = chosen /\ links' = list_del(l, Head(q[h]))
        /\ quantum_ticks' = IF nice[current] = High THEN QUANTUM ELSE 5 * QUANTUM
    BY <1>1, <1>3, <2>1
  <2>3. Heads' = ListHead
    BY <1>1, <2>1, <2>2 DEF Heads
  <2> QED
    BY <1>5, <2>1, <2>2, <2>3, DeleteThreads
<1>6. CASE nice[current] = Low /\ q[P] # <<>>
  <2> DEFINE r == [q EXCEPT ![P] = Tail(q[P])]
  <2>1. chosen = list_first(l, P)
    BY <1>1, <1>4, <1>6
  <2> HIDE DEF chosen
  <2>2. r[F] = q[F] /\ r[R] = q[R] /\ r[P] = Tail(q[P])
    BY <1>1, <1>2
  <2>3. /\ Threaded(links', r, Heads') /\ ~In(r, current')
        /\ current' = Head(q[P]) /\ current' \in Task
        /\ quantum_ticks' = IF nice[current] = High THEN QUANTUM ELSE 5 * QUANTUM
    BY <1>5, <1>6, <2>1
  <2> HIDE DEF r
  <2>4. Chosen(q, r)
    BY <1>6, <2>2, <2>3 DEF Chosen
  <2> QED
    BY <2>3, <2>4
<1>7. CASE (nice[current] = High \/ q[P] = <<>>) /\ q[R] # <<>>
  <2> DEFINE r == [q EXCEPT ![R] = Tail(q[R])]
  <2>1. chosen = list_first(l, R)
    BY <1>1, <1>4, <1>7
  <2> HIDE DEF chosen
  <2>2. r[F] = q[F] /\ r[P] = q[P] /\ r[R] = Tail(q[R])
    BY <1>1, <1>2
  <2>3. /\ Threaded(links', r, Heads') /\ ~In(r, current')
        /\ current' = Head(q[R]) /\ current' \in Task
        /\ quantum_ticks' = IF nice[current] = High THEN QUANTUM ELSE 5 * QUANTUM
    BY <1>5, <1>7, <2>1
  <2> HIDE DEF r
  <2>4. Chosen(q, r)
    BY <1>7, <2>2, <2>3 DEF Chosen
  <2> QED
    BY <2>3, <2>4
<1>8. CASE (nice[current] = High \/ q[P] = <<>>) /\ q[R] = <<>>
  <2>1. chosen = R
    BY <1>1, <1>4, <1>8
  <2> HIDE DEF chosen
  <2>2. links' = list_del(l, R) /\ current' = NoTask /\ UNCHANGED quantum_ticks
    BY <1>1, <1>3, <2>1
  <2>3. Heads' = ListHead \ {R}
    BY <2>2 DEF Heads
  <2>4. Threaded(links', q, Heads')
    BY <1>1, <1>8, <2>2, <2>3, DeleteHeadThreads
  <2>5. ~In(q, NoTask)
    BY <1>1, <1>2 DEF In
  <2>6. Chosen(q, q)
    BY <1>8, <2>2 DEF Chosen
  <2> QED
    BY <2>2, <2>4, <2>5, <2>6
<1> QED
  BY <1>6, <1>7, <1>8

-----------------------------------------------------------------------------
(* Every handler keeps the invariant and is the handler of Sched.          *)

(* A state whose pointers thread the sequences q.                          *)
Now(q) ==
  /\ current \in Task \cup {NoTask}
  /\ nice \in [Task -> {High, Low}]
  /\ Threaded(links, q, Heads) /\ ~In(q, current)

(* The three lists of Sched, in a state and in the next one.               *)
Lists(q) ==
  /\ elements(links, freequeue) = q[freequeue]
  /\ elements(links, readyqueue) = q[readyqueue]
  /\ elements(links, priorityqueue) = q[priorityqueue]

(* The sequences are those of Sched.                                       *)
LEMMA NowLists == \A q : Now(q) => Lists(q)
BY ElementsAre, HeadFacts DEF Now, Lists

(* The same after a step.                                                   *)
LEMMA NextLists == ASSUME NEW r, Threaded(links', r, Heads') PROVE Lists(r)'
BY ElementsAre, HeadFacts DEF Lists

(* While a process runs, every head is in its list.                        *)
LEMMA NowRunning ==
  ASSUME NEW q, Now(q), current # NoTask
  PROVE  /\ current \in Task /\ nice[current] \in {High, Low}
         /\ Threaded(links, q, ListHead) /\ ~In(q, current) /\ Lists(q)
         /\ q \in [ListHead -> Seq(Task)]
BY NowLists DEF Now, Heads, Threaded

(* The words of Sched.                                                      *)
LEMMA SchedWords ==
  /\ Scheduler!Task = Task /\ Scheduler!NoTask = NoTask
  /\ Scheduler!High = High /\ Scheduler!Low = Low /\ High # Low
BY DEF Scheduler!Task, Task, Scheduler!NoTask, NoTask, Scheduler!High, High, Scheduler!Low, Low

(* The choice of who runs next.                                             *)
LEMMA ChosenIs ==
  ASSUME NEW q, NEW r, NEW rq, NEW pq, Chosen(q, r), Lists(r)',
         rq = q[readyqueue], pq = q[priorityqueue]
  PROVE  Scheduler!sched_next_rr(rq, pq)
BY SchedWords DEF Chosen, Lists, Scheduler!sched_next_rr, Scheduler!dispatch

(* The clock.                                                               *)
LEMMA ScheduleStep ==
  ASSUME NEW q, Now(q), schedule
  PROVE  (\E r : Now(r)') /\ Scheduler!schedule
<1>1. /\ current # NoTask /\ UNCHANGED <<PID, nice, nextPID>>
      /\ current \in Task /\ nice[current] \in {High, Low}
      /\ Threaded(links, q, ListHead) /\ ~In(q, current) /\ Lists(q)
      /\ q \in [ListHead -> Seq(Task)]
  BY NowRunning DEF schedule
<1>2. /\ list_empty(links, readyqueue) <=> q[readyqueue] = <<>>
      /\ list_empty(links, priorityqueue) <=> q[priorityqueue] = <<>>
  BY <1>1, FirstFacts, HeadFacts
<1>3. CASE /\ UNCHANGED <<links, current>>
           /\ \/ quantum_ticks - 1 > 0 /\ quantum_ticks' = quantum_ticks - 1
              \/ /\ quantum_ticks - 1 <= 0 /\ quantum_ticks' = QUANTUM
                 /\ q[readyqueue] = <<>> /\ q[priorityqueue] = <<>>
  <2>1. Now(q)'
    BY <1>1, <1>3 DEF Now, Heads
  <2>2. Lists(q)'
    BY <1>1, <1>3 DEF Lists
  <2>3. Scheduler!schedule
    BY <1>1, <1>3, <2>2, SchedWords DEF Lists, Scheduler!schedule, Scheduler!Running
  <2> QED
    BY <2>1, <2>3
<1>4. CASE /\ quantum_ticks - 1 <= 0
           /\ q[readyqueue] # <<>> \/ q[priorityqueue] # <<>>
           /\ sched_next_rr(update_process_state_rr(links, current, queue_of(nice[current])))
  <2> DEFINE h == queue_of(nice[current])
             l == update_process_state_rr(links, current, h)
             p == [q EXCEPT ![h] = Append(q[h], current)]
  <2>1. /\ h \in ListHead /\ h # freequeue
        /\ nice[current] = Low => h = readyqueue
        /\ nice[current] # Low => h = priorityqueue
    BY HeadFacts DEF queue_of
  <2>2. Threaded(l, p, ListHead)
    BY <1>1, <2>1, UpdateThreads
  <2>3. /\ p[freequeue] = q[freequeue]
        /\ nice[current] = Low => /\ p[readyqueue] = Append(q[readyqueue], current)
                                  /\ p[priorityqueue] = q[priorityqueue]
        /\ nice[current] # Low => /\ p[readyqueue] = q[readyqueue]
                                  /\ p[priorityqueue] = Append(q[priorityqueue], current)
    BY <1>1, <2>1, HeadFacts
  <2>4. sched_next_rr(l)
    BY <1>4
  <2> HIDE DEF p, l, h
  <2>5. PICK r : /\ Threaded(links', r, Heads') /\ ~In(r, current')
                 /\ current' \in Task \cup {NoTask} /\ Chosen(p, r)
    BY <1>1, <2>2, <2>4, NextThreads
  <2>6. Now(r)'
    <3>1. nice' \in [Task -> {High, Low}]
      BY <1>1 DEF Now
    <3> QED
      BY <2>5, <3>1 DEF Now
  <2>7. Lists(r)'
    BY <2>5, NextLists
  <2>8. Scheduler!sched_next_rr(p[readyqueue], p[priorityqueue])
    BY <2>5, <2>7, ChosenIs
  <2>9. Scheduler!preempt
    BY <1>1, <2>3, <2>8, SchedWords DEF Lists, Scheduler!preempt
  <2>10. elements(links, freequeue)' = elements(links, freequeue)
    BY <1>1, <2>3, <2>5, <2>7 DEF Lists, Chosen
  <2>11. Scheduler!schedule
    BY <1>1, <1>4, <2>9, <2>10, SchedWords DEF Lists, Scheduler!schedule, Scheduler!Running
  <2> QED
    BY <2>6, <2>11
<1>5. \/ /\ UNCHANGED <<links, current>>
         /\ \/ quantum_ticks - 1 > 0 /\ quantum_ticks' = quantum_ticks - 1
            \/ /\ quantum_ticks - 1 <= 0 /\ quantum_ticks' = QUANTUM
               /\ q[readyqueue] = <<>> /\ q[priorityqueue] = <<>>
      \/ /\ quantum_ticks - 1 <= 0
         /\ q[readyqueue] # <<>> \/ q[priorityqueue] # <<>>
         /\ sched_next_rr(update_process_state_rr(links, current, queue_of(nice[current])))
  BY <1>2 DEF schedule
<1> QED
  BY <1>3, <1>4, <1>5

(* sys_fork, by the two of its ways out that change something.             *)
LEMMA ForkStep ==
  ASSUME NEW q, Now(q), sys_fork
  PROVE  (\E r : Now(r)') /\ Scheduler!sys_fork
<1> DEFINE F == freequeue
           child == Head(q[F])
           p == [q EXCEPT ![F] = Tail(q[F])]
           m == list_del(links, child)
           h == queue_of(nice[current])
<1>1. /\ current # NoTask /\ UNCHANGED <<current, quantum_ticks>>
      /\ current \in Task /\ nice[current] \in {High, Low}
      /\ Threaded(links, q, ListHead) /\ ~In(q, current) /\ Lists(q)
      /\ q \in [ListHead -> Seq(Task)]
  BY NowRunning DEF sys_fork
<1>2. /\ F \in ListHead /\ readyqueue \in ListHead /\ priorityqueue \in ListHead
      /\ F # readyqueue /\ F # priorityqueue /\ readyqueue # priorityqueue
  BY HeadFacts
<1>3. q[F] # <<>> /\ list_first(links, F) = child /\ child \in Task /\ In(q, child)
  <2>1. ~list_empty(links, F)
    BY DEF sys_fork
  <2> QED
    BY <1>1, <1>2, <2>1, FirstFacts
<1>4. Threaded(m, p, ListHead) /\ ~In(p, child)
  BY <1>1, <1>2, <1>3, DeleteThreads
<1>5. ~In(p, current) /\ current # child
  <2>1. current # child
    BY <1>1, <1>3
  <2>2. ~In(p, current)
    BY <1>1, <1>2, <1>3, InTail
  <2> QED
    BY <2>1, <2>2
<1>6. copy_pointers(list_del(links, child), current, child) = m
  BY <1>1, <1>3, <1>4, <1>5, CopyThreads
<1>7. /\ nice' = [nice EXCEPT ![child] = nice[current]]
      /\ \/ /\ links' = list_add(m, child, F)
            /\ PID' = [PID EXCEPT ![child] = PID[current]]
            /\ UNCHANGED nextPID
         \/ /\ nextPID <= MAX_PID
            /\ links' = list_add_tail(m, child, h)
            /\ PID' = [PID EXCEPT ![child] = nextPID]
            /\ nextPID' = nextPID + 1
  BY <1>3, <1>6 DEF sys_fork
<1>8. nice' \in [Task -> {High, Low}] /\ Heads' = ListHead /\ current' = current
  BY <1>1, <1>7 DEF Now, Heads
<1>9. p[F] = Tail(q[F]) /\ \A g \in ListHead : g # F => p[g] = q[g]
  BY <1>1, <1>2
<1>10. /\ elements(links, F) = q[F] /\ elements(links, readyqueue) = q[readyqueue]
       /\ elements(links, priorityqueue) = q[priorityqueue]
  BY <1>1 DEF Lists
<1>11. p \in [ListHead -> Seq(Task)]
  BY <1>4 DEF Threaded
<1>12. CASE /\ links' = list_add(m, child, F)
            /\ PID' = [PID EXCEPT ![child] = PID[current]]
            /\ UNCHANGED nextPID
  <2>1. Inserted(q[F], p[F], 0, child)
    <3>1. q[F] \in Seq(Task)
      BY <1>1, <1>2
    <3>2. /\ Len(q[F]) = Len(Tail(q[F])) + 1 /\ q[F][1] = child
          /\ \A i \in 1 .. Len(Tail(q[F])) : q[F][i + 1] = Tail(q[F])[i]
      BY <1>3, <3>1
    <3>3. p[F] = Tail(q[F])
      BY <1>9
    <3> HIDE DEF p, child
    <3>4. Inserted(q[F], Tail(q[F]), 0, child)
      BY <3>1, <3>2 DEF Inserted
    <3> QED
      BY <3>3, <3>4
  <2>2. [p EXCEPT ![F] = q[F]] = q
    BY <1>1, <1>2
  <2> HIDE DEF p, m, child
  <2>3. Threaded(list_add(m, child, F), [p EXCEPT ![F] = q[F]], ListHead)
    BY <1>2, <1>3, <1>4, <2>1, AddThreads
  <2>4. Threaded(links', q, ListHead)
    BY <1>12, <2>2, <2>3
  <2>5. Now(q)'
    BY <1>1, <1>8, <2>4 DEF Now
  <2>6. Lists(q)'
    BY <1>8, <2>4, NextLists
  <2>7. Scheduler!fork_ENOMEM
    BY <1>1, <1>3, <1>7, <1>10, <1>12, <2>6, SchedWords
       DEF Lists, Scheduler!fork_ENOMEM, Scheduler!Running, child
  <2> QED
    BY <2>5, <2>7 DEF Scheduler!sys_fork
<1>13. CASE /\ nextPID <= MAX_PID
            /\ links' = list_add_tail(m, child, h)
            /\ PID' = [PID EXCEPT ![child] = nextPID]
            /\ nextPID' = nextPID + 1
  <2> DEFINE r == [p EXCEPT ![h] = Append(p[h], child)]
  <2>1. /\ h \in ListHead /\ h # F
        /\ nice[current] = Low => h = readyqueue
        /\ nice[current] # Low => h = priorityqueue
    BY <1>2 DEF queue_of
  <2>2. /\ r[F] = Tail(q[F])
        /\ nice[current] = Low => /\ r[readyqueue] = Append(q[readyqueue], child)
                                  /\ r[priorityqueue] = q[priorityqueue]
        /\ nice[current] # Low => /\ r[readyqueue] = q[readyqueue]
                                  /\ r[priorityqueue] = Append(q[priorityqueue], child)
    <3> HIDE DEF p, h, child
    <3> QED
      BY <1>2, <1>9, <1>11, <2>1
  <2> HIDE DEF p, m, child, h
  <2>3. Threaded(links', r, ListHead)
    BY <1>3, <1>4, <1>13, <2>1, AddTailThreads
  <2>4. ~In(r, current)
    BY <1>3, <1>5, <1>11, <2>1, InAppend
  <2> HIDE DEF r
  <2>5. PICK x :
          /\ Threaded(links', x, ListHead) /\ ~In(x, current)
          /\ x[F] = Tail(q[F])
          /\ nice[current] = Low => /\ x[readyqueue] = Append(q[readyqueue], child)
                                    /\ x[priorityqueue] = q[priorityqueue]
          /\ nice[current] # Low => /\ x[readyqueue] = q[readyqueue]
                                    /\ x[priorityqueue] = Append(q[priorityqueue], child)
    BY <2>2, <2>3, <2>4
  <2>6. Now(x)'
    BY <1>1, <1>8, <2>5 DEF Now
  <2>7. Lists(x)'
    BY <1>8, <2>5, NextLists
  <2>8. Scheduler!fork_child
    BY <1>1, <1>3, <1>7, <1>10, <1>13, <2>5, <2>7, SchedWords
       DEF Lists, Scheduler!fork_child, Scheduler!Running, child
  <2> QED
    BY <2>6, <2>8 DEF Scheduler!sys_fork
<1> QED
  BY <1>7, <1>12, <1>13

(* sys_exit.                                                                *)
LEMMA ExitStep ==
  ASSUME NEW q, Now(q), sys_exit
  PROVE  (\E r : Now(r)') /\ Scheduler!sys_exit
<1> DEFINE l == update_process_state_rr(links, current, freequeue)
           p == [q EXCEPT ![freequeue] = Append(q[freequeue], current)]
<1>1. /\ current # NoTask /\ PID' = [PID EXCEPT ![current] = -1]
      /\ UNCHANGED <<nice, nextPID>> /\ sched_next_rr(l)
      /\ current \in Task /\ nice[current] \in {High, Low}
      /\ Threaded(links, q, ListHead) /\ ~In(q, current) /\ Lists(q)
      /\ q \in [ListHead -> Seq(Task)]
  BY NowRunning DEF sys_exit
<1>2. Threaded(l, p, ListHead)
  BY <1>1, UpdateThreads, HeadFacts
<1>3. /\ p[freequeue] = Append(q[freequeue], current)
      /\ p[readyqueue] = q[readyqueue] /\ p[priorityqueue] = q[priorityqueue]
  BY <1>1, HeadFacts
<1> HIDE DEF p, l
<1>4. PICK r : /\ Threaded(links', r, Heads') /\ ~In(r, current')
               /\ current' \in Task \cup {NoTask} /\ Chosen(p, r)
  BY <1>1, <1>2, NextThreads
<1>5. Now(r)'
  <2>1. nice' \in [Task -> {High, Low}]
    BY <1>1 DEF Now
  <2> QED
    BY <1>4, <2>1 DEF Now
<1>6. Lists(r)'
  BY <1>4, NextLists
<1>7. Scheduler!sched_next_rr(p[readyqueue], p[priorityqueue])
  BY <1>4, <1>6, ChosenIs
<1>8. Scheduler!sched_next_rr(elements(links, readyqueue), elements(links, priorityqueue))
  BY <1>1, <1>3, <1>7 DEF Lists
<1>9. elements(links, freequeue)' = Append(elements(links, freequeue), current)
  BY <1>1, <1>3, <1>4, <1>6 DEF Lists, Chosen
<1>10. Scheduler!sys_exit
  BY <1>1, <1>8, <1>9, SchedWords DEF Scheduler!sys_exit, Scheduler!Running
<1> QED
  BY <1>5, <1>10

(* A change of class.                                                       *)
LEMMA SetNiceStep ==
  ASSUME NEW q, Now(q), NEW v \in {High, Low}, set_nice(v)
  PROVE  Now(q)' /\ Scheduler!set_nice(v)
<1>1. Now(q)'
  BY DEF Now, set_nice, Heads
<1>2. Scheduler!set_nice(v)
  BY SchedWords DEF set_nice, Scheduler!set_nice, Scheduler!Running
<1> QED
  BY <1>1, <1>2

(* The invariant is kept, and every step is one of Sched.                  *)
LEMMA ListsStep ==
  ASSUME ListsInv, [Next]_listVars
  PROVE  ListsInv' /\ [Scheduler!Next]_Scheduler!schedVars
<1>1. PICK q : Now(q)
  BY DEF ListsInv, Now
<1>2. CASE schedule
  BY <1>1, <1>2, ScheduleStep DEF ListsInv, Now, Scheduler!Next
<1>3. CASE sys_fork
  BY <1>1, <1>3, ForkStep DEF ListsInv, Now, Scheduler!Next
<1>4. CASE sys_exit
  BY <1>1, <1>4, ExitStep DEF ListsInv, Now, Scheduler!Next
<1>5. ASSUME NEW v \in {High, Low}, set_nice(v) PROVE ListsInv' /\ Scheduler!Next
  <2>1. Now(q)' /\ Scheduler!set_nice(v)
    BY <1>1, <1>5, SetNiceStep
  <2> QED
    BY <2>1, SchedWords DEF ListsInv, Now, Scheduler!Next
<1>6. CASE UNCHANGED listVars
  <2>1. Now(q)'
    BY <1>1, <1>6 DEF listVars, Now, Heads
  <2>2. UNCHANGED Scheduler!schedVars
    BY <1>6 DEF listVars, Scheduler!schedVars
  <2> QED
    BY <2>1, <2>2 DEF ListsInv, Now
<1> QED
  BY <1>2, <1>3, <1>4, <1>5, <1>6 DEF Next

(* The first state satisfies the invariant, and is the first of Sched.     *)
LEMMA ListsInit == Init => ListsInv /\ Scheduler!Init
<1> SUFFICES ASSUME Init PROVE ListsInv /\ Scheduler!Init
  OBVIOUS
<1>1. current = NR_TASKS - 2 /\ current \in Task
  BY InitThreads
<1>2. PICK q : /\ Threaded(links, q, ListHead) /\ ~In(q, current)
               /\ q[freequeue] = [i \in 1 .. NR_TASKS - 2 |-> NR_TASKS - 2 - i]
               /\ q[readyqueue] = <<>> /\ q[priorityqueue] = <<>>
  BY InitThreads
<1>3. /\ PID = [t \in Task |-> IF t = current THEN 1 ELSE 0]
      /\ nice = [t \in Task |-> IF t = current THEN Low ELSE High]
      /\ quantum_ticks = -1 /\ nextPID = 2
  BY DEF Init
<1>4. Now(q)
  <2>1. nice \in [Task -> {High, Low}]
    BY <1>3
  <2>2. Heads = ListHead
    BY <1>1, HeadFacts DEF Heads
  <2> QED
    BY <1>1, <1>2, <2>1, <2>2 DEF Now
<1>5. Lists(q)
  BY <1>4, NowLists
<1>6. Scheduler!Init
  BY <1>1, <1>2, <1>3, <1>5, SchedWords DEF Lists, Scheduler!Init, Scheduler!Task1
<1> QED
  BY <1>4, <1>6 DEF ListsInv, Now

-----------------------------------------------------------------------------
(* The inductive invariant: the pointers thread three sequences of tasks,  *)
(* no task is in them twice, and the running one is in none.               *)
THEOREM ListsInvariance == Spec => []ListsInv
<1>1. Init => ListsInv
  BY ListsInit
<1>2. ListsInv /\ [Next]_listVars => ListsInv'
  BY ListsStep
<1> QED
  BY <1>1, <1>2, PTL DEF Spec

(* The pointers implement the sequences: every handler, with the writes of *)
(* list.c it makes, is the handler of Sched on the elements of the lists.  *)
(* What is proved of Sched holds of the kernel that has only pointers.     *)
THEOREM ListsRefinement == Spec => ImplementsSched
<1>1. Init => Scheduler!Init
  BY ListsInit
<1>2. ListsInv /\ [Next]_listVars => [Scheduler!Next]_Scheduler!schedVars
  BY ListsStep
<1> QED
  BY <1>1, <1>2, ListsInvariance, PTL DEF Spec, ImplementsSched, Scheduler!Spec

(* A list that threads a sequence is whole in both directions.             *)
LEMMA WholeLists == ListsInv => WellLinked
<1> SUFFICES ASSUME ListsInv PROVE WellLinked
  OBVIOUS
<1>1. PICK q : Threaded(links, q, Heads)
  BY DEF ListsInv
<1>2. /\ q \in [ListHead -> Seq(Task)]
      /\ \A h \in Heads : Ring(links, h, q[h])
      /\ \A t \in Task : ~In(q, t) => links.next[t] = NULL /\ links.prev[t] = NULL
  BY <1>1 DEF Threaded
<1>3. Heads \subseteq ListHead /\ (current # NoTask => Heads = ListHead)
  BY DEF Heads
<1>4. ASSUME NEW h \in Heads, NEW i \in 0 .. Len(q[h]), NEW j \in 1 .. Len(q[h]) + 1,
             At(q[h], h, i) = At(q[h], h, j)
      PROVE  LET n == At(q[h], h, i)
             IN  /\ links.next[n] \in Node /\ links.prev[n] \in Node
                 /\ links.prev[links.next[n]] = n /\ links.next[links.prev[n]] = n
  <2>1. q[h] \in Seq(Task) /\ Len(q[h]) \in Nat /\ Ring(links, h, q[h])
    BY <1>2, <1>3, AtFacts
  <2>2. /\ links.next[At(q[h], h, i)] = At(q[h], h, i + 1)
        /\ links.prev[At(q[h], h, i + 1)] = At(q[h], h, i)
    BY <2>1 DEF Ring
  <2>3. j - 1 \in 0 .. Len(q[h]) /\ (j - 1) + 1 = j
    BY <2>1
  <2>4. /\ links.next[At(q[h], h, j - 1)] = At(q[h], h, j)
        /\ links.prev[At(q[h], h, j)] = At(q[h], h, j - 1)
    BY <2>1, <2>3 DEF Ring
  <2>5. At(q[h], h, i + 1) \in Node /\ At(q[h], h, j - 1) \in Node
    <3>1. i + 1 \in 0 .. Len(q[h]) + 1 /\ j - 1 \in 0 .. Len(q[h]) + 1
      BY <2>1
    <3> QED
      BY <1>3, <2>1, <3>1, AtFacts
  <2> QED
    BY <1>4, <2>2, <2>4, <2>5
<1>5. SUFFICES ASSUME NEW n \in Node
               PROVE  \/ n \in Task /\ links.next[n] = NULL /\ links.prev[n] = NULL
                      \/ n \in ListHead /\ current = NoTask
                      \/ /\ links.next[n] \in Node /\ links.prev[n] \in Node
                         /\ links.prev[links.next[n]] = n
                         /\ links.next[links.prev[n]] = n
  BY DEF WellLinked
<1>6. CASE n \in ListHead
  <2>1. CASE current = NoTask
    BY <1>6, <2>1
  <2>2. CASE current # NoTask
    <3>1. n \in Heads /\ q[n] \in Seq(Task)
      BY <1>2, <1>3, <1>6, <2>2
    <3>2. /\ Len(q[n]) \in Nat /\ At(q[n], n, 0) = n /\ At(q[n], n, Len(q[n]) + 1) = n
      BY <1>6, <3>1, AtFacts
    <3>3. 0 \in 0 .. Len(q[n]) /\ Len(q[n]) + 1 \in 1 .. Len(q[n]) + 1
      BY <3>2
    <3> QED
      BY <1>4, <3>1, <3>2, <3>3
  <2> QED
    BY <2>1, <2>2
<1>7. CASE n \in Task /\ ~In(q, n)
  BY <1>2, <1>7
<1>8. CASE n \in Task /\ In(q, n)
  <2>1. PICK h \in ListHead : \E i \in 1 .. Len(q[h]) : q[h][i] = n
    BY <1>8 DEF In
  <2>2. PICK i \in 1 .. Len(q[h]) : q[h][i] = n
    BY <2>1
  <2>3. q[h] \in Seq(Task) /\ Len(q[h]) \in Nat /\ At(q[h], h, i) = n
    BY <1>2, <2>2, AtFacts
  <2>4. h \in Heads
    <3>1. q[h] # <<>>
      BY <2>2
    <3> QED
      BY <1>1, <3>1 DEF Threaded
  <2>5. i \in 0 .. Len(q[h]) /\ i \in 1 .. Len(q[h]) + 1
    BY <2>3
  <2> QED
    BY <1>4, <2>3, <2>4, <2>5
<1> QED
  BY <1>5, <1>6, <1>7, <1>8 DEF Node

(* Whatever the handlers do, every list can be followed in both directions *)
(* and a PCB is in one or has two NULL pointers.                           *)
THEOREM Whole == Spec => []WellLinked
BY ListsInvariance, WholeLists, PTL

(* The running task is always told by its NULL pointers: the branch of     *)
(* update_process_state_rr that unlinks is never taken, and the pointers   *)
(* that a child inherits are those of no list.                             *)
THEOREM ToldByNull == Spec => []RunningUnlinked
<1>1. ListsInv => RunningUnlinked
  BY DEF ListsInv, RunningUnlinked, Threaded
<1> QED
  BY <1>1, ListsInvariance, PTL
=============================================================================
