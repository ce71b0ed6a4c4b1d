----------------------------- MODULE MemoryProofs -----------------------------
(***************************************************************************)
(* The memory of ZeOS, proved for every number of tasks and of frames,     *)
(* every size of code, data and pages, and every argument of sbrk: growths *)
(* by no more than the memory of the programs, and any release, those      *)
(* included that make brk wrap.                                            *)
(*                                                                         *)
(* That no frame is mapped twice is not inductive alone.  It needs to know *)
(* where frames come from: the pages of code hold the frames of the first  *)
(* process's code, which stay in use for ever (CodeShared, CodeUsed), and  *)
(* those of data and heap hold frames that alloc_frame found (FromAlloc).  *)
(* That nothing is written past the end of a page table, and that a        *)
(* process has all its pages, needs to know that a heap and the pages a    *)
(* fork borrows after it never outgrow the table (Heaps, Room): the frames *)
(* they hold are distinct, and alloc_frame finds only every second one.  A *)
(* process whose brk has wrapped has its code and data (HeapPages), and by *)
(* then some frames may be lost (Tame).                                    *)
(*                                                                         *)
(* The last part is about Translate: what the processor keeps of the page  *)
(* tables, for every size of the TLB and whatever the processor chooses to *)
(* forget.  That a process never reaches a frame of another is not         *)
(* inductive: a frame that is kept and was released may be handed out.     *)
(* Apart says more than the property, of every PCB: a dead one's page      *)
(* table, or a free one's, holds no frame that is kept.  Frames change     *)
(* hands in a fork or after a switch, and both empty the TLB.              *)
(***************************************************************************)
EXTENDS Translate, SchedProofs, FiniteSetTheorems, WellFoundedInduction

CodeFrame(p) == NUM_PAG_KERNEL + 2 * p
CodeFrames   == {CodeFrame(p) : p \in Code}

(* The code of every process, in every PCB that has ever had one.          *)
CodeShared ==
  /\ \A t \in Task : \A p \in Code : PT[t][p] \in {0, CodeFrame(p)}
  /\ \A t \in Live : \A p \in Code : PT[t][p] = CodeFrame(p)

CodeUsed == 0 .. NUM_PAG_KERNEL - 1 \cup CodeFrames \subseteq phys_mem

FromAlloc ==
  \A t \in Task : \A p \in Own(t) :
    PT[t][p] \in (Allocatable \cap phys_mem) \ CodeFrames

(* No two pages of data or heap hold the same frame.                       *)
Distinct ==
  \A t, u \in Task : \A p \in Own(t), q \in Own(u) :
    PT[t][p] = PT[u][q] => t = u /\ p = q

(* The last page of the table, and the pages of a heap that ends at b:     *)
(* none, when b has wrapped and is an int below zero.                      *)
LastPage     == TOTAL_PAGES - NUM_PAG_KERNEL - 1
HeapPages(b) == IF 2 * b < WORD THEN heap(b) ELSE 0

Heaps ==
  \A t \in Live :
    /\ 2 * brk[t] < WORD => L_HEAP_START <= brk[t]
    /\ PageHeap + HeapPages(brk[t]) <= LastPage

(* A release that wraps is remembered.                                     *)
Tame == exact => \A t \in Live : 2 * brk[t] < WORD

(* The pages of data and heap that fork copies and exit frees.             *)
OwnPages(t) == PageData .. PageHeap + HeapPages(brk[t]) - 1

Mapped == \A t \in Live : OwnPages(t) \subseteq Own(t)

(* Until a heap has grown to the end of a page or a release has wrapped,   *)
(* these are all there are, and no frame is in use that no page table      *)
(* holds.                                                                  *)
Exactly ==
  exact =>
    /\ \A t \in Task : Own(t) = IF t \in Live THEN OwnPages(t) ELSE {}
    /\ \A f \in phys_mem :
         \/ f \in 0 .. NUM_PAG_KERNEL - 1 \cup CodeFrames
         \/ \E t \in Task : \E p \in Own(t) : PT[t][p] = f

MemInv ==
  /\ MemTypeOK /\ CodeShared /\ CodeUsed /\ FromAlloc /\ Distinct
  /\ Heaps /\ Tame /\ Mapped /\ Exactly

-----------------------------------------------------------------------------
(* Arithmetic.                                                             *)

(* The quotient and the rest of a division.                                 *)
LEMMA Division ==
  ASSUME NEW a \in Nat, NEW d \in Nat \ {0}
  PROVE  /\ a \div d \in Nat /\ a % d \in 0 .. d - 1
         /\ a = d * (a \div d) + (a % d)
OBVIOUS

(* A multiple below the one after y is no later than the one at y.          *)
LEMMA Products ==
  ASSUME NEW x \in Int, NEW y \in Int, NEW d \in Nat \ {0}, d * x < d * (y + 1)
  PROVE  x <= y
OBVIOUS

(* A number is between the multiple at its quotient and the next one.       *)
LEMMA QuotientBounds ==
  ASSUME NEW a \in Nat, NEW d \in Nat \ {0}
  PROVE  /\ a \div d \in Nat
         /\ d * (a \div d) <= a /\ a < d * ((a \div d) + 1)
BY Division

(* Products distribute over sums and differences.                           *)
LEMMA Distributes ==
  ASSUME NEW d \in Int, NEW x \in Int, NEW y \in Int
  PROVE  /\ d * (x + y) = d * x + d * y
         /\ d * (x - y) = d * x - d * y
OBVIOUS

(* The quotient is the one number whose multiple is less than d away.      *)
LEMMA Quotient ==
  ASSUME NEW a \in Nat, NEW d \in Nat \ {0}, NEW q \in Int,
         d * q <= a, a < d * (q + 1)
  PROVE  a \div d = q
<1> DEFINE w == a \div d
<1>1. w \in Nat /\ d * w <= a /\ a < d * (w + 1)
  BY QuotientBounds
<1> HIDE DEF w
<1>2. d * q < d * (w + 1) /\ d * w < d * (q + 1)
  BY <1>1
<1>3. q <= w /\ w <= q
  BY <1>1, <1>2, Products
<1> QED
  BY <1>1, <1>3 DEF w

(* A multiple leaves no rest.                                               *)
LEMMA Multiple ==
  ASSUME NEW q \in Nat, NEW d \in Nat \ {0}
  PROVE  (d * q) % d = 0
<1>1. PICK a \in Nat : a = d * q
  OBVIOUS
<1>2. d * q <= a /\ a < d * (q + 1)
  BY <1>1, Distributes
<1>3. a \div d = q
  BY <1>2, Quotient
<1>4. a = d * q + (a % d) /\ a % d \in 0 .. d - 1
  BY <1>3, Division
<1>5. PICK r \in 0 .. d - 1 : r = a % d
  BY <1>4
<1> QED
  BY <1>1, <1>4, <1>5

(* A number below the divisor is its own rest.                              *)
LEMMA SmallMod ==
  ASSUME NEW a \in Nat, NEW m \in Nat, a < m PROVE a % m = a
<1>1. m * 0 <= a /\ a < m * (0 + 1) /\ m \in Nat \ {0}
  OBVIOUS
<1>2. a \div m = 0
  BY <1>1, Quotient
<1>3. a = m * (a \div m) + (a % m) /\ a % m \in 0 .. m - 1
  BY <1>1, Division
<1>4. PICK r \in 0 .. m - 1 : r = a % m
  BY <1>3
<1> QED
  BY <1>2, <1>3, <1>4

(* Products grow with their factors.                                        *)
LEMMA ProductsGrow ==
  ASSUME NEW d \in Nat, NEW x \in Nat, NEW y \in Nat, x <= y PROVE d * x <= d * y
OBVIOUS

(* The rest of a number less than one divisor below zero.                   *)
LEMMA WrappedMod ==
  ASSUME NEW a \in Int, NEW m \in Nat \ {0}, a < 0, -m <= a PROVE a % m = a + m
<1>1. PICK q \in Int, r \in 0 .. m - 1 : a = m * q + r /\ r = a % m
  OBVIOUS
<1>2. m * q < m * (-1 + 1) /\ m * (-2) < m * (q + 1)
  BY <1>1
<1>3. q = -1
  <2>1. q <= -1 /\ -2 <= q
    BY <1>2, Products
  <2>2. q # -2
    BY <1>1
  <2> QED
    BY <2>1, <2>2
<1> QED
  BY <1>1, <1>3

(* The heap begins with a page.                                            *)
LEMMA HeapAligned == L_HEAP_START % PAGE_SIZE = 0
<1>1. PICK q \in Nat : q = NUM_PAG_KERNEL + NUM_PAG_CODE + NUM_PAG_DATA
  BY MemoryAssumption
<1>2. PAGE_SIZE \in Nat \ {0} /\ L_HEAP_START = PAGE_SIZE * q
  BY <1>1, MemoryAssumption
<1> QED
  BY <1>2, Multiple

(* The page of the heap that an address lies in, as sys_sbrk and as        *)
(* sys_fork compute it.                                                    *)
LEMMA HeapPage ==
  ASSUME NEW b \in Nat, L_HEAP_START <= b, b < WORD
  PROVE  /\ PAG_HEAP(b) \in Nat
         /\ PAGE_SIZE * PAG_HEAP(b) <= b - L_HEAP_START
         /\ b - L_HEAP_START < PAGE_SIZE * (PAG_HEAP(b) + 1)
         /\ PAG_HEAP(b) = (b - L_HEAP_START) \div PAGE_SIZE
         /\ aligned(b) <=> b - L_HEAP_START = PAGE_SIZE * PAG_HEAP(b)
<1>1. PICK d \in Nat \ {0}, h \in Nat, m \in Nat \ {0}, a \in Nat, l \in Nat :
        /\ d = PAGE_SIZE /\ h = L_HEAP_START /\ a = b - h
        /\ m = WORD /\ a < m /\ h = d * l /\ h % d = 0
  <2>1. /\ PAGE_SIZE \in Nat \ {0} /\ L_HEAP_START \in Nat \ {0}
        /\ WORD \in Nat \ {0} /\ L_HEAP_START % PAGE_SIZE = 0
    BY MemoryAssumption, HeapAligned
  <2>2. L_HEAP_START = PAGE_SIZE * (L_HEAP_START \div PAGE_SIZE)
        /\ L_HEAP_START \div PAGE_SIZE \in Nat
    BY <2>1, Division
  <2>3. b - L_HEAP_START \in Nat /\ b - L_HEAP_START < WORD
    BY <2>1
  <2> QED
    BY <2>1, <2>2, <2>3
<1>2. a \div m = 0 /\ a % m = a
  <2>1. m * 0 <= a /\ a < m * (0 + 1)
    BY <1>1
  <2>2. a \div m = 0
    BY <2>1, Quotient
  <2>3. a = m * (a \div m) + (a % m) /\ a % m \in 0 .. m - 1
    BY Division
  <2>4. PICK r \in 0 .. m - 1 : r = a % m
    BY <2>3
  <2> QED
    BY <2>2, <2>3, <2>4
<1> DEFINE w == a \div d
<1>3. w \in Nat /\ d * w <= a /\ a < d * (w + 1)
  BY QuotientBounds
<1>4. PAG_HEAP(b) = w
  BY <1>1, <1>2 DEF PAG_HEAP
<1>5. aligned(b) <=> a = d * w
  <2>1. b = h + a
    BY <1>1
  <2>2. ASSUME b % d = 0 PROVE a = d * w
    <3>1. PICK q \in Nat : b = d * q
      <4>1. b = d * (b \div d) + (b % d) /\ b \div d \in Nat
        BY Division
      <4> QED
        BY <2>2, <4>1
    <3>2. a = d * (q - l)
      <4>1. a = d * q - d * l
        <5>1. PICK x \in Int, y \in Int : x = d * q /\ y = d * l
          OBVIOUS
        <5> QED
          BY <1>1, <2>1, <3>1, <5>1
      <4>2. d \in Int /\ q \in Int /\ l \in Int
        OBVIOUS
      <4> QED
        BY <4>1, <4>2, Distributes
    <3>3. d * (q - l) <= a /\ a < d * ((q - l) + 1) /\ q - l \in Int
      BY <3>2
    <3>4. w = q - l
      BY <3>3, Quotient
    <3> QED
      BY <3>2, <3>4
  <2>3. ASSUME a = d * w PROVE b % d = 0
    <3> HIDE DEF w
    <3>1. b = d * (l + w) /\ l + w \in Nat
      BY <1>1, <1>3, <2>1, <2>3, Distributes
    <3> QED
      BY <3>1, Multiple
  <2> QED
    BY <1>1, <2>2, <2>3 DEF aligned
<1> HIDE DEF w
<1> QED
  <2>1. (b - L_HEAP_START) \div PAGE_SIZE = w
    BY <1>1 DEF w
  <2> QED
    BY <1>1, <1>3, <1>4, <1>5, <2>1

(* The pages of a heap that ends at b.                                     *)
LEMMA HeapSize ==
  ASSUME NEW b \in Nat, L_HEAP_START <= b, 2 * b < WORD
  PROVE  /\ heap(b) = IF aligned(b) THEN PAG_HEAP(b) ELSE PAG_HEAP(b) + 1
         /\ heap(b) \in Nat /\ PAG_HEAP(b) \in Nat
         /\ b - L_HEAP_START <= PAGE_SIZE * heap(b)
<1>1. b < WORD /\ WORD \in Nat /\ PAGE_SIZE \in Nat /\ L_HEAP_START \in Nat
  BY MemoryAssumption
<1>2. /\ PAG_HEAP(b) \in Nat
      /\ b - L_HEAP_START < PAGE_SIZE * (PAG_HEAP(b) + 1)
      /\ PAG_HEAP(b) = (b - L_HEAP_START) \div PAGE_SIZE
      /\ aligned(b) <=> b - L_HEAP_START = PAGE_SIZE * PAG_HEAP(b)
  BY <1>1, HeapPage
<1>3. signed(b) = b
  BY DEF signed
<1>4. heap(b) = IF aligned(b) THEN PAG_HEAP(b) ELSE PAG_HEAP(b) + 1
  BY <1>2, <1>3 DEF heap, pag_heap
<1>5. PICK w \in Nat : w = PAG_HEAP(b)
  BY <1>2
<1> QED
  BY <1>1, <1>2, <1>4, <1>5

-----------------------------------------------------------------------------
(* The search for free frames.                                             *)

(* A finite set of numbers has an i-th one.                                *)
LEMMA NthNumber ==
  ASSUME NEW N \in Nat, NEW F, F \subseteq 0 .. N, NEW i \in 1 .. Cardinality(F)
  PROVE  \E f \in F : Cardinality({g \in F : g <= f}) = i
<1> DEFINE B(m) == {g \in F : g <= m}
           c(m) == Cardinality(B(m))
<1>1. IsFiniteSet(F) /\ Cardinality(F) \in Nat /\ F \subseteq Nat
  <2>1. IsFiniteSet(0 .. N)
    BY FS_Interval
  <2>2. IsFiniteSet(F)
    BY <2>1, FS_Subset
  <2> QED
    BY <2>2, FS_CardinalityType
<1>2. ASSUME NEW m PROVE IsFiniteSet(B(m)) /\ c(m) \in Nat
  <2>1. B(m) \in SUBSET F
    OBVIOUS
  <2>2. IsFiniteSet(B(m))
    BY <1>1, <2>1, FS_Subset
  <2> HIDE DEF B
  <2> QED
    BY <2>2, FS_CardinalityType
<1>3. /\ B(N) = F /\ B(-1) = {}
      /\ \A m \in Nat : B(m) = IF m \in F THEN B(m - 1) \cup {m} ELSE B(m - 1)
      /\ \A m \in Nat : m \notin B(m - 1)
  <2>1. B(N) = F /\ B(-1) = {}
    <3>1. \A g \in F : g <= N /\ ~ (g <= -1)
      OBVIOUS
    <3> QED
      BY <3>1
  <2>2. ASSUME NEW m \in Nat
        PROVE  /\ B(m) = IF m \in F THEN B(m - 1) \cup {m} ELSE B(m - 1)
               /\ m \notin B(m - 1)
    <3>1. \A g \in Nat : g <= m <=> g <= m - 1 \/ g = m
      OBVIOUS
    <3>2. \A g \in F : g <= m <=> g <= m - 1 \/ g = m
      BY <1>1, <3>1
    <3>3. ~ (m <= m - 1)
      OBVIOUS
    <3>4. m \in F => B(m) = B(m - 1) \cup {m}
      <4>1. m <= m
        OBVIOUS
      <4> QED
        BY <3>2, <4>1
    <3>5. m \notin F => B(m) = B(m - 1)
      BY <3>2
    <3> QED
      BY <3>3, <3>4, <3>5
  <2> QED
    BY <2>1, <2>2
<1> HIDE DEF B
<1>4. c(N) = Cardinality(F) /\ c(-1) = 0 /\ i \in Nat /\ 0 < i /\ i <= c(N)
  BY <1>1, <1>3, FS_EmptySet
<1> HIDE DEF c
<1>5. PICK m \in Nat : c(m) >= i /\ \A k \in Nat : c(k) >= i => m <= k
  <2> DEFINE T == {m \in Nat : c(m) >= i}
  <2>1. T \subseteq Nat /\ N \in T
    BY <1>2, <1>4
  <2>2. \A k \in Nat : c(k) >= i => k \in T
    OBVIOUS
  <2>3. \A k \in T : k \in Nat /\ c(k) >= i
    OBVIOUS
  <2> HIDE DEF T
  <2>4. PICK m \in T : \A k \in T : m <= k
    BY <2>1, SmallestNumber
  <2> QED
    BY <2>2, <2>3, <2>4
<1>6. c(m - 1) < i
  <2>1. CASE m = 0
    BY <1>4, <2>1
  <2>2. CASE m # 0
    <3>1. m - 1 \in Nat /\ ~ (m <= m - 1)
      BY <2>2
    <3>2. ~ (c(m - 1) >= i)
      BY <1>5, <3>1
    <3> QED
      BY <1>2, <1>4, <3>2
  <2> QED
    BY <2>1, <2>2
<1>7. m \in F
  BY <1>2, <1>3, <1>4, <1>5, <1>6 DEF c
<1>8. c(m) = c(m - 1) + 1
  <2>1. B(m) = B(m - 1) \cup {m} /\ m \notin B(m - 1)
    BY <1>3, <1>7
  <2>2. Cardinality(B(m - 1) \cup {m}) = Cardinality(B(m - 1)) + 1
    BY <1>2, <2>1, FS_AddElement
  <2> QED
    BY <2>1, <2>2 DEF c
<1>9. c(m) = i
  <2>1. PICK x \in Nat, y \in Nat : x = c(m) /\ y = c(m - 1)
    BY <1>2
  <2> QED
    BY <1>4, <1>5, <1>6, <1>8, <2>1
<1> QED
  BY <1>7, <1>9 DEF c, B

(* n calls of alloc_frame, when there are that many free frames, return n  *)
(* of them, all different.                                                 *)
Unused(fs, n) ==
  /\ fs \in Seq(Allocatable \ phys_mem) /\ Len(fs) = n
  /\ \A i, j \in 1 .. n : fs[i] = fs[j] => i = j

(* alloc_frames answers with as many different free frames as are asked for,
   as long as there are that many.                                          *)
LEMMA FreeFrames ==
  /\ Cardinality(Allocatable \ phys_mem) \in Nat
  /\ Len(free_frames) = Cardinality(Allocatable \ phys_mem)
  /\ \A n \in 0 .. Len(free_frames) : Unused(alloc_frames(n), n)
<1> DEFINE free == Allocatable \ phys_mem
           rank(f) == Cardinality({g \in free : g <= f})
           c == Cardinality(free)
<1>1. TOTAL_PAGES \in Nat /\ NUM_PAG_KERNEL \in Nat
  BY MemoryAssumption
<1>2. free \subseteq 0 .. TOTAL_PAGES
  BY <1>1 DEF Allocatable
<1>3. c \in Nat
  <2>1. IsFiniteSet(0 .. TOTAL_PAGES)
    BY <1>1, FS_Interval
  <2>2. IsFiniteSet(free)
    BY <1>2, <2>1, FS_Subset
  <2> QED
    BY <2>2, FS_CardinalityType
<1>4. free_frames = [i \in 1 .. c |-> CHOOSE f \in free : rank(f) = i]
  BY DEF free_frames
<1>5. \A i \in 1 .. c : \E f \in free : rank(f) = i
  BY <1>1, <1>2, NthNumber
<1> HIDE DEF free, rank, c
<1>6. \A i \in 1 .. c : free_frames[i] \in free /\ rank(free_frames[i]) = i
  BY <1>4, <1>5
<1>7. free_frames \in Seq(free) /\ Len(free_frames) = c
  BY <1>3, <1>4, <1>6
<1>8. ASSUME NEW n \in 0 .. c PROVE Unused(alloc_frames(n), n)
  <2> DEFINE fs == alloc_frames(n)
  <2>1. fs \in Seq(free) /\ Len(fs) = n /\ \A i \in 1 .. n : fs[i] = free_frames[i]
    BY <1>3, <1>7 DEF alloc_frames
  <2> HIDE DEF fs
  <2>2. \A i \in 1 .. n : i \in 1 .. c
    BY <1>3
  <2>3. \A i, j \in 1 .. n : fs[i] = fs[j] => i = j
    BY <1>6, <2>1, <2>2
  <2> QED
    BY <2>1, <2>3 DEF Unused, fs, free
<1> QED
  BY <1>3, <1>7, <1>8 DEF c, free

-----------------------------------------------------------------------------
(* Frames and pages.                                                       *)

Frame == 0 .. TOTAL_PAGES - 1

(* The sizes are numbers; the frames of the code can be found by           *)
(* alloc_frame, and the first of them is the one that is never freed.      *)
LEMMA Sizes ==
  /\ NUM_PAG_KERNEL \in Nat \ {0} /\ TOTAL_PAGES \in Nat \ {0}
  /\ NUM_PAG_CODE \in Nat \ {0} /\ NUM_PAG_DATA \in Nat \ {0}
  /\ PAGE_SIZE \in Nat \ {0} /\ L_HEAP_START \in Nat \ {0} /\ WORD \in Nat \ {0}
  /\ NUM_PAG_KERNEL + 2 * (NUM_PAG_CODE + NUM_PAG_DATA) <= TOTAL_PAGES
  /\ PageHeap = NUM_PAG_CODE + NUM_PAG_DATA /\ PageData = NUM_PAG_CODE
  /\ LastPage \in Nat /\ PageHeap <= LastPage
BY MemoryAssumption DEF PageHeap, PageData, LastPage

(* Where page tables end.                                                   *)
LEMMA Pages == Page = 0 .. LastPage /\ LastPage = TOTAL_PAGES - NUM_PAG_KERNEL - 1
BY DEF Page, LastPage

(* What sbrk is called with, and how large addresses are.                   *)
LEMMA Increments ==
  /\ INCREMENTS \subseteq Int
  /\ \A n \in INCREMENTS : -WORD <= 2 * n /\ 2 * n < WORD
  /\ 2 * PAGE_SIZE <= WORD
<1>1. PICK x \in Nat, y \in Nat, l \in Nat :
        /\ x = PAGE_SIZE * TOTAL_PAGES /\ y = PAGE_SIZE * (TOTAL_PAGES - NUM_PAG_KERNEL)
        /\ l = L_HEAP_START /\ 2 * (l + x) < WORD /\ y <= x /\ PAGE_SIZE <= x
  <2>1. PICK p \in Nat, q \in Nat, u \in Nat :
          /\ p = TOTAL_PAGES /\ q = TOTAL_PAGES - NUM_PAG_KERNEL /\ q <= p
          /\ u = 1 /\ u <= p
    BY Sizes
  <2>2. PAGE_SIZE \in Nat /\ PAGE_SIZE * 1 = PAGE_SIZE
    BY Sizes
  <2>3. PAGE_SIZE * q <= PAGE_SIZE * p /\ PAGE_SIZE * u <= PAGE_SIZE * p
    BY <2>1, <2>2, ProductsGrow
  <2> QED
    BY <2>1, <2>2, <2>3, MemoryAssumption
<1>2. WORD \in Nat
  BY Sizes
<1>3. ASSUME NEW n \in INCREMENTS PROVE n \in Int /\ -WORD <= 2 * n /\ 2 * n < WORD
  <2>1. n \in Int /\ -WORD <= 2 * n /\ n <= y
    BY <1>1, MemoryAssumption
  <2> QED
    BY <1>1, <1>2, <2>1
<1> QED
  BY <1>1, <1>2, <1>3, Sizes

(* An even number leaves no rest by 2.                                      *)
LEMMA EvenFrame ==
  ASSUME NEW k \in Int PROVE (2 * k) % 2 = 0
OBVIOUS

(* The frames of the code can be obtained, and no other frame comes before them. *)
LEMMA CodeFrameFacts ==
  /\ CodeFrames \subseteq Allocatable
  /\ NUM_PAG_KERNEL \in CodeFrames
  /\ \A p \in 0 .. PageHeap - 1 : CodeFrame(p) \in Allocatable
  /\ \A f \in Allocatable :
       f \in Frame /\ f # 0 /\ (f \notin CodeFrames => f > NUM_PAG_KERNEL)
<1>1. ASSUME NEW p \in 0 .. PageHeap - 1 PROVE CodeFrame(p) \in Allocatable
  <2>1. /\ CodeFrame(p) \in NUM_PAG_KERNEL .. TOTAL_PAGES - 1
        /\ CodeFrame(p) - NUM_PAG_KERNEL = 2 * p /\ p \in Int
    BY Sizes DEF CodeFrame
  <2>2. (CodeFrame(p) - NUM_PAG_KERNEL) % 2 = 0
    BY <2>1, EvenFrame
  <2> QED
    BY <2>1, <2>2 DEF Allocatable
<1>2. \A p \in Code : p \in 0 .. PageHeap - 1
  BY Sizes DEF Code
<1>3. 0 \in Code /\ CodeFrame(0) = NUM_PAG_KERNEL
  BY Sizes DEF Code, CodeFrame
<1>4. NUM_PAG_KERNEL \in CodeFrames
  BY <1>3 DEF CodeFrames
<1>5. \A f \in Allocatable :
        f \in Frame /\ f # 0 /\ (f \notin CodeFrames => f > NUM_PAG_KERNEL)
  BY <1>4, Sizes DEF Allocatable, Frame
<1> QED
  BY <1>1, <1>2, <1>4, <1>5 DEF CodeFrames

(* A page table after set_ss_pag of frames that were free, and after       *)
(* del_ss_pag.                                                             *)
LEMMA SetPages ==
  ASSUME NEW pt \in [Page -> Frame], NEW first \in Nat, NEW n \in Nat,
         NEW fs, Unused(fs, n), first + n - 1 <= LastPage
  PROVE  /\ set_ss_pag(pt, first, fs) \in [Page -> Frame]
         /\ \A p \in Page :
              set_ss_pag(pt, first, fs)[p]
                = IF p \in first .. first + n - 1 THEN fs[p - first + 1] ELSE pt[p]
         /\ \A p \in first .. first + n - 1 :
              /\ p - first + 1 \in 1 .. n
              /\ fs[p - first + 1] \in Allocatable \ phys_mem
<1>1. ASSUME NEW p \in first .. first + n - 1
      PROVE  p - first + 1 \in 1 .. n /\ fs[p - first + 1] \in Allocatable \ phys_mem
  BY DEF Unused
<1>2. \A f \in Allocatable : f \in Frame
  BY CodeFrameFacts
<1>3. Len(fs) = n
  BY DEF Unused
<1>4. Page \cup (first .. first + n - 1) = Page
  BY Sizes, Pages
<1> QED
  BY <1>1, <1>2, <1>3, <1>4 DEF set_ss_pag

(* del_ss_pag empties the entries it is asked to, and no other.             *)
LEMMA DelPages ==
  ASSUME NEW pt \in [Page -> Frame], NEW first \in Nat, NEW n \in Nat,
         first + n - 1 <= LastPage
  PROVE  /\ del_ss_pag(pt, first, n) \in [Page -> Frame]
         /\ \A p \in Page :
              del_ss_pag(pt, first, n)[p]
                = IF p \in first .. first + n - 1 THEN 0 ELSE pt[p]
<1>1. Page \cup (first .. first + n - 1) = Page
  BY Sizes, Pages
<1>2. 0 \in Frame
  BY Sizes DEF Frame
<1> QED
  BY <1>1, <1>2 DEF del_ss_pag

(* No page to empty, no frame to free: nothing changes.                     *)
LEMMA NoPages ==
  ASSUME NEW c \in Task, NEW first \in Int, NEW n \in Int, n <= 0,
         PT \in [Task -> [Page -> Frame]],
         free_frame(frames_of(PT[c], first, n)),
         PT' = [PT EXCEPT ![c] = del_ss_pag(PT[c], first, n)]
  PROVE  UNCHANGED <<phys_mem, PT>>
<1>1. first .. first + n - 1 = {}
  OBVIOUS
<1>2. PICK row \in [Page -> Frame] : row = PT[c]
  OBVIOUS
<1>3. del_ss_pag(row, first, n) = row
  BY <1>1 DEF del_ss_pag
<1>4. frames_of(row, first, n) = {}
  BY <1>1 DEF frames_of
<1> QED
  BY <1>2, <1>3, <1>4 DEF free_frame

(* Page tables that keep frames still in use, or hold new ones in the      *)
(* pages from first of one PCB...                                          *)
OnlyNew(who, first, n, fs) ==
  \A t \in Task : \A p \in Own(t)' :
    \/ p \in Own(t) /\ PT'[t][p] = PT[t][p] /\ PT[t][p] \in phys_mem'
    \/ t = who /\ p \in first .. first + n - 1 /\ PT'[t][p] = fs[p - first + 1]

(* ...keep all frames apart.                                               *)
LEMMA TablesStep ==
  ASSUME FromAlloc, Distinct, CodeUsed, NEW who \in Task, NEW first \in Nat,
         NEW n \in Nat, NEW fs, Unused(fs, n), Range(fs) \subseteq phys_mem',
         OnlyNew(who, first, n, fs)
  PROVE  FromAlloc' /\ Distinct'
<1> DEFINE Kept(t, p) == p \in Own(t) /\ PT'[t][p] = PT[t][p] /\ PT[t][p] \in phys_mem'
           New(t, p)  == /\ t = who /\ p \in first .. first + n - 1
                         /\ PT'[t][p] = fs[p - first + 1]
<1>1. \A t \in Task : \A p \in Own(t)' : Kept(t, p) \/ New(t, p)
  BY DEF OnlyNew
<1>2. ASSUME NEW t \in Task, NEW p, New(t, p)
      PROVE  /\ PT'[t][p] \in (Allocatable \cap phys_mem') \ CodeFrames
             /\ PT'[t][p] \notin phys_mem /\ p \in Nat /\ p - first + 1 \in 1 .. n
  <2>1. p - first + 1 \in 1 .. n /\ p \in Nat
    BY <1>2
  <2>2. /\ fs[p - first + 1] \in Allocatable \ phys_mem
        /\ fs[p - first + 1] \in Range(fs)
    BY <2>1 DEF Unused, Range
  <2> QED
    BY <1>2, <2>1, <2>2 DEF CodeUsed
<1>3. ASSUME NEW t \in Task, NEW p, Kept(t, p)
      PROVE  PT'[t][p] \in (Allocatable \cap phys_mem \cap phys_mem') \ CodeFrames
  BY <1>3 DEF FromAlloc
<1>4. ASSUME NEW t \in Task, NEW u \in Task, NEW p \in Own(t)', NEW q \in Own(u)',
             PT'[t][p] = PT'[u][q]
      PROVE  t = u /\ p = q
  <2>1. CASE Kept(t, p) /\ Kept(u, q)
    <3>1. p \in Own(t) /\ q \in Own(u) /\ PT[t][p] = PT[u][q]
      BY <1>4, <2>1
    <3> QED
      BY <3>1 DEF Distinct
  <2>2. CASE New(t, p) /\ New(u, q)
    <3>1. p - first + 1 = q - first + 1 /\ p \in Nat /\ q \in Nat
      BY <1>2, <1>4, <2>2 DEF Unused
    <3> QED
      BY <2>2, <3>1
  <2>3. CASE Kept(t, p) /\ New(u, q)
    BY <1>2, <1>3, <1>4, <2>3
  <2>4. CASE New(t, p) /\ Kept(u, q)
    BY <1>2, <1>3, <1>4, <2>4
  <2> HIDE DEF Kept, New
  <2> QED
    BY <1>1, <2>1, <2>2, <2>3, <2>4
<1>5. FromAlloc'
  <2> SUFFICES ASSUME NEW t \in Task, NEW p \in Own(t)'
               PROVE  PT'[t][p] \in (Allocatable \cap phys_mem') \ CodeFrames
    BY DEF FromAlloc
  <2> HIDE DEF Kept, New
  <2> QED
    BY <1>1, <1>2, <1>3
<1> QED
  BY <1>4, <1>5 DEF Distinct

-----------------------------------------------------------------------------
(* How far heaps go.                                                       *)

(* Half the frames at most can be obtained.                                *)
LEMMA Halves ==
  /\ IsFiniteSet(Allocatable) /\ Cardinality(Allocatable) \in Nat
  /\ Cardinality(Allocatable) <= LastPage
<1>1. PICK k \in Nat, l \in Nat :
        k = NUM_PAG_KERNEL /\ l = LastPage /\ TOTAL_PAGES - 1 = k + l /\ l >= 1
  BY Sizes, Pages
<1> DEFINE F == (k .. k + l) \ {k + 1}
<1>2. IsFiniteSet(k .. k + l) /\ Cardinality(k .. k + l) = l + 1
  BY FS_Interval
<1>3. IsFiniteSet(F) /\ Cardinality(F) = l
  <2>1. k + 1 \in k .. k + l
    BY <1>1
  <2>2. IsFiniteSet(F) /\ Cardinality(F) = Cardinality(k .. k + l) - 1
    BY <1>2, <2>1, FS_RemoveElement
  <2> QED
    BY <1>2, <2>2
<1>4. Allocatable \in SUBSET F
  <2>1. (k + 1 - k) % 2 # 0
    OBVIOUS
  <2> QED
    BY <1>1, <2>1 DEF Allocatable
<1> HIDE DEF F
<1>5. IsFiniteSet(Allocatable) /\ Cardinality(Allocatable) <= Cardinality(F)
  BY <1>3, <1>4, FS_Subset
<1> QED
  BY <1>1, <1>3, <1>5, FS_CardinalityType

(* What MemInv says of the heap of a live process.                         *)
LEMMA LiveHeap ==
  ASSUME MemInv, NEW t \in Live, Live \subseteq Task
  PROVE  /\ brk[t] \in Nat /\ brk[t] < WORD
         /\ HeapPages(brk[t]) \in Nat /\ PageHeap + HeapPages(brk[t]) <= LastPage
         /\ exact => ~Wild(t)
         /\ ~Wild(t) => /\ L_HEAP_START <= brk[t] /\ 2 * brk[t] < WORD
                        /\ HeapPages(brk[t]) = heap(brk[t])
         /\ Wild(t) => 2 * brk[t] >= WORD /\ HeapPages(brk[t]) = 0
<1>1. PICK b \in Nat, w \in Nat : b = brk[t] /\ w = WORD /\ b < w
  BY Sizes DEF MemInv, MemTypeOK
<1>2. /\ 2 * b < w => L_HEAP_START <= b
      /\ PageHeap + HeapPages(b) <= LastPage /\ (exact => 2 * b < w)
  BY <1>1 DEF MemInv, Heaps, Tame
<1>3. Wild(t) <=> ~ (2 * b < w)
  <2>1. signed(b) = IF 2 * b < w THEN b ELSE b - w
    BY <1>1 DEF signed
  <2> QED
    BY <1>1, <2>1 DEF Wild
<1>4. CASE 2 * b < w
  <2>1. HeapPages(b) = heap(b) /\ heap(b) \in Nat
    BY <1>1, <1>2, <1>4, HeapSize DEF HeapPages
  <2> QED
    BY <1>1, <1>2, <1>3, <1>4, <2>1
<1>5. CASE ~ (2 * b < w)
  <2>1. HeapPages(b) = 0
    BY <1>1, <1>5 DEF HeapPages
  <2> QED
    BY <1>1, <1>2, <1>3, <1>5, <2>1
<1> QED
  BY <1>4, <1>5

(* There are not more pages than frames: what the running process has and  *)
(* what is free fit in the page table together.                            *)
LEMMA Room ==
  ASSUME IInv, MemInv, Running, ~Wild(current)
  PROVE  /\ heap(brk[current]) \in Nat /\ Len(free_frames) \in Nat
         /\ PageHeap + heap(brk[current]) + Len(free_frames) <= LastPage
<1> DEFINE used == Allocatable \cap phys_mem
           m    == PageHeap + heap(brk[current])
           g    == [p \in 0 .. m - 1 |-> PT[current][p]]
<1>1. current \in Task /\ current \in Live /\ Live \subseteq Task
  BY DEF IInv, TypeOK, Running, Live, OnePlace
<1>2. /\ HeapPages(brk[current]) = heap(brk[current]) /\ m <= LastPage
      /\ heap(brk[current]) \in Nat
  BY <1>1, LiveHeap
<1>3. heap(brk[current]) \in Nat
  BY <1>2
<1>4. m \in Nat /\ m > 0 /\ Code \subseteq 0 .. m - 1
      /\ \A p \in 0 .. m - 1 : p \in Page /\ (p \notin Code => p \in OwnPages(current))
  BY <1>2, <1>3, Sizes, Pages DEF Code, OwnPages
<1> HIDE DEF m
<1>5. ASSUME NEW p \in Code
      PROVE  PT[current][p] = CodeFrame(p) /\ PT[current][p] \in CodeFrames \cap used
  BY <1>1, CodeFrameFacts DEF MemInv, CodeShared, CodeUsed, CodeFrames
<1>6. ASSUME NEW p \in OwnPages(current)
      PROVE  p \in Own(current) /\ PT[current][p] \in used \ CodeFrames
  BY <1>1 DEF MemInv, Mapped, FromAlloc
<1>7. g \in Injection(0 .. m - 1, used)
  <2>1. g \in [0 .. m - 1 -> used]
    BY <1>4, <1>5, <1>6
  <2>2. ASSUME NEW p \in 0 .. m - 1, NEW q \in 0 .. m - 1, PT[current][p] = PT[current][q]
        PROVE  p = q
    <3>1. CASE p \in Code /\ q \in Code
      BY <1>5, <2>2, <3>1, Sizes DEF CodeFrame
    <3>2. CASE p \in OwnPages(current) /\ q \in OwnPages(current)
      BY <1>1, <1>6, <2>2, <3>2 DEF MemInv, Distinct
    <3>3. CASE (p \in Code) # (q \in Code)
      BY <1>4, <1>5, <1>6, <2>2, <3>3
    <3> QED
      BY <1>4, <3>1, <3>2, <3>3
  <2> QED
    BY <2>1, <2>2 DEF Injection, IsInjective
<1>8. /\ IsFiniteSet(used) /\ IsFiniteSet(Allocatable)
      /\ Cardinality(Allocatable) <= LastPage
      /\ Cardinality(used) \in Nat /\ Cardinality(Allocatable) \in Nat
  <2>1. IsFiniteSet(used)
    BY Halves, FS_Subset
  <2> QED
    BY <2>1, Halves, FS_CardinalityType
<1>9. m <= Cardinality(used)
  <2>1. IsFiniteSet(0 .. m - 1) /\ Cardinality(0 .. m - 1) = m
    BY <1>4, FS_Interval
  <2>2. Cardinality(0 .. m - 1) <= Cardinality(used)
    BY <1>7, <1>8, FS_Injection
  <2> QED
    BY <2>1, <2>2
<1>10. Len(free_frames) = Cardinality(Allocatable) - Cardinality(used)
  BY <1>8, FreeFrames, FS_Difference
<1>11. Len(free_frames) \in Nat
  BY FreeFrames
<1> HIDE DEF used
<1>12. PICK x \in Nat, y \in Nat, z \in Nat :
        x = Cardinality(used) /\ y = Cardinality(Allocatable) /\ z = Len(free_frames)
  BY <1>8, <1>11
<1>13. m + z <= LastPage
  BY <1>4, <1>8, <1>9, <1>10, <1>12, Sizes
<1> QED
  BY <1>3, <1>11, <1>12, <1>13 DEF m

(* A heap that ends later has no fewer pages.                              *)
LEMMA HeapGrows ==
  ASSUME NEW a \in Nat, NEW b \in Nat, L_HEAP_START <= a, a <= b, b < WORD
  PROVE  PAG_HEAP(a) <= PAG_HEAP(b) /\ PAG_HEAP(a) \in Nat /\ PAG_HEAP(b) \in Nat
<1>1. a < WORD /\ L_HEAP_START <= b /\ L_HEAP_START \in Nat /\ PAGE_SIZE \in Nat \ {0}
      /\ WORD \in Nat
  BY Sizes
<1>2. PICK x \in Nat, y \in Nat :
        /\ x = PAG_HEAP(a) /\ y = PAG_HEAP(b)
        /\ PAGE_SIZE * x <= a - L_HEAP_START
        /\ b - L_HEAP_START < PAGE_SIZE * (y + 1)
  BY <1>1, HeapPage
<1>3. PAGE_SIZE * x < PAGE_SIZE * (y + 1)
  <2>1. PICK u \in Int, v \in Int, l \in Nat :
          u = PAGE_SIZE * x /\ v = PAGE_SIZE * (y + 1) /\ l = L_HEAP_START
    BY <1>1
  <2> QED
    BY <1>2, <2>1
<1> QED
  BY <1>1, <1>2, <1>3, Products

(* What sbrk_grow computes, when there are frames for it: the pages it     *)
(* maps begin where the heap's pages end, and go on to the page of the new *)
(* brk, which the page table still has.                                    *)
LEMMA GrowFacts ==
  ASSUME IInv, MemInv, Running, ~Wild(current), NEW n \in INCREMENTS, n > 0
  PROVE  LET old   == brk[current]
             new   == (old + n) % WORD
             pags  == PAG_HEAP(new) - PAG_HEAP(old) + (IF aligned(old) THEN 1 ELSE 0)
             first == PageHeap + PAG_HEAP(old) + (IF aligned(old) THEN 0 ELSE 1)
         IN  Len(free_frames) >= pags =>
               /\ old \in Nat /\ heap(old) \in Nat /\ pags \in 0 .. Len(free_frames)
               /\ first = PageHeap + heap(old)
               /\ new = old + n /\ L_HEAP_START <= new /\ 2 * new < WORD
               /\ heap(new) \in Nat /\ heap(old) <= heap(new)
               /\ first + pags <= LastPage
               /\ first + pags - 1 = PageHeap + PAG_HEAP(new)
               /\ heap(new) = PAG_HEAP(new) + (IF aligned(new) THEN 0 ELSE 1)
<1> DEFINE old   == brk[current]
           new   == (old + n) % WORD
           al    == IF aligned(old) THEN 1 ELSE 0
           pags  == PAG_HEAP(new) - PAG_HEAP(old) + al
           first == PageHeap + PAG_HEAP(old) + (IF aligned(old) THEN 0 ELSE 1)
<1> SUFFICES ASSUME Len(free_frames) >= pags
             PROVE  /\ old \in Nat /\ heap(old) \in Nat /\ pags \in 0 .. Len(free_frames)
                    /\ first = PageHeap + heap(old)
                    /\ new = old + n /\ L_HEAP_START <= new /\ 2 * new < WORD
                    /\ heap(new) \in Nat /\ heap(old) <= heap(new)
                    /\ first + pags <= LastPage
                    /\ first + pags - 1 = PageHeap + PAG_HEAP(new)
                    /\ heap(new) = PAG_HEAP(new) + (IF aligned(new) THEN 0 ELSE 1)
  OBVIOUS
<1>1. current \in Task /\ current \in Live /\ Live \subseteq Task
  BY DEF IInv, TypeOK, Running, Live, OnePlace
<1>2. old \in Nat /\ L_HEAP_START <= old /\ 2 * old < WORD
  BY <1>1, LiveHeap
<1>3. n \in Nat /\ 2 * n < WORD
  BY Increments
<1>4. new = old + n /\ new < WORD /\ new \in Nat /\ L_HEAP_START <= new /\ old <= new
  <2>1. old + n \in Nat /\ old + n < WORD /\ WORD \in Nat
    BY <1>2, <1>3, Sizes, SMTT(60)
  <2>2. new = old + n
    BY <2>1, SmallMod
  <2> HIDE DEF new, old
  <2> QED
    BY <1>2, <1>3, <2>1, <2>2, Sizes
<1> HIDE DEF old, new
<1>5. /\ PAG_HEAP(old) \in Nat /\ PAG_HEAP(new) \in Nat
      /\ PAG_HEAP(old) <= PAG_HEAP(new)
  BY <1>2, <1>4, HeapGrows
<1>6. /\ heap(old) = IF aligned(old) THEN PAG_HEAP(old) ELSE PAG_HEAP(old) + 1
      /\ heap(old) \in Nat
  BY <1>2, HeapSize
<1>7. Len(free_frames) \in Nat /\ PageHeap + heap(old) + Len(free_frames) <= LastPage
  BY Room DEF old
<1>8. PICK w \in Nat, v \in Nat, l \in Nat :
        w = PAG_HEAP(new) /\ v = PAG_HEAP(old) /\ l = Len(free_frames) /\ v <= w
  BY <1>5, <1>7
<1>9. /\ pags \in 0 .. Len(free_frames) /\ first = PageHeap + heap(old)
      /\ first + pags - 1 = PageHeap + w /\ first + pags <= LastPage
  <2>1. PICK a \in 0 .. 1, ph \in Nat, tot \in Nat :
          /\ a = al /\ ph = PageHeap /\ tot = LastPage
          /\ aligned(old) => a = 1
          /\ ~ aligned(old) => a = 0
    BY Sizes
  <2>2. /\ heap(old) = v + (1 - a) /\ pags = (w - v) + a
        /\ first = ph + v + (1 - a)
    BY <1>6, <1>8, <2>1
  <2>3. v <= w /\ l >= (w - v) + a /\ ph + (v + (1 - a)) + l <= tot
    BY <1>7, <1>8, <2>1, <2>2
  <2>4. /\ (w - v) + a \in 0 .. l
        /\ (ph + v + (1 - a)) + ((w - v) + a) - 1 = ph + w
        /\ (ph + v + (1 - a)) + ((w - v) + a) <= tot
        /\ ph + v + (1 - a) = ph + (v + (1 - a))
    BY <2>3
  <2> HIDE DEF al, pags, first
  <2> QED
    BY <1>8, <2>1, <2>2, <2>4
<1>10. 2 * new < WORD
  <2>1. w + 1 <= TOTAL_PAGES
    <3>1. PICK ph \in Nat, tot \in Nat :
            ph = PageHeap /\ tot = LastPage /\ tot <= TOTAL_PAGES
      BY Sizes, Pages
    <3>2. first + pags = ph + w + 1
      <4>1. PICK x \in Int, y \in Int : x = first /\ y = pags
        BY <1>6, <1>9, Sizes
      <4> HIDE DEF first, pags
      <4> QED
        BY <1>9, <3>1, <4>1
    <3>3. first + pags <= tot
      BY <1>9, <3>1
    <3> HIDE DEF first, pags
    <3> QED
      BY <3>1, <3>2, <3>3, Sizes
  <2>2. new - L_HEAP_START < PAGE_SIZE * (w + 1)
    BY <1>4, <1>8, HeapPage
  <2>3. PAGE_SIZE * (w + 1) <= PAGE_SIZE * TOTAL_PAGES
    BY <2>1, Sizes, ProductsGrow
  <2>4. 2 * (L_HEAP_START + PAGE_SIZE * TOTAL_PAGES) < WORD
    BY MemoryAssumption
  <2>5. PICK x \in Int, y \in Int :
          x = PAGE_SIZE * (w + 1) /\ y = PAGE_SIZE * TOTAL_PAGES
    BY Sizes
  <2> QED
    BY <1>4, <2>2, <2>3, <2>4, <2>5, Sizes
<1>11. /\ heap(new) = PAG_HEAP(new) + (IF aligned(new) THEN 0 ELSE 1)
       /\ heap(new) \in Nat
  BY <1>4, <1>5, <1>10, HeapSize
<1>12. heap(old) <= heap(new)
  <2>1. CASE v < w
    BY <1>6, <1>8, <1>11, <2>1
  <2>2. CASE v = w
    <3>1. aligned(new) => aligned(old)
      <4>1. aligned(new) => new - L_HEAP_START = PAGE_SIZE * w
        BY <1>4, <1>8, HeapPage
      <4>2. PAGE_SIZE * w <= old - L_HEAP_START /\ old < WORD
            /\ (aligned(old) <=> old - L_HEAP_START = PAGE_SIZE * w)
        <5>1. old < WORD
          BY <1>2, Sizes
        <5> QED
          BY <1>2, <1>8, <2>2, <5>1, HeapPage
      <4>3. PICK x \in Int : x = PAGE_SIZE * w
        BY Sizes
      <4> QED
        BY <1>2, <1>4, <4>1, <4>2, <4>3, Sizes
    <3> QED
      BY <1>6, <1>8, <1>11, <2>2, <3>1
  <2> QED
    BY <1>8, <2>1, <2>2
<1> QED
  BY <1>2, <1>4, <1>6, <1>8, <1>9, <1>10, <1>11, <1>12

(* What sbrk_shrink computes: the pages it removes begin where those of    *)
(* the heap that is left end, and go on to the page of the old brk.        *)
LEMMA ShrinkFacts ==
  ASSUME IInv, MemInv, Running, ~Wild(current), NEW n \in INCREMENTS, n < 0,
         brk[current] # L_HEAP_START, brk[current] + n >= 0
  PROVE  LET old   == brk[current]
             new   == (old + n) % WORD
             dest  == IF new < L_HEAP_START THEN L_HEAP_START ELSE new
             pags  == PAG_HEAP(old) - PAG_HEAP(dest) + (IF aligned(dest) THEN 1 ELSE 0)
             first == PageHeap + PAG_HEAP(dest) + (IF aligned(dest) THEN 0 ELSE 1)
         IN  /\ dest \in Nat /\ L_HEAP_START <= dest /\ dest <= old
             /\ heap(dest) \in Nat /\ heap(old) \in Nat
             /\ pags \in Nat /\ first = PageHeap + heap(dest)
             /\ first + pags - 1 <= LastPage
             /\ PageHeap + heap(old) <= first + pags
             /\ heap(dest) <= heap(old)
<1> DEFINE old   == brk[current]
           new   == (old + n) % WORD
           dest  == IF new < L_HEAP_START THEN L_HEAP_START ELSE new
           al    == IF aligned(dest) THEN 1 ELSE 0
           pags  == PAG_HEAP(old) - PAG_HEAP(dest) + al
           first == PageHeap + PAG_HEAP(dest) + (IF aligned(dest) THEN 0 ELSE 1)
<1> SUFFICES /\ dest \in Nat /\ L_HEAP_START <= dest /\ dest <= old
             /\ heap(dest) \in Nat /\ heap(old) \in Nat
             /\ pags \in Nat /\ first = PageHeap + heap(dest)
             /\ first + pags - 1 <= LastPage
             /\ PageHeap + heap(old) <= first + pags
             /\ heap(dest) <= heap(old)
  OBVIOUS
<1>1. current \in Task /\ current \in Live /\ Live \subseteq Task
  BY DEF IInv, TypeOK, Running, Live, OnePlace
<1>2. /\ old \in Nat /\ L_HEAP_START <= old /\ 2 * old < WORD /\ old # L_HEAP_START
      /\ PageHeap + heap(old) <= LastPage
  BY <1>1, LiveHeap
<1>3. n \in Int
  BY Increments
<1>4. dest \in Nat /\ L_HEAP_START <= dest /\ dest <= old
  <2>1. old + n \in Nat /\ old + n < WORD /\ WORD \in Nat /\ old + n <= old
    BY <1>2, <1>3, Sizes
  <2>2. new = old + n
    BY <2>1, SmallMod
  <2> HIDE DEF new, old
  <2> QED
    BY <1>2, <1>3, <2>1, <2>2, Sizes
<1> HIDE DEF old, dest
<1>5. 2 * dest < WORD /\ old < WORD
  BY <1>2, <1>4, Sizes
<1>6. /\ PAG_HEAP(old) \in Nat /\ PAG_HEAP(dest) \in Nat
      /\ PAG_HEAP(dest) <= PAG_HEAP(old)
  BY <1>2, <1>4, <1>5, HeapGrows
<1>7. /\ heap(old) = IF aligned(old) THEN PAG_HEAP(old) ELSE PAG_HEAP(old) + 1
      /\ heap(dest) = IF aligned(dest) THEN PAG_HEAP(dest) ELSE PAG_HEAP(dest) + 1
  BY <1>2, <1>4, <1>5, HeapSize
<1>8. PICK w \in Nat, v \in Nat, a \in 0 .. 1, o \in 0 .. 1, ph \in Nat, tot \in Nat :
        /\ w = PAG_HEAP(old) /\ v = PAG_HEAP(dest) /\ v <= w
        /\ ph = PageHeap /\ tot = LastPage
        /\ a = IF aligned(dest) THEN 1 ELSE 0
        /\ o = IF aligned(old) THEN 1 ELSE 0
  BY <1>6, Sizes
<1>9. v = w => a >= o
  <2>1. CASE v = w /\ aligned(old)
    <3>1. old - L_HEAP_START = PAGE_SIZE * w
      BY <1>2, <1>5, <1>8, <2>1, HeapPage
    <3>2. dest < WORD
      BY <1>4, <1>5, Sizes
    <3>3. /\ PAGE_SIZE * w <= dest - L_HEAP_START
          /\ (aligned(dest) <=> dest - L_HEAP_START = PAGE_SIZE * w)
      BY <1>4, <1>8, <2>1, <3>2, HeapPage
    <3>4. PICK x \in Int : x = PAGE_SIZE * w
      BY Sizes
    <3>5. aligned(dest)
      BY <1>2, <1>4, <3>1, <3>3, <3>4, Sizes
    <3> QED
      BY <1>8, <3>5
  <2> QED
    BY <1>8, <2>1
<1>10. /\ heap(old) = w + (1 - o) /\ heap(dest) = v + (1 - a)
       /\ pags = (w - v) + a /\ first = ph + v + (1 - a)
  BY <1>7, <1>8
<1>11. ph + (w + (1 - o)) <= tot
  BY <1>2, <1>8, <1>10
<1>12. /\ (w - v) + a \in Nat /\ ph + v + (1 - a) = ph + (v + (1 - a))
       /\ (ph + v + (1 - a)) + ((w - v) + a) - 1 <= tot
       /\ ph + (w + (1 - o)) <= (ph + v + (1 - a)) + ((w - v) + a)
       /\ v + (1 - a) <= w + (1 - o)
       /\ v + (1 - a) \in Nat /\ w + (1 - o) \in Nat
  BY <1>8, <1>9, <1>11
<1> HIDE DEF al, pags, first
<1> QED
  BY <1>4, <1>8, <1>10, <1>12

(* What sbrk_shrink computes when the sum wraps: the page of the new brk   *)
(* is above that of the old one, so no page is removed.                    *)
LEMMA WrapFacts ==
  ASSUME IInv, MemInv, Running, ~Wild(current), NEW n \in INCREMENTS, n < 0,
         brk[current] + n < 0
  PROVE  LET old   == brk[current]
             new   == (old + n) % WORD
             dest  == IF new < L_HEAP_START THEN L_HEAP_START ELSE new
             pags  == PAG_HEAP(old) - PAG_HEAP(dest) + (IF aligned(dest) THEN 1 ELSE 0)
             first == PageHeap + PAG_HEAP(dest) + (IF aligned(dest) THEN 0 ELSE 1)
         IN  /\ dest \in 0 .. WORD - 1 /\ 2 * dest >= WORD
             /\ pags \in Int /\ pags <= 0 /\ first \in Int
<1> DEFINE old   == brk[current]
           new   == (old + n) % WORD
           dest  == IF new < L_HEAP_START THEN L_HEAP_START ELSE new
           pags  == PAG_HEAP(old) - PAG_HEAP(dest) + (IF aligned(dest) THEN 1 ELSE 0)
           first == PageHeap + PAG_HEAP(dest) + (IF aligned(dest) THEN 0 ELSE 1)
<1>1. current \in Live /\ Live \subseteq Task
  BY DEF IInv, TypeOK, Running, Live, OnePlace
<1>2. PICK o \in Nat, w \in Nat \ {0}, l \in Nat, s \in Nat \ {0}, m \in Int :
        /\ o = brk[current] /\ w = WORD /\ l = L_HEAP_START /\ s = PAGE_SIZE /\ m = n
        /\ l <= o /\ 2 * o < w /\ -w <= 2 * m /\ 2 * s <= w /\ o + m < 0
  BY <1>1, LiveHeap, Increments, Sizes
<1>3. PICK d \in Nat : /\ d = o + m + w /\ d = dest /\ d < w
                        /\ 2 * d >= w /\ o + s <= d /\ l <= d
  <2>1. -w <= o + m /\ o + m \in Int
    BY <1>2
  <2>2. (o + m) % w = (o + m) + w
    BY <1>2, <2>1, WrappedMod
  <2>3. PICK d \in Nat : d = o + m + w /\ d < w /\ 2 * d >= w /\ o + s <= d /\ l <= d
    BY <1>2, <2>1
  <2>4. new = d
    BY <1>2, <2>2, <2>3
  <2> QED
    BY <1>2, <2>3, <2>4
<1>4. PICK x \in Nat, y \in Nat :
        /\ x = PAG_HEAP(o) /\ y = PAG_HEAP(d)
        /\ s * x <= o - l /\ d - l < s * (y + 1)
  <2>1. o < w
    BY <1>2
  <2> QED
    BY <1>2, <1>3, <2>1, HeapPage
<1>5. x + 1 <= y
  <2>1. PICK u \in Int, v \in Int, z \in Int :
          u = s * x /\ v = s * (y + 1) /\ z = s * (x + 1) /\ z = u + s
    OBVIOUS
  <2>2. s * (x + 1) < s * (y + 1)
    BY <1>2, <1>3, <1>4, <2>1
  <2> QED
    BY <2>2, Products
<1>6. PICK a \in 0 .. 1, ph \in Nat :
        /\ a = (IF aligned(d) THEN 1 ELSE 0) /\ ph = PageHeap
        /\ 1 - a = (IF aligned(d) THEN 0 ELSE 1)
  BY Sizes
<1>7. /\ pags = (x - y) + a /\ first = ph + y + (1 - a)
      /\ (x - y) + a <= 0
  BY <1>2, <1>3, <1>4, <1>5, <1>6
<1> HIDE DEF pags, first
<1>8. dest \in 0 .. WORD - 1 /\ 2 * dest >= WORD
  BY <1>2, <1>3
<1> QED
  BY <1>7, <1>8 DEF pags, first

(* A brk that has wrapped is below every user address, as an int: the      *)
(* number of pages sys_exit counts is negative.                            *)
LEMMA WildHeap ==
  ASSUME NEW b \in Nat, b < WORD, 2 * b >= WORD
  PROVE  heap(b) \in Int /\ NUM_PAG_DATA + heap(b) <= 0
<1>1. PICK s \in Nat \ {0}, k \in Nat, w \in Nat, l \in Nat :
        /\ s = PAGE_SIZE /\ k = NUM_PAG_KERNEL + NUM_PAG_CODE + NUM_PAG_DATA
        /\ NUM_PAG_DATA + 1 <= k /\ w = WORD /\ l = s * k /\ l = L_HEAP_START
  BY MemoryAssumption
<1>2. PICK a \in Int : a = b - w - l /\ a < -l /\ pag_heap(b) = a \div s
  <2>1. signed(b) = b - w
    BY <1>1 DEF signed
  <2> QED
    BY <1>1, <2>1 DEF pag_heap
<1>3. PICK q \in Int : q = a \div s /\ s * q <= a
  OBVIOUS
<1>4. q <= -k - 1
  <2>1. s * ((-k - 1) + 1) = - (s * k)
    OBVIOUS
  <2>2. PICK u \in Int, v \in Int : u = s * q /\ v = s * ((-k - 1) + 1) /\ v = -l
    BY <1>1, <2>1
  <2>3. s * q < s * ((-k - 1) + 1)
    BY <1>2, <1>3, <2>2
  <2>4. -k - 1 \in Int
    OBVIOUS
  <2> QED
    BY <2>3, <2>4, Products
<1>5. heap(b) = q \/ heap(b) = q + 1
  BY <1>2, <1>3 DEF heap
<1> QED
  BY <1>1, <1>4, <1>5, Sizes

-----------------------------------------------------------------------------
(* The inductive invariant.                                                *)

(* Sizes and functions of one brk do not change.                           *)
LEMMA NextHeaps ==
  /\ \A t : OwnPages(t)' = PageData .. PageHeap + HeapPages(brk'[t]) - 1
  /\ Heaps' <=> \A t \in Live' : /\ 2 * brk'[t] < WORD => L_HEAP_START <= brk'[t]
                                /\ PageHeap + HeapPages(brk'[t]) <= LastPage
  /\ Tame' <=> (exact' => \A t \in Live' : 2 * brk'[t] < WORD)
BY DEF OwnPages, Heaps, Tame, HeapPages, LastPage, PageData, PageHeap, heap, pag_heap,
       signed, aligned

(* A step that changes no page table, and no heap of a live process.       *)
LEMMA SameTables ==
  ASSUME MemInv, UNCHANGED <<phys_mem, PT, exact>>, Live' = Live,
         brk' \in [Task -> 0 .. WORD - 1], \A t \in Live : brk'[t] = brk[t]
  PROVE  MemInv'
<1>1. \A t : Own(t)' = Own(t)
  BY DEF Own
<1>2. \A t \in Live : OwnPages(t)' = OwnPages(t)
  BY DEF OwnPages
<1>3. MemTypeOK' /\ CodeShared' /\ CodeUsed' /\ FromAlloc' /\ Distinct'
  BY <1>1 DEF MemInv, MemTypeOK, CodeShared, CodeUsed, FromAlloc, Distinct
<1>4. Heaps' /\ Tame' /\ Mapped'
  <2>1. \A t \in Live : HeapPages(brk'[t]) = HeapPages(brk[t])
    OBVIOUS
  <2>2. Heaps' /\ Tame'
    BY <2>1, NextHeaps DEF MemInv, Heaps, Tame
  <2>3. Mapped'
    BY <1>1, <1>2 DEF MemInv, Mapped
  <2> QED
    BY <2>2, <2>3
<1>5. Exactly'
  BY <1>1, <1>2 DEF MemInv, Exactly
<1> QED
  BY <1>3, <1>4, <1>5 DEF MemInv

(* The first process, as init_task1 and main leave it.                      *)
LEMMA MemInitInv == MemInit => MemInv
<1> SUFFICES ASSUME MemInit PROVE MemInv
  OBVIOUS
<1>1. /\ Live = {Task1} /\ Task1 \in Task
  <2>1. Range(<<>>) = {} /\ Task1 \in Task /\ Task1 # NoTask
    BY SchedAssumption DEF Range, Task1, NoTask, Task
  <2> QED
    BY <2>1 DEF MemInit, Init, Live
<1>2. /\ phys_mem = (0 .. NUM_PAG_KERNEL - 1) \cup {CodeFrame(p) : p \in 0 .. PageHeap - 1}
      /\ PT = [t \in Task |-> [p \in Page |->
                 IF t = Task1 /\ p < PageHeap THEN CodeFrame(p) ELSE 0]]
      /\ brk = [t \in Task |-> IF t = Task1 THEN L_HEAP_START ELSE 0]
      /\ exact = TRUE
  BY DEF MemInit, CodeFrame
<1>3. /\ Code \subseteq 0 .. PageHeap - 1 /\ 0 .. PageHeap - 1 \subseteq Page
      /\ Page \subseteq Nat /\ PageHeap \in Nat
  BY Sizes, Pages DEF Code
<1>4. /\ \A p \in 0 .. PageHeap - 1 : CodeFrame(p) \in Frame /\ CodeFrame(p) # 0
      /\ \A p, q \in 0 .. PageHeap - 1 : CodeFrame(p) = CodeFrame(q) => p = q
  <2>1. \A p \in 0 .. PageHeap - 1 : CodeFrame(p) \in Frame /\ CodeFrame(p) # 0
    BY CodeFrameFacts
  <2>2. \A p, q \in 0 .. PageHeap - 1 : CodeFrame(p) = CodeFrame(q) => p = q
    BY Sizes DEF CodeFrame
  <2> QED
    BY <2>1, <2>2
<1>5. /\ 0 \in Frame /\ 0 .. NUM_PAG_KERNEL - 1 \subseteq Frame
      /\ L_HEAP_START \in 0 .. WORD - 1 /\ 0 \in 0 .. WORD - 1
      /\ 2 * L_HEAP_START < WORD
  <2>1. 0 \in Frame /\ 0 .. NUM_PAG_KERNEL - 1 \subseteq Frame
    BY Sizes DEF Frame
  <2>2. 2 * L_HEAP_START < WORD
    <3>1. TOTAL_PAGES * PAGE_SIZE \in Nat
      BY Sizes
    <3>2. PICK x \in Nat : x = TOTAL_PAGES * PAGE_SIZE
      BY <3>1
    <3> QED
      BY <3>2, Sizes, MemoryAssumption
  <2> QED
    BY <2>1, <2>2, Sizes
<1>6. MemTypeOK
  BY <1>2, <1>3, <1>4, <1>5 DEF MemTypeOK, Frame
<1>7. /\ \A t \in Task : t # Task1 => Own(t) = {}
      /\ Own(Task1) = (0 .. PageHeap - 1) \ Code
      /\ \A p \in 0 .. PageHeap - 1 : PT[Task1][p] = CodeFrame(p)
      /\ \A t \in Task : t # Task1 => \A p \in Page : PT[t][p] = 0
  <2>1. \A p \in Page : p < PageHeap <=> p \in 0 .. PageHeap - 1
    BY <1>3
  <2>2. \A t \in Task : t # Task1 => \A p \in Page : PT[t][p] = 0
    BY <1>2
  <2>3. \A p \in Page :
          PT[Task1][p] = IF p \in 0 .. PageHeap - 1 THEN CodeFrame(p) ELSE 0
    BY <1>1, <1>2, <2>1
  <2>4. Own(Task1) = (0 .. PageHeap - 1) \ Code
    BY <1>3, <1>4, <2>3 DEF Own
  <2> QED
    BY <1>3, <2>2, <2>3, <2>4 DEF Own
<1>8. CodeShared /\ CodeUsed
  <2>1. \A p \in Code : p \in 0 .. PageHeap - 1 /\ p \in Page
    BY <1>3
  <2>2. CodeShared
    BY <1>1, <1>7, <2>1 DEF CodeShared
  <2>3. CodeUsed
    BY <1>2, <2>1 DEF CodeUsed, CodeFrames
  <2> QED
    BY <2>2, <2>3
<1>9. FromAlloc
  <2>1. ASSUME NEW p \in Own(Task1)
        PROVE  PT[Task1][p] \in (Allocatable \cap phys_mem) \ CodeFrames
    <3>1. /\ p \in 0 .. PageHeap - 1 /\ p \notin Code
          /\ PT[Task1][p] = CodeFrame(p) /\ CodeFrame(p) \in phys_mem
      BY <1>2, <1>7
    <3>2. CodeFrame(p) \notin CodeFrames
      BY <1>3, <1>4, <3>1 DEF CodeFrames
    <3>3. CodeFrame(p) \in Allocatable
      BY <3>1, CodeFrameFacts
    <3> QED
      BY <3>1, <3>2, <3>3
  <2> QED
    BY <1>7, <2>1 DEF FromAlloc
<1>10. Distinct
  BY <1>4, <1>7 DEF Distinct
<1>11. /\ brk[Task1] = L_HEAP_START /\ heap(L_HEAP_START) = 0
  <2>1. L_HEAP_START \in Nat /\ L_HEAP_START < WORD /\ L_HEAP_START <= L_HEAP_START
    BY <1>5, Sizes
  <2>2. aligned(L_HEAP_START)
    BY HeapAligned DEF aligned
  <2>3. PICK w \in Nat : w = PAG_HEAP(L_HEAP_START) /\ L_HEAP_START - L_HEAP_START = PAGE_SIZE * w
    BY <2>1, <2>2, HeapPage
  <2>4. w = 0
    <3>1. PAGE_SIZE * w = 0
      BY <2>3, Sizes
    <3> QED
      BY <3>1, Sizes
  <2>5. heap(L_HEAP_START) = PAG_HEAP(L_HEAP_START)
    BY <1>5, <2>1, <2>2, HeapSize
  <2> QED
    BY <1>1, <1>2, <2>3, <2>4, <2>5
<1>12. OwnPages(Task1) = (0 .. PageHeap - 1) \ Code /\ HeapPages(brk[Task1]) = 0
  BY <1>5, <1>11, Sizes DEF OwnPages, HeapPages, Code
<1>13. Heaps /\ Tame /\ Mapped
  BY <1>1, <1>5, <1>7, <1>11, <1>12, Sizes DEF Heaps, Tame, Mapped
<1>14. Exactly
  <2>1. \A t \in Task : Own(t) = IF t \in Live THEN OwnPages(t) ELSE {}
    BY <1>1, <1>7, <1>12
  <2>2. ASSUME NEW f \in phys_mem
        PROVE  \/ f \in 0 .. NUM_PAG_KERNEL - 1 \cup CodeFrames
               \/ \E t \in Task : \E p \in Own(t) : PT[t][p] = f
    <3>1. CASE f \in {CodeFrame(p) : p \in 0 .. PageHeap - 1}
      <4>1. PICK p \in 0 .. PageHeap - 1 : f = CodeFrame(p)
        BY <3>1
      <4>2. CASE p \in Code
        BY <4>1, <4>2 DEF CodeFrames
      <4>3. CASE p \notin Code
        <5>1. p \in Own(Task1) /\ PT[Task1][p] = f
          BY <1>7, <4>1, <4>3
        <5> QED
          BY <1>1, <5>1
      <4> QED
        BY <4>2, <4>3
    <3> QED
      BY <1>2, <3>1
  <2> QED
    BY <2>1, <2>2 DEF Exactly
<1> QED
  BY <1>6, <1>8, <1>9, <1>10, <1>13, <1>14 DEF MemInv

(* New frames on pages of one process that lie past its code: what its     *)
(* page table holds then.                                                  *)
LEMMA OwnAfterSet ==
  ASSUME NEW c \in Task, NEW first \in Nat, NEW n \in Nat, NEW fs, Unused(fs, n),
         PT \in [Task -> [Page -> Frame]], NUM_PAG_CODE <= first,
         first + n - 1 <= LastPage,
         PT' = [PT EXCEPT ![c] = set_ss_pag(PT[c], first, fs)]
  PROVE  /\ PT' \in [Task -> [Page -> Frame]]
         /\ \A t \in Task : t # c => PT'[t] = PT[t] /\ Own(t)' = Own(t)
         /\ \A p \in Page : p \notin first .. first + n - 1 => PT'[c][p] = PT[c][p]
         /\ \A p \in first .. first + n - 1 :
              /\ PT'[c][p] = fs[p - first + 1]
              /\ p - first + 1 \in 1 .. n /\ p \in Page \ Code
         /\ Own(c)' = Own(c) \cup (first .. first + n - 1)
<1>1. PICK row : row = set_ss_pag(PT[c], first, fs)
  OBVIOUS
<1>2. /\ row \in [Page -> Frame]
      /\ \A p \in Page : row[p] = IF p \in first .. first + n - 1
                                 THEN fs[p - first + 1] ELSE PT[c][p]
      /\ \A p \in first .. first + n - 1 :
           p - first + 1 \in 1 .. n /\ fs[p - first + 1] \in Allocatable \ phys_mem
  <2>1. PICK pt \in [Page -> Frame] : pt = PT[c]
    OBVIOUS
  <2>2. row = set_ss_pag(pt, first, fs)
    BY <1>1, <2>1
  <2>3. /\ set_ss_pag(pt, first, fs) \in [Page -> Frame]
        /\ \A p \in Page :
             set_ss_pag(pt, first, fs)[p]
               = IF p \in first .. first + n - 1 THEN fs[p - first + 1] ELSE pt[p]
        /\ \A p \in first .. first + n - 1 :
             /\ p - first + 1 \in 1 .. n
             /\ fs[p - first + 1] \in Allocatable \ phys_mem
    BY SetPages
  <2> QED
    BY <2>1, <2>2, <2>3
<1>3. /\ PT' \in [Task -> [Page -> Frame]] /\ PT'[c] = row
      /\ \A t \in Task : t # c => PT'[t] = PT[t]
  BY <1>1, <1>2
<1>4. \A p \in first .. first + n - 1 : p \in Page \ Code
  BY Sizes, Pages DEF Code
<1>5. \A p \in first .. first + n - 1 : PT'[c][p] # 0
  BY <1>2, <1>3, <1>4, CodeFrameFacts
<1>6. Own(c)' = Own(c) \cup (first .. first + n - 1)
  <2>1. ASSUME NEW p \in Page \ Code
        PROVE  PT'[c][p] # 0 <=> PT[c][p] # 0 \/ p \in first .. first + n - 1
    BY <1>2, <1>3, <1>5
  <2> QED
    BY <1>4, <2>1 DEF Own
<1>7. \A t \in Task : t # c => Own(t)' = Own(t)
  BY <1>3 DEF Own
<1> QED
  BY <1>2, <1>3, <1>4, <1>6, <1>7

(* Empty entries on pages of one process that lie past its code.           *)
LEMMA OwnAfterDel ==
  ASSUME NEW c \in Task, NEW first \in Nat, NEW n \in Nat,
         PT \in [Task -> [Page -> Frame]], NUM_PAG_CODE <= first,
         first + n - 1 <= LastPage,
         PT' = [PT EXCEPT ![c] = del_ss_pag(PT[c], first, n)]
  PROVE  /\ PT' \in [Task -> [Page -> Frame]]
         /\ \A t \in Task : t # c => PT'[t] = PT[t] /\ Own(t)' = Own(t)
         /\ \A p \in Page : p \notin first .. first + n - 1 => PT'[c][p] = PT[c][p]
         /\ \A p \in Code : PT'[c][p] = PT[c][p]
         /\ Own(c)' = Own(c) \ (first .. first + n - 1)
<1>1. PICK row : row = del_ss_pag(PT[c], first, n)
  OBVIOUS
<1>2. /\ row \in [Page -> Frame]
      /\ \A p \in Page : row[p] = IF p \in first .. first + n - 1 THEN 0 ELSE PT[c][p]
  <2>1. PT[c] \in [Page -> Frame]
    OBVIOUS
  <2> QED
    BY <1>1, <2>1, DelPages
<1>3. /\ PT' \in [Task -> [Page -> Frame]] /\ PT'[c] = row
      /\ \A t \in Task : t # c => PT'[t] = PT[t]
  BY <1>1, <1>2
<1>4. \A p \in Code : p \in Page /\ p \notin first .. first + n - 1
  BY Sizes, Pages DEF Code
<1>5. Own(c)' = Own(c) \ (first .. first + n - 1)
  BY <1>2, <1>3 DEF Own
<1>6. \A t \in Task : t # c => Own(t)' = Own(t)
  BY <1>3 DEF Own
<1> QED
  BY <1>2, <1>3, <1>4, <1>5, <1>6

(* More pages at the end of a heap.                                        *)
LEMMA HeapLonger ==
  ASSUME MemInv, NEW c \in Live, Live \subseteq Task, Live' = Live,
         NEW n \in Nat, NEW fs, Unused(fs, n), NEW b \in Nat,
         NEW ho \in Nat, NEW h \in Nat, ho = HeapPages(brk[c]), h = HeapPages(b), ho <= h,
         L_HEAP_START <= b, 2 * b < WORD,
         h <= ho + n, PageHeap + ho + n <= LastPage,
         phys_mem' = phys_mem \cup Range(fs),
         PT' = [PT EXCEPT ![c] = set_ss_pag(PT[c], PageHeap + ho, fs)],
         brk' = [brk EXCEPT ![c] = b],
         exact' \in BOOLEAN, exact' => exact /\ h = ho + n
  PROVE  MemInv'
<1>1. PICK first \in Nat, ph \in Nat, pd \in Nat :
        first = ph + ho /\ ph = PageHeap /\ pd = PageData /\ NUM_PAG_CODE <= first
        /\ first + n <= LastPage /\ first + n - 1 <= LastPage
        /\ ph + h <= first + n /\ (h = ho + n => ph + h = first + n)
        /\ ph + h <= LastPage
  BY Sizes
<1>2. /\ MemTypeOK /\ CodeShared /\ CodeUsed /\ FromAlloc /\ Distinct
      /\ Heaps /\ Tame /\ Mapped /\ Exactly
      /\ PT \in [Task -> [Page -> Frame]] /\ brk \in [Task -> 0 .. WORD - 1]
      /\ c \in Task
  BY DEF MemInv, MemTypeOK, Frame
<1>3. /\ PT' \in [Task -> [Page -> Frame]]
      /\ \A t \in Task : t # c => PT'[t] = PT[t] /\ Own(t)' = Own(t)
      /\ \A p \in Page : p \notin first .. first + n - 1 => PT'[c][p] = PT[c][p]
      /\ \A p \in first .. first + n - 1 :
           /\ PT'[c][p] = fs[p - first + 1]
           /\ p - first + 1 \in 1 .. n /\ p \in Page \ Code
      /\ Own(c)' = Own(c) \cup (first .. first + n - 1)
  <2>1. PT' = [PT EXCEPT ![c] = set_ss_pag(PT[c], first, fs)]
    BY <1>1
  <2>2. /\ c \in Task /\ PT \in [Task -> [Page -> Frame]]
        /\ NUM_PAG_CODE <= first /\ first + n - 1 <= LastPage
    BY <1>1, <1>2
  <2> QED
    BY <2>1, <2>2, OwnAfterSet
<1>4. Range(fs) \subseteq Frame /\ Range(fs) \subseteq phys_mem' /\ phys_mem \subseteq phys_mem'
  <2>1. Range(fs) \subseteq Allocatable
    BY DEF Unused, Range
  <2> QED
    BY <2>1, CodeFrameFacts
<1>5. MemTypeOK'
  <2>1. b \in 0 .. WORD - 1
    BY Sizes
  <2> QED
    BY <1>2, <1>3, <1>4, <2>1 DEF MemTypeOK, Frame
<1>6. \A t \in Task : \A p \in Code : PT'[t][p] = PT[t][p]
  <2>1. \A p \in Code : p \in Page /\ p \notin first .. first + n - 1
    BY <1>1, Sizes, Pages DEF Code
  <2> QED
    BY <1>3, <2>1
<1>7. CodeShared' /\ CodeUsed'
  BY <1>2, <1>4, <1>6 DEF CodeShared, CodeUsed
<1>8. FromAlloc' /\ Distinct'
  <2>1. ASSUME NEW t \in Task, NEW p, p \in Own(t)'
        PROVE  \/ p \in Own(t) /\ PT'[t][p] = PT[t][p] /\ PT[t][p] \in phys_mem'
               \/ t = c /\ p \in first .. first + n - 1 /\ PT'[t][p] = fs[p - first + 1]
    <3>1. CASE t = c /\ p \in first .. first + n - 1
      BY <1>3, <3>1
    <3>2. CASE ~ (t = c /\ p \in first .. first + n - 1)
      <4>1. p \in Own(t) /\ p \in Page
        BY <1>3, <2>1, <3>2 DEF Own
      <4>2. PT'[t][p] = PT[t][p]
        BY <1>3, <3>2, <4>1
      <4> QED
        BY <1>2, <1>4, <4>1, <4>2 DEF FromAlloc
    <3> QED
      BY <3>1, <3>2
  <2>2. OnlyNew(c, first, n, fs)
    BY <2>1 DEF OnlyNew
  <2>3. /\ FromAlloc /\ Distinct /\ CodeUsed /\ c \in Task
        /\ Unused(fs, n) /\ Range(fs) \subseteq phys_mem'
    BY <1>2, <1>4
  <2> QED
    BY <2>2, <2>3, TablesStep
<1>9. brk'[c] = b /\ \A t \in Live : t # c => brk'[t] = brk[t]
  BY <1>2
<1>10. Heaps' /\ Tame'
  <2>1. PageHeap + h <= LastPage
    BY <1>1
  <2>2. ASSUME NEW t \in Live
        PROVE  /\ 2 * brk'[t] < WORD => L_HEAP_START <= brk'[t]
               /\ PageHeap + HeapPages(brk'[t]) <= LastPage
               /\ exact' => 2 * brk'[t] < WORD
    <3>1. CASE t = c
      BY <1>9, <2>1, <3>1
    <3>2. CASE t # c
      BY <1>2, <1>9, <3>2 DEF Heaps, Tame
    <3> QED
      BY <3>1, <3>2
  <2> QED
    BY <2>2, NextHeaps
<1>11. /\ \A t \in Live : t # c => OwnPages(t)' = OwnPages(t)
       /\ OwnPages(c)' = PageData .. ph + h - 1 /\ OwnPages(c) = PageData .. first - 1
  <2>1. OwnPages(c) = PageData .. first - 1
    BY <1>1 DEF OwnPages
  <2>2. \A t : OwnPages(t) = PageData .. PageHeap + HeapPages(brk[t]) - 1
    BY DEF OwnPages
  <2> QED
    BY <1>1, <1>9, <2>1, <2>2, NextHeaps
<1>12. Mapped'
  <2>1. ASSUME NEW p, p \in OwnPages(c)' PROVE p \in Own(c)'
    <3>1. p \in pd .. ph + h - 1
      BY <1>1, <1>11, <2>1
    <3>2. p \in pd .. first - 1 \/ p \in first .. first + n - 1
      BY <1>1, <3>1
    <3>3. pd .. first - 1 \subseteq Own(c)
      BY <1>1, <1>2, <1>11 DEF Mapped
    <3> QED
      BY <1>3, <3>2, <3>3
  <2>2. ASSUME NEW t \in Live PROVE OwnPages(t)' \subseteq Own(t)'
    <3>1. CASE t = c
      BY <2>1, <3>1
    <3>2. CASE t # c
      BY <1>2, <1>3, <1>11, <3>2 DEF Mapped
    <3> QED
      BY <3>1, <3>2
  <2> QED
    BY <2>2 DEF Mapped
<1>13. Exactly'
  <2> SUFFICES ASSUME exact'
               PROVE  /\ \A t \in Task : Own(t)' = IF t \in Live THEN OwnPages(t)' ELSE {}
                      /\ \A f \in phys_mem' :
                           \/ f \in 0 .. NUM_PAG_KERNEL - 1 \cup CodeFrames
                           \/ \E t \in Task : \E p \in Own(t)' : PT'[t][p] = f
    BY DEF Exactly
  <2>1. /\ \A t \in Task : Own(t) = IF t \in Live THEN OwnPages(t) ELSE {}
        /\ \A f \in phys_mem :
             \/ f \in 0 .. NUM_PAG_KERNEL - 1 \cup CodeFrames
             \/ \E t \in Task : \E p \in Own(t) : PT[t][p] = f
    BY <1>2 DEF Exactly
  <2>2. PageData .. ph + h - 1 = (PageData .. first - 1) \cup (first .. first + n - 1)
    <3>1. ph + h = first + n
      BY <1>1
    <3> QED
      BY <1>1, <3>1, Sizes
  <2>3. \A t \in Task : Own(t)' = IF t \in Live THEN OwnPages(t)' ELSE {}
    BY <1>2, <1>3, <1>11, <2>1, <2>2
  <2>4. ASSUME NEW f \in phys_mem'
        PROVE  \/ f \in 0 .. NUM_PAG_KERNEL - 1 \cup CodeFrames
               \/ \E t \in Task : \E p \in Own(t)' : PT'[t][p] = f
    <3>1. CASE f \in Range(fs)
      <4>1. PICK i \in 1 .. n : f = fs[i]
        BY <3>1 DEF Unused, Range
      <4>2. first + i - 1 \in first .. first + n - 1 /\ (first + i - 1) - first + 1 = i
        BY <4>1
      <4>3. first + i - 1 \in Own(c)' /\ PT'[c][first + i - 1] = f
        BY <1>3, <4>1, <4>2
      <4> QED
        BY <1>2, <4>3
    <3>2. CASE f \in phys_mem /\ f \notin 0 .. NUM_PAG_KERNEL - 1 \cup CodeFrames
      <4>0. PICK t \in Task : \E p \in Own(t) : PT[t][p] = f
        BY <2>1, <3>2
      <4>1. PICK p \in Own(t) : PT[t][p] = f
        BY <4>0
      <4>2. p \in Own(t)' /\ PT'[t][p] = PT[t][p]
        <5>1. CASE t = c
          <6>1. p \in PageData .. first - 1 /\ p \in Page
            BY <1>11, <2>1, <4>1, <5>1 DEF Own
          <6>2. p \notin first .. first + n - 1
            BY <1>1, <6>1, Sizes
          <6> QED
            BY <1>3, <4>1, <5>1, <6>1, <6>2
        <5>2. CASE t # c
          BY <1>3, <4>1, <5>2
        <5> QED
          BY <5>1, <5>2
      <4> QED
        BY <4>1, <4>2
    <3> QED
      BY <3>1, <3>2
  <2> QED
    BY <2>3, <2>4
<1> QED
  BY <1>5, <1>7, <1>8, <1>10, <1>12, <1>13 DEF MemInv

(* Pages past the code that are emptied, with their frames given back.     *)
LEMMA PagesFreed ==
  ASSUME MemInv, NEW c \in Task, NEW first \in Nat, NEW n \in Nat,
         NUM_PAG_CODE <= first, first + n - 1 <= LastPage,
         free_frame(frames_of(PT[c], first, n)),
         PT' = [PT EXCEPT ![c] = del_ss_pag(PT[c], first, n)]
  PROVE  /\ PT' \in [Task -> [Page -> Frame]] /\ phys_mem' \subseteq phys_mem
         /\ \A t \in Task : t # c => PT'[t] = PT[t] /\ Own(t)' = Own(t)
         /\ \A p \in Page : p \notin first .. first + n - 1 => PT'[c][p] = PT[c][p]
         /\ \A t \in Task : \A p \in Code : PT'[t][p] = PT[t][p]
         /\ Own(c)' = Own(c) \ (first .. first + n - 1)
         /\ CodeUsed' /\ FromAlloc' /\ Distinct'
         /\ \A f \in phys_mem' : \A t \in Task : \A p \in Own(t) :
              PT[t][p] = f => p \in Own(t)' /\ PT'[t][p] = f
<1>1. /\ CodeUsed /\ FromAlloc /\ Distinct /\ PT \in [Task -> [Page -> Frame]]
  BY DEF MemInv, MemTypeOK, Frame
<1>2. /\ PT' \in [Task -> [Page -> Frame]]
      /\ \A t \in Task : t # c => PT'[t] = PT[t] /\ Own(t)' = Own(t)
      /\ \A p \in Page : p \notin first .. first + n - 1 => PT'[c][p] = PT[c][p]
      /\ \A p \in Code : PT'[c][p] = PT[c][p]
      /\ Own(c)' = Own(c) \ (first .. first + n - 1)
  BY <1>1, OwnAfterDel
<1>3. /\ phys_mem' \subseteq phys_mem
      /\ \A f \in phys_mem : f \notin phys_mem' <=>
           f > NUM_PAG_KERNEL /\ \E p \in first .. first + n - 1 : f = PT[c][p]
  BY DEF free_frame, frames_of
<1>4. \A p \in first .. first + n - 1 : p \in Page \ Code
  BY Sizes, Pages DEF Code
<1>5. ASSUME NEW f \in phys_mem, f \notin phys_mem'
      PROVE  f > NUM_PAG_KERNEL /\ \E p \in first .. first + n - 1 :
                                     p \in Own(c) /\ f = PT[c][p]
  <2>1. f > NUM_PAG_KERNEL
    BY <1>3, <1>5
  <2>2. PICK p \in first .. first + n - 1 : f = PT[c][p]
    BY <1>3, <1>5
  <2>3. f # 0
    BY <2>1, Sizes
  <2> QED
    BY <1>4, <2>1, <2>2, <2>3 DEF Own
<1>6. CodeUsed'
  <2>1. ASSUME NEW f \in 0 .. NUM_PAG_KERNEL - 1 \cup CodeFrames PROVE f \in phys_mem'
    <3>1. f \in phys_mem
      BY <1>1 DEF CodeUsed
    <3>2. ASSUME f \notin phys_mem' PROVE FALSE
      <4>1. PICK p \in Own(c) : f = PT[c][p] /\ f > NUM_PAG_KERNEL
        BY <1>5, <3>1, <3>2
      <4>2. f \notin CodeFrames
        BY <1>1, <4>1 DEF FromAlloc
      <4> QED
        BY <2>1, <4>1, <4>2, Sizes
    <3> QED
      BY <3>2
  <2> QED
    BY <2>1 DEF CodeUsed
<1>7. ASSUME NEW t \in Task, NEW p \in Own(t)'
      PROVE  p \in Own(t) /\ PT'[t][p] = PT[t][p] /\ PT[t][p] \in phys_mem'
  <2>1. /\ p \in Own(t) /\ PT'[t][p] = PT[t][p]
        /\ ~ (t = c /\ p \in first .. first + n - 1)
    BY <1>2, <1>7 DEF Own
  <2>2. PT[t][p] \in phys_mem
    BY <1>1, <2>1 DEF FromAlloc
  <2>3. ASSUME PT[t][p] \notin phys_mem' PROVE FALSE
    <3>1. PICK q \in first .. first + n - 1 : q \in Own(c) /\ PT[t][p] = PT[c][q]
      BY <1>5, <2>2, <2>3
    <3>2. t = c /\ p = q
      BY <1>1, <2>1, <3>1 DEF Distinct
    <3> QED
      BY <2>1, <3>1, <3>2
  <2> QED
    BY <2>1, <2>3
<1>8. FromAlloc' /\ Distinct'
  BY <1>1, <1>7 DEF FromAlloc, Distinct
<1>9. ASSUME NEW t \in Task, NEW p \in Own(t), PT[t][p] \in phys_mem'
      PROVE  p \in Own(t)' /\ PT'[t][p] = PT[t][p]
  <2>1. ASSUME t = c, p \in first .. first + n - 1 PROVE FALSE
    <3>1. PT[t][p] \in (Allocatable \cap phys_mem) \ CodeFrames
      BY <1>1 DEF FromAlloc
    <3>2. PT[t][p] > NUM_PAG_KERNEL
      BY <3>1, CodeFrameFacts
    <3> QED
      BY <1>3, <1>9, <2>1, <3>1, <3>2
  <2>2. p \in Page
    BY DEF Own
  <2> QED
    BY <1>2, <2>1, <2>2
<1>10. \A t \in Task : \A p \in Code : PT'[t][p] = PT[t][p]
  BY <1>2
<1> QED
  BY <1>2, <1>3, <1>6, <1>8, <1>9, <1>10

(* Fewer pages in a heap, or none at all and its process gone.             *)
LEMMA HeapShorter ==
  ASSUME MemInv, NEW c \in Live, Live \subseteq Task, UNCHANGED exact,
         NEW first \in Nat, NEW n \in Nat, PageData <= first,
         first <= PageHeap + HeapPages(brk[c]),
         HeapPages(brk[c]) \in Nat,
         PageHeap + HeapPages(brk[c]) <= first + n, first + n - 1 <= LastPage,
         free_frame(frames_of(PT[c], first, n)),
         PT' = [PT EXCEPT ![c] = del_ss_pag(PT[c], first, n)],
         brk' \in [Task -> 0 .. WORD - 1], \A t \in Live : t # c => brk'[t] = brk[t],
         \/ /\ Live' = Live /\ L_HEAP_START <= brk'[c] /\ 2 * brk'[c] < WORD
            /\ HeapPages(brk'[c]) \in Nat /\ PageHeap + HeapPages(brk'[c]) = first
            /\ PageHeap + HeapPages(brk'[c]) <= LastPage
         \/ Live' = Live \ {c} /\ first = PageData
  PROVE  MemInv'
<1>1. PICK ph \in Nat, pd \in Nat, ho \in Nat :
        /\ ph = PageHeap /\ pd = PageData /\ ho = HeapPages(brk[c])
        /\ pd <= first /\ first <= ph + ho /\ ph + ho <= first + n
        /\ pd = NUM_PAG_CODE /\ NUM_PAG_CODE <= first
  <2>1. PageHeap \in Nat /\ PageData \in Nat /\ PageData = NUM_PAG_CODE
    BY Sizes
  <2> QED
    BY <2>1
<1>2. /\ MemTypeOK /\ CodeShared /\ CodeUsed /\ FromAlloc /\ Distinct
      /\ Heaps /\ Tame /\ Mapped /\ Exactly
      /\ PT \in [Task -> [Page -> Frame]] /\ brk \in [Task -> 0 .. WORD - 1]
      /\ c \in Task
  BY DEF MemInv, MemTypeOK, Frame
<1>3. /\ PT' \in [Task -> [Page -> Frame]] /\ phys_mem' \subseteq phys_mem
      /\ \A t \in Task : t # c => PT'[t] = PT[t] /\ Own(t)' = Own(t)
      /\ \A t \in Task : \A p \in Code : PT'[t][p] = PT[t][p]
      /\ Own(c)' = Own(c) \ (first .. first + n - 1)
      /\ CodeUsed' /\ FromAlloc' /\ Distinct'
      /\ \A f \in phys_mem' : \A t \in Task : \A p \in Own(t) :
           PT[t][p] = f => p \in Own(t)' /\ PT'[t][p] = f
  BY <1>1, <1>2, PagesFreed
<1>4. Live' \subseteq Live
  OBVIOUS
<1>5. MemTypeOK'
  BY <1>2, <1>3 DEF MemTypeOK, Frame
<1>6. CodeShared'
  BY <1>2, <1>3, <1>4 DEF CodeShared
<1>7. Heaps' /\ Tame'
  <2>1. ASSUME NEW t \in Live'
        PROVE  /\ 2 * brk'[t] < WORD => L_HEAP_START <= brk'[t]
               /\ PageHeap + HeapPages(brk'[t]) <= LastPage
               /\ exact' => 2 * brk'[t] < WORD
    BY <1>2, <1>4 DEF Heaps, Tame
  <2> QED
    BY <2>1, NextHeaps
<1>8. OwnPages(c) = pd .. ph + ho - 1
      /\ \A t \in Live : t # c => OwnPages(t)' = OwnPages(t)
  BY <1>1, <1>2 DEF OwnPages
<1>9. c \in Live' => OwnPages(c)' = pd .. first - 1
  <2> SUFFICES ASSUME c \in Live' PROVE OwnPages(c)' = pd .. first - 1
    OBVIOUS
  <2>1. PICK h \in Nat : h = HeapPages(brk'[c]) /\ PageHeap + h = first
    OBVIOUS
  <2>2. OwnPages(c)' = PageData .. PageHeap + HeapPages(brk'[c]) - 1
    BY NextHeaps
  <2>3. OwnPages(c)' = pd .. ph + h - 1 /\ ph + h = first
    BY <1>1, <2>1, <2>2
  <2> QED
    BY <2>3
<1>10. /\ (pd .. ph + ho - 1) \ (first .. first + n - 1) = pd .. first - 1
       /\ (first = pd => pd .. first - 1 = {})
  BY <1>1
<1>11. Mapped'
  <2>1. c \in Live' => OwnPages(c)' \subseteq Own(c)'
    BY <1>2, <1>3, <1>8, <1>9, <1>10 DEF Mapped
  <2> QED
    BY <1>2, <1>3, <1>4, <1>8, <2>1 DEF Mapped
<1>12. Exactly'
  <2> SUFFICES ASSUME exact
               PROVE  /\ \A t \in Task : Own(t)' = IF t \in Live' THEN OwnPages(t)' ELSE {}
                      /\ \A f \in phys_mem' :
                           \/ f \in 0 .. NUM_PAG_KERNEL - 1 \cup CodeFrames
                           \/ \E t \in Task : \E p \in Own(t)' : PT'[t][p] = f
    BY DEF Exactly
  <2>1. /\ \A t \in Task : Own(t) = IF t \in Live THEN OwnPages(t) ELSE {}
        /\ \A f \in phys_mem :
             \/ f \in 0 .. NUM_PAG_KERNEL - 1 \cup CodeFrames
             \/ \E t \in Task : \E p \in Own(t) : PT[t][p] = f
    BY <1>2 DEF Exactly
  <2>2. Own(c)' = pd .. first - 1
    BY <1>2, <1>3, <1>8, <1>10, <2>1
  <2>3. c \notin Live' => Own(c)' = {}
    BY <1>1, <1>10, <2>2
  <2>4. \A t \in Task : t # c => Own(t)' = IF t \in Live' THEN OwnPages(t)' ELSE {}
    BY <1>3, <1>8, <2>1
  <2>5. \A t \in Task : Own(t)' = IF t \in Live' THEN OwnPages(t)' ELSE {}
    BY <1>9, <2>2, <2>3, <2>4
  <2>6. ASSUME NEW f \in phys_mem'
        PROVE  \/ f \in 0 .. NUM_PAG_KERNEL - 1 \cup CodeFrames
               \/ \E t \in Task : \E p \in Own(t)' : PT'[t][p] = f
    BY <1>3, <2>1
  <2> QED
    BY <2>5, <2>6
<1> QED
  BY <1>3, <1>5, <1>6, <1>7, <1>11, <1>12 DEF MemInv

(* A process whose brk wraps loses no page, and one that exits with such a *)
(* brk leaves everything as it was: its frames are lost.                   *)
LEMMA HeapWrapped ==
  ASSUME MemInv, NEW c \in Live, Live \subseteq Task, UNCHANGED <<phys_mem, PT>>,
         exact' = FALSE, brk' \in [Task -> 0 .. WORD - 1],
         \A t \in Live : t # c => brk'[t] = brk[t],
         \/ Live' = Live /\ 2 * brk'[c] >= WORD
         \/ Live' = Live \ {c}
  PROVE  MemInv'
<1>1. /\ MemTypeOK /\ CodeShared /\ CodeUsed /\ FromAlloc /\ Distinct
      /\ Heaps /\ Tame /\ Mapped /\ Exactly
  BY DEF MemInv
<1>2. /\ Live' \subseteq Live /\ \A t : Own(t)' = Own(t)
      /\ c \in Live' => HeapPages(brk'[c]) = 0 /\ ~ (2 * brk'[c] < WORD)
  <2>1. c \in Live' => brk'[c] \in Nat /\ 2 * brk'[c] >= WORD /\ WORD \in Nat
    BY Sizes
  <2>2. c \in Live' => ~ (2 * brk'[c] < WORD)
    BY <2>1
  <2> QED
    BY <2>2 DEF Own, HeapPages
<1>3. MemTypeOK' /\ CodeShared' /\ CodeUsed' /\ FromAlloc' /\ Distinct'
  <2>1. MemTypeOK'
    BY <1>1 DEF MemTypeOK
  <2>2. CodeShared' /\ CodeUsed'
    BY <1>1, <1>2 DEF CodeShared, CodeUsed
  <2>3. FromAlloc' /\ Distinct'
    BY <1>1, <1>2 DEF FromAlloc, Distinct
  <2> QED
    BY <2>1, <2>2, <2>3
<1>4. PageHeap + 0 <= LastPage /\ HeapPages(brk[c]) \in Nat /\ PageHeap \in Nat
  BY LiveHeap, Sizes
<1>5. Heaps' /\ Tame'
  <2>1. ASSUME NEW t \in Live'
        PROVE  /\ 2 * brk'[t] < WORD => L_HEAP_START <= brk'[t]
               /\ PageHeap + HeapPages(brk'[t]) <= LastPage
    BY <1>1, <1>2, <1>4 DEF Heaps
  <2> QED
    BY <2>1, NextHeaps
<1>6. Mapped'
  <2>1. ASSUME NEW t \in Live', t # c PROVE OwnPages(t)' \subseteq Own(t)'
    BY <1>1, <1>2, <2>1, NextHeaps DEF Mapped, OwnPages
  <2>2. c \in Live' => OwnPages(c)' \subseteq Own(c)'
    <3>1. PICK h \in Nat, ph \in Nat : h = HeapPages(brk[c]) /\ ph = PageHeap
      BY <1>4
    <3>2. PageData .. ph + 0 - 1 \subseteq PageData .. ph + h - 1
      BY Sizes
    <3>3. c \in Live' => OwnPages(c)' = PageData .. ph + 0 - 1
      BY <1>2, <3>1, NextHeaps
    <3>4. OwnPages(c) = PageData .. ph + h - 1
      BY <3>1 DEF OwnPages
    <3> QED
      BY <1>1, <1>2, <3>2, <3>3, <3>4 DEF Mapped
  <2> QED
    BY <2>1, <2>2 DEF Mapped
<1>7. Exactly'
  BY DEF Exactly
<1> QED
  BY <1>3, <1>5, <1>6, <1>7 DEF MemInv

(* sbrk(n), n > 0.                                                         *)
LEMMA GrowInv ==
  ASSUME IInv, MemInv, NEW n \in INCREMENTS, sbrk_grow(n) PROVE MemInv'
<1> DEFINE old   == brk[current]
           new   == (old + n) % WORD
           pags  == PAG_HEAP(new) - PAG_HEAP(old) + (IF aligned(old) THEN 1 ELSE 0)
           first == PageHeap + PAG_HEAP(old) + (IF aligned(old) THEN 0 ELSE 1)
           fs    == alloc_frames(pags)
<1>1. /\ Running /\ ~Wild(current) /\ n > 0 /\ UNCHANGED schedVars /\ Live' = Live
      /\ current \in Task /\ current \in Live /\ Live \subseteq Task
  BY DEF sbrk_grow, schedVars, Live, IInv, TypeOK, Running, OnePlace
<1>2. CASE UNCHANGED memOnly
  <2>1. UNCHANGED <<phys_mem, PT, brk, exact>>
    BY <1>2 DEF memOnly
  <2> QED
    BY <1>1, <2>1, SameTables DEF MemInv, MemTypeOK
<1>3. CASE /\ Len(free_frames) >= pags
           /\ phys_mem' = phys_mem \cup Range(fs)
           /\ PT' = [PT EXCEPT ![current] = set_ss_pag(@, first, fs)]
           /\ brk' = [brk EXCEPT ![current] = new]
           /\ exact' = (exact /\ ~aligned(new))
  <2>1. /\ heap(old) \in Nat /\ pags \in 0 .. Len(free_frames)
        /\ first = PageHeap + heap(old)
        /\ L_HEAP_START <= new /\ 2 * new < WORD /\ new = old + n /\ old \in Nat
        /\ heap(new) \in Nat /\ heap(old) <= heap(new)
        /\ first + pags <= LastPage
        /\ first + pags - 1 = PageHeap + PAG_HEAP(new)
        /\ heap(new) = PAG_HEAP(new) + (IF aligned(new) THEN 0 ELSE 1)
    BY <1>1, <1>3, GrowFacts
  <2>2. Unused(fs, pags) /\ pags \in Nat /\ new \in Nat
    <3>1. n \in Nat
      BY <1>1, Increments
    <3> HIDE DEF new, pags
    <3>2. new \in Nat
      BY <2>1, <3>1
    <3>3. pags \in Nat /\ Unused(alloc_frames(pags), pags)
      <4>1. PICK m \in 0 .. Len(free_frames) : m = pags
        BY <2>1
      <4>2. Len(free_frames) \in Nat /\ Unused(alloc_frames(m), m)
        BY FreeFrames
      <4>3. m \in Nat
        BY <4>2
      <4> QED
        BY <4>1, <4>2, <4>3
    <3> QED
      BY <3>2, <3>3
  <2> HIDE DEF first, fs, new, pags
  <2>3. PICK c \in Live, m \in Nat, b \in Nat, h \in Nat, ho \in Nat :
          /\ c = current /\ m = pags /\ b = new /\ h = heap(new) /\ ho = heap(old)
    BY <1>1, <2>1, <2>2
  <2>4. /\ ho = HeapPages(brk[c]) /\ h = HeapPages(b) /\ ho <= h
        /\ L_HEAP_START <= b /\ 2 * b < WORD /\ first = PageHeap + ho
    <3>1. HeapPages(brk[c]) = heap(brk[c])
      BY <1>1, <2>3, LiveHeap
    <3> QED
      BY <2>1, <2>3, <3>1 DEF HeapPages
  <2>5. /\ h <= ho + m /\ PageHeap + ho + m <= LastPage
        /\ (~aligned(new) => h = ho + m)
    <3>1. PICK ph \in Nat, w \in Int : ph = PageHeap /\ w = PAG_HEAP(new)
      <4>1. PAG_HEAP(new) \in Nat
        BY <2>1, <2>2, HeapSize
      <4>2. PageHeap \in Nat
        BY Sizes
      <4> QED
        BY <4>1, <4>2
    <3>2. ph + ho + m - 1 = ph + w /\ ph + ho + m <= LastPage
      BY <2>1, <2>3, <2>4, <3>1
    <3>3. h = w + (IF aligned(new) THEN 0 ELSE 1)
      BY <2>1, <2>3, <3>1
    <3>4. h = w \/ h = w + 1
      BY <3>3
    <3>5. ~aligned(new) => h = w + 1
      BY <3>3
    <3>6. w = ho + m - 1
      BY <3>2
    <3>7. h <= ho + m
      BY <3>4, <3>6
    <3>8. ~aligned(new) => h = ho + m
      BY <3>5, <3>6
    <3> QED
      BY <3>1, <3>2, <3>7, <3>8
  <2>6. Unused(fs, m)
    BY <2>2, <2>3
  <2>7. /\ phys_mem' = phys_mem \cup Range(fs)
        /\ PT' = [PT EXCEPT ![c] = set_ss_pag(PT[c], PageHeap + ho, fs)]
        /\ brk' = [brk EXCEPT ![c] = b]
    BY <1>3, <2>3, <2>4
  <2>8. exact' \in BOOLEAN /\ (exact' => exact /\ h = ho + m)
    BY <1>3, <2>5
  <2> QED
    BY <1>1, <2>4, <2>5, <2>6, <2>7, <2>8, HeapLonger
<1> QED
  BY <1>2, <1>3 DEF sbrk_grow

(* sbrk(n), n < 0.                                                         *)
LEMMA ShrinkInv ==
  ASSUME IInv, MemInv, NEW n \in INCREMENTS, sbrk_shrink(n) PROVE MemInv'
<1> DEFINE old   == brk[current]
           new   == (old + n) % WORD
           dest  == IF new < L_HEAP_START THEN L_HEAP_START ELSE new
           pags  == PAG_HEAP(old) - PAG_HEAP(dest) + (IF aligned(dest) THEN 1 ELSE 0)
           first == PageHeap + PAG_HEAP(dest) + (IF aligned(dest) THEN 0 ELSE 1)
<1>1. /\ Running /\ ~Wild(current) /\ n < 0 /\ old # L_HEAP_START
      /\ UNCHANGED schedVars /\ Live' = Live
      /\ current \in Task /\ current \in Live /\ Live \subseteq Task
  BY DEF sbrk_shrink, schedVars, Live, IInv, TypeOK, Running, OnePlace
<1>2. /\ free_frame(frames_of(PT[current], first, pags))
      /\ PT' = [PT EXCEPT ![current] = del_ss_pag(PT[current], first, pags)]
      /\ brk' = [brk EXCEPT ![current] = dest]
      /\ exact' = (exact /\ old + n >= 0)
  BY DEF sbrk_shrink
<1>3. /\ brk \in [Task -> 0 .. WORD - 1] /\ PT \in [Task -> [Page -> Frame]]
      /\ exact \in BOOLEAN /\ old \in Nat /\ n \in Int
  BY <1>1, LiveHeap, Increments DEF MemInv, MemTypeOK, Frame
<1>4. CASE old + n >= 0
  <2>1. /\ dest \in Nat /\ L_HEAP_START <= dest /\ dest <= old
        /\ heap(dest) \in Nat /\ heap(old) \in Nat
        /\ pags \in Nat /\ first = PageHeap + heap(dest)
        /\ first + pags - 1 <= LastPage
        /\ PageHeap + heap(old) <= first + pags
        /\ heap(dest) <= heap(old)
    BY <1>1, <1>4, ShrinkFacts
  <2>2. /\ 2 * old < WORD /\ PageHeap + heap(old) <= LastPage
        /\ HeapPages(old) = heap(old)
    BY <1>1, LiveHeap
  <2>3. UNCHANGED exact
    BY <1>2, <1>3, <1>4
  <2> HIDE DEF first, dest, pags, new
  <2>4. PICK c \in Live, m \in Nat, b \in Nat, h \in Nat, ho \in Nat, fst \in Nat :
          /\ c = current /\ m = pags /\ b = dest /\ h = heap(dest) /\ ho = heap(old)
          /\ fst = first
    <3>1. first \in Nat
      BY <2>1, Sizes
    <3> QED
      BY <1>1, <2>1, <3>1
  <2>5. 2 * b < WORD /\ b \in 0 .. WORD - 1
    BY <1>3, <2>1, <2>2, <2>4, Sizes
  <2>6. /\ HeapPages(brk[c]) = ho /\ HeapPages(b) = h /\ h <= ho
        /\ L_HEAP_START <= b /\ b <= old /\ fst = PageHeap + h
        /\ fst + m - 1 <= LastPage /\ PageHeap + ho <= fst + m
    BY <2>1, <2>2, <2>4, <2>5 DEF HeapPages
  <2>7. /\ PageData <= fst /\ fst <= PageHeap + ho /\ PageHeap + h <= LastPage
    BY <2>2, <2>4, <2>6, Sizes
  <2>8. /\ free_frame(frames_of(PT[c], fst, m))
        /\ PT' = [PT EXCEPT ![c] = del_ss_pag(PT[c], fst, m)]
        /\ brk' = [brk EXCEPT ![c] = b]
    BY <1>2, <2>4
  <2>9. /\ brk' \in [Task -> 0 .. WORD - 1] /\ brk'[c] = b
        /\ \A t \in Live : t # c => brk'[t] = brk[t]
    BY <1>1, <1>3, <2>4, <2>5, <2>8
  <2> QED
    BY <1>1, <2>3, <2>5, <2>6, <2>7, <2>8, <2>9, HeapShorter
<1>5. CASE old + n < 0
  <2>1. /\ dest \in 0 .. WORD - 1 /\ 2 * dest >= WORD
        /\ pags \in Int /\ pags <= 0 /\ first \in Int
    BY <1>1, <1>5, WrapFacts
  <2>2. exact' = FALSE
    <3>1. ~ (old + n >= 0)
      BY <1>3, <1>5
    <3> QED
      BY <1>2, <3>1
  <2> HIDE DEF first, dest, pags, new, old
  <2>3. UNCHANGED <<phys_mem, PT>>
    BY <1>1, <1>2, <1>3, <2>1, NoPages
  <2>4. PICK c \in Live : c = current
    BY <1>1
  <2>5. /\ brk' \in [Task -> 0 .. WORD - 1] /\ 2 * brk'[c] >= WORD
        /\ \A t \in Live : t # c => brk'[t] = brk[t]
    BY <1>1, <1>2, <1>3, <2>1, <2>4
  <2> QED
    BY <1>1, <2>2, <2>3, <2>5, HeapWrapped
<1> QED
  BY <1>3, <1>4, <1>5

(* sys_exit.                                                               *)
LEMMA MemExitInv == ASSUME IInv, IInv', MemInv, mem_exit PROVE MemInv'
<1>1. /\ sys_exit /\ UNCHANGED <<brk, exact>>
      /\ current \in Task /\ current \in Live /\ Live \subseteq Task
  BY DEF mem_exit, sys_exit, IInv, TypeOK, Running, Live, OnePlace
<1>2. Live' = Live \ {current}
  BY <1>1, LiveSteps
<1>3. /\ brk[current] \in Nat /\ brk[current] < WORD
      /\ HeapPages(brk[current]) \in Nat
      /\ PageHeap + HeapPages(brk[current]) <= LastPage
      /\ brk \in [Task -> 0 .. WORD - 1] /\ PT \in [Task -> [Page -> Frame]]
      /\ exact \in BOOLEAN
  BY <1>1, LiveHeap DEF MemInv, MemTypeOK, Frame
<1>4. CASE ~Wild(current)
  <2>1. HeapPages(brk[current]) = heap(brk[current])
    BY <1>1, <1>4, LiveHeap
  <2>2. PICK c \in Live, ho \in Nat, m \in Nat, pd \in Nat :
          /\ c = current /\ ho = heap(brk[current]) /\ m = NUM_PAG_DATA + ho
          /\ pd = PageData
    BY <1>1, <1>3, <2>1, Sizes
  <2>3. /\ free_frame(frames_of(PT[c], pd, m))
        /\ PT' = [PT EXCEPT ![c] = del_ss_pag(PT[c], pd, m)]
    BY <2>2 DEF mem_exit
  <2>4. /\ PageData <= pd /\ pd <= PageHeap + ho /\ PageHeap + ho <= pd + m
        /\ pd + m - 1 <= LastPage /\ HeapPages(brk[c]) = ho
    BY <1>3, <2>1, <2>2, Sizes
  <2>5. brk' \in [Task -> 0 .. WORD - 1] /\ \A t \in Live : t # c => brk'[t] = brk[t]
    BY <1>1, <1>3
  <2>6. Live' = Live \ {c} /\ pd = PageData /\ UNCHANGED exact
    BY <1>1, <1>2, <2>2
  <2> QED
    BY <1>1, <2>3, <2>4, <2>5, <2>6, HeapShorter
<1>5. CASE Wild(current)
  <2>1. 2 * brk[current] >= WORD /\ exact' = FALSE
    BY <1>1, <1>3, <1>5, LiveHeap
  <2>2. PICK c \in Live, m \in Int :
          c = current /\ m = NUM_PAG_DATA + heap(brk[current]) /\ m <= 0
    BY <1>1, <1>3, <2>1, WildHeap, Sizes
  <2>3. /\ free_frame(frames_of(PT[c], PageData, m))
        /\ PT' = [PT EXCEPT ![c] = del_ss_pag(PT[c], PageData, m)]
    BY <2>2 DEF mem_exit
  <2>4. UNCHANGED <<phys_mem, PT>>
    <3>1. PageData \in Int /\ c \in Task
      BY <1>1, Sizes
    <3> QED
      BY <1>3, <2>2, <2>3, <3>1, NoPages
  <2>5. brk' \in [Task -> 0 .. WORD - 1] /\ \A t \in Live : t # c => brk'[t] = brk[t]
    BY <1>1, <1>3
  <2> QED
    BY <1>1, <1>2, <2>1, <2>2, <2>4, <2>5, HeapWrapped
<1> QED
  BY <1>4, <1>5

(* The child of a fork: the code it shares, and pages of its own.          *)
LEMMA ChildMade ==
  ASSUME MemInv, NEW c \in Live, NEW k \in Task \ Live, Live \subseteq Task,
         Live' = Live \cup {k},
         NEW n \in Nat, NEW fs, Unused(fs, n), NEW ho \in Nat, ho = HeapPages(brk[c]),
         n = NUM_PAG_DATA + ho, PageHeap + ho + n <= LastPage, UNCHANGED exact,
         exact => 2 * brk[c] < WORD,
         brk' = [brk EXCEPT ![k] = brk[c]],
         phys_mem' = phys_mem \cup Range(fs),
         PT' = [PT EXCEPT
            ![k] = set_ss_pag([p \in Page |-> IF p \in Code THEN PT[c][p] ELSE PT[k][p]],
                              PageData, fs),
            ![c] = del_ss_pag(PT[c], PageData + n, n)]
  PROVE  MemInv'
<1>1. /\ MemTypeOK /\ CodeShared /\ CodeUsed /\ FromAlloc /\ Distinct
      /\ Heaps /\ Tame /\ Mapped /\ Exactly
      /\ PT \in [Task -> [Page -> Frame]] /\ brk \in [Task -> 0 .. WORD - 1]
      /\ c \in Task /\ k \in Task /\ c # k /\ exact \in BOOLEAN
  BY DEF MemInv, MemTypeOK, Frame
<1>2. PICK pd \in Nat, ph \in Nat :
        /\ pd = PageData /\ ph = PageHeap /\ pd = NUM_PAG_CODE /\ pd + n = ph + ho
        /\ ph + ho <= LastPage /\ pd + n - 1 <= LastPage
        /\ ph + ho + n - 1 <= LastPage
  BY Sizes
<1>3. PICK low \in [Page -> Frame] :
        low = [p \in Page |-> IF p \in Code THEN PT[c][p] ELSE PT[k][p]]
  BY <1>1
<1>4. PICK row, rest :
        row = set_ss_pag(low, pd, fs) /\ rest = del_ss_pag(PT[c], pd + n, n)
  OBVIOUS
<1>5. /\ row \in [Page -> Frame]
      /\ \A p \in Page : row[p] = IF p \in pd .. pd + n - 1 THEN fs[p - pd + 1] ELSE low[p]
      /\ \A p \in pd .. pd + n - 1 :
           p - pd + 1 \in 1 .. n /\ fs[p - pd + 1] \in Allocatable \ phys_mem
  <2>1. /\ set_ss_pag(low, pd, fs) \in [Page -> Frame]
        /\ \A p \in Page :
             set_ss_pag(low, pd, fs)[p]
               = IF p \in pd .. pd + n - 1 THEN fs[p - pd + 1] ELSE low[p]
        /\ \A p \in pd .. pd + n - 1 :
             p - pd + 1 \in 1 .. n /\ fs[p - pd + 1] \in Allocatable \ phys_mem
    BY <1>2, SetPages
  <2> QED
    BY <1>4, <2>1
<1>6. /\ rest \in [Page -> Frame]
      /\ \A p \in Page : rest[p] = IF p \in ph + ho .. ph + ho + n - 1 THEN 0 ELSE PT[c][p]
  <2>1. PICK pt \in [Page -> Frame], w \in Nat :
          pt = PT[c] /\ w = ph + ho /\ w + n - 1 <= LastPage
    BY <1>1, <1>2
  <2>2. rest = del_ss_pag(pt, w, n)
    BY <1>2, <1>4, <2>1
  <2>3. /\ del_ss_pag(pt, w, n) \in [Page -> Frame]
        /\ \A p \in Page :
             del_ss_pag(pt, w, n)[p] = IF p \in w .. w + n - 1 THEN 0 ELSE pt[p]
    BY <2>1, DelPages
  <2> QED
    BY <2>1, <2>2, <2>3
<1>7. /\ PT' \in [Task -> [Page -> Frame]] /\ PT'[k] = row /\ PT'[c] = rest
      /\ \A t \in Task : t # c /\ t # k => PT'[t] = PT[t] /\ Own(t)' = Own(t)
  <2>1. PT' = [PT EXCEPT ![k] = row, ![c] = rest]
    BY <1>2, <1>3, <1>4
  <2>2. /\ PT' \in [Task -> [Page -> Frame]] /\ PT'[k] = row /\ PT'[c] = rest
        /\ \A t \in Task : t # c /\ t # k => PT'[t] = PT[t]
    <3>1. row \in [Page -> Frame] /\ rest \in [Page -> Frame]
      BY <1>5, <1>6
    <3>2. PICK T1 \in [Task -> [Page -> Frame]] : T1 = [PT EXCEPT ![k] = row]
      BY <1>1, <3>1
    <3>3. PT' = [T1 EXCEPT ![c] = rest]
      BY <2>1, <3>2
    <3>4. /\ T1[k] = row /\ \A t \in Task : t # k => T1[t] = PT[t]
          /\ T1 \in [Task -> [Page -> Frame]]
      BY <1>1, <3>2
    <3>5. /\ PT'[c] = rest /\ \A t \in Task : t # c => PT'[t] = T1[t]
          /\ PT' \in [Task -> [Page -> Frame]]
      <4>1. c \in Task /\ rest \in [Page -> Frame]
        BY <1>1, <3>1
      <4>2. PT'[c] = rest
        BY <3>3, <4>1
      <4>3. \A t \in Task : t # c => PT'[t] = T1[t]
        BY <3>3, <4>1
      <4>4. PT' \in [Task -> [Page -> Frame]]
        BY <3>3, <4>1
      <4> QED
        BY <4>2, <4>3, <4>4
    <3> QED
      BY <1>1, <3>4, <3>5
  <2> QED
    BY <2>2 DEF Own
<1>8. /\ \A p \in pd .. pd + n - 1 : p \in Page \ Code
      /\ \A p \in Code : p \in Page /\ p \notin pd .. pd + n - 1
                       /\ p \notin ph + ho .. ph + ho + n - 1
  <2>1. PICK tot \in Nat : tot = LastPage /\ pd <= ph + ho /\ ph + ho <= tot
                          /\ pd + n - 1 <= tot /\ Code = 0 .. pd - 1 /\ Page = 0 .. tot
    <3>1. Code = 0 .. pd - 1 /\ Page = 0 .. LastPage
      BY <1>2, Pages DEF Code
    <3> QED
      BY <1>2, <3>1, Sizes, SMTT(30)
  <2>2. \A p \in pd .. pd + n - 1 : p \in 0 .. tot /\ p \notin 0 .. pd - 1
    BY <2>1
  <2>3. \A p \in 0 .. pd - 1 : p \in 0 .. tot /\ p \notin pd .. pd + n - 1
                           /\ p \notin ph + ho .. ph + ho + n - 1
    BY <2>1
  <2> QED
    BY <2>1, <2>2, <2>3
<1>9. /\ \A p \in pd .. pd + n - 1 : row[p] = fs[p - pd + 1] /\ row[p] # 0
      /\ \A p \in Page \ Code : p \notin pd .. pd + n - 1 => row[p] = PT[k][p]
      /\ \A p \in Code : row[p] = PT[c][p] /\ rest[p] = PT[c][p]
  BY <1>3, <1>5, <1>6, <1>8, CodeFrameFacts
<1>10. /\ Own(k)' = Own(k) \cup (pd .. pd + n - 1)
       /\ Own(c)' = Own(c) \ (ph + ho .. ph + ho + n - 1)
       /\ \A p \in Own(c)' : rest[p] = PT[c][p]
  <2>1. Own(k)' = Own(k) \cup (pd .. pd + n - 1)
    BY <1>7, <1>8, <1>9 DEF Own
  <2>2. Own(c)' = Own(c) \ (ph + ho .. ph + ho + n - 1)
    BY <1>6, <1>7 DEF Own
  <2>3. \A p \in Own(c)' : rest[p] = PT[c][p]
    BY <1>6, <1>7 DEF Own
  <2> QED
    BY <2>1, <2>2, <2>3
<1>11. Range(fs) \subseteq Frame /\ Range(fs) \subseteq phys_mem' /\ phys_mem \subseteq phys_mem'
  <2>1. Range(fs) \subseteq Allocatable
    BY DEF Unused, Range
  <2> QED
    BY <2>1, CodeFrameFacts
<1>12. MemTypeOK'
  BY <1>1, <1>7, <1>11 DEF MemTypeOK, Frame
<1>13. CodeShared' /\ CodeUsed'
  <2>1. \A t \in Task : \A p \in Code : PT'[t][p] = IF t = k THEN PT[c][p] ELSE PT[t][p]
    BY <1>7, <1>9
  <2>2. ASSUME NEW t \in Task, NEW p \in Code PROVE PT'[t][p] \in {0, CodeFrame(p)}
    BY <1>1, <2>1 DEF CodeShared
  <2>3. ASSUME NEW t \in Live', NEW p \in Code PROVE PT'[t][p] = CodeFrame(p)
    <3>1. t \in Task /\ (t # k => t \in Live)
      BY <1>1
    <3> QED
      BY <1>1, <2>1, <3>1 DEF CodeShared
  <2>4. CodeShared'
    BY <2>2, <2>3 DEF CodeShared
  <2>5. CodeUsed'
    BY <1>1, <1>11 DEF CodeUsed
  <2> QED
    BY <2>4, <2>5
<1>14. FromAlloc' /\ Distinct'
  <2>1. ASSUME NEW t \in Task, NEW p, p \in Own(t)'
        PROVE  \/ p \in Own(t) /\ PT'[t][p] = PT[t][p] /\ PT[t][p] \in phys_mem'
               \/ t = k /\ p \in pd .. pd + n - 1 /\ PT'[t][p] = fs[p - pd + 1]
    <3>1. CASE t = k /\ p \in pd .. pd + n - 1
      BY <1>7, <1>9, <3>1
    <3>2. CASE ~ (t = k /\ p \in pd .. pd + n - 1)
      <4>1. p \in Own(t) /\ p \in Page \ Code
        BY <1>7, <1>10, <2>1, <3>2, ZenonT(60) DEF Own
      <4>2. PT'[t][p] = PT[t][p]
        BY <1>7, <1>9, <1>10, <2>1, <3>2, <4>1
      <4> QED
        BY <1>1, <1>11, <4>1, <4>2 DEF FromAlloc
    <3> QED
      BY <3>1, <3>2
  <2>2. OnlyNew(k, pd, n, fs)
    BY <2>1 DEF OnlyNew
  <2>3. /\ FromAlloc /\ Distinct /\ CodeUsed /\ k \in Task
        /\ Unused(fs, n) /\ Range(fs) \subseteq phys_mem'
    BY <1>1, <1>11
  <2> QED
    BY <2>2, <2>3, TablesStep
<1>15. brk'[k] = brk[c] /\ \A t \in Live : brk'[t] = brk[t]
  BY <1>1
<1>16. Heaps' /\ Tame'
  <2>1. ASSUME NEW t \in Live'
        PROVE  /\ 2 * brk'[t] < WORD => L_HEAP_START <= brk'[t]
               /\ PageHeap + HeapPages(brk'[t]) <= LastPage
               /\ exact' => 2 * brk'[t] < WORD
    BY <1>1, <1>15 DEF Heaps, Tame
  <2> QED
    BY <2>1, NextHeaps
<1>17. /\ \A t \in Live : OwnPages(t)' = OwnPages(t)
       /\ OwnPages(c) = pd .. ph + ho - 1 /\ OwnPages(k)' = pd .. pd + n - 1
  <2>1. OwnPages(k)' = PageData .. ph + ho - 1
    BY <1>2, <1>15, NextHeaps
  <2>2. OwnPages(c) = PageData .. ph + ho - 1
    BY <1>2 DEF OwnPages
  <2>3. \A t \in Live : OwnPages(t)' = OwnPages(t)
    BY <1>15, NextHeaps DEF OwnPages
  <2>4. PageData .. ph + ho - 1 = pd .. ph + ho - 1
        /\ PageData .. ph + ho - 1 = pd .. pd + n - 1
    BY <1>2
  <2> QED
    BY <2>1, <2>2, <2>3, <2>4
<1>18. Mapped'
  <2>1. OwnPages(k)' \subseteq Own(k)'
    BY <1>10, <1>17
  <2>2. OwnPages(c)' \subseteq Own(c)'
    <3>1. \A p \in pd .. ph + ho - 1 : p \notin ph + ho .. ph + ho + n - 1
      OBVIOUS
    <3> QED
      BY <1>1, <1>10, <1>17, <3>1 DEF Mapped
  <2>3. \A t \in Live : t # c => OwnPages(t)' \subseteq Own(t)'
    <3> SUFFICES ASSUME NEW t \in Live, t # c PROVE OwnPages(t)' \subseteq Own(t)'
      OBVIOUS
    <3>1. t \in Task /\ t # k
      OBVIOUS
    <3>2. Own(t)' = Own(t)
      BY <1>7, <3>1
    <3>3. OwnPages(t)' = OwnPages(t)
      BY <1>17
    <3>4. OwnPages(t) \subseteq Own(t)
      BY <1>1 DEF Mapped
    <3> QED
      BY <3>2, <3>3, <3>4
  <2>4. \A t \in Live' : OwnPages(t)' \subseteq Own(t)'
    BY <2>1, <2>2, <2>3
  <2> QED
    BY <2>4 DEF Mapped
<1>19. Exactly'
  <2> SUFFICES ASSUME exact
               PROVE  /\ \A t \in Task : Own(t)' = IF t \in Live' THEN OwnPages(t)' ELSE {}
                      /\ \A f \in phys_mem' :
                           \/ f \in 0 .. NUM_PAG_KERNEL - 1 \cup CodeFrames
                           \/ \E t \in Task : \E p \in Own(t)' : PT'[t][p] = f
    BY DEF Exactly
  <2>1. /\ \A t \in Task : Own(t) = IF t \in Live THEN OwnPages(t) ELSE {}
        /\ \A f \in phys_mem :
             \/ f \in 0 .. NUM_PAG_KERNEL - 1 \cup CodeFrames
             \/ \E t \in Task : \E p \in Own(t) : PT[t][p] = f
    BY <1>1 DEF Exactly
  <2>2. Own(k) = {} /\ Own(k)' = OwnPages(k)'
    BY <1>10, <1>17, <2>1
  <2>3. Own(c)' = Own(c)
    <3>1. \A p \in pd .. ph + ho - 1 : p \notin ph + ho .. ph + ho + n - 1
      OBVIOUS
    <3>2. Own(c) = pd .. ph + ho - 1
      BY <1>1, <1>17, <2>1
    <3> QED
      BY <1>10, <3>1, <3>2
  <2>4. \A t \in Task : Own(t)' = IF t \in Live' THEN OwnPages(t)' ELSE {}
    BY <1>1, <1>7, <1>17, <2>1, <2>2, <2>3
  <2>5. ASSUME NEW f \in phys_mem'
        PROVE  \/ f \in 0 .. NUM_PAG_KERNEL - 1 \cup CodeFrames
               \/ \E t \in Task : \E p \in Own(t)' : PT'[t][p] = f
    <3>1. CASE f \in Range(fs)
      <4>1. PICK i \in 1 .. n : f = fs[i]
        BY <3>1 DEF Unused, Range
      <4>2. pd + i - 1 \in pd .. pd + n - 1 /\ (pd + i - 1) - pd + 1 = i
        BY <4>1
      <4>3. pd + i - 1 \in Own(k)' /\ PT'[k][pd + i - 1] = f
        BY <1>7, <1>9, <1>10, <4>1, <4>2
      <4> QED
        BY <1>1, <4>3
    <3>2. CASE f \in phys_mem /\ f \notin 0 .. NUM_PAG_KERNEL - 1 \cup CodeFrames
      <4>0. PICK t \in Task : \E p \in Own(t) : PT[t][p] = f
        BY <2>1, <3>2
      <4>1. PICK p \in Own(t) : PT[t][p] = f
        BY <4>0
      <4>2. t # k
        BY <2>2, <4>1
      <4>3. p \in Own(t)' /\ PT'[t][p] = PT[t][p]
        <5>1. CASE t = c
          BY <1>7, <1>10, <2>3, <4>1, <5>1
        <5>2. CASE t # c
          BY <1>7, <4>1, <4>2, <5>2
        <5> QED
          BY <5>1, <5>2
      <4> QED
        BY <4>1, <4>3
    <3> QED
      BY <3>1, <3>2
  <2> QED
    BY <2>4, <2>5
<1> QED
  BY <1>12, <1>13, <1>14, <1>16, <1>18, <1>19 DEF MemInv

(* sys_fork.                                                               *)
LEMMA MemForkInv == ASSUME IInv, IInv', MemInv, mem_fork PROVE MemInv'
<1> DEFINE child == Head(freequeue)
           n     == NUM_PAG_DATA + heap(brk[current])
           fs    == alloc_frames(n)
<1>1. /\ Running /\ current \in Task /\ current \in Live /\ Live \subseteq Task
  BY DEF mem_fork, IInv, TypeOK, Running, Live, OnePlace
<1>2. brk \in [Task -> 0 .. WORD - 1]
  BY DEF MemInv, MemTypeOK
<1>3. CASE fork_EAGAIN /\ UNCHANGED memOnly
  <2>1. UNCHANGED <<phys_mem, PT, brk, exact>> /\ Live' = Live
    BY <1>3, LiveSteps DEF memOnly
  <2> QED
    BY <1>2, <2>1, SameTables
<1>4. CASE /\ fork_ENOMEM /\ brk' = [brk EXCEPT ![child] = brk[current]]
           /\ UNCHANGED <<phys_mem, PT, exact>>
  <2>1. Live' = Live /\ child \in Task \ Live
    BY <1>4, LiveSteps
  <2>2. brk' \in [Task -> 0 .. WORD - 1] /\ \A t \in Live : brk'[t] = brk[t]
    BY <1>1, <1>2, <1>4, <2>1
  <2> QED
    BY <1>4, <2>1, <2>2, SameTables
<1>5. CASE /\ Len(free_frames) >= n /\ ~Wild(current) /\ fork_child
           /\ brk' = [brk EXCEPT ![child] = brk[current]]
           /\ fork_memory(child, n) /\ UNCHANGED exact
  <2>1. Live' = Live \cup {child} /\ child \in Task \ Live
    BY <1>5, LiveSteps
  <2>2. /\ heap(brk[current]) \in Nat /\ Len(free_frames) \in Nat
        /\ PageHeap + heap(brk[current]) + Len(free_frames) <= LastPage
        /\ HeapPages(brk[current]) = heap(brk[current]) /\ 2 * brk[current] < WORD
    BY <1>1, <1>5, Room, LiveHeap
  <2>3. n \in 0 .. Len(free_frames) /\ n \in Nat
    BY <1>5, <2>2, Sizes, SMTT(30)
  <2>4. Unused(fs, n)
    BY <2>3, FreeFrames
  <2>5. /\ phys_mem' = phys_mem \cup Range(fs)
        /\ PT' = [PT EXCEPT
              ![child] = set_ss_pag([p \in Page |-> IF p \in Code THEN PT[current][p]
                                                    ELSE PT[child][p]], PageData, fs),
              ![current] = del_ss_pag(PT[current], PageData + n, n)]
    BY <1>5 DEF fork_memory
  <2> HIDE DEF child, n, fs
  <2>6. PICK c \in Live, k \in Task \ Live, m \in Nat, ho \in Nat :
          c = current /\ k = child /\ m = n /\ ho = heap(brk[current])
    BY <1>1, <2>1, <2>2, <2>3
  <2>7. /\ ho = HeapPages(brk[c]) /\ m = NUM_PAG_DATA + ho /\ Unused(fs, m)
        /\ 2 * brk[c] < WORD /\ Live' = Live \cup {k} /\ UNCHANGED exact
    BY <1>5, <2>1, <2>2, <2>4, <2>6 DEF n
  <2>8. /\ brk' = [brk EXCEPT ![k] = brk[c]]
        /\ PT' = [PT EXCEPT
              ![k] = set_ss_pag([p \in Page |-> IF p \in Code THEN PT[c][p]
                                                ELSE PT[k][p]], PageData, fs),
              ![c] = del_ss_pag(PT[c], PageData + m, m)]
    BY <1>5, <2>5, <2>6
  <2>9. PageHeap + ho + m <= LastPage
    <3>1. PICK l \in Nat, ph \in Nat, w \in Nat :
            l = Len(free_frames) /\ ph = PageHeap /\ w = LastPage
      BY <2>2, Sizes
    <3>2. ph + ho + l <= w /\ m <= l
      BY <2>2, <2>3, <2>6, <3>1
    <3>3. ph + ho + m <= w
      BY <3>2
    <3> QED
      BY <3>1, <3>3
  <2> QED
    BY <1>1, <2>5, <2>7, <2>8, <2>9, ChildMade
<1> QED
  BY <1>3, <1>4, <1>5 DEF mem_fork

(* What memory does with the process table is a step of Sched.             *)
LEMMA MemStepOfSched == [MemNext]_memVars => [Next]_schedVars
<1>1. memVars' = memVars => schedVars' = schedVars
  BY DEF memVars
<1>2. mem_fork => sys_fork
  BY DEF mem_fork, sys_fork
<1>3. mem_exit => sys_exit
  BY DEF mem_exit
<1>4. sys_sbrk => schedVars' = schedVars
  BY DEF sys_sbrk, sbrk_grow, sbrk_shrink
<1> QED
  BY <1>1, <1>2, <1>3, <1>4 DEF MemNext, Next

(* Sched leaves out the memory a fork needs; everything proved of its      *)
(* process table holds when that memory is there.                          *)
THEOREM MemKeepsSched == MemSpec => Spec
<1>1. MemInit => Init
  BY DEF MemInit
<1> QED
  BY <1>1, MemStepOfSched, PTL DEF MemSpec, Spec

(* Every step of the memory, by its lemma.                                  *)
LEMMA MemStep == ASSUME IInv, IInv', MemInv, [MemNext]_memVars PROVE MemInv'
<1>1. CASE schedule /\ UNCHANGED memOnly
  <2>1. UNCHANGED <<phys_mem, PT, brk, exact>> /\ Live' = Live
    BY <1>1, LiveSteps DEF memOnly
  <2> QED
    BY <2>1, SameTables DEF MemInv, MemTypeOK
<1>2. CASE UNCHANGED memVars
  <2>1. UNCHANGED <<phys_mem, PT, brk, exact>> /\ Live' = Live
    BY <1>2, LiveSteps DEF memOnly, memVars
  <2> QED
    BY <2>1, SameTables DEF MemInv, MemTypeOK
<1>3. CASE mem_fork
  BY <1>3, MemForkInv
<1>4. CASE mem_exit
  BY <1>4, MemExitInv
<1>5. CASE sys_sbrk
  BY <1>5, GrowInv, ShrinkInv DEF sys_sbrk
<1> QED
  BY <1>1, <1>2, <1>3, <1>4, <1>5 DEF MemNext

(* Every reachable state satisfies the two inductive invariants.           *)
THEOREM MemInvariance == MemSpec => [](IInv /\ MemInv)
<1>1. MemInit => MemInv
  BY MemInitInv
<1>2. IInv /\ IInv' /\ MemInv /\ [MemNext]_memVars => MemInv'
  BY MemStep
<1> QED
  BY <1>1, <1>2, MemKeepsSched, Invariance, PTL DEF MemSpec

(* Frames, page tables and heap ends keep their types: no frame past the   *)
(* memory is ever obtained, and neither set_ss_pag nor del_ss_pag, which   *)
(* look at no bound, ever writes past the end of a page table, not even    *)
(* for the pages a fork borrows past the end of the largest heap.          *)
THEOREM MemTypes == MemSpec => []MemTypeOK
BY MemInvariance, PTL DEF MemInv

(* For every size of memory, no frame of data or heap is in two places:    *)
(* not in two address spaces, not at two pages of one, not among the code. *)
THEOREM Private == MemSpec => []FramesPrivate
<1>1. ASSUME MemInv PROVE FramesPrivate
  <2>1. ASSUME NEW t \in Task, NEW u \in Task, NEW p \in Own(t), NEW q \in Code
        PROVE  PT[t][p] # PT[u][q]
    <3>1. PT[t][p] \notin CodeFrames /\ PT[t][p] # 0
      BY <1>1 DEF MemInv, FromAlloc, Own
    <3>2. PT[u][q] \in CodeFrames \cup {0}
      BY <1>1 DEF MemInv, CodeShared, CodeFrames
    <3> QED
      BY <3>1, <3>2
  <2> QED
    BY <1>1, <2>1 DEF MemInv, Distinct, FramesPrivate
<1> QED
  BY <1>1, MemInvariance, PTL

(* alloc_frame never finds a frame that a page table maps.                 *)
THEOREM NeverHandedOut == MemSpec => []MappedIsUsed
<1>1. ASSUME MemInv PROVE MappedIsUsed
  <2> SUFFICES ASSUME NEW t \in Task, NEW p \in Page, PT[t][p] # 0
               PROVE  PT[t][p] \in phys_mem
    BY DEF MappedIsUsed
  <2>1. CASE p \in Code
    BY <1>1, <2>1 DEF MemInv, CodeShared, CodeUsed, CodeFrames
  <2>2. CASE p \notin Code
    BY <1>1, <2>2 DEF MemInv, FromAlloc, Own
  <2> QED
    BY <2>1, <2>2
<1> QED
  BY <1>1, MemInvariance, PTL

(* The pages below the end of a heap are those that fork and exit count;   *)
(* there are none when its end has wrapped.                                *)
LEMMA BelowBrk ==
  ASSUME NEW b \in Nat, b < WORD, 2 * b < WORD => L_HEAP_START <= b
  PROVE  /\ HeapPages(b) \in Nat
         /\ PagesBelow(b) \subseteq 0 .. PageHeap + HeapPages(b) - 1
<1>1. CASE 2 * b < WORD
  <2>1. PICK h \in Nat, d \in Nat \ {0}, l \in Nat, ph \in Nat :
          h = heap(b) /\ d = PAGE_SIZE /\ l = L_HEAP_START /\ ph = PageHeap
          /\ b - l <= d * h
    BY <1>1, HeapSize, Sizes
  <2>2. HeapPages(b) = h /\ signed(b) = b
    BY <1>1, <2>1 DEF HeapPages, signed
  <2>3. ASSUME NEW a \in L_HEAP_START .. b - 1
        PROVE  ph + (a - l) \div d \in 0 .. ph + h - 1
    <3>1. PICK x \in Nat : x = a - l /\ x < b - l
      BY <2>1
    <3>2. PICK w \in Nat : w = x \div d /\ d * w <= x
      BY QuotientBounds
    <3>3. PICK u \in Int, v \in Int : u = d * w /\ v = d * h
      OBVIOUS
    <3>4. d * w < d * h
      BY <2>1, <3>1, <3>2, <3>3
    <3>5. d * w < d * ((h - 1) + 1) /\ h - 1 \in Int
      BY <3>4
    <3>6. w <= h - 1
      BY <3>5, Products
    <3> QED
      BY <3>1, <3>2, <3>6
  <2>4. \A p \in 0 .. ph - 1 : p \in 0 .. ph + h - 1
    OBVIOUS
  <2> QED
    BY <2>1, <2>2, <2>3, <2>4 DEF PagesBelow
<1>2. CASE ~ (2 * b < WORD)
  <2>1. PICK w \in Nat, l \in Nat, ph \in Nat :
          w = WORD /\ l = L_HEAP_START /\ ph = PageHeap /\ b < w
    BY Sizes
  <2>2. HeapPages(b) = 0 /\ signed(b) = b - w
    BY <1>2, <2>1 DEF HeapPages, signed
  <2>3. l .. (b - w) - 1 = {}
    BY <2>1
  <2> QED
    BY <2>1, <2>2, <2>3 DEF PagesBelow
<1> QED
  BY <1>1, <1>2

(* So the pages of a live process are in its page table, and those that    *)
(* are not code are its own.                                               *)
LEMMA LivePages ==
  ASSUME MemInv, NEW t \in Live, Live \subseteq Task
  PROVE  /\ HeapPages(brk[t]) \in Nat
         /\ \A p \in PagesBelow(brk[t]) :
              p \in Page /\ p <= PageHeap + HeapPages(brk[t]) - 1
              /\ (p \in Code \/ p \in OwnPages(t))
<1>1. PICK b \in Nat : /\ b = brk[t] /\ b < WORD /\ (2 * b < WORD => L_HEAP_START <= b)
                       /\ PageHeap + HeapPages(b) <= LastPage
  BY LiveHeap DEF MemInv, Heaps
<1>2. HeapPages(b) \in Nat /\ PagesBelow(b) \subseteq 0 .. PageHeap + HeapPages(b) - 1
  BY <1>1, BelowBrk
<1>3. PICK h \in Nat, ph \in Nat : h = HeapPages(b) /\ ph = PageHeap
  BY <1>2, Sizes
<1>4. \A p \in 0 .. ph + h - 1 : p \in Page /\ p <= ph + h - 1
                                 /\ (p \in Code \/ p \in PageData .. ph + h - 1)
  BY <1>1, <1>3, Sizes, Pages DEF Code
<1> QED
  BY <1>1, <1>2, <1>3, <1>4 DEF OwnPages

(* A live process has all its pages, whatever it grew, shrank and forked:  *)
(* code, data and heap, and code and data when a release has made its brk  *)
(* wrap.                                                                   *)
THEOREM AllMapped == MemSpec => []AddressSpaceMapped
<1>1. ASSUME IInv, MemInv PROVE AddressSpaceMapped
  <2> SUFFICES ASSUME NEW t \in Live, NEW p \in PagesBelow(brk[t])
               PROVE  PT[t][p] # 0
    BY DEF AddressSpaceMapped
  <2>1. Live \subseteq Task /\ (p \in Code \/ p \in OwnPages(t))
    <3>1. Live \subseteq Task
      BY <1>1 DEF IInv, OnePlace
    <3> QED
      BY <1>1, <3>1, LivePages
  <2>2. CASE p \in Code
    <3>1. PT[t][p] = CodeFrame(p) /\ CodeFrame(p) \in Allocatable
      BY <1>1, <2>2, CodeFrameFacts DEF MemInv, CodeShared, CodeFrames
    <3> QED
      BY <3>1, CodeFrameFacts
  <2>3. CASE p \in OwnPages(t)
    BY <1>1, <2>3 DEF MemInv, Mapped, Own
  <2> QED
    BY <2>1, <2>2, <2>3
<1> QED
  BY <1>1, MemInvariance, PTL

(* Every frame in use is the kernel's, the code's or a live process's,     *)
(* until a heap has grown to the end of a page or a release has wrapped.   *)
THEOREM NothingLost == MemSpec => []NoLeak
<1>1. ASSUME IInv, MemInv, exact
      PROVE  phys_mem = (0 .. NUM_PAG_KERNEL - 1)
               \cup {NUM_PAG_KERNEL + 2 * p : p \in Code}
               \cup UNION {frames_of(PT[t], PageData, NUM_PAG_DATA + heap(brk[t])) : t \in Live}
  <2> DEFINE held(t) == frames_of(PT[t], PageData, NUM_PAG_DATA + heap(brk[t]))
  <2>1. Live \subseteq Task
    BY <1>1 DEF IInv, OnePlace
  <2>2. /\ \A t \in Task : Own(t) = IF t \in Live THEN OwnPages(t) ELSE {}
        /\ \A f \in phys_mem :
             \/ f \in 0 .. NUM_PAG_KERNEL - 1 \cup CodeFrames
             \/ \E t \in Task : \E p \in Own(t) : PT[t][p] = f
    BY <1>1 DEF MemInv, Exactly
  <2>3. ASSUME NEW t \in Live PROVE held(t) = {PT[t][p] : p \in Own(t)}
    <3>1. HeapPages(brk[t]) = heap(brk[t]) /\ heap(brk[t]) \in Nat
      BY <1>1, <2>1, LiveHeap
    <3>2. PICK h \in Nat : h = heap(brk[t])
      BY <3>1
    <3>3. PageData .. PageData + (NUM_PAG_DATA + h) - 1 = PageData .. PageHeap + h - 1
      BY Sizes
    <3> QED
      BY <2>1, <2>2, <3>1, <3>2, <3>3 DEF frames_of, OwnPages
  <2> HIDE DEF held
  <2>4. ASSUME NEW f \in phys_mem
        PROVE  f \in 0 .. NUM_PAG_KERNEL - 1 \cup CodeFrames \cup UNION {held(t) : t \in Live}
    <3>1. CASE \E t \in Task : \E p \in Own(t) : PT[t][p] = f
      <4>1. PICK t \in Task : \E p \in Own(t) : PT[t][p] = f
        BY <3>1
      <4>2. t \in Live
        BY <2>2, <4>1
      <4>3. f \in held(t)
        BY <2>3, <4>1, <4>2
      <4> QED
        BY <4>2, <4>3
    <3> QED
      BY <2>2, <3>1
  <2>5. ASSUME NEW t \in Live, NEW f \in held(t) PROVE f \in phys_mem
    BY <1>1, <2>1, <2>3, <2>5 DEF MemInv, FromAlloc
  <2>6. phys_mem = 0 .. NUM_PAG_KERNEL - 1 \cup CodeFrames \cup UNION {held(t) : t \in Live}
    BY <1>1, <2>4, <2>5 DEF MemInv, CodeUsed
  <2> QED
    BY <2>6 DEF held, CodeFrames, CodeFrame
<1>2. IInv /\ MemInv => NoLeak
  BY <1>1 DEF NoLeak
<1> QED
  BY <1>2, MemInvariance, PTL

(* The pages in use are not those that an operation writes.                *)
LEMMA PagesKept ==
  ASSUME IInv, IInv', MemInv, MemInv', [MemNext]_memVars,
         NEW t \in Live, t \in Live', NEW p \in Page,
         p <= PageHeap + HeapPages(brk[t]) - 1, p <= PageHeap + HeapPages(brk'[t]) - 1
  PROVE  PT'[t][p] = PT[t][p]
<1>1. /\ PT \in [Task -> [Page -> Frame]] /\ brk \in [Task -> 0 .. WORD - 1]
      /\ t \in Task /\ HeapPages(brk[t]) \in Nat /\ Live \subseteq Task
      /\ ~Wild(t) => HeapPages(brk[t]) = heap(brk[t])
  <2>1. Live \subseteq Task
    BY DEF IInv, OnePlace
  <2> QED
    BY <2>1, LiveHeap DEF MemInv, MemTypeOK, Frame
<1>2. PICK ho \in Nat, ph \in Nat, q \in Nat :
        ho = HeapPages(brk[t]) /\ ph = PageHeap /\ q = p /\ q <= ph + ho - 1
  <2>1. p \in Nat
    BY Sizes, Pages
  <2> QED
    BY <1>1, <2>1, Sizes
<1>3. CASE UNCHANGED PT
  BY <1>3
<1>4. CASE mem_fork
  <2>1. PICK k, n : /\ n = NUM_PAG_DATA + heap(brk[current])
                    /\ \/ UNCHANGED PT
                       \/ /\ fork_child /\ ~Wild(current) /\ Running
                          /\ k = Head(freequeue) /\ Len(free_frames) >= n
                          /\ fork_memory(k, n)
    BY <1>4 DEF mem_fork, memOnly
  <2>2. CASE /\ fork_child /\ ~Wild(current) /\ Running
             /\ k = Head(freequeue) /\ Len(free_frames) >= n
             /\ fork_memory(k, n)
    <3>1. k \in Task \ Live
      BY <2>2, LiveSteps
    <3>2. t # k
      BY <3>1
    <3>3. CASE t # current
      BY <1>1, <2>2, <3>2, <3>3 DEF fork_memory
    <3>4. CASE t = current
      <4>1. PT'[t] = del_ss_pag(PT[t], PageData + n, n)
        BY <1>1, <2>2, <3>4 DEF fork_memory
      <4>2. PICK w \in Nat, m \in Nat, pt \in [Page -> Frame] :
              w = PageData + n /\ m = n /\ pt = PT[t] /\ w = ph + ho
              /\ w + m - 1 <= LastPage
        <5>1. PICK l \in Nat, last \in Nat :
                l = Len(free_frames) /\ last = LastPage /\ ph + ho + l <= last
          BY <1>1, <1>2, <2>2, <3>4, Room, Sizes
        <5>2. PICK m \in Nat : m = n /\ PageData + m = ph + ho /\ m <= l
          BY <1>1, <1>2, <2>1, <2>2, <3>4, <5>1, Sizes
        <5>3. ph + ho + m - 1 <= last
          BY <5>1, <5>2
        <5> QED
          BY <1>1, <1>2, <5>1, <5>2, <5>3, SMTT(30)
      <4>3. del_ss_pag(pt, w, m)[p] = IF p \in w .. w + m - 1 THEN 0 ELSE pt[p]
        BY <4>2, DelPages
      <4>4. p \notin w .. w + m - 1
        BY <1>2, <4>2
      <4> QED
        BY <4>1, <4>2, <4>3, <4>4
    <3> QED
      BY <3>3, <3>4
  <2> QED
    BY <2>1, <2>2
<1>5. CASE mem_exit
  <2>1. Live' = Live \ {current} /\ t # current
    BY <1>5, LiveSteps DEF mem_exit
  <2> QED
    BY <1>1, <1>5, <2>1 DEF mem_exit
<1>6. ASSUME NEW n \in INCREMENTS, sbrk_grow(n) PROVE PT'[t][p] = PT[t][p]
  <2> DEFINE old   == brk[current]
             new   == (old + n) % WORD
             pags  == PAG_HEAP(new) - PAG_HEAP(old) + (IF aligned(old) THEN 1 ELSE 0)
             first == PageHeap + PAG_HEAP(old) + (IF aligned(old) THEN 0 ELSE 1)
             fs    == alloc_frames(pags)
  <2>1. CASE t = current /\ Len(free_frames) >= pags
             /\ PT' = [PT EXCEPT ![current] = set_ss_pag(@, first, fs)]
    <3>1. /\ pags \in 0 .. Len(free_frames) /\ first = PageHeap + heap(old)
          /\ Running /\ ~Wild(current) /\ first + pags <= LastPage
      BY <1>6, <2>1, GrowFacts DEF sbrk_grow
    <3>2. Unused(fs, pags)
      BY <3>1, FreeFrames
    <3> HIDE DEF old, new, pags, first, fs
    <3>3. PICK w \in Nat, m \in Nat, pt \in [Page -> Frame] :
            w = first /\ m = pags /\ pt = PT[t] /\ w = ph + ho
            /\ w + m - 1 <= LastPage
      BY <1>1, <1>2, <2>1, <3>1, Sizes, SMTT(30) DEF old
    <3>4. Unused(fs, m)
      BY <3>2, <3>3
    <3>5. set_ss_pag(pt, w, fs)[p] = IF p \in w .. w + m - 1 THEN fs[p - w + 1] ELSE pt[p]
      <4>1. \A r \in Page : set_ss_pag(pt, w, fs)[r]
                               = IF r \in w .. w + m - 1 THEN fs[r - w + 1] ELSE pt[r]
        BY <3>3, <3>4, SetPages
      <4> QED
        BY <4>1
    <3>6. p \notin w .. w + m - 1
      BY <1>2, <3>3
    <3> QED
      BY <1>1, <2>1, <3>3, <3>5, <3>6
  <2> QED
    BY <1>1, <1>3, <1>6, <2>1 DEF sbrk_grow, memOnly
<1>7. ASSUME NEW n \in INCREMENTS, sbrk_shrink(n) PROVE PT'[t][p] = PT[t][p]
  <2> DEFINE old   == brk[current]
             new   == (old + n) % WORD
             dest  == IF new < L_HEAP_START THEN L_HEAP_START ELSE new
             pags  == PAG_HEAP(old) - PAG_HEAP(dest) + (IF aligned(dest) THEN 1 ELSE 0)
             first == PageHeap + PAG_HEAP(dest) + (IF aligned(dest) THEN 0 ELSE 1)
  <2>1. /\ Running /\ ~Wild(current) /\ n < 0 /\ old # L_HEAP_START
        /\ free_frame(frames_of(PT[current], first, pags))
        /\ PT' = [PT EXCEPT ![current] = del_ss_pag(PT[current], first, pags)]
        /\ brk' = [brk EXCEPT ![current] = dest]
    BY <1>7 DEF sbrk_shrink
  <2>2. old \in Nat /\ n \in Int /\ current \in Task /\ 2 * old < WORD
    <3>1. current \in Live /\ current \in Task
      BY <2>1 DEF Live, IInv, TypeOK, Running
    <3> QED
      BY <1>1, <2>1, <3>1, LiveHeap, Increments
  <2>3. CASE old + n < 0
    <3>1. pags \in Int /\ pags <= 0 /\ first \in Int
      BY <2>1, <2>3, WrapFacts
    <3> HIDE DEF old, new, dest, pags, first
    <3>2. UNCHANGED PT
      BY <1>1, <2>2, <2>1, <3>1, NoPages
    <3> QED
      BY <3>2
  <2>4. CASE t = current /\ old + n >= 0
    <3>0. /\ pags \in Nat /\ first = PageHeap + heap(dest) /\ heap(dest) \in Nat
          /\ first + pags - 1 <= LastPage /\ dest \in Nat /\ dest <= old
      BY <2>1, <2>4, ShrinkFacts
    <3> HIDE DEF old, new, dest, pags, first
    <3>1. PICK w \in Nat, m \in Nat, pt \in [Page -> Frame], h \in Nat :
            w = first /\ m = pags /\ pt = PT[t] /\ h = heap(dest) /\ w = ph + h
            /\ w + m - 1 <= LastPage
      BY <1>1, <1>2, <3>0
    <3>2. brk'[t] = dest /\ HeapPages(dest) = heap(dest)
      <4>1. 2 * dest < WORD
        BY <2>2, <3>0, Sizes
      <4> QED
        BY <1>1, <2>1, <2>4, <4>1 DEF HeapPages
    <3>3. q <= ph + h - 1
      BY <1>2, <3>1, <3>2
    <3>4. del_ss_pag(pt, w, m)[p] = IF p \in w .. w + m - 1 THEN 0 ELSE pt[p]
      BY <3>1, DelPages
    <3>5. p \notin w .. w + m - 1
      BY <1>2, <3>1, <3>3
    <3> QED
      BY <1>1, <2>1, <2>4, <3>1, <3>4, <3>5
  <2>5. CASE t # current
    BY <1>1, <2>1, <2>5
  <2> QED
    BY <2>2, <2>3, <2>4, <2>5
<1> QED
  BY <1>3, <1>4, <1>5, <1>6, <1>7 DEF MemNext, sys_sbrk, memVars, memOnly

(* No operation, of the process or of another one, takes a page in use     *)
(* from a live process or puts another frame there.                        *)
THEOREM PagesStay == MemSpec => DataKept
<1>1. ASSUME IInv, IInv', MemInv, MemInv', [MemNext]_memVars,
             NEW t \in Live \cap Live',
             NEW p \in PagesBelow(brk[t]) \cap PagesBelow(brk'[t])
      PROVE  PT'[t][p] = PT[t][p]
  <2>1. Live \subseteq Task
    BY <1>1 DEF IInv, OnePlace
  <2>2. p \in Page /\ p <= PageHeap + HeapPages(brk[t]) - 1
    BY <1>1, <2>1, LivePages
  <2>3. p <= PageHeap + HeapPages(brk'[t]) - 1
    <3>1. PICK b \in Nat : /\ b = brk'[t] /\ b < WORD
                           /\ 2 * b < WORD => L_HEAP_START <= b
      <4>1. Live' \subseteq Task
        BY <1>1 DEF IInv, OnePlace
      <4> QED
        BY <1>1, <4>1, Sizes DEF MemInv, Heaps, MemTypeOK
    <3>2. p \in 0 .. PageHeap + HeapPages(b) - 1
      BY <1>1, <3>1, BelowBrk
    <3>3. HeapPages(b) \in Nat
      BY <3>1, BelowBrk
    <3> QED
      BY <3>1, <3>2, <3>3, Sizes
  <2> QED
    BY <1>1, <2>2, <2>3, PagesKept
<1>2. IInv /\ IInv' /\ MemInv /\ MemInv' /\ [MemNext]_memVars =>
        [\A t \in Live \cap Live' :
           \A p \in PagesBelow(brk[t]) \cap PagesBelow(brk'[t]) :
             PT'[t][p] = PT[t][p]]_memVars
  BY <1>1
<1> QED
  BY <1>2, MemInvariance, PTL DEF MemSpec, DataKept

-----------------------------------------------------------------------------
(* The translations that the processor keeps.                              *)

UserPage == Page \ Code

(* A kept frame is in no page table but the running process's.             *)
Apart ==
  \A p \in UserPage : tlb[p] # 0 =>
    /\ Running
    /\ \A t \in Task \ {current} : \A q \in Own(t) : tlb[p] # PT[t][q]

TransInv ==
  /\ tlb \in [UserPage -> Frame] /\ released \in BOOLEAN
  /\ Apart /\ Coherent

-----------------------------------------------------------------------------
(* Nothing is kept at the start.                                            *)
LEMMA TransInitInv == ASSUME TransInit PROVE TransInv
<1>1. \A p \in UserPage : tlb[p] = 0
  BY DEF TransInit, UserPage
<1>2. tlb \in [UserPage -> Frame] /\ released \in BOOLEAN
  <2>1. 0 \in Frame
    BY Sizes DEF Frame
  <2> QED
    BY <2>1 DEF TransInit, UserPage
<1> QED
  BY <1>1, <1>2 DEF TransInv, Apart, Coherent, UserPage

(* After a flush nothing is kept.                                          *)
LEMMA FlushInv == ASSUME set_cr3_flush PROVE TransInv'
<1>1. \A p \in UserPage : tlb'[p] = 0
  BY DEF set_cr3_flush, UserPage
<1>2. tlb' \in [UserPage -> Frame] /\ released' \in BOOLEAN
  <2>1. 0 \in Frame
    BY Sizes DEF Frame
  <2> QED
    BY <2>1 DEF set_cr3_flush, UserPage
<1> QED
  BY <1>1, <1>2 DEF TransInv, Apart, Coherent, UserPage

(* A step that neither switches nor changes page tables.                   *)
LEMMA SameTLB ==
  ASSUME TransInv, UNCHANGED <<current, PT, exact, tlb, released>>
  PROVE  TransInv'
<1>1. \A t : Own(t)' = Own(t)
  BY DEF Own
<1> QED
  BY <1>1 DEF TransInv, Apart, Coherent, Running

(* The TLB may forget an entry, or keep one of the running process's.      *)
LEMMA EntryInv ==
  ASSUME TransInv, UNCHANGED <<current, PT, exact, released>>, NEW p \in UserPage,
         NEW f \in Frame, tlb' = [tlb EXCEPT ![p] = f],
         f # 0 => /\ Running /\ f = PT[current][p]
                  /\ \A t \in Task \ {current} : \A q \in Own(t) : f # PT[t][q]
  PROVE  TransInv'
<1>1. /\ tlb' \in [UserPage -> Frame] /\ tlb'[p] = f
      /\ \A q \in UserPage : q # p => tlb'[q] = tlb[q]
  BY DEF TransInv
<1>2. \A t : Own(t)' = Own(t)
  BY DEF Own
<1>3. released' \in BOOLEAN
  BY DEF TransInv
<1>4. Apart'
  <2> SUFFICES ASSUME NEW r \in UserPage, tlb'[r] # 0
               PROVE  Running /\ \A t \in Task \ {current} : \A q \in Own(t) : tlb'[r] # PT[t][q]
    BY <1>2 DEF Apart, Running
  <2>1. CASE r = p
    BY <1>1, <2>1
  <2>2. CASE r # p
    BY <1>1, <2>2 DEF TransInv, Apart
  <2> QED
    BY <2>1, <2>2
<1>5. Coherent'
  <2> SUFFICES ASSUME ~released, exact, NEW r \in UserPage, tlb'[r] # 0
               PROVE  tlb'[r] = PT[current][r]
    BY DEF Coherent, UserPage
  <2>1. CASE r = p
    BY <1>1, <2>1
  <2>2. CASE r # p
    BY <1>1, <2>2 DEF TransInv, Coherent, UserPage
  <2> QED
    BY <2>1, <2>2
<1> QED
  BY <1>1, <1>3, <1>4, <1>5 DEF TransInv

(* sbrk changes the page table of the running process only.                *)
LEMMA OthersSame ==
  ASSUME IInv, MemInv, NEW n \in INCREMENTS, sbrk_grow(n) \/ sbrk_shrink(n)
  PROVE  /\ UNCHANGED current /\ current \in Live /\ current \in Live' /\ current \in Task
         /\ \A t \in Task : t # current => PT'[t] = PT[t] /\ Own(t)' = Own(t)
<1>1. /\ UNCHANGED <<current, readyqueue, priorityqueue>> /\ current \in Task
      /\ current \in Live /\ current \in Live'
  BY DEF sbrk_grow, sbrk_shrink, schedVars, Live, Running, IInv, TypeOK
<1>2. \A t \in Task : t # current => PT'[t] = PT[t]
  <2>1. PT \in [Task -> [Page -> Frame]]
    BY DEF MemInv, MemTypeOK, Frame
  <2>2. UNCHANGED PT \/ \E row : PT' = [PT EXCEPT ![current] = row]
    BY DEF sbrk_grow, sbrk_shrink, memOnly
  <2> QED
    BY <1>1, <2>1, <2>2
<1> QED
  BY <1>1, <1>2 DEF Own

(* What is kept belongs to no other PCB after sbrk: it has not moved, and  *)
(* the page tables of the others have not changed.                         *)
LEMMA SbrkApart ==
  ASSUME IInv, MemInv, TransInv, NEW n \in INCREMENTS, sbrk_grow(n) \/ sbrk_shrink(n),
         UNCHANGED tlb
  PROVE  Apart'
<1>1. /\ UNCHANGED current
      /\ \A t \in Task : t # current => PT'[t] = PT[t] /\ Own(t)' = Own(t)
  BY OthersSame
<1> SUFFICES ASSUME NEW p \in UserPage, tlb[p] # 0
             PROVE  Running /\ \A t \in Task \ {current} : \A q \in Own(t)' : tlb[p] # PT'[t][q]
  BY <1>1 DEF Apart, Running
<1>2. Running /\ \A t \in Task \ {current} : \A q \in Own(t) : tlb[p] # PT[t][q]
  BY DEF TransInv, Apart
<1> QED
  BY <1>1, <1>2

(* A growth maps pages that were empty, so nothing is kept of them, as     *)
(* long as no heap has grown to the end of a page.                         *)
LEMMA GrowCoherent ==
  ASSUME IInv, IInv', MemInv, MemInv', TransInv,
         NEW n \in INCREMENTS, sbrk_grow(n), UNCHANGED <<tlb, released>>
  PROVE  Coherent'
<1>1. /\ UNCHANGED current /\ current \in Live /\ current \in Live' /\ current \in Task
      /\ Running /\ ~Wild(current) /\ n > 0
  BY OthersSame DEF sbrk_grow
<1> SUFFICES ASSUME ~released, exact', NEW p \in UserPage, tlb[p] # 0
             PROVE  tlb[p] = PT'[current][p]
  BY <1>1 DEF Coherent, UserPage
<1>2. exact
  BY DEF sbrk_grow, memOnly
<1>3. tlb[p] = PT[current][p] /\ p \in Own(current) /\ p \in Page
  BY <1>2 DEF TransInv, Coherent, Own, UserPage
<1>4. p \in OwnPages(current)
  BY <1>1, <1>2, <1>3 DEF MemInv, Exactly
<1>5. /\ HeapPages(brk[current]) <= HeapPages(brk'[current])
      /\ HeapPages(brk'[current]) \in Nat /\ HeapPages(brk[current]) \in Nat
  <2>0. brk \in [Task -> 0 .. WORD - 1] /\ Live \subseteq Task
    BY DEF MemInv, MemTypeOK, IInv, OnePlace
  <2>1. HeapPages(brk[current]) \in Nat /\ HeapPages(brk[current]) = heap(brk[current])
    BY <1>1, <2>0, LiveHeap
  <2> DEFINE old   == brk[current]
             new   == (old + n) % WORD
             pags  == PAG_HEAP(new) - PAG_HEAP(old) + (IF aligned(old) THEN 1 ELSE 0)
  <2>2. CASE UNCHANGED memOnly
    BY <2>1, <2>2 DEF memOnly
  <2>3. CASE Len(free_frames) >= pags /\ brk' = [brk EXCEPT ![current] = new]
    <3>1. heap(old) <= heap(new) /\ heap(new) \in Nat /\ 2 * new < WORD
      BY <1>1, <2>3, GrowFacts
    <3> HIDE DEF old, new
    <3>2. brk'[current] = new /\ HeapPages(new) = heap(new)
      BY <1>1, <2>0, <2>3, <3>1 DEF HeapPages
    <3> QED
      BY <2>1, <3>1, <3>2 DEF old
  <2> QED
    BY <2>2, <2>3 DEF sbrk_grow
<1>6. /\ p <= PageHeap + HeapPages(brk[current]) - 1
      /\ p <= PageHeap + HeapPages(brk'[current]) - 1
  <2>1. PICK q \in Nat, ph \in Nat, h \in Nat, g \in Nat :
          /\ q = p /\ ph = PageHeap /\ h = HeapPages(brk[current])
          /\ g = HeapPages(brk'[current]) /\ h <= g
    <3>1. p \in Nat /\ PageHeap \in Nat
      BY <1>3, Sizes, Pages
    <3> QED
      BY <1>5, <3>1
  <2>2. q <= ph + h - 1
    BY <1>4, <2>1 DEF OwnPages
  <2> QED
    BY <2>1, <2>2
<1>7. [MemNext]_memVars
  BY DEF MemNext, sys_sbrk
<1>8. PT'[current][p] = PT[current][p]
  <2>1. PICK c \in Live : c = current
    BY <1>1
  <2>2. PT'[c][p] = PT[c][p]
    BY <1>1, <1>3, <1>6, <1>7, <2>1, PagesKept
  <2> QED
    BY <2>1, <2>2
<1> QED
  BY <1>3, <1>8

(* TransNext is a step of Memory.                                          *)
LEMMA TransStepOfMem == [TransNext]_tlbVars => [MemNext]_memVars
BY DEF TransNext, MemNext, sys_sbrk, use, evict, tlbVars

(* Everything proved of the memory holds with what the processor keeps.    *)
THEOREM TransKeepsMem == TransSpec => MemSpec
<1>1. TransInit => MemInit
  BY DEF TransInit
<1> QED
  BY <1>1, TransStepOfMem, PTL DEF TransSpec, MemSpec

(* Every step with translations, by its lemma.                              *)
LEMMA TransStep ==
  ASSUME IInv, IInv', MemInv, MemInv', TransInv, [TransNext]_tlbVars
  PROVE  TransInv'
<1>1. ASSUME UNCHANGED <<PT, exact>>, task_switch PROVE TransInv'
  BY <1>1, FlushInv, SameTLB DEF task_switch, tlbOnly
<1>2. CASE schedule /\ UNCHANGED memOnly /\ task_switch
  BY <1>1, <1>2 DEF memOnly
<1>3. CASE mem_fork /\ fork_flush
  <2>1. CASE set_cr3_flush
    BY <2>1, FlushInv
  <2>2. CASE nextPID' = nextPID /\ UNCHANGED tlbOnly
    <3>1. ~ fork_child
      BY <2>2 DEF fork_child, IInv, TypeOK
    <3>2. UNCHANGED <<current, PT, exact>>
      BY <1>3, <3>1 DEF mem_fork, fork_EAGAIN, fork_ENOMEM, memOnly, schedVars
    <3> QED
      BY <2>2, <3>2, SameTLB DEF tlbOnly
  <2> QED
    BY <1>3, <2>1, <2>2 DEF fork_flush
<1>4. CASE mem_exit /\ task_switch
  <2>1. current \in Live /\ current \notin Live' /\ Running
    <3>1. Running /\ sys_exit
      BY <1>4 DEF mem_exit, sys_exit
    <3> QED
      BY <3>1, LiveSteps DEF Running, Live
  <2>2. current' # current
    BY <2>1 DEF Live, Running
  <2> QED
    BY <1>4, <2>2, FlushInv DEF task_switch
<1>5. ASSUME NEW n \in INCREMENTS, sbrk_grow(n), UNCHANGED tlbOnly PROVE TransInv'
  <2>1. UNCHANGED <<tlb, released>>
    BY <1>5 DEF tlbOnly
  <2> QED
    BY <1>5, <2>1, SbrkApart, GrowCoherent DEF TransInv
<1>6. ASSUME NEW n \in INCREMENTS, sbrk_shrink(n), released' = TRUE, UNCHANGED tlb
      PROVE  TransInv'
  <2>1. Apart'
    BY <1>6, SbrkApart
  <2> QED
    BY <1>6, <2>1 DEF TransInv, Coherent
<1>7. ASSUME NEW p \in Page \ Code, use(p) PROVE TransInv'
  <2>1. /\ Running /\ UNCHANGED <<current, PT, exact, released>> /\ current \in Task
        /\ p \in Own(current) /\ PT[current][p] \in Frame
        /\ tlb' = [tlb EXCEPT ![p] = PT[current][p]]
    BY <1>7 DEF use, memVars, memOnly, schedVars, Running, IInv, TypeOK, Own,
                MemInv, MemTypeOK, Frame
  <2>2. \A t \in Task \ {current} : \A q \in Own(t) : PT[current][p] # PT[t][q]
    BY <2>1 DEF MemInv, Distinct
  <2>3. PICK f \in Frame : f = PT[current][p]
    BY <2>1
  <2> QED
    BY <2>1, <2>2, <2>3, EntryInv DEF UserPage
<1>8. ASSUME NEW p \in Page \ Code, evict(p) PROVE TransInv'
  <2>1. /\ UNCHANGED <<current, PT, exact, released>> /\ tlb' = [tlb EXCEPT ![p] = 0]
        /\ 0 \in Frame
    BY <1>8, Sizes DEF evict, memVars, memOnly, schedVars, Frame
  <2> QED
    BY <2>1, EntryInv DEF UserPage
<1>9. CASE UNCHANGED tlbVars
  BY <1>9, SameTLB DEF tlbVars, memVars, memOnly, schedVars, tlbOnly
<1> QED
  BY <1>2, <1>3, <1>4, <1>5, <1>6, <1>7, <1>8, <1>9 DEF TransNext

(* Every reachable state satisfies the three inductive invariants.         *)
THEOREM TransInvariance == TransSpec => [](IInv /\ MemInv /\ TransInv)
<1>1. TransInit => TransInv
  BY TransInitInv
<1>2. /\ IInv /\ MemInv /\ (IInv /\ MemInv)' /\ TransInv /\ [TransNext]_tlbVars
      => TransInv'
  BY TransStep
<1> QED
  BY <1>1, <1>2, TransKeepsMem, MemInvariance, PTL DEF TransSpec

(* What the processor keeps is what the page table says, as long as the    *)
(* process has removed no page since the last flush, no heap has grown to  *)
(* the end of a page and no release has wrapped: what a fork lends to the  *)
(* parent leaves nothing.                                                  *)
THEOREM KeptIsTable == TransSpec => []Coherent
BY TransInvariance, PTL DEF TransInv

(* No process ever reaches a frame of another live process, even with what *)
(* is kept of pages it has removed: sys_sbrk can do without a flush.       *)
THEOREM NeverAnothers == TransSpec => []ReachesOwn
<1>1. ASSUME IInv, MemInv, TransInv PROVE ReachesOwn
  <2> SUFFICES ASSUME Running, NEW p \in UserPage, NEW t \in Live \ {current}, NEW q \in Own(t)
               PROVE  reached(p) # PT[t][q]
    BY DEF ReachesOwn, UserPage
  <2>1. t \in Task /\ current \in Task /\ t # current /\ PT[t][q] # 0
    BY <1>1 DEF IInv, OnePlace, TypeOK, Running, Own
  <2>2. CASE tlb[p] # 0
    BY <1>1, <2>1, <2>2 DEF TransInv, Apart, reached
  <2>3. CASE tlb[p] = 0 /\ PT[current][p] # 0
    <3>1. p \in Own(current)
      BY <2>3 DEF Own, UserPage
    <3> QED
      BY <1>1, <2>1, <2>3, <3>1 DEF reached, MemInv, Distinct
  <2>4. CASE tlb[p] = 0 /\ PT[current][p] = 0
    BY <2>1, <2>4 DEF reached
  <2> QED
    BY <2>2, <2>3, <2>4
<1> QED
  BY <1>1, TransInvariance, PTL
=============================================================================
