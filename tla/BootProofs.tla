----------------------------- MODULE BootProofs -----------------------------
(***************************************************************************)
(* From the files to the first process, proved for every size of the two   *)
(* files, of pages and of memory, and every number of tasks.               *)
(*                                                                         *)
(* The steps come in one order, so the invariant says what each of them    *)
(* has left for the ones after it: what the image holds while build writes *)
(* it (ImageInv), what the kernel's structures are (TablesInv), and where  *)
(* the words of the two files are (MemoryInv).                             *)
(***************************************************************************)
EXTENDS Boot, MemoryProofs

Building == {"boot", "copy", "im_size", "sys_size", "usr_size", "rdtr", "died"}
Early    == Building \cup {"load", "setIdt", "setTSS", "init_mm"}
Before   == Early \cup {"init_sched", "init_idle", "init_task1"}
Made     == {"copy_data", "fault", "enable_int", "return_gate", "user"}

(* The image with its first n headers.                                     *)
Header == <<<<"size", sys_size>>, <<"size", usr_size>>, <<"rdtr", 0>>>>
Patched(n) == [k \in 1 .. Len(Files) |-> IF k <= n THEN Header[k] ELSE Files[k]]

patches == IF pc \in {"im_size", "sys_size"} THEN 0
           ELSE IF pc = "usr_size" THEN 1 ELSE IF pc = "rdtr" THEN 2 ELSE 3

ImageInv ==
  /\ sizes \in SYSTEMS \X USERS
  /\ pc \notin {"boot", "copy", "died"} => image = Patched(patches)
  /\ pc \notin {"boot", "copy", "im_size", "died"} => im_size = Len(Files)
  /\ pc = "boot" => image = <<>>
  /\ pc = "copy" => Len(image) \in Nat

Zero == [t \in Task |-> 0]
Descending(n) == [i \in 1 .. n |-> n - i]

TablesInv ==
  /\ pc \in Before \cup Made
  /\ readyqueue = <<>> /\ priorityqueue = <<>> /\ nextPID = 2 /\ exact = TRUE
  /\ current = IF pc = "user" THEN Task1 ELSE NoTask
  /\ pc \in Before => /\ PID = Zero /\ nice = Zero /\ brk = Zero
                      /\ PT = [t \in Task |-> [p \in Page |-> 0]]
  /\ pc \in {"init_sched", "init_idle", "init_task1"} =>
       phys_mem = 0 .. NUM_PAG_KERNEL - 1
  /\ pc \in {"init_idle", "init_task1"} =>
       /\ quantum_ticks = -1
       /\ freequeue = Descending(IF pc = "init_idle" THEN NR_TASKS ELSE NR_TASKS - 1)
  /\ pc \in Made =>
       /\ freequeue = Descending(NR_TASKS - 2) /\ quantum_ticks \in {-1, 0}
       /\ PID = [t \in Task |-> IF t = Task1 THEN 1 ELSE 0]
       /\ nice = [t \in Task |-> IF t = Task1 THEN Low ELSE High]
       /\ phys_mem = (0 .. NUM_PAG_KERNEL - 1) \cup {CodeFrame(p) : p \in 0 .. PageHeap - 1}
       /\ PT = [t \in Task |-> [p \in Page |->
                  IF t = Task1 /\ p < PageHeap THEN CodeFrame(p) ELSE 0]]
       /\ brk = [t \in Task |-> IF t = Task1 THEN L_HEAP_START ELSE 0]
       /\ cr3 = Task1 /\ esp0 = Task1 /\ msr = Task1
  /\ pc \in {"return_gate", "user"} => idt.enabled = TRUE
  /\ pc \notin {"return_gate", "user"} => idt.enabled = FALSE
  /\ pc \notin Building \cup {"load", "setIdt"} =>
       idt.handlers = {"clock", "keyboard", "0x80"}
  /\ DOMAIN idt = {"handlers", "enabled"}

(* The image in memory, where the boot sector puts it.                     *)
Addresses == 0 .. TOTAL_PAGES * PAGE_SIZE - 1
loaded(a) == IF a - KERNEL_START + 1 \in 1 .. Len(image)
             THEN image[a - KERNEL_START + 1] ELSE <<"zero", 0>>

(* The words of the program's address space.                               *)
Words == PageHeap * PAGE_SIZE

MemoryInv ==
  /\ pc \in Building \cup {"load"} => memory = [a \in Addresses |-> <<"zero", 0>>]
  /\ pc \in (Before \ (Building \cup {"load"})) \cup {"copy_data"} =>
       memory = [a \in Addresses |-> loaded(a)]
  /\ DOMAIN memory = Addresses
  /\ SystemKept
  /\ pc \in {"enable_int", "return_gate"} =>
       \A k \in 1 .. usr_size : k <= Words /\ memory[physical(L_USER_START + k - 1)] = <<"user", k>>
  /\ UserLoaded

BootInv == ImageInv /\ TablesInv /\ MemoryInv

-----------------------------------------------------------------------------
(* The two files, one after the other, and where they end in memory.       *)
LEMMA FileFacts ==
  ASSUME sizes \in SYSTEMS \X USERS
  PROVE  /\ sys_size \in Nat /\ sys_size >= 3 /\ usr_size \in Nat
         /\ Len(Files) = sys_size + usr_size
         /\ Files = [k \in 1 .. Len(Files) |-> Files[k]]
         /\ \A k \in 1 .. usr_size : Files[sys_size + k] = <<"user", k>>
         /\ KERNEL_START \in Nat /\ KERNEL_START + sys_size + usr_size <= L_USER_START
<1>1. sys_size \in SYSTEMS /\ usr_size \in USERS
  BY DEF sys_size, usr_size
<1>2. sys_size \in Nat /\ sys_size >= 3 /\ usr_size \in Nat
  BY <1>1, BootAssumption
<1>3. PICK s \in Nat, u \in Nat : s = sys_size /\ u = usr_size
  BY <1>2
<1>4. /\ File("system", s) \in Seq({"system"} \X Nat) /\ Len(File("system", s)) = s
      /\ File("user", u) \in Seq({"user"} \X Nat) /\ Len(File("user", u)) = u
      /\ \A k \in 1 .. u : File("user", u)[k] = <<"user", k>>
  BY DEF File
<1>5. PICK f \in Seq({"system", "user"} \X Nat), g \in Seq({"system", "user"} \X Nat) :
        f = File("system", s) /\ g = File("user", u)
  BY <1>4
<1>6. Files = f \o g
  BY <1>3, <1>5 DEF Files
<1>7. /\ Len(Files) = s + u /\ Files = [k \in 1 .. Len(Files) |-> Files[k]]
      /\ \A k \in 1 .. u : Files[s + k] = <<"user", k>>
  <2>1. Len(f) = s /\ Len(g) = u /\ \A k \in 1 .. u : g[k] = <<"user", k>>
    BY <1>4, <1>5
  <2>2. /\ f \o g \in Seq({"system", "user"} \X Nat) /\ Len(f \o g) = s + u
        /\ \A k \in 1 .. u : (f \o g)[s + k] = g[k]
    BY <1>3, <2>1
  <2>3. f \o g = [k \in 1 .. Len(f \o g) |-> (f \o g)[k]]
    <3>1. PICK h \in Seq({"system", "user"} \X Nat) : h = f \o g
      BY <2>2
    <3>2. h = [k \in 1 .. Len(h) |-> h[k]]
      BY SMT
    <3> QED
      BY <3>1, <3>2
  <2> QED
    BY <1>6, <2>1, <2>2, <2>3
<1> QED
  BY <1>1, <1>2, <1>3, <1>7, BootAssumption

(* An image without headers is the files, and one header after the other   *)
(* makes the image that is loaded.                                         *)
LEMMA PatchedFacts ==
  ASSUME sizes \in SYSTEMS \X USERS
  PROVE  /\ Patched(0) = Files
         /\ \A n \in 0 .. 2 :
              Patched(n + 1) = [Patched(n) EXCEPT ![n + 1] = Header[n + 1]]
<1>1. Patched(0) = Files
  BY FileFacts DEF Patched
<1>2. ASSUME NEW n \in 0 .. 2
      PROVE  Patched(n + 1) = [Patched(n) EXCEPT ![n + 1] = Header[n + 1]]
  <2>1. PICK len \in Nat : len = Len(Files) /\ len >= 3
    BY FileFacts
  <2> DEFINE h == Header  f == Files
  <2> HIDE DEF h, f
  <2>2. /\ Patched(n) = [k \in 1 .. len |-> IF k <= n THEN h[k] ELSE f[k]]
        /\ Patched(n + 1) = [k \in 1 .. len |-> IF k <= n + 1 THEN h[k] ELSE f[k]]
    BY <2>1 DEF Patched, h, f
  <2>3. \A k \in 1 .. len : k <= n + 1 <=> k <= n \/ k = n + 1
    BY <2>1
  <2>4. n + 1 \in 1 .. len
    BY <2>1
  <2>5. Patched(n + 1) = [Patched(n) EXCEPT ![n + 1] = h[n + 1]]
    BY <2>2, <2>3, <2>4
  <2> QED
    BY <2>5 DEF h
<1> QED
  BY <1>1, <1>2

-----------------------------------------------------------------------------
(* The image.                                                              *)

(* Before the tool has run there is no image.                              *)
LEMMA ImageInit == BootInit => ImageInv
BY DEF BootInit, ImageInv

(* A piece is copied up to the end of a file at most.                      *)
LEMMA CopyImage == ASSUME BootInv, copy_file PROVE ImageInv'
<1> DEFINE end == IF Len(image) < sys_size THEN sys_size ELSE Len(Files)
           n   == Min({end, Len(image) + CHUNK})
<1>1. /\ pc = "copy" /\ sizes' = sizes /\ image' = SubSeq(Files, 1, n)
      /\ pc' = IF n = Len(Files) THEN "im_size" ELSE "copy"
  BY DEF copy_file
<1>2. sizes \in SYSTEMS \X USERS /\ Len(image) \in Nat
  BY <1>1 DEF BootInv, ImageInv
<1>3. end \in Nat /\ Len(image) + CHUNK \in Nat /\ end <= Len(Files)
  <2>1. sys_size \in Nat /\ usr_size \in Nat /\ Len(Files) = sys_size + usr_size
    BY <1>2, FileFacts
  <2>2. sys_size \in Nat /\ Len(Files) \in Nat /\ sys_size <= Len(Files)
    BY ONLY <2>1
  <2>3. CHUNK \in Nat
    BY BootAssumption
  <2> QED
    BY ONLY <1>2, <2>2, <2>3
<1> HIDE DEF end
<1>4. n \in {end, Len(image) + CHUNK} /\ n <= end
  <2>1. PICK x \in Nat, y \in Nat : x = end /\ y = Len(image) + CHUNK
    BY <1>3
  <2>2. \E m \in {x, y} : \A z \in {x, y} : m <= z
    OBVIOUS
  <2> QED
    BY <2>1, <2>2 DEF Min
<1> HIDE DEF n
<1>5. n \in Nat /\ n <= Len(Files)
  BY <1>2, <1>3, <1>4, FileFacts
<1>6. PICK len \in Nat : len = Len(Files)
  BY <1>2, FileFacts
<1>7. image' = [k \in 1 .. n |-> Files[k]]
  <2>1. Files \in Seq({Files[k] : k \in 1 .. len})
    BY <1>2, <1>6, FileFacts, SMTT(60)
  <2> QED
    BY <1>1, <1>5, <1>6, <2>1
<1>8. Len(image') \in Nat
  BY <1>5, <1>7
<1>9. n = Len(Files) => image' = Files
  BY <1>2, <1>7, FileFacts
<1>10. Patched(0)' = Patched(0) /\ Patched(0) = Files
  BY <1>1, <1>2, PatchedFacts DEF Patched, Header, Files, sys_size, usr_size
<1> QED
  BY <1>1, <1>2, <1>8, <1>9, <1>10 DEF ImageInv, patches

(* The headers, in their order.                                            *)
LEMMA HeadersImage == ASSUME BootInv, headers PROVE ImageInv'
<1>1. sizes \in SYSTEMS \X USERS
  BY DEF BootInv, ImageInv
<1>2. /\ Header[1] = <<"size", sys_size>> /\ Header[2] = <<"size", usr_size>>
      /\ Header[3] = <<"rdtr", 0>>
  BY DEF Header
<1>3. ASSUME sizes' = sizes
      PROVE  /\ Files' = Files /\ \A n \in 0 .. 3 : Patched(n)' = Patched(n)
  BY <1>3 DEF Patched, Header, Files, sys_size, usr_size
<1>4. CASE pc = "im_size" /\ pc' = "sys_size" /\ im_size' = Len(Files)
           /\ UNCHANGED <<sizes, image>>
  BY <1>1, <1>3, <1>4 DEF BootInv, ImageInv, patches
<1>5. CASE patch(1, <<"size", sys_size>>, "sys_size", "usr_size")
  <2>1. Patched(1) = [Patched(0) EXCEPT ![1] = <<"size", sys_size>>]
    BY <1>1, <1>2, PatchedFacts
  <2>2. image = Patched(0) /\ im_size = Len(Files)
    BY <1>5 DEF patch, BootInv, ImageInv, patches
  <2> QED
    BY <1>1, <1>3, <1>5, <2>1, <2>2 DEF ImageInv, patches, patch
<1>6. CASE patch(2, <<"size", usr_size>>, "usr_size", "rdtr")
  <2>1. Patched(2) = [Patched(1) EXCEPT ![2] = <<"size", usr_size>>]
    BY <1>1, <1>2, PatchedFacts
  <2>2. image = Patched(1) /\ im_size = Len(Files)
    BY <1>6 DEF patch, BootInv, ImageInv, patches
  <2> QED
    BY <1>1, <1>3, <1>6, <2>1, <2>2 DEF ImageInv, patches, patch
<1>7. CASE patch(3, <<"rdtr", 0>>, "rdtr", "load")
  <2>1. Patched(3) = [Patched(2) EXCEPT ![3] = <<"rdtr", 0>>]
    BY <1>1, <1>2, PatchedFacts
  <2>2. image = Patched(2) /\ im_size = Len(Files)
    BY <1>7 DEF patch, BootInv, ImageInv, patches
  <2> QED
    BY <1>1, <1>3, <1>7, <2>1, <2>2 DEF ImageInv, patches, patch
<1> QED
  BY <1>4, <1>5, <1>6, <1>7 DEF headers

(* Once the image is loaded it stays as it is.                             *)
LEMMA ImageStep == ASSUME BootInv, [BootNext]_bootVars PROVE ImageInv'
<1>1. sizes \in SYSTEMS \X USERS
  BY DEF BootInv, ImageInv
<1>2. ASSUME sizes' = sizes
      PROVE  /\ Files' = Files /\ \A n \in 0 .. 3 : Patched(n)' = Patched(n)
  BY <1>2 DEF Patched, Header, Files, sys_size, usr_size
<1>3. ASSUME UNCHANGED <<sizes, image, im_size>>,
             pc \in (Before \ Building) \cup Made, pc' \in (Before \ Building) \cup Made
      PROVE  ImageInv'
  <2>1. image = Patched(3) /\ im_size = Len(Files)
    BY <1>3 DEF BootInv, ImageInv, patches, Before, Building, Made, Early
  <2> QED
    BY <1>1, <1>2, <1>3, <2>1 DEF ImageInv, patches, Before, Building, Made, Early
<1>4. CASE copy_boot
  <2>1. Len(<<>>) = 0
    OBVIOUS
  <2> QED
    BY <1>1, <1>4, <2>1 DEF copy_boot, buildVars, ImageInv, BootInv
<1>5. CASE die
  BY <1>1, <1>5 DEF die, buildVars, ImageInv
<1>6. CASE UNCHANGED bootVars
  BY <1>2, <1>6 DEF bootVars, bootOnly, ImageInv, patches, BootInv
<1>7. CASE load \/ setIdt \/ setTSS \/ init_mm \/ init_sched \/ init_idle \/ init_task1
  BY <1>3, <1>7 DEF load, setIdt, setTSS, init_mm, init_sched, init_idle, init_task1,
                    buildVars, Before, Building, Early, Made
<1>8. CASE copy_user \/ enable_int \/ clock_early \/ return_gate
  BY <1>3, <1>8 DEF copy_user, enable_int, clock_early, return_gate,
                    buildVars, bootOnly, Before, Building, Early, Made
<1> QED
  BY <1>4, <1>5, <1>6, <1>7, <1>8, CopyImage, HeadersImage DEF BootNext

-----------------------------------------------------------------------------
(* The kernel's structures.                                                *)

(* The frames that alloc_frame finds first, when only the kernel's are in  *)
(* use.                                                                    *)
LEMMA FirstFrames ==
  ASSUME phys_mem = 0 .. NUM_PAG_KERNEL - 1
  PROVE  /\ Len(alloc_frames(PageHeap)) = PageHeap
         /\ DOMAIN alloc_frames(PageHeap) = 1 .. PageHeap
         /\ \A i \in 1 .. PageHeap : alloc_frames(PageHeap)[i] = CodeFrame(i - 1)
<1> DEFINE free == Allocatable \ phys_mem
           rank(f) == Cardinality({g \in free : g <= f})
<1>1. /\ NUM_PAG_KERNEL \in Nat /\ PageHeap \in Nat \ {0} /\ TOTAL_PAGES \in Nat
      /\ NUM_PAG_KERNEL + 2 * PageHeap <= TOTAL_PAGES
  BY Sizes
<1>2. free = Allocatable
  BY <1>1 DEF Allocatable
<1>3. ASSUME NEW f \in free PROVE \E q \in Nat : f = CodeFrame(q)
  <2>1. f \in Int /\ f >= NUM_PAG_KERNEL /\ (f - NUM_PAG_KERNEL) % 2 = 0
    BY <1>1, <1>2 DEF Allocatable
  <2>2. PICK x \in Nat : x = f - NUM_PAG_KERNEL
    BY <1>1, <2>1
  <2>3. x \div 2 \in Nat /\ x = 2 * (x \div 2)
    BY <2>1, <2>2
  <2>4. f = CodeFrame(x \div 2)
    BY <1>1, <2>1, <2>2, <2>3 DEF CodeFrame
  <2> QED
    BY <2>3, <2>4
<1>4. ASSUME NEW q \in Nat, CodeFrame(q) \in free
      PROVE  rank(CodeFrame(q)) = q + 1
  <2> DEFINE below == {g \in free : g <= CodeFrame(q)}
             b == [j \in 0 .. q |-> CodeFrame(j)]
  <2>1. ASSUME NEW j \in 0 .. q PROVE CodeFrame(j) \in below
    <3>1. CodeFrame(q) \in NUM_PAG_KERNEL .. TOTAL_PAGES - 1
      BY <1>2, <1>4 DEF Allocatable
    <3>2. /\ CodeFrame(j) \in NUM_PAG_KERNEL .. TOTAL_PAGES - 1
          /\ CodeFrame(j) - NUM_PAG_KERNEL = 2 * j /\ CodeFrame(j) <= CodeFrame(q)
      BY <1>1, <3>1 DEF CodeFrame
    <3> QED
      BY <1>2, <3>2, EvenFrame DEF Allocatable
  <2>2. ASSUME NEW g \in below PROVE \E j \in 0 .. q : g = CodeFrame(j)
    <3>1. PICK j \in Nat : g = CodeFrame(j)
      BY <1>3
    <3> QED
      BY <1>1, <3>1 DEF CodeFrame
  <2>3. \A i, j \in 0 .. q : CodeFrame(i) = CodeFrame(j) => i = j
    BY <1>1 DEF CodeFrame
  <2> HIDE DEF below
  <2>4. b \in Bijection(0 .. q, below)
    <3>1. b \in [0 .. q -> below] /\ \A j \in 0 .. q : b[j] = CodeFrame(j)
      BY <2>1
    <3> HIDE DEF b
    <3>2. \A i, j \in 0 .. q : b[i] = b[j] => i = j
      BY <2>3, <3>1
    <3>3. \A g \in below : \E j \in 0 .. q : b[j] = g
      BY <2>2, <3>1
    <3> QED
      BY <3>1, <3>2, <3>3 DEF Bijection, Injection, Surjection, IsInjective
  <2>5. IsFiniteSet(0 .. q) /\ Cardinality(0 .. q) = q + 1
    BY FS_Interval
  <2>6. Cardinality(below) = q + 1
    BY <2>4, <2>5, FS_Bijection DEF ExistsBijection
  <2> QED
    BY <2>6 DEF below
<1>5. \A q \in 0 .. PageHeap - 1 : CodeFrame(q) \in free
  BY <1>2, CodeFrameFacts
<1>6. Cardinality(free) \in Nat /\ PageHeap <= Cardinality(free)
  <2>1. IsFiniteSet(free)
    <3>1. free \in SUBSET (NUM_PAG_KERNEL .. TOTAL_PAGES)
      BY <1>1, <1>2 DEF Allocatable
    <3>2. IsFiniteSet(NUM_PAG_KERNEL .. TOTAL_PAGES)
      BY <1>1, FS_Interval
    <3> QED
      BY <3>1, <3>2, FS_Subset
  <2>2. rank(CodeFrame(PageHeap - 1)) = PageHeap
    BY <1>1, <1>4, <1>5
  <2>3. {g \in free : g <= CodeFrame(PageHeap - 1)} \in SUBSET free
    OBVIOUS
  <2>4. rank(CodeFrame(PageHeap - 1)) <= Cardinality(free)
    BY <2>1, <2>3, FS_Subset
  <2> QED
    BY <2>1, <2>2, <2>4, FS_CardinalityType
<1>7. free_frames = [i \in 1 .. Cardinality(free) |-> CHOOSE f \in free : rank(f) = i]
  BY DEF free_frames
<1>8. ASSUME NEW i \in 1 .. PageHeap
      PROVE  (CHOOSE f \in free : rank(f) = i) = CodeFrame(i - 1)
  <2>1. i - 1 \in 0 .. PageHeap - 1 /\ i - 1 \in Nat
    BY <1>1
  <2>2. CodeFrame(i - 1) \in free /\ rank(CodeFrame(i - 1)) = i
    BY <1>4, <1>5, <2>1
  <2>3. ASSUME NEW f \in free, rank(f) = i PROVE f = CodeFrame(i - 1)
    <3>1. PICK q \in Nat : f = CodeFrame(q)
      BY <1>3
    <3>2. q + 1 = i
      BY <1>4, <2>3, <3>1
    <3> QED
      BY <3>1, <3>2
  <2> HIDE DEF free, rank
  <2> QED
    BY <2>2, <2>3
<1> HIDE DEF free, rank
<1>9. PICK c \in Nat : c = Cardinality(free) /\ PageHeap <= c
  BY <1>6
<1>10. /\ Len(free_frames) = c /\ DOMAIN free_frames = 1 .. c
       /\ \A i \in 1 .. PageHeap : free_frames[i] = CodeFrame(i - 1)
  <2>1. free_frames = [i \in 1 .. c |-> CHOOSE f \in free : rank(f) = i]
    BY <1>7, <1>9
  <2>2. Len(free_frames) = c /\ DOMAIN free_frames = 1 .. c
    BY <2>1
  <2>3. ASSUME NEW i \in 1 .. PageHeap PROVE free_frames[i] = CodeFrame(i - 1)
    <3>1. i \in 1 .. c
      BY <1>1, <1>9
    <3> QED
      BY <1>8, <2>1, <3>1
  <2> QED
    BY <2>2, <2>3
<1>11. alloc_frames(PageHeap) = [i \in 1 .. PageHeap |-> free_frames[i]]
  BY <1>1, <1>9, <1>10 DEF alloc_frames
<1> QED
  BY <1>1, <1>10, <1>11

(* At the beginning there is neither a page table nor a process.           *)
LEMMA TablesInit == BootInit => TablesInv
<1> SUFFICES ASSUME BootInit PROVE TablesInv
  OBVIOUS
<1>1. /\ pc = "boot" /\ current = NoTask /\ nextPID = 2 /\ exact = TRUE
      /\ readyqueue = <<>> /\ priorityqueue = <<>>
      /\ PID = Zero /\ nice = Zero /\ brk = Zero
      /\ PT = [t \in Task |-> [p \in Page |-> 0]]
  BY DEF BootInit, Zero
<1>2. idt.enabled = FALSE /\ DOMAIN idt = {"handlers", "enabled"}
  BY DEF BootInit
<1> QED
  BY <1>1, <1>2 DEF TablesInv, Before, Early, Building, Made

(* The PCBs of the list that init_sched makes, from the last to the first; *)
(* taking the first leaves such a list.                                    *)
LEMMA DescendingFacts ==
  /\ Reverse([i \in 1 .. NR_TASKS |-> i - 1]) = Descending(NR_TASKS)
  /\ \A n \in Nat \ {0} :
       /\ Head(Descending(n)) = n - 1 /\ Tail(Descending(n)) = Descending(n - 1)
  /\ \A n \in Nat : Range(Descending(n)) = 0 .. n - 1
<1>1. Reverse([i \in 1 .. NR_TASKS |-> i - 1]) = Descending(NR_TASKS)
  <2> DEFINE s == [i \in 1 .. NR_TASKS |-> i - 1]
  <2>1. NR_TASKS \in Nat
    BY SchedAssumption
  <2>2. Len(s) = NR_TASKS /\ \A i \in 1 .. NR_TASKS : s[NR_TASKS - i + 1] = NR_TASKS - i
    BY <2>1
  <2> QED
    BY <2>1, <2>2 DEF Reverse, Descending
<1>2. ASSUME NEW n \in Nat \ {0}
      PROVE  Head(Descending(n)) = n - 1 /\ Tail(Descending(n)) = Descending(n - 1)
  <2> DEFINE s == Descending(n)
  <2>1. s \in Seq(Int) /\ Len(s) = n /\ \A i \in 1 .. n : s[i] = n - i
    BY DEF Descending
  <2> HIDE DEF s
  <2>2. /\ Head(s) = s[1] /\ Tail(s) = [i \in 1 .. n - 1 |-> s[i + 1]]
    <3>1. Head(s) = s[1]
      BY <2>1
    <3>2. PICK u \in Seq(Int) : u = Tail(s)
      <4>1. s # <<>>
        BY <2>1
      <4>2. Tail(s) \in Seq(Int)
        BY <2>1, <4>1
      <4> QED
        BY <4>2
    <3>3. Len(u) = n - 1 /\ \A i \in 1 .. n - 1 : u[i] = s[i + 1]
      BY <2>1, <3>2
    <3>4. u = [i \in 1 .. Len(u) |-> u[i]]
      BY SMT
    <3> QED
      BY <3>1, <3>2, <3>3, <3>4
  <2>3. \A i \in 1 .. n - 1 : i + 1 \in 1 .. n /\ s[i + 1] = n - 1 - i
    BY <2>1
  <2>4. Head(s) = n - 1 /\ Tail(s) = Descending(n - 1)
    BY <2>1, <2>2, <2>3 DEF Descending
  <2> QED
    BY <2>4 DEF s
<1>3. ASSUME NEW n \in Nat PROVE Range(Descending(n)) = 0 .. n - 1
  <2>1. ASSUME NEW x \in 0 .. n - 1 PROVE \E i \in 1 .. n : n - i = x
    <3> WITNESS n - x \in 1 .. n
    <3> QED
      OBVIOUS
  <2> QED
    BY <2>1 DEF Range, Descending
<1> QED
  BY <1>1, <1>2, <1>3

(* The first PCB of the list is idle's, the second the first process's.    *)
LEMMA IdleTables == ASSUME BootInv, init_idle PROVE TablesInv'
<1>1. NR_TASKS \in Nat \ {0}
  BY SchedAssumption
<1>2. pc = "init_idle" /\ pc' = "init_task1"
  BY DEF init_idle
<1>3. freequeue = Descending(NR_TASKS) /\ PID = Zero
  BY <1>2 DEF BootInv, TablesInv, Before
<1>4. Head(freequeue) = NR_TASKS - 1 /\ Tail(freequeue) = Descending(NR_TASKS - 1)
  BY <1>1, <1>3, DescendingFacts
<1>5. PID' = Zero /\ freequeue' = Descending(NR_TASKS - 1)
  BY <1>3, <1>4 DEF init_idle, Zero
<1> QED
  BY <1>2, <1>5
     DEF init_idle, memOnly, buildVars, BootInv, TablesInv, Before, Early, Building, Made

(* init_task1 takes the second PCB and the first free frames.              *)
LEMMA Task1Tables == ASSUME BootInv, init_task1 PROVE TablesInv'
<1>1. /\ NR_TASKS - 1 \in Nat \ {0} /\ NR_TASKS - 1 - 1 = NR_TASKS - 2
      /\ Task1 \in Task /\ Task1 = NR_TASKS - 2
  BY SchedAssumption DEF Task1, Task
<1>2. pc = "init_task1" /\ pc' = "copy_data"
  BY DEF init_task1
<1>3. /\ freequeue = Descending(NR_TASKS - 1)
      /\ PID = Zero /\ nice = Zero /\ brk = Zero
      /\ PT = [t \in Task |-> [p \in Page |-> 0]] /\ phys_mem = 0 .. NUM_PAG_KERNEL - 1
  BY <1>2 DEF BootInv, TablesInv, Before
<1>4. Head(freequeue) = Task1 /\ Tail(freequeue) = Descending(NR_TASKS - 2)
  <2>1. PICK m \in Nat \ {0} : m = NR_TASKS - 1
    BY <1>1
  <2>2. Head(Descending(m)) = m - 1 /\ Tail(Descending(m)) = Descending(m - 1)
    BY DescendingFacts
  <2>3. m - 1 = NR_TASKS - 2
    BY <1>1, <2>1
  <2> QED
    BY <1>1, <1>3, <2>1, <2>2, <2>3
<1> DEFINE fs == alloc_frames(PageHeap)
<1>5. /\ Len(fs) = PageHeap /\ \A i \in 1 .. PageHeap : fs[i] = CodeFrame(i - 1)
  BY <1>3, FirstFrames
<1>6. DOMAIN fs = 1 .. PageHeap
  BY <1>3, FirstFrames
<1> HIDE DEF fs
<1>7. PageHeap \in Nat
  BY Sizes
<1>8. set_ss_pag([p \in Page |-> 0], 0, fs)
        = [p \in Page |-> IF p < PageHeap THEN CodeFrame(p) ELSE 0]
  <2>1. \A p \in Page : /\ p \in 0 .. 0 + Len(fs) - 1 <=> p < PageHeap
                        /\ p < PageHeap => p - 0 + 1 \in 1 .. PageHeap /\ (p - 0 + 1) - 1 = p
    BY <1>5, <1>7, Sizes DEF Page
  <2>2. \A p \in Page : p < PageHeap => fs[p - 0 + 1] = CodeFrame(p)
    BY <1>5, <2>1
  <2>3. Page \cup (0 .. 0 + Len(fs) - 1) = Page
    BY <1>5, Sizes DEF Page, PageHeap
  <2> QED
    BY <2>1, <2>2, <2>3 DEF set_ss_pag
<1>9. PT' = [t \in Task |-> [p \in Page |->
               IF t = Task1 /\ p < PageHeap THEN CodeFrame(p) ELSE 0]]
  <2>1. PT' = [PT EXCEPT ![Task1] = set_ss_pag(@, 0, fs)]
    BY <1>4 DEF init_task1, set_user_pages, fs
  <2> QED
    BY <1>1, <1>3, <1>8, <2>1
<1>10. Range(fs) = {CodeFrame(p) : p \in 0 .. PageHeap - 1}
  <2>1. \A p \in 0 .. PageHeap - 1 : p + 1 \in 1 .. PageHeap /\ (p + 1) - 1 = p
    BY <1>7
  <2>2. \A i \in 1 .. PageHeap : i - 1 \in 0 .. PageHeap - 1
    BY <1>7
  <2>3. \A p \in 0 .. PageHeap - 1 : fs[p + 1] = CodeFrame(p)
    BY <1>5, <2>1
  <2> QED
    BY <1>5, <1>6, <2>1, <2>2, <2>3 DEF Range
<1>11. phys_mem' = (0 .. NUM_PAG_KERNEL - 1) \cup {CodeFrame(p) : p \in 0 .. PageHeap - 1}
  BY <1>3, <1>10 DEF init_task1, set_user_pages, fs
<1>12. /\ PID' = [t \in Task |-> IF t = Task1 THEN 1 ELSE 0]
       /\ nice' = [t \in Task |-> IF t = Task1 THEN Low ELSE High]
       /\ brk' = [t \in Task |-> IF t = Task1 THEN L_HEAP_START ELSE 0]
       /\ freequeue' = Descending(NR_TASKS - 2)
       /\ cr3' = Task1 /\ esp0' = Task1 /\ msr' = Task1
  BY <1>1, <1>3, <1>4 DEF init_task1, set_cr3, Zero, High, Low
<1>13. /\ quantum_ticks' = quantum_ticks /\ quantum_ticks = -1
       /\ UNCHANGED <<current, readyqueue, priorityqueue, nextPID, exact, idt>>
  BY <1>2 DEF init_task1, BootInv, TablesInv
<1> QED
  BY <1>2, <1>9, <1>11, <1>12, <1>13
     DEF BootInv, TablesInv, Before, Early, Building, Made

(* No step disturbs the tables that main has made so far.                  *)
LEMMA KernelStep == ASSUME BootInv, [BootNext]_bootVars PROVE TablesInv'
<1> USE DEF BootInv, TablesInv, Before, Early, Building, Made
<1>1. CASE copy_boot \/ copy_file \/ headers \/ die \/ load
  BY <1>1 DEF copy_boot, copy_file, headers, patch, die, load,
              memVars, schedVars, memOnly, buildVars
<1>2. CASE setIdt \/ setTSS
  BY <1>2 DEF setIdt, setTSS, memVars, schedVars, memOnly, buildVars
<1>3. CASE init_mm
  BY <1>3 DEF init_mm, init_table_pages, init_frames, schedVars
<1>4. CASE init_sched
  BY <1>4, DescendingFacts DEF init_sched, memOnly
<1>5. CASE copy_user \/ enable_int
  BY <1>5 DEF copy_user, enable_int, memVars, schedVars, memOnly, buildVars
<1>6. CASE clock_early
  BY <1>6 DEF clock_early, memOnly, bootOnly
<1>7. CASE return_gate
  BY <1>7 DEF return_gate, memOnly
<1>8. CASE UNCHANGED bootVars
  BY <1>8 DEF bootVars, memVars, schedVars, memOnly, bootOnly
<1> QED
  BY <1>1, <1>2, <1>3, <1>4, <1>5, <1>6, <1>7, <1>8, IdleTables, Task1Tables DEF BootNext

-----------------------------------------------------------------------------
(* Memory.                                                                 *)

(* Word i of the program's address space, in the frames of the first       *)
(* process.                                                                *)
place(i) == CodeFrame(i \div PAGE_SIZE) * PAGE_SIZE + (i % PAGE_SIZE)

(* A frame and a place in it tell an address, and the other way round.     *)
LEMMA FrameOf ==
  ASSUME NEW f \in Nat, NEW d \in Nat \ {0}, NEW r \in 0 .. d - 1
  PROVE  (f * d + r) \div d = f /\ (f * d + r) % d = r
<1>1. PICK x \in Nat : x = d * f
  OBVIOUS
<1>2. f * d = x
  BY <1>1
<1>3. d * (f + 1) = x + d
  BY <1>1, Distributes
<1>4. x + r \in Nat /\ x <= x + r /\ x + r < x + d
  OBVIOUS
<1>5. (x + r) \div d = f
  BY <1>1, <1>3, <1>4, Quotient
<1>6. x + r = d * f + ((x + r) % d) /\ (x + r) % d \in 0 .. d - 1
  BY <1>4, <1>5, Division
<1>7. PICK m \in 0 .. d - 1 : m = (x + r) % d
  BY <1>6
<1> QED
  BY <1>1, <1>2, <1>5, <1>6, <1>7

(* Different words are at different addresses, all of them in memory and   *)
(* in the frames of the first process.                                     *)
LEMMA PlaceFacts ==
  ASSUME NEW i \in Nat, i < Words
  PROVE  /\ i \div PAGE_SIZE \in 0 .. PageHeap - 1
         /\ place(i) \in Addresses
         /\ place(i) \div PAGE_SIZE = CodeFrame(i \div PAGE_SIZE)
         /\ place(i) % PAGE_SIZE = i % PAGE_SIZE
<1>1. PICK d \in Nat \ {0}, h \in Nat, t \in Nat :
        d = PAGE_SIZE /\ h = PageHeap /\ t = TOTAL_PAGES
  BY Sizes
<1>2. PICK q \in Nat, r \in 0 .. d - 1 : q = i \div d /\ r = i % d
  BY Division
<1>3. d * q <= i
  BY <1>2, QuotientBounds
<1>4. PICK y \in Nat : y = h * d
  OBVIOUS
<1>5. y = d * h /\ Words = y
  BY <1>1, <1>4 DEF Words
<1>6. d * q < d * ((h - 1) + 1)
  <2>1. (h - 1) + 1 = h
    OBVIOUS
  <2> QED
    BY <1>3, <1>5, <2>1
<1>7. q <= h - 1
  BY <1>6, Products
<1>8. q \in 0 .. PageHeap - 1
  BY <1>1, <1>7
<1>9. PICK f \in Nat : f = CodeFrame(q) /\ f <= t - 1
  <2>1. CodeFrame(q) \in NUM_PAG_KERNEL .. TOTAL_PAGES - 1
    BY <1>8, CodeFrameFacts DEF Allocatable
  <2> QED
    BY <1>1, <2>1, Sizes
<1>10. (f * d + r) \div d = f /\ (f * d + r) % d = r
  BY FrameOf
<1>11. f * d + r \in 0 .. t * d - 1
  <2>1. PICK a \in Nat, b \in Nat : a = d * f /\ b = d * t
    OBVIOUS
  <2>2. d * (f + 1) <= d * t
    BY <1>9, ProductsGrow
  <2>3. d * (f + 1) = a + d
    BY <2>1, Distributes
  <2>4. f * d = a /\ t * d = b
    BY <2>1
  <2> QED
    BY <2>1, <2>2, <2>3, <2>4
<1>12. place(i) = f * d + r
  BY <1>1, <1>2, <1>9 DEF place
<1> QED
  BY <1>1, <1>2, <1>8, <1>9, <1>10, <1>11, <1>12 DEF Addresses

(* Two words of the user space of the first process have two addresses.    *)
LEMMA PlacesDiffer ==
  ASSUME NEW i \in Nat, NEW j \in Nat, i < Words, j < Words, place(i) = place(j)
  PROVE  i = j
<1>1. /\ CodeFrame(i \div PAGE_SIZE) = CodeFrame(j \div PAGE_SIZE)
      /\ i % PAGE_SIZE = j % PAGE_SIZE
      /\ i \div PAGE_SIZE \in Nat /\ j \div PAGE_SIZE \in Nat
  BY PlaceFacts, Sizes
<1>2. i \div PAGE_SIZE = j \div PAGE_SIZE
  BY <1>1, Sizes DEF CodeFrame
<1>3. /\ i = PAGE_SIZE * (i \div PAGE_SIZE) + (i % PAGE_SIZE)
      /\ j = PAGE_SIZE * (j \div PAGE_SIZE) + (j % PAGE_SIZE)
  BY Division, Sizes
<1> QED
  BY <1>1, <1>2, <1>3

(* The page table of the first process finds the word of its program.      *)
LEMMA PhysicalIs ==
  ASSUME TablesInv, pc \in Made, NEW i \in Nat, i < Words
  PROVE  physical(L_USER_START + i) = place(i)
<1>1. PICK d \in Nat \ {0}, n \in Nat : d = PAGE_SIZE /\ n = NUM_PAG_KERNEL
  BY Sizes
<1>2. PICK q \in Nat, r \in 0 .. d - 1 : q = i \div d /\ r = i % d /\ i = d * q + r
  BY Division
<1>3. PICK u \in Nat, v \in Nat : u = n * d /\ v = d * q
  OBVIOUS
<1>4. L_USER_START = u
  BY <1>1, <1>3 DEF L_USER_START
<1>5. u + i = (n + q) * d + r
  <2>1. (n + q) * d = d * (n + q) /\ d * (n + q) = d * n + d * q /\ d * n = n * d
    BY Distributes
  <2> QED
    BY <1>2, <1>3, <2>1
<1>6. (u + i) % d = r
  <2>1. PICK k \in Nat : k = n + q
    OBVIOUS
  <2>2. (k * d + r) % d = r
    BY <1>2, FrameOf
  <2> QED
    BY <1>5, <2>1, <2>2
<1>7. ~(u + i < u) /\ (u + i) - u = i
  OBVIOUS
<1>8. PT[cr3][q] = CodeFrame(q)
  <2>1. q \in 0 .. PageHeap - 1
    BY <1>1, <1>2, PlaceFacts
  <2>2. q \in Page /\ q < PageHeap
    BY <2>1, Sizes DEF Page
  <2>3. Task1 \in Task
    BY SchedAssumption DEF Task1, Task
  <2>4. /\ PT = [t \in Task |-> [p \in Page |->
                  IF t = Task1 /\ p < PageHeap THEN CodeFrame(p) ELSE 0]]
        /\ cr3 = Task1
    BY DEF TablesInv
  <2> QED
    BY <2>2, <2>3, <2>4
<1> QED
  BY <1>1, <1>2, <1>4, <1>6, <1>7, <1>8 DEF physical, place

(* The frames of the first process.                                        *)
LEMMA FramesOfFirst ==
  ASSUME TablesInv, pc \in Made
  PROVE  frames_of(PT[Task1], 0, PageHeap) = {CodeFrame(p) : p \in 0 .. PageHeap - 1}
<1>1. \A p \in 0 .. PageHeap - 1 : p \in Page /\ p < PageHeap
  BY Sizes DEF Page
<1>2. Task1 \in Task
  BY SchedAssumption DEF Task1, Task
<1>3. PT = [t \in Task |-> [p \in Page |->
              IF t = Task1 /\ p < PageHeap THEN CodeFrame(p) ELSE 0]]
  BY DEF TablesInv
<1>4. \A p \in 0 .. PageHeap - 1 : PT[Task1][p] = CodeFrame(p)
  BY <1>1, <1>2, <1>3
<1>5. 0 .. 0 + PageHeap - 1 = 0 .. PageHeap - 1
  BY Sizes
<1> QED
  BY <1>4, <1>5 DEF frames_of

(* At the beginning nothing is in memory.                                  *)
LEMMA MemoryInit == BootInit => MemoryInv
<1> SUFFICES ASSUME BootInit PROVE MemoryInv
  OBVIOUS
<1>1. pc = "boot" /\ memory = [a \in Addresses |-> <<"zero", 0>>]
  BY DEF BootInit, Addresses
<1> QED
  BY <1>1 DEF MemoryInv, Building, Before, Early, SystemKept, UserLoaded

(* The image is in memory as it is in the file.                            *)
LEMMA LoadMemory == ASSUME BootInv, load PROVE MemoryInv'
<1>1. /\ pc = "load" /\ pc' = "setIdt" /\ UNCHANGED <<sizes, image>>
      /\ memory' = [a \in DOMAIN memory |->
                      IF a - KERNEL_START + 1 \in 1 .. im_size
                      THEN image[a - KERNEL_START + 1] ELSE memory[a]]
  BY DEF load, buildVars
<1>2. /\ memory = [a \in Addresses |-> <<"zero", 0>>]
      /\ im_size = Len(Files) /\ image = Patched(3) /\ sizes \in SYSTEMS \X USERS
  BY <1>1 DEF BootInv, MemoryInv, ImageInv, patches
<1>3. Len(image) = Len(Files)
  BY <1>2, FileFacts DEF Patched
<1>4. memory' = [a \in Addresses |-> loaded(a)]
  BY <1>1, <1>2, <1>3 DEF loaded
<1>5. \A a \in Addresses : loaded(a)' = loaded(a)
  BY <1>1 DEF loaded
<1>6. memory' = [a \in Addresses |-> loaded(a)'] /\ DOMAIN memory' = Addresses
  BY <1>4, <1>5
<1> QED
  BY <1>1, <1>6 DEF MemoryInv, Building, Before, Early, SystemKept, UserLoaded

(* The copy goes word by word from where the image has the program to the  *)
(* frames of the first process.                                            *)
LEMMA CopyMemory == ASSUME BootInv, copy_user PROVE MemoryInv'
<1> DEFINE K     == {i \in 0 .. user_words - 1 : mapped(L_USER_START + i)}
           where == [i \in K |-> physical(L_USER_START + i)]
           from(a) == Inverse(where, K, Range(where))[a]
<1>1. /\ pc = "copy_data" /\ UNCHANGED <<sizes, image, PT, cr3>>
      /\ memory' = [a \in DOMAIN memory |->
                      IF a \in Range(where) THEN memory[user_file + from(a)]
                      ELSE memory[a]]
      /\ pc' = IF mapped(L_USER_START + user_words - 1) THEN "enable_int" ELSE "fault"
  BY DEF copy_user, buildVars, memVars, memOnly
<1>2. /\ memory = [a \in Addresses |-> loaded(a)]
      /\ image = Patched(3) /\ sizes \in SYSTEMS \X USERS
      /\ TablesInv /\ pc \in Made
  BY <1>1 DEF BootInv, MemoryInv, ImageInv, patches, Made
<1>3. PICK s \in Nat, u \in Nat, kst \in Nat, lus \in Nat, top \in Nat, ws \in Nat :
        /\ s = sys_size /\ u = usr_size /\ kst = KERNEL_START /\ lus = L_USER_START
        /\ top = TOTAL_PAGES * PAGE_SIZE /\ ws = Words
        /\ s >= 3 /\ kst + s + u <= lus /\ lus <= top /\ L_HEAP_START = lus + ws
  <2>1. sys_size \in Nat /\ usr_size \in Nat /\ KERNEL_START \in Nat /\ sys_size >= 3
        /\ KERNEL_START + sys_size + usr_size <= L_USER_START
    BY <1>2, FileFacts
  <2>2. PICK n \in Nat, t \in Nat, d \in Nat, h \in Nat :
          n = NUM_PAG_KERNEL /\ t = TOTAL_PAGES /\ d = PAGE_SIZE /\ h = PageHeap /\ n <= t
    BY Sizes
  <2>3. PICK x \in Nat, y \in Nat, z \in Nat : x = n * d /\ y = t * d /\ z = h * d
    OBVIOUS
  <2>4. x <= y
    <3>1. d * n <= d * t /\ d * n = n * d /\ d * t = t * d
      BY <2>2, ProductsGrow
    <3> QED
      BY <2>3, <3>1
  <2>5. L_USER_START = x /\ TOTAL_PAGES * PAGE_SIZE = y /\ Words = z
    BY <2>2, <2>3 DEF L_USER_START, Words
  <2>6. L_HEAP_START = x + z
    BY <2>2, <2>3, <2>5, BootAssumption
  <2> QED
    BY <2>1, <2>4, <2>5, <2>6
<1>4. /\ Len(image) = s + u /\ image[1][2] = s /\ image[2][2] = u
      /\ \A k \in 1 .. u : image[s + k] = <<"user", k>>
  <2>1. PICK len \in Nat : len = Len(Files) /\ len = s + u
    <3>1. Len(Files) = sys_size + usr_size
      BY <1>2, FileFacts
    <3> QED
      BY <1>3, <3>1
  <2>2. image = [k \in 1 .. len |-> IF k <= 3 THEN Header[k] ELSE Files[k]]
    BY <1>2, <2>1 DEF Patched
  <2>3. image[1] = Header[1] /\ image[2] = Header[2] /\ Len(image) = s + u
    <3>1. 1 \in 1 .. len /\ 2 \in 1 .. len
      BY <1>3, <2>1
    <3>2. image[1] = Header[1] /\ image[2] = Header[2]
      BY <2>2, <3>1
    <3>3. Len(image) = len
      BY <2>2
    <3> QED
      BY <2>1, <3>2, <3>3
  <2>4. Header[1][2] = s /\ Header[2][2] = u
    BY <1>3 DEF Header
  <2>5. ASSUME NEW k \in 1 .. u PROVE image[s + k] = <<"user", k>>
    <3>1. s + k \in 1 .. len /\ ~(s + k <= 3)
      BY <1>3, <2>1
    <3> QED
      BY <1>2, <1>3, <2>2, <3>1, FileFacts
  <2> QED
    BY <2>3, <2>4, <2>5
<1>5. Addresses = 0 .. top - 1
  BY <1>3 DEF Addresses
<1>6. \A j \in 1 .. s + u : kst + j - 1 \in Addresses /\ memory[kst + j - 1] = image[j]
  <2> SUFFICES ASSUME NEW j \in 1 .. s + u
               PROVE  kst + j - 1 \in Addresses /\ memory[kst + j - 1] = image[j]
    OBVIOUS
  <2>1. kst + j - 1 \in Addresses /\ (kst + j - 1) - kst + 1 = j
    BY <1>3, <1>5
  <2> QED
    BY <1>2, <1>3, <1>4, <2>1 DEF loaded
<1>7. user_words = u /\ user_file = kst + s
  <2>1. kst + 1 - 1 = kst /\ kst + 2 - 1 = kst + 1 /\ 1 \in 1 .. s + u /\ 2 \in 1 .. s + u
    BY <1>3
  <2>2. memory[kst][2] = s /\ memory[kst + 1][2] = u
    BY <1>4, <1>6, <2>1
  <2> QED
    BY <1>3, <2>2 DEF user_words, user_file
<1>8. \A i \in Nat : mapped(L_USER_START + i) <=> i < ws
  BY <1>3 DEF mapped
<1>9. K = {i \in 0 .. u - 1 : i < ws}
  BY <1>7, <1>8
<1>10. where = [i \in K |-> place(i)] /\ \A i, j \in K : place(i) = place(j) => i = j
  <2>1. \A i \in K : i \in Nat /\ i < Words
    BY <1>3, <1>9
  <2>2. \A i \in K : physical(L_USER_START + i) = place(i)
    BY <1>2, <2>1, PhysicalIs
  <2>3. \A i, j \in K : place(i) = place(j) => i = j
    BY <2>1, PlacesDiffer
  <2> QED
    BY <2>2, <2>3
<1> HIDE DEF K, where
<1>11. \A i \in K : place(i) \in Range(where) /\ from(place(i)) = i
  <2> SUFFICES ASSUME NEW i \in K
               PROVE  place(i) \in Range(where) /\ from(place(i)) = i
    OBVIOUS
  <2>1. place(i) \in Range(where)
    BY <1>10 DEF Range
  <2>2. from(place(i)) = CHOOSE j \in K : place(i) \in Range(where) => where[j] = place(i)
    BY <2>1 DEF Inverse
  <2>3. where[i] = place(i) /\ \A j \in K : where[j] = place(i) => j = i
    BY <1>10
  <2> QED
    BY <2>1, <2>2, <2>3
<1> HIDE DEF from
<1>12. DOMAIN memory' = Addresses
  BY <1>1, <1>2
<1>13. \A a \in Addresses : loaded(a)' = loaded(a)
  BY <1>1 DEF loaded
<1>14. \A a \in Addresses :
         a \div PAGE_SIZE \notin frames_of(PT[Task1], 0, PageHeap) => memory'[a] = loaded(a)
  <2> SUFFICES ASSUME NEW a \in Addresses,
                      a \div PAGE_SIZE \notin frames_of(PT[Task1], 0, PageHeap)
               PROVE  memory'[a] = loaded(a)
    OBVIOUS
  <2>1. a \notin Range(where)
    <3> SUFFICES ASSUME NEW i \in K, a = place(i) PROVE FALSE
      BY <1>10 DEF Range
    <3>1. i \in Nat /\ i < Words
      BY <1>3, <1>9
    <3>2. a \div PAGE_SIZE \in {CodeFrame(p) : p \in 0 .. PageHeap - 1}
      BY <3>1, PlaceFacts
    <3> QED
      BY <1>2, <3>2, FramesOfFirst
  <2> QED
    BY <1>1, <1>2, <2>1
<1>15. ASSUME pc' = "enable_int"
       PROVE  \A k \in 1 .. u : k <= ws /\ memory'[physical(L_USER_START + k - 1)] = <<"user", k>>
  <2> SUFFICES ASSUME NEW k \in 1 .. u
               PROVE  k <= ws /\ memory'[physical(L_USER_START + k - 1)] = <<"user", k>>
    OBVIOUS
  <2>1. mapped(L_USER_START + u - 1)
    BY <1>1, <1>7, <1>15
  <2>2. PICK i \in Nat : i = k - 1
    OBVIOUS
  <2>3. k <= ws
    BY <1>3, <2>1 DEF mapped
  <2>4. i \in K /\ i < Words /\ L_USER_START + k - 1 = L_USER_START + i
    BY <1>3, <1>9, <2>2, <2>3
  <2>5. physical(L_USER_START + k - 1) = place(i)
    BY <1>2, <2>4, PhysicalIs
  <2>6. place(i) \in Addresses
    BY <2>4, PlaceFacts
  <2>7. memory'[place(i)] = memory[user_file + i]
    BY <1>1, <1>2, <1>11, <2>4, <2>6
  <2>8. s + k \in 1 .. s + u /\ kst + (s + k) - 1 = user_file + i
    BY <1>3, <1>7, <2>2
  <2>9. memory[user_file + i] = image[s + k]
    BY <1>6, <2>8
  <2> QED
    BY <1>4, <2>3, <2>5, <2>7, <2>9
<1>16. /\ usr_size' = usr_size /\ u = usr_size /\ ws = Words
       /\ \A a : physical(a)' = IF a < L_USER_START THEN a
            ELSE PT[cr3][(a - L_USER_START) \div PAGE_SIZE] * PAGE_SIZE + (a % PAGE_SIZE)
  BY <1>1, <1>3 DEF usr_size, physical
<1>17. SystemKept' /\ UserLoaded'
  BY <1>1, <1>12, <1>13, <1>14 DEF SystemKept, UserLoaded, loaded
<1>18. pc' = "enable_int" =>
         \A k \in 1 .. usr_size' : k <= Words /\ memory'[physical(L_USER_START + k - 1)'] = <<"user", k>>
  BY <1>15, <1>16 DEF physical
<1>19. pc' \in {"enable_int", "fault"}
  BY <1>1
<1> QED
  BY <1>12, <1>17, <1>18, <1>19 DEF MemoryInv, Building, Before, Early

(* The word on the top of the stack is the last of the address space.      *)
LEMMA GateMemory == ASSUME BootInv, return_gate PROVE MemoryInv'
<1> DEFINE x == physical(L_HEAP_START - 1)
<1>1. /\ pc = "return_gate" /\ pc' = "user" /\ UNCHANGED <<sizes, image, PT, cr3>>
      /\ memory' = [memory EXCEPT ![x] = memory[KERNEL_START + 2]]
  BY DEF return_gate, buildVars, memVars, memOnly
<1>2. /\ TablesInv /\ pc \in Made /\ DOMAIN memory = Addresses /\ SystemKept
      /\ \A k \in 1 .. usr_size :
           k <= Words /\ memory[physical(L_USER_START + k - 1)] = <<"user", k>>
      /\ usr_size \in Nat
  BY <1>1, FileFacts DEF BootInv, ImageInv, MemoryInv, Made
<1>3. PICK lus \in Nat, ws \in Nat \ {0} :
        lus = L_USER_START /\ ws = Words /\ L_HEAP_START = lus + ws
  <2>1. PICK n \in Nat, d \in Nat \ {0}, h \in Nat \ {0} :
          n = NUM_PAG_KERNEL /\ d = PAGE_SIZE /\ h = PageHeap
    BY Sizes
  <2>2. PICK y \in Nat, z \in Nat : y = n * d /\ z = h * d
    OBVIOUS
  <2>3. z # 0
    <3>1. d * 1 <= d * h /\ d * h = h * d
      BY ProductsGrow
    <3> QED
      BY <2>2, <3>1
  <2>4. L_USER_START = y /\ Words = z
    BY <2>1, <2>2 DEF L_USER_START, Words
  <2> QED
    BY <2>1, <2>2, <2>3, <2>4, BootAssumption
<1>4. x = place(ws - 1) /\ ws - 1 \in Nat /\ ws - 1 < Words
  <2>1. L_HEAP_START - 1 = L_USER_START + (ws - 1) /\ ws - 1 \in Nat /\ ws - 1 < Words
    BY <1>3
  <2> QED
    BY <1>2, <2>1, PhysicalIs
<1> HIDE DEF x
<1>5. /\ DOMAIN memory' = Addresses
      /\ \A a \in Addresses : a # x => memory'[a] = memory[a]
  BY <1>1, <1>2
<1>6. ASSUME NEW a \in Addresses, a \div PAGE_SIZE \notin frames_of(PT[Task1], 0, PageHeap)
      PROVE  memory'[a] = loaded(a)
  <2>1. x \div PAGE_SIZE \in {CodeFrame(p) : p \in 0 .. PageHeap - 1}
    BY <1>4, PlaceFacts
  <2>2. a # x
    BY <1>2, <1>6, <2>1, FramesOfFirst
  <2>3. memory[a] = loaded(a)
    BY <1>1, <1>2, <1>6 DEF SystemKept, loaded
  <2> QED
    BY <1>5, <2>2, <2>3
<1>7. ASSUME NEW k \in 1 .. usr_size, k < ws
      PROVE  memory'[physical(L_USER_START + k - 1)] = <<"user", k>>
  <2>1. PICK i \in Nat : i = k - 1
    BY <1>2
  <2>2. i < Words /\ i # ws - 1 /\ L_USER_START + k - 1 = L_USER_START + i
    BY <1>3, <1>7, <2>1
  <2>3. physical(L_USER_START + k - 1) = place(i) /\ place(i) \in Addresses
    BY <1>2, <2>2, PhysicalIs, PlaceFacts
  <2>4. place(i) # x
    BY <1>4, <2>2, PlacesDiffer
  <2> QED
    BY <1>2, <1>5, <2>3, <2>4
<1>8. SystemKept'
  BY <1>1, <1>5, <1>6 DEF SystemKept, loaded
<1>9. UserLoaded'
  <2>1. usr_size' = usr_size /\ ws = PageHeap * PAGE_SIZE
    BY <1>1, <1>3 DEF usr_size, Words
  <2>2. \A k \in 1 .. usr_size :
          k < PageHeap * PAGE_SIZE => memory'[physical(L_USER_START + k - 1)'] = <<"user", k>>
    BY <1>1, <1>7, <2>1 DEF physical
  <2> QED
    BY <2>1, <2>2 DEF UserLoaded
<1> QED
  BY <1>1, <1>5, <1>8, <1>9 DEF MemoryInv, Building, Before, Early

(* No other step writes to memory.                                         *)
LEMMA MemoryStep == ASSUME BootInv, [BootNext]_bootVars PROVE MemoryInv'
<1>1. ASSUME UNCHANGED memory, pc' \in Building \cup {"load"}, pc \in Building
      PROVE  MemoryInv'
  BY <1>1 DEF BootInv, MemoryInv, Building, Before, Early, SystemKept, UserLoaded
<1>2. ASSUME UNCHANGED <<memory, image>>,
             pc \in Before \ (Building \cup {"load"}),
             pc' \in (Before \ (Building \cup {"load"})) \cup {"copy_data"}
      PROVE  MemoryInv'
  <2>1. memory' = [a \in Addresses |-> loaded(a)']
    BY <1>2 DEF BootInv, MemoryInv, loaded
  <2>2. DOMAIN memory' = Addresses
    BY <2>1
  <2> QED
    BY <1>2, <2>1, <2>2 DEF MemoryInv, Building, Before, Early, SystemKept, UserLoaded
<1>3. ASSUME UNCHANGED <<memory, image, sizes, PT, cr3>>,
             pc \in {"enable_int", "return_gate"}, pc' = "return_gate"
      PROVE  MemoryInv'
  <2>1. /\ DOMAIN memory' = Addresses /\ SystemKept'
        /\ \A k \in 1 .. usr_size : k <= Words /\ memory[physical(L_USER_START + k - 1)] = <<"user", k>>
    BY <1>3 DEF BootInv, MemoryInv, SystemKept
  <2>2. usr_size' = usr_size
    BY <1>3 DEF usr_size
  <2>3. \A k \in 1 .. usr_size' :
          k <= Words /\ memory'[physical(L_USER_START + k - 1)'] = <<"user", k>>
    BY <1>3, <2>1, <2>2 DEF physical
  <2> QED
    BY <1>3, <2>1, <2>3 DEF MemoryInv, Building, Before, Early, UserLoaded
<1>4. CASE UNCHANGED bootVars
  BY <1>4, ZenonT(60) DEF bootVars, bootOnly, memVars, memOnly, BootInv, MemoryInv, SystemKept,
              UserLoaded, loaded, physical, usr_size
<1>5. CASE copy_boot \/ copy_file \/ headers \/ die
  BY <1>1, <1>5 DEF copy_boot, copy_file, headers, patch, die, Building
<1>6. CASE setIdt \/ setTSS \/ init_mm \/ init_sched \/ init_idle \/ init_task1
  BY <1>2, <1>6 DEF setIdt, setTSS, init_mm, init_sched, init_idle, init_task1, buildVars,
                    Building, Before, Early
<1>7. CASE enable_int \/ clock_early
  BY <1>3, <1>7 DEF enable_int, clock_early, buildVars, bootOnly, memVars, memOnly
<1> QED
  BY <1>4, <1>5, <1>6, <1>7, LoadMemory, CopyMemory, GateMemory DEF BootNext

-----------------------------------------------------------------------------
(* The theorems.                                                           *)

(* What each step finds is what the steps before it have left.             *)
THEOREM BootInvariance == BootSpec => []BootInv
<1>1. BootInit => BootInv
  BY ImageInit, TablesInit, MemoryInit DEF BootInv
<1>2. BootInv /\ [BootNext]_bootVars => BootInv'
  BY ImageStep, KernelStep, MemoryStep DEF BootInv
<1> QED
  BY <1>1, <1>2, PTL DEF BootSpec

(* Whatever the sizes of files, memory and tasks, main leaves the initial  *)
(* state of Memory, and of Sched in it: the free PCBs in init_sched's      *)
(* order, and the first frames that alloc_frame finds in one page table.   *)
THEOREM MainLeavesInit == BootSpec => []LeavesInit
<1>1. BootInv => LeavesInit
  <2> SUFFICES ASSUME BootInv, pc = "user" PROVE MemInit
    BY DEF LeavesInit
  <2>1. TablesInv /\ pc \in Made
    BY DEF BootInv, Made
  <2>2. Init
    BY <2>1 DEF Init, TablesInv, Descending
  <2> QED
    BY <2>1, <2>2 DEF MemInit, TablesInv, CodeFrame
<1> QED
  BY <1>1, BootInvariance, PTL

(* The first process finds its program, word by word, in its address       *)
(* space, if main gets as far as to run it.                                *)
THEOREM ProgramLoaded == BootSpec => []UserLoaded
BY BootInvariance, PTL DEF BootInv, MemoryInv

(* The copy of the program overwrites no word of the system, nor any that  *)
(* is not of the first process.                                            *)
THEOREM SystemUntouched == BootSpec => []SystemKept
BY BootInvariance, PTL DEF BootInv, MemoryInv

(* No interrupt comes before its handler, nor before the stack and the     *)
(* page table it is served with.                                           *)
THEOREM ReadyForInterrupts == BootSpec => []InterruptsReady
<1>1. BootInv => InterruptsReady
  <2> SUFFICES ASSUME BootInv, idt.enabled PROVE InterruptsReady
    BY DEF InterruptsReady
  <2>1. TablesInv /\ pc \in {"return_gate", "user"}
    BY DEF BootInv, TablesInv
  <2>2. Task1 \in Task /\ NR_TASKS - 2 \in Nat /\ Task1 = NR_TASKS - 2
    BY SchedAssumption DEF Task1, Task
  <2>3. Range(freequeue) = 0 .. (NR_TASKS - 2) - 1
    BY <2>1, <2>2, DescendingFacts DEF TablesInv, Made
  <2>4. Task1 \notin Range(freequeue)
    BY <2>2, <2>3
  <2> QED
    BY <2>1, <2>2, <2>4 DEF InterruptsReady, TablesInv, Made, Building
<1> QED
  BY <1>1, BootInvariance, PTL
=============================================================================
