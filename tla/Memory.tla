-------------------------------- MODULE Memory --------------------------------
(***************************************************************************)
(* The memory of ZeOS: the byte map of physical frames (phys_mem of mm.c), *)
(* the page table of every PCB, and what sys_fork, sys_exit and sys_sbrk   *)
(* of sys.c do with them.                                                  *)
(*                                                                         *)
(* The module extends Sched: a fork succeeds when there are frames for the *)
(* child, and the page table of a PCB outlives the process that had it.    *)
(* Of the page tables only the user part is held, numbered from            *)
(* PAG_LOG_INIT_CODE: the code, the data and stack, then the heap.         *)
(* Addresses are those of the heap's end (brk), in a word that has WORD    *)
(* values.                                                                 *)
(***************************************************************************)
EXTENDS Sched

CONSTANTS
  NUM_PAG_KERNEL, TOTAL_PAGES,  \* frames of the kernel, and of the machine
  NUM_PAG_CODE, NUM_PAG_DATA,   \* pages of code and of data and stack
  PAGE_SIZE, L_HEAP_START,
  WORD,                         \* how many values a word has
  INCREMENTS                    \* arguments of sbrk

(* User addresses begin where the pages of the kernel end.  The arguments  *)
(* of sbrk are any signed words, but growths by more than the memory of    *)
(* the programs are left out: the array of sys_sbrk that holds the frames  *)
(* of larger ones runs over the system stack.                              *)
ASSUME MemoryAssumption ==
  /\ {NUM_PAG_KERNEL, TOTAL_PAGES, NUM_PAG_CODE, NUM_PAG_DATA, PAGE_SIZE,
      L_HEAP_START, WORD} \subseteq Nat \ {0}
  /\ NUM_PAG_KERNEL + 2 * (NUM_PAG_CODE + NUM_PAG_DATA) <= TOTAL_PAGES
  /\ L_HEAP_START = (NUM_PAG_KERNEL + NUM_PAG_CODE + NUM_PAG_DATA) * PAGE_SIZE
  /\ 2 * (L_HEAP_START + TOTAL_PAGES * PAGE_SIZE) < WORD
  /\ INCREMENTS \subseteq Int
  /\ \A n \in INCREMENTS :
       -WORD <= 2 * n /\ n <= (TOTAL_PAGES - NUM_PAG_KERNEL) * PAGE_SIZE

VARIABLES
  phys_mem,  \* the frames marked USED_FRAME
  PT,        \* of every PCB, the frame of every page; 0 is an empty entry
  brk,       \* of every PCB, the first address past the heap
  exact      \* (for the properties) no heap has grown to the end of a page,
             \* and no release has taken brk below address 0

memOnly == <<phys_mem, PT, brk, exact>>
memVars == <<schedVars, memOnly>>

(* A page table has TOTAL_PAGES entries, the kernel's included.            *)
Page     == 0 .. TOTAL_PAGES - NUM_PAG_KERNEL - 1
Code     == 0 .. NUM_PAG_CODE - 1
PageData == NUM_PAG_CODE
PageHeap == NUM_PAG_CODE + NUM_PAG_DATA

aligned(b)  == b % PAGE_SIZE = 0

(* sys_sbrk takes brk as unsigned; sys_fork and sys_exit, as an int.       *)
PAG_HEAP(b) == ((b - L_HEAP_START) % WORD) \div PAGE_SIZE
signed(b)   == IF 2 * b < WORD THEN b ELSE b - WORD
pag_heap(b) == (signed(b) - L_HEAP_START) \div PAGE_SIZE

(* Mutant of heap: the page that brk lies in is left out.                  *)
heap_floor(b) == pag_heap(b)

(* The pages of the heap that fork copies and exit frees.                  *)
heap(b) == IF aligned(b) THEN pag_heap(b) ELSE pag_heap(b) + 1

(* A release of more than all the addresses below brk has made it wrap to  *)
(* the top of the word, an int below zero.                                 *)
Wild(t) == signed(brk[t]) < 0

(* alloc_frame skips every second frame; n calls of it return the first    *)
(* free ones, in order.                                                    *)
Allocatable == {f \in NUM_PAG_KERNEL .. TOTAL_PAGES - 1 : (f - NUM_PAG_KERNEL) % 2 = 0}
free_frames ==
  LET free == Allocatable \ phys_mem
  IN  [i \in 1 .. Cardinality(free) |->
        CHOOSE f \in free : Cardinality({g \in free : g <= f}) = i]
alloc_frames(n) == SubSeq(free_frames, 1, n)

(* free_frame on every frame of F: the first frame after the kernel's,     *)
(* like the kernel's, is never freed.                                      *)
free_frame(F) == phys_mem' = phys_mem \ {f \in F : f > NUM_PAG_KERNEL}

(* set_ss_pag of the frames fs on consecutive pages from first, and        *)
(* del_ss_pag of n pages from first, in the page table pt.  Neither looks  *)
(* where the table ends: an entry written past it becomes part of pt.      *)
set_ss_pag(pt, first, fs) ==
  LET pages == first .. first + Len(fs) - 1
  IN  [p \in DOMAIN pt \cup pages |->
         IF p \in pages THEN fs[p - first + 1] ELSE pt[p]]

del_ss_pag(pt, first, n) ==
  LET pages == first .. first + n - 1
  IN  [p \in DOMAIN pt \cup pages |-> IF p \in pages THEN 0 ELSE pt[p]]

frames_of(pt, first, n) == {pt[p] : p \in first .. first + n - 1}

-----------------------------------------------------------------------------
(* init_mm, then set_user_pages for the first process.                     *)
MemInit ==
  /\ Init
  /\ phys_mem = (0 .. NUM_PAG_KERNEL - 1)
       \cup {NUM_PAG_KERNEL + 2 * p : p \in 0 .. PageHeap - 1}
  /\ PT = [t \in Task |-> [p \in Page |->
             IF t = Task1 /\ p < PageHeap THEN NUM_PAG_KERNEL + 2 * p ELSE 0]]
  /\ brk = [t \in Task |-> IF t = Task1 THEN L_HEAP_START ELSE 0]
  /\ exact = TRUE

(* Mutants of fork_memory: the parent keeps the pages the copy went        *)
(* through; these follow its data, whatever its heap.                      *)
fork_memory_keeps_window(child, n) ==
  LET fs == alloc_frames(n)
  IN  /\ phys_mem' = phys_mem \cup Range(fs)
      /\ PT' = [PT EXCEPT
            ![child] = set_ss_pag([p \in Page |-> IF p \in Code THEN PT[current][p]
                                                  ELSE PT[child][p]],
                                  PageData, fs),
            ![current] = set_ss_pag(PT[current], PageData + n, fs)]

fork_memory_low_window(child, n) ==
  LET fs == alloc_frames(n)
  IN  /\ phys_mem' = phys_mem \cup Range(fs)
      /\ PT' = [PT EXCEPT
            ![child] = set_ss_pag([p \in Page |-> IF p \in Code THEN PT[current][p]
                                                  ELSE PT[child][p]],
                                  PageData, fs),
            ![current] = del_ss_pag(PT[current], PageHeap, n)]

(* The child shares the frames of the code and gets frames of its own for  *)
(* data and heap, of the same pages as its parent's.  To copy them, they   *)
(* are mapped in turn on the pages that follow the parent's, which are     *)
(* left empty.                                                             *)
fork_memory(child, n) ==
  LET fs == alloc_frames(n)
  IN  /\ phys_mem' = phys_mem \cup Range(fs)
      /\ PT' = [PT EXCEPT
            ![child] = set_ss_pag([p \in Page |-> IF p \in Code THEN PT[current][p]
                                                  ELSE PT[child][p]],
                                  PageData, fs),
            ![current] = del_ss_pag(PT[current], PageData + n, n)]

(* Mutant of mem_fork: when a frame is missing those already obtained are  *)
(* not given back.                                                         *)
mem_fork_keeps_frames ==
  /\ Running
  /\ LET child == Head(freequeue)
         n     == NUM_PAG_DATA + heap(brk[current])
     IN  \/ fork_EAGAIN /\ UNCHANGED memOnly
         \/ /\ Len(free_frames) < n /\ ~Wild(current)
            /\ fork_ENOMEM
            /\ brk' = [brk EXCEPT ![child] = brk[current]]
            /\ phys_mem' = phys_mem \cup Range(free_frames)
            /\ UNCHANGED <<PT, exact>>
         \/ /\ Len(free_frames) >= n /\ ~Wild(current)
            /\ fork_child
            /\ brk' = [brk EXCEPT ![child] = brk[current]]
            /\ fork_memory(child, n)
            /\ UNCHANGED exact

(* sys_fork.  The frames a failed fork obtained are given back; the brk    *)
(* copied to the PCB stays there.  With a brk that has wrapped the array   *)
(* for the frames has a negative length: nothing can be said of what such  *)
(* a fork does, and it is not modelled.                                    *)
mem_fork ==
  /\ Running
  /\ LET child == Head(freequeue)
         n     == NUM_PAG_DATA + heap(brk[current])
     IN  \/ fork_EAGAIN /\ UNCHANGED memOnly
         \/ /\ Len(free_frames) < n /\ ~Wild(current)
            /\ fork_ENOMEM
            /\ brk' = [brk EXCEPT ![child] = brk[current]]
            /\ UNCHANGED <<phys_mem, PT, exact>>
         \/ /\ Len(free_frames) >= n /\ ~Wild(current)
            /\ fork_child
            /\ brk' = [brk EXCEPT ![child] = brk[current]]
            /\ fork_memory(child, n)
            /\ UNCHANGED exact

(* Mutant of mem_exit: the page table is left as it was.                   *)
mem_exit_keeps_PT ==
  /\ sys_exit
  /\ free_frame(frames_of(PT[current], PageData, NUM_PAG_DATA + heap(brk[current])))
  /\ UNCHANGED <<PT, brk, exact>>

(* Mutant of mem_exit: brk is taken as unsigned, as sys_sbrk takes it.     *)
mem_exit_unsigned ==
  /\ sys_exit
  /\ LET b == brk[current]
         n == NUM_PAG_DATA + PAG_HEAP(b) + (IF aligned(b) THEN 0 ELSE 1)
     IN  /\ free_frame({PT[current][p] : p \in Page \cap PageData .. PageData + n - 1})
         /\ PT' = [PT EXCEPT ![current] = del_ss_pag(@, PageData, n)]
  /\ UNCHANGED <<brk, exact>>

(* sys_exit: data and heap; the code is shared and stays.  With a brk that *)
(* has wrapped n is negative, and nothing is freed.                        *)
mem_exit ==
  /\ sys_exit
  /\ LET n == NUM_PAG_DATA + heap(brk[current])
     IN  /\ free_frame(frames_of(PT[current], PageData, n))
         /\ PT' = [PT EXCEPT ![current] = del_ss_pag(@, PageData, n)]
  /\ UNCHANGED <<brk, exact>>

(* sbrk(n), n > 0.  The page of an aligned brk is taken to be unmapped.    *)
(* The calls of a process whose brk has wrapped either move brk within its *)
(* page or index the page table far past its end: they are not modelled.   *)
sbrk_grow(n) ==
  LET old   == brk[current]
      new   == (old + n) % WORD
      pags  == PAG_HEAP(new) - PAG_HEAP(old) + (IF aligned(old) THEN 1 ELSE 0)
      first == PageHeap + PAG_HEAP(old) + (IF aligned(old) THEN 0 ELSE 1)
  IN  /\ Running /\ n > 0 /\ ~Wild(current)
      /\ \/ /\ Len(free_frames) < pags
            /\ UNCHANGED memOnly
         \/ /\ Len(free_frames) >= pags
            /\ phys_mem' = phys_mem \cup Range(alloc_frames(pags))
            /\ PT' = [PT EXCEPT ![current] = set_ss_pag(@, first, alloc_frames(pags))]
            /\ brk' = [brk EXCEPT ![current] = new]
            /\ exact' = (exact /\ ~aligned(new))
      /\ UNCHANGED schedVars

(* sbrk(n), n < 0.  With an empty heap it fails and changes nothing.  When *)
(* the sum wraps it is far above the heap: pags is negative, no page is    *)
(* removed, and brk is left there.                                         *)
sbrk_shrink(n) ==
  LET old   == brk[current]
      new   == (old + n) % WORD
      dest  == IF new < L_HEAP_START THEN L_HEAP_START ELSE new
      pags  == PAG_HEAP(old) - PAG_HEAP(dest) + (IF aligned(dest) THEN 1 ELSE 0)
      first == PageHeap + PAG_HEAP(dest) + (IF aligned(dest) THEN 0 ELSE 1)
  IN  /\ Running /\ n < 0 /\ old # L_HEAP_START /\ ~Wild(current)
      /\ free_frame(frames_of(PT[current], first, pags))
      /\ PT' = [PT EXCEPT ![current] = del_ss_pag(@, first, pags)]
      /\ brk' = [brk EXCEPT ![current] = dest]
      /\ exact' = (exact /\ old + n >= 0)
      /\ UNCHANGED schedVars

sys_sbrk == \E n \in INCREMENTS : sbrk_grow(n) \/ sbrk_shrink(n)

MemNext == (schedule /\ UNCHANGED memOnly) \/ mem_fork \/ mem_exit \/ sys_sbrk

MemSpec == MemInit /\ [][MemNext]_memVars

-----------------------------------------------------------------------------
(* Properties *)

(* Every frame is one of the machine's, and every page table is as long    *)
(* as the code has it: whatever fork maps for its copy, and however sbrk   *)
(* moves brk, nothing is written past its end.                             *)
MemTypeOK ==
  /\ phys_mem \subseteq 0 .. TOTAL_PAGES - 1
  /\ PT \in [Task -> [Page -> 0 .. TOTAL_PAGES - 1]]
  /\ brk \in [Task -> 0 .. WORD - 1]
  /\ exact \in BOOLEAN

Own(t) == {p \in Page \ Code : PT[t][p] # 0}

(* No frame of data or heap is mapped twice, in one address space or in    *)
(* two, those of free PCBs included, or is one of the code's.              *)
FramesPrivate ==
  /\ \A t, u \in Task : \A p \in Own(t), q \in Own(u) :
       PT[t][p] = PT[u][q] => t = u /\ p = q
  /\ \A t, u \in Task : \A p \in Own(t), q \in Code : PT[t][p] # PT[u][q]

(* A frame that some page table maps is never handed out again.            *)
MappedIsUsed == \A t \in Task : \A p \in Page : PT[t][p] # 0 => PT[t][p] \in phys_mem

(* The pages that hold the code, the data and the addresses below b of the *)
(* heap, none when b has wrapped.                                          *)
PagesBelow(b) == 0 .. PageHeap - 1 \cup
  {PageHeap + (a - L_HEAP_START) \div PAGE_SIZE : a \in L_HEAP_START .. signed(b) - 1}

(* A live process has its code, its data and every page of its heap,       *)
(* whatever the sizes it grew and shrank by and whoever forked it; its     *)
(* code and data, when a release has made brk wrap.                        *)
AddressSpaceMapped ==
  \A t \in Live : \A p \in PagesBelow(brk[t]) : PT[t][p] # 0

(* A process keeps the frames of what it had and still has, while it or    *)
(* the others grow, shrink, fork and exit: the pages that a fork borrows   *)
(* in the parent, and those that sbrk maps, are never pages in use.        *)
DataKept ==
  [][\A t \in Live \cap Live' :
       \A p \in PagesBelow(brk[t]) \cap PagesBelow(brk'[t]) :
         PT'[t][p] = PT[t][p]]_memVars

(* Until a heap has grown to the end of a page or a release has wrapped,   *)
(* every frame in use is the kernel's, the code's, or belongs to a live    *)
(* process within the pages that exit frees: what fork and sbrk obtain,    *)
(* also when they fail half-way, is given back.                            *)
NoLeak ==
  exact =>
    phys_mem = (0 .. NUM_PAG_KERNEL - 1)
      \cup {NUM_PAG_KERNEL + 2 * p : p \in Code}
      \cup UNION {frames_of(PT[t], PageData, NUM_PAG_DATA + heap(brk[t])) : t \in Live}

(* An exit frees every frame of data or heap of the process.               *)
ExitFreesFrames ==
  [][mem_exit => \A p \in Own(current) : PT[current][p] \notin phys_mem']_memVars
=============================================================================
