-------------------------------- MODULE Boot --------------------------------
(***************************************************************************)
(* From the files of the system and of the user program to the first       *)
(* instruction in user mode: build.c, which joins them in an image with    *)
(* their sizes, the boot sector, which loads it, and main() of system.c,   *)
(* with the initialisations it calls.                                      *)
(*                                                                         *)
(* The unit of sizes and addresses is the word of four bytes; what a word  *)
(* holds is told by where it came from.  Below L_USER_START an address is  *)
(* the same in the kernel and in memory; above, it is one of Memory's.     *)
(***************************************************************************)
EXTENDS Memory, SequencesExt

CONSTANTS
  KERNEL_START,   \* where the system is loaded
  CHUNK,          \* length of the buffer of build
  SYSTEMS, USERS  \* sizes of the system and of the user program

L_USER_START == NUM_PAG_KERNEL * PAGE_SIZE

(* The image is loaded in the kernel's pages.                              *)
ASSUME BootAssumption ==
  /\ KERNEL_START \in Nat /\ CHUNK \in Nat \ {0}
  /\ USERS \subseteq Nat /\ SYSTEMS \subseteq Nat \ 0 .. 2
  /\ \A s \in SYSTEMS, u \in USERS : KERNEL_START + s + u <= L_USER_START
  /\ L_HEAP_START = L_USER_START + PageHeap * PAGE_SIZE

VARIABLES
  pc,       \* what comes next
  sizes,    \* of the two files
  image,    \* what build has written after the boot sector
  im_size,  \* and in it
  memory,   \* the words of the physical memory
  cr3,      \* the PCB whose page table is used, or NoTask without paging
  esp0, msr,  \* the stack of the next entry to the kernel, by an interrupt and
              \* by sysenter: a PCB, or NoTask for the one of main
  idt       \* the interrupts that have a handler, and whether they arrive

bootOnly == <<pc, sizes, image, im_size, memory, cr3, esp0, msr, idt>>
bootVars == <<memVars, bootOnly>>

sys_size == sizes[1]
usr_size == sizes[2]
File(name, n) == [k \in 1 .. n |-> <<name, k>>]
Files == File("system", sys_size) \o File("user", usr_size)

(* Memory that nobody has written is 0.                                    *)
BootInit ==
  /\ current = NoTask
  /\ freequeue = <<>> /\ readyqueue = <<>> /\ priorityqueue = <<>>
  /\ PID = [t \in Task |-> 0] /\ nice = [t \in Task |-> 0]
  /\ quantum_ticks = 0 /\ nextPID = 2
  /\ phys_mem = {} /\ exact = TRUE
  /\ PT = [t \in Task |-> [p \in Page |-> 0]] /\ brk = [t \in Task |-> 0]
  /\ pc = "boot" /\ sizes \in SYSTEMS \X USERS
  /\ image = <<>> /\ im_size = 0
  /\ memory = [a \in 0 .. TOTAL_PAGES * PAGE_SIZE - 1 |-> <<"zero", 0>>]
  /\ cr3 = NoTask /\ esp0 = NoTask /\ msr = NoTask
  /\ idt = [handlers |-> {}, enabled |-> FALSE]

-----------------------------------------------------------------------------
(* The image, in build. *)

buildVars == <<image, im_size>>

(* The boot sector, when it is one.                                        *)
copy_boot ==
  /\ pc = "boot" /\ pc' = "copy"
  /\ UNCHANGED <<memVars, sizes, buildVars, memory, cr3, esp0, msr, idt>>

(* A piece of the file that is being copied.                               *)
copy_file ==
  /\ pc = "copy"
  /\ LET end == IF Len(image) < sys_size THEN sys_size ELSE Len(Files)
         n   == Min({end, Len(image) + CHUNK})
     IN  /\ image' = SubSeq(Files, 1, n)
         /\ pc' = IF n = Len(Files) THEN "im_size" ELSE "copy"
  /\ UNCHANGED <<memVars, sizes, im_size, memory, cr3, esp0, msr, idt>>

(* The four words that are written last, over those of the boot sector and *)
(* of the start of the system.                                             *)
patch(k, word, this, next) ==
  /\ pc = this /\ pc' = next
  /\ image' = [image EXCEPT ![k] = word]
  /\ UNCHANGED <<memVars, sizes, im_size, memory, cr3, esp0, msr, idt>>

(* Mutant of headers: the sizes are written in the order of the files.     *)
headers_swapped ==
  \/ /\ pc = "im_size" /\ pc' = "sys_size"
     /\ im_size' = Len(Files)
     /\ UNCHANGED <<memVars, sizes, image, memory, cr3, esp0, msr, idt>>
  \/ patch(1, <<"size", usr_size>>, "sys_size", "usr_size")
  \/ patch(2, <<"size", sys_size>>, "usr_size", "rdtr")
  \/ patch(3, <<"rdtr", 0>>, "rdtr", "load")

headers ==
  \/ /\ pc = "im_size" /\ pc' = "sys_size"
     /\ im_size' = Len(Files)
     /\ UNCHANGED <<memVars, sizes, image, memory, cr3, esp0, msr, idt>>
  \/ patch(1, <<"size", sys_size>>, "sys_size", "usr_size")
  \/ patch(2, <<"size", usr_size>>, "usr_size", "rdtr")
  \/ patch(3, <<"rdtr", 0>>, "rdtr", "load")

(* A file that is not what it should, a read or a write that fails.        *)
die ==
  /\ pc \in {"boot", "copy", "im_size", "sys_size", "usr_size", "rdtr"}
  /\ pc' = "died"
  /\ UNCHANGED <<memVars, sizes, buildVars, memory, cr3, esp0, msr, idt>>

(* The boot sector loads the image and jumps to main.                      *)
load ==
  /\ pc = "load" /\ pc' = "setIdt"
  /\ memory' = [a \in DOMAIN memory |->
                  IF a - KERNEL_START + 1 \in 1 .. im_size
                  THEN image[a - KERNEL_START + 1] ELSE memory[a]]
  /\ UNCHANGED <<memVars, sizes, buildVars, cr3, esp0, msr, idt>>

-----------------------------------------------------------------------------
(* The system, in main. *)

(* The stack that sysenter is given is the one of main.                    *)
setIdt ==
  /\ pc = "setIdt" /\ pc' = "setTSS"
  /\ msr' = NoTask
  /\ idt' = [idt EXCEPT !.handlers = {"clock", "keyboard", "0x80"}]
  /\ UNCHANGED <<memVars, sizes, buildVars, memory, cr3, esp0>>

(* The same, for interrupts.                                               *)
setTSS ==
  /\ pc = "setTSS" /\ pc' = "init_mm"
  /\ esp0' = NoTask
  /\ UNCHANGED <<memVars, sizes, buildVars, memory, cr3, msr, idt>>

init_table_pages == PT' = [t \in Task |-> [p \in Page |-> 0]]

init_frames == phys_mem' = 0 .. NUM_PAG_KERNEL - 1

(* The directory of PCB t, whose only entry is the page table of t.        *)
set_cr3(t) == cr3' = t

(* Paging begins with the page table of the first PCB.                     *)
init_mm ==
  /\ pc = "init_mm" /\ pc' = "init_sched"
  /\ init_table_pages /\ init_frames /\ set_cr3(0)
  /\ UNCHANGED <<schedVars, brk, exact, sizes, buildVars, memory, esp0, msr, idt>>

(* Mutant of init_sched: every PCB at the end of the list.                 *)
init_sched_tail ==
  /\ pc = "init_sched" /\ pc' = "init_idle"
  /\ freequeue' = [i \in 1 .. NR_TASKS |-> i - 1]
  /\ readyqueue' = <<>> /\ priorityqueue' = <<>>
  /\ quantum_ticks' = -1
  /\ UNCHANGED <<current, PID, nice, nextPID, memOnly,
                 sizes, buildVars, memory, cr3, esp0, msr, idt>>

(* The PCBs go, one after the other, to the front of the list.             *)
init_sched ==
  /\ pc = "init_sched" /\ pc' = "init_idle"
  /\ freequeue' = Reverse([i \in 1 .. NR_TASKS |-> i - 1])
  /\ readyqueue' = <<>> /\ priorityqueue' = <<>>
  /\ quantum_ticks' = -1
  /\ UNCHANGED <<current, PID, nice, nextPID, memOnly,
                 sizes, buildVars, memory, cr3, esp0, msr, idt>>

init_idle ==
  /\ pc = "init_idle" /\ pc' = "init_task1"
  /\ freequeue' = Tail(freequeue)
  /\ PID' = [PID EXCEPT ![Head(freequeue)] = 0]
  /\ UNCHANGED <<current, readyqueue, priorityqueue, nice, quantum_ticks, nextPID,
                 memOnly, sizes, buildVars, memory, cr3, esp0, msr, idt>>

(* The code and the data of the first process; what comes next in the      *)
(* kernel for it uses its page table and its stack.                        *)
set_user_pages(t) ==
  /\ PT' = [PT EXCEPT ![t] = set_ss_pag(@, 0, alloc_frames(PageHeap))]
  /\ phys_mem' = phys_mem \cup Range(alloc_frames(PageHeap))

(* Mutant of init_task1: sysenter still gets the stack of main.            *)
init_task1_no_msr ==
  /\ pc = "init_task1" /\ pc' = "copy_data"
  /\ LET t == Head(freequeue)
     IN  /\ PID' = [PID EXCEPT ![t] = 1]
         /\ nice' = [nice EXCEPT ![t] = Low]
         /\ brk' = [brk EXCEPT ![t] = L_HEAP_START]
         /\ set_user_pages(t)
         /\ set_cr3(t) /\ esp0' = t
  /\ freequeue' = Tail(freequeue)
  /\ UNCHANGED <<current, readyqueue, priorityqueue, quantum_ticks, nextPID,
                 exact, sizes, buildVars, memory, msr, idt>>

init_task1 ==
  /\ pc = "init_task1" /\ pc' = "copy_data"
  /\ LET t == Head(freequeue)
     IN  /\ PID' = [PID EXCEPT ![t] = 1]
         /\ nice' = [nice EXCEPT ![t] = Low]
         /\ brk' = [brk EXCEPT ![t] = L_HEAP_START]
         /\ set_user_pages(t)
         /\ set_cr3(t) /\ esp0' = t /\ msr' = t
  /\ freequeue' = Tail(freequeue)
  /\ UNCHANGED <<current, readyqueue, priorityqueue, quantum_ticks, nextPID,
                 exact, sizes, buildVars, memory, idt>>

(* The word of memory at an address; the pages of the heap and those after *)
(* them are not mapped.                                                    *)
mapped(a) == a < L_HEAP_START
physical(a) ==
  IF a < L_USER_START THEN a
  ELSE PT[cr3][(a - L_USER_START) \div PAGE_SIZE] * PAGE_SIZE + (a % PAGE_SIZE)

(* The start of the user program in the image, and its size, as the words  *)
(* at KERNEL_START tell.                                                   *)
user_file == KERNEL_START + memory[KERNEL_START][2]
user_words == memory[KERNEL_START + 1][2]

(* Mutant of copy_user: to consecutive words of the physical memory.       *)
copy_user_physical ==
  /\ pc = "copy_data" /\ pc' = "enable_int"
  /\ memory' = [a \in DOMAIN memory |->
                  IF a \in L_USER_START .. L_USER_START + user_words - 1
                  THEN memory[user_file + a - L_USER_START] ELSE memory[a]]
  /\ UNCHANGED <<memVars, sizes, buildVars, cr3, esp0, msr, idt>>

(* circular_init and the copy of the program, through the page table of    *)
(* the first process.  One that is larger than its pages stops the machine *)
(* at the first address past them.                                         *)
copy_user ==
  /\ pc = "copy_data"
  /\ LET k     == {i \in 0 .. user_words - 1 : mapped(L_USER_START + i)}
         where == [i \in k |-> physical(L_USER_START + i)]
     IN  /\ memory' = [a \in DOMAIN memory |->
                         IF a \in Range(where)
                         THEN memory[user_file + Inverse(where, k, Range(where))[a]]
                         ELSE memory[a]]
         /\ pc' = IF mapped(L_USER_START + user_words - 1) THEN "enable_int" ELSE "fault"
  /\ UNCHANGED <<memVars, sizes, buildVars, cr3, esp0, msr, idt>>

enable_int ==
  /\ pc = "enable_int" /\ pc' = "return_gate"
  /\ idt' = [idt EXCEPT !.enabled = TRUE]
  /\ UNCHANGED <<memVars, sizes, buildVars, memory, cr3, esp0, msr>>

(* A tick before the first process runs finds main on the stack of a free  *)
(* PCB, whose slice is of 0 ticks, and the queues empty.                   *)
clock_early ==
  /\ idt.enabled /\ pc = "return_gate"
  /\ quantum_ticks' = 0
  /\ UNCHANGED <<current, freequeue, readyqueue, priorityqueue, PID, nice, nextPID,
                 memOnly, bootOnly>>

(* To user mode, after a word for the program on the top of its stack.     *)
return_gate ==
  /\ pc = "return_gate" /\ pc' = "user"
  /\ memory' = [memory EXCEPT ![physical(L_HEAP_START - 1)] = memory[KERNEL_START + 2]]
  /\ current' = esp0
  /\ UNCHANGED <<freequeue, readyqueue, priorityqueue, PID, nice, quantum_ticks, nextPID,
                 memOnly, sizes, buildVars, cr3, esp0, msr, idt>>

BootNext ==
  \/ copy_boot \/ copy_file \/ headers \/ die
  \/ load \/ setIdt \/ setTSS \/ init_mm \/ init_sched \/ init_idle \/ init_task1
  \/ copy_user \/ enable_int \/ clock_early \/ return_gate

BootSpec == BootInit /\ [][BootNext]_bootVars

-----------------------------------------------------------------------------
(* Properties *)

(* Sched and Memory begin where main ends: whatever the sizes of the       *)
(* files, and however many ticks arrive before the first process, main     *)
(* leaves their initial state.                                             *)
LeavesInit == pc = "user" => MemInit

(* The first process finds the words of its program, all of them and in    *)
(* their order, from L_USER_START on, although they are loaded after the   *)
(* system and its frames are not consecutive; but for the last word of its *)
(* stack.                                                                  *)
UserLoaded ==
  pc = "user" =>
    \A k \in 1 .. usr_size :
      k < PageHeap * PAGE_SIZE =>
        memory[physical(L_USER_START + k - 1)] = <<"user", k>>

(* The copy writes in the frames of the first process only: the system is  *)
(* still where it was loaded, and the frames between are as they were.     *)
SystemKept ==
  pc \in {"enable_int", "return_gate", "user"} =>
    \A a \in DOMAIN memory :
      a \div PAGE_SIZE \notin frames_of(PT[Task1], 0, PageHeap) =>
        memory[a] = IF a - KERNEL_START + 1 \in 1 .. Len(image)
                    THEN image[a - KERNEL_START + 1] ELSE <<"zero", 0>>

(* When an interrupt can arrive it has a handler, and the processor, for   *)
(* it and for sysenter, the stack of the process whose page table is used: *)
(* the first one, whose PCB is in no list.                                 *)
InterruptsReady ==
  idt.enabled =>
    /\ {"clock", "keyboard", "0x80"} \subseteq idt.handlers
    /\ esp0 = cr3 /\ msr = cr3 /\ cr3 \in Task
    /\ PID[esp0] = 1 /\ esp0 \notin Range(freequeue)
=============================================================================
