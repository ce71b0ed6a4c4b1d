------------------------------ MODULE Translate ------------------------------
(***************************************************************************)
(* The translations of addresses that the processor keeps (TLB), beside    *)
(* the page tables of Memory.  The processor may keep the entry of any     *)
(* page a program has used, and forget it at any time; ZeOS makes it       *)
(* forget all of them by writing CR3, which it does in two places only: at *)
(* the end of sys_fork and in the switch to another process.  sys_sbrk,    *)
(* which removes pages, does not.                                          *)
(*                                                                         *)
(* Pages of code, which never change, are left out.                        *)
(***************************************************************************)
EXTENDS Memory

CONSTANT TLB_ENTRIES  \* bound of the model: how many pages are kept at once

ASSUME TranslateAssumption == TLB_ENTRIES \in Nat \ {0}

VARIABLES
  tlb,      \* of the pages of the running process, the frame kept, or 0
  released  \* (for the properties) pages were removed after the last flush

tlbOnly == <<tlb, released>>
tlbVars == <<memVars, tlbOnly>>

(* What set_cr3 does to the TLB.                                           *)
set_cr3_flush ==
  /\ tlb' = [p \in Page \ Code |-> 0]
  /\ released' = FALSE

TransInit ==
  /\ MemInit
  /\ tlb = [p \in Page \ Code |-> 0]
  /\ released = FALSE

(* The program, or the system on its behalf, uses page p.                  *)
use(p) ==
  /\ Running
  /\ tlb[p] = 0 /\ PT[current][p] # 0
  /\ Cardinality({q \in DOMAIN tlb : tlb[q] # 0}) < TLB_ENTRIES
  /\ tlb' = [tlb EXCEPT ![p] = PT[current][p]]
  /\ UNCHANGED <<memVars, released>>

evict(p) ==
  /\ tlb[p] # 0
  /\ tlb' = [tlb EXCEPT ![p] = 0]
  /\ UNCHANGED <<memVars, released>>

(* Mutant of task_switch: the page tables are not changed for all of them. *)
task_switch_no_flush ==
  \/ current' # NoTask /\ UNCHANGED tlbOnly
  \/ current' = NoTask /\ set_cr3_flush

(* The part of task_switch seen here.                                      *)
task_switch ==
  \/ current' = current /\ UNCHANGED tlbOnly
  \/ current' # current /\ set_cr3_flush

(* Mutant of fork_flush: the last line of the copy is missing, and what    *)
(* the copy used is kept.                                                  *)
fork_flush_none ==
  IF nextPID' = nextPID THEN UNCHANGED tlbOnly
  ELSE LET n   == NUM_PAG_DATA + heap(brk[current])
           new == PT'[Head(freequeue)]
       IN  /\ tlb' = [p \in Page \ Code |->
                        IF p \in PageData + n .. PageData + 2 * n - 1
                        THEN new[p - n] ELSE tlb[p]]
           /\ UNCHANGED released

(* Only a fork that made a child has copied, and flushes.                  *)
fork_flush == IF nextPID' = nextPID THEN UNCHANGED tlbOnly ELSE set_cr3_flush

TransNext ==
  \/ schedule /\ UNCHANGED memOnly /\ task_switch
  \/ mem_fork /\ fork_flush
  \/ mem_exit /\ task_switch
  \/ \E n \in INCREMENTS : sbrk_grow(n) /\ UNCHANGED tlbOnly
  \/ \E n \in INCREMENTS : sbrk_shrink(n) /\ released' = TRUE /\ UNCHANGED tlb
  \/ \E p \in Page \ Code : use(p) \/ evict(p)

TransSpec == TransInit /\ [][TransNext]_tlbVars

-----------------------------------------------------------------------------
(* Properties *)

(* As long as the process has removed no page since the last flush, and no *)
(* heap has grown to the end of a page (the next growth then replaces a    *)
(* page in use) nor a release wrapped, what the processor keeps is what    *)
(* the page table says: the pages that fork lends to the parent for the    *)
(* copy leave nothing behind.                                              *)
Coherent ==
  ~released /\ exact =>
    \A p \in Page \ Code : tlb[p] # 0 => tlb[p] = PT[current][p]

(* The frame that an access to page p reaches.                             *)
reached(p) == IF tlb[p] # 0 THEN tlb[p] ELSE PT[current][p]

(* Even with what is kept of the pages it removed, a process never reaches *)
(* a frame of another: frames that it released change hands only in a fork *)
(* or after a switch, and both flush.                                      *)
ReachesOwn ==
  Running =>
    \A p \in Page \ Code : \A t \in Live \ {current} : \A q \in Own(t) :
      reached(p) # PT[t][q]

(* The child inherits the data of its parent: the copy goes from the       *)
(* frames of the parent to those of the child.                             *)
ForkInherits ==
  [][exact /\ nextPID' # nextPID =>
       LET n == NUM_PAG_DATA + heap(brk[current])
       IN  \A p \in PageData .. PageData + n - 1 :
             /\ reached(p) = PT[current][p]
             /\ tlb[p + n] # 0 => tlb[p + n] = PT'[Head(freequeue)][p]]_tlbVars
=============================================================================
