-------------------------------- MODULE Entry --------------------------------
(***************************************************************************)
(* The way in and out of the ZeOS kernel: the wrappers of the user library *)
(* (wrapper.S), the handlers and the context switch (entry.S), and the     *)
(* stacks and registers through which one process resumes where it left    *)
(* and another one starts.                                                 *)
(*                                                                         *)
(* Stacks are modelled word by word, because what the code promises is a   *)
(* matter of offsets: SAVE_ALL and RESTORE_ALL, the slot of eax that a     *)
(* handler overwrites, the words that sys_fork plants in the child's stack.*)
(* A stack is the sequence of its words, the first one pushed first; what  *)
(* lies beyond the stack pointer is left out.  Which process the scheduler *)
(* picks, and what system calls compute, is any of what they can.          *)
(***************************************************************************)
EXTENDS Integers, Sequences

CONSTANTS
  NR_TASKS,    \* PCBs, without that of idle
  MAX_SYSCALL, \* entries of sys_call_table
  CALLS,       \* the wrappers that programs use
  RAW          \* and the numbers that they pass to int 0x80 by themselves

(* The handlers let MAX_SYSCALL itself through (jg): no program passes it. *)
ASSUME EntryAssumption ==
  /\ NR_TASKS \in Nat \ {0} /\ MAX_SYSCALL \in Nat \ {0}
  /\ CALLS \subseteq {"getpid", "fork", "exit", "get_stats", "set_fps", "sbrk", "write"}
  /\ RAW \subseteq Int \ {MAX_SYSCALL}

VARIABLES
  pc,          \* the label the processor is at
  regs,        \* eax, ebx, ecx, edx, esi, edi, ebp
  cr3,         \* the process whose address space is in use
  esp,         \* in the kernel, the process in whose system stack esp lies
  tss_esp0, msr_esp,  \* whose system stack int and interrupts, and sysenter, take
  kstack,      \* of every PCB, its system stack
  kernel_esp,  \* and while it waits, where its context is, in that stack
  ustack,      \* of every process, the part of its stack that wrappers use
  errno,       \* of every process, the variable of its library
  ready,       \* the processes that wait for the CPU
  called,      \* (for the properties) the call a process is in,
  user,        \* the registers its program must find after it,
  told         \* and the errno

machineVars == <<cr3, esp, tss_esp0, msr_esp, kernel_esp>>
programVars == <<called, user, told>>
entryVars   == <<pc, regs, kstack, ustack, errno, ready, machineVars, programVars>>

Task == 0 .. NR_TASKS - 1

Reg == {"eax", "ebx", "ecx", "edx", "esi", "edi", "ebp"}

(* Words: a number, what the program of a process computed in a register,  *)
(* an argument, an address in the user or the system stack, a label of the *)
(* code, a selector or the flags, something left by C code.                *)
Num(n)    == <<"num", n>>
Val(r, t) == <<"val", r, t>>
Arg(i)    == <<"arg", i>>
At(i)     == <<"at", i>>
Kern(i)   == <<"kern", i>>
Label(l)  == <<"label", l>>
Sel       == <<"sel", 0>>
Junk      == <<"junk", 0>>

top(s)    == s[Len(s)]
pop(s, n) == SubSeq(s, 1, Len(s) - n)

(* Where a return or a jump to the word w leads.                           *)
target(w) == IF w[1] = "label" THEN w[2] ELSE "lost"

ENOSYS == 38
ENOMEM == 12
EAGAIN == 11

(* sys_call_table, by what becomes of the caller.                          *)
sys_call_table ==
  [n \in 0 .. MAX_SYSCALL - 1 |->
     CASE n = 1 -> "sys_exit"
       [] n = 2 -> "sys_fork"
       [] n = 19 -> "sys_sbrk"
       [] n \in {4, 10, 15, 16, 17, 18, 20, 35} -> "sys_other"
       [] OTHER -> "sys_ni_syscall"]

(* The numbers and the arguments of the wrappers, one of each form: getpid *)
(* stands for gettime too, get_stats for fflush, set_fps for get_key and   *)
(* put_screen.                                                             *)
number(w) ==
  CASE w = "getpid" -> 20 [] w = "fork" -> 2 [] w = "exit" -> 1
    [] w = "get_stats" -> 35 [] w = "set_fps" -> 17 [] w = "sbrk" -> 19
    [] w = "write" -> 4

(* The table has them all.                                                 *)
ASSUME NumberAssumption == \A w \in CALLS : number(w) < MAX_SYSCALL

nargs(w) ==
  CASE w = "write" -> 3 [] w = "get_stats" -> 2 [] w \in {"set_fps", "sbrk"} -> 1
    [] OTHER -> 0

InUser == pc \in {"main", "sysenter", "int80", "return", "return_int80"}

Init ==
  /\ pc = "main"
  /\ regs = [r \in Reg |-> Val(r, 0)]
  /\ cr3 = 0 /\ esp = 0 /\ tss_esp0 = 0 /\ msr_esp = 0
  /\ kstack = [t \in Task |-> <<>>]
  /\ kernel_esp = [t \in Task |-> 0]
  /\ ustack = [t \in Task |-> <<>>]
  /\ errno = [t \in Task |-> 0]
  /\ ready = {}
  /\ called = [t \in Task |-> "none"]
  /\ user = [t \in Task |-> regs]
  /\ told = [t \in Task |-> 0]

-----------------------------------------------------------------------------
(* User mode *)

(* The program computes: its registers get values of its own.              *)
compute ==
  /\ pc = "main"
  /\ regs' = [r \in Reg |-> Val(r, cr3)]
  /\ user' = [user EXCEPT ![cr3] = regs']
  /\ UNCHANGED <<pc, kstack, ustack, errno, ready, machineVars, called, told>>

(* What the wrapper w pushes and loads before sysenter; the caller pushed  *)
(* the arguments and the return address.  8(%ebp) is two words below ebp.  *)
wrap_sysenter(w) ==
  LET frame == <<Arg(2), Arg(1), Label("caller"), regs.ebp>>
      saved == frame \o <<regs.ecx, regs.edx>>
                 \o (IF nargs(w) > 0 THEN <<regs.ebx>> ELSE <<>>)
      s     == saved \o <<Label("return"), At(Len(frame))>>
  IN  /\ ustack' = [ustack EXCEPT ![cr3] = s]
      /\ regs' = [regs EXCEPT !.eax = Num(number(w)),
                    !.ebx = IF nargs(w) > 0 THEN frame[Len(frame) - 2] ELSE @,
                    !.ecx = IF nargs(w) > 1 THEN frame[Len(frame) - 3] ELSE @,
                    !.ebp = At(Len(s))]
      /\ pc' = "sysenter"
      /\ UNCHANGED user

(* The wrapper of write, by int 0x80; its arguments stay in ecx and edx.   *)
wrap_int80 ==
  LET frame == <<Arg(3), Arg(2), Arg(1), Label("caller"), regs.ebp>>
  IN  /\ ustack' = [ustack EXCEPT ![cr3] = Append(frame, regs.ebx)]
      /\ regs' = [regs EXCEPT !.eax = Num(number("write")), !.ebp = At(Len(frame)),
                    !.ebx = frame[Len(frame) - 2], !.ecx = frame[Len(frame) - 3],
                    !.edx = frame[Len(frame) - 4]]
      /\ pc' = "int80"
      /\ user' = [user EXCEPT ![cr3].ecx = Arg(2), ![cr3].edx = Arg(3)]

call(w) ==
  /\ pc = "main"
  /\ IF w = "write" THEN wrap_int80 ELSE wrap_sysenter(w)
  /\ called' = [called EXCEPT ![cr3] = w]
  /\ UNCHANGED <<kstack, errno, ready, machineVars, told>>

(* A program executes int 0x80 with a number of its own.                   *)
raw_call(n) ==
  /\ pc = "main"
  /\ regs' = [regs EXCEPT !.eax = Num(n)]
  /\ pc' = "int80"
  /\ called' = [called EXCEPT ![cr3] = "raw"]
  /\ UNCHANGED <<kstack, ustack, errno, ready, machineVars, user, told>>

(* Mutant of failed: zero is taken for an error, jg for jge.               *)
failed_or_zero(w, r) == IF w = "sbrk" THEN r = -1 ELSE r <= 0

(* What a wrapper takes for an error.                                      *)
failed(w, r) == IF w = "sbrk" THEN r = -1 ELSE r < 0

(* The end of a wrapper: the registers it saved, then errno.               *)
wrap_return ==
  /\ pc \in {"return", "return_int80"}
  /\ LET w  == called[cr3]
         s  == IF pc = "return" THEN pop(ustack[cr3], 2)   \* popl %ebp; addl $4, %esp
                                ELSE ustack[cr3]
         b  == nargs(w) > 0
         s1 == IF b THEN pop(s, 1) ELSE s                  \* popl %ebx
         s2 == IF pc = "return" THEN pop(s1, 2) ELSE s1    \* popl %edx; popl %ecx
         r  == regs.eax[2]
     IN  /\ regs' = [regs EXCEPT
                !.ebx = IF b THEN top(s) ELSE @,
                !.edx = IF pc = "return" THEN top(s1) ELSE @,
                !.ecx = IF pc = "return" THEN s1[Len(s1) - 1] ELSE @,
                !.ebp = top(s2),
                !.eax = IF failed(w, r) THEN Num(-1) ELSE @]
         /\ ustack' = [ustack EXCEPT ![cr3] = <<>>]
         /\ errno' = [errno EXCEPT ![cr3] =
                IF ~failed(w, r) THEN @ ELSE IF w = "sbrk" THEN ENOMEM ELSE -r]
  /\ pc' = "main"
  /\ called' = [called EXCEPT ![cr3] = "none"]
  /\ UNCHANGED <<kstack, ready, machineVars, user, told>>

-----------------------------------------------------------------------------
(* Entering the kernel *)

(* Mutant of SAVE_ALL: ecx and edx change places.                          *)
SAVE_ALL_swapped(r) ==
  <<Sel, Sel, Sel, Sel, r.eax, r.ebp, r.edi, r.esi, r.ecx, r.edx, r.ebx>>

(* gs, fs, es and ds, then the registers.                                  *)
SAVE_ALL(r) ==
  <<Sel, Sel, Sel, Sel, r.eax, r.ebp, r.edi, r.esi, r.edx, r.ecx, r.ebx>>

(* What the processor pushes: ss, esp, eflags, cs and eip.                 *)
hardware_frame(eip) == <<Sel, At(Len(ustack[cr3])), Sel, Sel, Label(eip)>>

(* The number is checked and the routine called, or ENOSYS is the result.  *)
dispatch(frame, fin) ==
  LET n == regs.eax[2]
  IN  \/ /\ n \notin 0 .. MAX_SYSCALL
         /\ kstack' = [kstack EXCEPT ![esp'] = frame \o SAVE_ALL(regs)]
         /\ regs' = [regs EXCEPT !.eax = Num(-ENOSYS), !.edx = Sel]
         /\ pc' = fin
         /\ user' = [user EXCEPT ![cr3].eax = Num(-ENOSYS)]
      \/ /\ n \in 0 .. MAX_SYSCALL
         /\ kstack' = [kstack EXCEPT
                         ![esp'] = frame \o SAVE_ALL(regs) \o <<Label(fin)>>]
         /\ regs' = [regs EXCEPT !.ecx = Junk, !.edx = Junk]
         /\ pc' = "routine"
         /\ UNCHANGED user

system_call_handler ==
  /\ pc = "int80"
  /\ esp' = tss_esp0
  /\ dispatch(hardware_frame(IF called[cr3] = "raw" THEN "main" ELSE "return_int80"),
              "fin")
  /\ UNCHANGED <<ustack, errno, ready, cr3, tss_esp0, msr_esp, kernel_esp, called, told>>

(* sysenter saves nothing: ebp is the user stack, and the word under the   *)
(* one it points at, the address to return to.                             *)
syscall_handler_sysenter ==
  /\ pc = "sysenter"
  /\ esp' = msr_esp
  /\ dispatch(<<Sel, regs.ebp, Sel, Sel, ustack[cr3][regs.ebp[2] - 1]>>, "sysenter_fin")
  /\ UNCHANGED <<ustack, errno, ready, cr3, tss_esp0, msr_esp, kernel_esp, called, told>>

(* clock_handler and keyboard_handler.                                     *)
interrupt(routine) ==
  /\ InUser
  /\ esp' = tss_esp0
  /\ kstack' = [kstack EXCEPT
                  ![esp'] = hardware_frame(pc) \o SAVE_ALL(regs) \o <<Label("irq_fin")>>]
  /\ regs' = [regs EXCEPT !.eax = Junk, !.ecx = Junk, !.edx = Junk]
  /\ pc' = routine
  /\ UNCHANGED <<ustack, errno, ready, cr3, tss_esp0, msr_esp, kernel_esp, programVars>>

-----------------------------------------------------------------------------
(* In the kernel *)

(* What a call that gives r promises to its program.                       *)
promise(r) ==
  LET w   == called[cr3]
      bad == w # "raw" /\ (IF w = "sbrk" THEN r = -1 ELSE r < 0)
  IN  /\ user' = [user EXCEPT ![cr3].eax = Num(IF bad THEN -1 ELSE r)]
      /\ told' = [told EXCEPT ![cr3] =
                    IF ~bad THEN @ ELSE IF w = "sbrk" THEN ENOMEM ELSE -r]

(* A routine returns r in eax, to the address it was called with.          *)
return_with(r) ==
  /\ regs' = [regs EXCEPT !.eax = r, !.ecx = Junk, !.edx = Junk]
  /\ pc' = target(top(kstack[esp]))

drop_return == [kstack EXCEPT ![esp] = pop(@, 1)]

Routine == sys_call_table[regs.eax[2]]

sys_result(r) ==
  /\ pc = "routine"
  /\ \/ Routine = "sys_other" /\ r \in {1, -EAGAIN}
     \/ Routine = "sys_sbrk" /\ r \in {1, -1}
     \/ Routine = "sys_ni_syscall" /\ r = -ENOSYS
     \/ Routine = "sys_fork" /\ ready \cup {esp} = Task /\ r = -EAGAIN
  /\ return_with(Num(r))
  /\ kstack' = drop_return
  /\ promise(r)
  /\ UNCHANGED <<ustack, errno, ready, machineVars, called>>

(* Mutant of child_stack: one word too high, over the return address.      *)
child_stack_short(k) == SubSeq(k, 1, 16) \o <<Label("ret_from_fork"), Num(0)>>

(* A copy of the stack of the parent, with the words at -0x12 and -0x13    *)
(* replaced: the context from which the child starts.                      *)
child_stack(k) == SubSeq(k, 1, 17) \o <<Label("ret_from_fork"), Num(0)>>

(* The child gets the memory of the parent, its stack and errno included;  *)
(* its program finds a call that gave 0.                                   *)
sys_fork(child) ==
  /\ pc = "routine" /\ Routine = "sys_fork"
  /\ child \in Task \ (ready \cup {esp})
  /\ return_with(Num(1))
  /\ kstack' = [drop_return EXCEPT ![child] = child_stack(kstack[esp])]
  /\ kernel_esp' = [kernel_esp EXCEPT ![child] = Len(child_stack(kstack[esp]))]
  /\ ustack' = [ustack EXCEPT ![child] = ustack[cr3]]
  /\ errno' = [errno EXCEPT ![child] = errno[cr3]]
  /\ ready' = ready \cup {child}
  /\ called' = [called EXCEPT ![child] = called[cr3]]
  /\ user' = [user EXCEPT ![cr3].eax = Num(1), ![child] = [user[cr3] EXCEPT !.eax = Num(0)]]
  /\ told' = [told EXCEPT ![child] = told[cr3]]
  /\ UNCHANGED <<cr3, esp, tss_esp0, msr_esp>>

(* The routines of the interrupts return.                                  *)
irq_return ==
  /\ pc \in {"keyboard_routine", "clock_routine"}
  /\ return_with(Junk)
  /\ kstack' = drop_return
  /\ UNCHANGED <<ustack, errno, ready, machineVars, programVars>>

(* What sched_next_rr, its C frame and task_switch leave on the stack k:   *)
(* the context, on top of which inner_task_switch pushes ebp again.        *)
context(k, next) ==
  LET frame == Append(k, regs.ebp)
      saved == frame \o <<Label("sched"), Kern(Len(frame)), regs.esi, regs.edi, regs.ebx>>
  IN  saved \o <<Num(next), Label("task_switch"), Kern(Len(frame) + 2)>>

(* Mutant of inner_task_switch: the MSR keeps the stack of the last one.   *)
inner_task_switch_no_msr(next) ==
  /\ tss_esp0' = next
  /\ cr3' = next
  /\ esp' = next
  /\ UNCHANGED msr_esp

(* The stacks of the next entries into the kernel, the address space, and  *)
(* the stack in use become those of next.                                  *)
inner_task_switch(next) ==
  /\ tss_esp0' = next
  /\ msr_esp' = next
  /\ cr3' = next
  /\ esp' = next

(* task_switch up to where next goes on: popl %ebp and ret, on its stack.  *)
(* The process that ran leaves saved on its own.                           *)
task_switch(next, saved) ==
  LET k == SubSeq(kstack[next], 1, kernel_esp[next])
  IN  /\ inner_task_switch(next)
      /\ kernel_esp' = [kernel_esp EXCEPT ![esp] = Len(saved), ![next] = 0]
      /\ kstack' = [kstack EXCEPT ![esp] = saved, ![next] = pop(k, 2)]
      /\ regs' = [regs EXCEPT !.ebp = top(k), !.eax = Junk, !.ecx = Junk, !.edx = Junk]
      /\ pc' = target(k[Len(k) - 1])

(* The clock takes the CPU from a process.                                 *)
schedule(next) ==
  /\ pc = "clock_routine"
  /\ next \in ready
  /\ ready' = (ready \ {next}) \cup {esp}
  /\ task_switch(next, context(kstack[esp], next))
  /\ UNCHANGED <<ustack, errno, programVars>>

(* The PCB of the process that exits becomes free, and its memory too:     *)
(* what they hold is left out.                                             *)
sys_exit(next) ==
  /\ pc = "routine" /\ Routine = "sys_exit"
  /\ next \in ready
  /\ ready' = ready \ {next}
  /\ task_switch(next, <<>>)
  /\ ustack' = [ustack EXCEPT ![cr3] = <<>>]
  /\ errno' = [errno EXCEPT ![cr3] = 0]
  /\ called' = [called EXCEPT ![cr3] = "none"]
  /\ user' = [user EXCEPT ![cr3] = [r \in Reg |-> Junk]]
  /\ told' = [told EXCEPT ![cr3] = 0]

(* Nobody is left to run: see Sched.                                       *)
no_process ==
  /\ pc = "routine" /\ Routine = "sys_exit" /\ ready = {}
  /\ pc' = "stopped"
  /\ UNCHANGED <<regs, kstack, ustack, errno, ready, machineVars, programVars>>

(* The rest of task_switch, after inner_task_switch, when it is taken up.  *)
resume ==
  /\ pc = "task_switch"
  /\ LET s == pop(kstack[esp], 1)                          \* addl $4, %esp
         n == Len(s)
     IN  /\ regs' = [regs EXCEPT !.ebx = s[n], !.edi = s[n - 1], !.esi = s[n - 2],
                                 !.ebp = s[n - 3]]
         /\ pc' = target(s[n - 4])
         /\ kstack' = [kstack EXCEPT ![esp] = pop(s, 5)]
  /\ UNCHANGED <<ustack, errno, ready, machineVars, programVars>>

(* The C code that had called it: leave; ret.                              *)
sched_return ==
  /\ pc = "sched"
  /\ LET s == SubSeq(kstack[esp], 1, regs.ebp[2])
     IN  /\ regs' = [regs EXCEPT !.ebp = top(s), !.eax = Junk]
         /\ pc' = target(s[Len(s) - 1])
         /\ kstack' = [kstack EXCEPT ![esp] = pop(s, 2)]
  /\ UNCHANGED <<ustack, errno, ready, machineVars, programVars>>

(* The child starts as if its sys_fork had returned 0.                     *)
ret_from_fork ==
  /\ pc = "ret_from_fork"
  /\ return_with(Num(0))
  /\ kstack' = drop_return
  /\ UNCHANGED <<ustack, errno, ready, machineVars, programVars>>

-----------------------------------------------------------------------------
(* Leaving the kernel *)

(* Mutant of store_result: the slot of ebp, 0x14(%esp), is overwritten.    *)
store_result_in_ebp(k) == [k EXCEPT ![Len(k) - 5] = regs.eax]

(* movl %eax, 0x18(%esp), where SAVE_ALL left eax.                         *)
store_result(k) == [k EXCEPT ![Len(k) - 6] = regs.eax]

RESTORE_ALL(k) ==
  LET n == Len(k)
  IN  [ebx |-> k[n], ecx |-> k[n - 1], edx |-> k[n - 2], esi |-> k[n - 3],
       edi |-> k[n - 4], ebp |-> k[n - 5], eax |-> k[n - 6]]

(* Back to user mode: RESTORE_ALL pops 11 words.  iret goes by the frame   *)
(* under them, sysexit by the words of it put in edx and ecx; either way   *)
(* the user stack is what it was.                                          *)
leave(k) ==
  LET frame == pop(k, 11)
      n     == Len(frame)
  IN  /\ pc' = target(frame[n])
      /\ ustack' = [ustack EXCEPT ![cr3] = SubSeq(@, 1, frame[n - 3][2])]
      /\ regs' = IF pc = "sysenter_fin"
                 THEN [RESTORE_ALL(k) EXCEPT !.edx = frame[n], !.ecx = frame[n - 3]]
                 ELSE RESTORE_ALL(k)
      /\ kstack' = [kstack EXCEPT ![esp] = <<>>]
      /\ UNCHANGED <<errno, ready, machineVars, programVars>>

(* sysenter_fin and fin, and the end of the handlers of interrupts.        *)
syscall_fin == pc \in {"sysenter_fin", "fin"} /\ leave(store_result(kstack[esp]))
irq_fin     == pc = "irq_fin" /\ leave(kstack[esp])

-----------------------------------------------------------------------------
Next ==
  \/ compute
  \/ \E w \in CALLS : call(w)
  \/ \E n \in RAW : raw_call(n)
  \/ wrap_return
  \/ system_call_handler
  \/ syscall_handler_sysenter
  \/ \E routine \in {"keyboard_routine", "clock_routine"} : interrupt(routine)
  \/ \E r \in {1, -1, -EAGAIN, -ENOSYS} : sys_result(r)
  \/ \E t \in Task : sys_fork(t) \/ schedule(t) \/ sys_exit(t)
  \/ irq_return
  \/ no_process
  \/ resume
  \/ sched_return
  \/ ret_from_fork
  \/ syscall_fin
  \/ irq_fin

Spec == Init /\ [][Next]_entryVars

-----------------------------------------------------------------------------
(* Properties *)

(* Whatever happened since (a call, interrupts, other processes), when its *)
(* program goes on it finds every register as it left it, but for the      *)
(* result in eax (and ecx and edx after write), and its stack too: -1 for  *)
(* an error, 0 in the child that fork created, the result otherwise.       *)
RegistersKept == pc = "main" => regs = user[cr3] /\ ustack[cr3] = <<>>

(* errno has the code of the last call that failed, one errno for every    *)
(* process; calls that succeed and other processes leave it alone.         *)
ErrnoTold == pc = "main" => errno[cr3] = told[cr3]

(* A routine finds, as the C arguments under its return address, what the  *)
(* caller of the wrapper passed, or the registers at the raw int 0x80.     *)
ArgsPassed ==
  pc = "routine" =>
    LET k == kstack[esp]
        w == called[cr3]
    IN  \A i \in 1 .. IF w = "raw" THEN 3 ELSE nargs(w) :
          k[Len(k) - i] = IF w = "raw" THEN user[cr3][<<"ebx", "ecx", "edx">>[i]]
                                       ELSE Arg(i)

(* The context of a process that waits stays whole until it runs again,    *)
(* in a system stack that nobody else enters: its top is where kernel_esp  *)
(* says, and every word jumped or returned through leads to the code.      *)
ContextsWhole ==
  /\ pc # "lost"
  /\ \A t \in ready :
       /\ Len(kstack[t]) = kernel_esp[t]
       /\ target(kstack[t][kernel_esp[t] - 1]) \in {"task_switch", "ret_from_fork"}
=============================================================================
