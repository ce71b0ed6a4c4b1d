----------------------------- MODULE EntryProofs -----------------------------
(***************************************************************************)
(* The way in and out of the kernel, proved for every number of PCBs and   *)
(* every table of system calls that has the numbers of the wrappers.       *)
(*                                                                         *)
(* What a program finds when it goes on was pushed by its wrapper, by the  *)
(* processor, by SAVE_ALL and by task_switch, and is popped elsewhere.     *)
(* The invariant says, for every label, which word is where in the two     *)
(* stacks of a process (Running, for the one that has the CPU, and         *)
(* Waiting), and what its registers have to do with those that its program *)
(* must find (UserAt, InKernel, Promised).                                 *)
(***************************************************************************)
EXTENDS Entry, TLAPS

UserLabels == {"main", "sysenter", "int80", "return", "return_int80"}
Labels ==
  UserLabels \cup {"routine", "sysenter_fin", "fin", "clock_routine", "keyboard_routine",
                   "irq_fin", "task_switch", "sched", "ret_from_fork", "stopped"}

IsStack(k) == Len(k) \in Nat /\ k = [i \in 1 .. Len(k) |-> k[i]]
IsRegs(r)  == r = [x \in Reg |-> r[x]]

-----------------------------------------------------------------------------
(* Registers r and user stack s in a call of the wrapper w by a program    *)
(* with registers u.                                                       *)

(* A wrapper's frame, with the registers it saves.                         *)
SysenterStack(s, w, u) ==
  LET n == IF nargs(w) > 0 THEN 9 ELSE 8
  IN  /\ w \in CALLS \ {"write"} /\ Len(s) = n
      /\ s[4] = u.ebp /\ s[5] = u.ecx /\ s[6] = u.edx /\ (nargs(w) > 0 => s[7] = u.ebx)
      /\ s[n - 1] = Label("return")

WriteStack(s, w, u) ==
  /\ w = "write" /\ w \in CALLS /\ Len(s) = 6
  /\ s[5] = u.ebp /\ s[6] = u.ebx /\ u.ecx = Arg(2) /\ u.edx = Arg(3)

(* On the way in.                                                          *)
BySysenter(s, w, u, r) ==
  /\ SysenterStack(s, w, u)
  /\ r.eax = Num(number(w))
  /\ r.ebx = (IF nargs(w) > 0 THEN Arg(1) ELSE u.ebx)
  /\ r.ecx = (IF nargs(w) > 1 THEN Arg(2) ELSE u.ecx)
  /\ r.edx = u.edx /\ r.esi = u.esi /\ r.edi = u.edi /\ r.ebp = At(Len(s))

ByWrite(s, w, u, r) ==
  /\ WriteStack(s, w, u)
  /\ r.eax = Num(number(w)) /\ r.ebx = Arg(1)
  /\ r.ecx = u.ecx /\ r.edx = u.edx /\ r.esi = u.esi /\ r.edi = u.edi

ByRaw(s, w, u, r) ==
  /\ w = "raw" /\ s = <<>>
  /\ \E n \in RAW : r.eax = Num(n)
  /\ r.ebx = u.ebx /\ r.ecx = u.ecx /\ r.edx = u.edx /\ r.esi = u.esi
  /\ r.edi = u.edi /\ r.ebp = u.ebp

(* The result v was given to process t.                                    *)
Promised(t, v) ==
  LET w   == called[t]
      bad == w # "raw" /\ failed(w, v[2])
  IN  /\ v = Num(v[2])
      /\ user[t].eax = (IF bad THEN Num(-1) ELSE v)
      /\ told[t] = (IF ~bad THEN errno[t] ELSE IF w = "sbrk" THEN ENOMEM ELSE -v[2])

(* The program of t, or its library, at label l with registers r.          *)
UserAt(t, l, r) ==
  LET s == ustack[t]
      w == called[t]
      u == user[t]
  IN  \/ /\ l = "main" /\ s = <<>> /\ errno[t] = told[t]
         /\ r.eax = u.eax /\ r.ebx = u.ebx /\ r.ecx = u.ecx /\ r.edx = u.edx
         /\ r.esi = u.esi /\ r.edi = u.edi /\ r.ebp = u.ebp
      \/ l = "sysenter" /\ BySysenter(s, w, u, r) /\ errno[t] = told[t]
      \/ l = "int80" /\ (ByWrite(s, w, u, r) \/ ByRaw(s, w, u, r)) /\ errno[t] = told[t]
      \/ /\ l = "return" /\ SysenterStack(s, w, u) /\ Promised(t, r.eax)
         /\ r.esi = u.esi /\ r.edi = u.edi /\ (nargs(w) > 0 \/ r.ebx = u.ebx)
      \/ /\ l = "return_int80" /\ WriteStack(s, w, u) /\ Promised(t, r.eax)
         /\ r.ecx = u.ecx /\ r.edx = u.edx /\ r.esi = u.esi /\ r.edi = u.edi

-----------------------------------------------------------------------------
(* The stack k of the kernel.  The first 16 words are what the processor   *)
(* and SAVE_ALL pushed.                                                    *)
slots(k) == [eax |-> k[10], ebp |-> k[11], edi |-> k[12], esi |-> k[13],
             edx |-> k[14], ecx |-> k[15], ebx |-> k[16]]

(* Process t was interrupted.                                              *)
Interrupted(t, k) ==
  /\ k[2] = At(Len(ustack[t]))
  /\ \E l \in UserLabels : k[5] = Label(l) /\ UserAt(t, l, slots(k))

(* It is in a system call that ends at fin.                                *)
InKernel(t, k, fin) ==
  LET s == ustack[t]
      w == called[t]
      u == user[t]
      r == slots(k)
  IN  /\ k[2] = At(Len(s))
      /\ \/ fin = "sysenter_fin" /\ k[5] = Label("return") /\ BySysenter(s, w, u, r)
         \/ fin = "fin" /\ k[5] = Label("return_int80") /\ ByWrite(s, w, u, r)
         \/ fin = "fin" /\ k[5] = Label("main") /\ ByRaw(s, w, u, r)

(* It comes to run in a fork.                                              *)
Child(t, k) ==
  \E fin \in {"sysenter_fin", "fin"} :
    k[17] = Label(fin) /\ InKernel(t, k, fin) /\ Promised(t, Num(0))

(* It was preempted, and the first n words of its context are there.       *)
Preempted(t, k, n) ==
  /\ Interrupted(t, k) /\ k[17] = Label("irq_fin")
  /\ n > 18 => k[19] = Label("sched") /\ k[20] = Kern(18)
  /\ n > 24 => k[25] = Label("task_switch") /\ k[26] = Kern(20)

Waiting(t) ==
  LET k == kstack[t]
  IN  /\ IsStack(ustack[t]) /\ IsRegs(user[t]) /\ IsStack(k) /\ kernel_esp[t] = Len(k)
      /\ \/ Len(k) = 26 /\ Preempted(t, k, 26)
         \/ Len(k) = 19 /\ k[18] = Label("ret_from_fork") /\ Child(t, k)

Running ==
  LET t == cr3
      k == kstack[t]
  IN  /\ IsStack(ustack[t]) /\ IsRegs(user[t]) /\ IsStack(k)
      /\ pc \in UserLabels => k = <<>> /\ UserAt(t, pc, regs)
      /\ pc = "routine" =>
           /\ Len(k) = 17 /\ errno[t] = told[t]
           /\ \E fin \in {"sysenter_fin", "fin"} :
                k[17] = Label(fin) /\ InKernel(t, k, fin)
      /\ pc \in {"sysenter_fin", "fin"} =>
           Len(k) = 16 /\ InKernel(t, k, pc) /\ Promised(t, regs.eax)
      /\ pc \in {"clock_routine", "keyboard_routine"} =>
           Len(k) = 17 /\ Preempted(t, k, 17)
      /\ pc = "irq_fin" => Len(k) = 16 /\ Interrupted(t, k)
      /\ pc = "task_switch" => Len(k) = 24 /\ Preempted(t, k, 24)
      /\ pc = "sched" => Len(k) = 18 /\ Preempted(t, k, 18) /\ regs.ebp = Kern(18)
      /\ pc = "ret_from_fork" => Len(k) = 17 /\ Child(t, k)

(* All that knows of the running process knows of the same one.            *)
Machine ==
  /\ pc \in Labels /\ IsRegs(regs)
  /\ cr3 \in Task /\ esp = cr3 /\ tss_esp0 = cr3 /\ msr_esp = cr3
  /\ ready \subseteq Task \ {cr3}
  /\ DOMAIN kstack = Task /\ DOMAIN kernel_esp = Task /\ DOMAIN ustack = Task
  /\ DOMAIN errno = Task /\ DOMAIN called = Task /\ DOMAIN user = Task /\ DOMAIN told = Task

EntryInv ==
  /\ Machine
  /\ \A t \in ready : Waiting(t)
  /\ pc # "stopped" => Running

-----------------------------------------------------------------------------
(* Stacks and registers.                                                   *)

(* What is left of a stack when words are popped.                          *)
LEMMA Popped ==
  ASSUME NEW k, IsStack(k), NEW n \in 0 .. Len(k)
  PROVE  /\ IsStack(SubSeq(k, 1, n)) /\ Len(SubSeq(k, 1, n)) = n
         /\ \A i \in 1 .. n : SubSeq(k, 1, n)[i] = k[i]
<1>1. k \in Seq({k[i] : i \in 1 .. Len(k)})
  BY DEF IsStack
<1>2. PICK m \in Nat : m = Len(k)
  BY DEF IsStack
<1> QED
  BY <1>1, <1>2 DEF IsStack

(* What a push makes of a stack.                                           *)
LEMMA Pushed ==
  ASSUME NEW k, IsStack(k), NEW w
  PROVE  /\ IsStack(Append(k, w)) /\ Len(Append(k, w)) = Len(k) + 1
         /\ Append(k, w)[Len(k) + 1] = w
         /\ \A i \in 1 .. Len(k) : Append(k, w)[i] = k[i]
<1> DEFINE S == {k[i] : i \in 1 .. Len(k)} \cup {w}
<1>1. k \in Seq(S) /\ w \in S
  BY DEF IsStack
<1> HIDE DEF S
<1>2. Append(k, w) \in Seq(S)
  BY <1>1
<1>3. PICK h \in Seq(S) : h = Append(k, w)
  BY <1>2
<1>4. h = [i \in 1 .. Len(h) |-> h[i]]
  BY SMT
<1>5. /\ Len(h) = Len(k) + 1 /\ h[Len(k) + 1] = w
      /\ \A i \in 1 .. Len(k) : h[i] = k[i]
  BY <1>1, <1>3
<1> QED
  BY <1>3, <1>4, <1>5 DEF IsStack

(* Two stacks, one on the other.                                           *)
LEMMA Joined ==
  ASSUME NEW f, NEW g, IsStack(f), IsStack(g)
  PROVE  /\ IsStack(f \o g) /\ Len(f \o g) = Len(f) + Len(g)
         /\ \A i \in 1 .. Len(f) : (f \o g)[i] = f[i]
         /\ \A i \in 1 .. Len(g) : (f \o g)[Len(f) + i] = g[i]
<1> DEFINE S == {f[i] : i \in 1 .. Len(f)} \cup {g[i] : i \in 1 .. Len(g)}
<1>1. f \in Seq(S) /\ g \in Seq(S)
  BY DEF IsStack
<1> HIDE DEF S
<1>2. f \o g \in Seq(S)
  BY <1>1
<1>3. PICK h \in Seq(S) : h = f \o g
  BY <1>2
<1>4. h = [i \in 1 .. Len(h) |-> h[i]]
  BY SMT
<1>5. /\ Len(h) = Len(f) + Len(g) /\ \A i \in 1 .. Len(f) : h[i] = f[i]
      /\ \A i \in 1 .. Len(g) : h[Len(f) + i] = g[i]
  BY <1>1, <1>3
<1> QED
  BY <1>3, <1>4, <1>5 DEF IsStack

(* The words of a pop are those below.                                     *)
LEMMA PopIs ==
  ASSUME NEW k, IsStack(k), NEW n \in 0 .. Len(k)
  PROVE  /\ IsStack(pop(k, n)) /\ Len(pop(k, n)) = Len(k) - n
         /\ \A i \in 1 .. Len(k) - n : pop(k, n)[i] = k[i]
<1>1. PICK m \in Nat : m = Len(k)
  BY DEF IsStack
<1>2. m - n \in 0 .. Len(k)
  BY <1>1
<1> QED
  BY <1>1, <1>2, Popped DEF pop

(* Labels lead to where they say.                                          *)
LEMMA Targets == \A l : target(Label(l)) = l
BY DEF target, Label

(* Registers with the same values are the same.                            *)
LEMMA RegsEqual ==
  ASSUME NEW r, NEW u, IsRegs(r), IsRegs(u),
         r.eax = u.eax, r.ebx = u.ebx, r.ecx = u.ecx, r.edx = u.edx,
         r.esi = u.esi, r.edi = u.edi, r.ebp = u.ebp
  PROVE  r = u
BY DEF IsRegs, Reg

-----------------------------------------------------------------------------
(* Processes that a step leaves alone.                                     *)

Untouched(t) ==
  /\ kstack'[t] = kstack[t] /\ kernel_esp'[t] = kernel_esp[t] /\ ustack'[t] = ustack[t]
  /\ called'[t] = called[t] /\ user'[t] = user[t]
  /\ errno'[t] = errno[t] /\ told'[t] = told[t]

(* A process goes on waiting as long as nobody touches what is its own.    *)
LEMMA WaitingKept ==
  ASSUME NEW t, Untouched(t), Waiting(t)
  PROVE  Waiting(t)'
BY DEF Untouched, Waiting, Preempted, Interrupted, Child, InKernel, UserAt, Promised

(* All those that wait go on waiting.                                      *)
LEMMA OthersWait ==
  ASSUME EntryInv, ready' = ready, \A t \in ready : Untouched(t)
  PROVE  \A t \in ready' : Waiting(t)'
BY WaitingKept DEF EntryInv

(* A step of the process that has the CPU, which touches nobody else's.    *)
Alone ==
  /\ UNCHANGED <<ready, cr3, esp, tss_esp0, msr_esp>>
  /\ DOMAIN kstack' = Task /\ DOMAIN kernel_esp' = Task /\ DOMAIN ustack' = Task
  /\ DOMAIN errno' = Task /\ DOMAIN called' = Task /\ DOMAIN user' = Task
  /\ DOMAIN told' = Task
  /\ \A t \in Task \ {cr3} : Untouched(t)

(* It is enough to look at that process.                                   *)
LEMMA AloneInv ==
  ASSUME EntryInv, Alone, pc' \in Labels, IsRegs(regs'), pc' # "stopped" => Running'
  PROVE  EntryInv'
<1>1. Machine'
  BY DEF EntryInv, Machine, Alone
<1>2. \A t \in ready : Untouched(t)
  BY DEF EntryInv, Machine, Alone
<1>3. \A t \in ready' : Waiting(t)'
  BY <1>2, OthersWait DEF Alone
<1> QED
  BY <1>1, <1>3 DEF EntryInv

-----------------------------------------------------------------------------
(* In user mode, one lemma per action.                                     *)

(* A program computes.                                                     *)
LEMMA ComputeInv == ASSUME EntryInv, compute PROVE EntryInv'
<1>1. /\ cr3 \in Task /\ pc = "main" /\ Running
      /\ DOMAIN user = Task
  BY DEF EntryInv, Machine, compute
<1>2. Alone
  BY <1>1 DEF compute, machineVars, EntryInv, Machine, Alone, Untouched
<1>3. IsRegs(regs') /\ pc' = "main" /\ user'[cr3] = regs'
  BY <1>1 DEF compute, IsRegs
<1>4. Running'
  BY <1>1, <1>2, <1>3 DEF compute, machineVars, Running, UserAt, UserLabels
<1> QED
  BY <1>2, <1>3, <1>4, AloneInv DEF Labels, UserLabels

(* It makes a system call by itself.                                       *)
LEMMA RawCallInv == ASSUME EntryInv, NEW n \in RAW, raw_call(n) PROVE EntryInv'
<1>1. cr3 \in Task /\ pc = "main" /\ Running /\ IsRegs(regs)
  BY DEF EntryInv, Machine, raw_call
<1>2. Alone
  BY <1>1 DEF raw_call, machineVars, EntryInv, Machine, Alone, Untouched
<1>3. /\ IsRegs(regs') /\ regs'.eax = Num(n) /\ regs'.ebx = regs.ebx
      /\ regs'.ecx = regs.ecx /\ regs'.edx = regs.edx /\ regs'.esi = regs.esi
      /\ regs'.edi = regs.edi /\ regs'.ebp = regs.ebp
  BY <1>1 DEF raw_call, IsRegs, Reg
<1>4. /\ kstack[cr3] = <<>> /\ UserAt(cr3, "main", regs)
      /\ IsStack(ustack[cr3]) /\ IsRegs(user[cr3]) /\ IsStack(kstack[cr3])
  BY <1>1 DEF Running, UserLabels
<1>5. /\ pc' = "int80" /\ called'[cr3] = "raw" /\ cr3' = cr3
      /\ UNCHANGED <<kstack, ustack, errno, user, told>>
  BY <1>1 DEF raw_call, machineVars, EntryInv, Machine
<1>6. ByRaw(ustack[cr3], "raw", user[cr3], regs') /\ errno[cr3] = told[cr3]
  BY <1>3, <1>4 DEF ByRaw, UserAt
<1>7. Running'
  BY <1>4, <1>5, <1>6 DEF Running, UserAt, UserLabels
<1> QED
  BY <1>2, <1>3, <1>5, <1>7, AloneInv DEF Labels, UserLabels

(* The stack h is f with g on top of it.                                   *)
Extends(h, f, g) ==
  /\ IsStack(h) /\ Len(h) = Len(f) + Len(g)
  /\ \A i \in 1 .. Len(f) : h[i] = f[i]
  /\ \A i \in 1 .. Len(g) : h[Len(f) + i] = g[i]

(* The same, with a name for the whole.                                    *)
LEMMA JoinedIs ==
  ASSUME NEW f, NEW g, IsStack(f), IsStack(g), NEW h, h = f \o g
  PROVE  Extends(h, f, g)
<1>1. IsStack(f \o g) /\ Len(f \o g) = Len(f) + Len(g)
  BY Joined
<1>2. \A i \in 1 .. Len(f) : (f \o g)[i] = f[i]
  BY Joined
<1>3. \A i \in 1 .. Len(g) : (f \o g)[Len(f) + i] = g[i]
  BY Joined
<1> QED
  BY <1>1, <1>2, <1>3 DEF Extends

(* The user stack that a wrapper leaves before sysenter.                   *)
LEMMA SysenterWrap ==
  ASSUME NEW w \in CALLS \ {"write"}, NEW u,
         NEW s, s = <<Arg(2), Arg(1), Label("caller"), u.ebp>> \o <<u.ecx, u.edx>>
                      \o (IF nargs(w) > 0 THEN <<u.ebx>> ELSE <<>>)
                      \o <<Label("return"), At(4)>>
  PROVE  IsStack(s) /\ SysenterStack(s, w, u)
<1>1. PICK a, b, c, d :
        /\ a = <<Arg(2), Arg(1), Label("caller"), u.ebp>> /\ b = <<u.ecx, u.edx>>
        /\ c = (IF nargs(w) > 0 THEN <<u.ebx>> ELSE <<>>)
        /\ d = <<Label("return"), At(4)>>
  OBVIOUS
<1>2. PICK x, y : x = a \o b /\ y = x \o c
  OBVIOUS
<1>3. s = y \o d
  BY <1>1, <1>2
<1>4. /\ IsStack(a) /\ Len(a) = 4 /\ a[4] = u.ebp
      /\ IsStack(b) /\ Len(b) = 2 /\ b[1] = u.ecx /\ b[2] = u.edx
      /\ IsStack(d) /\ Len(d) = 2 /\ d[1] = Label("return")
  BY <1>1 DEF IsStack
<1>5. /\ IsStack(c) /\ Len(c) = (IF nargs(w) > 0 THEN 1 ELSE 0)
      /\ nargs(w) > 0 => c[1] = u.ebx
  BY <1>1 DEF IsStack
<1>6. Extends(x, a, b)
  BY <1>2, <1>4, JoinedIs
<1>7. IsStack(x)
  BY <1>6 DEF Extends
<1>8. Extends(y, x, c)
  BY <1>2, <1>5, <1>7, JoinedIs
<1>9. IsStack(y)
  BY <1>8 DEF Extends
<1>10. Extends(s, y, d)
  BY <1>3, <1>4, <1>9, JoinedIs
<1>11. /\ IsStack(x) /\ Len(x) = 6 /\ x[4] = u.ebp /\ x[5] = u.ecx /\ x[6] = u.edx
  BY <1>4, <1>6 DEF Extends
<1>12. CASE nargs(w) > 0
  <2>1. /\ Len(y) = 7 /\ y[4] = u.ebp /\ y[5] = u.ecx /\ y[6] = u.edx /\ y[7] = u.ebx
    BY <1>5, <1>8, <1>11, <1>12 DEF Extends
  <2>2. /\ IsStack(s) /\ Len(s) = 9 /\ s[8] = Label("return")
        /\ s[4] = u.ebp /\ s[5] = u.ecx /\ s[6] = u.edx /\ s[7] = u.ebx
    BY <1>4, <1>10, <2>1 DEF Extends
  <2> QED
    BY <1>12, <2>2 DEF SysenterStack
<1>13. CASE ~(nargs(w) > 0)
  <2>1. /\ Len(y) = 6 /\ y[4] = u.ebp /\ y[5] = u.ecx /\ y[6] = u.edx
    BY <1>5, <1>8, <1>11, <1>13 DEF Extends
  <2>2. /\ IsStack(s) /\ Len(s) = 8 /\ s[7] = Label("return")
        /\ s[4] = u.ebp /\ s[5] = u.ecx /\ s[6] = u.edx
    BY <1>4, <1>10, <2>1 DEF Extends
  <2> QED
    BY <1>13, <2>2 DEF SysenterStack
<1> QED
  BY <1>12, <1>13

(* The stack h is k with the word w on top of it.                          *)
Grows(h, k, w) ==
  /\ IsStack(h) /\ Len(h) = Len(k) + 1 /\ h[Len(k) + 1] = w
  /\ \A i \in 1 .. Len(k) : h[i] = k[i]

(* So for one word.                                                        *)
LEMMA PushedIs ==
  ASSUME NEW k, IsStack(k), NEW w, NEW h, h = Append(k, w)
  PROVE  Grows(h, k, w)
<1>1. IsStack(Append(k, w)) /\ Len(Append(k, w)) = Len(k) + 1
  BY Pushed
<1>2. Append(k, w)[Len(k) + 1] = w
  BY Pushed
<1>3. \A i \in 1 .. Len(k) : Append(k, w)[i] = k[i]
  BY Pushed
<1> QED
  BY <1>1, <1>2, <1>3 DEF Grows

(* A program that runs has its own registers, and an empty stack.          *)
LEMMA AtMain ==
  ASSUME EntryInv, pc = "main"
  PROVE  /\ cr3 \in Task /\ IsRegs(regs) /\ user[cr3] = regs /\ kstack[cr3] = <<>>
         /\ ustack[cr3] = <<>> /\ errno[cr3] = told[cr3] /\ esp = cr3
<1>1. cr3 \in Task /\ esp = cr3 /\ IsRegs(regs) /\ Running
  BY DEF EntryInv, Machine
<1>2. /\ kstack[cr3] = <<>> /\ UserAt(cr3, "main", regs) /\ IsRegs(user[cr3])
  BY <1>1 DEF Running, UserLabels
<1>3. /\ ustack[cr3] = <<>> /\ errno[cr3] = told[cr3]
      /\ regs.eax = user[cr3].eax /\ regs.ebx = user[cr3].ebx /\ regs.ecx = user[cr3].ecx
      /\ regs.edx = user[cr3].edx /\ regs.esi = user[cr3].esi /\ regs.edi = user[cr3].edi
      /\ regs.ebp = user[cr3].ebp
  BY <1>2 DEF UserAt
<1>4. regs = user[cr3]
  BY <1>1, <1>2, <1>3, RegsEqual
<1> QED
  BY <1>1, <1>2, <1>3, <1>4

(* A wrapper leaves in its frame what it will need when the kernel is back.*)
LEMMA SysenterCall == ASSUME EntryInv, NEW w \in CALLS \ {"write"}, call(w) PROVE EntryInv'
<1>1. /\ cr3 \in Task /\ IsRegs(regs) /\ user[cr3] = regs /\ kstack[cr3] = <<>>
      /\ ustack[cr3] = <<>> /\ errno[cr3] = told[cr3] /\ esp = cr3
  BY AtMain DEF call
<1>2. wrap_sysenter(w) /\ called' = [called EXCEPT ![cr3] = w]
      /\ UNCHANGED <<kstack, errno, ready, machineVars, told>>
  BY DEF call
<1>3. Alone
  BY <1>1, <1>2 DEF wrap_sysenter, machineVars, EntryInv, Machine, Alone, Untouched
<1>4. PICK frame : frame = <<Arg(2), Arg(1), Label("caller"), regs.ebp>>
  OBVIOUS
<1>5. Len(frame) = 4 /\ frame[2] = Arg(1) /\ frame[1] = Arg(2)
  BY <1>4
<1>6. PICK s : s = frame \o <<regs.ecx, regs.edx>>
                     \o (IF nargs(w) > 0 THEN <<regs.ebx>> ELSE <<>>)
                     \o <<Label("return"), At(4)>>
  OBVIOUS
<1>7. IsStack(s) /\ SysenterStack(s, w, regs)
  BY <1>4, <1>6, SysenterWrap
<1>8. /\ ustack' = [ustack EXCEPT ![cr3] = s]
      /\ regs' = [regs EXCEPT !.eax = Num(number(w)),
                    !.ebx = IF nargs(w) > 0 THEN Arg(1) ELSE @,
                    !.ecx = IF nargs(w) > 1 THEN Arg(2) ELSE @,
                    !.ebp = At(Len(s))]
      /\ pc' = "sysenter" /\ UNCHANGED user
  <2>1. /\ ustack' = [ustack EXCEPT ![cr3] =
                          frame \o <<regs.ecx, regs.edx>>
                                \o (IF nargs(w) > 0 THEN <<regs.ebx>> ELSE <<>>)
                                \o <<Label("return"), At(Len(frame))>>]
        /\ regs' = [regs EXCEPT !.eax = Num(number(w)),
                      !.ebx = IF nargs(w) > 0 THEN frame[Len(frame) - 2] ELSE @,
                      !.ecx = IF nargs(w) > 1 THEN frame[Len(frame) - 3] ELSE @,
                      !.ebp = At(Len(frame \o <<regs.ecx, regs.edx>>
                                \o (IF nargs(w) > 0 THEN <<regs.ebx>> ELSE <<>>)
                                \o <<Label("return"), At(Len(frame))>>))]
        /\ pc' = "sysenter" /\ UNCHANGED user
    BY <1>2, <1>4, Zenon DEF wrap_sysenter
  <2>2. frame[Len(frame) - 2] = Arg(1) /\ frame[Len(frame) - 3] = Arg(2)
    BY <1>5
  <2>3. s = frame \o <<regs.ecx, regs.edx>>
                  \o (IF nargs(w) > 0 THEN <<regs.ebx>> ELSE <<>>)
                  \o <<Label("return"), At(Len(frame))>>
    BY <1>5, <1>6
  <2> QED
    BY <2>1, <2>2, <2>3, Zenon
<1>9. /\ IsRegs(regs') /\ regs'.eax = Num(number(w)) /\ regs'.ebp = At(Len(s))
      /\ regs'.ebx = (IF nargs(w) > 0 THEN Arg(1) ELSE regs.ebx)
      /\ regs'.ecx = (IF nargs(w) > 1 THEN Arg(2) ELSE regs.ecx)
      /\ regs'.edx = regs.edx /\ regs'.esi = regs.esi /\ regs'.edi = regs.edi
  BY <1>1, <1>8 DEF IsRegs, Reg
<1>10. BySysenter(s, w, regs, regs')
  BY <1>7, <1>9 DEF BySysenter
<1>11. /\ cr3' = cr3 /\ ustack'[cr3] = s /\ called'[cr3] = w /\ user'[cr3] = regs
       /\ kstack'[cr3] = <<>> /\ errno'[cr3] = told'[cr3]
  BY <1>1, <1>2, <1>8 DEF machineVars, EntryInv, Machine
<1>12. IsStack(<<>>)
  BY DEF IsStack
<1>13. Running'
  BY <1>1, <1>7, <1>8, <1>10, <1>11, <1>12 DEF Running, UserAt, UserLabels
<1> QED
  BY <1>3, <1>8, <1>9, <1>13, AloneInv DEF Labels, UserLabels

(* The wrapper of write leaves ebp and ebx there only.                     *)
LEMMA WriteCall == ASSUME EntryInv, "write" \in CALLS, call("write") PROVE EntryInv'
<1>1. /\ cr3 \in Task /\ IsRegs(regs) /\ user[cr3] = regs /\ kstack[cr3] = <<>>
      /\ ustack[cr3] = <<>> /\ errno[cr3] = told[cr3] /\ esp = cr3
  BY AtMain DEF call
<1>2. wrap_int80 /\ called' = [called EXCEPT ![cr3] = "write"]
      /\ UNCHANGED <<kstack, errno, ready, machineVars, told>>
  BY DEF call
<1>3. Alone
  BY <1>1, <1>2 DEF wrap_int80, machineVars, EntryInv, Machine, Alone, Untouched
<1>4. PICK frame : frame = <<Arg(3), Arg(2), Arg(1), Label("caller"), regs.ebp>>
  OBVIOUS
<1>5. /\ IsStack(frame) /\ Len(frame) = 5 /\ frame[3] = Arg(1) /\ frame[2] = Arg(2)
      /\ frame[1] = Arg(3) /\ frame[5] = regs.ebp
  BY <1>4 DEF IsStack
<1>6. PICK s : s = Append(frame, regs.ebx)
  OBVIOUS
<1>7. Grows(s, frame, regs.ebx)
  BY <1>5, <1>6, PushedIs
<1>8. IsStack(s) /\ Len(s) = 6 /\ s[5] = regs.ebp /\ s[6] = regs.ebx
  BY <1>5, <1>7 DEF Grows
<1>9. /\ ustack' = [ustack EXCEPT ![cr3] = s]
      /\ regs' = [regs EXCEPT !.eax = Num(number("write")), !.ebp = At(5),
                    !.ebx = Arg(1), !.ecx = Arg(2), !.edx = Arg(3)]
      /\ pc' = "int80"
      /\ user' = [user EXCEPT ![cr3].ecx = Arg(2), ![cr3].edx = Arg(3)]
  <2>1. /\ ustack' = [ustack EXCEPT ![cr3] = Append(frame, regs.ebx)]
        /\ regs' = [regs EXCEPT !.eax = Num(number("write")), !.ebp = At(Len(frame)),
                      !.ebx = frame[Len(frame) - 2], !.ecx = frame[Len(frame) - 3],
                      !.edx = frame[Len(frame) - 4]]
        /\ pc' = "int80"
        /\ user' = [user EXCEPT ![cr3].ecx = Arg(2), ![cr3].edx = Arg(3)]
    BY <1>2, <1>4, Zenon DEF wrap_int80
  <2>2. /\ frame[Len(frame) - 2] = Arg(1) /\ frame[Len(frame) - 3] = Arg(2)
        /\ frame[Len(frame) - 4] = Arg(3)
    BY <1>5
  <2> QED
    BY <1>5, <1>6, <2>1, <2>2, Zenon
<1>10. /\ IsRegs(regs') /\ regs'.eax = Num(number("write")) /\ regs'.ebx = Arg(1)
       /\ regs'.ecx = Arg(2) /\ regs'.edx = Arg(3) /\ regs'.esi = regs.esi
       /\ regs'.edi = regs.edi
  BY <1>1, <1>9 DEF IsRegs, Reg
<1>11. PICK u : u = user'[cr3]
  OBVIOUS
<1>12. u = [regs EXCEPT !.ecx = Arg(2), !.edx = Arg(3)]
  BY <1>1, <1>9, <1>11 DEF EntryInv, Machine
<1>13. /\ IsRegs(u) /\ u.ecx = Arg(2) /\ u.edx = Arg(3) /\ u.ebx = regs.ebx
       /\ u.esi = regs.esi /\ u.edi = regs.edi /\ u.ebp = regs.ebp
  BY <1>1, <1>12 DEF IsRegs, Reg
<1>14. ByWrite(s, "write", u, regs')
  BY <1>8, <1>10, <1>13 DEF ByWrite, WriteStack
<1>15. /\ cr3' = cr3 /\ ustack'[cr3] = s /\ called'[cr3] = "write" /\ user'[cr3] = u
       /\ kstack'[cr3] = <<>> /\ errno'[cr3] = told'[cr3]
  BY <1>1, <1>2, <1>9, <1>11 DEF machineVars, EntryInv, Machine
<1>16. IsStack(<<>>)
  BY DEF IsStack
<1>17. Running'
  BY <1>8, <1>9, <1>13, <1>14, <1>15, <1>16 DEF Running, UserAt, UserLabels
<1> QED
  BY <1>3, <1>9, <1>10, <1>17, AloneInv DEF Labels, UserLabels

(* The stack h is the first n words of k.                                  *)
Part(h, k, n) == IsStack(h) /\ Len(h) = n /\ \A i \in 1 .. n : h[i] = k[i]

(* And so for what a pop leaves.                                           *)
LEMMA PoppedIs ==
  ASSUME NEW k, IsStack(k), NEW n \in Nat, Len(k) = n, NEW m \in 0 .. n,
         NEW h, h = pop(k, m)
  PROVE  Part(h, k, n - m)
<1>1. m \in 0 .. Len(k)
  OBVIOUS
<1>2. IsStack(pop(k, m)) /\ Len(pop(k, m)) = Len(k) - m
  BY <1>1, PopIs
<1>3. \A i \in 1 .. Len(k) - m : pop(k, m)[i] = k[i]
  BY <1>1, PopIs
<1> QED
  BY <1>2, <1>3 DEF Part

(* The end of a wrapper, when it has put the registers back.               *)
LEMMA BackInMain ==
  ASSUME EntryInv, wrap_return,
         LET u == user[cr3]
             w == called[cr3]
             r == regs.eax[2]
         IN  regs' = [regs EXCEPT !.ebx = u.ebx, !.edx = u.edx, !.ecx = u.ecx,
                        !.ebp = u.ebp, !.eax = IF failed(w, r) THEN Num(-1) ELSE @],
         Promised(cr3, regs.eax), called[cr3] # "raw",
         regs.esi = user[cr3].esi, regs.edi = user[cr3].edi
  PROVE  EntryInv'
<1>1. /\ cr3 \in Task /\ esp = cr3 /\ IsRegs(regs) /\ Running
      /\ pc \in {"return", "return_int80"}
  BY DEF EntryInv, Machine, wrap_return
<1>2. Alone
  BY <1>1 DEF wrap_return, machineVars, EntryInv, Machine, Alone, Untouched
<1>3. kstack[cr3] = <<>> /\ IsRegs(user[cr3])
  BY <1>1 DEF Running, UserLabels
<1>4. PICK w, r : w = called[cr3] /\ r = regs.eax[2]
  OBVIOUS
<1>5. errno'[cr3] = IF ~failed(w, r) THEN errno[cr3]
                    ELSE IF w = "sbrk" THEN ENOMEM ELSE -r
  BY <1>1, <1>4 DEF wrap_return, EntryInv, Machine
<1>6. /\ regs.eax = Num(r)
      /\ user[cr3].eax = (IF failed(w, r) THEN Num(-1) ELSE regs.eax)
      /\ told[cr3] = (IF ~failed(w, r) THEN errno[cr3]
                      ELSE IF w = "sbrk" THEN ENOMEM ELSE -r)
  BY <1>4, Zenon DEF Promised
<1>7. errno'[cr3] = told[cr3]
  BY <1>5, <1>6
<1>8. PICK u : u = user[cr3]
  OBVIOUS
<1>9. regs' = [regs EXCEPT !.ebx = u.ebx, !.edx = u.edx, !.ecx = u.ecx,
                           !.ebp = u.ebp, !.eax = u.eax]
  BY <1>4, <1>6, <1>8
<1>10. /\ IsRegs(regs') /\ regs'.eax = u.eax /\ regs'.ebx = u.ebx /\ regs'.ecx = u.ecx
       /\ regs'.edx = u.edx /\ regs'.esi = u.esi /\ regs'.edi = u.edi /\ regs'.ebp = u.ebp
  BY <1>1, <1>8, <1>9 DEF IsRegs, Reg
<1>11. /\ cr3' = cr3 /\ ustack'[cr3] = <<>> /\ user'[cr3] = u /\ kstack'[cr3] = <<>>
       /\ told'[cr3] = told[cr3] /\ pc' = "main"
  BY <1>1, <1>3, <1>8 DEF wrap_return, machineVars, programVars, EntryInv, Machine
<1>12. IsStack(<<>>)
  BY DEF IsStack
<1>13. Running'
  BY <1>3, <1>7, <1>8, <1>10, <1>11, <1>12 DEF Running, UserAt, UserLabels
<1> QED
  BY <1>2, <1>10, <1>11, <1>13, AloneInv DEF Labels, UserLabels

(* A wrapper finds every register where it has put it.                     *)
LEMMA WrapReturnInv == ASSUME EntryInv, wrap_return PROVE EntryInv'
<1>1. /\ cr3 \in Task /\ esp = cr3 /\ IsRegs(regs) /\ Running
      /\ pc \in {"return", "return_int80"}
  BY DEF EntryInv, Machine, wrap_return
<1>2. PICK w, u, s, r : w = called[cr3] /\ u = user[cr3] /\ s = ustack[cr3] /\ r = regs.eax[2]
  OBVIOUS
<1>3. IsStack(s) /\ UserAt(cr3, pc, regs)
  BY <1>1, <1>2 DEF Running, UserLabels
<1>4. CASE pc = "return"
  <2>1. /\ SysenterStack(s, w, u) /\ Promised(cr3, regs.eax)
        /\ regs.esi = u.esi /\ regs.edi = u.edi /\ (nargs(w) > 0 \/ regs.ebx = u.ebx)
    BY <1>2, <1>3, <1>4 DEF UserAt
  <2>2. PICK n, s0, s1, s2 :
          /\ n = (IF nargs(w) > 0 THEN 9 ELSE 8)
          /\ s0 = pop(s, 2) /\ s1 = (IF nargs(w) > 0 THEN pop(s0, 1) ELSE s0)
          /\ s2 = pop(s1, 2)
    OBVIOUS
  <2>3. /\ Len(s) = n /\ n \in Nat /\ 2 \in 0 .. n /\ w # "raw"
        /\ s[4] = u.ebp /\ s[5] = u.ecx /\ s[6] = u.edx /\ (nargs(w) > 0 => s[7] = u.ebx)
    <3>1. w # "raw"
      BY <2>1, EntryAssumption DEF SysenterStack
    <3> QED
      BY <2>1, <2>2, <3>1 DEF SysenterStack
  <2>4. Part(s0, s, n - 2)
    BY <1>3, <2>2, <2>3, PoppedIs
  <2>5. IsStack(s0) /\ Len(s0) = n - 2 /\ \A i \in 1 .. n - 2 : s0[i] = s[i]
    BY <2>4 DEF Part
  <2>6. /\ IsStack(s1) /\ Len(s1) = 6 /\ s1[4] = u.ebp /\ s1[5] = u.ecx /\ s1[6] = u.edx
        /\ (nargs(w) > 0 => s0[Len(s0)] = u.ebx)
    <3>1. CASE nargs(w) > 0
      <4>a. n = 9 /\ s1 = pop(s0, 1)
        BY <2>2, <3>1, Zenon
      <4>1. n = 9 /\ Len(s0) = 7 /\ 7 \in Nat /\ 1 \in 0 .. 7
        BY <2>5, <4>a
      <4>2. Part(s1, s0, 7 - 1)
        BY <2>5, <4>1, <4>a, PoppedIs
      <4>3. IsStack(s1) /\ Len(s1) = 6 /\ \A i \in 1 .. 6 : s1[i] = s0[i]
        BY <4>2 DEF Part
      <4> QED
        BY <2>3, <2>5, <3>1, <4>1, <4>3
    <3>2. CASE ~(nargs(w) > 0)
      <4>1. n = 8 /\ s1 = s0
        BY <2>2, <3>2
      <4> QED
        BY <2>3, <2>5, <3>2, <4>1
    <3> QED
      BY <3>1, <3>2
  <2>7. 6 \in Nat /\ 2 \in 0 .. 6
    OBVIOUS
  <2>8. Part(s2, s1, 6 - 2)
    BY <2>2, <2>6, <2>7, PoppedIs
  <2>9. Len(s2) = 4 /\ s2[4] = u.ebp
    BY <2>6, <2>8 DEF Part
  <2>10. regs' = [regs EXCEPT
                    !.ebx = IF nargs(w) > 0 THEN top(s0) ELSE @, !.edx = top(s1),
                    !.ecx = s1[Len(s1) - 1], !.ebp = top(s2),
                    !.eax = IF failed(w, r) THEN Num(-1) ELSE @]
    BY <1>2, <1>4, <2>2, Zenon DEF wrap_return
  <2>11. /\ (IF nargs(w) > 0 THEN top(s0) ELSE regs.ebx) = u.ebx /\ top(s1) = u.edx
         /\ s1[Len(s1) - 1] = u.ecx /\ top(s2) = u.ebp
    BY <2>1, <2>6, <2>9 DEF top
  <2>12. regs' = [regs EXCEPT !.ebx = u.ebx, !.edx = u.edx, !.ecx = u.ecx,
                    !.ebp = u.ebp, !.eax = IF failed(w, r) THEN Num(-1) ELSE @]
    BY <2>10, <2>11, Zenon
  <2> QED
    BY <1>2, <2>1, <2>3, <2>12, BackInMain
<1>5. CASE pc = "return_int80"
  <2>1. /\ WriteStack(s, w, u) /\ Promised(cr3, regs.eax)
        /\ regs.ecx = u.ecx /\ regs.edx = u.edx /\ regs.esi = u.esi /\ regs.edi = u.edi
    BY <1>2, <1>3, <1>5 DEF UserAt
  <2>2. /\ w = "write" /\ nargs(w) > 0 /\ Len(s) = 6 /\ s[5] = u.ebp /\ s[6] = u.ebx
        /\ 6 \in Nat /\ 1 \in 0 .. 6
    BY <2>1 DEF WriteStack, nargs
  <2>3. PICK s1 : s1 = pop(s, 1)
    OBVIOUS
  <2>4. Part(s1, s, 6 - 1)
    BY <1>3, <2>2, <2>3, PoppedIs
  <2>5. Len(s1) = 5 /\ s1[5] = u.ebp
    BY <2>2, <2>4 DEF Part
  <2>6. regs' = [regs EXCEPT !.ebx = top(s), !.edx = @, !.ecx = @, !.ebp = top(s1),
                    !.eax = IF failed(w, r) THEN Num(-1) ELSE @]
    <3>1. pc # "return"
      BY <1>5
    <3> QED
      BY <1>2, <2>2, <2>3, <3>1, Zenon DEF wrap_return
  <2>7. top(s) = u.ebx /\ top(s1) = u.ebp
    BY <2>2, <2>5 DEF top
  <2>8. regs' = [regs EXCEPT !.ebx = u.ebx, !.edx = u.edx, !.ecx = u.ecx,
                    !.ebp = u.ebp, !.eax = IF failed(w, r) THEN Num(-1) ELSE @]
    BY <2>1, <2>6, <2>7, Zenon
  <2> QED
    BY <1>2, <2>1, <2>2, <2>8, BackInMain
<1> QED
  BY <1>1, <1>4, <1>5

-----------------------------------------------------------------------------
(* On the way into the kernel.                                             *)

Saved(r) == [eax |-> r.eax, ebp |-> r.ebp, edi |-> r.edi, esi |-> r.esi,
             edx |-> r.edx, ecx |-> r.ecx, ebx |-> r.ebx]

(* The stack k is what the processor and SAVE_ALL push, and no more.       *)
Entered(k, a, l, r) ==
  IsStack(k) /\ Len(k) = 16 /\ k[2] = a /\ k[5] = l /\ slots(k) = Saved(r)

(* The 5 words of the processor and the 11 of SAVE_ALL.                    *)
LEMMA EntryStackIs ==
  ASSUME NEW a, NEW l, NEW r, NEW k, k = <<Sel, a, Sel, Sel, l>> \o SAVE_ALL(r)
  PROVE  Entered(k, a, l, r)
<1>1. PICK f, g : f = <<Sel, a, Sel, Sel, l>> /\ g = SAVE_ALL(r)
  OBVIOUS
<1>2. IsStack(f) /\ Len(f) = 5 /\ f[2] = a /\ f[5] = l
  BY <1>1 DEF IsStack
<1>3. /\ IsStack(g) /\ Len(g) = 11
      /\ g[5] = r.eax /\ g[6] = r.ebp /\ g[7] = r.edi /\ g[8] = r.esi
      /\ g[9] = r.edx /\ g[10] = r.ecx /\ g[11] = r.ebx
  BY <1>1 DEF IsStack, SAVE_ALL
<1>4. Extends(k, f, g)
  BY <1>1, <1>2, <1>3, JoinedIs
<1>5. /\ IsStack(k) /\ Len(k) = 16 /\ \A i \in 1 .. 5 : k[i] = f[i]
      /\ \A i \in 1 .. 11 : k[5 + i] = g[i]
  BY <1>2, <1>3, <1>4 DEF Extends
<1>6. /\ k[10] = g[5] /\ k[11] = g[6] /\ k[12] = g[7] /\ k[13] = g[8]
      /\ k[14] = g[9] /\ k[15] = g[10] /\ k[16] = g[11] /\ k[2] = a /\ k[5] = l
  BY <1>2, <1>5
<1>7. slots(k) = Saved(r)
  BY <1>3, <1>6 DEF slots, Saved
<1> QED
  BY <1>5, <1>6, <1>7 DEF Entered

(* The first 16 words of two stacks are the same, as far as they matter.   *)
SameBase(h, k) == h[2] = k[2] /\ h[5] = k[5] /\ slots(h) = slots(k)

(* The first 16 words decide.                                              *)
LEMMA BaseKept ==
  ASSUME NEW h, NEW k, \A i \in 1 .. 16 : h[i] = k[i]
  PROVE  SameBase(h, k)
<1>1. /\ h[10] = k[10] /\ h[11] = k[11] /\ h[12] = k[12] /\ h[13] = k[13]
      /\ h[14] = k[14] /\ h[15] = k[15] /\ h[16] = k[16] /\ h[2] = k[2] /\ h[5] = k[5]
  OBVIOUS
<1> QED
  BY <1>1 DEF SameBase, slots

(* They are all that the end of a system call needs,                       *)
LEMMA InKernelBase ==
  ASSUME NEW t, NEW h, NEW k, SameBase(h, k), NEW fin, InKernel(t, k, fin)
  PROVE  InKernel(t, h, fin)
BY Zenon DEF SameBase, InKernel

(* and the end of an interrupt.                                            *)
LEMMA InterruptedBase ==
  ASSUME NEW t, NEW h, NEW k, SameBase(h, k), Interrupted(t, k)
  PROVE  Interrupted(t, h)
BY Zenon DEF SameBase, Interrupted

(* What was saved is what was in the registers.                            *)
LEMMA SavedIs ==
  ASSUME NEW r
  PROVE  /\ Saved(r).eax = r.eax /\ Saved(r).ebx = r.ebx /\ Saved(r).ecx = r.ecx
         /\ Saved(r).edx = r.edx /\ Saved(r).esi = r.esi /\ Saved(r).edi = r.edi
         /\ Saved(r).ebp = r.ebp
BY DEF Saved

(* The address of a return, pushed on the stack of the entry.              *)
Called(h, k, l) == IsStack(h) /\ Len(h) = 17 /\ h[17] = Label(l) /\ SameBase(h, k)

Under(h, k) == IsStack(h) /\ Len(h) = 17 /\ \A i \in 1 .. 16 : h[i] = k[i]

(* A stack of one more word has the same entry under it.                   *)
LEMMA UnderCalled ==
  ASSUME NEW h, NEW k, Under(h, k), NEW l, h[17] = Label(l)
  PROVE  Called(h, k, l)
<1>1. \A i \in 1 .. 16 : h[i] = k[i]
  BY DEF Under
<1>2. SameBase(h, k)
  BY <1>1, BaseKept
<1> QED
  BY <1>2 DEF Called, Under

(* A call leaves the words under it alone.                                 *)
LEMMA CalledIs ==
  ASSUME NEW k, IsStack(k), Len(k) = 16, NEW l, NEW h, h = k \o <<Label(l)>>
  PROVE  Called(h, k, l)
<1>1. PICK g : g = <<Label(l)>>
  OBVIOUS
<1>2. IsStack(g) /\ Len(g) = 1 /\ g[1] = Label(l) /\ h = k \o g
  BY <1>1 DEF IsStack
<1>3. Extends(h, k, g)
  BY <1>2, JoinedIs
<1>4. Under(h, k) /\ h[17] = Label(l)
  BY <1>2, <1>3 DEF Extends, Under
<1> QED
  BY <1>4, UnderCalled

(* In a system call the number is looked up in the table.                  *)
LEMMA DispatchInv ==
  ASSUME EntryInv, NEW fin, NEW l,
         dispatch(<<Sel, At(Len(ustack[cr3])), Sel, Sel, l>>, fin),
         esp' = cr3, errno[cr3] = told[cr3],
         UNCHANGED <<ustack, errno, ready, cr3, tss_esp0, msr_esp, kernel_esp, called, told>>,
         LET s == ustack[cr3]
             w == called[cr3]
             u == user[cr3]
         IN  \/ fin = "sysenter_fin" /\ l = Label("return") /\ BySysenter(s, w, u, regs)
             \/ fin = "fin" /\ l = Label("return_int80") /\ ByWrite(s, w, u, regs)
             \/ fin = "fin" /\ l = Label("main") /\ ByRaw(s, w, u, regs),
         pc \in UserLabels
  PROVE  EntryInv'
<1>1. /\ cr3 \in Task /\ esp = cr3 /\ IsRegs(regs) /\ Running
      /\ IsStack(ustack[cr3]) /\ IsRegs(user[cr3])
  BY DEF EntryInv, Machine, Running, UserLabels
<1>2. PICK a, k : /\ a = At(Len(ustack[cr3]))
                  /\ k = <<Sel, a, Sel, Sel, l>> \o SAVE_ALL(regs)
  OBVIOUS
<1>3. Entered(k, a, l, regs)
  BY <1>2, EntryStackIs
<1>4. InKernel(cr3, k, fin)
  <2>1. PICK s, w, u : s = ustack[cr3] /\ w = called[cr3] /\ u = user[cr3]
    OBVIOUS
  <2>2. PICK r : r = slots(k)
    OBVIOUS
  <2>3. /\ r.eax = regs.eax /\ r.ebx = regs.ebx /\ r.ecx = regs.ecx /\ r.edx = regs.edx
        /\ r.esi = regs.esi /\ r.edi = regs.edi /\ r.ebp = regs.ebp
    BY <1>3, <2>2, SavedIs DEF Entered
  <2>4. BySysenter(s, w, u, regs) => BySysenter(s, w, u, r)
    BY <2>3 DEF BySysenter
  <2>5. ByWrite(s, w, u, regs) => ByWrite(s, w, u, r)
    BY <2>3 DEF ByWrite
  <2>6. ByRaw(s, w, u, regs) => ByRaw(s, w, u, r)
    BY <2>3 DEF ByRaw
  <2>7. k[2] = At(Len(s)) /\ k[5] = l
    BY <1>2, <1>3, <2>1 DEF Entered
  <2> QED
    BY <2>1, <2>2, <2>4, <2>5, <2>6, <2>7, Zenon DEF InKernel
<1>5. PICK n : n = regs.eax[2]
  OBVIOUS
<1>6. CASE n \notin 0 .. MAX_SYSCALL
  <2>1. /\ kstack' = [kstack EXCEPT ![cr3] = k]
        /\ regs' = [regs EXCEPT !.eax = Num(-ENOSYS), !.edx = Sel]
        /\ pc' = fin
        /\ user' = [user EXCEPT ![cr3].eax = Num(-ENOSYS)]
    BY <1>2, <1>5, <1>6, Zenon DEF dispatch
  <2>2. fin = "fin" /\ l = Label("main") /\ ByRaw(ustack[cr3], called[cr3], user[cr3], regs)
    <3>1. ASSUME NEW w \in CALLS, regs.eax = Num(number(w))
          PROVE  FALSE
      <4>1. number(w) \in Nat
        BY EntryAssumption DEF number
      <4>2. n = number(w)
        BY <1>5, <3>1 DEF Num
      <4> QED
        BY <1>6, <4>1, <4>2, NumberAssumption, EntryAssumption
    <3>2. /\ ~BySysenter(ustack[cr3], called[cr3], user[cr3], regs)
          /\ ~ByWrite(ustack[cr3], called[cr3], user[cr3], regs)
      BY <3>1 DEF BySysenter, ByWrite, SysenterStack, WriteStack
    <3> QED
      BY <3>2
  <2>3. Alone
    BY <1>1, <2>1 DEF EntryInv, Machine, Alone, Untouched
  <2>4. PICK v : v = Num(-ENOSYS)
    OBVIOUS
  <2>5. PICK u : u = user'[cr3]
    OBVIOUS
  <2>6. u = [user[cr3] EXCEPT !.eax = v]
    BY <1>1, <2>1, <2>4, <2>5 DEF EntryInv, Machine
  <2>7. /\ IsRegs(u) /\ u.eax = v /\ u.ebx = user[cr3].ebx /\ u.ecx = user[cr3].ecx
        /\ u.edx = user[cr3].edx /\ u.esi = user[cr3].esi /\ u.edi = user[cr3].edi
        /\ u.ebp = user[cr3].ebp
    BY <1>1, <2>6 DEF IsRegs, Reg
  <2>8. IsRegs(regs') /\ regs'.eax = v
    BY <1>1, <2>1, <2>4 DEF IsRegs, Reg
  <2>9. ByRaw(ustack[cr3], called[cr3], u, slots(k)) /\ k[2] = At(Len(ustack[cr3]))
        /\ k[5] = Label("main")
    <3>1. ByRaw(ustack[cr3], called[cr3], user[cr3], slots(k))
      <4>1. PICK r : r = slots(k)
        OBVIOUS
      <4>2. /\ r.eax = regs.eax /\ r.ebx = regs.ebx /\ r.ecx = regs.ecx /\ r.edx = regs.edx
            /\ r.esi = regs.esi /\ r.edi = regs.edi /\ r.ebp = regs.ebp
        BY <1>3, <4>1, SavedIs DEF Entered
      <4> QED
        BY <2>2, <4>1, <4>2 DEF ByRaw
    <3>2. ByRaw(ustack[cr3], called[cr3], u, slots(k))
      BY <2>7, <3>1 DEF ByRaw
    <3> QED
      BY <1>2, <1>3, <2>2, <3>2 DEF Entered
  <2>10. called[cr3] = "raw" /\ v[2] = -ENOSYS
    BY <2>2, <2>4 DEF ByRaw, Num
  <2>11. /\ cr3' = cr3 /\ ustack'[cr3] = ustack[cr3] /\ called'[cr3] = called[cr3]
         /\ user'[cr3] = u /\ kstack'[cr3] = k /\ errno'[cr3] = told'[cr3] /\ pc' = "fin"
    BY <1>1, <2>1, <2>2, <2>5 DEF EntryInv, Machine
  <2>12. InKernel(cr3, k, "fin")'
    <3>1. k' = k
      OBVIOUS
    <3> QED
      BY <2>9, <2>11, Zenon DEF InKernel
  <2>13. Promised(cr3, regs.eax)'
    BY <2>4, <2>7, <2>8, <2>10, <2>11 DEF Promised
  <2>14. Running'
    BY <1>1, <1>3, <2>7, <2>11, <2>12, <2>13 DEF Running, UserLabels, Entered
  <2> QED
    BY <2>3, <2>8, <2>11, <2>14, AloneInv DEF Labels
<1>7. CASE n \in 0 .. MAX_SYSCALL
  <2>0. PICK h : h = k \o <<Label(fin)>>
    OBVIOUS
  <2>1. /\ kstack' = [kstack EXCEPT ![cr3] = h]
        /\ regs' = [regs EXCEPT !.ecx = Junk, !.edx = Junk]
        /\ pc' = "routine" /\ UNCHANGED user
    BY <1>2, <1>5, <1>7, <2>0, Zenon DEF dispatch
  <2>2. Called(h, k, fin)
    BY <1>3, <2>0, CalledIs DEF Entered
  <2>3. InKernel(cr3, h, fin)
    BY <1>4, <2>2, InKernelBase DEF Called
  <2>4. Alone
    BY <1>1, <2>1 DEF EntryInv, Machine, Alone, Untouched
  <2>5. IsRegs(regs')
    BY <1>1, <2>1 DEF IsRegs, Reg
  <2>6. /\ cr3' = cr3 /\ ustack'[cr3] = ustack[cr3] /\ called'[cr3] = called[cr3]
        /\ user'[cr3] = user[cr3] /\ kstack'[cr3] = h /\ errno'[cr3] = told'[cr3]
    BY <1>1, <2>1 DEF EntryInv, Machine
  <2>7. InKernel(cr3, kstack[cr3], fin)' /\ fin \in {"sysenter_fin", "fin"}
    BY <2>3, <2>6 DEF InKernel
  <2>8. Running'
    BY <1>1, <2>1, <2>2, <2>6, <2>7 DEF Running, UserLabels, Called
  <2> QED
    BY <2>1, <2>4, <2>5, <2>8, AloneInv DEF Labels
<1> QED
  BY <1>6, <1>7

(* int 0x80 takes the stack that the TSS has, and pushes the way back.     *)
LEMMA SystemCallInv == ASSUME EntryInv, system_call_handler PROVE EntryInv'
<1>1. /\ pc = "int80" /\ cr3 \in Task /\ esp' = cr3 /\ UserAt(cr3, "int80", regs)
      /\ UNCHANGED <<ustack, errno, ready, cr3, tss_esp0, msr_esp, kernel_esp, called, told>>
  BY DEF system_call_handler, EntryInv, Machine, Running, UserLabels
<1>2. PICK s, w, u : s = ustack[cr3] /\ w = called[cr3] /\ u = user[cr3]
  OBVIOUS
<1>3. (ByWrite(s, w, u, regs) \/ ByRaw(s, w, u, regs)) /\ errno[cr3] = told[cr3]
  BY <1>1, <1>2 DEF UserAt
<1>4. PICK l : l = Label(IF called[cr3] = "raw" THEN "main" ELSE "return_int80")
  OBVIOUS
<1>5. dispatch(<<Sel, At(Len(ustack[cr3])), Sel, Sel, l>>, "fin")
  BY <1>4, Zenon DEF system_call_handler, hardware_frame
<1>6. \/ l = Label("return_int80") /\ ByWrite(s, w, u, regs)
      \/ l = Label("main") /\ ByRaw(s, w, u, regs)
  BY <1>2, <1>3, <1>4 DEF ByWrite, WriteStack, ByRaw
<1>7. pc \in UserLabels
  BY <1>1 DEF UserLabels
<1>8. LET S == ustack[cr3]
          W == called[cr3]
          U == user[cr3]
      IN  \/ "fin" = "sysenter_fin" /\ l = Label("return") /\ BySysenter(S, W, U, regs)
          \/ "fin" = "fin" /\ l = Label("return_int80") /\ ByWrite(S, W, U, regs)
          \/ "fin" = "fin" /\ l = Label("main") /\ ByRaw(S, W, U, regs)
  BY <1>2, <1>6
<1> QED
  BY <1>1, <1>3, <1>5, <1>7, <1>8, DispatchInv

(* sysenter pushes nothing: the handler finds the way back in the stack of *)
(* the user, by ebp.                                                       *)
LEMMA SysenterInv == ASSUME EntryInv, syscall_handler_sysenter PROVE EntryInv'
<1>1. /\ pc = "sysenter" /\ cr3 \in Task /\ esp' = cr3 /\ UserAt(cr3, "sysenter", regs)
      /\ UNCHANGED <<ustack, errno, ready, cr3, tss_esp0, msr_esp, kernel_esp, called, told>>
  BY DEF syscall_handler_sysenter, EntryInv, Machine, Running, UserLabels
<1>2. PICK s, w, u : s = ustack[cr3] /\ w = called[cr3] /\ u = user[cr3]
  OBVIOUS
<1>3. BySysenter(s, w, u, regs) /\ errno[cr3] = told[cr3]
  BY <1>1, <1>2 DEF UserAt
<1>4. PICK n \in Nat : Len(s) = n /\ s[n - 1] = Label("return") /\ regs.ebp = At(n)
  BY <1>3 DEF BySysenter, SysenterStack
<1>5. regs.ebp[2] - 1 = n - 1
  BY <1>4 DEF At
<1>6. ustack[cr3][regs.ebp[2] - 1] = Label("return") /\ regs.ebp = At(Len(ustack[cr3]))
  BY <1>2, <1>4, <1>5
<1>7. PICK l : l = Label("return")
  OBVIOUS
<1>8. dispatch(<<Sel, At(Len(ustack[cr3])), Sel, Sel, l>>, "sysenter_fin")
  BY <1>6, <1>7, Zenon DEF syscall_handler_sysenter
<1>9. pc \in UserLabels
  BY <1>1 DEF UserLabels
<1>10. LET S == ustack[cr3]
           W == called[cr3]
           U == user[cr3]
       IN  \/ /\ "sysenter_fin" = "sysenter_fin" /\ l = Label("return")
              /\ BySysenter(S, W, U, regs)
           \/ "sysenter_fin" = "fin" /\ l = Label("return_int80") /\ ByWrite(S, W, U, regs)
           \/ "sysenter_fin" = "fin" /\ l = Label("main") /\ ByRaw(S, W, U, regs)
  BY <1>2, <1>3, <1>7
<1> QED
  BY <1>1, <1>3, <1>8, <1>9, <1>10, DispatchInv

(* What is true of the registers is true of what was saved of them.        *)
LEMMA UserAtSaved ==
  ASSUME NEW t, NEW l, NEW u, UserAt(t, l, u), NEW r, r = Saved(u)
  PROVE  UserAt(t, l, r)
<1>1. /\ r.eax = u.eax /\ r.ebx = u.ebx /\ r.ecx = u.ecx /\ r.edx = u.edx
      /\ r.esi = u.esi /\ r.edi = u.edi /\ r.ebp = u.ebp
  BY SavedIs
<1>2. \A s, w, v : BySysenter(s, w, v, u) => BySysenter(s, w, v, r)
  BY <1>1 DEF BySysenter
<1>3. \A s, w, v : ByWrite(s, w, v, u) => ByWrite(s, w, v, r)
  BY <1>1 DEF ByWrite
<1>4. \A s, w, v : ByRaw(s, w, v, u) => ByRaw(s, w, v, r)
  BY <1>1 DEF ByRaw
<1> QED
  BY <1>1, <1>2, <1>3, <1>4, Zenon DEF UserAt

(* An interrupt finds the program, or its library, anywhere.               *)
LEMMA InterruptInv ==
  ASSUME EntryInv, NEW routine \in {"keyboard_routine", "clock_routine"}, interrupt(routine)
  PROVE  EntryInv'
<1>1. /\ pc \in UserLabels /\ cr3 \in Task /\ esp' = cr3 /\ esp = cr3 /\ UserAt(cr3, pc, regs)
      /\ IsRegs(regs) /\ IsStack(ustack[cr3]) /\ IsRegs(user[cr3])
  BY DEF interrupt, InUser, EntryInv, Machine, Running, UserLabels
<1>2. PICK a, l, k, h : /\ a = At(Len(ustack[cr3])) /\ l = Label(pc)
                        /\ k = <<Sel, a, Sel, Sel, l>> \o SAVE_ALL(regs)
                        /\ h = k \o <<Label("irq_fin")>>
  OBVIOUS
<1>3. Entered(k, a, l, regs)
  BY <1>2, EntryStackIs
<1>4. UserAt(cr3, pc, slots(k))
  BY <1>1, <1>3, UserAtSaved DEF Entered
<1>5. Interrupted(cr3, k)
  BY <1>1, <1>2, <1>3, <1>4 DEF Interrupted, Entered
<1>6. Called(h, k, "irq_fin")
  BY <1>2, <1>3, CalledIs DEF Entered
<1>7. Interrupted(cr3, h)
  BY <1>5, <1>6, InterruptedBase DEF Called
<1>8. kstack' = [kstack EXCEPT ![cr3] = h]
  BY <1>1, <1>2, Zenon DEF interrupt, hardware_frame
<1>9. /\ pc' = routine /\ regs' = [regs EXCEPT !.eax = Junk, !.ecx = Junk, !.edx = Junk]
      /\ UNCHANGED <<ustack, errno, ready, cr3, tss_esp0, msr_esp, kernel_esp, programVars>>
  BY DEF interrupt
<1>10. Alone
  BY <1>1, <1>8, <1>9 DEF EntryInv, Machine, Alone, Untouched, programVars
<1>11. IsRegs(regs')
  BY <1>1, <1>9 DEF IsRegs, Reg
<1>12. /\ cr3' = cr3 /\ ustack'[cr3] = ustack[cr3] /\ called'[cr3] = called[cr3]
       /\ user'[cr3] = user[cr3] /\ kstack'[cr3] = h /\ errno'[cr3] = errno[cr3]
       /\ told'[cr3] = told[cr3]
  BY <1>1, <1>8, <1>9 DEF EntryInv, Machine, programVars
<1>13. Interrupted(cr3, kstack[cr3])'
  BY <1>7, <1>12, Zenon DEF Interrupted, UserAt, Promised
<1>14. Len(h) = 17 /\ IsStack(h) /\ h[17] = Label("irq_fin")
  BY <1>6 DEF Called
<1>15. Preempted(cr3, kstack[cr3], 17)'
  BY <1>12, <1>13, <1>14 DEF Preempted
<1>16. Running'
  BY <1>1, <1>9, <1>12, <1>14, <1>15 DEF Running, UserLabels
<1> QED
  BY <1>9, <1>10, <1>11, <1>16, AloneInv DEF Labels

-----------------------------------------------------------------------------
(* In the kernel.                                                          *)

(* A call goes on, in the same process or in its child, whatever eax is to *)
(* be after it.                                                            *)
LEMMA InKernelMoves ==
  ASSUME NEW p, NEW t, NEW k, NEW fin, InKernel(p, k, fin),
         ustack'[t] = ustack[p], called'[t] = called[p],
         user'[t].ebx = user[p].ebx, user'[t].ecx = user[p].ecx,
         user'[t].edx = user[p].edx, user'[t].esi = user[p].esi,
         user'[t].edi = user[p].edi, user'[t].ebp = user[p].ebp
  PROVE  InKernel(t, k, fin)'
<1>1. PICK u, v : u = user[p] /\ v = user'[t]
  OBVIOUS
<1>2. /\ v.ebx = u.ebx /\ v.ecx = u.ecx /\ v.edx = u.edx /\ v.esi = u.esi
      /\ v.edi = u.edi /\ v.ebp = u.ebp
  BY <1>1
<1>3. \A s, w, r : BySysenter(s, w, u, r) => BySysenter(s, w, v, r)
  BY <1>2 DEF BySysenter, SysenterStack
<1>4. \A s, w, r : ByWrite(s, w, u, r) => ByWrite(s, w, v, r)
  BY <1>2 DEF ByWrite, WriteStack
<1>5. \A s, w, r : ByRaw(s, w, u, r) => ByRaw(s, w, v, r)
  BY <1>2 DEF ByRaw
<1> QED
  BY <1>1, <1>3, <1>4, <1>5, Zenon DEF InKernel

(* The address of a return taken from the stack.                           *)
LEMMA ReturnedIs ==
  ASSUME NEW k, IsStack(k), Len(k) = 17, NEW h, h = pop(k, 1)
  PROVE  IsStack(h) /\ Len(h) = 16 /\ SameBase(h, k) /\ top(k) = k[17]
<1>1. 17 \in Nat /\ 1 \in 0 .. 17
  OBVIOUS
<1>2. Part(h, k, 17 - 1)
  BY <1>1, PoppedIs
<1>3. IsStack(h) /\ Len(h) = 16 /\ \A i \in 1 .. 16 : h[i] = k[i]
  BY <1>2 DEF Part
<1> QED
  BY <1>3, BaseKept DEF top

(* A system call has its result: Promised says what for.                   *)
LEMMA ResultInv ==
  ASSUME EntryInv, NEW r \in Int, sys_result(r)
  PROVE  EntryInv'
<1>1. /\ cr3 \in Task /\ esp = cr3 /\ IsRegs(regs) /\ IsStack(ustack[cr3])
      /\ IsRegs(user[cr3]) /\ pc = "routine"
      /\ IsStack(kstack[cr3]) /\ Len(kstack[cr3]) = 17 /\ errno[cr3] = told[cr3]
  BY DEF sys_result, EntryInv, Machine, Running
<1>2. PICK fin \in {"sysenter_fin", "fin"} :
        kstack[cr3][17] = Label(fin) /\ InKernel(cr3, kstack[cr3], fin)
  BY <1>1 DEF EntryInv, Machine, Running
<1>3. PICK k, h : k = kstack[cr3] /\ h = pop(k, 1)
  OBVIOUS
<1>4. /\ IsStack(h) /\ Len(h) = 16 /\ SameBase(h, k) /\ top(k) = k[17]
  BY <1>1, <1>3, ReturnedIs
<1>5. /\ regs' = [regs EXCEPT !.eax = Num(r), !.ecx = Junk, !.edx = Junk]
      /\ pc' = target(top(k)) /\ kstack' = [kstack EXCEPT ![cr3] = h]
      /\ UNCHANGED <<ustack, errno, ready, machineVars, called>>
  BY <1>1, <1>3 DEF sys_result, return_with, drop_return
<1>6. pc' = fin
  BY <1>2, <1>3, <1>4, <1>5, Targets
<1>7. PICK w, bad : /\ w = called[cr3]
                    /\ bad = (w # "raw" /\ (IF w = "sbrk" THEN r = -1 ELSE r < 0))
  OBVIOUS
<1>8. /\ user' = [user EXCEPT ![cr3].eax = Num(IF bad THEN -1 ELSE r)]
      /\ told' = [told EXCEPT ![cr3] =
                    IF ~bad THEN @ ELSE IF w = "sbrk" THEN ENOMEM ELSE -r]
  BY <1>7, Zenon DEF sys_result, promise
<1>9. Alone
  BY <1>1, <1>5, <1>8 DEF machineVars, EntryInv, Machine, Alone, Untouched
<1>10. PICK v, u : v = Num(r) /\ u = user'[cr3]
  OBVIOUS
<1>11. IsRegs(regs') /\ regs'.eax = v
  BY <1>1, <1>5, <1>10 DEF IsRegs, Reg
<1>12. u = [user[cr3] EXCEPT !.eax = Num(IF bad THEN -1 ELSE r)]
  BY <1>1, <1>8, <1>10 DEF EntryInv, Machine
<1>13. /\ IsRegs(u) /\ u.eax = Num(IF bad THEN -1 ELSE r)
       /\ u.ebx = user[cr3].ebx /\ u.ecx = user[cr3].ecx /\ u.edx = user[cr3].edx
       /\ u.esi = user[cr3].esi /\ u.edi = user[cr3].edi /\ u.ebp = user[cr3].ebp
  BY <1>1, <1>12 DEF IsRegs, Reg
<1>14. /\ cr3' = cr3 /\ ustack'[cr3] = ustack[cr3] /\ called'[cr3] = w /\ kstack'[cr3] = h
       /\ errno'[cr3] = errno[cr3]
       /\ told'[cr3] = IF ~bad THEN told[cr3] ELSE IF w = "sbrk" THEN ENOMEM ELSE -r
  BY <1>1, <1>5, <1>7, <1>8 DEF machineVars, EntryInv, Machine
<1>15. InKernel(cr3, h, fin)
  BY <1>2, <1>3, <1>4, InKernelBase
<1>16. InKernel(cr3, h, fin)'
  BY <1>5, <1>7, <1>10, <1>13, <1>14, <1>15, InKernelMoves
<1>17. InKernel(cr3, kstack[cr3], fin)'
  BY <1>14, <1>16 DEF InKernel
<1>18. Promised(cr3, v)'
  <2>1. v[2] = r /\ v = Num(v[2])
    BY <1>10 DEF Num
  <2>2. bad <=> w # "raw" /\ failed(w, v[2])
    BY <1>7, <2>1 DEF failed
  <2>3. user'[cr3].eax = (IF bad THEN Num(-1) ELSE v)
    BY <1>10, <1>13
  <2>4. told'[cr3] = (IF ~bad THEN errno'[cr3] ELSE IF w = "sbrk" THEN ENOMEM ELSE -v[2])
    BY <1>1, <1>14, <2>1
  <2> QED
    BY <1>14, <2>1, <2>2, <2>3, <2>4 DEF Promised
<1>19. Promised(cr3, regs.eax)'
  BY <1>11, <1>18 DEF Promised
<1>20. Running'
  BY <1>1, <1>2, <1>4, <1>6, <1>10, <1>13, <1>14, <1>17, <1>19 DEF Running, UserLabels
<1> QED
  BY <1>2, <1>6, <1>9, <1>11, <1>20, AloneInv DEF Labels

(* An interrupt is over, and what it interrupted is still there.           *)
LEMMA IrqReturnInv == ASSUME EntryInv, irq_return PROVE EntryInv'
<1>1. /\ cr3 \in Task /\ esp = cr3 /\ IsRegs(regs) /\ IsStack(ustack[cr3])
      /\ IsRegs(user[cr3]) /\ pc \in {"keyboard_routine", "clock_routine"}
      /\ IsStack(kstack[cr3]) /\ Len(kstack[cr3]) = 17 /\ Preempted(cr3, kstack[cr3], 17)
  BY DEF irq_return, EntryInv, Machine, Running
<1>2. PICK k, h : k = kstack[cr3] /\ h = pop(k, 1)
  OBVIOUS
<1>3. IsStack(h) /\ Len(h) = 16 /\ SameBase(h, k) /\ top(k) = Label("irq_fin")
  BY <1>1, <1>2, ReturnedIs DEF Preempted
<1>4. /\ regs' = [regs EXCEPT !.eax = Junk, !.ecx = Junk, !.edx = Junk]
      /\ pc' = target(top(k)) /\ kstack' = [kstack EXCEPT ![cr3] = h]
      /\ UNCHANGED <<ustack, errno, ready, machineVars, programVars>>
  BY <1>1, <1>2 DEF irq_return, return_with, drop_return
<1>5. pc' = "irq_fin"
  BY <1>3, <1>4, Targets
<1>6. Alone
  BY <1>1, <1>4 DEF machineVars, programVars, EntryInv, Machine, Alone, Untouched
<1>7. IsRegs(regs')
  BY <1>1, <1>4 DEF IsRegs, Reg
<1>8. /\ cr3' = cr3 /\ ustack'[cr3] = ustack[cr3] /\ called'[cr3] = called[cr3]
      /\ user'[cr3] = user[cr3] /\ kstack'[cr3] = h /\ errno'[cr3] = errno[cr3]
      /\ told'[cr3] = told[cr3]
  BY <1>1, <1>4 DEF machineVars, programVars, EntryInv, Machine
<1>9. Interrupted(cr3, h)
  BY <1>1, <1>2, <1>3, InterruptedBase DEF Preempted
<1>10. Interrupted(cr3, kstack[cr3])'
  BY <1>8, <1>9, Zenon DEF Interrupted, UserAt, Promised
<1>11. Running'
  BY <1>1, <1>3, <1>5, <1>8, <1>10 DEF Running, UserLabels
<1> QED
  BY <1>5, <1>6, <1>7, <1>11, AloneInv DEF Labels

(* The stack of the child is that of its parent up to the address of the   *)
(* return; what leads to it is on top.                                     *)
LEMMA ChildStack ==
  ASSUME NEW k, IsStack(k), Len(k) = 17, NEW h, h = child_stack(k)
  PROVE  /\ IsStack(h) /\ Len(h) = 19 /\ SameBase(h, k)
         /\ h[17] = k[17] /\ h[18] = Label("ret_from_fork")
<1>1. PICK f, g : f = SubSeq(k, 1, 17) /\ g = <<Label("ret_from_fork"), Num(0)>>
  OBVIOUS
<1>2. 17 \in 0 .. Len(k)
  OBVIOUS
<1>3. IsStack(f) /\ Len(f) = 17
  BY <1>1, <1>2, Popped
<1>4. \A i \in 1 .. 17 : f[i] = k[i]
  BY <1>1, <1>2, Popped
<1>5. IsStack(g) /\ Len(g) = 2 /\ g[1] = Label("ret_from_fork")
  BY <1>1 DEF IsStack
<1>6. h = f \o g
  BY <1>1 DEF child_stack
<1>7. Extends(h, f, g)
  BY <1>3, <1>5, <1>6, JoinedIs
<1>8. IsStack(h) /\ Len(h) = 19 /\ h[18] = g[1] /\ \A i \in 1 .. 17 : h[i] = k[i]
  BY <1>3, <1>4, <1>5, <1>7 DEF Extends
<1>9. \A i \in 1 .. 16 : h[i] = k[i]
  BY <1>8
<1> QED
  BY <1>5, <1>8, <1>9, BaseKept

(* The child waits with a copy of all that its parent has, and with 0.     *)
LEMMA ForkInv == ASSUME EntryInv, NEW child \in Task, sys_fork(child) PROVE EntryInv'
<1>1. /\ cr3 \in Task /\ esp = cr3 /\ IsRegs(regs) /\ IsStack(ustack[cr3])
      /\ IsRegs(user[cr3]) /\ pc = "routine" /\ child # cr3 /\ child \notin ready
      /\ IsStack(kstack[cr3]) /\ Len(kstack[cr3]) = 17 /\ errno[cr3] = told[cr3]
  BY DEF sys_fork, EntryInv, Machine, Running
<1>2. PICK fin \in {"sysenter_fin", "fin"} :
        kstack[cr3][17] = Label(fin) /\ InKernel(cr3, kstack[cr3], fin)
  BY <1>1 DEF EntryInv, Machine, Running
<1>3. PICK k, h, c : k = kstack[cr3] /\ h = pop(k, 1) /\ c = child_stack(k)
  OBVIOUS
<1>4. IsStack(h) /\ Len(h) = 16 /\ SameBase(h, k) /\ top(k) = k[17]
  BY <1>1, <1>3, ReturnedIs
<1>5. /\ IsStack(c) /\ Len(c) = 19 /\ SameBase(c, k)
      /\ c[17] = k[17] /\ c[18] = Label("ret_from_fork")
  BY <1>1, <1>3, ChildStack
<1>6. PICK v, z, u : v = Num(1) /\ z = Num(0) /\ u = user[cr3]
  OBVIOUS
<1>7. /\ regs' = [regs EXCEPT !.eax = v, !.ecx = Junk, !.edx = Junk]
      /\ pc' = target(top(k))
      /\ ready' = ready \cup {child} /\ UNCHANGED <<cr3, esp, tss_esp0, msr_esp>>
      /\ ustack' = [ustack EXCEPT ![child] = ustack[cr3]]
      /\ errno' = [errno EXCEPT ![child] = errno[cr3]]
      /\ called' = [called EXCEPT ![child] = called[cr3]]
      /\ told' = [told EXCEPT ![child] = told[cr3]]
  BY <1>1, <1>3, <1>6 DEF sys_fork, return_with
<1>8. kstack' = [[kstack EXCEPT ![cr3] = h] EXCEPT ![child] = c]
  BY <1>1, <1>3 DEF sys_fork, drop_return
<1>9. kernel_esp' = [kernel_esp EXCEPT ![child] = 19]
  BY <1>1, <1>3, <1>5 DEF sys_fork
<1>10. user' = [user EXCEPT ![cr3].eax = v, ![child] = [u EXCEPT !.eax = z]]
  BY <1>6 DEF sys_fork
<1>11. pc' = fin
  BY <1>2, <1>3, <1>4, <1>7, Targets
<1>12. IsRegs(regs') /\ regs'.eax = v
  BY <1>1, <1>7 DEF IsRegs, Reg
<1>13. /\ DOMAIN kstack' = Task /\ DOMAIN kernel_esp' = Task /\ DOMAIN ustack' = Task
       /\ DOMAIN errno' = Task /\ DOMAIN called' = Task /\ DOMAIN user' = Task
       /\ DOMAIN told' = Task
  BY <1>7, <1>8, <1>9, <1>10 DEF EntryInv, Machine
<1>14. Machine'
  BY <1>1, <1>2, <1>7, <1>11, <1>12, <1>13 DEF EntryInv, Machine, Labels
<1>15. /\ cr3' = cr3 /\ kstack'[cr3] = h /\ ustack'[cr3] = ustack[cr3]
       /\ errno'[cr3] = errno[cr3] /\ called'[cr3] = called[cr3] /\ told'[cr3] = told[cr3]
       /\ user'[cr3] = [u EXCEPT !.eax = v]
  BY <1>1, <1>6, <1>7, <1>8, <1>10 DEF EntryInv, Machine
<1>16. /\ kstack'[child] = c /\ ustack'[child] = ustack[cr3] /\ kernel_esp'[child] = 19
       /\ errno'[child] = errno[cr3] /\ called'[child] = called[cr3]
       /\ told'[child] = told[cr3] /\ user'[child] = [u EXCEPT !.eax = z]
  BY <1>1, <1>6, <1>7, <1>8, <1>9, <1>10 DEF EntryInv, Machine
<1>17. ASSUME NEW e, NEW x, x = [u EXCEPT !.eax = e]
       PROVE  /\ IsRegs(x) /\ x.eax = e /\ x.ebx = u.ebx /\ x.ecx = u.ecx /\ x.edx = u.edx
              /\ x.esi = u.esi /\ x.edi = u.edi /\ x.ebp = u.ebp
  BY <1>1, <1>6, <1>17 DEF IsRegs, Reg
<1>18. PICK x, y : x = [u EXCEPT !.eax = v] /\ y = [u EXCEPT !.eax = z]
  OBVIOUS
<1>19. /\ IsRegs(x) /\ x.eax = v /\ x.ebx = u.ebx /\ x.ecx = u.ecx /\ x.edx = u.edx
       /\ x.esi = u.esi /\ x.edi = u.edi /\ x.ebp = u.ebp
  BY <1>17, <1>18
<1>20. /\ IsRegs(y) /\ y.eax = z /\ y.ebx = u.ebx /\ y.ecx = u.ecx /\ y.edx = u.edx
       /\ y.esi = u.esi /\ y.edi = u.edi /\ y.ebp = u.ebp
  BY <1>17, <1>18
<1>21. InKernel(cr3, kstack[cr3], fin)'
  <2>1. InKernel(cr3, h, fin)
    BY <1>2, <1>3, <1>4, InKernelBase
  <2>2. PICK p : p = cr3 /\ p = cr3'
    BY <1>15
  <2>3. /\ InKernel(p, h, fin) /\ ustack'[p] = ustack[p] /\ called'[p] = called[p]
        /\ user'[p] = x /\ user[p] = u
    BY <1>6, <1>15, <1>18, <2>1, <2>2
  <2>4. InKernel(p, h, fin)'
    BY <1>19, <2>3, InKernelMoves
  <2>5. kstack'[p] = h
    BY <1>15, <2>2
  <2> QED
    BY <2>2, <2>4, <2>5
<1>22. InKernel(child, kstack[child], fin)'
  <2>1. InKernel(cr3, c, fin)
    BY <1>2, <1>3, <1>5, InKernelBase
  <2>2. InKernel(child, c, fin)'
    BY <1>6, <1>16, <1>18, <1>20, <2>1, InKernelMoves, ZenonT(60)
  <2> QED
    BY <1>16, <2>2 DEF InKernel
<1>23. Promised(cr3, regs.eax)'
  <2>1. v = Num(v[2]) /\ v[2] = 1
    BY <1>6 DEF Num
  <2>2. \A w : ~failed(w, v[2])
    BY <2>1 DEF failed
  <2>3. user'[cr3].eax = regs'.eax /\ told'[cr3] = errno'[cr3] /\ regs'.eax = v
    BY <1>1, <1>12, <1>15, <1>18, <1>19
  <2>4. Promised(cr3, v)'
    BY <1>15, <2>1, <2>2, <2>3 DEF Promised
  <2> QED
    BY <2>3, <2>4
<1>24. Promised(child, z)'
  <2>1. z = Num(z[2]) /\ z[2] = 0
    BY <1>6 DEF Num
  <2>2. \A w : ~failed(w, z[2])
    BY <2>1 DEF failed
  <2>3. user'[child].eax = z /\ told'[child] = errno'[child]
    BY <1>1, <1>16, <1>18, <1>20
  <2> QED
    BY <2>1, <2>2, <2>3, Zenon DEF Promised
<1>25. Running'
  BY <1>1, <1>2, <1>4, <1>11, <1>15, <1>18, <1>19, <1>21, <1>23 DEF Running, UserLabels
<1>26. Child(child, kstack[child])'
  <2>1. Promised(child, Num(0))'
    BY <1>6, <1>24 DEF Promised
  <2>2. kstack'[child][17] = Label(fin)
    BY <1>2, <1>3, <1>5, <1>16
  <2> QED
    BY <1>2, <1>22, <2>1, <2>2, Zenon DEF Child
<1>27. Waiting(child)'
  BY <1>1, <1>5, <1>16, <1>18, <1>20, <1>26 DEF Waiting
<1>28. ASSUME NEW t \in ready PROVE Waiting(t)'
  <2>1. t \in Task /\ t # cr3 /\ t # child
    BY <1>1 DEF EntryInv, Machine
  <2>2. Untouched(t)
    BY <1>7, <1>8, <1>9, <1>10, <2>1 DEF EntryInv, Machine, Untouched
  <2> QED
    BY <2>2, WaitingKept DEF EntryInv
<1> QED
  BY <1>7, <1>14, <1>25, <1>27, <1>28 DEF EntryInv

-----------------------------------------------------------------------------
(* The context switch.                                                     *)

(* The process that comes to run has what it left when it was switched     *)
(* away from, or what sys_fork gave it.                                    *)
LEMMA SwitchRuns ==
  ASSUME EntryInv, NEW next \in ready, NEW saved, task_switch(next, saved),
         ustack'[next] = ustack[next], errno'[next] = errno[next],
         called'[next] = called[next], user'[next] = user[next], told'[next] = told[next]
  PROVE  /\ Running' /\ pc' \in {"task_switch", "ret_from_fork"} /\ IsRegs(regs')
         /\ next # cr3 /\ next \in Task
<1>1. /\ cr3 \in Task /\ esp = cr3 /\ IsRegs(regs) /\ next \in Task /\ next # cr3
      /\ Waiting(next)
  BY DEF EntryInv, Machine
<1>2. PICK k : k = kstack[next]
  OBVIOUS
<1>3. /\ IsStack(ustack[next]) /\ IsRegs(user[next]) /\ IsStack(k)
      /\ kernel_esp[next] = Len(k)
      /\ \/ Len(k) = 26 /\ Preempted(next, k, 26)
         \/ Len(k) = 19 /\ k[18] = Label("ret_from_fork") /\ Child(next, k)
  BY <1>1, <1>2 DEF Waiting
<1>4. PICK n \in {19, 26} : Len(k) = n
  BY <1>3
<1>5. PICK c, h : c = SubSeq(k, 1, n) /\ h = pop(c, 2)
  OBVIOUS
<1>6. Part(c, k, n)
  <2>1. n \in 0 .. Len(k)
    BY <1>4
  <2>2. IsStack(SubSeq(k, 1, n)) /\ Len(SubSeq(k, 1, n)) = n
    BY <1>3, <2>1, Popped
  <2>3. \A i \in 1 .. n : SubSeq(k, 1, n)[i] = k[i]
    BY <1>3, <2>1, Popped
  <2> QED
    BY <1>5, <2>2, <2>3 DEF Part
<1>7. Part(h, c, n - 2)
  <2>1. IsStack(c) /\ Len(c) = n /\ n \in Nat /\ 2 \in 0 .. n
    BY <1>6 DEF Part
  <2> QED
    BY <1>5, <2>1, PoppedIs
<1>8. IsStack(h) /\ Len(h) = n - 2 /\ \A i \in 1 .. n - 2 : h[i] = k[i]
  BY <1>6, <1>7 DEF Part
<1>9. SameBase(h, k)
  <2>1. \A i \in 1 .. 16 : h[i] = k[i]
    BY <1>8
  <2> QED
    BY <2>1, BaseKept
<1>10. Len(c) = n /\ c[n - 1] = k[n - 1]
  BY <1>6 DEF Part
<1>11. /\ kstack' = [kstack EXCEPT ![cr3] = saved, ![next] = h]
       /\ regs' = [regs EXCEPT !.ebp = top(c), !.eax = Junk, !.ecx = Junk, !.edx = Junk]
       /\ pc' = target(c[Len(c) - 1]) /\ cr3' = next
  BY <1>1, <1>2, <1>3, <1>4, <1>5 DEF task_switch, inner_task_switch
<1>12. kstack'[next] = h
  BY <1>1, <1>11 DEF EntryInv, Machine
<1>13. IsRegs(regs')
  BY <1>1, <1>11 DEF IsRegs, Reg
<1>14. pc' = target(k[n - 1])
  BY <1>10, <1>11
<1>15. CASE n = 26 /\ Preempted(next, k, 26)
  <2>1. /\ Interrupted(next, k) /\ k[17] = Label("irq_fin") /\ k[19] = Label("sched")
        /\ k[20] = Kern(18) /\ k[25] = Label("task_switch")
    BY <1>15 DEF Preempted
  <2>2. pc' = "task_switch"
    BY <1>14, <1>15, <2>1, Targets
  <2>3. Interrupted(next, h)
    BY <1>9, <2>1, InterruptedBase
  <2>4. Interrupted(next, h)'
    BY <2>3, Zenon DEF Interrupted, UserAt, Promised
  <2>5. /\ Len(h) = 24 /\ h[17] = Label("irq_fin") /\ h[19] = Label("sched")
        /\ h[20] = Kern(18)
    BY <1>8, <1>15, <2>1
  <2>6. Preempted(next, h, 24)'
    BY <2>4, <2>5 DEF Preempted
  <2>7. Preempted(cr3, kstack[cr3], 24)'
    BY <1>11, <1>12, <2>6
  <2>8. Running'
    BY <1>3, <1>8, <1>11, <1>12, <2>2, <2>5, <2>7 DEF Running, UserLabels
  <2> QED
    BY <1>1, <1>13, <2>2, <2>8
<1>16. CASE n = 19 /\ k[18] = Label("ret_from_fork") /\ Child(next, k)
  <2>1. pc' = "ret_from_fork"
    BY <1>14, <1>16, Targets
  <2>2. PICK fin \in {"sysenter_fin", "fin"} :
          k[17] = Label(fin) /\ InKernel(next, k, fin) /\ Promised(next, Num(0))
    BY <1>16 DEF Child
  <2>3. InKernel(next, h, fin)
    BY <1>9, <2>2, InKernelBase
  <2>4. InKernel(next, h, fin)'
    BY <2>3, Zenon DEF InKernel
  <2>5. PICK z : z = Num(0)
    OBVIOUS
  <2>6. Promised(next, z)'
    BY <2>2, <2>5, Zenon DEF Promised
  <2>7. Promised(next, Num(0))'
    BY <2>5, <2>6 DEF Promised
  <2>8. Len(h) = 17 /\ h[17] = Label(fin)
    BY <1>8, <1>16, <2>2
  <2>9. Child(next, h)'
    BY <2>4, <2>7, <2>8, Zenon DEF Child
  <2>10. Child(cr3, kstack[cr3])'
    BY <1>11, <1>12, <2>9
  <2>11. Running'
    BY <1>3, <1>8, <1>11, <1>12, <2>1, <2>8, <2>10 DEF Running, UserLabels
  <2> QED
    BY <1>1, <1>13, <2>1, <2>11
<1>17. n = 26 \/ n = 19
  OBVIOUS
<1> QED
  BY <1>3, <1>4, <1>15, <1>16, <1>17

(* What the process that is switched away from leaves.                     *)
LEMMA ContextStack ==
  ASSUME NEW k, IsStack(k), Len(k) = 17, NEW next, NEW h, h = context(k, next)
  PROVE  /\ IsStack(h) /\ Len(h) = 26 /\ SameBase(h, k) /\ h[17] = k[17]
         /\ h[19] = Label("sched") /\ h[20] = Kern(18)
         /\ h[25] = Label("task_switch") /\ h[26] = Kern(20)
<1>1. PICK f : f = Append(k, regs.ebp)
  OBVIOUS
<1>2. Grows(f, k, regs.ebp)
  BY <1>1, PushedIs
<1>3. IsStack(f) /\ Len(f) = 18 /\ \A i \in 1 .. 17 : f[i] = k[i]
  BY <1>2 DEF Grows
<1>4. PICK a, b, s :
        /\ a = <<Label("sched"), Kern(18), regs.esi, regs.edi, regs.ebx>>
        /\ b = <<Num(next), Label("task_switch"), Kern(20)>> /\ s = f \o a
  OBVIOUS
<1>5. /\ IsStack(a) /\ Len(a) = 5 /\ a[1] = Label("sched") /\ a[2] = Kern(18)
      /\ IsStack(b) /\ Len(b) = 3 /\ b[2] = Label("task_switch") /\ b[3] = Kern(20)
  BY <1>4 DEF IsStack
<1>6. h = s \o b
  <2>1. Len(Append(k, regs.ebp)) = 18 /\ Len(Append(k, regs.ebp)) + 2 = 20
    BY <1>1, <1>3
  <2>2. h = f \o <<Label("sched"), Kern(Len(f)), regs.esi, regs.edi, regs.ebx>>
              \o <<Num(next), Label("task_switch"), Kern(Len(f) + 2)>>
    BY <1>1, Zenon DEF context
  <2>3. Len(f) = 18 /\ Len(f) + 2 = 20
    BY <1>1, <2>1
  <2> QED
    BY <1>4, <2>2, <2>3
<1>7. Extends(s, f, a)
  BY <1>3, <1>4, <1>5, JoinedIs
<1>8. /\ IsStack(s) /\ Len(s) = 23 /\ s[19] = a[1] /\ s[20] = a[2]
      /\ \A i \in 1 .. 18 : s[i] = f[i]
  BY <1>3, <1>5, <1>7 DEF Extends
<1>9. Extends(h, s, b)
  BY <1>5, <1>6, <1>8, JoinedIs
<1>10. /\ IsStack(h) /\ Len(h) = 26 /\ h[25] = b[2] /\ h[26] = b[3]
       /\ \A i \in 1 .. 23 : h[i] = s[i]
  BY <1>5, <1>8, <1>9 DEF Extends
<1>11. \A i \in 1 .. 17 : h[i] = k[i]
  BY <1>3, <1>8, <1>10
<1>12. h[19] = a[1] /\ h[20] = a[2] /\ h[17] = k[17]
  BY <1>8, <1>10, <1>11
<1>13. \A i \in 1 .. 16 : h[i] = k[i]
  BY <1>11
<1> QED
  BY <1>5, <1>10, <1>12, <1>13, BaseKept

(* After a switch to next, everybody knows of next.                        *)
LEMMA SwitchMachine ==
  ASSUME EntryInv, NEW next \in ready, NEW saved, task_switch(next, saved),
         pc' \in {"task_switch", "ret_from_fork"}, IsRegs(regs'),
         ready' \subseteq Task \ {next},
         DOMAIN ustack' = Task, DOMAIN errno' = Task, DOMAIN called' = Task,
         DOMAIN user' = Task, DOMAIN told' = Task
  PROVE  Machine'
BY DEF EntryInv, Machine, task_switch, inner_task_switch, Labels

(* The clock takes the CPU from a process, which waits.                    *)
LEMMA ScheduleInv == ASSUME EntryInv, NEW next \in Task, schedule(next) PROVE EntryInv'
<1>1. /\ cr3 \in Task /\ esp = cr3 /\ pc = "clock_routine" /\ next \in ready
      /\ IsStack(kstack[cr3]) /\ Len(kstack[cr3]) = 17 /\ Preempted(cr3, kstack[cr3], 17)
      /\ IsStack(ustack[cr3]) /\ IsRegs(user[cr3])
  BY DEF schedule, EntryInv, Machine, Running
<1>2. PICK k, h : k = kstack[cr3] /\ h = context(k, next)
  OBVIOUS
<1>3. /\ IsStack(h) /\ Len(h) = 26 /\ SameBase(h, k) /\ h[17] = k[17]
      /\ h[19] = Label("sched") /\ h[20] = Kern(18)
      /\ h[25] = Label("task_switch") /\ h[26] = Kern(20)
  BY <1>1, <1>2, ContextStack
<1>4. /\ task_switch(next, h) /\ ready' = (ready \ {next}) \cup {cr3}
      /\ UNCHANGED <<ustack, errno, called, user, told>>
  BY <1>1, <1>2 DEF schedule, programVars
<1>5. /\ Running' /\ pc' \in {"task_switch", "ret_from_fork"} /\ IsRegs(regs')
      /\ next # cr3 /\ next \in Task
  BY <1>1, <1>4, SwitchRuns
<1>6. Machine'
  <2>1. /\ ready' \subseteq Task \ {next}
        /\ DOMAIN ustack' = Task /\ DOMAIN errno' = Task /\ DOMAIN called' = Task
        /\ DOMAIN user' = Task /\ DOMAIN told' = Task
    BY <1>1, <1>4, <1>5 DEF EntryInv, Machine
  <2> QED
    BY <1>1, <1>4, <1>5, <2>1, SwitchMachine
<1>7. /\ kstack' = [kstack EXCEPT ![cr3] = h, ![next] = pop(SubSeq(kstack[next], 1, kernel_esp[next]), 2)]
      /\ kernel_esp' = [kernel_esp EXCEPT ![cr3] = 26, ![next] = 0]
  BY <1>1, <1>3, <1>4 DEF task_switch
<1>8. kstack'[cr3] = h /\ kernel_esp'[cr3] = 26
  BY <1>1, <1>5, <1>7 DEF EntryInv, Machine
<1>9. PICK p : p = cr3
  OBVIOUS
<1>10. Waiting(p)'
  <2>1. Interrupted(p, h)
    BY <1>1, <1>2, <1>3, <1>9, InterruptedBase DEF Preempted
  <2>2. Interrupted(p, h)'
    BY <1>4, <2>1, Zenon DEF Interrupted, UserAt, Promised
  <2>3. h[17] = Label("irq_fin")
    BY <1>1, <1>2, <1>3 DEF Preempted
  <2>4. Preempted(p, h, 26)'
    BY <1>3, <2>2, <2>3 DEF Preempted
  <2>5. /\ IsStack(ustack'[p]) /\ IsRegs(user'[p]) /\ kstack'[p] = h /\ kernel_esp'[p] = 26
    BY <1>1, <1>4, <1>8, <1>9
  <2>6. Preempted(p, kstack[p], 26)'
    BY <2>4, <2>5
  <2> QED
    BY <1>3, <2>5, <2>6 DEF Waiting
<1>11. ASSUME NEW t \in ready \ {next} PROVE Waiting(t)'
  <2>1. t \in Task /\ t # cr3 /\ t # next
    BY DEF EntryInv, Machine
  <2>2. Untouched(t)
    BY <1>4, <1>7, <2>1 DEF EntryInv, Machine, Untouched
  <2> QED
    BY <2>2, WaitingKept DEF EntryInv
<1> QED
  BY <1>4, <1>5, <1>6, <1>9, <1>10, <1>11 DEF EntryInv

(* A process that exits leaves the CPU to another one.                     *)
LEMMA ExitInv == ASSUME EntryInv, NEW next \in Task, sys_exit(next) PROVE EntryInv'
<1>1. cr3 \in Task /\ esp = cr3 /\ next \in ready /\ next # cr3
  BY DEF sys_exit, EntryInv, Machine
<1>2. /\ task_switch(next, <<>>) /\ ready' = ready \ {next}
      /\ ustack' = [ustack EXCEPT ![cr3] = <<>>]
      /\ errno' = [errno EXCEPT ![cr3] = 0]
      /\ called' = [called EXCEPT ![cr3] = "none"]
      /\ user' = [user EXCEPT ![cr3] = [r \in Reg |-> Junk]]
      /\ told' = [told EXCEPT ![cr3] = 0]
  BY DEF sys_exit
<1>3. ASSUME NEW t \in Task, t # cr3
      PROVE  /\ ustack'[t] = ustack[t] /\ errno'[t] = errno[t] /\ called'[t] = called[t]
             /\ user'[t] = user[t] /\ told'[t] = told[t]
  BY <1>2, <1>3 DEF EntryInv, Machine
<1>4. /\ Running' /\ pc' \in {"task_switch", "ret_from_fork"} /\ IsRegs(regs')
  BY <1>1, <1>2, <1>3, SwitchRuns
<1>5. Machine'
  <2>1. /\ ready' \subseteq Task \ {next}
        /\ DOMAIN ustack' = Task /\ DOMAIN errno' = Task /\ DOMAIN called' = Task
        /\ DOMAIN user' = Task /\ DOMAIN told' = Task
    BY <1>1, <1>2 DEF EntryInv, Machine
  <2> QED
    BY <1>1, <1>2, <1>4, <2>1, SwitchMachine
<1>6. ASSUME NEW t \in ready \ {next} PROVE Waiting(t)'
  <2>1. t \in Task /\ t # cr3 /\ t # next
    BY DEF EntryInv, Machine
  <2>2. kstack'[t] = kstack[t] /\ kernel_esp'[t] = kernel_esp[t]
    BY <1>1, <1>2, <2>1 DEF EntryInv, Machine, task_switch
  <2>3. Untouched(t)
    BY <1>3, <2>1, <2>2 DEF Untouched
  <2> QED
    BY <2>3, WaitingKept DEF EntryInv
<1> QED
  BY <1>2, <1>4, <1>5, <1>6 DEF EntryInv

(* With nobody to run the kernel goes on in no process.                    *)
LEMMA NoProcessInv == ASSUME EntryInv, no_process PROVE EntryInv'
<1>1. Alone /\ pc' = "stopped" /\ IsRegs(regs')
  BY DEF no_process, machineVars, programVars, EntryInv, Machine, Alone, Untouched
<1> QED
  BY <1>1, AloneInv DEF Labels

(* The rest of task_switch finds the registers of its caller under it.     *)
LEMMA ResumeInv == ASSUME EntryInv, resume PROVE EntryInv'
<1>1. /\ cr3 \in Task /\ esp = cr3 /\ IsRegs(regs) /\ pc = "task_switch"
      /\ IsStack(kstack[cr3]) /\ Len(kstack[cr3]) = 24 /\ Preempted(cr3, kstack[cr3], 24)
      /\ IsStack(ustack[cr3]) /\ IsRegs(user[cr3])
  BY DEF resume, EntryInv, Machine, Running
<1>2. PICK k, s, h : k = kstack[cr3] /\ s = pop(k, 1) /\ h = pop(s, 5)
  OBVIOUS
<1>3. Part(s, k, 24 - 1)
  <2>1. IsStack(k) /\ 24 \in Nat /\ Len(k) = 24 /\ 1 \in 0 .. 24
    BY <1>1, <1>2
  <2> QED
    BY <1>2, <2>1, PoppedIs
<1>4. Part(h, s, 23 - 5)
  <2>1. IsStack(s) /\ 23 \in Nat /\ Len(s) = 23 /\ 5 \in 0 .. 23
    BY <1>3 DEF Part
  <2> QED
    BY <1>2, <2>1, PoppedIs
<1>5. /\ Len(s) = 23 /\ s[20] = k[20] /\ s[19] = k[19]
      /\ IsStack(h) /\ Len(h) = 18 /\ \A i \in 1 .. 18 : h[i] = k[i]
  BY <1>3, <1>4 DEF Part
<1>6. SameBase(h, k)
  <2>1. \A i \in 1 .. 16 : h[i] = k[i]
    BY <1>5
  <2> QED
    BY <2>1, BaseKept
<1>7. /\ Interrupted(cr3, k) /\ k[17] = Label("irq_fin") /\ k[19] = Label("sched")
      /\ k[20] = Kern(18)
  BY <1>1, <1>2 DEF Preempted
<1>8. /\ regs' = [regs EXCEPT !.ebx = s[Len(s)], !.edi = s[Len(s) - 1],
                              !.esi = s[Len(s) - 2], !.ebp = s[Len(s) - 3]]
      /\ pc' = target(s[Len(s) - 4])
      /\ kstack' = [kstack EXCEPT ![cr3] = h]
      /\ UNCHANGED <<ustack, errno, ready, machineVars, programVars>>
  BY <1>1, <1>2 DEF resume
<1>9. pc' = "sched"
  BY <1>5, <1>7, <1>8, Targets
<1>10. IsRegs(regs') /\ regs'.ebp = Kern(18)
  <2>1. regs'.ebp = s[Len(s) - 3] /\ IsRegs(regs')
    BY <1>1, <1>8 DEF IsRegs, Reg
  <2> QED
    BY <1>5, <1>7, <2>1
<1>11. Alone
  BY <1>1, <1>8 DEF machineVars, programVars, EntryInv, Machine, Alone, Untouched
<1>12. /\ cr3' = cr3 /\ ustack'[cr3] = ustack[cr3] /\ called'[cr3] = called[cr3]
       /\ user'[cr3] = user[cr3] /\ kstack'[cr3] = h /\ errno'[cr3] = errno[cr3]
       /\ told'[cr3] = told[cr3]
  BY <1>1, <1>8 DEF machineVars, programVars, EntryInv, Machine
<1>13. Interrupted(cr3, h)
  BY <1>6, <1>7, InterruptedBase
<1>14. Interrupted(cr3, kstack[cr3])'
  BY <1>12, <1>13, Zenon DEF Interrupted, UserAt, Promised
<1>15. h[17] = Label("irq_fin")
  BY <1>5, <1>7
<1>16. Preempted(cr3, kstack[cr3], 18)'
  BY <1>12, <1>14, <1>15 DEF Preempted
<1>17. Running'
  BY <1>1, <1>5, <1>9, <1>10, <1>12, <1>16 DEF Running, UserLabels
<1> QED
  BY <1>9, <1>10, <1>11, <1>17, AloneInv DEF Labels

(* The C code under it returns to the handler of the clock.                *)
LEMMA SchedReturnInv == ASSUME EntryInv, sched_return PROVE EntryInv'
<1>1. /\ cr3 \in Task /\ esp = cr3 /\ IsRegs(regs) /\ pc = "sched" /\ regs.ebp = Kern(18)
      /\ IsStack(kstack[cr3]) /\ Len(kstack[cr3]) = 18 /\ Preempted(cr3, kstack[cr3], 18)
      /\ IsStack(ustack[cr3]) /\ IsRegs(user[cr3])
  BY DEF sched_return, EntryInv, Machine, Running
<1>2. PICK k, s, h : k = kstack[cr3] /\ s = SubSeq(k, 1, 18) /\ h = pop(s, 2)
  OBVIOUS
<1>3. regs.ebp[2] = 18
  BY <1>1 DEF Kern
<1>4. Part(s, k, 18)
  <2>0. Len(k) = 18 /\ IsStack(k)
    BY <1>1, <1>2
  <2>1. 18 \in 0 .. Len(k) /\ IsStack(k)
    BY <2>0
  <2>2. IsStack(SubSeq(k, 1, 18)) /\ Len(SubSeq(k, 1, 18)) = 18
    BY <2>1, Popped
  <2>3. \A i \in 1 .. 18 : SubSeq(k, 1, 18)[i] = k[i]
    BY <2>1, Popped
  <2> QED
    BY <1>2, <2>2, <2>3 DEF Part
<1>5. Part(h, s, 18 - 2)
  <2>1. IsStack(s) /\ 18 \in Nat /\ Len(s) = 18 /\ 2 \in 0 .. 18
    BY <1>4 DEF Part
  <2> QED
    BY <1>2, <2>1, PoppedIs
<1>6. /\ Len(s) = 18 /\ s[17] = k[17] /\ IsStack(h) /\ Len(h) = 16
      /\ \A i \in 1 .. 16 : h[i] = k[i]
  BY <1>4, <1>5 DEF Part
<1>7. SameBase(h, k)
  BY <1>6, BaseKept
<1>8. Interrupted(cr3, k) /\ k[17] = Label("irq_fin")
  BY <1>1, <1>2 DEF Preempted
<1>9. /\ regs' = [regs EXCEPT !.ebp = top(s), !.eax = Junk]
      /\ pc' = target(s[Len(s) - 1])
      /\ kstack' = [kstack EXCEPT ![cr3] = h]
      /\ UNCHANGED <<ustack, errno, ready, machineVars, programVars>>
  BY <1>1, <1>2, <1>3 DEF sched_return
<1>10. pc' = "irq_fin"
  BY <1>6, <1>8, <1>9, Targets
<1>11. IsRegs(regs')
  BY <1>1, <1>9 DEF IsRegs, Reg
<1>12. Alone
  BY <1>1, <1>9 DEF machineVars, programVars, EntryInv, Machine, Alone, Untouched
<1>13. /\ cr3' = cr3 /\ ustack'[cr3] = ustack[cr3] /\ called'[cr3] = called[cr3]
       /\ user'[cr3] = user[cr3] /\ kstack'[cr3] = h /\ errno'[cr3] = errno[cr3]
       /\ told'[cr3] = told[cr3]
  BY <1>1, <1>9 DEF machineVars, programVars, EntryInv, Machine
<1>14. Interrupted(cr3, h)
  BY <1>7, <1>8, InterruptedBase
<1>15. Interrupted(cr3, kstack[cr3])'
  BY <1>13, <1>14, Zenon DEF Interrupted, UserAt, Promised
<1>16. Running'
  BY <1>1, <1>6, <1>10, <1>13, <1>15 DEF Running, UserLabels
<1> QED
  BY <1>10, <1>11, <1>12, <1>16, AloneInv DEF Labels

(* The child returns 0 where its parent returned 1.                        *)
LEMMA RetFromForkInv == ASSUME EntryInv, ret_from_fork PROVE EntryInv'
<1>1. /\ cr3 \in Task /\ esp = cr3 /\ IsRegs(regs) /\ pc = "ret_from_fork"
      /\ IsStack(kstack[cr3]) /\ Len(kstack[cr3]) = 17 /\ Child(cr3, kstack[cr3])
      /\ IsStack(ustack[cr3]) /\ IsRegs(user[cr3])
  BY DEF ret_from_fork, EntryInv, Machine, Running
<1>2. PICK k, h, z : k = kstack[cr3] /\ h = pop(k, 1) /\ z = Num(0)
  OBVIOUS
<1>3. PICK fin \in {"sysenter_fin", "fin"} :
        k[17] = Label(fin) /\ InKernel(cr3, k, fin) /\ Promised(cr3, z)
  BY <1>1, <1>2 DEF Child
<1>4. IsStack(h) /\ Len(h) = 16 /\ SameBase(h, k) /\ top(k) = k[17]
  BY <1>1, <1>2, ReturnedIs
<1>5. /\ regs' = [regs EXCEPT !.eax = z, !.ecx = Junk, !.edx = Junk]
      /\ pc' = target(top(k)) /\ kstack' = [kstack EXCEPT ![cr3] = h]
      /\ UNCHANGED <<ustack, errno, ready, machineVars, programVars>>
  BY <1>1, <1>2 DEF ret_from_fork, return_with, drop_return
<1>6. pc' = fin
  BY <1>3, <1>4, <1>5, Targets
<1>7. IsRegs(regs') /\ regs'.eax = z
  BY <1>1, <1>5 DEF IsRegs, Reg
<1>8. Alone
  BY <1>1, <1>5 DEF machineVars, programVars, EntryInv, Machine, Alone, Untouched
<1>9. /\ cr3' = cr3 /\ ustack'[cr3] = ustack[cr3] /\ called'[cr3] = called[cr3]
      /\ user'[cr3] = user[cr3] /\ kstack'[cr3] = h /\ errno'[cr3] = errno[cr3]
      /\ told'[cr3] = told[cr3]
  BY <1>1, <1>5 DEF machineVars, programVars, EntryInv, Machine
<1>10. InKernel(cr3, h, fin)
  BY <1>3, <1>4, InKernelBase
<1>11. InKernel(cr3, kstack[cr3], fin)'
  BY <1>9, <1>10, Zenon DEF InKernel
<1>12. Promised(cr3, regs.eax)'
  BY <1>3, <1>7, <1>9, Zenon DEF Promised
<1>13. Running'
  BY <1>1, <1>3, <1>4, <1>6, <1>9, <1>11, <1>12 DEF Running, UserLabels
<1> QED
  BY <1>3, <1>6, <1>7, <1>8, <1>13, AloneInv DEF Labels

-----------------------------------------------------------------------------
(* On the way out of the kernel.                                           *)

(* RESTORE_ALL takes the registers from where SAVE_ALL left them, and what *)
(* the processor pushed is under them.                                     *)
LEMMA LeaveFacts ==
  ASSUME NEW k, IsStack(k), Len(k) = 16
  PROVE  /\ RESTORE_ALL(k) = slots(k) /\ Len(pop(k, 11)) = 5
         /\ pop(k, 11)[5] = k[5] /\ pop(k, 11)[2] = k[2]
<1>1. PICK f : f = pop(k, 11)
  OBVIOUS
<1>2. 16 \in Nat /\ 11 \in 0 .. 16
  OBVIOUS
<1>3. Part(f, k, 16 - 11)
  BY <1>1, <1>2, PoppedIs
<1>4. Len(f) = 5 /\ f[5] = k[5] /\ f[2] = k[2]
  BY <1>3 DEF Part
<1>5. /\ 16 - 1 = 15 /\ 16 - 2 = 14 /\ 16 - 3 = 13 /\ 16 - 4 = 12 /\ 16 - 5 = 11
      /\ 16 - 6 = 10
  OBVIOUS
<1>6. RESTORE_ALL(k) = slots(k)
  BY <1>5 DEF RESTORE_ALL, slots
<1> QED
  BY <1>1, <1>4, <1>6

(* The program goes on at l with registers r, on its own stack.            *)
LEMMA LeaveInv ==
  ASSUME EntryInv, NEW k, IsStack(k), Len(k) = 16, leave(k),
         pc \in {"sysenter_fin", "fin", "irq_fin"}, k[2] = At(Len(ustack[cr3])),
         NEW l \in UserLabels, k[5] = Label(l),
         NEW r, IsRegs(r), UserAt(cr3, l, r),
         r = (IF pc = "sysenter_fin"
              THEN [slots(k) EXCEPT !.edx = k[5], !.ecx = k[2]] ELSE slots(k))
  PROVE  EntryInv'
<1>1. /\ cr3 \in Task /\ esp = cr3 /\ IsStack(ustack[cr3]) /\ IsRegs(user[cr3])
  BY DEF EntryInv, Machine, Running
<1>2. PICK f, n, s : f = pop(k, 11) /\ n = Len(f) /\ s = ustack[cr3]
  OBVIOUS
<1>3. RESTORE_ALL(k) = slots(k) /\ n = 5 /\ f[n] = k[5] /\ f[n - 3] = k[2]
  BY <1>2, LeaveFacts, SMTT(60)
<1>4. /\ pc' = target(f[n])
      /\ ustack' = [ustack EXCEPT ![cr3] = SubSeq(s, 1, f[n - 3][2])]
      /\ regs' = (IF pc = "sysenter_fin"
                  THEN [RESTORE_ALL(k) EXCEPT !.edx = f[n], !.ecx = f[n - 3]]
                  ELSE RESTORE_ALL(k))
      /\ kstack' = [kstack EXCEPT ![cr3] = <<>>]
      /\ UNCHANGED <<errno, ready, machineVars, programVars>>
  BY <1>1, <1>2, Zenon DEF leave
<1>5. pc' = l
  BY <1>3, <1>4, Targets
<1>6. f[n - 3][2] = Len(s)
  BY <1>2, <1>3 DEF At
<1>7. SubSeq(s, 1, Len(s)) = s
  <2>1. IsStack(s) /\ Len(s) \in 0 .. Len(s)
    BY <1>1, <1>2 DEF IsStack
  <2>2. IsStack(SubSeq(s, 1, Len(s))) /\ Len(SubSeq(s, 1, Len(s))) = Len(s)
    BY <2>1, Popped
  <2>3. \A i \in 1 .. Len(s) : SubSeq(s, 1, Len(s))[i] = s[i]
    BY <2>1, Popped
  <2>4. PICK x : x = SubSeq(s, 1, Len(s))
    OBVIOUS
  <2> QED
    BY <2>1, <2>2, <2>3, <2>4 DEF IsStack
<1>8. regs' = r
  BY <1>3, <1>4
<1>9. Alone
  BY <1>1, <1>4 DEF machineVars, programVars, EntryInv, Machine, Alone, Untouched
<1>10. /\ cr3' = cr3 /\ ustack'[cr3] = s /\ called'[cr3] = called[cr3]
       /\ user'[cr3] = user[cr3] /\ kstack'[cr3] = <<>> /\ errno'[cr3] = errno[cr3]
       /\ told'[cr3] = told[cr3]
  BY <1>1, <1>4, <1>6, <1>7 DEF machineVars, programVars, EntryInv, Machine
<1>11. UserAt(cr3, pc, regs)'
  BY <1>2, <1>5, <1>8, <1>10, ZenonT(60) DEF UserAt, Promised
<1>12. IsStack(<<>>)
  BY DEF IsStack
<1>13. Running'
  BY <1>1, <1>2, <1>5, <1>10, <1>11, <1>12 DEF Running, UserLabels
<1> QED
  BY <1>5, <1>8, <1>9, <1>13, AloneInv DEF Labels, UserLabels

(* What is popped are the values of all the registers.                     *)
LEMMA SlotsRegs == ASSUME NEW k PROVE IsRegs(slots(k))
BY DEF IsRegs, Reg, slots

(* The result takes the place of eax, and no other.                        *)
LEMMA StoreFacts ==
  ASSUME NEW k, IsStack(k), Len(k) = 16, NEW h, h = store_result(k)
  PROVE  /\ IsStack(h) /\ Len(h) = 16 /\ h[2] = k[2] /\ h[5] = k[5]
         /\ slots(h) = [slots(k) EXCEPT !.eax = regs.eax]
<1>1. h = [k EXCEPT ![10] = regs.eax]
  BY DEF store_result
<1>2. k = [i \in 1 .. 16 |-> k[i]]
  BY DEF IsStack
<1>3. h = [i \in 1 .. 16 |-> IF i = 10 THEN regs.eax ELSE k[i]]
  BY <1>1, <1>2
<1>4. IsStack(h) /\ Len(h) = 16
  <2>1. h \in Seq({h[i] : i \in 1 .. 16})
    BY <1>3
  <2>2. Len(h) = 16
    BY <1>3, <2>1
  <2> QED
    BY <1>3, <2>2 DEF IsStack
<1>5. \A i \in 1 .. 16 : h[i] = IF i = 10 THEN regs.eax ELSE k[i]
  BY <1>3
<1>6. /\ h[2] = k[2] /\ h[5] = k[5] /\ h[10] = regs.eax /\ h[11] = k[11] /\ h[12] = k[12]
      /\ h[13] = k[13] /\ h[14] = k[14] /\ h[15] = k[15] /\ h[16] = k[16]
  BY <1>5
<1>7. slots(h) = [slots(k) EXCEPT !.eax = regs.eax]
  BY <1>6 DEF slots
<1> QED
  BY <1>4, <1>6, <1>7

(* The end of a system call: its wrapper, or its program, has the result.  *)
LEMMA SyscallFinInv == ASSUME EntryInv, syscall_fin PROVE EntryInv'
<1>1. /\ pc \in {"sysenter_fin", "fin"} /\ leave(store_result(kstack[cr3]))
      /\ IsStack(kstack[cr3]) /\ Len(kstack[cr3]) = 16
      /\ InKernel(cr3, kstack[cr3], pc) /\ Promised(cr3, regs.eax)
  BY DEF syscall_fin, EntryInv, Machine, Running
<1>2. PICK k, h : k = kstack[cr3] /\ h = store_result(k)
  OBVIOUS
<1>3. /\ IsStack(h) /\ Len(h) = 16 /\ h[2] = k[2] /\ h[5] = k[5]
      /\ slots(h) = [slots(k) EXCEPT !.eax = regs.eax]
  BY <1>1, <1>2, StoreFacts
<1>4. PICK s, w, u, q : s = ustack[cr3] /\ w = called[cr3] /\ u = user[cr3] /\ q = slots(k)
  OBVIOUS
<1>5. /\ k[2] = At(Len(s))
      /\ \/ pc = "sysenter_fin" /\ k[5] = Label("return") /\ BySysenter(s, w, u, q)
         \/ pc = "fin" /\ k[5] = Label("return_int80") /\ ByWrite(s, w, u, q)
         \/ pc = "fin" /\ k[5] = Label("main") /\ ByRaw(s, w, u, q)
  BY <1>1, <1>2, <1>4 DEF InKernel
<1>6. PICK p : p = slots(h)
  OBVIOUS
<1>7. /\ IsRegs(p) /\ p.eax = regs.eax /\ p.ebx = q.ebx /\ p.ecx = q.ecx
      /\ p.edx = q.edx /\ p.esi = q.esi /\ p.edi = q.edi /\ p.ebp = q.ebp
  <2>1. p = [q EXCEPT !.eax = regs.eax] /\ IsRegs(q) /\ IsRegs(p)
    BY <1>3, <1>4, <1>6, SlotsRegs
  <2> QED
    BY <2>1 DEF IsRegs, Reg
<1>8. leave(h) /\ h[2] = At(Len(ustack[cr3])) /\ pc \in {"sysenter_fin", "fin", "irq_fin"}
  BY <1>1, <1>2, <1>3, <1>4, <1>5
<1>9. PICK r : r = (IF pc = "sysenter_fin" THEN [p EXCEPT !.edx = h[5], !.ecx = h[2]] ELSE p)
  OBVIOUS
<1>10. r = (IF pc = "sysenter_fin"
            THEN [slots(h) EXCEPT !.edx = h[5], !.ecx = h[2]] ELSE slots(h))
  BY <1>6, <1>9
<1>11. /\ IsRegs(r) /\ r.eax = regs.eax /\ r.ebx = q.ebx /\ r.esi = q.esi /\ r.edi = q.edi
       /\ r.ebp = q.ebp
       /\ pc = "fin" => r.ecx = q.ecx /\ r.edx = q.edx
  BY <1>7, <1>9 DEF IsRegs, Reg
<1>12. Promised(cr3, r.eax)
  BY <1>1, <1>11
<1>13. CASE pc = "sysenter_fin" /\ k[5] = Label("return") /\ BySysenter(s, w, u, q)
  <2>1. /\ SysenterStack(s, w, u) /\ r.esi = u.esi /\ r.edi = u.edi
        /\ nargs(w) > 0 \/ r.ebx = u.ebx
    BY <1>11, <1>13 DEF BySysenter
  <2>2. UserAt(cr3, "return", r)
    BY <1>4, <1>12, <2>1, Zenon DEF UserAt
  <2>3. "return" \in UserLabels /\ h[5] = Label("return")
    BY <1>3, <1>13 DEF UserLabels
  <2> QED
    BY <1>3, <1>8, <1>10, <1>11, <2>2, <2>3, LeaveInv
<1>14. CASE pc = "fin" /\ k[5] = Label("return_int80") /\ ByWrite(s, w, u, q)
  <2>1. /\ WriteStack(s, w, u) /\ r.ecx = u.ecx /\ r.edx = u.edx
        /\ r.esi = u.esi /\ r.edi = u.edi
    BY <1>11, <1>14 DEF ByWrite
  <2>2. UserAt(cr3, "return_int80", r)
    BY <1>4, <1>12, <2>1, Zenon DEF UserAt
  <2>3. "return_int80" \in UserLabels /\ h[5] = Label("return_int80")
    BY <1>3, <1>14 DEF UserLabels
  <2> QED
    BY <1>3, <1>8, <1>10, <1>11, <2>2, <2>3, LeaveInv
<1>15. CASE pc = "fin" /\ k[5] = Label("main") /\ ByRaw(s, w, u, q)
  <2>1. /\ w = "raw" /\ s = <<>> /\ r.ebx = u.ebx /\ r.ecx = u.ecx /\ r.edx = u.edx
        /\ r.esi = u.esi /\ r.edi = u.edi /\ r.ebp = u.ebp
    BY <1>11, <1>15 DEF ByRaw
  <2>2. r.eax = u.eax /\ errno[cr3] = told[cr3]
    BY <1>4, <1>12, <2>1, Zenon DEF Promised
  <2>3. UserAt(cr3, "main", r)
    BY <1>4, <2>1, <2>2, Zenon DEF UserAt
  <2>4. "main" \in UserLabels /\ h[5] = Label("main")
    BY <1>3, <1>15 DEF UserLabels
  <2> QED
    BY <1>3, <1>8, <1>10, <1>11, <2>3, <2>4, LeaveInv
<1> QED
  BY <1>5, <1>13, <1>14, <1>15

(* The end of an interrupt: what it found goes on.                         *)
LEMMA IrqFinInv == ASSUME EntryInv, irq_fin PROVE EntryInv'
<1>1. /\ pc = "irq_fin" /\ leave(kstack[cr3]) /\ IsStack(kstack[cr3])
      /\ Len(kstack[cr3]) = 16 /\ Interrupted(cr3, kstack[cr3])
  BY DEF irq_fin, EntryInv, Machine, Running
<1>2. PICK k : k = kstack[cr3]
  OBVIOUS
<1>3. PICK l \in UserLabels : k[5] = Label(l) /\ UserAt(cr3, l, slots(k))
  BY <1>1, <1>2 DEF Interrupted
<1>4. /\ leave(k) /\ IsStack(k) /\ Len(k) = 16 /\ k[2] = At(Len(ustack[cr3]))
      /\ pc \in {"sysenter_fin", "fin", "irq_fin"}
  BY <1>1, <1>2 DEF Interrupted
<1>5. PICK r : r = slots(k)
  OBVIOUS
<1>6. r = (IF pc = "sysenter_fin"
           THEN [slots(k) EXCEPT !.edx = k[5], !.ecx = k[2]] ELSE slots(k))
  BY <1>1, <1>5
<1>7. IsRegs(r) /\ UserAt(cr3, l, r)
  BY <1>3, <1>5, SlotsRegs
<1> QED
  BY <1>3, <1>4, <1>6, <1>7, LeaveInv

-----------------------------------------------------------------------------
(* The theorems.                                                           *)

(* At the beginning one program runs, and nobody waits.                    *)
LEMMA EntryInit == Init => EntryInv
<1> SUFFICES ASSUME Init PROVE EntryInv
  OBVIOUS
<1>1. 0 \in Task
  BY EntryAssumption DEF Task
<1>2. IsRegs(regs) /\ IsStack(<<>>)
  BY DEF Init, IsRegs, IsStack
<1>3. Machine
  BY <1>1, <1>2 DEF Init, Machine, Labels, UserLabels
<1>4. /\ pc = "main" /\ kstack[cr3] = <<>> /\ ustack[cr3] = <<>> /\ user[cr3] = regs
      /\ errno[cr3] = 0 /\ told[cr3] = 0
  BY <1>1 DEF Init
<1>5. UserAt(cr3, pc, regs)
  BY <1>4 DEF UserAt
<1>6. Running
  BY <1>2, <1>4, <1>5 DEF Running, UserLabels
<1> QED
  BY <1>3, <1>6 DEF EntryInv, Init

(* Every step, by its action.                                              *)
LEMMA EntryStep == ASSUME EntryInv, [Next]_entryVars PROVE EntryInv'
<1>1. CASE compute
  BY <1>1, ComputeInv
<1>2. ASSUME NEW w \in CALLS, call(w) PROVE EntryInv'
  BY <1>2, SysenterCall, WriteCall
<1>3. ASSUME NEW n \in RAW, raw_call(n) PROVE EntryInv'
  BY <1>3, RawCallInv
<1>4. CASE wrap_return
  BY <1>4, WrapReturnInv
<1>5. CASE system_call_handler
  BY <1>5, SystemCallInv
<1>6. CASE syscall_handler_sysenter
  BY <1>6, SysenterInv
<1>7. ASSUME NEW routine \in {"keyboard_routine", "clock_routine"}, interrupt(routine)
      PROVE  EntryInv'
  BY <1>7, InterruptInv
<1>8. ASSUME NEW r \in {1, -1, -EAGAIN, -ENOSYS}, sys_result(r) PROVE EntryInv'
  <2>1. r \in Int
    BY DEF EAGAIN, ENOSYS
  <2> QED
    BY <1>8, <2>1, ResultInv
<1>9. ASSUME NEW t \in Task, sys_fork(t) PROVE EntryInv'
  BY <1>9, ForkInv
<1>10. ASSUME NEW t \in Task, schedule(t) PROVE EntryInv'
  BY <1>10, ScheduleInv
<1>11. ASSUME NEW t \in Task, sys_exit(t) PROVE EntryInv'
  BY <1>11, ExitInv
<1>12. CASE irq_return
  BY <1>12, IrqReturnInv
<1>13. CASE no_process
  BY <1>13, NoProcessInv
<1>14. CASE resume
  BY <1>14, ResumeInv
<1>15. CASE sched_return
  BY <1>15, SchedReturnInv
<1>16. CASE ret_from_fork
  BY <1>16, RetFromForkInv
<1>17. CASE syscall_fin
  BY <1>17, SyscallFinInv
<1>18. CASE irq_fin
  BY <1>18, IrqFinInv
<1>19. CASE UNCHANGED entryVars
  <2>1. Alone /\ IsRegs(regs') /\ pc' \in Labels
    BY <1>19 DEF entryVars, machineVars, programVars, EntryInv, Machine, Alone, Untouched
  <2>2. /\ cr3' = cr3 /\ pc' = pc /\ regs' = regs /\ kstack' = kstack /\ ustack' = ustack
        /\ errno' = errno /\ called' = called /\ user' = user /\ told' = told
    BY <1>19 DEF entryVars, machineVars, programVars
  <2>3. ASSUME NEW t, NEW l, NEW r PROVE UserAt(t, l, r)' <=> UserAt(t, l, r)
    BY <2>2 DEF UserAt, Promised
  <2>4. ASSUME NEW t, NEW k, NEW fin PROVE InKernel(t, k, fin)' <=> InKernel(t, k, fin)
    BY <2>2 DEF InKernel
  <2>5. ASSUME NEW t, NEW k PROVE Interrupted(t, k)' <=> Interrupted(t, k)
    BY <2>2, <2>3 DEF Interrupted
  <2>6. ASSUME NEW t, NEW k, NEW n PROVE Preempted(t, k, n)' <=> Preempted(t, k, n)
    BY <2>5 DEF Preempted
  <2>7. ASSUME NEW t, NEW k PROVE Child(t, k)' <=> Child(t, k)
    BY <2>2, <2>4 DEF Child, Promised
  <2>8. pc' # "stopped" => Running'
    BY <2>2, <2>3, <2>4, <2>5, <2>6, <2>7 DEF EntryInv, Running, Promised
  <2> QED
    BY <2>1, <2>8, AloneInv
<1> QED
  BY <1>1, <1>2, <1>3, <1>4, <1>5, <1>6, <1>7, <1>8, <1>9, <1>10, <1>11, <1>12, <1>13,
     <1>14, <1>15, <1>16, <1>17, <1>18, <1>19 DEF Next

(* At every label, in user mode, in the kernel and in the middle of a      *)
(* context switch, the words that the code will pop are the ones that it   *)
(* had pushed.                                                             *)
THEOREM EntryInvariance == Spec => []EntryInv
<1>1. Init => EntryInv
  BY EntryInit
<1>2. EntryInv /\ [Next]_entryVars => EntryInv'
  BY EntryStep
<1> QED
  BY <1>1, <1>2, PTL DEF Spec

(* However many processes there are, and whatever happened since, a        *)
(* program finds every register and its stack as it left them.             *)
THEOREM ProgramUndisturbed == Spec => []RegistersKept
<1>1. EntryInv => RegistersKept
  BY AtMain DEF RegistersKept
<1> QED
  BY <1>1, EntryInvariance, PTL

(* errno is that of the last call of the program that failed.              *)
THEOREM ErrnoIsItsOwn == Spec => []ErrnoTold
<1>1. EntryInv => ErrnoTold
  BY AtMain DEF ErrnoTold
<1> QED
  BY <1>1, EntryInvariance, PTL

(* A waiting process has its context whole, whatever the others do, and no *)
(* return of any stack leads out of the code.                              *)
THEOREM ContextWaits == Spec => []ContextsWhole
<1>1. EntryInv => ContextsWhole
  <2> SUFFICES ASSUME EntryInv PROVE ContextsWhole
    OBVIOUS
  <2>1. pc # "lost"
    BY DEF EntryInv, Machine, Labels, UserLabels
  <2>2. ASSUME NEW t \in ready
        PROVE  /\ Len(kstack[t]) = kernel_esp[t]
               /\ target(kstack[t][kernel_esp[t] - 1]) \in {"task_switch", "ret_from_fork"}
    <3>1. PICK k : k = kstack[t]
      OBVIOUS
    <3>2. /\ kernel_esp[t] = Len(k)
          /\ \/ Len(k) = 26 /\ Preempted(t, k, 26)
             \/ Len(k) = 19 /\ k[18] = Label("ret_from_fork")
      BY <3>1 DEF EntryInv, Waiting
    <3>3. CASE Len(k) = 26 /\ Preempted(t, k, 26)
      <4>1. k[25] = Label("task_switch")
        BY <3>3 DEF Preempted
      <4> QED
        BY <3>1, <3>2, <3>3, <4>1, Targets
    <3>4. CASE Len(k) = 19 /\ k[18] = Label("ret_from_fork")
      BY <3>1, <3>2, <3>4, Targets
    <3> QED
      BY <3>2, <3>3, <3>4
  <2> QED
    BY <2>1, <2>2 DEF ContextsWhole
<1> QED
  BY <1>1, EntryInvariance, PTL

(* The words under the return address of a routine are the arguments that  *)
(* the program passed, whichever way it came.                              *)
THEOREM ArgumentsArrive == Spec => []ArgsPassed
<1>1. EntryInv => ArgsPassed
  <2> SUFFICES ASSUME EntryInv, pc = "routine"
               PROVE  LET k == kstack[esp]
                          w == called[cr3]
                      IN  \A i \in 1 .. IF w = "raw" THEN 3 ELSE nargs(w) :
                            k[Len(k) - i] = IF w = "raw"
                                            THEN user[cr3][<<"ebx", "ecx", "edx">>[i]]
                                            ELSE Arg(i)
    BY DEF ArgsPassed
  <2>1. esp = cr3 /\ Len(kstack[cr3]) = 17
    BY DEF EntryInv, Machine, Running
  <2>2. PICK fin \in {"sysenter_fin", "fin"} : InKernel(cr3, kstack[cr3], fin)
    BY DEF EntryInv, Machine, Running
  <2>3. PICK k, s, w, u : /\ k = kstack[cr3] /\ s = ustack[cr3] /\ w = called[cr3]
                          /\ u = user[cr3]
    OBVIOUS
  <2>4. PICK r : r = slots(k)
    OBVIOUS
  <2>5. r.ebx = k[16] /\ r.ecx = k[15] /\ r.edx = k[14]
    BY <2>4 DEF slots
  <2>6. BySysenter(s, w, u, r) \/ ByWrite(s, w, u, r) \/ ByRaw(s, w, u, r)
    BY <2>2, <2>3, <2>4 DEF InKernel
  <2>7. Len(k) = 17 /\ 17 - 1 = 16 /\ 17 - 2 = 15 /\ 17 - 3 = 14
    BY <2>1, <2>3
  <2>8. CASE BySysenter(s, w, u, r)
    <3>1. /\ w \in CALLS \ {"write"} /\ w # "raw" /\ nargs(w) \in 0 .. 2
          /\ nargs(w) > 0 => k[16] = Arg(1)
          /\ nargs(w) > 1 => k[15] = Arg(2)
      BY <2>5, <2>8, EntryAssumption DEF BySysenter, SysenterStack, nargs
    <3>2. ASSUME NEW i \in 1 .. nargs(w) PROVE k[17 - i] = Arg(i)
      <4>1. CASE i = 1
        BY <2>7, <3>1, <4>1
      <4>2. CASE i = 2
        BY <2>7, <3>1, <4>2
      <4> QED
        BY <3>1, <4>1, <4>2
    <3> QED
      BY <2>1, <2>3, <2>7, <3>1, <3>2
  <2>9. CASE ByWrite(s, w, u, r)
    <3>1. /\ w # "raw" /\ nargs(w) = 3
          /\ k[16] = Arg(1) /\ k[15] = Arg(2) /\ k[14] = Arg(3)
      BY <2>5, <2>9 DEF ByWrite, WriteStack, nargs
    <3>2. ASSUME NEW i \in 1 .. 3 PROVE k[17 - i] = Arg(i)
      <4>1. CASE i = 1
        BY <2>7, <3>1, <4>1
      <4>2. CASE i = 2
        BY <2>7, <3>1, <4>2
      <4>3. CASE i = 3
        BY <2>7, <3>1, <4>3
      <4> QED
        BY <4>1, <4>2, <4>3
    <3> QED
      BY <2>1, <2>3, <2>7, <3>1, <3>2
  <2>10. CASE ByRaw(s, w, u, r)
    <3>1. w = "raw" /\ k[16] = u.ebx /\ k[15] = u.ecx /\ k[14] = u.edx
      BY <2>5, <2>10 DEF ByRaw
    <3>2. ASSUME NEW i \in 1 .. 3 PROVE k[17 - i] = u[<<"ebx", "ecx", "edx">>[i]]
      <4>1. CASE i = 1
        BY <2>7, <3>1, <4>1
      <4>2. CASE i = 2
        BY <2>7, <3>1, <4>2
      <4>3. CASE i = 3
        BY <2>7, <3>1, <4>3
      <4> QED
        BY <4>1, <4>2, <4>3
    <3> QED
      BY <2>1, <2>3, <2>7, <3>1, <3>2
  <2> QED
    BY <2>6, <2>8, <2>9, <2>10
<1> QED
  BY <1>1, EntryInvariance, PTL
=============================================================================
