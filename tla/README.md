# ZeOS in TLA+

A model of the ZeOS kernel of this repository (`src/zeOS`): a teaching kernel for
one i386 processor, with processes, a round robin with two classes, regulation of the
frame rate, a keyboard buffer and dynamic memory by `sbrk`. The modules are
translated from the C and assembly sources; `PROJECT.json` names the lines each
definition stands for.

## 1. The system

| component | state | operations | interacts with |
|---|---|---|---|
| process table and scheduler (`sched.c`, `sys.c`) | `task[]`, `freequeue`, `readyqueue`, `priorityqueue`, `quantum_ticks`, `nextPID`, the task the stack pointer lies in | `schedule` (clock), `sys_fork`, `sys_exit`, the change of class in `sys_set_fps`, `get_task` | memory (a fork needs frames), regulation (classes), statistics |
| frames-per-second regulation (`sched.c:193`, `sys.c:233-262`) | `spf_PID`, `spf_ticks`, `spf_sem`, `gfps`, `spf_last_screen` | `sys_set_fps`, `sys_put_screen`, `schedule_fps` (clock) | the scheduler: what the clock does depends on who runs |
| keyboard and circular buffer (`interrupt.c`, `circular_buffer.c`) | `buffer`, `read`, `write` | `keyboard_routine` (interrupt), `sys_get_key`, `sys_fflush` | user programs |
| memory (`mm.c`, `sys.c`) | `phys_mem`, a page table per PCB, `brk` | `alloc_frame`, `free_frame`, `set_ss_pag`, `del_ss_pag`, `sys_sbrk`, the memory half of `sys_fork` and `sys_exit` | process table |
| statistics (`sched.c:204-232`) | `struct stats` of every PCB | `user_to_sys`, `sys_to_user_ready`, `ready_to_sys`, `sys_get_stats` | every entry to the kernel, the context switch |
| system-call entry, context switch (`entry.S`) | system stacks, `kernel_esp`, `tss.esp0`, the MSR of `sysenter`, registers | the handlers, dispatch by table, `task_switch` | everything |
| console and `sys_write` (`io.c`, `sys.c:178`) | cursor | `printc`, `print_screen`, `sys_write` | user programs |
| intrusive lists (`list.c`) | `next`, `prev` | `list_add`, `list_add_tail`, `list_del` | process table |
| user library (`libc.c`, `wrapper.S`) | `errno`, the user stack | wrappers, `perror`, `itoa` | system-call entry |
| boot, segments, IDT (`bootsect.S`, `system.c`, `hardware.c`), image builder (`build.c`) | the image, physical memory, `cr3`, `tss.esp0`, the MSR of `sysenter`, the IDT | the steps of `build` and of `main` | process table and memory, which they initialise |

**What runs concurrently.** There is one processor, and every entry to the kernel
masks interrupts: all gates are interrupt gates, that of `int 0x80` included
(`setTrapHandler` sets the same type, `interrupt.c:72`), and `sysenter` masks them
itself. So a handler is one action where only its effect matters (`Entry` alone
takes them apart, to tell what lies in the stacks); what is hard is the order of
handlers: a clock tick between any two system calls, a change of class between a
fork and a tick, the keyboard between two reads. The rest of the difficulty is in
partial failure (a fork without frames), reuse (PCBs, PIDs, frames, page tables
outlive processes), sentinels (-1 in counters, NUL in slots, an aligned `brk`)
and empty lists.

**What makes each component correct.** Scheduler: a PCB is in one place, queues
agree with classes, PIDs are unique, whoever waits runs, somebody runs.
Regulation: no more frames than asked for, none delayed for nothing, every
delayed screen shown, the rate kept until given up. Keyboard: every key once and
in order. Memory: frames are private, mapped frames are in use, all of the address
space is mapped, nothing is lost at exit, and what the processor keeps of the page tables
lets nobody reach a frame of another. Statistics: ticks are attributed once, and the ticks
left are those of the slice. Lists: pointers implement sequences. Entry: a program goes on
with the registers, stack and result it should have, routines get their arguments,
waiting contexts stay whole. Console: what is written is shown, and counted. Boot: the first
process gets its program whole, and the initial states of the other models are what `main` leaves.

## 2. The modules

| module | what it is |
|---|---|
| `Sched` | process table and scheduler: one action per handler (`schedule`, `sys_fork` by its three ways out, `sys_exit`, `set_nice`) |
| `Processes` | what process management promises, with no lists, classes or slices |
| `Fps` | the regulation, over `Sched`: `clock_routine` is `schedule_fps` followed by `schedule` |
| `Stats` | the accounting of ticks over `Sched`: each handler with the routines it calls at its entry, at its end and around a switch |
| `Keyboard`, `KeyQueue` | the buffer with its interrupt and system calls, and the queue it promises |
| `Console`, `Screen` | the cursor, `sys_write` by pieces, numbers and messages of the user library, and the screen of cells they promise |
| `Terminal` | `Keyboard` and `Console` together, under a program that writes the keys it reads; states that `Console` implements `Screen` |
| `Memory` | frames, page tables and `brk`, over `Sched`: `mem_fork` chooses between the ways out of `sys_fork` by the frames there are |
| `Translate` | `Memory` with the translations that the processor keeps (TLB) |
| `Boot` | from the files that `build` joins to the first instruction of the first process, over `Memory` and `Sched` |
| `Lists` | the scheduler again, over the circular lists of `list.c` and their pointers; implements `Sched` |
| `Entry` | wrappers, handlers, system stacks and `task_switch`, word by word |
| `SchedProofs`, `FpsProofs`, `TerminalProofs`, `StatsProofs`, `MemoryProofs`, `ListsProofs`, `BootProofs`, `EntryProofs` | theorems about the module of that name; those about `Translate` are in `MemoryProofs`, those about `Keyboard` and `Console` in `TerminalProofs` |
| `MCSched`, `MCStats`, `MCFps`, `MCTerminal`, `MCMemory`, `MCTranslate`, `MCLists`, `MCEntry`, `MCBoot` | instances for TLC |

*Sched.* A task is its index in `task[]`. The three lists are sequences of
tasks. `current` is the task whose stack the processor is on, or `NoTask` when
`sched_next_rr` has taken the head of an empty list for a task:
`list_first(&readyqueue)` is then the list head, `list_head_to_task_struct`
yields an address in the middle of unrelated variables, and page directory and
stack are read from there. Nothing useful can be said of what follows, so the
model stops. `NR_TASKS` PCBs are pushed on `freequeue` in order, so
`init_idle` and `init_task1` take the last two. Free PCBs keep their fields,
because `get_task` looks at them. `quantum_ticks` is -1 or 0 at the start: 0 when a tick
arrives between `enable_int` and the first instruction of the first process, as `Boot` shows.
`sys_fork` in this module may fail for lack
of frames at any time; `Memory` says when.

*Fps.* The screen pointer `spf_last_screen` is modelled as the PID of the process
whose address space it is a pointer of. `frames` counts what the regulated process
has shown in the period, for the properties.

*Stats.* `now` is what `get_ticks` returns, a counter of the processor that has nothing to do with
`zeos_ticks`. A handler reads it two times in each routine it calls, and `Reads(n)` are the
values that `n` reads in a row may give: time goes on inside a handler. A handler of the same
process is four reads; a switch is eight, the last four of which belong to the process that enters:
`ready_to_sys` in `inner_task_switch`, then the end of the handler in which it had left (or of
the fork that made it). `remaining_ticks` is what `get_stats` tells; asking about another process
overwrites the other's with the caller's, which lasts until the other is let in: its routines write
the ticks of its own slice (`RemainingTold` after every step is `RemainingExact`). `birth` and `enomem` serve the properties.

*Keyboard.* A character is the number of the key press it comes from, so that two
presses of a key differ; NUL is 0. `got`, `delivered` and `overrun` serve the
properties. After an overrun the reader and the writer are out of step:
`get_key` may then report no input while characters lie further on, up to the
next `fflush`. `KeyQueue` allows it, as test 2 of `tests/README.md` shows the
reordering as the buffer's way to work.

*Console.* A character is a number, a buffer the sequence of characters from its address on.
`stored` is what the last call put in the video memory, so that screens need not be
remembered. The loop of `sys_write` counts to the number of chunks by the size of a chunk:
below 250000 characters it copies one chunk at most and then the rest of the division, whatever
lies between. So a write of 1300 characters shows 800, and returns 800; one of 1000 shows 500 and
returns 0. `Screen` knows of no pieces: it shows a text, which is a beginning of what
was asked, from a cell on. The clock, which is in `libzeos.a`, stores its cells at the end of the
first row directly; it is external. So is its time.

*Terminal.* The program is the one in the comment in `user.c`'s loop. Between any two of its calls come keys,
the clock and the calls of other programs. Where a key is pressed twice the presses differ, so `EchoShown` tells which of them was shown.

*Memory.* The map of frames is the set of used ones; a page table is a function
from user pages (code, data and stack, heap) to frames, 0 being an empty entry;
`brk` is an address in a word that has `WORD` values, unsigned in `sys_sbrk` and signed in
`sys_fork` and `sys_exit`, as in the code. `Page` has the user entries that a table of `TOTAL_PAGES` has, and
`set_ss_pag` and `del_ss_pag` do not look where it ends: an entry written past it makes the table longer, and
`MemTypeOK` says that this never happens. A release of more than all the addresses below `brk` wraps (`sys.c:304`) and
makes the process `Wild`: it goes on, is switched and exits, but its forks and calls of `sbrk` are left out (section 5). The loops of `alloc_frame` are taken as
a whole (interrupts are masked); a loop that fails half-way gives back exactly
what it got, so it leaves the map as it was. The kernel's pages, equal in
all page tables, are left out.

*Translate.* `tlb` is a part of the running process's page table as it was at some time since the
last write to CR3; the processor keeps what a program uses and forgets at will.
What an access reaches is the kept frame, or that of the page table; contents are not modelled,
as the frame that is read or written is what decides them. `released` remembers that
`sbrk` removed pages since the last flush.

*Boot.* The words of a file are pairs of the file's name and their position, so the memory after
`copy_data` tells where every word came from. The steps of `main` that set up one thing each are one
action each. The routines that `main` calls share their state with `Sched` and `Memory`,
so `LeavesInit` is `MemInit` (and with it `Init` of `Sched`) itself. A program that is larger than its pages faults in the copy.

*Lists.* `links` holds the `next` and `prev` of every PCB and of the three heads;
NULL is -1. Every operation of `list.c` is an operator on a value of `links`, and
the handlers compose them in the order of the code. `elements(links, head)` follows `next`
from a head, and is the sequence that `Sched` has: `INSTANCE Sched WITH` these
sequences makes `ImplementsSched`, which is proved. So what is proved of `Sched` holds of the pointers. `RunningUnlinked` is why the test for NULL in
`update_process_state_rr` is right, and why the pointers `sys_fork` copies into the
child do no harm.

*Entry.* A stack is a sequence of words, the first pushed first, and a word says
what it is (an argument, a label, a register's value at the time, ...). `pc` is a label
of the assembly code; the steps are the user code up to `sysenter` or `int 0x80`, the
handler up to its routine, the routine, the way out, the rest of the wrapper, and,
when the CPU changes hands, `task_switch` up to the `ret` on the next stack and what is
left of it. Interrupts come at any step of user mode. `user` and `told` (history)
record what a program must find; the routines' results are any of a small set, and the
wrappers are one of each form, which is how far they differ. The stacks of free PCBs, and
memory of ended processes, are left out. Number `MAX_SYSCALL`, which `jg` lets through
(`entry.S:94`), is passed by no program (`EntryAssumption`).

Definitions that say "Mutant of ..." in their comment are deliberate bugs, used
by no specification: put in the place of the definition they follow, they make
TLC find a property violated.

## 3. What is checked

Runs that pass (`tlc -config X.cfg M`, `X` the first column):

| run | module | bounds | shows |
|---|---|---|---|
| `MCSched` | `MCSched` | 5 PCBs, quantum 2, 4 forks | `TypeOK`, `OnePlace`, `QueueOfClass`, `LivePIDs`, `LostOnlyWithoutReady`, `PriorityShare`; `Sched` implements `Processes`; `NoStarvation` |
| `MCStats` | `MCStats` | 3 PCBs, quantum 1, 2 forks, 3 clock interrupts, 2 ticks of `get_ticks` | `NoTickTwice`, `ChargedOnce`, `RemainingExact`, `StatsExact` |
| `MCFps` | `MCFps` | 4 PCBs, 2 forks, period 7, rates 0 and 2 | `FpsTypeOK`, `FrameBudget`, `DelayedOnlyOverBudget`, `DelayedShown` |
| `MCTerminal` | `MCTerminal` | 3 slots, 5 keys; a screen of 3 by 2, pieces of 2 | `Contiguous`, `ReadOnce`; `Keyboard` implements `KeyQueue`, `Console` implements `Screen`; `EchoShown` |
| `MCTranslate` | `MCTranslate` | 3 PCBs, 5 frames for the programs, `sbrk` of 1, 4, -1, -2 and -20 (which wraps) with pages of 2, a TLB of 2 | `MemTypeOK`, `FramesPrivate`, `MappedIsUsed`, `AddressSpaceMapped`, `DataKept`; `NoLeak` and `Coherent` until a heap has grown to the end of a page or a release has wrapped; `ReachesOwn` |
| `MCLists` | `MCLists` | 5 PCBs, quantum 1, 3 forks | `WellLinked`, `RunningUnlinked`; `Lists` implements `Sched` |
| `MCEntry` | `MCEntry` | 2 PCBs, the 36 entries of the table, 5 wrappers, 3 numbers by `int 0x80` | `RegistersKept`, `ErrnoTold`, `ArgsPassed`, `ContextsWhole` |
| `MCBoot` | `MCBoot` | 3 PCBs, systems of 3 to 5 words and programs of 0 to 9, pages of 2 | `LeavesInit`, `UserLoaded`, `SystemKept`, `InterruptsReady` |

Runs that find a violation, each a disagreement between the code and what its
documents or comments say (`findings` in `PROJECT.json` quotes both):

| run | module | the code |
|---|---|---|
| `MCSomebodyRuns` | `MCSched` | a process with priority leaves the CPU while only processes with priority wait: the CPU is lost (`sched.c:173`) |
| `MCRegulationKept` | `MCFps` | two ticks after the end of a period that find other processes running turn off the regulation of a process that is alive (`sched.c:194`); 3 processes, with the period (18) and the quantum (3) of the code |
| `MCExitFreesFrames` | `MCMemory` | a heap that ends at a page's end leaks a frame at exit (`sys.c:287`, `sys.c:163`) |
| `MCForkInherits` | `MCTranslate` | a fork after a release by `sbrk`, in the same slice, copies the data through what the processor kept of the released page (`sys.c:312`, `sys.c:124`) |

More facts about the code are known and have no run of their own:

- When the last process exits, idle is not run (`sched.c:170-173`; `src/README.md:552` says it is
  what idle is for): in the models the CPU is lost.
- A release by `sbrk` of more than all the addresses below `brk` wraps and raises it
  (`sys.c:304`). The process keeps its code and data and disturbs nobody (`MCTranslate`), but its exit
  counts a negative number of pages and frees nothing (`sys.c:160-163`).
- A fork that fails for lack of memory leaves the parent's PID, and a copy of its
  statistics, in a free PCB, where `get_task` finds it before the live one (`sys.c:72`).
  `StatsExact` excepts it.
- After `set_fps` by another process the clock may show the screen that the first one left, which it
  reads in the address space of the second (`sched.c:199`).
- `stats.h:12` says `total_trans` counts the times the process has got the CPU; a slice that is renewed
  for a process alone is counted too (`sched.c:149`), as its comment says.
- No descriptor is refused by `write` (`sys.c:183`), and `get_stats` accepts a buffer in pages of code,
  or one that ends in the page after the data (`utils.c:80-82`).
- The code pages of a child are writable, those of the first process are not (`sys.c:109`,
  `mm.c:245`).

**Bounds.** `MAX_PID` bounds the forks (`nextPID` is never reused; a PCB is, and
with 5 PCBs, 3 of them free at the start, 4 forks reuse one and fill the table).
A quantum of 2 has all the cases of a slice: more than a tick left, one left, and
the -1 of the start. In `MCStats` (`MAX_TIME`, `MAX_TICKS`) two ticks of `get_ticks` fall anywhere
among the reads of all handlers, in one or in two of them, and three clock
interrupts with a quantum of 1 switch to a process and back; `MCBUFFERS` are a buffer that is
accepted, though it ends in the page after the data, and one of the kernel. A period of 7 ticks is longer than a slice of five quanta, so periods
end while the regulated process runs and while it does not; a period shorter than the
slices would be missed by it for ever. `MAX_EXTRA` bounds the screens shown while `spf_PID` is
set and `spf_ticks` is -1, where the semaphore goes down without limit. Three slots and five keys go around
the buffer and overrun it, and `AnyWrite` has a piece and a rest, more pieces than `CHUNK`, whole pieces, a new line and both
errors, on a screen with three columns and two rows, so that every text wraps somewhere.
Five frames are fewer than two processes with heaps
need, so that every allocation fails somewhere; the increments cross pages, end
at their end and inside them, shrink by less and by more than there is, and -20 is below address 0 for every heap that fits. `TLB_ENTRIES` is 2: one entry for a
page that is released and one for a page of another kind. In `MCExitFreesFrames` there are 7 frames.
Five PCBs give a list of four, so that an element has neighbours on both sides that are no heads.
Two PCBs in `MCEntry` are enough to enter the stack of another one, and to come back
to a PCB that was freed and forked again; the three numbers are one that is not implemented,
one whose routine has arguments, and one beyond the table. In `MCBoot` the files cross the buffer of `build` and the
program crosses every page of its address space, up to one word too many.

**Fairness.** The clock is fair (`WF(schedule)`, `WF(clock_routine)`): the
timer is programmed at boot and never masked again, and every handler
returns with interrupts enabled. In `Terminal` the program is fair (`WF(Program)`): it is always ready, and
`NoStarvation` says that a ready process gets the CPU again. Nothing else is assumed of processes. `NoStarvation` speaks of runs with
finitely many forks, which the bound on PIDs makes of all the runs: with an endless chain
of children that are born with priority and give it up, `readyqueue` would
grow and its last element wait longer and longer. `DelayedShown` assumes that
`set_fps`, which starts the period again, is not called for ever, and lets go of the screen when the regulation
goes off, the process ends or the CPU is lost.

**Deadlock** is not checked in the models with a scheduler, because the system does
stop when the CPU is lost; `SomebodyRuns` and `LostOnlyWithoutReady` say when. Nor in
`MCBoot`, which ends in user mode or when the build fails, and in `MCEntry`, where the last process may
exit. It is checked in `MCTerminal`.

## 4. What is proved

Each theorem holds for every value of the constants that the module's assumption allows.
`PROJECT.json` lists the theorems, and the property of a run that each one states. Before a proof was tried,
TLC checked its inductive invariant on the instance of the run.

`Fps`, `Stats`, `Memory`, `Translate` and `Boot` extend `Sched`, and every one of their
steps is a step of `Sched` or leaves it alone (`FpsKeepsSched`, `StatsKeepsSched`, `MemKeepsSched`,
`TransKeepsMem`). So their proofs start from `IInv`, the invariant of the process table, and what is
proved of `Sched` is true in each of them.

**`SchedProofs`** (`SchedAssumption`: `NR_TASKS >= 2`, `QUANTUM >= 1`, any `MAX_PID`)

- `Invariance`: `Spec => []IInv`, where `IInv` is the conjunction of `TypeOK`,
  `OnePlace`, `QueueOfClass`, `LivePIDs` and `LostOnlyWithoutReady`. They are
  proved together because they need one another: that a change of class leaves
  the queues right needs `OnePlace` (the running task is in no queue), that a fork
  writes no live PCB needs it too, and that the child's PID is new needs
  `LivePIDs`. `LostOnlyWithoutReady` follows since a low-class process is
  put in `readyqueue` before it is asked for its first element, and
  `sched_next_rr` gives up only when that is empty. There is one lemma per action;
  `SchedNext` carries the common part, what the dispatcher does with any two
  disjoint queues, and `AppendFacts` and `TailFacts` what list operations do.
- `TypeCorrect`, `PCBsInOnePlace`, `WaitingByClass`, `UniquePIDs`, `ReadyKeepsCPU`:
  its parts. `TypeCorrect` lets the slice start at -1 or 0, the two values `Boot` leaves.
- `Share`: `Spec => PriorityShare`. The slice is chosen by who leaves, yet comes
  out as a function of who enters, because of `QueueOfClass`.
- `Refinement`: `Spec => ImplementsProcesses`, by one lemma per abstract action.

**`FpsProofs`** (`FpsAssumption`: any period, rates and bound on screens). `FpsInv` is `FpsTypeOK` and
`FrameBudget`, which are inductive together given `IInv`. `FpsDelay` (`DelayedOnlyOverBudget`) is an action property.

**`TerminalProofs`** (`KeyboardAssumption`: any size of the buffer, any number of keys; `ConsoleAssumption`: any size of the screen and
of the pieces, any writes that are not longer than their buffers, any 32-bit numbers; `NumbersFit`: a number takes less than two pieces, as it has
at most ten digits and a piece is 500 characters)

- `SlotsContiguous`. The code counts nothing, so `Contiguous`, which speaks of a number of slots, is not
  inductive. `Filled` says which slots they are: going round from `read`, first those with a character, then
  those without, and `write` is where the second begin. A full and an empty buffer have `read = write`, and
  `Filled` tells them apart by the slot.
- `KeysReadOnce`, from `Unread`: a character in the buffer is in one slot and has not been given to anybody.
- `QueueRefinement`: the sequence that the refinement mapping reads off the slots changes as
  the queue of `KeyQueue` does.
- `TerminalKeepsKeyboard`: under the program and the console the keyboard is still a `Keyboard`, so the three above hold there.
- `ScreenRefinement`: `TerminalSpec => ImplementsScreen`. From one call to the next only the cursor and the key read
  count, and `TerminalInv` (`TerminalInvariance`) says that the one is on the screen and the other is a key. The rest is what loops compute,
  and each is a recursive function, here and in `Screen`: a witness is shown to satisfy the equation, and to be the only one by the least counterexample.
  `PrintcNext` is one character: row and column go on as the cell does at the end of a row and of the screen. `PrintingSteps`, `PlaceIs` and
  `CellsAre` are the loop of `sys_write_console`: each character is in its place, and a cell shows the last one stored
  in it. `Pieces` and `CopiedIs` are the loop of `sys_write`: what it copies is a beginning of the buffer, the whole
  of it below two pieces. `ItoaDecimal`: the remainders that `itoa` turns round are the digits of `Decimal`.

**`StatsProofs`** (`StatsAssumption`). `EachTickOnce` (`NoTickTwice`) needs `Accounted`: the sum of what a process was
charged reaches up to its last reading of the clock, and that is in the past. `ProcessorOnce` (`ChargedOnce`) needs `Spent`: what all
live processes were charged, together, reaches up to the last reading of the process that runs. A handler charges the process that goes on
no more than the time since; a switch charges the one that leaves up to an instant and the one that enters from it. The sum over
the tasks is a recursive function; that it exists, and changes as its one changed term does (`SumChange`), is shown by the least counterexample. `GetStatsFinds` (`StatsExact`) needs
`FreeUnnamed`: but for the fork that fails for lack of frames, no free PCB has the PID of a live one. `RemainingOfSlice` is an action property.

**`MemoryProofs`** (`MemoryAssumption`: any sizes; user addresses begin after the kernel's pages, twice all that can be
mapped is less than `WORD`, and `sbrk` is asked for no more than all of user memory, though it may release
anything). `MemInv` adds to the properties

- where frames come from: `CodeShared` and `CodeUsed` (the pages of code hold the first process's frames, which are
  never given back), `FromAlloc` (data and heap hold frames that `alloc_frame` found), `Distinct`. `FramesPrivate` does not survive a fork
  without them, as the child's code is the parent's;
- `Heaps` and `Mapped`: a heap has as many pages as `brk` says, and so never more than there are frames, which is
  why the page table does not overflow though `sys_sbrk` does not look: `alloc_frame` finds no more than every
  second frame, so data, heap and the pages a fork borrows end before the last entry (`LastPage`);
- `Tame`: no live process is wild unless `exact` is FALSE. `HeapPages` is the heap of a process, none when its `brk` has
  wrapped; `WrappedMod`, `WrapFacts` and `HeapWrapped` say what the sum and the sizes are then;
- `Exactly`: as long as no heap has ended at the end of a page and no release has wrapped, the frames in use are those of somebody (`NoLeak`).

That `alloc_frame` returns distinct free frames in rising order is shown by their rank among the free ones, and that the
frame of a rank exists by the least counterexample (`SmallestNumber`, of `SchedProofs`): a first-order fact, where the library's
theorems of induction cannot be used.

The theorems about `Translate` (`TranslateAssumption`) follow in the same module. A frame that is kept, and was released, may be handed out again, so `ReachesOwn` is not inductive.
`Apart` says it of every PCB, dead ones included: no page table but the running process's has a frame that is kept.
Frames change hands only in a fork or after a switch, and either empties the TLB.

**`ListsProofs`** (`ListsAssumption`, that of `Sched`). That `next` and `prev` agree is not inductive: `list_first` must find an
element of that list and of no other, and what is deleted must be where its callers take it to be. So `ListsInv` says
what the pointers thread: there are three sequences of PCBs, no PCB twice in them (`Once`), the running one in none, such that
those of each head are a ring with the head (`Ring`) and all other PCBs have NULL pointers (`Threaded`). The head of an empty list, which
`sched_next_rr` takes for a task and deletes, is in no ring from then on (`Heads`).

- `InsertThreads`, `DeleteThreads`, `DeleteHeadThreads`: what `__list_add` and `list_del` do to the rings, from which
  `AddThreads` and `AddTailThreads` (`list_add` pushes, `list_add_tail` appends), and for the handlers `UpdateThreads`, `NextThreads`,
  and `CopyThreads` (the pointers that `sys_fork` copies over the child's are NULL, since the parent is in no ring).
- `ElementsAre`: following `next` gives back the sequence that the ring threads. `walk` and `init_sched` are recursive functions; a witness is shown to satisfy
  the equation, and to be the only one by the least counterexample (`LeastNumber`).
- `ListsRefinement` (`Spec => ImplementsSched`) with one lemma per handler, and `Whole` (`WellLinked`) and `ToldByNull` (`RunningUnlinked`) from
  the invariant.

**`BootProofs`** (`BootAssumption`: any sizes that fit below the program's addresses). The steps come in one order, so
`BootInv` says phase by phase what the image holds while `build` writes it (`ImageInv`),
what the kernel's structures are (`TablesInv`), and which word is at which address (`MemoryInv`). `ProgramLoaded` and `SystemUntouched` rest on
`PlaceFacts`: different words of the user space are at different addresses, none of them the system's. `MainLeavesInit`
says that the initial states of `Sched` and `Memory` are reached, so what is proved from them is proved of the system from power on.

**`EntryProofs`** (`EntryAssumption` and `NumberAssumption`, that the table has the numbers of the wrappers: `sys_call_table`
has 36 entries and the highest number is 35). What a program finds was pushed by its wrapper, the processor, `SAVE_ALL` and
`task_switch`, and is popped by other code. So `EntryInv` says for every label which word is where: for the process that has the CPU
(`Running`), and for each one that waits (`Waiting`: preempted, with 26 words, or a child with 19), and what the registers saved there have
to do with those that the program must find (`UserAt`, `InKernel`, `Promised`). `ProgramUndisturbed`, `ErrnoIsItsOwn`,
`ArgumentsArrive` and `ContextWaits` follow. A waiting process keeps its part because no step writes
what is its own (`WaitingKept`), which in turn needs that `cr3`, `esp`, the TSS and the MSR all name the same process (`Machine`).

**Only model-checked.** The liveness properties (`NoStarvation`, `DelayedShown`, `EchoShown`): fairness and `ENABLED` are out of the prover's
reach. And the four runs that find a violation: there a counterexample is the answer.

## 5. What is not modelled

- Segment descriptors and privilege levels, the 8259 and the real-mode part of the boot sector: they are set
  once by constants, and hold no state that changes later.
- The rights of page entries, the contents of pages and screens, colours, and the port of the
  debugger. `printc_xy` is called by nobody.
- The 133 texts of `perror`, the values of `errno` that no handler returns.
- The loops of `copy_data`, `copy_to_user` and `copy_from_user`: straight code that copies what it is
  asked, modelled by what it copies where that matters.
- The sector loads of `read_it` one by one: the image arrives whole.
- Frames above `TOTAL_PAGES` and addresses outside user pages.
- `fork` and `sbrk` of a process whose `brk` has wrapped: a fork declares an array of negative length (`sys.c:81`), a growth
  or release computes pages far past the table's end. Nothing can be said of what they do.
- Growths of more than all of user memory in one call: the array of `sys_sbrk` for the frames (`sys.c:289`) has a word per page
  and lies on a system stack of one page, which those of about 900 pages and more run over. `MemoryAssumption` bounds
  the increments for that reason; the bound, 768 pages in the code, is a little below that.
- Number `MAX_SYSCALL`, which the dispatcher lets through and nobody passes.
- The tests, which are programs: their calls are those of the models, in any order.

## 6. Plan

The components of section 1 are modelled, every safety property of the passing runs is proved, and every refinement.
The liveness properties stay with TLC. If the code changes, the first to follow are `copied` (the counter of the loop of `sys_write`) and
`NumbersFit`, which depends on `chunk_size`.
