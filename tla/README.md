# Yalnix: a verification project

Yalnix (`src/Yalnix_OS`) is a small operating system kernel, written in C for
the simulated RCS 421 machine. This directory holds a TLA+ model of the kernel,
TLC configurations that check it on small instances, and proofs, checked by
TLAPS, that what holds there holds for every number of processes, terminals,
frames, pages and nodes: all safety properties and all refinements of the runs
that pass. Liveness is checked by TLC only.

It has four parts, which share no variables:

* the *kernel* (`Yalnix`): processes, scheduling and terminals, and the kernel
  stacks suspended in the middle of handlers that tie them together;
* *memory* (`Memory`): frames, address spaces, the kernel heap and page tables;
* the *lists* (`LinkedList`): nodes and pointers, and the loop of the clock
  handler that walks along one list while it changes it;
* the *timer* (`DelayTimer`): the widths of the numbers that Delay compares.

The first takes lists for sequences and a delay for a countdown; the last two
show when that is right. File names below are relative to `src/Yalnix_OS`.

## The system

### Parts

| part | where | state it keeps | operations |
|---|---|---|---|
| process calls | `kernel.c` | PCBs with `parent`, `running_children`, `exited_children`; `processQueue`, `wait_queue`, `delay_queue`; `pid_counter` | Fork, Exec, Exit, Wait, GetPid, Delay |
| scheduler and clock | `trap.c` 17-76, 223-233 | `runningQueue`, `runningTime` per process, `total_runningTime`, `delay_until` | clock interrupt, `scheduleNextProcess` |
| termination | `trap.c` 82-217, 292-320, `yalnix.c` 508-546 | the PCB lists above | `TerminateProcess`, `notifyParent`, `notifyChildren`; freeing the PCB and Halt in `MySwitchFunc` |
| terminal input | `kernel.c` 351-398, `trap.c` 323-370 | per terminal: `inputBuffer`, `readQueue`, `readReady` | TtyRead, receive interrupt |
| terminal output | `kernel.c` 401-449, `trap.c` 373-416 | per terminal: `writeQueue`, `transmitPCB`, `writeReady` | TtyWrite, transmit interrupt |
| context switch | `yalnix.c` 420-560 | `curr_proc`, the saved contexts and kernel stacks | `MySwitchFunc` |
| linked lists | `linked_list.c` | doubly linked nodes, head, tail | enqueue, dequeue, peek, search and remove, free |
| memory | `kernel.c` 252-323, `trap.c` 236-302, `helper.c` 395-624, `yalnix.c` 134-320 | the list of free frames and `free_pframe_count`, page tables of both regions, the half page left over by a Region 0 table, `kernel_brk` | Brk, stack growth, `SetKernelBrk`, frame and table allocation, the copy made by Fork |
| loader | `helper.c` 35-390 | page table of the process | `LoadProgram`, Exec |
| boot | `yalnix.c` 58-414 | all of the above, once | `KernelStart` |
| user programs | `idle.c`, `init.c`, `Test/` | - | they issue the calls |

### How the parts interact

The machine has one CPU and delivers interrupts only in user mode, so kernel
code is never interrupted. It is, though, *suspended*: `ContextSwitch` saves the
kernel stack of the running process inside whatever handler it was executing
and lets another process run. When the suspended process is switched to again,
possibly after many other traps, the handler goes on behind the call with
whatever it remembers. All parts share the ready queue, the current process and
the PCBs, without locks and without a process state field: what a process waits
for is expressed only by the list its PCB is in and the place at which its
kernel stack is suspended.

* Process calls, clock and terminal calls move the PCB of the running process
  into a list and switch to the head of `runningQueue`, or to idle.
* Exit moves the parent from `wait_queue` to `runningQueue`; the parent collects
  the status only when it runs.
* The receive interrupt puts the *interrupted* process at the tail of
  `runningQueue` and switches straight to the reader. The interrupted process
  goes on with the loop of the handler when its turn comes.
* The transmit interrupt does the same with the writer whose line is out; the
  *interrupted* process starts the next transmission when its turn comes.
* Fork, Exec, Brk, a growing stack, termination and every `malloc` that makes the
  kernel heap grow take frames from one list and put them back to it. Most look at
  `free_pframe_count` first, and act on the answer after other things have taken
  frames too.
* Page tables are carved out of Region 1 from above, the heap grows into it from
  below.
* Every list is built of nodes from `malloc`, so that `enqueueToList`, and with it
  every handler, may make the heap grow.

### What is hard

There is no parallelism, yet there is concurrency: each handler with a switch in
its middle is two steps, and between them any number of other handlers run.
State read before the switch is stale behind it (is the terminal still free? is
there still text? has the child's status been collected?), a wakeup is lost if
the process that was to deliver it finds nothing to do, a PCB put into two lists
runs twice, and one taken off every list is gone for ever. In memory nothing
interleaves, but the sequence matters: what one handler maps another must unmap,
copy or count, with nothing but the valid bits of a page table and one counter
to go by. A unit test of such code would have to enumerate interleavings of calls
and interrupts, and run into every limit; the repository's tests are user programs
that exercise each call once.

`PROJECT.json` lists each hazard at its line together with the properties that
watch it.

### What makes each part correct

| part | properties |
|---|---|
| process calls | family links agree both ways and never dangle; Wait blocks only if a child can end it, and a woken Wait finds a status; a failed Fork leaves nothing behind (it does: finding 1) |
| scheduler and clock | every process is in one place; every ready process runs; idle runs only if nobody is ready (it does not: finding 2); a Delay ends when it should |
| termination | the kernel halts when no process but idle is left, and before only because a page cannot be freed |
| terminal input | no text read from an empty buffer, no reader forgotten while there is text |
| terminal output | one transmission at a time, each write returns for its own line, no writer forgotten while the terminal is free, writers served in order |
| memory | each frame has one owner or is free, none is lost, the count stays what it was in relation to the list; heap, stack and page tables stay apart; a check covers what is taken after it (Fork's does not: finding 6); no call touches another process's memory |
| lists | head, tail, `next` and `previous` describe one sequence; no node leaks or is used when freed; the clock handler's walk misses nobody and ends |

## The modules

| module | models |
|---|---|
| `KernelState` | the constants and their assumption, the variables, kernel stacks, list operations, and the context switch that the handlers share |
| `Processes` | Fork, Exit, a failed Exec, the terminating traps, a Halt in Exec or Brk, Wait, Delay, the clock |
| `Terminals` | TtyRead, TtyWrite, the receive and the transmit interrupt |
| `Yalnix` | composes the two: `Init`, `Next`, `Spec`, `Fairness`, `FairSpec`, and the properties |
| `Placement` | the parts `PlaceInv` and `ProcessInv` of the inductive invariant |
| `Promises` | the refinement mappings from `Yalnix` to the next three |
| `ProcessStates` | abstract: the life of a process |
| `TtyOutput` | abstract: a terminal that one process at a time writes to |
| `Countdown` | abstract: delays that count down; implemented by `Yalnix` and by `DelayTimer` |
| `DelayTimer` | Delay with the widths of `total_runningTime` and `delay_until` |
| `MemoryState` | the kernel's record of memory and the operators that change it; boot |
| `Memory` | Fork, Exit, Exec, Brk, page faults and `malloc` over it, and the properties |
| `FrameOwnership` | abstract: who has which frame |
| `LinkedList` | `linked_list.c` on nodes and pointers, and the walk of the clock handler |
| `Fifos` | abstract: the queues that callers take the lists for |
| `MCYalnix`, `MCMemory` | what TLC runs; the view that identifies frames |

and with proofs only: `ListProofs`, `PlacementProofs`, `TerminalProofs`,
`FamilyProofs`, `PromiseProofs`, `DelayProofs`, `MemoryProofs`, `LinkedListProofs`.

Definitions whose names end in `Fault` are faulty forms of the definition that
follows them. No specification uses them; each breaks a property, which shows
that the property depends on the code.

### The kernel: state

The variables carry the names of the C variables. Those with no variable of
their own in the code:

* `kstack[p]` stands for the saved kernel stack and context of `p`: the *site* of
  the call of `ContextSwitch` that suspended it and the handler's locals that
  matter later (the terminal; in TtyRead the length asked for). `"user"` means
  user mode. At the sites `boot`, `fork`, `clock`, `delay` and `write` nothing is
  left but the return to user mode, so a switch to such a process puts it in
  user mode at once (`Resumed`). At `wait`, `read`, `recv` and `xmit` there is
  code left, and `ResumeWait`, `ResumeRead`, `ResumeReceive` and
  `ResumeTransmit` run it.
* `pcb[p]` is the life of the PCB: `none`, `live`, `freed`, or `failed` for the
  half-made child of a Fork that ran out of frames.
* `delay_left[p]` is `delay_until - total_runningTime`. The clock handler wakes a
  process when the total *exceeds* `delay_until`, so `Delay(n)` ends at the
  (n+1)-st tick, and `delay_left` of 0 is still waiting.
* `transmitting[t]` counts transmissions the terminal hardware has under way;
  the hardware allows one, and `OneTransmission` says the kernel keeps to it.
* `halted`: `Halt()` was called, by `MySwitchFunc` or by `FreePhysicalPage`.

A list is a sequence: `enqueueToList` is `Append`, `dequeueFromList` is `Head`
and `Tail`, `SearchAndRemovePCB` removes the first occurrence. The clock
handler's walk over `delay_queue`, which removes nodes as it goes, is `Keep`:
the entries in a set, in order. `LinkedList` shows that the pointers do this.

A line of terminal input is how much of it has been read and how much is left.
Bytes, file names and virtual addresses are left out; an exit status is recorded.

### The kernel: steps

A step is the stretch of kernel code from a trap, or from the return of
`ContextSwitch`, to the next `ContextSwitch` or the return to user mode: within
it nothing can interfere. One action is one such stretch, with every assignment
it makes. User programs are unrestricted: a process in user mode may make any
call or cause any trap. Idle (`idle.c`) only calls `Pause`, which waits for an
interrupt, so it makes none.

| action | code |
|---|---|
| `HandleFork` | `kernel.c` HandleFork, CreatePCB; three outcomes: no page table, too few frames, a child |
| `HandleExit`, `HandleExec`, `TrapIllegalHandler`, `TrapMathHandler`, `TrapMemoryHandler` | the paths to `TerminateProcess`; the outcomes of Exec and of a memory trap that do not terminate leave the state of this part alone and are in `Memory` |
| `TerminateProcess` in these | notifyParent, notifyChildren, scheduleNextProcess and the terminating case of MySwitchFunc: `FreesPCB`, with the Halt for the last process, or `HaltsFreeing`, the Halt of FreePhysicalPage (`helper.c:405`) when malloc gives it no list node |
| `HandleExec`, `HandleBrk` by `FreesPages` | the same Halt while LoadProgram frees the old pages or a break is lowered; nothing else that Brk does shows here |
| `HandleWait`, `ResumeWait` | HandleWait up to and behind `scheduleNextProcess` |
| `HandleDelay` | HandleDelay for a positive count |
| `TrapClockHandler` | TrapClockHandler |
| `HandleTtyRead`, `ResumeRead` | HandleTtyRead up to and behind `scheduleNextProcess` |
| `HandleTtyWrite` | HandleTtyWrite; behind its switch only the return is left |
| `TrapReceiveHandler`, `ResumeReceive` | TrapReceiveHandler up to its first switch; from a switch to the next, or to the end |
| `TrapTransmitHandler`, `ResumeTransmit` | TrapTransmitHandler up to and behind its switch |
| `Halted` | the machine has stopped |

Arguments the kernel rejects (a NULL buffer in the terminal calls, negative counts,
a wrong terminal number) return `ERROR` and change nothing; they are no actions.
Other pointers are not checked: a buffer that is not mapped, or the `status_ptr`
that `HandleWait` writes through (`kernel.c:237`), makes the kernel itself fault.
The model takes programs to pass buffers they have.
`MySwitchFunc` is inside the actions: `SwitchTo`, and in `TerminateProcess` the
freeing of the old PCB and the choice between Halt and the switch.

Four guards stand for what C leaves undefined: `ResumeWait`, `HandleTtyRead` and
`ResumeRead` would read through a null pointer if the list they dequeue from were
empty. In the model they are then not enabled. If one could not go on, TLC would
report a deadlock or one of `WaitAnswered`, `ReadReadyExact`, `ReaderFindsText`;
it reports none, and the three are proved.

### Memory

The kernel's record `mem` has the free list (`free_pframe_head`, as the sequence
of its frame numbers), `free_pframe_count`, `kernel_brk`, `addr_next_pgt_r0`,
`is_half_used` and the part of Region 1's page table above the boot image. Each
process has `pgt_r0[p]`, `brk[p]`, `uStack_bottom[p]`, and the `slot[p]`, a half
page, that its page table is in. Addresses are page numbers: the code rounds to
pages before it decides anything. Contents of pages and protection bits are left
out.

A handler is one step. Within the handlers the model keeps the order in which
frames are taken and put back, because it decides what happens when they run
out: `AllocateFreePage`, `FreePhysicalPage`, `SetKernelBrk`,
`AllocateRegion0PageTable` and `CreatePCB` are operators from record to record,
composed as the handlers call them. The heap may grow at each `malloc` that lies
between other uses of the frames: in `CreatePCB`, at the `enqueueToList` of
`running_children` before Fork's check and at those of `processQueue` and
`runningQueue` between the user's pages and the kernel stack (`Enqueue`), at
LoadProgram's buffer and notifyParent's status (`Malloc`), at each page that is
freed (`GrowAt`); but at most once in a handler (`HasGrown`). Families are not in
this module, so that an orphan's end may allocate a status too.

| action | code |
|---|---|
| `CreateIdleProcess`, `CreateInitProcess` | the boot functions of that name, with `LoadProgram` and the copy of idle's kernel stack |
| `HandleFork` | HandleFork and CreatePCB: no table, no memory for one of the structures, too few frames counted, or a copy of the user's pages and then, behind two list nodes, of the kernel stack |
| `HandleExit` | `notifyParent`, then the freeing in `MySwitchFunc`, and Halt for the last process |
| `HandleExec` | `LoadProgram`: the checks, the exchange of the address space, the return of -1 in its middle (`LoadCutShort`), or termination when the file cannot be read into it |
| `HandleBrk` | HandleBrk: refused, up, up in part and ERROR, down, or no page to change; in unsigned arithmetic |
| `TrapMemoryHandler` | the growth of the stack, its early return, or termination |
| `KernelMalloc` | a `malloc` in any other handler that makes the heap grow |

What the machine does after it has *halted*, *crashed* (the result of `malloc` used
without a check, `helper.c:464`) or become *corrupt* (a freed list node taken for
a frame, finding 4) is not modelled: `mem.machine` says so, `mem.taker` and
`mem.short` say who ran past the end of the list and by how many frames, and no
action follows. The handler that gets there is modelled to its end where it looks
at the result of `AllocateFreePage`: after the last frame the first freed node
always yields something, and from the second on a link may read NULL (`ListEnds`).
Then LoadProgram returns -1 with part of the new program in place of the old, Brk
returns `ERROR` with the break where it got to, and the stack stays half grown
(`CutShort`). As these returns lie behind the use of a freed node, the invariants,
which speak of a machine that is not corrupt, do not speak of them; `CountCovers`
says how far such a handler gets.

Some things that reading the code brought up and the model settles:

* *The count is off by one from the start.* `InitMemoryManagement` does not count
  the first frame, so the count can fall to -1. Brk, stacks and the heap compare it
  as unsigned, and at -1 accept anything; Fork (`kernel.c:114`) and LoadProgram
  (`helper.c:164`) compare signed ints. `CountOffByOne` shows that it stays off by
  exactly one.
* *How good are the checks?* `CountCovers` says by how much a handler that has passed
  its check may run past the end of the list: Brk and a stack by no more than the
  frames above the kernel, which are counted and not reached, unless the count was
  -1; Fork and Exec by no more than these and one page less than the heap takes after
  the check. That Fork may be short by that is finding 6.
* *`SetKernelBrk` maps a page more than it counts*, the page that begins at the new
  break; the extra page is used by the next growth, and neither leaks
  (`FramesConserved`) nor collides with a page table (`TablesApart`).
* *Tables are given back neither by termination nor by a Fork that fails.* Their
  frames remain the kernel's; `FramesConserved` is worded so, and the run lets
  Fork fail for want of tables.

### Lists

`LinkedList` has `node[a]`, `head[l]` and `tail[l]`. `malloc` may return any
address that is free, the one freed last included, or NULL if there is none.

| action | code |
|---|---|
| `enqueueToList`, `dequeueFromList`, `peekFromList`, `SearchAndRemovePCB` | the functions of that name |
| `freeListContents` | `freeListContents` and `freeListContentsExitChildren` |
| `WalkBegins`, `WalkMoves`, `WalkPasses`, `WalkEnds` | the loop of `TrapClockHandler` over `delay_queue`, one step per node: an element that is due is removed, its node freed, and appended to `runningQueue` in a node that may be the one just freed |

`enqueueToList` returns nothing when `malloc` fails, and the element is in no list
afterwards. `Fifos` says so: there is room for so many elements, and one too many is
dropped. The callers cannot notice; in the clock handler it cannot happen, because
a node has just been freed. This is recorded here and not followed further: in
`Yalnix` a queue has room for whom it is given, and in `Memory` an element that is
left out has no frames to show it.

### Timer

`total_runningTime` is an `unsigned long`, `delay_until` an `unsigned int`.
`DelayTimer` has both with their ranges. After 2^32 ticks the sum wraps and a Delay
ends at the next tick; until then the comparison is the countdown that the other
modules use (`CountdownSpec`, proved under `MaxTime + MaxDelay < UIntRange`).

### Abstract specifications

| abstract | implemented by | says | property |
|---|---|---|---|
| `ProcessStates` | `Yalnix` | which state of a process follows which, that one runs, one is woken by an exit, and nobody drops out | `StatesSpec` |
| `TtyOutput` | `Yalnix` | a terminal has one writer at a time, the others follow in the order they came; a newcomer may take it when it is free | `OutputSpec` |
| `Countdown` | `Yalnix`, `DelayTimer` | a delayed process counts down at every tick and leaves at the tick after 0 | `DelaysSpec`, `CountdownSpec` |
| `FrameOwnership` | `Memory` | frames move between the caller, its child, the free list and the kernel, and the kernel gives none back, as long as the list is not broken | `OwnershipSpec` |
| `Fifos` | `LinkedList` | lists are queues; the walk moves all that is due, in order | `FifosSpec` |

## The runs

| run | bounds | distinct states | shows |
|---|---|---|---|
| `processes` | 4 processes, delays of 1, no terminal, fair | 504,107 | `FamilyConsistent`, `WaitAnswered`, `HaltedWhenDone`, `IdleOnlyWhenNoneReady`, `ReadyRuns`, `DelayEnds`: a parent with two children and a grandchild, terminating in every order, blocked or not, with Forks that fail in both ways and a kernel that halts over a page at any exit |
| `terminals` | 3 processes, 1 terminal, lines and backlog of 1 | 1,689,245 | `TypeOK`, `OnePlace`, `ReaderFindsText`, `WriterWillBeWoken`, `OneTransmission`, `WriteReturnsWhenDone`, `OutputSpec`, and `PlaceInv`, the invariant the proofs use: one process in user mode is interrupted while two others wait for the terminal, and calls, interrupts and exits fall between the halves of both interrupt handlers; with a third that transmits, two are in `writeQueue`, and their order shows |
| `terminal_liveness` | 2 processes, delays up to 2, 1 terminal, lines and backlog of 2, fair | 140,955 | `ReadReadyExact`, `ReaderWillBeWoken`, `WriteEnds`, `QueuedWriterServed`, `QueuedReaderServed`, `ReadyRuns`, `StatesSpec`, `DelaysSpec`: a line read in parts, empty lines, a second line behind it; two readers block while idle runs, a line of two bytes arrives, the first takes one byte, and the loop of the interrupted handler must serve the second; terminal interrupts put idle and the interrupted into the ready queue, and still everybody in it runs |
| `memory` | 16 frames, 9 pages (6 the user's), 4 pages of heap and tables, 4 processes, programs of 2 and 3 pages | 4,512 (up to the names of frames) | `TypeOK`, `FrameExclusive`, `FramesConserved`, `CountOffByOne`, `HeapStackApart`, `TablesApart`, `CountCovers`, `OwnershipSpec`: memory that runs out in each handler, tables that run out, a heap that grows in the middle of a Fork, an Exec, a termination |
| `linked_list` | 3 nodes, 3 elements, 3 lists, fair | 95,105 | `WellLinked`, `FifosSpec`, `WalkTerminates`: only, first, last and middle node, every reuse of a freed node, `malloc` that fails |
| `delay_horizon` | 2 processes, delays up to 3, 12 ticks, integers of 4 bits | 1,482 | `CountdownSpec` up to the last tick at which it can hold |
| `ghost_child` | 3 processes | - | violates `WaiterHasChild` (finding 1) |
| `idle_in_ready_queue` | 2 processes, 1 terminal | - | violates `IdleOnlyWhenNoneReady` (finding 2) |
| `stale_slice` | 3 processes | - | violates `FreshSlice` (finding 3) |
| `kernel_frames` | 8 frames below the kernel, 1 above | - | violates `KernelFramesSafe` (finding 4) |
| `brk_down` | 11 frames below the kernel, 1 above | - | violates `BrkGoesDown` (finding 5) |
| `fork_fits` | 12 frames, none above the kernel, 2 pages of kernel stack | - | violates `ForkFits` (finding 6) |

### Bounds

* `MaxPid`, the last PID. PIDs are never reused, so this bounds the number of
  Forks over a whole execution, including failed ones. `pid_counter` in the code
  is unbounded.
* `MaxTicks`, `MaxDelay`: the longest Delay. `MaxTime`: how far the clock gets.
* `MaxLine`, the longest line (1024 in the hardware) and the longest read.
* `MaxInput`, how many lines a terminal may have unread; the code has no limit.
* `Ttys`, the terminals in use (4 in the hardware). Process behaviour does not
  depend on terminals, and terminals do not touch each other's state, so the
  runs have none or one; that a process at one terminal is not at another is
  `PlaceInv`, proved for any number.
* `LowFrames`, `HighFrames`, `PAGE_TABLE_LEN`, `HeapPages`, `UintSize`: the size of
  the machine. The frames above the kernel are counted but only reached through
  freed nodes, so they show only in the count.
* `Addr`: the nodes there is memory for.

`memory` has no frames above the kernel, so that its count reaches 0 and -1 with the
list; `kernel_frames` and `brk_down` have one. For `CountCovers` and the late return of
LoadProgram, which `HighFrames = 0` does not reach, the proofs cover every number.

Why they are enough. A queue of two shows an order; the cases of the list
operations need three entries. A handler is stale after one other handler ran in
between; three processes give an interrupted one, a blocked one and one that
interferes. In memory, 16 frames are used up by three processes in many ways, and
four pages of Region 1 by two pairs of tables and a heap. Where a larger instance
could matter for safety, the theorems cover every size.

`memory` runs under a `VIEW` that replaces a frame by the first place it has in the
page tables and the free list: handlers and properties treat all frames below the
kernel alike, so that states that differ only in which frame is which have the
same future. Two further abstractions keep it small: the heap grows by whole pages
and at most once in a handler (a page holds more nodes than a handler allocates),
and any process may make the next call.

Deadlock is checked in the runs of the kernel and of the lists: a kernel that has
not halted always has a step (with all processes blocked, idle runs and the clock
ticks). It is not checked for `Memory`, which stops when the machine halts,
crashes or is corrupt, and when PIDs run out, nor for `DelayTimer`, whose time is
bounded.

`IdleOnlyWhenNoneReady` is checked twice: without terminals it holds, which shows
that the clock handler does what its comment says, and is proved for any number
of processes; with a terminal it is violated.

### Fairness

`Yalnix!FairSpec` adds three conditions:

* `WF(Resume)`: kernel code that can go on does.
* `SF(TrapClockHandler)`: the clock keeps ticking. The hardware raises it
  periodically and holds it while the machine is in kernel mode, so it is
  delivered if the machine is in user mode again and again. Weak fairness would
  not do, because each handler leaves user mode.
* `SF(TrapTransmitHandler(t))`, for the same reason: a transmission ends, and its
  interrupt is held until user mode.

User programs and the people who type owe the kernel nothing: nobody need exit,
call or type. `QueuedReaderServed` therefore has a disjunct for a terminal at
which no line arrives any more.

`QueuedWriterServed` and `QueuedReaderServed` also excuse endless *overtaking*. A
process that calls TtyWrite just when the terminal is free goes before those in
`writeQueue`, and a process that calls TtyRead takes a line for which others
wait. If that happens for ever, a queued process waits for ever. The
code makes no promise against it, and the properties say that this is the only
way to starve.

All five properties of the kernel excuse a machine that has halted. The kernel may
halt at any exit for want of a list node (`helper.c:405`), whoever is ready, delayed
or queued; fairness cannot exclude it, since it is the code's choice and not the
scheduler's.

`LinkedList!FairSpec` has `WF(Walk)`: the loop of the clock handler runs on without
interruption.

## Findings

1. **A failed Fork leaves a ghost child** (`kernel.c:100-115`). `HandleFork` puts
   the new PCB into `running_children` before it counts the free frames, and
   leaves it there when it returns `ERROR`. Wait then finds a running child,
   although none exists, and blocks for ever; and the kernel does not halt in the end.
   `WaitAnswered` is worded over `running_children`, which counts the ghost, and
   holds; `WaiterHasChild` wants a live child, and is violated.
2. **Idle in the ready queue** (`trap.c:358, 392`). Both terminal interrupts
   enqueue the interrupted process on `runningQueue` even if it is idle. Idle then
   takes turns, and runs for up to two ticks, while processes are ready, against
   the comments at `yalnix.c:408` and `trap.c:65`. Safety does not suffer:
   `OnePlace` holds with idle in at most one place.
3. **Stale time slice** (`trap.c:22-58`). `runningTime` counts the ticks since the
   last *full* slice, not since the last context switch as `function.h:61` says: a
   process that blocks after one tick gets a slice of one tick afterwards.
4. **The kernel's frames stay on the free list** (`yalnix.c:187-192`).
   `InitMemoryManagement` frees the list nodes of the frames the kernel is in, but
   unlinks none: the node before them still points to the first, and
   `free_pframe_count` goes on counting the frames behind. When the frames below the
   kernel are used up, `AllocateFreePage` follows the link into freed memory and
   hands out whatever is there, a frame of the kernel if nothing has overwritten
   it, against the comment at `yalnix.c:151`. As long as there is something in front
   of the freed nodes, all is well: that is what the other memory properties say.
5. **A break cannot be lowered** (`kernel.c:265`). The page counts are unsigned, so
   that for a lower break `new_brk_pg - curr_first_pg` is huge and the comparison
   with the free frames refuses it. The code for "Move down brk" (`kernel.c:299`) is
   reached only if `free_pframe_count` is -1, which, compared unsigned, refuses
   nothing. `HandleBrk` has both paths.
6. **Fork's check does not count the list nodes** (`kernel.c:114`). HandleFork compares
   the number of valid pages, kernel stack included, with the count, and then lets
   `enqueueToList` allocate two nodes (`kernel.c:165, 168`) before `MySwitchFunc` takes
   the frames for the kernel stack. If a node makes the heap grow for the first time,
   `SetKernelBrk` maps two pages; with a count that just suffices, and is one below
   the list, the copy is a frame short, and it does not look (`yalnix.c:456`). The
   comment at `kernel.c:106` says 'Check if there is enough memory to copy current
   process.'

Further, without a run of their own:

* LoadProgram's comment (`helper.c:18-32`) says that it returns -1 only before it deletes
  Region 0 and -2 afterwards, but when `AllocateFreePage` fails it returns -1 afterwards
  (`helper.c:231-235`, 257, 287), and Exec returns `ERROR` to a program that is gone. A
  check that has passed leaves it without a frame only behind a freed node (finding 4).
  `LoadCutShort` has the return. That "a call that fails changes nothing" is therefore
  not among the properties: for the earlier returns it would hold by their shape, and
  for this one it is false.
* `CreatePCB` writes through the result of one `malloc` before the check for NULL
  (`helper.c:464`). The model marks the machine *crashed*.
* `enqueueToList` drops an element when `malloc` fails, and returns nothing
  (`linked_list.c:21`); `Fifos` has it as the promise that is left.
* `delay_until` wraps after 2^32 ticks (`kernel.c:341`).
* `TtyWrite` allocates a buffer for each line and frees none (`kernel.c:416`).

## The proofs

| theorem | module | states |
|---|---|---|
| `TypeCorrect` | `PlacementProofs` | `Spec => []TypeOK` |
| `SuspendedWhereListed` | `PlacementProofs` | `Spec => []PlaceInv`: which list a process is in says where its kernel stack is suspended, and the reverse |
| `NeverMisplaced` | `PlacementProofs` | `Spec => []OnePlace`: each process is in one list, or runs, or transmits, and once |
| `HaltsWhenDone` | `PlacementProofs` | `Spec => []HaltedWhenDone`: halted once idle is alone; before, only inside a call of a process that is still there; `processQueue` lists the living |
| `TransmitsOneLine` | `PlacementProofs` | `Spec => []OneTransmission` |
| `IdleYieldsToReady` | `PlacementProofs` | without terminals, `Spec => IdleOnlyWhenNoneReady`, an action property |
| `ReadReadyTellsText` | `TerminalProofs` | `Spec => []ReadReadyExact` |
| `ResumedReaderFindsText` | `TerminalProofs` | `Spec => []ReaderFindsText` |
| `NoReaderForgotten` | `TerminalProofs` | `Spec => []ReaderWillBeWoken` |
| `NoWriterForgotten` | `TerminalProofs` | `Spec => []WriterWillBeWoken` |
| `WritesEndInTransmission` | `TerminalProofs` | `Spec => WriteReturnsWhenDone`, an action property |
| `FamiliesAgree` | `FamilyProofs` | `Spec => []FamilyConsistent` |
| `WaitFindsStatus` | `FamilyProofs` | `Spec => []WaitAnswered` |
| `KernelImplementsStates` | `PromiseProofs` | `Spec => StatesSpec`, a refinement |
| `TerminalsImplementOutput` | `PromiseProofs` | `Spec => OutputSpec`, a refinement |
| `KernelImplementsDelays` | `PromiseProofs` | `Spec => DelaysSpec`, a refinement |
| `DelayCountsDown` | `DelayProofs` | `Spec => CountdownSpec`, a refinement |
| `NoFrameUsedTwice` | `MemoryProofs` | `Spec => []FrameExclusive` |
| `NoFrameLost` | `MemoryProofs` | `Spec => []FramesConserved` |
| `CountNeverDrifts` | `MemoryProofs` | `Spec => []CountOffByOne` |
| `HeapMeetsNoStack` | `MemoryProofs` | `Spec => []HeapStackApart` |
| `MemoryImplementsOwnership` | `MemoryProofs` | `Spec => OwnershipSpec`, a refinement, until a node past the end of the list is taken |
| `MemoryTablesApart` | `MemoryProofs` | `Spec => []TablesApart`: no two processes have a page table in the same half page, and none is in the heap |
| `MemoryCountCovers` | `MemoryProofs` | `Spec => CountCovers`, an action property, for any number of frames below and above the kernel |
| `MemoryTypes` | `MemoryProofs` | `Spec => []TypeOK` of `Memory` |
| `LinksHoldTogether` | `LinkedListProofs` | `Spec => []WellLinked` |
| `ListsAreFifos` | `LinkedListProofs` | `Spec => FifosSpec`, a refinement |

**Assumptions.** The kernel's theorems hold for every value of the constants with
`KernelAssumption`: at least one PID besides idle, positive `MaxTicks` and
`MaxLine`, `ERROR` a status, `NULL` neither a number nor a terminal; any set of
terminals, finite or not. Memory's hold with `MemoryAssumption` (the sizes are
numbers, a Region 0 has room for the invalid pages, a page, a gap and the kernel
stack, and the numbers of pages and frames fit into an `unsigned int`) and
`BootFits` (idle and init can be loaded), those of the lists with
`ListAssumption`: there are finitely many addresses, `delay_queue` and
`runningQueue` are two lists, and the null pointer is neither a node nor an
element nor a list. These are facts of the code. Two theorems have conditions
that a machine may not meet. `DelayCountsDown` assumes that the clock and the
longest delay together fit into an `unsigned int`, which limits how long the
machine runs. `IdleYieldsToReady` assumes `Ttys = {}`, no terminal in use: with
one, the property is false (finding 2). `CountCovers` has `HighFrames` in its bound:
the frames above the kernel, counted and not reached (finding 4), are what the
checks promise too much.

**Places.** `OnePlace` is not inductive. When the transmit interrupt runs
`transmitPCB[t]`, or an exit moves the parent to the ready queue, the code does
not look whether that process is in another list, and nothing in `OnePlace`
excludes it for long enough. What excludes it is the site: a process in
`delay_queue` is suspended at `delay`, one in `writeQueue[t]` at `write` on `t`,
and so on (`BlockedSites`, `TransmitSites`); a ready process is at a site whose
handler left it ready and is in no blocking list (`ReadySites`); the running
process is in user mode or behind a switch (`CurrSite`); idle never blocks
(`IdleSite`). Since a process has one kernel stack it has one site, so the lists
are disjoint. `ListedLive` adds that nobody is lost and nobody else is listed:
who is live is listed, or runs, or is idle. `PlaceInv` is the conjunction.

`ProcessInv` is needed for two steps of that argument. Fork lists `pid_counter`,
which must not be listed yet: PIDs from `pid_counter` on are unused.
When a process ends, the kernel halts if `processQueue` becomes empty and idle is
next: `processQueue` is, without repetition, the set of live processes but idle, so
that this is when nobody is left (`HaltedWhenDone`). The other Halt, over a page that
cannot be freed, leaves the running process in place, which is how `ProcessInv` tells
the two. After either, `PlaceInv` says only that the kernel is inside a call: the
lists are left in the middle of a move.

`TypeOK /\ PlaceInv /\ ProcessInv` is inductive. The proof has a lemma per
action, and general lemmas for the kinds of steps that recur: a step in which
the running process blocks (`BlockStep`), one in which it stays ready and
another runs (`PreemptStep`), and one in which no one moves (`StillStep`).
`ListProofs` has what they need of sequences: which elements `Append`, `Tail`,
concatenation, `SearchAndRemovePCB` and `Keep` leave, that they keep a list free
of repetition, and that their results are sequences over the same set. `Keep` is
defined by ranks instead of recursion so that it can be proved about; `MCYalnix`
compares it with `SelectSeq`.

That idle does not run while somebody is ready is an invariant of the ready queue,
not of the scheduler: without terminals idle is never in `runningQueue`
(`IdleUnready`), since no other handler puts the running process back but the
clock's, which looks first. So `scheduleNextProcess` finds idle only if the queue
is empty, and a step from one process to idle leaves it empty.

**Terminals.** That no reader and no writer is forgotten depends on a process
that has nothing to do with the terminal: the one whose user code was interrupted
and which will go on with the handler. `CpuMoves` says what every handler does to
the CPU: the running process keeps it, or it goes to somebody who is ready, to
the reader or to the writer of an interrupt, and nobody else leaves the ready
queue or moves in a handler. So the process suspended in the interrupt handler
stays ready until it runs, and what remains is to see what each action does to
`inputBuffer`, `readQueue`, `transmitPCB` and `writeQueue` of its terminal.

**Families and Wait.** `FamilyConsistent` and `WaitAnswered` are inductive with
`PlaceInv` and `ProcessInv`: the actions that leave the links alone are one lemma,
Fork, termination and the collection of a status one each. A termination is
looked at from the parent's side, whose list of running children loses an entry
and whose statuses gain one, and from the children's, whose parent becomes NULL.

**Promises.** `ProcessStates` gives each process one state, computed from the lists
it is in. `PlacedAs` says by `PlaceInv` what each state means: in which one place
a process is, and that it is in no other. Then every action is one of a few kinds
of moves: the running process goes to a list and another runs (`Leaves`), it goes
to the ready queue (`MakesWay`), a Fork fails (`Fails`), sleepers are woken
(`Ticks`), or nobody moves (`NobodyMoves`). Each kind is a step of `ProcessStates`;
each action is shown to be of its kind. A process that ends leaves as well, and may
wake its parent (`Terminates`). A Halt over a page is a step of its own kind: everybody
who was alive is "stopped", for good (`Stop`). The Halt after the last process leaves
nobody alive, by `ProcessInv`, and is an ordinary end.

A step of the kernel is a step of `TtyOutput` for at most one
terminal, and none of any other: TtyWrite takes the terminal or joins the queue,
the transmit interrupt and the process that resumes in it let go of it and pass
it on. For `Countdown` the sites are decisive again: only the clock handler
takes a process off `delay_queue`, because every other handler that makes a process
ready takes it from a list whose entries are at another site.

**Delay.** `TimerInv` adds to the types that nobody is in the queue whose time has
passed; with it the sum does not wrap and the difference counts down.

**Memory.** The invariant is `MemoryInv`: `MemInv`, or `Loose`, which keeps the types
of a corrupt machine and is where a handler's late return leads (`CutOff`); no action
follows it. `MemInv` has three parts. `Sound` relates the kernel's record and the
page tables: every table has each of its frames once, the frames of two processes,
and of a process and the kernel (those of Region 1 and the free ones), are
disjoint, together they are all there are, and the count is one short. `BootInv`
says that the boot has the frames it takes. `SpacesInv` says that exactly heap, stack
and kernel stack are valid in a live process's table, and nothing in that of a
process that is not.

The argument is that a handler is an *exchange* of frames between the kernel and
one process (`Exchange`): afterwards they have together what they had together before,
each once, so that nobody else need be looked at (`ExchangeSound`). Taking frames
from the list (`TakeFacts`), pushing them back (`GiveFacts`), growing the heap and
making a table (`GrowFacts` and its like) are exchanges; a handler is a sequence of
them. `FrameExclusive`, `FramesConserved`, `CountOffByOne` and `HeapStackApart` are
conjuncts of `MemInv` in other words.

Three more invariants stand on `MemInv`. `SlotInv` keeps track of the half pages
that page tables are given: they are handed out downwards, each once, the
left-over half is the lowest, and the heap ends below them (`Region1OK`, `SlotOK`);
a step either leaves the tables where they are, or gives the next half page to a
new process (`SlotsStay`, `SlotGiven`). `KindInv` has the rest of the types: idle
keeps its kernel stack, and a result and the PIDs are in range.

For `CountCovers` each operator is described by what it does to a record on its way
through a handler: who may have run off the list (`Fate`, `FateInv`), that Region 1 has
the pages it had (`Holds`), and how far the list and the count have moved. As long as
the break of the heap is where it was there are no more pages to fill than at the start
of the handler (`LessToFill`), and once it has moved it does not move again; so what
the heap takes after a check is at most `PagesToFill(mem)`. With the distance between
list and count from `MemInv` each handler is then short by no more than its bound
(`Covered`), and only those that do not check, or asked at -1, are free of it.

The same lemmas say whose table a step has changed and that the kernel keeps what
it has (`OnlyOwn`), or that a child has come into being (`HasChild`). `OwnerKnown`
computes the owner of a frame from the tables under `MemInv`, and with it each
step is one of `FrameOwnership`. That a child gets as many frames as its parent has
follows from a bijection between the valid pages of a table and its frames
(`BackedPages`). A handler that takes a node past the end is the abstract step `Break`:
`FrameOwnership` has a variable `broken` for it, and promises nothing afterwards.

**Lists.** The model computes what is in a list with a recursive function along
`next`, and what such a function computes for every list would take an induction
over data. The proofs avoid it: they carry the answer along. `ListInv` says that
there is, for each list, a sequence of nodes `p[l]` such that `head` is its first
and `tail` its last, `next` and `previous` lead from each to its neighbours, no
node is in two of them or twice in one, and exactly the nodes in them are allocated
(`Shape`); and that the clock handler's loop stands at a node of `delay_queue`
with the one behind it in hand (`Walking`). The sequences are a witness of an
existential quantifier and not variables. Each action produces the next witness:
enqueueing appends a node (`LinkedShape`), every removal takes one out and bridges
the gap, whether it is the first, the last, the only or an inner one
(`UnlinkedShape`). What is left is that the recursive function finds that
sequence (`PathIsChain`): if it did not, there would be a least place at which the
two differ (`Least`), and one step of the definition refutes it.

With the same witnesses the elements in a list are a queue of `Fifos` (`FifoIs`), and
`LinkedQueues` and `UnlinkedQueues` say what becomes of it. `Fifos` counts elements
to say whether there may be room for another, `LinkedList` addresses:
`ElementsAreNodes` shows that both counts agree, because each element has a node of
its own. The walk needs more care than the calls: `Fifos` moves the first element
that is due, the loop the one it stands at, and `Walking` says that nobody it has
passed is due.

## Only model-checked

* *Liveness*: `ReadyRuns`, `DelayEnds`, `WriteEnds`, `QueuedWriterServed`,
  `QueuedReaderServed` and `WalkTerminates`. They depend on fairness, that is, on
  `ENABLED`, about which the installed provers cannot reason.
* *The findings*, which are counterexamples and need no proof.
* *`Keep` against `SelectSeq`* on short sequences: `SelectSeq` is recursive.

## Not modelled

* *Entries of a page table that nobody wrote.* `CreatePCB` clears only the entries
  below `MEM_INVALID_PAGES` (`helper.c:489`). Fork writes the rest of its child's
  table, and the switch its kernel stack; but `LoadProgram` frees whatever reads as
  valid in init's new table. The model takes them as invalid: memory at boot reads
  as zero.
* *What follows the use of a freed node or of a NULL result*: the machine is marked
  as corrupt or crashed. The handler that took the node goes on to its end where the
  end depends on a NULL link, and no other handler follows. `SetKernelBrk` has such a
  return as well, after the first of two pages; there the model stops at once, since
  what the frame is that the heap has got is undefined.
* *What becomes of a process that `enqueueToList` drops*: see Lists.
* *Registers, TLB flushes, protection bits, the argument list* on a new stack, and
  the contents of pages.
* *Boot that fails*, the interrupt vector, and the page tables of the boot image
  itself. `Yalnix` starts when `KernelStart` enters init's program; `Memory` starts
  behind `InitMemoryManagement` and has the loading of idle and init.
* *Bytes*: what is read and written, messages and formatting; the buffers of
  TtyWrite.
* *GetPid and rejected arguments* change nothing, and neither does an Exec of a file
  that cannot be opened.
* *Nodes of the kernel heap*: how many fit a page. The heap grows whenever it may.
* *Kernel and memory in one module.* They meet in Fork's outcomes, those of Exec, Brk
  and a fault, and the frames of a process that ends: in `Yalnix` which one happens is
  a choice, in `Memory` which process calls. Every Halt and every outcome that leaves
  a sound machine is in both. Only `Memory` has the ends that leave none, crashed or
  corrupt, and `Yalnix` says nothing of a kernel that has got there. Their product has
  too many states for TLC.

`kernel_brk` is taken to be page-aligned when `KernelStart` has run, and
`USER_STACK_LIMIT` to be one page below the kernel stack, as in the machine's
headers, which are not in the repository.

## What is left

* A product of `Yalnix` and `Memory` small enough for TLC, in which the ghost child
  of finding 1 also keeps its page table.
* A variant for the clock handler's walk, the number of nodes it has not looked at:
  that every step of the loop lowers it is an action property that can be proved,
  and with `WF(Walk)` it is the reason why `WalkTerminates` holds.
* A theorem that relates `Keep` and the removals of `LinkedList`, so that the
  sequences of the kernel's model are the queues of `Fifos` by proof as well.

## Running

    tlc -workers 2 -config Processes.cfg MCYalnix     # and the other runs of the kernel
    tlc -workers 2 -config Memory.cfg MCMemory        # and the other runs of memory
    tlc -workers 2 -config LinkedList.cfg LinkedList
    tlc -workers 2 -config DelayHorizon.cfg DelayTimer
    tlapm MemoryProofs.tla                            # and the other modules of proofs
