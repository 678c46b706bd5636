---------------------------- MODULE MemoryState ----------------------------
(***************************************************************************)
(* Physical frames, the page tables of Region 0, and the part of Region 1  *)
(* above the boot image, into which the kernel heap grows from below and   *)
(* the page tables from above.  Scheduling is left out: any process may    *)
(* make the next system call.  A handler is one step.                      *)
(*                                                                         *)
(* The free list built at boot runs through the frames below the kernel's  *)
(* own (Low), then through list nodes that were freed but never unlinked   *)
(* (those of the kernel's frames), then through the frames above (High).   *)
(* What a handler gets when it takes one of the freed nodes is undefined:  *)
(* the kernel's own frames if the nodes are intact, any frame and any next *)
(* node if a malloc has taken them since.  The model notes it in the field *)
(* machine and goes no further than the end of the handler, so the High    *)
(* frames only show in free_pframe_count.                                  *)
(*                                                                         *)
(* Definitions whose name ends in Fault are faulty forms of the one that   *)
(* follows: each breaks a property.                                        *)
(***************************************************************************)
EXTENDS Integers, Sequences, SequencesExt, FiniteSets

CONSTANTS
  LowFrames,           \* the number of frames below the kernel's
  HighFrames,          \* the number of frames above the kernel's
  MEM_INVALID_PAGES,   \* Region 0: pages never mapped
  KERNEL_STACK_PAGES,  \* Region 0: the last pages, the kernel stack
  PAGE_TABLE_LEN,      \* Region 0: pages in all
  HeapPages,           \* Region 1: pages above the boot image
  Programs,            \* program files: pages of text, data+bss and stack
  IdleProgram,         \* the file "idle"
  InitProgram,         \* the file "init"
  MaxPid,              \* bound: the last PID handed out
  UintSize             \* 2^32, the range of unsigned int

Sizes == [text : Nat, data : Nat, stack : Nat \ {0}]

ASSUME MemoryAssumption ==
  /\ {LowFrames, HighFrames, MEM_INVALID_PAGES, HeapPages} \subseteq Nat
  /\ {KERNEL_STACK_PAGES, MaxPid} \subseteq Nat \ {0}
  /\ PAGE_TABLE_LEN \in Nat
  /\ PAGE_TABLE_LEN > MEM_INVALID_PAGES + KERNEL_STACK_PAGES + 1
  /\ Programs \cup {IdleProgram, InitProgram} \subseteq Sizes
  /\ UintSize \in Nat
  /\ UintSize > PAGE_TABLE_LEN + LowFrames + HighFrames

Frame == 1..LowFrames
NoFrame == 0                       \* a page table entry with valid = 0
KernelFrame == LowFrames + 1       \* any frame of the boot image

Pid == 0..MaxPid
Idle == 0
First == 1

Page == 0..(PAGE_TABLE_LEN - 1)
KStack == (PAGE_TABLE_LEN - KERNEL_STACK_PAGES)..(PAGE_TABLE_LEN - 1)
\* USER_STACK_LIMIT >> PAGESHIFT, one page below the kernel stack; Fork and
\* MySwitchFunc map the page they copy to there, and unmap it when done.
StackLimit == PAGE_TABLE_LEN - KERNEL_STACK_PAGES - 1

NoTable == [i \in Page |-> NoFrame]
NoSlot  == <<0, 0>>
OK == 0
ERROR == -1

VARIABLES
  mem,            \* the kernel's record of memory, see InitMemoryManagement
  phase,          \* "idle", "init" or "up": how far KernelStart is
  live,           \* the processes, but for idle
  pid_counter,    \* the next PID
  pgt_r0,         \* pgt_r0[p]: the frame of every page, NoFrame if invalid
  brk,            \* brk[p]: the first page above p's heap
  uStack_bottom,  \* uStack_bottom[p]: the first page of p's stack
  slot,           \* slot[p]: page of Region 1 and half of it with p's table
  result          \* ERROR if the step was a call that returned it, else OK

spaces == <<pgt_r0, brk, uStack_bottom>>
memVars == <<mem, phase, live, pid_counter, spaces, slot, result>>
----------------------------------------------------------------------------
(***************************************************************************)
(* Operators that take the kernel's record to the next one.  They leave a  *)
(* machine that has stopped as it is.                                      *)
(***************************************************************************)
Runs(k) == k.machine = "runs"
Unsigned(n) == n % UintSize

Valid(table) == {i \in DOMAIN table : table[i] # NoFrame}

\* The numbers of S in ascending order.
Ascending(S) ==
  [n \in 1..Cardinality(S) |-> CHOOSE i \in S : Cardinality({j \in S : j <= i}) = n]
FramesAt(table, S) ==
  LET pages == Ascending(S) IN [n \in 1..Len(pages) |-> table[pages[n]]]

\* table with the pages of the sequence backed by frames, in that order.
Mapped(table, pages, frames) ==
  [i \in DOMAIN table |->
     IF i \in Range(pages) THEN frames[CHOOSE n \in DOMAIN pages : pages[n] = i]
     ELSE table[i]]

\* n calls of AllocateFreePage, made by who; Taken is what they return.
AllocateFreePage(k, n, who) ==
  IF ~Runs(k) THEN k
  ELSE IF n > Len(k.free)
    THEN [k EXCEPT !.machine = "corrupt", !.taker = who, !.short = n - Len(k.free)]
    ELSE [k EXCEPT !.free = SubSeq(@, n + 1, Len(@)), !.count = @ - n]

Taken(k, n) == SubSeq(k.free, 1, n)

\* How many of n calls may succeed before one returns -1: the first of the
\* freed nodes always gives a frame, and its link may be NULL.  Received is
\* what m calls return, a frame of the kernel standing for what a freed node
\* holds.
ListEnds(k, n) == IF Runs(k) THEN (Len(k.free) + 1)..(n - 1) ELSE {}

Received(k, m) ==
  [i \in 1..m |-> IF i <= Len(k.free) THEN k.free[i] ELSE KernelFrame]

\* The count is left alone.
Pushed_Fault(k, frames) == [k EXCEPT !.free = Reverse(frames) \o @]

Pushed(k, frames) ==
  [k EXCEPT !.free = Reverse(frames) \o @, !.count = @ + Len(frames)]

(***************************************************************************)
(* malloc asks SetKernelBrk for one more page when the heap is full.  The  *)
(* test for free frames is unsigned, and the loop includes the page that   *)
(* begins at the new break, so that the first call maps two pages.         *)
(***************************************************************************)
CanGrow(k) == 1 <= Unsigned(k.count) /\ k.kernel_brk + 1 <= k.addr_next_pgt_r0

PagesToFill(k) ==
  {i \in {k.kernel_brk, k.kernel_brk + 1} \cap DOMAIN k.pgt_r1 : k.pgt_r1[i] = NoFrame}

SetKernelBrk(k) ==
  LET new == Ascending(PagesToFill(k))
      k1  == AllocateFreePage(k, Len(new), "heap")
  IN  IF ~Runs(k1) THEN k1
      ELSE [k1 EXCEPT !.kernel_brk = @ + 1,
                      !.pgt_r1 = Mapped(@, new, Taken(k, Len(new)))]

\* A handler makes the heap grow at most once: a page holds more nodes than a
\* handler allocates.
HasGrown(k) == k.kernel_brk # mem.kernel_brk

\* A malloc whose result the caller uses unchecked.
Malloc(k) ==
  {k} \cup (IF HasGrown(k) THEN {}
            ELSE IF CanGrow(k) THEN {SetKernelBrk(k)}
            ELSE {[k EXCEPT !.machine = "crashed"]})

\* enqueueToList: without memory for a node the element is left out.
Enqueue(k) == {k} \cup (IF ~HasGrown(k) /\ CanGrow(k) THEN {SetKernelBrk(k)} ELSE {})

\* FreePhysicalPage for each of the frames; the heap grows at the grow-th
\* (0: not at all), and the kernel halts if it cannot.
FreePhysicalPage(k, frames, grow) ==
  LET before == Pushed(k, SubSeq(frames, 1, grow - 1))
      grown  == SetKernelBrk(before)
  IN  IF ~Runs(k) THEN k
      ELSE IF grow = 0 THEN Pushed(k, frames)
      ELSE IF ~CanGrow(before) THEN [before EXCEPT !.machine = "halted"]
      ELSE IF ~Runs(grown) THEN grown
      ELSE Pushed(grown, SubSeq(frames, grow, Len(frames)))

\* Where the heap may grow while n frames are freed, if it has not before.
GrowAt(k, n) == IF HasGrown(k) THEN {0} ELSE 0..n
----------------------------------------------------------------------------
(***************************************************************************)
(* CreatePCB.  Two page tables share a page of Region 1; the next page is  *)
(* the one below.  Tables are never given back.  The frame count is not    *)
(* looked at.  The result says whether there is a PCB.                     *)
(***************************************************************************)
NextSlot(k) == <<k.addr_next_pgt_r0, IF k.is_half_used THEN 2 ELSE 1>>

\* Whether the heap has reached the page is not looked at.
TableFits_Fault(k) == TRUE

TableFits(k) == k.is_half_used \/ k.pgt_r1[k.addr_next_pgt_r0] = NoFrame

AllocateRegion0PageTable(k) ==
  LET k1 == AllocateFreePage(k, 1, "table") IN
  IF ~TableFits(k) THEN [k |-> k, ok |-> FALSE]
  ELSE IF k.is_half_used
    THEN [k |-> [k EXCEPT !.is_half_used = FALSE, !.addr_next_pgt_r0 = @ - 1],
          ok |-> TRUE]
  ELSE IF ~Runs(k1) THEN [k |-> k1, ok |-> FALSE]
    ELSE [k |-> [k1 EXCEPT !.is_half_used = TRUE,
                           !.pgt_r1[k.addr_next_pgt_r0] = Head(k.free)],
          ok |-> TRUE]

\* The PCB is used before the check for NULL, the lists are not.
CreatePCB(k) ==
  LET plain == AllocateRegion0PageTable(k)
      grown == SetKernelBrk(k)
      late  == SetKernelBrk(plain.k)
      none(kk) == [k |-> kk, ok |-> FALSE]
      after(kk) == IF Runs(kk) THEN AllocateRegion0PageTable(kk) ELSE none(kk)
  IN
  {plain}
  \cup (IF CanGrow(k) THEN {after(grown)}                       \* malloc(PCB), the lists
        ELSE {none([k EXCEPT !.machine = "crashed"]), none(plain.k)})
  \cup (IF ~plain.ok THEN {}                                    \* malloc(SavedContext)
        ELSE IF CanGrow(plain.k) THEN {[k |-> late, ok |-> Runs(late)]}
        ELSE {none(plain.k)})

(***************************************************************************)
(* LoadProgram into p's address space, once the program's sizes are known. *)
(***************************************************************************)
\* The kernel stack is freed with the rest.
UserPages_Fault(p) == Valid(pgt_r0[p])

UserPages(p) == Valid(pgt_r0[p]) \ KStack
FrameNeed(prog) == prog.text + prog.data + prog.stack

FitsVirtual(prog) ==
  MEM_INVALID_PAGES + prog.text + prog.data + 1 + prog.stack + 1 + KERNEL_STACK_PAGES
    <= PAGE_TABLE_LEN

FitsPhysical(k, p, prog) == FrameNeed(prog) <= k.count + Cardinality(UserPages(p))

HeapEnd(prog) == MEM_INVALID_PAGES + prog.text + prog.data

ProgramPages(prog) ==
  (MEM_INVALID_PAGES..(HeapEnd(prog) - 1)) \cup ((StackLimit - prog.stack)..(StackLimit - 1))

\* The old pages are freed, and frames are taken for the new ones.
Deleted(k, p, grow) == FreePhysicalPage(k, FramesAt(pgt_r0[p], UserPages(p)), grow)

Loaded(k, prog) == AllocateFreePage(k, FrameNeed(prog), "load")

\* The old pages are freed and stay valid.
Bare_Fault(p) == pgt_r0[p]

Bare(p) == [i \in Page |-> IF i \in KStack THEN pgt_r0[p][i] ELSE NoFrame]

LoadedTable(k, p, prog) ==
  Mapped(Bare(p), Ascending(ProgramPages(prog)), Taken(k, FrameNeed(prog)))

\* The machine has stopped within a handler, as the record k says.
Noted(k) == [mem EXCEPT !.machine = k.machine, !.taker = k.taker, !.short = k.short]

Stops(k) ==
  /\ ~Runs(k)
  /\ mem' = Noted(k)
  /\ UNCHANGED <<phase, live, pid_counter, spaces, slot, result>>

\* The handler returns because AllocateFreePage did with -1, its work half done.
CutShort(k) ==
  /\ ~Runs(k)
  /\ mem' = Noted(k)
  /\ UNCHANGED <<phase, live, pid_counter, slot>>

\* The system call returns ERROR with the kernel's record at k.
Refused(k) ==
  /\ Runs(k)
  /\ mem' = k
  /\ result' = ERROR
  /\ UNCHANGED <<phase, live, spaces, slot>>
----------------------------------------------------------------------------
(***************************************************************************)
(* KernelStart.  free_pframe_count does not count the first frame.         *)
(***************************************************************************)
BootCount == LowFrames + HighFrames - 1

InitMemoryManagement ==
  mem = [free |-> [n \in 1..LowFrames |-> n],   \* free_pframe_head, the Low part
         count |-> BootCount,                   \* free_pframe_count
         kernel_brk |-> 1,                      \* the first page above the heap
         addr_next_pgt_r0 |-> HeapPages,        \* page of the next page table
         is_half_used |-> FALSE,
         pgt_r1 |-> [i \in 0..HeapPages |-> IF i = 0 THEN KernelFrame ELSE NoFrame],
         machine |-> "runs",  \* or "halted", "crashed", "corrupt"
         taker |-> "none",    \* who took nodes past the end of the list,
         short |-> 0]         \* and how many

Init ==
  /\ InitMemoryManagement
  /\ phase = "idle"
  /\ live = {}
  /\ pid_counter = Idle
  /\ pgt_r0 = [p \in Pid |-> [i \in Page |->
                 IF p = Idle /\ i \in KStack THEN KernelFrame ELSE NoFrame]]
  /\ brk = [p \in Pid |-> MEM_INVALID_PAGES]
  /\ uStack_bottom = [p \in Pid |-> StackLimit]
  /\ slot = [p \in Pid |-> NoSlot]
  /\ result = OK

\* What a process gets: its pages, break and stack.
Gets(p, table, prog) ==
  /\ pgt_r0' = [pgt_r0 EXCEPT ![p] = table]
  /\ brk' = [brk EXCEPT ![p] = HeapEnd(prog)]
  /\ uStack_bottom' = [uStack_bottom EXCEPT ![p] = StackLimit - prog.stack]

\* There is room for idle and for init, or there would be nothing to run.
ASSUME BootFits ==
  /\ LowFrames >= FrameNeed(IdleProgram) + FrameNeed(InitProgram) + KERNEL_STACK_PAGES + 1
  /\ FitsVirtual(IdleProgram) /\ FitsVirtual(InitProgram)
  /\ HeapPages >= 1

CreateIdleProcess ==
  /\ Runs(mem) /\ phase = "idle"
  /\ LET freed == Deleted(mem, Idle, 0) IN
       /\ mem' = Loaded(freed, IdleProgram)
       /\ Gets(Idle, LoadedTable(freed, Idle, IdleProgram), IdleProgram)
  /\ pid_counter' = Idle + 1
  /\ phase' = "init"
  /\ UNCHANGED <<live, slot, result>>

\* CreatePCB for init, MySwitchFunc copies idle's kernel stack, LoadProgram.
CreateInitProcess ==
  /\ Runs(mem) /\ phase = "init"
  /\ LET made  == AllocateRegion0PageTable(mem)
         kst   == Ascending(KStack)
         copy  == AllocateFreePage(made.k, Len(kst), "copy")
         table == Mapped(NoTable, kst, Taken(made.k, Len(kst)))
     IN
       /\ mem' = Loaded(copy, InitProgram)
       /\ Gets(First, Mapped(table, Ascending(ProgramPages(InitProgram)),
                             Taken(copy, FrameNeed(InitProgram))), InitProgram)
  /\ slot' = [slot EXCEPT ![First] = NextSlot(mem)]
  /\ live' = {First}
  /\ pid_counter' = First + 1
  /\ phase' = "up"
  /\ UNCHANGED result
============================================================================
