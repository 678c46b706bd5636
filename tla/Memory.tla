------------------------------- MODULE Memory -------------------------------
(***************************************************************************)
(* The handlers that move frames: Fork, Exec, Brk, the growth of a stack,  *)
(* termination, and the mallocs of the others; and what keeps the frames   *)
(* in order.                                                               *)
(***************************************************************************)
EXTENDS MemoryState

(***************************************************************************)
(* Fork.  The pages are counted before any frame is taken, the kernel      *)
(* stack among them.  The child is enqueued with its siblings before that, *)
(* and in the queues when the user's pages have been copied; MySwitchFunc  *)
(* then copies the kernel stack.  A refusal keeps the PID, and the page    *)
(* table if CreatePCB has taken one.                                       *)
(***************************************************************************)
\* The kernel stack, which MySwitchFunc copies, is not counted.
PagesNeeded_Fault(p) == Cardinality(UserPages(p))

PagesNeeded(p) == Cardinality(Valid(pgt_r0[p]))

\* The child's table names the parent's frames.
ChildTable_Fault(p, k, k2) == pgt_r0[p]

StackPages(p) == Valid(pgt_r0[p]) \cap KStack

\* The user's pages in frames taken at k, the kernel stack in some taken at k2.
ChildTable(p, k, k2) ==
  LET user  == Ascending(UserPages(p))
      stack == Ascending(StackPages(p))
  IN  Mapped(Mapped(NoTable, user, Taken(k, Len(user))), stack, Taken(k2, Len(stack)))

ForkCopies(p, child, k) ==
  \E k2 \in Enqueue(AllocateFreePage(k, Cardinality(UserPages(p)), "copy")) :
    LET k3 == AllocateFreePage(k2, Cardinality(StackPages(p)), "copy") IN
    \/ Stops(k3)
    \/ /\ Runs(k3)
       /\ mem' = k3
       /\ pid_counter' = child + 1
       /\ live' = live \cup {child}
       /\ pgt_r0' = [pgt_r0 EXCEPT ![child] = ChildTable(p, k, k2)]
       /\ brk' = [brk EXCEPT ![child] = brk[p]]
       /\ uStack_bottom' = [uStack_bottom EXCEPT ![child] = uStack_bottom[p]]
       /\ slot' = [slot EXCEPT ![child] = NextSlot(mem)]
       /\ result' = OK
       /\ UNCHANGED phase

\* Fork has not got what it needs.
ForkRefused(k) == Refused(k) /\ pid_counter' = pid_counter + 1

HandleFork(p) ==
  /\ Runs(mem) /\ p \in live
  /\ pid_counter <= MaxPid                                    \* bound
  /\ \E made \in CreatePCB(mem) :
       \/ Stops(made.k)
       \/ ~made.ok /\ ForkRefused(made.k)
       \/ /\ made.ok
          /\ \E k \in Enqueue(made.k) :
               \/ Stops(k)
               \/ PagesNeeded(p) > k.count /\ ForkRefused(k)
               \/ Runs(k) /\ PagesNeeded(p) <= k.count /\ ForkCopies(p, pid_counter, k)
----------------------------------------------------------------------------
(***************************************************************************)
(* Termination.  MySwitchFunc frees the pages of the process, with its     *)
(* kernel stack, and halts when only idle is left.                         *)
(***************************************************************************)
\* The kernel stack is kept, as LoadProgram keeps it.
PagesToFree_Fault(table) == Valid(table) \ KStack

PagesToFree(table) == {i \in Valid(table) : i >= MEM_INVALID_PAGES}

TerminateProcess(p, k, table) ==
  \E grow \in GrowAt(k, Cardinality(PagesToFree(table))) :
    LET k1 == FreePhysicalPage(k, FramesAt(table, PagesToFree(table)), grow) IN
    \/ Stops(k1)
    \/ /\ Runs(k1)
       /\ mem' = [k1 EXCEPT !.machine = IF live = {p} THEN "halted" ELSE @]
       /\ live' = live \ {p}
       /\ pgt_r0' = [pgt_r0 EXCEPT ![p] = NoTable]
       /\ brk' = [brk EXCEPT ![p] = MEM_INVALID_PAGES]
       /\ uStack_bottom' = [uStack_bottom EXCEPT ![p] = StackLimit]
       /\ slot' = [slot EXCEPT ![p] = NoSlot]
       /\ result' = OK
       /\ UNCHANGED <<phase, pid_counter>>

\* notifyParent allocates the exit status first.
Ends(p, k, table) ==
  \E k1 \in Malloc(k) :
    \/ Stops(k1)
    \/ Runs(k1) /\ TerminateProcess(p, k1, table)

\* By Exit or a trap.
HandleExit(p) ==
  /\ Runs(mem) /\ p \in live
  /\ Ends(p, mem, pgt_r0[p])
----------------------------------------------------------------------------
(***************************************************************************)
(* Exec.  LoadProgram copies the arguments to a buffer, makes its checks,  *)
(* and then replaces the address space; when the file cannot be read into  *)
(* it, the process is terminated.  When AllocateFreePage fails it returns  *)
(* -1 with part of the new pages in place of the old.                      *)
(***************************************************************************)
ExecRefused(p, prog, k) ==
  ~(FitsVirtual(prog) /\ FitsPhysical(k, p, prog)) /\ Refused(k)

\* The page that gets no frame is valid already; the break is set when the
\* pages below it have theirs.
LoadCutShort(p, prog, k) ==
  \E m \in ListEnds(k, FrameNeed(prog)) :
    /\ CutShort(Loaded(k, prog))
    /\ pgt_r0' = [pgt_r0 EXCEPT ![p] =
                    Mapped(Bare(p), SubSeq(Ascending(ProgramPages(prog)), 1, m + 1),
                           Received(k, m + 1))]
    /\ brk' = [brk EXCEPT ![p] = IF m >= prog.text + prog.data THEN HeapEnd(prog) ELSE @]
    /\ result' = ERROR
    /\ UNCHANGED uStack_bottom

HandleExec(p, prog) ==
  /\ Runs(mem) /\ p \in live
  /\ \E k \in Malloc(mem) :                                   \* argbuf
       \/ Stops(k)
       \/ Runs(k) /\ ExecRefused(p, prog, k) /\ UNCHANGED pid_counter
       \/ /\ Runs(k) /\ FitsVirtual(prog) /\ FitsPhysical(k, p, prog)
          /\ \E grow \in GrowAt(k, Cardinality(UserPages(p))) :
               LET freed == Deleted(k, p, grow)
                   new   == Loaded(freed, prog)
               IN
               \/ Stops(new)
               \/ LoadCutShort(p, prog, freed)
               \/ /\ Runs(new)
                  /\ mem' = new
                  /\ Gets(p, LoadedTable(freed, p, prog), prog)
                  /\ result' = OK
                  /\ UNCHANGED <<phase, live, pid_counter, slot>>
               \/ /\ Runs(new)                                   \* read fails
                  /\ Ends(p, new, LoadedTable(freed, p, prog))
----------------------------------------------------------------------------
(***************************************************************************)
(* Brk, in pages: new is the first page above the heap that is asked for.  *)
(* The arithmetic is that of unsigned int, so that a break that goes down  *)
(* asks for a huge number of frames.  When AllocateFreePage fails the      *)
(* break stays at the page that got no frame.                              *)
(***************************************************************************)
\* The break may reach the stack.
BrkRefused_Fault(p, new) ==
  \/ Unsigned(new - 1) > Unsigned(uStack_bottom[p] - 1)
  \/ Unsigned(new - 1) < MEM_INVALID_PAGES
  \/ Unsigned(new - brk[p]) > Unsigned(mem.count)

BrkRefused(p, new) ==
  \/ Unsigned(new - 1) >= Unsigned(uStack_bottom[p] - 1)
  \/ Unsigned(new - 1) < MEM_INVALID_PAGES
  \/ Unsigned(new - brk[p]) > Unsigned(mem.count)

BrkUp(p, new) ==
  LET n  == new - brk[p]
      k1 == AllocateFreePage(mem, n, "brk")
  IN
  /\ new > brk[p]
  /\ \/ Stops(k1)
     \/ /\ Runs(k1)
        /\ mem' = k1
        /\ pgt_r0' = [pgt_r0 EXCEPT ![p] =
                        Mapped(@, Ascending(brk[p]..(new - 1)), Taken(mem, n))]
        /\ brk' = [brk EXCEPT ![p] = new]
        /\ result' = OK
        /\ UNCHANGED <<phase, live, pid_counter, uStack_bottom, slot>>
     \/ \E m \in ListEnds(mem, n) :
          /\ CutShort(k1)
          /\ pgt_r0' = [pgt_r0 EXCEPT ![p] =
                          Mapped(@, Ascending(brk[p]..(brk[p] + m - 1)), Received(mem, m))]
          /\ brk' = [brk EXCEPT ![p] = brk[p] + m]
          /\ result' = ERROR
          /\ UNCHANGED uStack_bottom

\* From the last page of the heap down.
BrkDown(p, new) ==
  LET pages == Reverse(Ascending(new..(brk[p] - 1))) IN
  /\ new < brk[p]
  /\ \E grow \in GrowAt(mem, Len(pages)) :
       LET k1 == FreePhysicalPage(mem, [n \in DOMAIN pages |-> pgt_r0[p][pages[n]]], grow) IN
       \/ Stops(k1)
       \/ /\ Runs(k1)
          /\ mem' = k1
          /\ pgt_r0' = [pgt_r0 EXCEPT ![p] =
                          [i \in Page |-> IF i \in Range(pages) THEN NoFrame ELSE @[i]]]
          /\ brk' = [brk EXCEPT ![p] = new]
          /\ result' = OK
          /\ UNCHANGED <<phase, live, pid_counter, uStack_bottom, slot>>

HandleBrk(p, new) ==
  /\ Runs(mem) /\ p \in live
  /\ \/ BrkRefused(p, new) /\ Refused(mem) /\ UNCHANGED pid_counter
     \/ ~BrkRefused(p, new) /\ BrkUp(p, new)
     \/ ~BrkRefused(p, new) /\ BrkDown(p, new)
     \/ /\ ~BrkRefused(p, new) /\ new = brk[p]
        /\ result' = OK
        /\ UNCHANGED <<mem, phase, live, pid_counter, spaces, slot>>
----------------------------------------------------------------------------
(***************************************************************************)
(* A fault at page x.  Above the heap and a page kept free, and below the  *)
(* stack, the stack grows down to x; any other fault is the end.  When     *)
(* AllocateFreePage fails the pages that got a frame are mapped, and the   *)
(* bottom of the stack is where it was.                                    *)
(***************************************************************************)
InStackReach(p, x) ==
  /\ x > brk[p] + 1 /\ x < uStack_bottom[p]
  /\ uStack_bottom[p] - x <= Unsigned(mem.count)

StackGrows(p, x) ==
  LET n  == uStack_bottom[p] - x
      k1 == AllocateFreePage(mem, n, "stack")
  IN
  \/ Stops(k1)
  \/ /\ Runs(k1)
     /\ mem' = k1
     /\ pgt_r0' = [pgt_r0 EXCEPT ![p] =
                     Mapped(@, Reverse(Ascending(x..(uStack_bottom[p] - 1))), Taken(mem, n))]
     /\ uStack_bottom' = [uStack_bottom EXCEPT ![p] = x]
     /\ result' = OK
     /\ UNCHANGED <<phase, live, pid_counter, brk, slot>>
  \/ \E m \in ListEnds(mem, n) :
       /\ CutShort(k1)
       /\ pgt_r0' = [pgt_r0 EXCEPT ![p] =
                       Mapped(@, Reverse(Ascending((uStack_bottom[p] - m)..(uStack_bottom[p] - 1))),
                              Received(mem, m))]
       /\ result' = OK
       /\ UNCHANGED <<brk, uStack_bottom>>

TrapMemoryHandler(p, x) ==
  /\ Runs(mem) /\ p \in live
  /\ pgt_r0[p][x] = NoFrame
  /\ IF InStackReach(p, x) THEN StackGrows(p, x) ELSE HandleExit(p)

\* A malloc in a handler that moves no frames, when the heap has to grow.
KernelMalloc ==
  /\ Runs(mem) /\ phase = "up"
  /\ CanGrow(mem)
  /\ LET k == SetKernelBrk(mem) IN
       \/ Stops(k)
       \/ /\ Runs(k)
          /\ mem' = k
          /\ result' = OK
          /\ UNCHANGED <<phase, live, pid_counter, spaces, slot>>

Next ==
  \/ CreateIdleProcess
  \/ CreateInitProcess
  \/ \E p \in Pid : HandleFork(p)
  \/ \E p \in Pid : HandleExit(p)
  \/ \E p \in Pid, prog \in Programs : HandleExec(p, prog)
  \/ \E p \in Pid, new \in Page : HandleBrk(p, new)
  \/ \E p \in Pid, x \in Page : TrapMemoryHandler(p, x)
  \/ KernelMalloc

Spec == Init /\ [][Next]_memVars
----------------------------------------------------------------------------
Owned(p) == {pgt_r0[p][i] : i \in Valid(pgt_r0[p])} \cap Frame
KernelOwned == {mem.pgt_r1[i] : i \in Valid(mem.pgt_r1)} \cap Frame

\* A handler has taken a node past the end of the list.
Corrupt == mem.machine = "corrupt"

\* The variables have their types; idle's kernel stack keeps its frames.
TypeOK ==
  /\ mem.free \in Seq(Frame)
  /\ mem.count \in Int
  /\ mem.kernel_brk \in 1..HeapPages
  /\ mem.addr_next_pgt_r0 \in 0..HeapPages
  /\ mem.is_half_used \in BOOLEAN
  /\ mem.pgt_r1 \in [0..HeapPages -> Frame \cup {NoFrame, KernelFrame}]
  /\ mem.machine \in {"runs", "halted", "crashed", "corrupt"}
  /\ mem.taker \in {"none", "table", "heap", "load", "copy", "brk", "stack"}
  /\ mem.short \in Nat
  /\ phase \in {"idle", "init", "up"}
  /\ live \subseteq Pid \ {Idle}
  /\ pid_counter \in 0..(MaxPid + 1)
  /\ pgt_r0 \in [Pid -> [Page -> Frame \cup {NoFrame, KernelFrame}]]
  /\ ~Corrupt => \A p \in Pid : \A i \in Page :
       pgt_r0[p][i] = KernelFrame <=> p = Idle /\ i \in KStack
  /\ brk \in [Pid -> Page]
  /\ uStack_bottom \in [Pid -> Page]
  /\ slot \in [Pid -> (0..HeapPages) \X {0, 1, 2}]
  /\ result \in {OK, ERROR}

\* No frame is used twice: it backs one page of one process, or one page of the
\* kernel, or is once in the free list, whatever sequence of Fork, Exec, Brk,
\* stack growth, termination and heap growth led there.
FrameExclusive ==
  ~Corrupt =>
    /\ IsInjective(mem.free)
    /\ \A p, q \in Pid : \A i, j \in Page :
         pgt_r0[p][i] \in Frame /\ pgt_r0[p][i] = pgt_r0[q][j] => p = q /\ i = j
    /\ \A i, j \in 0..HeapPages :
         mem.pgt_r1[i] \in Frame /\ mem.pgt_r1[i] = mem.pgt_r1[j] => i = j
    /\ \A p \in Pid : Owned(p) \cap (Range(mem.free) \cup KernelOwned) = {}
    /\ KernelOwned \cap Range(mem.free) = {}

\* No frame is lost: one that is not free belongs to a living process or to
\* the kernel; a process that ends gives back all it had.
FramesConserved ==
  ~Corrupt =>
    Frame = Range(mem.free) \cup KernelOwned \cup UNION {Owned(p) : p \in live \cup {Idle}}

\* free_pframe_count stays one below the number of frames on the free list,
\* which it is from boot on, through every handler and every failure.
CountOffByOne == ~Corrupt => mem.count = Len(mem.free) + HighFrames - 1

\* In every process's Region 0 exactly the pages below the break and those of
\* the stack are mapped, with an unmapped page between the two: no order of
\* Brk, stack growth, Fork and Exec lets heap and stack meet.
HeapStackApart ==
  ~Corrupt => \A p \in live \cup {Idle} :
    pgt_r0[p] # NoTable /\ phase = "up" =>
      /\ brk[p] < uStack_bottom[p]
      /\ Valid(pgt_r0[p]) =
           (MEM_INVALID_PAGES..(brk[p] - 1)) \cup (uStack_bottom[p]..(StackLimit - 1)) \cup KStack

\* The page tables of living processes are in slots of their own, in mapped
\* pages, and the kernel heap ends below them.
TablesApart ==
  /\ \A p \in live : mem.pgt_r1[slot[p][1]] # NoFrame /\ slot[p][1] >= mem.kernel_brk
  /\ \A p, q \in live : slot[p] = slot[q] => p = q

\* The counts that handlers compare with free_pframe_count before they take
\* frames cover what they take, but for what the heap takes in between: Brk and
\* a growing stack run short of frames, those above the kernel included, only
\* under a count below zero, which they read as a huge one; Fork with the kernel
\* stack it copies, and Exec, by no more than a growth of the heap less one.
CountCovers ==
  [][/\ mem'.taker \in {"brk", "stack"} /\ mem.count # -1 => mem'.short < HighFrames
     /\ mem'.taker \in {"copy", "load"} =>
          mem'.short < HighFrames + Cardinality(PagesToFill(mem))]_memVars
----------------------------------------------------------------------------
\* "remove non-free frames in use by the kernel" (comment in
\* InitMemoryManagement): no handler is given one of them.
KernelFramesSafe == mem.machine # "corrupt"

\* "Case 2: Move down brk (ie. new_brk < current brk)" (comment in HandleBrk).
BrkGoesDown ==
  [][\A p \in Pid, new \in Page :
       MEM_INVALID_PAGES < new /\ new < brk[p] /\ HandleBrk(p, new) => result' = OK]_memVars

\* "Check if there is enough memory to copy current process." (comment in
\* HandleFork): a Fork that passes the check has frames for what it copies.
ForkFits == [][mem'.taker = "copy" => mem'.short < HighFrames]_memVars
----------------------------------------------------------------------------
\* Who a frame belongs to: nobody (-1), the kernel (-2), a process.
owner == [f \in Frame |->
            IF f \in Range(mem.free) THEN -1
            ELSE IF f \in KernelOwned THEN -2
            ELSE CHOOSE p \in Pid : f \in Owned(p)]

Ownership == INSTANCE FrameOwnership WITH Free <- -1, Kernel <- -2, broken <- Corrupt

\* A system call moves frames between its caller, its child, the free list and
\* the kernel only, and the kernel gives none back: no process's memory changes
\* under it because of another's call, until a handler takes a node past the
\* end of the list.
OwnershipSpec == Ownership!Spec
============================================================================
