----------------------------- MODULE Processes -----------------------------
(***************************************************************************)
(* Processes and their scheduling: Fork, Exit, Wait and Delay, the traps   *)
(* that terminate a process, and the round-robin clock.                    *)
(***************************************************************************)
EXTENDS KernelState

\* Definitions whose name ends in Fault are faulty forms of the one that
\* follows: each breaks a property of module Yalnix.

(***************************************************************************)
(* Fork.  CreatePCB takes a PID and then may fail for want of a page       *)
(* table.  The PCB joins running_children before the frames are counted,   *)
(* and stays there when they do not suffice.  Otherwise the child is       *)
(* copied, the parent becomes ready and the child runs.  Whether memory    *)
(* suffices is a choice here.                                              *)
(***************************************************************************)
ForkWithoutPCB ==
  UNCHANGED <<curr_proc, runningQueue, kstack, pcb, parent,
              running_children, processQueue>>

ForkWithoutFrames(child) ==
  /\ pcb' = [pcb EXCEPT ![child] = "failed"]
  /\ parent' = [parent EXCEPT ![child] = curr_proc]
  /\ running_children' = [running_children EXCEPT ![curr_proc] = Append(@, child)]
  /\ UNCHANGED <<curr_proc, runningQueue, kstack, processQueue>>

ForkCopies(child) ==
  /\ pcb' = [pcb EXCEPT ![child] = "live"]
  /\ parent' = [parent EXCEPT ![child] = curr_proc]
  /\ running_children' = [running_children EXCEPT ![curr_proc] = Append(@, child)]
  /\ processQueue' = Append(processQueue, child)
  /\ PreemptBy(child, Frame("fork"))

HandleFork ==
  /\ UserProgram
  /\ pid_counter <= MaxPid                             \* bound
  /\ pid_counter' = pid_counter + 1
  /\ \/ ForkWithoutPCB
     \/ ForkWithoutFrames(pid_counter)
     \/ ForkCopies(pid_counter)
  /\ UNCHANGED <<halted, exited_children, wait_queue, runningTime, timeVars, ttyVars>>
----------------------------------------------------------------------------
(***************************************************************************)
(* Termination, by Exit, by a failed Exec or by an illegal, memory or math *)
(* trap: tell the parent, orphan the children, switch away; MySwitchFunc   *)
(* frees the frames and the PCB, or halts when no process is left to run   *)
(* but idle.  It also halts, with the process still there, when there is   *)
(* no memory for a list node to free a frame with: that is a choice here.  *)
(* The fields of a PCB that goes are cleared: FamilyConsistent says nobody *)
(* looks.                                                                  *)
(***************************************************************************)
WakesParent == parent[curr_proc] # NULL /\ parent[curr_proc] \in Range(wait_queue)

ReadyAfterExit ==
  IF WakesParent THEN Append(runningQueue, parent[curr_proc]) ELSE runningQueue

\* The parent is made ready and still waits.
WaitersAfterExit_Fault == wait_queue

WaitersAfterExit == SearchAndRemovePCB(wait_queue, parent[curr_proc])

notifyParent(status) ==
  LET dad == parent[curr_proc] IN
  /\ wait_queue' = WaitersAfterExit
  /\ running_children' =
       [p \in Pid |-> IF p = curr_proc THEN <<>>
                      ELSE IF p = dad
                        THEN SearchAndRemovePCB(running_children[p], curr_proc)
                        ELSE running_children[p]]
  /\ exited_children' =
       [p \in Pid |-> IF p = curr_proc THEN <<>>
                      ELSE IF p = dad
                        THEN Append(exited_children[p],
                                    [pid |-> curr_proc, status |-> status])
                        ELSE exited_children[p]]

\* The children keep their link to the freed PCB.
notifyChildren_Fault == parent' = [parent EXCEPT ![curr_proc] = NULL]

notifyChildren ==
  parent' = [c \in Pid |-> IF c \in {curr_proc} \cup Range(running_children[curr_proc])
                             THEN NULL ELSE parent[c]]

\* Halts although a process is blocked.
LastOneGone_Fault(next, left) == next = Idle

LastOneGone(next, left) == next = Idle /\ left = <<>>

\* FreePhysicalPage has no memory for its list node.
HaltsFreeing ==
  /\ halted' = TRUE
  /\ UNCHANGED <<curr_proc, kstack, pcb, processQueue, runningTime>>

FreesPCB ==
  LET next == NextReady(ReadyAfterExit)
      left == SearchAndRemovePCB(processQueue, curr_proc)
  IN
  /\ processQueue' = left
  /\ pcb' = [pcb EXCEPT ![curr_proc] = "freed"]
  /\ runningTime' = [runningTime EXCEPT ![curr_proc] = 0]
  /\ IF LastOneGone(next, left)
       THEN halted' = TRUE /\ UNCHANGED <<curr_proc, kstack>>
       ELSE halted' = FALSE /\ SwitchTo(next, User)

TerminateProcess(status) ==
  /\ notifyParent(status)
  /\ notifyChildren
  /\ runningQueue' = AfterNext(ReadyAfterExit)
  /\ FreesPCB \/ HaltsFreeing
  /\ UNCHANGED <<pid_counter, timeVars, ttyVars>>

HandleExit(status) == UserProgram /\ TerminateProcess(status)

\* A call that frees pages of the caller while it goes on living.
FreesPages ==
  /\ HaltsFreeing
  /\ UNCHANGED <<runningQueue, wait_queue, pid_counter, parent, running_children,
                 exited_children, timeVars, ttyVars>>

\* Exec whose program cannot be read in once the old one is gone, or that
\* halts over the old one's pages.  One that succeeds, or fails earlier,
\* leaves the state modelled here alone.
HandleExec == UserProgram /\ (TerminateProcess(ERROR) \/ FreesPages)

\* A Brk that lowers the break and halts; any other leaves this state alone.
HandleBrk == UserProgram /\ FreesPages

TrapIllegalHandler == UserProgram /\ TerminateProcess(ERROR)
TrapMathHandler == UserProgram /\ TerminateProcess(ERROR)

\* A fault out of the stack's reach; one within it grows the stack, which
\* leaves the state modelled here alone.
TrapMemoryHandler == UserProgram /\ TerminateProcess(ERROR)
----------------------------------------------------------------------------
(***************************************************************************)
(* Wait.  CollectChild is the code behind the call of scheduleNextProcess, *)
(* run at once when a child has exited and otherwise on resumption.        *)
(***************************************************************************)
CollectChild ==
  /\ exited_children' = [exited_children EXCEPT ![curr_proc] = Tail(@)]
  /\ UNCHANGED <<curr_proc, runningQueue, wait_queue>>

HandleWait ==
  /\ UserProgram
  /\ \/ /\ exited_children[curr_proc] = <<>>             \* no child: ERROR
        /\ running_children[curr_proc] = <<>>
        /\ UNCHANGED <<curr_proc, runningQueue, wait_queue, kstack, exited_children>>
     \/ /\ exited_children[curr_proc] = <<>>
        /\ running_children[curr_proc] # <<>>
        /\ wait_queue' = Append(wait_queue, curr_proc)
        /\ scheduleNextProcess(Frame("wait"))
        /\ UNCHANGED exited_children
     \/ /\ exited_children[curr_proc] # <<>>
        /\ CollectChild
        /\ UNCHANGED kstack
  /\ UNCHANGED <<pid_counter, halted, pcb, parent, running_children,
                 processQueue, runningTime, timeVars, ttyVars>>

ResumeWait ==
  /\ kstack[curr_proc].site = "wait"
  /\ exited_children[curr_proc] # <<>>      \* else a NULL status is read
  /\ CollectChild
  /\ ReturnToUser
  /\ UNCHANGED <<pid_counter, halted, pcb, parent, running_children,
                 processQueue, runningTime, timeVars, ttyVars>>
----------------------------------------------------------------------------
\* Delay(n), n > 0; for n <= 0 it returns and changes nothing.
HandleDelay(n) ==
  /\ UserProgram
  /\ delay_left' = [delay_left EXCEPT ![curr_proc] = n]
  /\ delay_queue' = Append(delay_queue, curr_proc)
  /\ scheduleNextProcess(Frame("delay"))
  /\ UNCHANGED <<wait_queue, runningTime, procVars, ttyVars>>

(***************************************************************************)
(* The clock.  A process leaves delay_queue when total_runningTime exceeds *)
(* its delay_until, that is when delay_left falls below 0.  A slice is two *)
(* ticks; idle does not go back to the ready queue.                        *)
(***************************************************************************)
\* A process is woken a tick early.
Expired_Fault == {p \in Range(delay_queue) : delay_left[p] - 1 <= 0}

Expired == {p \in Range(delay_queue) : delay_left[p] - 1 < 0}

\* A process that leaves delay_queue is not made ready.
ReadyAtTick_Fault == runningQueue

ReadyAtTick == runningQueue \o Keep(delay_queue, Expired)

\* A slice of three ticks.
SliceOver_Fault == runningTime[curr_proc] + 1 > 2

SliceOver == runningTime[curr_proc] + 1 >= 2

\* Idle goes to the ready queue like any other process.
Requeue_IdleFault(ready) == Append(ready, curr_proc)

\* The process whose slice is over goes before those that are ready.
Requeue_FrontFault(ready) == IF curr_proc # Idle THEN <<curr_proc>> \o ready ELSE ready

\* As above, and idle too: with two processes it takes a third to pass one over.
Requeue_PushFault(ready) == <<curr_proc>> \o ready

Requeue(ready) == IF curr_proc # Idle THEN Append(ready, curr_proc) ELSE ready

TrapClockHandler ==
  /\ UserMode
  /\ delay_queue' = Keep(delay_queue, Range(delay_queue) \ Expired)
  /\ delay_left' = [p \in Pid |->
                      IF p \in Range(delay_queue) \ Expired THEN delay_left[p] - 1 ELSE 0]
  /\ runningTime' = [runningTime EXCEPT ![curr_proc] = IF SliceOver THEN 0 ELSE @ + 1]
  /\ IF SliceOver /\ ReadyAtTick # <<>>
       THEN /\ SwitchTo(Head(ReadyAtTick), Frame("clock"))
            /\ runningQueue' = Requeue(Tail(ReadyAtTick))
       ELSE /\ runningQueue' = ReadyAtTick
            /\ UNCHANGED <<curr_proc, kstack>>
  /\ UNCHANGED <<wait_queue, procVars, ttyVars>>
============================================================================
