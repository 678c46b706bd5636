---------------------------- MODULE KernelState ----------------------------
(***************************************************************************)
(* The state of the Yalnix kernel that its trap handlers share: the PCBs,  *)
(* the process queues, the terminals' buffers and queues, and the place in *)
(* kernel code at which each process that is not running is suspended.     *)
(*                                                                         *)
(* The RCS 421 has one CPU and delivers interrupts in user mode only, so a *)
(* handler runs without interruption until it calls ContextSwitch.  A step *)
(* of the model is such a stretch of kernel code: from a trap, or from the *)
(* return of ContextSwitch, to the next ContextSwitch or the return to     *)
(* user mode.                                                              *)
(***************************************************************************)
EXTENDS Integers, Sequences, SequencesExt, FiniteSets

CONSTANTS
  MaxPid,      \* bound: the last PID handed out (CreatePCB never reuses one)
  MaxTicks,    \* bound: the longest delay a program asks for
  Statuses,    \* exit statuses, ERROR among them
  ERROR,       \* the status of a process the kernel terminates
  Ttys,        \* terminals (a subset of the NUM_TERMINALS of the hardware)
  MaxLine,     \* bound: the longest line, TERMINAL_MAX_LINE in the hardware
  MaxInput,    \* bound: lines a terminal may have unread
  NULL         \* the null pointer

ASSUME KernelAssumption ==
  /\ MaxPid \in Nat /\ MaxPid >= 1
  /\ MaxTicks \in Nat /\ MaxTicks >= 1
  /\ ERROR \in Statuses
  /\ MaxLine \in Nat /\ MaxLine >= 1
  /\ MaxInput \in Nat
  /\ NULL \notin Int /\ NULL \notin Ttys

Pid  == 0..MaxPid
Idle == 0              \* idle_pcb: CreateIdlePCB takes PID 0
First == 1             \* the init process

VARIABLES
  curr_proc,         \* the running process
  pid_counter,       \* the next PID
  halted,            \* Halt() was called
  pcb,               \* pcb[p]: "none", "live", "failed" (Fork gave up) or "freed"
  parent,            \* parent[p]: p's parent, NULL for an orphan
  running_children,  \* running_children[p]: FIFO of p's children
  exited_children,   \* exited_children[p]: statuses p has not collected
  processQueue,      \* every process but idle
  runningQueue,      \* FIFO of ready processes
  delay_queue,       \* processes in Delay
  wait_queue,        \* processes in Wait
  runningTime,       \* ticks counted against p's time slice
  delay_left,        \* delay_until - total_runningTime, while in delay_queue
  kstack,            \* kstack[p]: where p's kernel stack is suspended
  inputBuffer,       \* inputBuffer[t]: FIFO of received lines (textStruct)
  readReady,         \* readReady[t]: 1 or -1
  writeReady,        \* writeReady[t]: 1 or -1
  readQueue,         \* readQueue[t]: processes blocked in TtyRead
  writeQueue,        \* writeQueue[t]: processes waiting to transmit
  transmitPCB,       \* transmitPCB[t]: the process that last transmitted
  transmitting       \* transmitting[t]: TtyTransmits whose interrupt is due

procVars == <<pid_counter, halted, pcb, parent, running_children,
              exited_children, processQueue>>
timeVars == <<delay_queue, delay_left>>
inVars   == <<inputBuffer, readReady, readQueue>>
outVars  == <<writeReady, writeQueue, transmitPCB, transmitting>>
ttyVars  == <<inVars, outVars>>
vars == <<curr_proc, runningQueue, wait_queue, runningTime, kstack,
          procVars, timeVars, ttyVars>>
----------------------------------------------------------------------------
(***************************************************************************)
(* Kernel stacks.  "user" is user mode.  Every other site names the        *)
(* handler whose call of ContextSwitch suspended the process, with its     *)
(* terminal and, in TtyRead, the length that was asked for.                *)
(***************************************************************************)
Returning == {"boot", "fork", "clock", "delay", "write"}
Sites     == {"user", "wait", "read", "recv", "xmit"} \cup Returning

TtySites  == {"read", "recv", "write", "xmit"}

Frames == [site : Sites \ TtySites, tty : {NULL}, len : {0}]
            \cup [site : TtySites, tty : Ttys, len : 0..MaxLine]

Frame(site) == [site |-> site, tty |-> NULL, len |-> 0]
TtyFrame(site, t, n) == [site |-> site, tty |-> t, len |-> n]
User == Frame("user")

\* At the sites of Returning nothing but the return from the trap is left.
Resumed(frame) == IF frame.site \in Returning THEN User ELSE frame

UserMode == ~halted /\ kstack[curr_proc].site = "user"
UserProgram == UserMode /\ curr_proc # Idle     \* idle.c only calls Pause
----------------------------------------------------------------------------
(***************************************************************************)
(* Lists.  enqueueToList is Append, dequeueFromList is Head and Tail.      *)
(***************************************************************************)
SearchAndRemovePCB(list, p) == RemoveFirst(list, p)

\* The entries of list that are in S, in the order of list.
Keep(list, S) ==
  LET at == {i \in 1..Len(list) : list[i] \in S}
      nth(k) == CHOOSE i \in at : Cardinality({j \in at : j <= i}) = k
  IN  [k \in 1..Cardinality(at) |-> list[nth(k)]]
----------------------------------------------------------------------------
(***************************************************************************)
(* ContextSwitch(MySwitchFunc, ...) from the running process, suspended at *)
(* frame, to q, in the case that copies nothing and frees nothing.         *)
(***************************************************************************)
SwitchTo(q, frame) ==
  /\ curr_proc' = q
  /\ kstack' = [kstack EXCEPT ![curr_proc] = frame, ![q] = Resumed(@)]

NextReady(ready) == IF ready = <<>> THEN Idle ELSE Head(ready)
AfterNext(ready) == IF ready = <<>> THEN <<>> ELSE Tail(ready)

\* Block the running process at frame and run the head of the ready queue.
scheduleNextProcess(frame) ==
  /\ SwitchTo(NextReady(runningQueue), frame)
  /\ runningQueue' = AfterNext(runningQueue)

\* The running process stays ready behind the others; q runs at once.
PreemptBy(q, frame) ==
  /\ SwitchTo(q, frame)
  /\ runningQueue' = Append(runningQueue, curr_proc)

\* The running process goes back to user mode.
ReturnToUser == kstack' = [kstack EXCEPT ![curr_proc] = User]
============================================================================
