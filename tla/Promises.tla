------------------------------ MODULE Promises ------------------------------
(***************************************************************************)
(* The kernel of module Yalnix implements three specifications that know   *)
(* nothing of its lists and stacks: the life of a process, the use of a    *)
(* terminal for output, and the countdown of a delay.                      *)
(***************************************************************************)
EXTENDS Placement

\* Where process p is; "stopped" when the kernel has halted under it, "lost" if
\* it is nowhere.
StateOf(p) ==
  IF pcb[p] = "none" THEN "none"
  ELSE IF pcb[p] = "failed" THEN "failed"
  ELSE IF pcb[p] = "freed" THEN "gone"
  ELSE IF halted THEN "stopped"
  ELSE IF p = curr_proc THEN "running"
  ELSE IF p \in Range(runningQueue) THEN "ready"
  ELSE IF p \in Range(delay_queue) THEN "delayed"
  ELSE IF p \in Range(wait_queue) THEN "waiting"
  ELSE IF \E t \in Ttys : p \in Range(readQueue[t]) THEN "reading"
  ELSE IF \E t \in Ttys : p \in Range(writeQueue[t])
                          \/ (transmitting[t] > 0 /\ p = transmitPCB[t]) THEN "writing"
  ELSE "lost"

\* A process goes through its life in the order the calls lay down, is woken
\* only by what it waits for, and never drops out.
States == INSTANCE ProcessStates WITH
  Procs <- Pid \ {Idle},
  state <- [p \in Pid \ {Idle} |-> StateOf(p)]
StatesSpec == States!Spec

\* A terminal is written to by one process at a time, and those that wait for
\* it follow in the order they came.
Output == INSTANCE TtyOutput WITH
  Procs <- Pid \ {Idle},
  Nobody <- NULL,
  writer <- [t \in Ttys |-> IF transmitting[t] > 0 THEN transmitPCB[t] ELSE NULL],
  waiting <- writeQueue
OutputSpec == Output!Spec

\* A process in Delay counts down at every tick, whoever has the CPU, and
\* leaves at the tick after it has come to 0.
Delays == INSTANCE Countdown WITH
  Procs <- Pid,
  MaxDelay <- MaxTicks,
  delay_left <- [p \in Pid |-> IF p \in Range(delay_queue) THEN delay_left[p] ELSE -1]
DelaysSpec == Delays!Spec
============================================================================
