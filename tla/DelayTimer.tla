----------------------------- MODULE DelayTimer -----------------------------
(***************************************************************************)
(* The numbers behind Delay: total_runningTime is an unsigned long, the    *)
(* delay_until of a PCB an unsigned int, and the clock handler compares    *)
(* the two.  The other modules count a delay down instead (Countdown).     *)
(***************************************************************************)
EXTENDS Integers, FiniteSets

CONSTANTS
  Procs,        \* processes
  MaxDelay,     \* bound: the longest delay
  UIntRange,    \* the number of values of an unsigned int, 2^32
  MaxTime       \* bound: ticks, far below the 2^64 of an unsigned long

ASSUME TimerAssumption ==
  /\ MaxDelay \in Nat \ {0} /\ UIntRange \in Nat \ {0} /\ MaxTime \in Nat

VARIABLES
  total_runningTime,  \* ticks since boot
  delay_until,        \* delay_until[p]
  delay_queue         \* as a set

vars == <<total_runningTime, delay_until, delay_queue>>

Init ==
  /\ total_runningTime = 0
  /\ delay_until = [p \in Procs |-> 0]
  /\ delay_queue = {}

\* Delay(n), n > 0; for n <= 0 it returns at once.
HandleDelay(p, n) ==
  /\ p \notin delay_queue
  /\ delay_queue' = delay_queue \cup {p}
  /\ delay_until' = [delay_until EXCEPT ![p] = (total_runningTime + n) % UIntRange]
  /\ UNCHANGED total_runningTime

\* A process leaves when its time has come, not when it is over.
DelayOver_Fault(p) == total_runningTime + 1 >= delay_until[p]

DelayOver(p) == total_runningTime + 1 > delay_until[p]

TrapClockHandler ==
  /\ total_runningTime < MaxTime                            \* bound
  /\ total_runningTime' = total_runningTime + 1
  /\ delay_queue' = {p \in delay_queue : ~DelayOver(p)}
  /\ UNCHANGED delay_until

Next ==
  \/ \E p \in Procs, n \in 1..MaxDelay : HandleDelay(p, n)
  \/ TrapClockHandler

Spec == Init /\ [][Next]_vars
----------------------------------------------------------------------------
\* As long as MaxTime + MaxDelay < UIntRange, a delay is the countdown that the
\* kernel's modules take it for.  Past it delay_until is small, and the delay
\* over at the next tick.
Delays == INSTANCE Countdown WITH
  delay_left <- [p \in Procs |-> IF p \in delay_queue
                                   THEN delay_until[p] - total_runningTime ELSE -1]

CountdownSpec == Delays!Spec
============================================================================
