---------------------------- MODULE DelayProofs ----------------------------
(***************************************************************************)
(* The arithmetic of Delay implements the countdown, for any number of     *)
(* processes and any widths in which the clock and the delays fit.         *)
(***************************************************************************)
EXTENDS DelayTimer, TLAPS

\* delay_until has not wrapped, and nobody's time has passed in delay_queue.
TimerInv ==
  /\ total_runningTime \in 0..MaxTime
  /\ delay_until \in [Procs -> 0..(UIntRange - 1)]
  /\ delay_queue \subseteq Procs
  /\ \A p \in delay_queue : total_runningTime <= delay_until[p]

Left(p) == IF p \in delay_queue THEN delay_until[p] - total_runningTime ELSE -1

LEMMA UIntSum ==
  ASSUME NEW a \in 0..MaxTime, NEW n \in 1..MaxDelay, MaxTime + MaxDelay < UIntRange
  PROVE  (a + n) % UIntRange = a + n /\ a + n \in 0..(UIntRange - 1)
<1>1. a + n \in 0..(UIntRange - 1) /\ UIntRange \in Nat \ {0}
  BY TimerAssumption
<1>2. \A x \in Nat, m \in Nat \ {0} : x < m => x % m = x
  BY Z3
<1> QED BY <1>1, <1>2

LEMMA InitTimer == Init => TimerInv /\ Delays!Init
BY TimerAssumption DEF Init, TimerInv, Delays!Init

LEMMA DelayStep ==
  ASSUME TimerInv, MaxTime + MaxDelay < UIntRange,
         NEW p \in Procs, NEW n \in 1..MaxDelay, HandleDelay(p, n)
  PROVE  TimerInv' /\ Delays!Start(p, n)
<1>1. /\ delay_until' = [delay_until EXCEPT ![p] = total_runningTime + n]
      /\ total_runningTime + n \in 0..(UIntRange - 1)
  BY UIntSum DEF TimerInv, HandleDelay
<1>2. TimerInv'
  BY <1>1, TimerAssumption DEF TimerInv, HandleDelay
<1>3. Left(p)' = n /\ Left(p) = -1
  BY <1>1, TimerAssumption DEF TimerInv, HandleDelay, Left
<1>4. \A q \in Procs \ {p} : Left(q)' = Left(q)
  BY <1>1 DEF TimerInv, HandleDelay, Left
<1> QED BY <1>2, <1>3, <1>4 DEF Delays!Start, Left

LEMMA TickStep ==
  ASSUME TimerInv, TrapClockHandler
  PROVE  TimerInv' /\ Delays!Tick
<1>1. /\ total_runningTime \in Int /\ total_runningTime' = total_runningTime + 1
      /\ \A p \in delay_queue : delay_until[p] \in Int
      /\ delay_until' = delay_until
  BY TimerAssumption DEF TimerInv, TrapClockHandler
<1>2. TimerInv'
  BY <1>1, TimerAssumption DEF TimerInv, TrapClockHandler, DelayOver
<1>3. ASSUME NEW p \in Procs
      PROVE  Left(p)' = IF Left(p) = -1 THEN -1 ELSE Left(p) - 1
  <2>1. CASE p \notin delay_queue
    BY <2>1 DEF TrapClockHandler, Left
  <2>2. CASE p \in delay_queue /\ DelayOver(p)
    BY <1>1, <2>2 DEF TimerInv, TrapClockHandler, DelayOver, Left
  <2>3. CASE p \in delay_queue /\ ~DelayOver(p)
    BY <1>1, <2>3 DEF TimerInv, TrapClockHandler, DelayOver, Left
  <2> QED BY <2>1, <2>2, <2>3
<1> QED BY <1>2, <1>3 DEF Delays!Tick, Left

\* Delay counts down: a process stays in delay_queue for as many ticks as it
\* asked for and one more, whatever the others do, although the kernel stores
\* only the time at which the delay ends, and in an unsigned int (HandleDelay,
\* TrapClockHandler).
THEOREM DelayCountsDown ==
  ASSUME MaxTime + MaxDelay < UIntRange
  PROVE  Spec => CountdownSpec
<1>1. TimerInv /\ [Next]_vars =>
        TimerInv' /\ [Delays!Next]_([p \in Procs |-> Left(p)])
  <2> SUFFICES ASSUME TimerInv, [Next]_vars
               PROVE  TimerInv' /\ [Delays!Next]_([p \in Procs |-> Left(p)])
    OBVIOUS
  <2>1. CASE \E p \in Procs, n \in 1..MaxDelay : HandleDelay(p, n)
    BY <2>1, DelayStep DEF Delays!Next
  <2>2. CASE TrapClockHandler
    BY <2>2, TickStep DEF Delays!Next
  <2>3. CASE UNCHANGED vars
    BY <2>3 DEF vars, TimerInv, Left
  <2> QED BY <2>1, <2>2, <2>3 DEF Next
<1>2. TimerInv /\ [Next]_vars => TimerInv' /\ [Delays!Next]_(
        [p \in Procs |-> IF p \in delay_queue
                           THEN delay_until[p] - total_runningTime ELSE -1])
  BY <1>1 DEF Left
<1> QED BY InitTimer, <1>2, PTL DEF Spec, CountdownSpec, Delays!Spec
============================================================================
