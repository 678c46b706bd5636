----------------------------- MODULE Countdown -----------------------------
(***************************************************************************)
(* Delay as modules Processes and Yalnix have it: a process in delay_queue *)
(* counts down, and leaves at the tick after it has come to 0.             *)
(***************************************************************************)
EXTENDS Integers

CONSTANTS
  Procs,        \* processes
  MaxDelay      \* the longest delay

VARIABLE delay_left     \* delay_left[p], -1 for a process that is not delayed

Init == delay_left = [p \in Procs |-> -1]

Start(p, n) ==
  /\ delay_left[p] = -1
  /\ delay_left' = [delay_left EXCEPT ![p] = n]

Tick ==
  delay_left' = [p \in Procs |-> IF delay_left[p] = -1 THEN -1 ELSE delay_left[p] - 1]

Next == Tick \/ \E p \in Procs, n \in 1..MaxDelay : Start(p, n)

Spec == Init /\ [][Next]_delay_left
============================================================================
