--------------------------- MODULE ProcessStates ---------------------------
(***************************************************************************)
(* The life of a process as its user sees it, without lists, stacks and    *)
(* parents: which state may follow which, and what must happen to others   *)
(* in the same step.                                                       *)
(***************************************************************************)
CONSTANTS
  Procs,      \* every process but idle
  First       \* the init process

VARIABLE state

Alive == {"running", "ready"}
Blocked == {"delayed", "waiting", "reading", "writing"}

\* A process comes into being, runs, makes way, blocks, is woken, ends.  Who
\* reads or writes is switched to at once; a delay or Wait may end with the
\* process ready or, when the CPU is given up in the same step, running.
Follows ==
  {<<"none", "running">>, <<"none", "failed">>,
   <<"running", "ready">>, <<"ready", "running">>, <<"running", "gone">>,
   <<"delayed", "ready">>, <<"delayed", "running">>,
   <<"waiting", "ready">>, <<"waiting", "running">>,
   <<"reading", "running">>, <<"writing", "running">>}
  \cup {<<"running", s>> : s \in Blocked}

Init == state = [p \in Procs |-> IF p = First THEN "running" ELSE "none"]

Some(from, to) == \E p \in Procs : state[p] = from /\ state'[p] = to

Stopped == \E p \in Procs : state[p] = "stopped"

\* A call of the running process halts the machine, and nobody goes on.
Stop ==
  /\ ~Stopped /\ \E p \in Procs : state[p] = "running"
  /\ state' = [p \in Procs |-> IF state[p] \in Alive \cup Blocked THEN "stopped"
                               ELSE state[p]]

Proceed ==
  /\ ~Stopped
  /\ state' \in [Procs -> Alive \cup Blocked \cup {"none", "failed", "gone"}]
  /\ \A p \in Procs : state'[p] = state[p] \/ <<state[p], state'[p]>> \in Follows
  \* one CPU
  /\ \A p, q \in Procs : state'[p] = "running" /\ state'[q] = "running" => p = q
  \* one process comes, ends, blocks or is switched away from in a step
  /\ \A p, q \in Procs :
       state[p] \in {"none", "running"} /\ state'[p] # state[p]
         /\ state[q] = state[p] /\ state'[q] # state[q] => p = q
  \* a parent makes way for its child
  /\ Some("none", "running") => Some("running", "ready")
  \* only the end of a process ends a Wait, and only one
  /\ \A p \in Procs : state[p] = "waiting" /\ state'[p] # "waiting" =>
       /\ Some("running", "gone")
       /\ \A q \in Procs \ {p} : state[q] = "waiting" => state'[q] = "waiting"
  \* whom an interrupt switches away from stays ready
  /\ Some("reading", "running") \/ Some("writing", "running") =>
       \A p \in Procs : state[p] = "running" => state'[p] = "ready"

Next == Stop \/ Proceed

Spec == Init /\ [][Next]_state
============================================================================
