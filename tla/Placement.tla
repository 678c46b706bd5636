----------------------------- MODULE Placement -----------------------------
(***************************************************************************)
(* The inductive invariant behind OnePlace and HaltedWhenDone.  What keeps *)
(* a process out of a second list is where its kernel stack is suspended:  *)
(* each handler that lists a process also suspends it at a site of its     *)
(* own, and no handler resumes a process without taking it off its list.   *)
(***************************************************************************)
EXTENDS Yalnix

Distinct ==
  /\ IsInjective(runningQueue) /\ IsInjective(delay_queue) /\ IsInjective(wait_queue)
  /\ \A t \in Ttys : IsInjective(readQueue[t]) /\ IsInjective(writeQueue[t])

\* Who is blocked is suspended in the call that blocked it.
BlockedSites ==
  /\ \A p \in Range(delay_queue) : kstack[p].site = "delay"
  /\ \A p \in Range(wait_queue) : kstack[p].site = "wait"
  /\ \A t \in Ttys : \A p \in Range(readQueue[t]) :
       kstack[p].site = "read" /\ kstack[p].tty = t
  /\ \A t \in Ttys : \A p \in Range(writeQueue[t]) :
       kstack[p].site = "write" /\ kstack[p].tty = t

TransmitSites ==
  \A t \in Ttys :
    /\ transmitting[t] = IF writeReady[t] = 1 THEN 0 ELSE 1
    /\ transmitting[t] > 0 =>
         /\ kstack[transmitPCB[t]].site = "write" /\ kstack[transmitPCB[t]].tty = t
         /\ transmitPCB[t] \notin Range(writeQueue[t])

Blocked(p) ==
  \/ p \in Range(delay_queue)
  \/ p \in Range(wait_queue)
  \/ \E t \in Ttys :
       \/ p \in Range(readQueue[t])
       \/ p \in Range(writeQueue[t])
       \/ transmitting[t] > 0 /\ p = transmitPCB[t]

Listed(p) == p \in Range(runningQueue) \/ Blocked(p)

\* A ready process is suspended in a handler that left it ready, or has left
\* the list in which it was blocked.
ReadySites ==
  \A p \in Range(runningQueue) :
    /\ kstack[p].site \in {"fork", "clock", "delay", "wait", "recv", "xmit"}
    /\ ~Blocked(p)

CurrSite ==
  /\ kstack[curr_proc].site \in {"user", "wait", "read", "recv", "xmit"}
  /\ ~Listed(curr_proc)

IdleSite ==
  curr_proc # Idle => kstack[Idle].site \in {"boot", "clock", "recv", "xmit"}

\* Live processes are listed, or run, or are idle; nobody else is.
ListedLive ==
  /\ Idle \in Live
  /\ \A p \in Pid : Listed(p) \/ p = curr_proc => p \in Live
  /\ \A p \in Live \ {curr_proc, Idle} : Listed(p)

PlaceInv ==
  IF halted THEN kstack[curr_proc].site = "user"
  ELSE /\ Distinct /\ BlockedSites /\ TransmitSites /\ ReadySites
       /\ CurrSite /\ IdleSite /\ ListedLive

\* PIDs from pid_counter on are unused; processQueue lists who is alive; when
\* that is nobody the kernel has halted, and else it halts only inside a call.
ProcessInv ==
  /\ \A p \in Pid : p >= pid_counter => pcb[p] = "none" /\ kstack[p] = User
  /\ IsInjective(processQueue)
  /\ Range(processQueue) = Live \ {Idle}
  /\ Live = {Idle} => halted
  /\ halted => Live = {Idle} \/ pcb[curr_proc] = "live"
============================================================================
