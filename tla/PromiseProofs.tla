---------------------------- MODULE PromiseProofs ----------------------------
(***************************************************************************)
(* The kernel implements the abstract specifications of the life of a      *)
(* process, of terminal output and of delays, for every number of          *)
(* processes and terminals: each step of the kernel is a step of the       *)
(* specification or changes nothing there.                                 *)
(***************************************************************************)
EXTENDS Promises, PlacementProofs

----------------------------------------------------------------------------
(***************************************************************************)
(* The life of a process.                                                  *)
(***************************************************************************)
Procs == Pid \ {Idle}
AllStates == {"none", "failed", "gone", "running", "ready",
              "delayed", "waiting", "reading", "writing"}

Reads(p) == \E t \in Ttys : p \in Range(readQueue[t])
Writes(p) == \E t \in Ttys : p \in Range(writeQueue[t])
                               \/ (transmitting[t] > 0 /\ p = transmitPCB[t])

\* What the state of a process says of the PCBs and of the lists.
PlacedAs(p) ==
  /\ StateOf(p) \in AllStates
  /\ StateOf(p) = "none" <=> pcb[p] = "none"
  /\ StateOf(p) = "failed" <=> pcb[p] = "failed"
  /\ StateOf(p) = "gone" <=> pcb[p] = "freed"
  /\ StateOf(p) = "running" <=> p = curr_proc
  /\ StateOf(p) = "ready" <=> p \in Range(runningQueue)
  /\ StateOf(p) = "delayed" <=> p \in Range(delay_queue)
  /\ StateOf(p) = "waiting" <=> p \in Range(wait_queue)
  /\ StateOf(p) = "reading" <=> Reads(p)
  /\ StateOf(p) = "writing" <=> Writes(p)

EveryonePlaced == halted \/ \A p \in Procs : PlacedAs(p)

LEMMA Placed == TypeOK /\ PlaceInv => EveryonePlaced
<1> SUFFICES ASSUME TypeOK, PlaceInv, ~halted, NEW p \in Procs PROVE PlacedAs(p)
  BY DEF EveryonePlaced
<1>1. /\ BlockedSites /\ TransmitSites /\ ReadySites /\ ListedLive
      /\ ~Blocked(curr_proc) /\ curr_proc \notin Range(runningQueue)
      /\ p \in Pid \ {Idle} /\ pcb[p] \in {"none", "live", "failed", "freed"}
  BY BlockedFacts DEF Procs, TypeOK, ProcTypes
<1>2. /\ p \in Range(delay_queue) => kstack[p].site = "delay"
      /\ p \in Range(wait_queue) => kstack[p].site = "wait"
      /\ Reads(p) => kstack[p].site = "read"
      /\ Writes(p) => kstack[p].site = "write"
  BY <1>1 DEF BlockedSites, TransmitSites, Reads, Writes
<1>3. Blocked(p) <=> p \in Range(delay_queue) \/ p \in Range(wait_queue) \/ Reads(p) \/ Writes(p)
  BY DEF Blocked, Reads, Writes
<1>4. /\ p \in Range(runningQueue) => ~Blocked(p)
      /\ p = curr_proc => ~Blocked(p) /\ p \notin Range(runningQueue)
  BY <1>1 DEF ReadySites
<1>5. pcb[p] = "live" <=> Blocked(p) \/ p \in Range(runningQueue) \/ p = curr_proc
  BY <1>1 DEF ListedLive, Listed, Live
<1>6. StateOf(p) =
        IF pcb[p] = "none" THEN "none" ELSE IF pcb[p] = "failed" THEN "failed"
        ELSE IF pcb[p] = "freed" THEN "gone" ELSE IF p = curr_proc THEN "running"
        ELSE IF p \in Range(runningQueue) THEN "ready"
        ELSE IF p \in Range(delay_queue) THEN "delayed"
        ELSE IF p \in Range(wait_queue) THEN "waiting"
        ELSE IF Reads(p) THEN "reading" ELSE IF Writes(p) THEN "writing" ELSE "lost"
  BY DEF StateOf, Reads, Writes
<1>7. StateOf(p) \in AllStates \cup {"lost"}
  BY <1>6 DEF AllStates
<1> HIDE DEF AllStates
<1>8. StateOf(p) \in AllStates
  BY <1>1, <1>3, <1>5, <1>6 DEF AllStates
<1>9. /\ StateOf(p) = "none" <=> pcb[p] = "none"
      /\ StateOf(p) = "failed" <=> pcb[p] = "failed"
      /\ StateOf(p) = "gone" <=> pcb[p] = "freed"
  BY <1>1, <1>6
<1>10. /\ StateOf(p) = "running" <=> p = curr_proc
       /\ StateOf(p) = "ready" <=> p \in Range(runningQueue)
       /\ StateOf(p) = "delayed" <=> p \in Range(delay_queue)
  BY <1>1, <1>2, <1>3, <1>4, <1>5, <1>6
<1>11. /\ StateOf(p) = "waiting" <=> p \in Range(wait_queue)
       /\ StateOf(p) = "reading" <=> Reads(p)
       /\ StateOf(p) = "writing" <=> Writes(p)
  BY <1>1, <1>2, <1>3, <1>4, <1>5, <1>6
<1> QED BY <1>8, <1>9, <1>10, <1>11 DEF PlacedAs

\* One process at most runs after the step, in the states there are.
OneRuns ==
  /\ \A p \in Procs : StateOf(p) \in AllStates
  /\ \A p, q \in Procs : StateOf(p) = "running" /\ StateOf(q) = "running" => p = q

LEMMA PlacedRuns == ~halted /\ EveryonePlaced => OneRuns
BY DEF EveryonePlaced, PlacedAs, OneRuns

LEMMA SomeIs ==
  ASSUME NEW from, NEW to
  PROVE  States!Some(from, to) <=> \E p \in Procs : StateOf(p) = from /\ StateOf(p)' = to
BY DEF States!Some, Procs

\* Next of the abstract specification, said of StateOf.
LEMMA NextSays ==
  ASSUME OneRuns, OneRuns',
         \A p \in Procs : StateOf(p)' = StateOf(p) \/ <<StateOf(p), StateOf(p)'>> \in States!Follows,
         \A p, q \in Procs :
           StateOf(p) \in {"none", "running"} /\ StateOf(p)' # StateOf(p)
             /\ StateOf(q) = StateOf(p) /\ StateOf(q)' # StateOf(q) => p = q,
         States!Some("none", "running") => States!Some("running", "ready"),
         \A p \in Procs : StateOf(p) = "waiting" /\ StateOf(p)' # "waiting" =>
           /\ States!Some("running", "gone")
           /\ \A q \in Procs \ {p} : StateOf(q) = "waiting" => StateOf(q)' = "waiting",
         States!Some("reading", "running") \/ States!Some("writing", "running") =>
           \A p \in Procs : StateOf(p) = "running" => StateOf(p)' = "ready"
  PROVE  States!Next
<1>1. [p \in Procs |-> StateOf(p)]' \in
        [Procs -> States!Alive \cup States!Blocked \cup {"none", "failed", "gone"}]
  BY DEF OneRuns, AllStates, States!Alive, States!Blocked
<1>2. \A p, q \in Procs : StateOf(p)' = "running" /\ StateOf(q)' = "running" => p = q
  BY DEF OneRuns
<1>3. ~States!Stopped
  BY DEF OneRuns, AllStates, States!Stopped, Procs
<1> QED BY <1>1, <1>2, <1>3 DEF States!Next, States!Proceed, Procs

LEMMA FollowsSays ==
  /\ \A pair \in {<<"none", "running">>, <<"none", "failed">>,
                  <<"running", "ready">>, <<"ready", "running">>, <<"running", "gone">>,
                  <<"delayed", "ready">>, <<"delayed", "running">>,
                  <<"waiting", "ready">>, <<"waiting", "running">>,
                  <<"reading", "running">>, <<"writing", "running">>,
                  <<"running", "delayed">>, <<"running", "waiting">>,
                  <<"running", "reading">>, <<"running", "writing">>} :
       pair \in States!Follows
BY DEF States!Follows, States!Blocked

\* The process c blocks or ends.  Another may get the CPU, and one that waits
\* may be woken if c ends.
LEMMA Leaves ==
  ASSUME NEW c \in Procs, NEW woken, NEW to \in {"delayed", "waiting", "reading", "writing", "gone"},
         OneRuns, OneRuns', StateOf(c) = "running", StateOf(c)' = to,
         \A p \in Procs \ {c} : StateOf(p) # "running",
         \A p \in Procs \ {c} :
           \/ StateOf(p)' = StateOf(p)
           \/ StateOf(p) = "ready" /\ StateOf(p)' = "running"
           \/ /\ to = "gone" /\ p = woken
              /\ StateOf(p) = "waiting" /\ StateOf(p)' \in {"ready", "running"}
  PROVE  States!Next
<1>1. \A p \in Procs : StateOf(p)' = StateOf(p) \/ <<StateOf(p), StateOf(p)'>> \in States!Follows
  BY FollowsSays
<1>2. \A p, q \in Procs :
        StateOf(p) \in {"none", "running"} /\ StateOf(p)' # StateOf(p)
          /\ StateOf(q) = StateOf(p) /\ StateOf(q)' # StateOf(q) => p = q
  OBVIOUS
<1>3. /\ ~States!Some("none", "running") /\ ~States!Some("reading", "running")
      /\ ~States!Some("writing", "running")
  BY SomeIs
<1>4. \A p \in Procs : StateOf(p) = "waiting" /\ StateOf(p)' # "waiting" =>
        /\ States!Some("running", "gone")
        /\ \A q \in Procs \ {p} : StateOf(q) = "waiting" => StateOf(q)' = "waiting"
  BY SomeIs
<1> QED BY <1>1, <1>2, <1>3, <1>4, NextSays

\* The process q comes out of its terminal, or out of Fork, and the one that
\* ran becomes ready.
LEMMA MakesWay ==
  ASSUME NEW q \in Procs, NEW from \in {"none", "reading", "writing"},
         OneRuns, OneRuns', StateOf(q) = from, StateOf(q)' = "running",
         from = "none" => \E p \in Procs : StateOf(p) = "running",
         \A p, r \in Procs : StateOf(p) = "running" /\ StateOf(r) = "running" => p = r,
         \A p \in Procs \ {q} :
           StateOf(p)' = IF StateOf(p) = "running" THEN "ready" ELSE StateOf(p)
  PROVE  States!Next
<1>1. \A p \in Procs : StateOf(p)' = StateOf(p) \/ <<StateOf(p), StateOf(p)'>> \in States!Follows
  BY FollowsSays
<1>2. \A p, r \in Procs :
        StateOf(p) \in {"none", "running"} /\ StateOf(p)' # StateOf(p)
          /\ StateOf(r) = StateOf(p) /\ StateOf(r)' # StateOf(r) => p = r
  OBVIOUS
<1>3. States!Some("none", "running") => States!Some("running", "ready")
  BY SomeIs
<1>4. \A p \in Procs : StateOf(p) = "waiting" => StateOf(p)' = "waiting"
  OBVIOUS
<1>5. \A p \in Procs : StateOf(p) = "running" => StateOf(p)' = "ready"
  OBVIOUS
<1> QED BY <1>1, <1>2, <1>3, <1>4, <1>5, NextSays

\* Fork fails after it has made the PCB of c.
LEMMA Fails ==
  ASSUME NEW c \in Procs, OneRuns, OneRuns', StateOf(c) = "none", StateOf(c)' = "failed",
         \A p \in Procs \ {c} : StateOf(p)' = StateOf(p)
  PROVE  States!Next
<1>1. \A p \in Procs : StateOf(p)' = StateOf(p) \/ <<StateOf(p), StateOf(p)'>> \in States!Follows
  BY FollowsSays
<1>2. /\ ~States!Some("none", "running") /\ ~States!Some("reading", "running")
      /\ ~States!Some("writing", "running")
  BY SomeIs
<1>3. \A p \in Procs : StateOf(p) = "waiting" => StateOf(p)' = "waiting"
  OBVIOUS
<1>4. \A p, q \in Procs :
        StateOf(p) \in {"none", "running"} /\ StateOf(p)' # StateOf(p)
          /\ StateOf(q) = StateOf(p) /\ StateOf(q)' # StateOf(q) => p = q
  OBVIOUS
<1> QED BY <1>1, <1>2, <1>3, <1>4, NextSays

\* Delays end at a tick, and the CPU may change hands.
LEMMA Ticks ==
  ASSUME OneRuns, OneRuns',
         \A p, r \in Procs : StateOf(p) = "running" /\ StateOf(r) = "running" => p = r,
         \A p \in Procs :
           \/ StateOf(p)' = StateOf(p)
           \/ StateOf(p) = "delayed" /\ StateOf(p)' \in {"ready", "running"}
           \/ StateOf(p) = "ready" /\ StateOf(p)' = "running"
           \/ StateOf(p) = "running" /\ StateOf(p)' = "ready"
  PROVE  States!Next
<1>1. \A p \in Procs : StateOf(p)' = StateOf(p) \/ <<StateOf(p), StateOf(p)'>> \in States!Follows
  BY FollowsSays
<1>2. /\ ~States!Some("none", "running") /\ ~States!Some("reading", "running")
      /\ ~States!Some("writing", "running")
  BY SomeIs
<1>3. \A p \in Procs : StateOf(p) = "waiting" => StateOf(p)' = "waiting"
  OBVIOUS
<1>4. \A p, q \in Procs :
        StateOf(p) \in {"none", "running"} /\ StateOf(p)' # StateOf(p)
          /\ StateOf(q) = StateOf(p) /\ StateOf(q)' # StateOf(q) => p = q
  OBVIOUS
<1> QED BY <1>1, <1>2, <1>3, <1>4, NextSays
\* Whoever makes a system call is not blocked, in TtyWrite or elsewhere.
LEMMA CallerIsFree ==
  ASSUME TypeOK, PlaceInv, UserProgram
  PROVE  curr_proc \in Pid \ {Idle} /\ ~halted /\ ~Blocked(curr_proc)
BY BlockedFacts DEF UserProgram, UserMode, TypeOK, SchedTypes

LEMMA StaysPut ==
  ASSUME NEW p \in Procs, PlacedAs(p), PlacedAs(p)',
         pcb'[p] = pcb[p], p = curr_proc' <=> p = curr_proc,
         p \in Range(runningQueue') <=> p \in Range(runningQueue),
         p \in Range(delay_queue') <=> p \in Range(delay_queue),
         p \in Range(wait_queue') <=> p \in Range(wait_queue),
         Reads(p)' <=> Reads(p), Writes(p)' <=> Writes(p)
  PROVE  StateOf(p)' = StateOf(p)
BY DEF PlacedAs, AllStates

\* The running process c blocks and the head of the ready queue, or idle, runs.
LEMMA BlocksAs ==
  ASSUME TypeOK, PlaceInv, EveryonePlaced', UserProgram, NEW frame, scheduleNextProcess(frame),
         UNCHANGED <<pcb, halted>>, NEW c, c = curr_proc,
         NEW to \in {"delayed", "waiting", "reading", "writing"},
         PlacedAs(c)' => StateOf(c)' = to,
         \A p \in Procs \ {c} :
           /\ p \in Range(delay_queue') <=> p \in Range(delay_queue)
           /\ p \in Range(wait_queue') <=> p \in Range(wait_queue)
           /\ Reads(p)' <=> Reads(p)
           /\ Writes(p)' <=> Writes(p)
  PROVE  States!Next
<1>0. PICK q : q = curr_proc'
  OBVIOUS
<1>1. /\ ~halted /\ ~halted' /\ c \in Procs /\ EveryonePlaced
      /\ \A p \in Procs : PlacedAs(p) /\ PlacedAs(p)'
  BY Placed, CallerIsFree DEF Procs, EveryonePlaced
<1>2. OneRuns /\ OneRuns'
  BY <1>1, PlacedRuns, PTL
<1>3. /\ Range(runningQueue') = Range(runningQueue) \ {q}
      /\ q \in Range(runningQueue) \/ q = Idle
      /\ c \notin Range(runningQueue)
  BY <1>0, <1>1, BlockedFacts, NextSets
     DEF scheduleNextProcess, SwitchTo, Distinct, TypeOK, SchedTypes
<1>4. StateOf(c) = "running" /\ StateOf(c)' = to
  BY <1>1 DEF PlacedAs
<1>5. ASSUME NEW p \in Procs \ {c}
      PROVE  /\ StateOf(p) # "running"
             /\ \/ StateOf(p)' = StateOf(p)
                \/ StateOf(p) = "ready" /\ StateOf(p)' = "running"
  <2>1. StateOf(p) # "running"
    BY <1>1 DEF PlacedAs
  <2>2. CASE p = q
    BY <1>0, <1>1, <1>3, <2>2 DEF PlacedAs, Procs
  <2>3. CASE p # q
    <3>1. /\ p \in Range(runningQueue') <=> p \in Range(runningQueue)
          /\ p # curr_proc' /\ p # curr_proc
      BY <1>0, <1>3, <2>3
    <3> QED BY <1>1, <2>1, <3>1, StaysPut
  <2> QED BY <2>1, <2>2, <2>3
<1> QED BY <1>1, <1>2, <1>4, <1>5, Leaves

LEMMA DelayBlocks ==
  ASSUME TypeOK, PlaceInv, EveryonePlaced', NEW n \in 1..MaxTicks, HandleDelay(n)
  PROVE  States!Next
<1>0. PICK c : c = curr_proc
  OBVIOUS
<1>1. /\ UserProgram /\ scheduleNextProcess(Frame("delay"))
      /\ UNCHANGED <<pcb, halted, wait_queue, readQueue, writeQueue, transmitPCB, transmitting>>
  BY DEF HandleDelay, procVars, ttyVars, inVars, outVars
<1>2. Range(delay_queue') = Range(delay_queue) \cup {c}
  BY <1>0, EnqueueProperties DEF HandleDelay, TypeOK, TimeTypes, SchedTypes
<1>3. \A p \in Procs \ {c} : (Reads(p)' <=> Reads(p)) /\ (Writes(p)' <=> Writes(p))
  BY <1>1 DEF Reads, Writes
<1>4. PlacedAs(c)' => StateOf(c)' = "delayed"
  BY <1>2 DEF PlacedAs
<1> QED BY <1>0, <1>1, <1>2, <1>3, <1>4, BlocksAs

LEMMA WaitBlocks ==
  ASSUME TypeOK, PlaceInv, EveryonePlaced', UserProgram,
         wait_queue' = Append(wait_queue, curr_proc), scheduleNextProcess(Frame("wait")),
         UNCHANGED <<pcb, halted, delay_queue, readQueue, writeQueue, transmitPCB, transmitting>>
  PROVE  States!Next
<1>0. PICK c : c = curr_proc
  OBVIOUS
<1>1. Range(wait_queue') = Range(wait_queue) \cup {c}
  BY <1>0, EnqueueProperties DEF TypeOK, SchedTypes
<1>2. \A p \in Procs \ {c} : (Reads(p)' <=> Reads(p)) /\ (Writes(p)' <=> Writes(p))
  BY DEF Reads, Writes
<1>3. PlacedAs(c)' => StateOf(c)' = "waiting"
  BY <1>1 DEF PlacedAs
<1> QED BY <1>0, <1>1, <1>2, <1>3, BlocksAs

LEMMA ReadBlocks ==
  ASSUME TypeOK, PlaceInv, EveryonePlaced', UserProgram, NEW t \in Ttys, NEW n,
         readQueue' = [readQueue EXCEPT ![t] = Append(@, curr_proc)],
         scheduleNextProcess(TtyFrame("read", t, n)),
         UNCHANGED <<pcb, halted, delay_queue, wait_queue, writeQueue, transmitPCB, transmitting>>
  PROVE  States!Next
<1>0. PICK c : c = curr_proc
  OBVIOUS
<1>1. /\ Range(readQueue'[t]) = Range(readQueue[t]) \cup {c}
      /\ \A u \in Ttys \ {t} : readQueue'[u] = readQueue[u]
  BY <1>0, EnqueueProperties DEF TypeOK, InTypes, SchedTypes
<1>2. \A p \in Procs \ {c} : (Reads(p)' <=> Reads(p)) /\ (Writes(p)' <=> Writes(p))
  BY <1>1 DEF Reads, Writes
<1>3. PlacedAs(c)' => StateOf(c)' = "reading"
  BY <1>1 DEF PlacedAs, Reads
<1> QED BY <1>0, <1>1, <1>2, <1>3, BlocksAs

LEMMA WriteBlocks ==
  ASSUME TypeOK, PlaceInv, EveryonePlaced', NEW t \in Ttys, HandleTtyWrite(t)
  PROVE  States!Next
<1>0. PICK c : c = curr_proc
  OBVIOUS
<1>1. /\ UserProgram /\ scheduleNextProcess(TtyFrame("write", t, 0)) /\ ~halted
      /\ UNCHANGED <<pcb, halted, delay_queue, wait_queue, readQueue>>
  BY DEF HandleTtyWrite, procVars, timeVars, inVars, UserProgram, UserMode
<1>2. /\ writeQueue \in [Ttys -> Seq(Pid)] /\ c \in Pid /\ transmitting \in [Ttys -> Nat]
      /\ transmitPCB \in [Ttys -> Pid \cup {NULL}] /\ TransmitSites
  BY <1>0, <1>1, BlockedFacts DEF TypeOK, OutTypes, SchedTypes
<1>3. CASE writeReady[t] = 1 /\ TtyTransmit(t, c) /\ UNCHANGED writeQueue
  <2>1. /\ transmitting[t] = 0 /\ transmitting'[t] = 1 /\ transmitPCB'[t] = c
        /\ \A u \in Ttys \ {t} : /\ transmitting'[u] = transmitting[u]
                                 /\ transmitPCB'[u] = transmitPCB[u]
    BY <1>2, <1>3 DEF TtyTransmit, TransmitSites
  <2>2. \A p \in Procs \ {c} : (Reads(p)' <=> Reads(p)) /\ (Writes(p)' <=> Writes(p))
    BY <1>1, <1>3, <2>1 DEF Reads, Writes
  <2>3. PlacedAs(c)' => StateOf(c)' = "writing"
    BY <2>1 DEF PlacedAs, Writes
  <2> QED BY <1>0, <1>1, <2>2, <2>3, BlocksAs
<1>4. CASE /\ writeQueue' = [writeQueue EXCEPT ![t] = Append(@, c)]
           /\ UNCHANGED <<writeReady, transmitPCB, transmitting>>
  <2>1. /\ Range(writeQueue'[t]) = Range(writeQueue[t]) \cup {c}
        /\ \A u \in Ttys \ {t} : writeQueue'[u] = writeQueue[u]
    BY <1>2, <1>4, EnqueueProperties
  <2>2. \A p \in Procs \ {c} : (Reads(p)' <=> Reads(p)) /\ (Writes(p)' <=> Writes(p))
    BY <1>1, <1>4, <2>1 DEF Reads, Writes
  <2>3. PlacedAs(c)' => StateOf(c)' = "writing"
    BY <2>1 DEF PlacedAs, Writes
  <2> QED BY <1>0, <1>1, <2>2, <2>3, BlocksAs
<1> QED BY <1>0, <1>3, <1>4 DEF HandleTtyWrite

\* The running process ends: its parent may be woken, and the head of the ready
\* queue, or idle, runs; or else nobody is left and the machine halts.
LEMMA Terminates ==
  ASSUME TypeOK, PlaceInv, ProcessInv', EveryonePlaced', UserProgram,
         NEW status, TerminateProcess(status), FreesPCB
  PROVE  States!Next
<1>0. PICK c, q, woken : /\ c = curr_proc /\ q = NextReady(ReadyAfterExit)
                         /\ woken = IF WakesParent THEN parent[curr_proc] ELSE NULL
  OBVIOUS
<1>1. /\ ~halted /\ c \in Procs /\ c \in Pid /\ NULL \notin Pid
      /\ \A p \in Procs : PlacedAs(p)
      /\ pcb \in [Pid -> {"none", "live", "failed", "freed"}]
  BY <1>0, PidFacts, Placed, CallerIsFree DEF Procs, EveryonePlaced, TypeOK, ProcTypes
<1>2. /\ UNCHANGED <<delay_queue, readQueue, writeQueue, transmitPCB, transmitting>>
      /\ wait_queue' = WaitersAfterExit /\ runningQueue' = AfterNext(ReadyAfterExit)
      /\ pcb'[c] = "freed" /\ \A p \in Procs \ {c} : pcb'[p] = pcb[p]
  BY <1>0, <1>1 DEF TerminateProcess, FreesPCB, notifyParent, timeVars, ttyVars, inVars, outVars,
                    Procs
<1>3. StateOf(c) = "running" /\ \A p \in Procs \ {c} : StateOf(p) # "running"
  BY <1>0, <1>1 DEF PlacedAs
<1>0a. OneRuns
  BY <1>1, PlacedRuns DEF EveryonePlaced
<1>4. CASE halted'
  <2>1. \A p \in Procs : pcb'[p] # "live"
    <3>1. pcb'[curr_proc'] # "live"
      BY <1>0, <1>2, <1>4 DEF FreesPCB
    <3> QED BY <1>4, <3>1 DEF ProcessInv, Live, Procs
  <2>2. StateOf(c)' = "gone"
    BY <1>2 DEF StateOf
  <2>3. \A p \in Procs \ {c} :
          pcb'[p] \in {"none", "failed", "freed"} /\ pcb[p] = pcb'[p]
    BY <1>1, <1>2, <2>1 DEF Procs
  <2>4. \A p \in Procs \ {c} :
          StateOf(p)' = StateOf(p) /\ StateOf(p)' \in {"none", "failed", "gone"}
    BY <2>3 DEF StateOf
  <2>5. OneRuns'
    BY <2>2, <2>4 DEF OneRuns, AllStates
  <2> QED BY <1>0a, <1>1, <1>3, <2>2, <2>4, <2>5, Leaves
<1>5. CASE ~halted'
  <2>1. OneRuns' /\ \A p \in Procs : PlacedAs(p)'
    <3>1. OneRuns'
      BY <1>5, PlacedRuns, PTL
    <3> QED BY <1>5, <3>1 DEF EveryonePlaced
  <2>2. curr_proc' = q
    BY <1>0, <1>5 DEF FreesPCB, SwitchTo
  <2>3. /\ ReadyAfterExit \in Seq(Pid) /\ IsInjective(ReadyAfterExit)
        /\ \A p : p \in Range(ReadyAfterExit) <=>
                    p \in Range(runningQueue) \/ (WakesParent /\ p = woken)
        /\ \A p \in Pid : p \in Range(wait_queue') <=> p \in Range(wait_queue) /\ p # woken
        /\ WakesParent => woken \in Range(wait_queue)
    BY <1>0, <1>2, ExitSets
  <2>4. /\ Range(runningQueue') = Range(ReadyAfterExit) \ {q}
        /\ q \in Range(ReadyAfterExit) \/ q = Idle
    BY <1>0, <1>2, <2>3, NextSets
  <2>5. StateOf(c)' = "gone"
    BY <1>1, <1>2, <2>1 DEF PlacedAs
  <2>6. ASSUME NEW p \in Procs \ {c}
        PROVE  \/ StateOf(p)' = StateOf(p)
               \/ StateOf(p) = "ready" /\ StateOf(p)' = "running"
               \/ p = woken /\ StateOf(p) = "waiting" /\ StateOf(p)' \in {"ready", "running"}
    <3>0. p \in Pid /\ p # Idle /\ p # NULL /\ PlacedAs(p) /\ PlacedAs(p)'
      BY <1>1, <2>1 DEF Procs
    <3>1. CASE p = woken
      <4>1. p \in Range(wait_queue) /\ (p = q \/ p \in Range(runningQueue'))
        BY <1>0, <2>3, <2>4, <3>0, <3>1
      <4> QED BY <2>2, <3>0, <3>1, <4>1 DEF PlacedAs
    <3>2. CASE p # woken /\ p = q
      BY <2>2, <2>3, <2>4, <3>0, <3>2 DEF PlacedAs
    <3>3. CASE p # woken /\ p # q
      <4>1. /\ p \in Range(runningQueue') <=> p \in Range(runningQueue)
            /\ p \in Range(wait_queue') <=> p \in Range(wait_queue)
            /\ p # curr_proc' /\ p # curr_proc
        BY <1>0, <2>2, <2>3, <2>4, <3>0, <3>3
      <4>2. (Reads(p)' <=> Reads(p)) /\ (Writes(p)' <=> Writes(p))
        BY <1>2 DEF Reads, Writes
      <4>3. StateOf(p)' = StateOf(p)
        BY <1>2, <3>0, <4>1, <4>2, StaysPut
      <4> QED BY <4>3
    <3> QED BY <3>1, <3>2, <3>3
  <2> QED BY <1>0a, <1>1, <1>3, <2>1, <2>5, <2>6, Leaves
<1> QED BY <1>4, <1>5

\* The kernel halts inside a call of the running process.
LEMMA Stops ==
  ASSUME TypeOK, PlaceInv, UserProgram, HaltsFreeing
  PROVE  States!Next
<1>1. curr_proc \in Procs /\ ~halted /\ \A p \in Procs : PlacedAs(p)
  BY Placed, CallerIsFree DEF Procs, EveryonePlaced
<1>2. OneRuns /\ StateOf(curr_proc) = "running"
  BY <1>1, PlacedRuns DEF EveryonePlaced, PlacedAs
<1>3. ~States!Stopped
  BY <1>2 DEF OneRuns, AllStates, States!Stopped, Procs
<1>4. ASSUME NEW p \in Procs
      PROVE  StateOf(p)' = IF StateOf(p) \in States!Alive \cup States!Blocked THEN "stopped"
                           ELSE StateOf(p)
  <2>1. StateOf(p)' = IF pcb[p] = "none" THEN "none" ELSE IF pcb[p] = "failed" THEN "failed"
                      ELSE IF pcb[p] = "freed" THEN "gone" ELSE "stopped"
    BY DEF StateOf, HaltsFreeing
  <2>2. StateOf(p) \in AllStates /\ PlacedAs(p)
    BY <1>1, <1>2 DEF OneRuns
  <2> QED BY <2>1, <2>2 DEF PlacedAs, AllStates, States!Alive, States!Blocked
<1> QED BY <1>1, <1>2, <1>3, <1>4 DEF States!Next, States!Stop, Procs

\* q takes the CPU from a process that stays ready.
LEMMA Preempts ==
  ASSUME TypeOK, PlaceInv, EveryonePlaced', ~halted, ~halted', NEW q \in Procs, NEW frame,
         PreemptBy(q, frame), StateOf(q) \in {"none", "reading", "writing"},
         StateOf(q) = "none" => curr_proc # Idle,
         \A p \in Procs \ {q} :
           /\ pcb'[p] = pcb[p]
           /\ p \in Range(delay_queue') <=> p \in Range(delay_queue)
           /\ p \in Range(wait_queue') <=> p \in Range(wait_queue)
           /\ Reads(p)' <=> Reads(p)
           /\ Writes(p)' <=> Writes(p)
  PROVE  States!Next
<1>0. PICK c : c = curr_proc
  OBVIOUS
<1>1. /\ \A p \in Procs : PlacedAs(p) /\ PlacedAs(p)'
      /\ c \in Pid /\ q # Idle
  BY <1>0, Placed DEF Procs, EveryonePlaced, TypeOK, SchedTypes
<1>2. OneRuns /\ OneRuns'
  BY Placed, PlacedRuns, PTL
<1>3. /\ curr_proc' = q /\ Range(runningQueue') = Range(runningQueue) \cup {c}
  BY <1>0, <1>1, EnqueueProperties DEF PreemptBy, SwitchTo, TypeOK, SchedTypes
<1>4. StateOf(q)' = "running" /\ \A p \in Procs : StateOf(p) = "running" <=> p = c
  BY <1>0, <1>1, <1>3 DEF PlacedAs
<1>5. ASSUME NEW p \in Procs \ {q}
      PROVE  StateOf(p)' = IF StateOf(p) = "running" THEN "ready" ELSE StateOf(p)
  <2>1. CASE p = c
    BY <1>1, <1>3, <1>4, <2>1 DEF PlacedAs
  <2>2. CASE p # c
    <3>1. /\ p \in Range(runningQueue') <=> p \in Range(runningQueue)
          /\ p # curr_proc' /\ p # curr_proc
      BY <1>0, <1>3, <2>2
    <3>2. StateOf(p)' = StateOf(p)
      BY <1>1, <3>1, StaysPut
    <3> QED BY <1>4, <2>2, <3>2
  <2> QED BY <2>1, <2>2
<1>6. StateOf(q) = "none" => \E p \in Procs : StateOf(p) = "running"
  BY <1>0, <1>1, <1>4 DEF Procs
<1> QED BY <1>2, <1>4, <1>5, <1>6, MakesWay

\* Nobody moves.
LEMMA NobodyMoves ==
  ASSUME UNCHANGED <<pcb, halted, curr_proc, runningQueue, delay_queue, wait_queue>>,
         \A p \in Procs : (Reads(p)' <=> Reads(p)) /\ (Writes(p)' <=> Writes(p))
  PROVE  UNCHANGED [p \in Procs |-> StateOf(p)]
<1>1. ASSUME NEW p \in Procs PROVE StateOf(p)' = StateOf(p)
  BY DEF StateOf, Reads, Writes
<1> QED BY <1>1

LEMMA ForkMoves ==
  ASSUME TypeOK, PlaceInv, ProcessInv, EveryonePlaced', HandleFork
  PROVE  States!Next \/ UNCHANGED [p \in Procs |-> StateOf(p)]
<1>0. PICK child : child = pid_counter
  OBVIOUS
<1>1. /\ UNCHANGED <<delay_queue, wait_queue, readQueue, writeQueue, transmitPCB, transmitting>>
      /\ ~halted /\ ~halted' /\ curr_proc # Idle /\ child \in Procs /\ child \in Pid
      /\ \A p \in Procs : PlacedAs(p) /\ PlacedAs(p)'
  <2>1. /\ UNCHANGED <<delay_queue, wait_queue, readQueue, writeQueue, transmitPCB, transmitting>>
        /\ ~halted /\ ~halted' /\ curr_proc # Idle
    BY DEF HandleFork, timeVars, ttyVars, inVars, outVars, UserProgram, UserMode
  <2>2. child \in Procs /\ child \in Pid
    BY <1>0, KernelAssumption DEF HandleFork, TypeOK, ProcTypes, Pid, Procs, Idle
  <2> QED BY <2>1, <2>2, Placed DEF EveryonePlaced
<1>2. \A p \in Procs : (Reads(p)' <=> Reads(p)) /\ (Writes(p)' <=> Writes(p))
  BY <1>1 DEF Reads, Writes
<1>3. pcb[child] = "none" /\ StateOf(child) = "none"
  <2>1. pcb[child] = "none"
    BY <1>0, <1>1 DEF ProcessInv, TypeOK, ProcTypes
  <2> QED BY <2>1 DEF StateOf
<1>4. CASE ForkWithoutPCB
  <2>1. UNCHANGED <<pcb, halted, curr_proc, runningQueue, delay_queue, wait_queue>>
    BY <1>1, <1>4 DEF ForkWithoutPCB, HandleFork
  <2> QED BY <1>2, <2>1, NobodyMoves
<1>5. CASE ForkWithoutFrames(child)
  <2>1. /\ UNCHANGED <<curr_proc, runningQueue>> /\ pcb'[child] = "failed"
        /\ \A p \in Procs \ {child} : pcb'[p] = pcb[p]
    BY <1>1, <1>5 DEF ForkWithoutFrames, TypeOK, ProcTypes, Procs
  <2>2. StateOf(child)' = "failed"
    BY <2>1 DEF StateOf
  <2>3. \A p \in Procs \ {child} : StateOf(p)' = StateOf(p)
    BY <1>1, <1>2, <2>1, StaysPut
  <2>4. OneRuns /\ OneRuns'
    BY <1>1, Placed, PlacedRuns, PTL
  <2> QED BY <1>1, <1>3, <2>2, <2>3, <2>4, Fails
<1>6. CASE ForkCopies(child)
  <2>1. /\ PreemptBy(child, Frame("fork"))
        /\ \A p \in Procs \ {child} : pcb'[p] = pcb[p]
    BY <1>1, <1>6 DEF ForkCopies, TypeOK, ProcTypes, Procs
  <2> QED BY <1>1, <1>2, <1>3, <2>1, Preempts
<1> QED BY <1>0, <1>4, <1>5, <1>6 DEF HandleFork

LEMMA ClockMoves ==
  ASSUME TypeOK, PlaceInv, EveryonePlaced', TrapClockHandler
  PROVE  States!Next
<1>0. PICK c, q : c = curr_proc /\ q = curr_proc'
  OBVIOUS
<1>1. /\ ~halted /\ ~halted' /\ c \in Pid
      /\ delay_queue' = Keep(delay_queue, Range(delay_queue) \ Expired)
      /\ UNCHANGED <<pcb, wait_queue, readQueue, writeQueue, transmitPCB, transmitting>>
  BY <1>0 DEF TrapClockHandler, UserMode, procVars, ttyVars, inVars, outVars, TypeOK, SchedTypes
<1>2. /\ OneRuns' /\ OneRuns
      /\ \A p \in Procs : PlacedAs(p) /\ PlacedAs(p)'
  <2>1. OneRuns' /\ OneRuns
    BY <1>1, Placed, PlacedRuns, PTL
  <2> QED BY <1>1, <2>1, Placed DEF EveryonePlaced
<1>3. /\ ReadyAtTick \in Seq(Pid)
      /\ Range(ReadyAtTick) = Range(runningQueue) \cup Expired
      /\ IsInjective(ReadyAtTick)
      /\ Range(delay_queue') = Range(delay_queue) \ Expired
      /\ Expired \subseteq Range(delay_queue)
  BY <1>1, TickSets
<1>4. \/ /\ q = c /\ Range(runningQueue') = Range(ReadyAtTick)
      \/ /\ q \in Range(ReadyAtTick)
         /\ Range(runningQueue') =
              (Range(ReadyAtTick) \ {q}) \cup (IF c # Idle THEN {c} ELSE {})
  <2>0. PICK rest : rest = Tail(ReadyAtTick)
    OBVIOUS
  <2>1. CASE ~ (SliceOver /\ ReadyAtTick # <<>>)
    BY <1>0, <2>1 DEF TrapClockHandler
  <2>2. CASE SliceOver /\ ReadyAtTick # <<>>
    <3>1. /\ q \in Range(ReadyAtTick) /\ rest \in Seq(Pid)
          /\ Range(rest) = Range(ReadyAtTick) \ {q}
          /\ runningQueue' = IF c # Idle THEN Append(rest, c) ELSE rest
      BY <1>0, <1>3, <2>0, <2>2, DequeueProperties DEF TrapClockHandler, SwitchTo, Requeue
    <3>2. Range(Append(rest, c)) = Range(rest) \cup {c}
      BY <1>1, <3>1, EnqueueProperties
    <3> QED BY <3>1, <3>2
  <2> QED BY <2>1, <2>2
<1>5. ASSUME NEW p \in Procs
      PROVE  \/ StateOf(p)' = StateOf(p)
             \/ StateOf(p) = "delayed" /\ StateOf(p)' \in {"ready", "running"}
             \/ StateOf(p) = "ready" /\ StateOf(p)' = "running"
             \/ StateOf(p) = "running" /\ StateOf(p)' = "ready"
  <2>0. PlacedAs(p) /\ PlacedAs(p)' /\ p # Idle
    BY <1>2 DEF Procs
  <2>1. CASE p = q /\ p # c
    BY <1>0, <1>3, <1>4, <2>0, <2>1 DEF PlacedAs
  <2>2. CASE p # q /\ p = c
    BY <1>0, <1>4, <2>0, <2>2 DEF PlacedAs
  <2>3. CASE p # q /\ p \in Expired
    BY <1>3, <1>4, <2>0, <2>3 DEF PlacedAs
  <2>4. CASE (p = q <=> p = c) /\ (p \notin Expired \/ p = c)
    <3>1. p = c => p \notin Expired /\ p \notin Range(runningQueue)
      BY <1>0, <1>1, <1>3, BlockedFacts DEF Blocked
    <3>2. /\ p \in Range(runningQueue') <=> p \in Range(runningQueue)
          /\ p \in Range(delay_queue') <=> p \in Range(delay_queue)
      BY <1>3, <1>4, <2>4, <3>1
    <3>3. (Reads(p)' <=> Reads(p)) /\ (Writes(p)' <=> Writes(p))
      BY <1>1 DEF Reads, Writes
    <3>4. StateOf(p)' = StateOf(p)
      BY <1>0, <1>1, <2>0, <2>4, <3>2, <3>3, StaysPut
    <3> QED BY <3>4
  <2> QED BY <2>1, <2>2, <2>3, <2>4
<1> QED BY <1>2, <1>5, Ticks DEF OneRuns

LEMMA LoopMoves ==
  ASSUME TypeOK, PlaceInv, EveryonePlaced', ~halted, NEW t \in Ttys, NEW ready,
         ReceiveLoop(t, ready),
         UNCHANGED <<pcb, halted, delay_queue, wait_queue, writeQueue, transmitPCB, transmitting>>
  PROVE  States!Next \/ UNCHANGED [p \in Procs |-> StateOf(p)]
<1>1. CASE UNCHANGED <<curr_proc, runningQueue, readQueue>>
  BY <1>1, NobodyMoves DEF Reads, Writes
<1>2. CASE readQueue[t] # <<>> /\ ServeReader(t)
  <2>0. PICK q : q = Head(readQueue[t])
    OBVIOUS
  <2>1. /\ readQueue'[t] = Tail(readQueue[t])
        /\ \A u \in Ttys \ {t} : readQueue'[u] = readQueue[u]
        /\ PreemptBy(q, TtyFrame("recv", t, 0))
    BY <1>2, <2>0 DEF ServeReader, TypeOK, InTypes
  <2>2. /\ q \in Pid /\ q \in Range(readQueue[t])
        /\ Range(readQueue'[t]) = Range(readQueue[t]) \ {q}
    BY <1>2, <2>0, <2>1, BlockedFacts, DequeueProperties DEF TypeOK, InTypes, Distinct
  <2>3. q \in Procs /\ StateOf(q) = "reading"
    <3>1. q \in Procs /\ Reads(q)
      BY <2>2, BlockedFacts DEF Blocked, Procs, Reads
    <3> QED BY <3>1, Placed DEF EveryonePlaced, PlacedAs
  <2>4. \A p \in Procs \ {q} : (Reads(p)' <=> Reads(p)) /\ (Writes(p)' <=> Writes(p))
    BY <2>1, <2>2 DEF Reads, Writes
  <2>5. States!Next
    BY <2>1, <2>3, <2>4, Preempts
  <2> QED BY <2>5
<1> QED BY <1>1, <1>2 DEF ReceiveLoop

LEMMA TransmitMoves ==
  ASSUME TypeOK, PlaceInv, EveryonePlaced', NEW t \in Ttys, TrapTransmitHandler(t)
  PROVE  States!Next
<1>0. PICK q : q = transmitPCB[t]
  OBVIOUS
<1>1. /\ ~halted /\ ~halted' /\ transmitting[t] > 0 /\ PreemptBy(q, TtyFrame("xmit", t, 0))
      /\ UNCHANGED <<pcb, delay_queue, wait_queue, readQueue, writeQueue, transmitPCB>>
  BY <1>0 DEF TrapTransmitHandler, UserMode, procVars, timeVars, inVars
<1>2. /\ transmitting'[t] = 0 /\ \A u \in Ttys \ {t} : transmitting'[u] = transmitting[u]
  BY <1>1, BlockedFacts DEF TrapTransmitHandler, TransmitSites, TypeOK, OutTypes
<1>3. q \in Procs /\ StateOf(q) = "writing"
  <2>1. q \in Procs /\ Writes(q)
    BY <1>0, <1>1, BlockedFacts, ListedPids DEF Blocked, Procs, Writes
  <2> QED BY <1>1, <2>1, Placed DEF EveryonePlaced, PlacedAs
<1>4. \A p \in Procs \ {q} : (Reads(p)' <=> Reads(p)) /\ (Writes(p)' <=> Writes(p))
  BY <1>0, <1>1, <1>2 DEF Reads, Writes
<1> QED BY <1>1, <1>3, <1>4, Preempts

LEMMA ResumeTransmitMoves ==
  ASSUME TypeOK, PlaceInv, ResumeTransmit
  PROVE  UNCHANGED [p \in Procs |-> StateOf(p)]
<1>0. PICK t : t = kstack[curr_proc].tty
  OBVIOUS
<1>1. /\ ~halted /\ t \in Ttys
      /\ UNCHANGED <<pcb, halted, curr_proc, runningQueue, delay_queue, wait_queue, readQueue>>
  BY <1>0, FrameTypes DEF ResumeTransmit, PlaceInv, timeVars, procVars, inVars, TypeOK, SchedTypes,
                          TtySites
<1>2. CASE ~NextMayTransmit(t)
  BY <1>0, <1>1, <1>2, NobodyMoves DEF ResumeTransmit, outVars, Reads, Writes
<1>3. CASE NextMayTransmit(t)
  <2>0. PICK q : q = Head(writeQueue[t])
    OBVIOUS
  <2>1. /\ writeQueue[t] # <<>> /\ transmitting[t] = 0
        /\ writeQueue'[t] = Tail(writeQueue[t])
        /\ transmitPCB'[t] = q /\ transmitting'[t] = 1
        /\ \A u \in Ttys \ {t} : /\ writeQueue'[u] = writeQueue[u]
                                 /\ transmitPCB'[u] = transmitPCB[u]
                                 /\ transmitting'[u] = transmitting[u]
    BY <1>0, <1>1, <1>3, <2>0, BlockedFacts
       DEF NextMayTransmit, ResumeTransmit, TransmitNext, TtyTransmit, TransmitSites,
           TypeOK, OutTypes
  <2>2. q \in Range(writeQueue[t]) /\ Range(writeQueue'[t]) = Range(writeQueue[t]) \ {q}
    BY <1>1, <2>0, <2>1, BlockedFacts, DequeueProperties DEF TypeOK, OutTypes, Distinct
  <2>3. \A p \in Procs, u \in Ttys :
          p \in Range(writeQueue'[u]) \/ (transmitting'[u] > 0 /\ p = transmitPCB'[u])
            <=> p \in Range(writeQueue[u]) \/ (transmitting[u] > 0 /\ p = transmitPCB[u])
    BY <2>1, <2>2
  <2>4. \A p \in Procs : (Reads(p)' <=> Reads(p)) /\ (Writes(p)' <=> Writes(p))
    BY <1>1, <2>3 DEF Reads, Writes
  <2> QED BY <1>1, <2>4, NobodyMoves
<1> QED BY <1>2, <1>3

LEMMA StatesStep ==
  ASSUME TypeOK, PlaceInv, ProcessInv, TypeOK', PlaceInv', ProcessInv', [Next]_vars
  PROVE  States!Next \/ UNCHANGED [p \in Procs |-> StateOf(p)]
<1>0. EveryonePlaced'
  BY Placed, PTL
<1>1. CASE HandleFork
  BY <1>0, <1>1, ForkMoves
<1>2. CASE \/ \E status \in Statuses : HandleExit(status)
           \/ HandleExec \/ HandleBrk \/ TrapIllegalHandler \/ TrapMathHandler \/ TrapMemoryHandler
  BY <1>0, <1>2, Terminates, Stops
     DEF HandleExit, HandleExec, HandleBrk, TrapIllegalHandler, TrapMathHandler,
         TrapMemoryHandler, TerminateProcess, FreesPages
<1>3. CASE HandleWait \/ ResumeWait
  <2>1. UNCHANGED <<pcb, halted, delay_queue, readQueue, writeQueue, transmitPCB, transmitting>>
    BY <1>3 DEF HandleWait, ResumeWait, timeVars, ttyVars, inVars, outVars
  <2>2. \/ /\ UserProgram /\ wait_queue' = Append(wait_queue, curr_proc)
           /\ scheduleNextProcess(Frame("wait"))
        \/ UNCHANGED <<curr_proc, runningQueue, wait_queue>>
    BY <1>3 DEF HandleWait, ResumeWait, CollectChild
  <2>3. \A p \in Procs : (Reads(p)' <=> Reads(p)) /\ (Writes(p)' <=> Writes(p))
    BY <2>1 DEF Reads, Writes
  <2> QED BY <1>0, <2>1, <2>2, <2>3, WaitBlocks, NobodyMoves
<1>4. CASE \E n \in 1..MaxTicks : HandleDelay(n)
  BY <1>0, <1>4, DelayBlocks
<1>5. CASE TrapClockHandler
  BY <1>0, <1>5, ClockMoves
<1>6. CASE ResumeRead
  BY <1>6, NobodyMoves DEF ResumeRead, procVars, timeVars, outVars, Reads, Writes
<1>7. ASSUME NEW t \in Ttys, NEW n \in 1..MaxLine, HandleTtyRead(t, n)
      PROVE  States!Next \/ UNCHANGED [p \in Procs |-> StateOf(p)]
  <2>1. /\ UNCHANGED <<pcb, halted, delay_queue, wait_queue, writeQueue, transmitPCB, transmitting>>
        /\ UserProgram
    BY <1>7 DEF HandleTtyRead, procVars, timeVars, outVars
  <2>2. \/ /\ readQueue' = [readQueue EXCEPT ![t] = Append(@, curr_proc)]
           /\ scheduleNextProcess(TtyFrame("read", t, n))
        \/ UNCHANGED <<curr_proc, runningQueue, readQueue>>
    BY <1>7 DEF HandleTtyRead
  <2> QED BY <1>0, <2>1, <2>2, ReadBlocks, NobodyMoves DEF Reads, Writes
<1>8. CASE \E t \in Ttys : HandleTtyWrite(t) \/ TrapTransmitHandler(t)
  BY <1>0, <1>8, WriteBlocks, TransmitMoves
<1>9. CASE ResumeReceive \/ \E t \in Ttys, n \in 0..MaxLine : TrapReceiveHandler(t, n)
  <2>1. /\ UNCHANGED <<pcb, halted, delay_queue, wait_queue, writeQueue, transmitPCB, transmitting>>
        /\ ~halted
    BY <1>9 DEF TrapReceiveHandler, ResumeReceive, timeVars, procVars, outVars, UserMode, PlaceInv
  <2>2. \E t \in Ttys, ready \in {-1, 1} : ReceiveLoop(t, ready)
    <3>1. CASE ResumeReceive
      <4>1. kstack[curr_proc].tty \in Ttys
        BY <3>1, FrameTypes DEF TypeOK, SchedTypes, ResumeReceive, TtySites
      <4> QED BY <3>1, <4>1 DEF ResumeReceive, TypeOK, InTypes
    <3>2. CASE \E t \in Ttys, n \in 0..MaxLine : TrapReceiveHandler(t, n)
      BY <3>2 DEF TrapReceiveHandler
    <3> QED BY <1>9, <3>1, <3>2
  <2> QED BY <1>0, <2>1, <2>2, LoopMoves
<1>10. CASE ResumeTransmit
  BY <1>10, ResumeTransmitMoves
<1>11. CASE UNCHANGED vars
  BY <1>11, NobodyMoves DEF vars, procVars, timeVars, ttyVars, inVars, outVars, Reads, Writes
<1> QED BY <1>1, <1>2, <1>3, <1>4, <1>5, <1>6, <1>7, <1>8, <1>9, <1>10, <1>11 DEF Next, Halted

\* A process goes through its life in the order the calls lay down, is woken
\* only by what it waits for, and never drops out: whichever lists and stacks
\* the handlers use, each of their steps is one of these, or moves nobody.
THEOREM KernelImplementsStates == Spec => StatesSpec
<1>1. Init => States!Init
  <2> SUFFICES ASSUME Init PROVE States!Init
    OBVIOUS
  <2>1. ASSUME NEW p \in Procs
        PROVE  StateOf(p) = IF p = First THEN "running" ELSE "none"
    BY DEF Init, CreateInitProcess, StateOf, Procs
  <2> QED BY <2>1 DEF States!Init, Procs
<1>2. /\ TypeOK /\ PlaceInv /\ ProcessInv /\ [Next]_vars
      /\ TypeOK' /\ PlaceInv' /\ ProcessInv'
      => [States!Next]_([p \in Pid \ {Idle} |-> StateOf(p)])
  BY StatesStep DEF Procs
<1> QED BY <1>1, <1>2, Invariants, PTL DEF Spec, StatesSpec, States!Spec
----------------------------------------------------------------------------
Writer(t) == IF transmitting[t] > 0 THEN transmitPCB[t] ELSE NULL
Left(p) == IF p \in Range(delay_queue) THEN delay_left[p] ELSE -1

LEMMA NotWriting ==
  ASSUME NEW p \in Pid, ~Blocked(p)
  PROVE  ~Output!Writing(p)
BY PidFacts DEF Output!Writing, Output!Range, Range, Blocked

\* Where one terminal changes hands.
LEMMA WriterMoves ==
  ASSUME NEW t \in Ttys, \A u \in Ttys \ {t} : Writer(u)' = Writer(u)
  PROVE  [u \in Ttys |-> Writer(u)]' = [[u \in Ttys |-> Writer(u)] EXCEPT ![t] = Writer(t)']
OBVIOUS

LEMMA WriteTakes ==
  ASSUME TypeOK, PlaceInv, NEW t \in Ttys, HandleTtyWrite(t)
  PROVE  Output!Next
<1>0. PICK p : p = curr_proc
  OBVIOUS
<1>1. /\ p \in Pid \ {Idle} /\ ~Output!Writing(p)
      /\ TransmitSites /\ NULL \notin Pid
  <2>1. ~halted /\ p \in Pid \ {Idle} /\ ~Blocked(p)
    BY <1>0, CallerIsFree DEF HandleTtyWrite
  <2> QED BY <2>1, BlockedFacts, PidFacts, NotWriting
<1>2. CASE writeReady[t] = 1 /\ TtyTransmit(t, p) /\ UNCHANGED writeQueue
  <2>1. transmitting[t] = 0 /\ transmitting'[t] = 1 /\ transmitPCB'[t] = p
    BY <1>1, <1>2 DEF TransmitSites, TtyTransmit, TypeOK, OutTypes
  <2>2. \A u \in Ttys \ {t} : Writer(u)' = Writer(u)
    BY <1>2 DEF TtyTransmit, Writer, TypeOK, OutTypes
  <2>3. Writer(t) = NULL /\ Writer(t)' = p
    BY <2>1 DEF Writer
  <2>4. Output!Take(t, p)
    BY <1>1, <1>2, <2>2, <2>3, WriterMoves DEF Output!Take, Writer
  <2> QED BY <1>1, <2>4 DEF Output!Next
<1>3. CASE /\ writeReady[t] # 1
           /\ writeQueue' = [writeQueue EXCEPT ![t] = Append(@, p)]
           /\ UNCHANGED <<writeReady, transmitPCB, transmitting>>
  <2>1. transmitting[t] > 0 /\ transmitPCB[t] # NULL
    BY <1>1, <1>3 DEF TransmitSites, TypeOK, OutTypes
  <2>2. Output!Wait(t, p)
    BY <1>1, <1>3, <2>1 DEF Output!Wait
  <2> QED BY <1>1, <2>2 DEF Output!Next
<1> QED BY <1>0, <1>2, <1>3 DEF HandleTtyWrite

LEMMA InterruptLeaves ==
  ASSUME TypeOK, PlaceInv, NEW t \in Ttys, TrapTransmitHandler(t)
  PROVE  Output!Next
<1>1. TransmitSites
  BY BlockedFacts DEF TrapTransmitHandler, UserMode
<1>2. /\ transmitting[t] = 1 /\ transmitting'[t] = 0 /\ transmitPCB[t] # NULL
      /\ \A u \in Ttys \ {t} : Writer(u)' = Writer(u)
  BY <1>1 DEF TrapTransmitHandler, TransmitSites, TypeOK, OutTypes, Writer
<1>3. Writer(t) # NULL /\ Writer(t)' = NULL
  BY <1>2 DEF Writer
<1>4. Output!Leave(t)
  BY <1>2, <1>3, WriterMoves DEF Output!Leave, Writer, TrapTransmitHandler
<1> QED BY <1>4 DEF Output!Next

LEMMA ResumeSucceeds ==
  ASSUME TypeOK, PlaceInv, ResumeTransmit, ~UNCHANGED outVars
  PROVE  Output!Next
<1>0. PICK t : t = kstack[curr_proc].tty
  OBVIOUS
<1>1. t \in Ttys /\ NextMayTransmit(t) /\ TransmitNext(t) /\ TransmitSites
  BY <1>0, FrameTypes, BlockedFacts
     DEF ResumeTransmit, PlaceInv, TypeOK, SchedTypes, TtySites
<1>2. /\ transmitting[t] = 0 /\ transmitting'[t] = 1
      /\ transmitPCB'[t] = Head(writeQueue[t])
      /\ \A u \in Ttys \ {t} : Writer(u)' = Writer(u)
  BY <1>1 DEF NextMayTransmit, TransmitNext, TtyTransmit, TransmitSites, TypeOK, OutTypes, Writer
<1>3. Writer(t) = NULL /\ Writer(t)' = Head(writeQueue[t])
  BY <1>2 DEF Writer
<1>4. Output!Succeed(t)
  BY <1>1, <1>2, <1>3, WriterMoves DEF Output!Succeed, Writer, NextMayTransmit, TransmitNext
<1> QED BY <1>1, <1>4 DEF Output!Next

LEMMA SameOutput ==
  ASSUME UNCHANGED outVars
  PROVE  UNCHANGED <<[t \in Ttys |-> Writer(t)], writeQueue>>
BY DEF outVars, Writer

LEMMA OutputStep ==
  ASSUME TypeOK, PlaceInv, [Next]_vars
  PROVE  Output!Next \/ UNCHANGED <<[t \in Ttys |-> Writer(t)], writeQueue>>
<1>1. CASE \E t \in Ttys : HandleTtyWrite(t) \/ TrapTransmitHandler(t)
  BY <1>1, WriteTakes, InterruptLeaves
<1>2. CASE ResumeTransmit
  BY <1>2, ResumeSucceeds, SameOutput
<1>3. CASE \/ HandleFork \/ HandleWait \/ ResumeWait \/ TrapClockHandler
           \/ ResumeRead \/ ResumeReceive
           \/ \E status \in Statuses : HandleExit(status)
           \/ HandleExec \/ HandleBrk \/ TrapIllegalHandler \/ TrapMathHandler \/ TrapMemoryHandler
           \/ \E n \in 1..MaxTicks : HandleDelay(n)
           \/ \E u \in Ttys, n \in 1..MaxLine : HandleTtyRead(u, n)
           \/ \E u \in Ttys, n \in 0..MaxLine : TrapReceiveHandler(u, n)
  <2>1. UNCHANGED outVars
    BY <1>3 DEF HandleFork, HandleWait, ResumeWait, TrapClockHandler, ResumeRead, ResumeReceive,
                HandleExit, HandleExec, HandleBrk, TrapIllegalHandler, TrapMathHandler, TrapMemoryHandler,
                TerminateProcess, FreesPages, HandleDelay, HandleTtyRead, TrapReceiveHandler, ttyVars
  <2> QED BY <2>1, SameOutput
<1>4. CASE UNCHANGED vars
  BY <1>4, SameOutput DEF vars, ttyVars
<1> QED BY <1>1, <1>2, <1>3, <1>4 DEF Next, Halted

\* One process at a time writes to a terminal, until the hardware is done with
\* its line, and those that wait follow in the order they came (HandleTtyWrite,
\* TrapTransmitHandler).
THEOREM TerminalsImplementOutput == Spec => OutputSpec
<1>1. Init => Output!Init
  BY DEF Init, initKernel, Output!Init
<1>2. TypeOK /\ PlaceInv /\ ProcessInv /\ [Next]_vars => [Output!Next]_(Output!ttyOutVars)
  BY OutputStep DEF Output!ttyOutVars, Writer
<1> QED BY <1>1, <1>2, Invariants, PTL DEF Spec, OutputSpec, Output!Spec
----------------------------------------------------------------------------
LEMMA DelayStarts ==
  ASSUME TypeOK, PlaceInv, NEW n \in 1..MaxTicks, HandleDelay(n)
  PROVE  Delays!Next
<1>0. PICK p : p = curr_proc
  OBVIOUS
<1>1. /\ p \in Pid /\ p \notin Range(delay_queue) /\ delay_queue \in Seq(Pid)
      /\ delay_left \in [Pid -> 0..MaxTicks]
  BY <1>0, CallerIsFree DEF HandleDelay, Blocked, TypeOK, TimeTypes
<1>2. /\ Range(delay_queue') = Range(delay_queue) \cup {p}
      /\ delay_left' = [delay_left EXCEPT ![p] = n]
  BY <1>0, <1>1, EnqueueProperties DEF HandleDelay
<1>3. Left(p) = -1 /\ Left(p)' = n
  BY <1>1, <1>2 DEF Left
<1>4. \A q \in Pid \ {p} : Left(q)' = Left(q)
  BY <1>1, <1>2 DEF Left
<1>5. Delays!Start(p, n)
  BY <1>1, <1>3, <1>4 DEF Delays!Start, Left
<1> QED BY <1>1, <1>5 DEF Delays!Next

LEMMA ClockTicks ==
  ASSUME TypeOK, PlaceInv, TrapClockHandler
  PROVE  Delays!Next
<1>1. Range(delay_queue') = Range(delay_queue) \ Expired
  BY TickSets DEF TrapClockHandler, UserMode, ttyVars, inVars, outVars
<1>2. \A p \in Pid : delay_left[p] \in Nat
  BY KernelAssumption DEF TypeOK, TimeTypes
<1>3. ASSUME NEW p \in Pid PROVE Left(p)' = IF Left(p) = -1 THEN -1 ELSE Left(p) - 1
  <2>1. CASE p \notin Range(delay_queue)
    BY <1>1, <1>2, <2>1 DEF Left
  <2>2. CASE p \in Expired
    BY <1>1, <1>2, <2>2 DEF Left, Expired
  <2>3. CASE p \in Range(delay_queue) \ Expired
    <3>1. delay_left'[p] = delay_left[p] - 1
      BY <2>3 DEF TrapClockHandler
    <3> QED BY <1>1, <1>2, <2>3, <3>1 DEF Left
  <2> QED BY <2>1, <2>2, <2>3
<1>4. Delays!Tick
  BY <1>3 DEF Delays!Tick, Left
<1> QED BY <1>4 DEF Delays!Next

LEMMA SameDelays ==
  ASSUME UNCHANGED timeVars
  PROVE  UNCHANGED [p \in Pid |-> Left(p)]
BY DEF timeVars, Left

LEMMA DelaysStep ==
  ASSUME TypeOK, PlaceInv, [Next]_vars
  PROVE  Delays!Next \/ UNCHANGED [p \in Pid |-> Left(p)]
<1>1. CASE \E n \in 1..MaxTicks : HandleDelay(n)
  BY <1>1, DelayStarts
<1>2. CASE TrapClockHandler
  BY <1>2, ClockTicks
<1>3. CASE \/ HandleFork \/ HandleWait \/ ResumeWait \/ ResumeTransmit
           \/ ResumeRead \/ ResumeReceive
           \/ \E status \in Statuses : HandleExit(status)
           \/ HandleExec \/ HandleBrk \/ TrapIllegalHandler \/ TrapMathHandler \/ TrapMemoryHandler
           \/ \E t \in Ttys, n \in 1..MaxLine : HandleTtyRead(t, n)
           \/ \E t \in Ttys : HandleTtyWrite(t) \/ TrapTransmitHandler(t)
           \/ \E t \in Ttys, n \in 0..MaxLine : TrapReceiveHandler(t, n)
  <2>1. UNCHANGED timeVars
    BY <1>3 DEF HandleFork, HandleWait, ResumeWait, ResumeTransmit, ResumeRead, ResumeReceive,
                HandleExit, HandleExec, HandleBrk, TrapIllegalHandler, TrapMathHandler, TrapMemoryHandler,
                TerminateProcess, FreesPages, HandleTtyRead, HandleTtyWrite, TrapTransmitHandler,
                TrapReceiveHandler
  <2> QED BY <2>1, SameDelays
<1>4. CASE UNCHANGED vars
  BY <1>4, SameDelays DEF vars
<1> QED BY <1>1, <1>2, <1>3, <1>4 DEF Next, Halted

\* Whoever has the CPU at a tick, every delayed process counts down, and leaves
\* delay_queue at the tick after it has come to 0 (HandleDelay,
\* TrapClockHandler).
THEOREM KernelImplementsDelays == Spec => DelaysSpec
<1>1. Init => Delays!Init
  <2>1. Range(<<>>) = {}
    BY DEF Range
  <2> QED BY <2>1 DEF Init, initKernel, Delays!Init
<1>2. TypeOK /\ PlaceInv /\ ProcessInv /\ [Next]_vars =>
        [Delays!Next]_([p \in Pid |-> IF p \in Range(delay_queue) THEN delay_left[p] ELSE -1])
  BY DelaysStep DEF Left
<1> QED BY <1>1, <1>2, Invariants, PTL DEF Spec, DelaysSpec, Delays!Spec
=============================================================================
