---------------------------- MODULE FamilyProofs ----------------------------
(***************************************************************************)
(* Parents and children for every number of processes: the links agree     *)
(* both ways, none leads to freed memory, and Wait finds its answer.       *)
(***************************************************************************)
EXTENDS PlacementProofs

familyVars == <<pcb, parent, running_children, exited_children>>

\* What FamilyConsistent says of its variables' types and of who runs.
LEMMA FamilyFacts ==
  ASSUME TypeOK, PlaceInv, ~halted
  PROVE  /\ parent \in [Pid -> Pid \cup {NULL}]
         /\ pcb \in [Pid -> {"none", "live", "failed", "freed"}]
         /\ running_children \in [Pid -> Seq(Pid)]
         /\ exited_children \in [Pid -> Seq([pid : Pid, status : Statuses])]
         /\ curr_proc \in Pid /\ pcb[curr_proc] = "live" /\ NULL \notin Pid
         /\ curr_proc \notin Range(wait_queue) /\ IsInjective(wait_queue)
<1>1. curr_proc \in Pid /\ ListedLive /\ ~Blocked(curr_proc) /\ Distinct
  BY BlockedFacts DEF TypeOK, SchedTypes
<1> QED BY <1>1, PidFacts DEF ListedLive, Live, TypeOK, ProcTypes, Blocked, Distinct

LEMMA ForkFamily ==
  ASSUME TypeOK, PlaceInv, ProcessInv, FamilyConsistent, HandleFork
  PROVE  FamilyConsistent'
<1> DEFINE child == pid_counter
<1>1. ~halted /\ child \in Pid /\ UNCHANGED exited_children
  BY KernelAssumption DEF HandleFork, UserProgram, UserMode, TypeOK, ProcTypes, Pid
<1>2. /\ parent \in [Pid -> Pid \cup {NULL}]
      /\ pcb \in [Pid -> {"none", "live", "failed", "freed"}]
      /\ running_children \in [Pid -> Seq(Pid)]
      /\ curr_proc \in Pid /\ pcb[curr_proc] = "live" /\ NULL \notin Pid
  BY <1>1, FamilyFacts
<1>3. pcb[child] = "none" /\ child # curr_proc
  BY <1>1, <1>2, PidFacts DEF ProcessInv
<1>4. parent[child] = NULL /\ child \notin Range(running_children[curr_proc])
  BY <1>1, <1>2, <1>3 DEF FamilyConsistent
<1>5. CASE ForkWithoutPCB
  BY <1>1, <1>5 DEF ForkWithoutPCB, FamilyConsistent
<1>6. ASSUME NEW how \in {"live", "failed"},
             pcb' = [pcb EXCEPT ![child] = how],
             parent' = [parent EXCEPT ![child] = curr_proc],
             running_children' = [running_children EXCEPT ![curr_proc] = Append(@, child)]
      PROVE  FamilyConsistent'
  <2> HIDE DEF child
  <2>1. /\ Range(running_children'[curr_proc]) = Range(running_children[curr_proc]) \cup {child}
        /\ IsInjective(running_children'[curr_proc])
    BY <1>1, <1>2, <1>4, <1>6, EnqueueProperties DEF FamilyConsistent
  <2>2. \A p \in Pid \ {curr_proc} : running_children'[p] = running_children[p]
    BY <1>2, <1>6
  <2>3. /\ \A p \in Pid \ {child} : pcb'[p] = pcb[p] /\ parent'[p] = parent[p]
        /\ pcb'[child] = how /\ parent'[child] = curr_proc
    BY <1>1, <1>2, <1>6
  <2>4. ASSUME NEW p \in Pid, pcb'[p] \in {"none", "freed"}
        PROVE  parent'[p] = NULL /\ running_children'[p] = <<>> /\ exited_children'[p] = <<>>
    <3>1. p # child /\ p # curr_proc
      BY <1>2, <1>3, <2>3, <2>4
    <3> QED BY <1>1, <2>2, <2>3, <2>4, <3>1 DEF FamilyConsistent
  <2>5. \A p \in Pid : IsInjective(running_children'[p])
    BY <2>1, <2>2 DEF FamilyConsistent
  <2>6. ASSUME NEW p \in Pid, NEW c \in Pid
        PROVE  c \in Range(running_children'[p]) <=> parent'[c] = p
    <3>1. CASE c = child
      <4>1. parent[child] # p
        BY <1>2, <1>4
      <4>2. child \notin Range(running_children[p])
        BY <1>1, <4>1 DEF FamilyConsistent
      <4> QED BY <2>1, <2>2, <2>3, <3>1, <4>2
    <3>2. CASE c # child
      BY <2>1, <2>2, <2>3, <3>2 DEF FamilyConsistent
    <3> QED BY <3>1, <3>2
  <2>7. ASSUME NEW c \in Pid, parent'[c] # NULL PROVE pcb'[parent'[c]] = "live"
    <3>1. parent'[c] \in Pid /\ pcb[parent'[c]] = "live"
      <4>1. CASE c = child
        BY <1>2, <2>3, <4>1
      <4>2. CASE c # child
        BY <1>2, <2>3, <2>7, <4>2 DEF FamilyConsistent
      <4> QED BY <4>1, <4>2
    <3> QED BY <1>3, <2>3, <3>1
  <2> QED BY <2>4, <2>5, <2>6, <2>7 DEF FamilyConsistent
<1>7. CASE ForkWithoutFrames(child)
  BY <1>6, <1>7 DEF ForkWithoutFrames
<1>8. CASE ForkCopies(child)
  BY <1>6, <1>8 DEF ForkCopies
<1> QED BY <1>5, <1>7, <1>8 DEF HandleFork

LEMMA TerminateFamily ==
  ASSUME TypeOK, PlaceInv, FamilyConsistent, UserProgram, NEW status, TerminateProcess(status)
  PROVE  FamilyConsistent'
<1> DEFINE dad == parent[curr_proc]
<1>1. /\ parent \in [Pid -> Pid \cup {NULL}]
      /\ pcb \in [Pid -> {"none", "live", "failed", "freed"}]
      /\ running_children \in [Pid -> Seq(Pid)]
      /\ exited_children \in [Pid -> Seq([pid : Pid, status : Statuses])]
      /\ curr_proc \in Pid /\ NULL \notin Pid
  BY FamilyFacts DEF UserProgram, UserMode
<1>2. /\ \A p \in Pid \ {curr_proc} : pcb'[p] = pcb[p]
      /\ pcb'[curr_proc] \in {"freed", pcb[curr_proc]}
  BY <1>1 DEF TerminateProcess, FreesPCB, HaltsFreeing
<1>3. \A c \in Pid : parent'[c] = IF c = curr_proc \/ c \in Range(running_children[curr_proc])
                                    THEN NULL ELSE parent[c]
  BY DEF TerminateProcess, notifyChildren
<1>4. /\ running_children'[curr_proc] = <<>> /\ exited_children'[curr_proc] = <<>>
      /\ \A p \in Pid \ {curr_proc, dad} : /\ running_children'[p] = running_children[p]
                                           /\ exited_children'[p] = exited_children[p]
      /\ dad \in Pid \ {curr_proc} =>
           running_children'[dad] = SearchAndRemovePCB(running_children[dad], curr_proc)
  BY <1>1 DEF TerminateProcess, notifyParent
<1>5. \A p \in Pid : p # curr_proc =>
        /\ IsInjective(running_children'[p])
        /\ Range(running_children'[p]) = Range(running_children[p]) \ {curr_proc}
  <2> SUFFICES ASSUME NEW p \in Pid, p # curr_proc
               PROVE  /\ IsInjective(running_children'[p])
                      /\ Range(running_children'[p]) = Range(running_children[p]) \ {curr_proc}
    OBVIOUS
  <2>1. IsInjective(running_children[p]) /\ running_children[p] \in Seq(Pid)
    BY <1>1 DEF FamilyConsistent
  <2>2. CASE p = dad
    BY <1>4, <2>1, <2>2, SearchAndRemoveProperties
  <2>3. CASE p # dad
    <3>1. curr_proc \notin Range(running_children[p])
      BY <1>1, <2>3 DEF FamilyConsistent
    <3> QED BY <1>4, <2>1, <2>3, <3>1
  <2> QED BY <2>2, <2>3
<1>6. \A c \in Pid : c \in Range(running_children[curr_proc]) <=> parent[c] = curr_proc
  BY <1>1 DEF FamilyConsistent
<1> HIDE DEF dad
<1>7. ASSUME NEW p \in Pid, pcb'[p] \in {"none", "freed"}
      PROVE  parent'[p] = NULL /\ running_children'[p] = <<>> /\ exited_children'[p] = <<>>
  <2>1. CASE p = curr_proc
    BY <1>3, <1>4, <2>1
  <2>2. CASE p # curr_proc
    <3>1. pcb[p] \in {"none", "freed"} /\ p # dad
      <4>1. pcb[p] \in {"none", "freed"}
        BY <1>2, <1>7, <2>2
      <4>2. dad # NULL => pcb[dad] = "live"
        BY <1>1 DEF FamilyConsistent, dad
      <4> QED BY <1>1, <4>1, <4>2
    <3> QED BY <1>3, <1>4, <2>2, <3>1 DEF FamilyConsistent
  <2> QED BY <2>1, <2>2
<1>8. \A p \in Pid : IsInjective(running_children'[p])
  <2>1. IsInjective(<<>>)
    BY DEF IsInjective
  <2> QED BY <1>4, <1>5, <2>1
<1>9. ASSUME NEW p \in Pid, NEW c \in Pid
      PROVE  c \in Range(running_children'[p]) <=> parent'[c] = p
  <2>1. c \in Range(running_children[p]) <=> parent[c] = p
    BY DEF FamilyConsistent
  <2>2. CASE p = curr_proc
    <3>1. c \notin Range(running_children'[p])
      BY <1>4, <2>2 DEF Range
    <3> QED BY <1>1, <1>3, <1>6, <2>2, <3>1
  <2>3. CASE p # curr_proc
    BY <1>1, <1>3, <1>5, <1>6, <2>1, <2>3
  <2> QED BY <2>2, <2>3
<1>10. ASSUME NEW c \in Pid, parent'[c] # NULL PROVE pcb'[parent'[c]] = "live"
  <2>1. parent'[c] = parent[c] /\ parent[c] # curr_proc
    BY <1>3, <1>6, <1>10
  <2>2. parent[c] \in Pid /\ pcb[parent[c]] = "live"
    BY <1>1, <1>10, <2>1 DEF FamilyConsistent
  <2> QED BY <1>2, <2>1, <2>2
<1> QED BY <1>7, <1>8, <1>9, <1>10 DEF FamilyConsistent

LEMMA CollectFamily ==
  ASSUME TypeOK, PlaceInv, FamilyConsistent, ~halted, CollectChild,
         UNCHANGED <<pcb, parent, running_children>>
  PROVE  FamilyConsistent'
<1>1. /\ curr_proc \in Pid /\ pcb[curr_proc] = "live"
      /\ exited_children \in [Pid -> Seq([pid : Pid, status : Statuses])]
  BY FamilyFacts
<1>2. \A p \in Pid \ {curr_proc} : exited_children'[p] = exited_children[p]
  BY <1>1 DEF CollectChild
<1> QED BY <1>1, <1>2 DEF FamilyConsistent

\* Every other step leaves the families alone.
LEMMA StepFamily ==
  TypeOK /\ PlaceInv /\ ProcessInv /\ FamilyConsistent /\ [Next]_vars => FamilyConsistent'
<1> SUFFICES ASSUME TypeOK, PlaceInv, ProcessInv, FamilyConsistent, [Next]_vars
             PROVE  FamilyConsistent'
  OBVIOUS
<1>1. CASE HandleFork
  BY <1>1, ForkFamily
<1>2. CASE \/ \E status \in Statuses : HandleExit(status)
           \/ HandleExec \/ HandleBrk \/ TrapIllegalHandler \/ TrapMathHandler \/ TrapMemoryHandler
  BY <1>2, TerminateFamily
     DEF HandleExit, HandleExec, HandleBrk, TrapIllegalHandler, TrapMathHandler,
         TrapMemoryHandler, FreesPages, HaltsFreeing, FamilyConsistent
<1>3. CASE UNCHANGED familyVars
  BY <1>3 DEF familyVars, FamilyConsistent
<1>4. CASE HandleWait \/ ResumeWait
  <2>1. ~halted /\ UNCHANGED <<pcb, parent, running_children>>
    BY <1>4 DEF HandleWait, ResumeWait, UserProgram, UserMode, PlaceInv
  <2>2. CollectChild \/ UNCHANGED exited_children
    BY <1>4 DEF HandleWait, ResumeWait
  <2> QED BY <1>3, <2>1, <2>2, CollectFamily DEF familyVars
<1>5. CASE \/ TrapClockHandler \/ ResumeRead \/ ResumeReceive \/ ResumeTransmit
           \/ \E n \in 1..MaxTicks : HandleDelay(n)
           \/ \E t \in Ttys, n \in 1..MaxLine : HandleTtyRead(t, n)
           \/ \E t \in Ttys : HandleTtyWrite(t) \/ TrapTransmitHandler(t)
           \/ \E t \in Ttys, n \in 0..MaxLine : TrapReceiveHandler(t, n)
  <2>1. UNCHANGED procVars
    BY <1>5 DEF TrapClockHandler, ResumeRead, ResumeReceive, ResumeTransmit, HandleDelay,
                HandleTtyRead, HandleTtyWrite, TrapTransmitHandler, TrapReceiveHandler
  <2> QED BY <1>3, <2>1 DEF procVars, familyVars
<1>6. CASE UNCHANGED vars
  BY <1>3, <1>6 DEF vars, procVars, familyVars
<1> QED BY <1>1, <1>2, <1>4, <1>5, <1>6 DEF Next, Halted

LEMMA InitFamily == Init => FamilyConsistent
<1> SUFFICES ASSUME Init PROVE FamilyConsistent
  OBVIOUS
<1>1. /\ \A p \in Pid : parent[p] = IF p = First THEN Idle ELSE NULL
      /\ \A p \in Pid : running_children[p] = IF p = Idle THEN <<First>> ELSE <<>>
      /\ \A p \in Pid : exited_children[p] = <<>>
      /\ \A p \in Pid : pcb[p] = IF p \in {Idle, First} THEN "live" ELSE "none"
  BY DEF Init, CreateInitProcess
<1>2. /\ IsInjective(<<>>) /\ Range(<<>>) = {}
      /\ IsInjective(<<First>>) /\ Range(<<First>>) = {First}
  BY DEF IsInjective, Range
<1>3. Idle \in Pid /\ First \in Pid /\ NULL \notin Pid /\ Idle # First
  BY PidFacts DEF Idle, First
<1> QED BY <1>1, <1>2, <1>3 DEF FamilyConsistent
----------------------------------------------------------------------------
(***************************************************************************)
(* Wait.  A kernel stack is suspended in Wait only by HandleWait.          *)
(***************************************************************************)
NoNewWaits == \A p \in Pid : kstack'[p].site = "wait" => kstack[p].site = "wait"

LEMMA SwitchNoWaits ==
  ASSUME TypeOK, NEW q \in Pid, NEW frame, SwitchTo(q, frame), frame.site # "wait"
  PROVE  NoNewWaits
<1> SUFFICES ASSUME NEW p \in Pid, kstack'[p].site = "wait" PROVE kstack[p].site = "wait"
  BY DEF NoNewWaits
<1>1. kstack[p] \in Frames /\ (Resumed(kstack[p]).site = "wait" => kstack[p].site = "wait")
  BY ResumedSites DEF TypeOK, SchedTypes
<1>2. kstack'[p] \in {frame, kstack[p], Resumed(kstack[p])}
  BY DEF SwitchTo, TypeOK, SchedTypes
<1> QED BY <1>1, <1>2

LEMMA ScheduleNoWaits ==
  ASSUME TypeOK, NEW frame, scheduleNextProcess(frame), frame.site # "wait"
  PROVE  NoNewWaits
<1>1. NextReady(runningQueue) \in Pid
  BY NextReadyTypes DEF TypeOK, SchedTypes
<1> QED BY <1>1, SwitchNoWaits DEF scheduleNextProcess

LEMMA ReturnNoWaits ==
  ASSUME TypeOK, ReturnToUser \/ UNCHANGED kstack
  PROVE  NoNewWaits
BY DEF ReturnToUser, NoNewWaits, TypeOK, SchedTypes, User, Frame

LEMMA OtherSites ==
  /\ \A site : Frame(site).site = site
  /\ \A site, t, n : TtyFrame(site, t, n).site = site
BY DEF Frame, TtyFrame

\* The steps that neither block nor answer anybody in Wait.
LEMMA StillAnswered ==
  ASSUME WaitAnswered, NoNewWaits,
         UNCHANGED <<pcb, running_children, exited_children, wait_queue>>
  PROVE  WaitAnswered'
<1>1. Live' = Live
  BY DEF Live
<1> QED BY <1>1 DEF WaitAnswered, NoNewWaits, Live

LEMMA ForkAnswered ==
  ASSUME TypeOK, PlaceInv, ProcessInv, WaitAnswered, HandleFork
  PROVE  WaitAnswered'
<1> DEFINE child == pid_counter
<1>1. /\ ~halted /\ child \in Pid /\ UNCHANGED <<exited_children, wait_queue>>
      /\ running_children \in [Pid -> Seq(Pid)] /\ pcb \in [Pid -> {"none", "live", "failed", "freed"}]
      /\ kstack \in [Pid -> Frames] /\ curr_proc \in Pid
  BY KernelAssumption DEF HandleFork, UserProgram, UserMode, TypeOK, ProcTypes, SchedTypes, Pid
<1>2. kstack[child] = User /\ pcb[child] = "none" /\ User.site # "wait"
  BY <1>1, PidFacts DEF ProcessInv, User, Frame
<1>3. ASSUME NEW p \in Pid, running_children[p] # <<>> PROVE running_children'[p] # <<>>
  <2>1. Append(running_children[p], child) # <<>>
    BY <1>1, <1>3, EnqueueProperties
  <2> QED BY <1>1, <1>3, <2>1 DEF HandleFork, ForkWithoutPCB, ForkWithoutFrames, ForkCopies
<1>4. \A p \in Range(wait_queue') :
        exited_children'[p] = <<>> /\ running_children'[p] # <<>>
  BY <1>1, <1>3, ListedPids DEF WaitAnswered
<1>5. NoNewWaits
  <2>1. CASE UNCHANGED kstack
    BY <2>1 DEF NoNewWaits
  <2>2. CASE PreemptBy(child, Frame("fork"))
    BY <1>1, <2>2, SwitchNoWaits DEF PreemptBy, Frame
  <2> QED BY <2>1, <2>2 DEF HandleFork, ForkWithoutPCB, ForkWithoutFrames, ForkCopies
<1>6. Live' \subseteq Live \cup {child}
  BY <1>1 DEF HandleFork, ForkWithoutPCB, ForkWithoutFrames, ForkCopies, Live
<1>7. \A p \in Live' \ Range(wait_queue') :
        kstack'[p].site = "wait" => exited_children'[p] # <<>>
  BY <1>1, <1>2, <1>5, <1>6 DEF WaitAnswered, NoNewWaits, Live
<1> QED BY <1>4, <1>7 DEF WaitAnswered

LEMMA TerminateAnswered ==
  ASSUME TypeOK, PlaceInv, WaitAnswered, UserProgram, NEW status \in Statuses,
         TerminateProcess(status)
  PROVE  WaitAnswered'
<1> DEFINE dad == parent[curr_proc]
<1>1. /\ ~halted /\ curr_proc \in Pid /\ curr_proc \notin Range(wait_queue)
      /\ IsInjective(wait_queue) /\ wait_queue \in Seq(Pid) /\ Range(wait_queue) \subseteq Pid
      /\ exited_children \in [Pid -> Seq([pid : Pid, status : Statuses])]
      /\ pcb \in [Pid -> {"none", "live", "failed", "freed"}]
  BY FamilyFacts, ListedPids DEF UserProgram, UserMode, TypeOK, SchedTypes
<1>2. Range(wait_queue') = Range(wait_queue) \ {dad}
  BY <1>1, SearchAndRemoveProperties DEF TerminateProcess, notifyParent, WaitersAfterExit
<1>3. \A p \in Pid \ {curr_proc, dad} : /\ running_children'[p] = running_children[p]
                                        /\ exited_children'[p] = exited_children[p]
  BY <1>1 DEF TerminateProcess, notifyParent
<1>4. dad \in Pid \ {curr_proc} => exited_children'[dad] # <<>>
  <2> SUFFICES ASSUME dad \in Pid, dad # curr_proc PROVE exited_children'[dad] # <<>>
    OBVIOUS
  <2>1. exited_children'[dad] = Append(exited_children[dad], [pid |-> curr_proc, status |-> status])
    BY <1>1 DEF TerminateProcess, notifyParent
  <2>2. exited_children[dad] \in Seq([pid : Pid, status : Statuses])
    BY <1>1
  <2> HIDE DEF dad
  <2> QED BY <1>1, <2>1, <2>2, EnqueueProperties
<1>5. /\ Live' \subseteq Live
      /\ curr_proc \in Live' => kstack'[curr_proc].site = "user"
  BY <1>1 DEF TerminateProcess, FreesPCB, HaltsFreeing, Live, UserProgram, UserMode
<1>6. NoNewWaits
  <2>1. CASE UNCHANGED kstack
    BY <2>1 DEF NoNewWaits
  <2>2. CASE SwitchTo(NextReady(ReadyAfterExit), User)
    <3>1. ReadyAfterExit \in Seq(Pid)
      BY <1>1, ExitSets DEF TerminateProcess, notifyParent, timeVars, ttyVars, inVars, outVars
    <3>2. NextReady(ReadyAfterExit) \in Pid /\ User.site # "wait"
      BY <3>1, NextReadyTypes DEF User, Frame
    <3> QED BY <2>2, <3>2, SwitchNoWaits
  <2> QED BY <2>1, <2>2 DEF TerminateProcess, FreesPCB, HaltsFreeing
<1> HIDE DEF dad
<1>7. \A p \in Range(wait_queue') :
        exited_children'[p] = <<>> /\ running_children'[p] # <<>>
  BY <1>1, <1>2, <1>3 DEF WaitAnswered
<1>8. \A p \in Live' \ Range(wait_queue') :
        kstack'[p].site = "wait" => exited_children'[p] # <<>>
  <2> SUFFICES ASSUME NEW p \in Live', p \notin Range(wait_queue'), kstack'[p].site = "wait"
               PROVE  exited_children'[p] # <<>>
    OBVIOUS
  <2>1. p \in Pid /\ p \in Live /\ p # curr_proc /\ kstack[p].site = "wait"
    BY <1>1, <1>5, <1>6 DEF NoNewWaits, Live
  <2>2. CASE p = dad
    BY <1>4, <2>1, <2>2
  <2>3. CASE p # dad
    BY <1>2, <1>3, <2>1, <2>3 DEF WaitAnswered
  <2> QED BY <2>2, <2>3
<1> QED BY <1>7, <1>8 DEF WaitAnswered

LEMMA WaitsAnswered ==
  ASSUME TypeOK, PlaceInv, WaitAnswered, HandleWait \/ ResumeWait
  PROVE  WaitAnswered'
<1>1. /\ ~halted /\ UNCHANGED <<pcb, running_children>> /\ Live' = Live
  BY DEF HandleWait, ResumeWait, UserProgram, UserMode, PlaceInv, Live
<1>2. /\ curr_proc \in Pid /\ curr_proc \notin Range(wait_queue) /\ kstack \in [Pid -> Frames]
      /\ wait_queue \in Seq(Pid)
      /\ exited_children \in [Pid -> Seq([pid : Pid, status : Statuses])]
  BY <1>1, FamilyFacts DEF TypeOK, SchedTypes
<1>3. CASE CollectChild /\ kstack'[curr_proc].site # "wait" /\ (ReturnToUser \/ UNCHANGED kstack)
  <2>1. \A p \in Pid \ {curr_proc} : exited_children'[p] = exited_children[p]
    BY <1>2, <1>3 DEF CollectChild
  <2>2. NoNewWaits /\ UNCHANGED wait_queue
    BY <1>3, ReturnNoWaits DEF CollectChild
  <2>3. Range(wait_queue) \subseteq Pid
    BY ListedPids
  <2> QED BY <1>1, <1>2, <1>3, <2>1, <2>2, <2>3 DEF WaitAnswered, NoNewWaits, Live
<1>4. CASE /\ exited_children[curr_proc] = <<>> /\ running_children[curr_proc] # <<>>
           /\ wait_queue' = Append(wait_queue, curr_proc)
           /\ scheduleNextProcess(Frame("wait"))
           /\ UNCHANGED exited_children
  <2>1. Range(wait_queue') = Range(wait_queue) \cup {curr_proc}
    BY <1>2, <1>4, EnqueueProperties
  <2>2. ASSUME NEW p \in Pid, p # curr_proc, kstack'[p].site = "wait" PROVE kstack[p].site = "wait"
    <3>1. kstack'[p] \in {kstack[p], Resumed(kstack[p])}
      BY <1>2, <1>4, <2>2 DEF scheduleNextProcess, SwitchTo
    <3> QED BY <1>2, <2>2, <3>1, ResumedSites
  <2> QED BY <1>1, <1>4, <2>1, <2>2 DEF WaitAnswered, Live
<1>5. CASE UNCHANGED <<wait_queue, kstack, exited_children>>
  <2>1. NoNewWaits
    BY <1>5 DEF NoNewWaits
  <2> QED BY <1>1, <1>5, <2>1, StillAnswered
<1>6. ReturnToUser => kstack'[curr_proc].site # "wait"
  BY <1>2 DEF ReturnToUser, User, Frame
<1> QED BY <1>3, <1>4, <1>5, <1>6 DEF HandleWait, ResumeWait, UserProgram, UserMode

LEMMA StepAnswered ==
  TypeOK /\ PlaceInv /\ ProcessInv /\ WaitAnswered /\ [Next]_vars => WaitAnswered'
<1> SUFFICES ASSUME TypeOK, PlaceInv, ProcessInv, WaitAnswered, [Next]_vars
             PROVE  WaitAnswered'
  OBVIOUS
<1>1. CASE HandleFork
  BY <1>1, ForkAnswered
<1>2. CASE \/ \E status \in Statuses : HandleExit(status)
           \/ HandleExec \/ HandleBrk \/ TrapIllegalHandler \/ TrapMathHandler \/ TrapMemoryHandler
  BY <1>2, TerminateAnswered, KernelAssumption
     DEF HandleExit, HandleExec, HandleBrk, TrapIllegalHandler, TrapMathHandler,
         TrapMemoryHandler, FreesPages, HaltsFreeing, WaitAnswered, Live
<1>3. CASE HandleWait \/ ResumeWait
  BY <1>3, WaitsAnswered
<1>4. CASE NoNewWaits /\ UNCHANGED <<pcb, running_children, exited_children, wait_queue>>
  BY <1>4, StillAnswered
<1>5. CASE \/ \E n \in 1..MaxTicks : HandleDelay(n)
           \/ \E t \in Ttys, n \in 1..MaxLine : HandleTtyRead(t, n)
           \/ \E t \in Ttys : HandleTtyWrite(t)
  <2>1. UNCHANGED <<pcb, running_children, exited_children, wait_queue>>
    BY <1>5 DEF HandleDelay, HandleTtyRead, HandleTtyWrite, procVars
  <2>2. UNCHANGED kstack \/ \E frame : scheduleNextProcess(frame) /\ frame.site # "wait"
    BY <1>5, OtherSites DEF HandleDelay, HandleTtyRead, HandleTtyWrite
  <2> QED BY <1>4, <2>1, <2>2, ScheduleNoWaits, ReturnNoWaits
<1>6. CASE \/ TrapClockHandler \/ ResumeRead \/ ResumeReceive \/ ResumeTransmit
           \/ \E t \in Ttys : TrapTransmitHandler(t)
           \/ \E t \in Ttys, n \in 0..MaxLine : TrapReceiveHandler(t, n)
  <2>1. UNCHANGED <<pcb, running_children, exited_children, wait_queue>>
    BY <1>6 DEF TrapClockHandler, ResumeRead, ResumeReceive, ResumeTransmit,
                TrapTransmitHandler, TrapReceiveHandler, procVars
  <2>2. \/ ReturnToUser \/ UNCHANGED kstack
        \/ \E frame : SwitchTo(curr_proc', frame) /\ frame.site # "wait"
    <3>1. CASE TrapClockHandler
      <4>1. UNCHANGED kstack \/ SwitchTo(curr_proc', Frame("clock"))
        BY <3>1 DEF TrapClockHandler, SwitchTo
      <4> QED BY <4>1, OtherSites
    <3>2. CASE ResumeRead \/ ResumeTransmit
      BY <3>2 DEF ResumeRead, ResumeTransmit
    <3>3. ASSUME NEW t, NEW ready, ReceiveLoop(t, ready)
          PROVE  ReturnToUser \/ SwitchTo(curr_proc', TtyFrame("recv", t, 0))
      BY <3>3 DEF ReceiveLoop, ServeReader, PreemptBy, SwitchTo
    <3>4. CASE ResumeReceive \/ \E t \in Ttys, n \in 0..MaxLine : TrapReceiveHandler(t, n)
      <4>1. PICK t, ready : ReceiveLoop(t, ready)
        BY <3>4 DEF ResumeReceive, TrapReceiveHandler
      <4>2. ReturnToUser \/ SwitchTo(curr_proc', TtyFrame("recv", t, 0))
        BY <3>3, <4>1
      <4> QED BY <4>2, OtherSites
    <3>5. ASSUME NEW t \in Ttys, TrapTransmitHandler(t)
          PROVE  SwitchTo(curr_proc', TtyFrame("xmit", t, 0))
      BY <3>5 DEF TrapTransmitHandler, PreemptBy, SwitchTo
    <3> QED BY <1>6, <3>1, <3>2, <3>4, <3>5, OtherSites
  <2>3. curr_proc' \in Pid
    BY StepTypeOK DEF TypeOK, SchedTypes
  <2> QED BY <1>4, <2>1, <2>2, <2>3, SwitchNoWaits, ReturnNoWaits
<1>7. CASE UNCHANGED vars
  BY <1>4, <1>7, ReturnNoWaits DEF vars, procVars
<1> QED BY <1>1, <1>2, <1>3, <1>5, <1>6, <1>7 DEF Next, Halted

LEMMA InitAnswered == Init => WaitAnswered
<1> SUFFICES ASSUME Init PROVE WaitAnswered
  OBVIOUS
<1>1. Range(wait_queue) = {}
  BY DEF Init, initKernel, Range
<1>2. \A p \in Pid : kstack[p].site # "wait"
  BY DEF Init, CreateInitProcess, User, Frame
<1> QED BY <1>1, <1>2 DEF WaitAnswered, Live
----------------------------------------------------------------------------
LEMMA FamilyInvariants ==
  Spec => [](TypeOK /\ PlaceInv /\ ProcessInv /\ FamilyConsistent /\ WaitAnswered)
<1> DEFINE Inv == TypeOK /\ PlaceInv /\ ProcessInv /\ FamilyConsistent /\ WaitAnswered
<1>1. Init => Inv
  BY InitTypeOK, InitPlaces, InitProcesses, InitFamily, InitAnswered
<1>2. Inv /\ [Next]_vars => Inv'
  BY StepTypeOK, StepPlaceInv, StepProcessInv, StepFamily, StepAnswered
<1> QED BY <1>1, <1>2, PTL DEF Spec

\* notifyParent and notifyChildren never write to a PCB that is freed, and no
\* child is left out of its parent's list.
THEOREM FamiliesAgree == Spec => []FamilyConsistent
BY FamilyInvariants, PTL

\* Nobody sleeps in Wait beside a status to collect, and who is woken from it
\* finds one.
THEOREM WaitFindsStatus == Spec => []WaitAnswered
BY FamilyInvariants, PTL
=============================================================================
