-------------------------- MODULE PlacementProofs --------------------------
(***************************************************************************)
(* Types; every process is in one place; and the kernel halts when it is   *)
(* done: for every number of processes and terminals.                      *)
(***************************************************************************)
EXTENDS Placement, ListProofs

\* Keep(list, S) has the entries of list that are in S, and no other.
LEMMA KeepProperties ==
  ASSUME NEW T, NEW list \in Seq(T), NEW S
  PROVE  /\ Keep(list, S) \in Seq(T)
         /\ Range(Keep(list, S)) = Range(list) \cap S
         /\ IsInjective(list) => IsInjective(Keep(list, S))
<1> DEFINE at == {i \in 1..Len(list) : list[i] \in S}
           rank(i) == Cardinality({j \in at : j <= i})
           nth(k) == CHOOSE i \in at : rank(i) = k
           m == Cardinality(at)
<1>1. Len(list) \in Nat /\ at \in SUBSET (1..Len(list)) /\ list \in [1..Len(list) -> T]
  BY LenProperties
<1>2. /\ m \in Nat
      /\ \A i \in at : rank(i) \in 1..m
      /\ \A i, j \in at : rank(i) = rank(j) => i = j
      /\ \A k \in 1..m : \E i \in at : rank(i) = k
  <2> HIDE DEF at
  <2> QED BY <1>1, Ranks
<1>3. ASSUME NEW k \in 1..m PROVE nth(k) \in at /\ rank(nth(k)) = k
  BY <1>2
<1>6. Keep(list, S) = [k \in 1..m |-> list[nth(k)]]
  BY DEF Keep
<1> HIDE DEF nth, rank, m
<1>7. Keep(list, S) \in Seq(T)
  BY <1>1, <1>2, <1>3, <1>6
<1>8. Range(Keep(list, S)) = Range(list) \cap S
  <2>1. Range(Keep(list, S)) = {list[nth(k)] : k \in 1..m}
    BY <1>6 DEF Range
  <2>2. \A i \in at : \E k \in 1..m : nth(k) = i
    BY <1>2, <1>3
  <2>3. Range(list) = {list[i] : i \in 1..Len(list)}
    BY <1>1 DEF Range
  <2> QED BY <1>3, <2>1, <2>2, <2>3
<1>9. IsInjective(list) => IsInjective(Keep(list, S))
  BY <1>1, <1>3, <1>6 DEF IsInjective
<1> QED BY <1>7, <1>8, <1>9

\* SearchAndRemovePCB takes p, and nothing else, out of a list without
\* duplicates.
LEMMA SearchAndRemoveProperties ==
  ASSUME NEW T, NEW list \in Seq(T), NEW p
  PROVE  /\ SearchAndRemovePCB(list, p) \in Seq(T)
         /\ Range(SearchAndRemovePCB(list, p)) \subseteq Range(list)
         /\ p \notin Range(list) => SearchAndRemovePCB(list, p) = list
         /\ IsInjective(list) =>
              /\ IsInjective(SearchAndRemovePCB(list, p))
              /\ Range(SearchAndRemovePCB(list, p)) = Range(list) \ {p}
BY RemoveFirstProperties DEF SearchAndRemovePCB

LEMMA PidFacts == Idle \in Pid /\ First \in Pid /\ Pid \subseteq Nat /\ NULL \notin Pid
BY KernelAssumption DEF Pid, Idle, First

LEMMA FrameTypes ==
  /\ User \in Frames
  /\ \A site \in Sites \ TtySites : Frame(site) \in Frames
  /\ \A site \in TtySites, t \in Ttys, n \in 0..MaxLine : TtyFrame(site, t, n) \in Frames
  /\ \A f \in Frames : Resumed(f) \in Frames
  /\ \A f \in Frames : f.site \in Sites
  /\ \A f \in Frames : f.site \in TtySites => f.tty \in Ttys /\ f.len \in 0..MaxLine
BY KernelAssumption
   DEF User, Frame, TtyFrame, Frames, Resumed, Sites, TtySites, Returning

----------------------------------------------------------------------------
(***************************************************************************)
(* Type correctness.                                                       *)
(***************************************************************************)
LEMMA SwitchTypes ==
  ASSUME SchedTypes, NEW q \in Pid, NEW frame \in Frames, SwitchTo(q, frame)
  PROVE  curr_proc' \in Pid /\ kstack' \in [Pid -> Frames]
BY FrameTypes DEF SchedTypes, SwitchTo

LEMMA NextReadyTypes ==
  ASSUME NEW ready \in Seq(Pid)
  PROVE  NextReady(ready) \in Pid /\ AfterNext(ready) \in Seq(Pid)
BY PidFacts, DequeueProperties DEF NextReady, AfterNext

LEMMA ScheduleTypes ==
  ASSUME SchedTypes, NEW frame \in Frames, scheduleNextProcess(frame)
  PROVE  curr_proc' \in Pid /\ kstack' \in [Pid -> Frames] /\ runningQueue' \in Seq(Pid)
<1>1. NextReady(runningQueue) \in Pid /\ AfterNext(runningQueue) \in Seq(Pid)
  BY NextReadyTypes DEF SchedTypes
<1> QED BY <1>1, SwitchTypes DEF scheduleNextProcess

LEMMA PreemptTypes ==
  ASSUME SchedTypes, NEW q \in Pid, NEW frame \in Frames, PreemptBy(q, frame)
  PROVE  curr_proc' \in Pid /\ kstack' \in [Pid -> Frames] /\ runningQueue' \in Seq(Pid)
BY SwitchTypes, EnqueueProperties DEF PreemptBy, SchedTypes

LEMMA ReturnTypes ==
  ASSUME SchedTypes, ReturnToUser
  PROVE  kstack' \in [Pid -> Frames]
BY FrameTypes DEF SchedTypes, ReturnToUser

\* A group of variables that a step leaves alone keeps its type.
LEMMA UnchangedTypes ==
  /\ ProcTypes /\ UNCHANGED procVars => ProcTypes'
  /\ TimeTypes /\ UNCHANGED timeVars => TimeTypes'
  /\ InTypes /\ UNCHANGED inVars => InTypes'
  /\ OutTypes /\ UNCHANGED outVars => OutTypes'
BY DEF ProcTypes, TimeTypes, InTypes, OutTypes, procVars, timeVars, inVars, outVars

LEMMA InitTypeOK == Init => TypeOK
<1> SUFFICES ASSUME Init PROVE TypeOK
  OBVIOUS
<1>1. \A S : <<>> \in Seq(S)
  OBVIOUS
<1>2. <<First>> \in Seq(Pid)
  BY PidFacts
<1>3. Frame("boot") \in Frames /\ User \in Frames
  BY FrameTypes DEF TtySites, Sites, Returning
<1>4. ProcTypes
  <2>1. First + 1 \in 2..MaxPid + 1
    BY KernelAssumption DEF First
  <2> QED BY <1>1, <1>2, <2>1, PidFacts DEF Init, initKernel, CreateInitProcess, ProcTypes
<1>5. SchedTypes
  BY <1>1, <1>3, PidFacts DEF Init, initKernel, CreateInitProcess, SchedTypes
<1>6. TimeTypes
  BY <1>1, KernelAssumption DEF Init, initKernel, CreateInitProcess, TimeTypes
<1>7. InTypes
  BY <1>1 DEF Init, initKernel, CreateInitProcess, InTypes
<1>8. OutTypes
  BY <1>1 DEF Init, initKernel, CreateInitProcess, OutTypes
<1> QED BY <1>4, <1>5, <1>6, <1>7, <1>8 DEF TypeOK

LEMMA ForkTypes == TypeOK /\ HandleFork => TypeOK'
<1> SUFFICES ASSUME TypeOK, HandleFork PROVE TypeOK'
  OBVIOUS
<1>1. pid_counter \in Pid /\ pid_counter' \in 2..MaxPid + 1 /\ curr_proc \in Pid
  BY KernelAssumption DEF TypeOK, ProcTypes, SchedTypes, HandleFork, Pid
<1>2. TimeTypes' /\ InTypes' /\ OutTypes'
  BY UnchangedTypes DEF TypeOK, HandleFork, ttyVars
<1>3. CASE ForkWithoutPCB
  BY <1>1, <1>2, <1>3 DEF TypeOK, ProcTypes, SchedTypes, HandleFork, ForkWithoutPCB
<1>4. Append(running_children[curr_proc], pid_counter) \in Seq(Pid)
  BY <1>1, EnqueueProperties DEF TypeOK, ProcTypes
<1>5. CASE ForkWithoutFrames(pid_counter)
  BY <1>1, <1>2, <1>4, <1>5
     DEF TypeOK, ProcTypes, SchedTypes, HandleFork, ForkWithoutFrames
<1>6. CASE ForkCopies(pid_counter)
  <2>1. Frame("fork") \in Frames
    BY FrameTypes DEF TtySites, Sites, Returning
  <2>2. SchedTypes'
    BY <1>1, <1>6, <2>1, PreemptTypes DEF TypeOK, SchedTypes, HandleFork, ForkCopies
  <2>3. Append(processQueue, pid_counter) \in Seq(Pid)
    BY <1>1, EnqueueProperties DEF TypeOK, ProcTypes
  <2>4. ProcTypes'
    BY <1>1, <1>4, <1>6, <2>3 DEF TypeOK, ProcTypes, HandleFork, ForkCopies
  <2> QED BY <1>2, <2>2, <2>4 DEF TypeOK
<1> QED BY <1>3, <1>5, <1>6 DEF HandleFork

LEMMA TerminateTypes ==
  ASSUME TypeOK, NEW status \in Statuses, TerminateProcess(status)
  PROVE  TypeOK'
<1>1. TimeTypes' /\ InTypes' /\ OutTypes'
  BY UnchangedTypes DEF TypeOK, TerminateProcess, ttyVars
<1>2. ReadyAfterExit \in Seq(Pid)
  <2>1. WakesParent => parent[curr_proc] \in Pid
    BY DEF TypeOK, ProcTypes, SchedTypes, WakesParent
  <2> QED BY <2>1, EnqueueProperties DEF TypeOK, SchedTypes, ReadyAfterExit
<1>3. NextReady(ReadyAfterExit) \in Pid /\ AfterNext(ReadyAfterExit) \in Seq(Pid)
  BY <1>2, NextReadyTypes
<1>4. WaitersAfterExit \in Seq(Pid)
  BY SearchAndRemoveProperties DEF TypeOK, SchedTypes, WaitersAfterExit
<1>5. SchedTypes'
  <2>1. curr_proc' \in Pid /\ kstack' \in [Pid -> Frames]
    BY <1>3, FrameTypes, SwitchTypes
       DEF TerminateProcess, FreesPCB, HaltsFreeing, TypeOK, SchedTypes
  <2>2. wait_queue' = WaitersAfterExit /\ runningQueue' = AfterNext(ReadyAfterExit)
    BY DEF TerminateProcess, notifyParent
  <2>3. runningTime' \in [Pid -> 0..1]
    BY DEF TerminateProcess, FreesPCB, HaltsFreeing, TypeOK, SchedTypes
  <2> QED BY <1>3, <1>4, <2>1, <2>2, <2>3 DEF SchedTypes
<1>6. ProcTypes'
  <2>1. running_children' \in [Pid -> Seq(Pid)]
    BY SearchAndRemoveProperties
       DEF TypeOK, ProcTypes, TerminateProcess, notifyParent
  <2>2. exited_children' \in [Pid -> Seq([pid : Pid, status : Statuses])]
    <3> DEFINE entry == [pid |-> curr_proc, status |-> status]
               Entries == [pid : Pid, status : Statuses]
    <3>1. entry \in Entries
      BY DEF TypeOK, SchedTypes
    <3>2. exited_children' =
            [p \in Pid |-> IF p = curr_proc THEN <<>>
                           ELSE IF p = parent[curr_proc] THEN Append(exited_children[p], entry)
                           ELSE exited_children[p]]
      BY DEF TerminateProcess, notifyParent
    <3>3. exited_children \in [Pid -> Seq(Entries)]
      BY DEF TypeOK, ProcTypes
    <3> HIDE DEF entry, Entries
    <3>4. \A p \in Pid : Append(exited_children[p], entry) \in Seq(Entries)
      BY <3>1, <3>3, EnqueueProperties
    <3>5. exited_children' \in [Pid -> Seq(Entries)]
      BY <3>2, <3>3, <3>4
    <3> QED BY <3>5 DEF Entries
  <2>3. parent' \in [Pid -> Pid \cup {NULL}]
    BY DEF TypeOK, ProcTypes, TerminateProcess, notifyChildren
  <2>4. processQueue' \in Seq(Pid)
    BY SearchAndRemoveProperties
       DEF TypeOK, ProcTypes, TerminateProcess, FreesPCB, HaltsFreeing
  <2>5. halted' \in BOOLEAN /\ pcb' \in [Pid -> {"none", "live", "failed", "freed"}]
    BY DEF TypeOK, ProcTypes, TerminateProcess, FreesPCB, HaltsFreeing
  <2> QED BY <2>1, <2>2, <2>3, <2>4, <2>5 DEF TypeOK, ProcTypes, TerminateProcess
<1> QED BY <1>1, <1>5, <1>6 DEF TypeOK

\* A call that halts over its caller's pages changes nothing else.
LEMMA FreesTypes == TypeOK /\ FreesPages => TypeOK'
<1> SUFFICES ASSUME TypeOK, FreesPages PROVE TypeOK'
  OBVIOUS
<1>1. TimeTypes' /\ InTypes' /\ OutTypes'
  BY UnchangedTypes DEF TypeOK, FreesPages, ttyVars
<1>2. SchedTypes' /\ ProcTypes'
  BY DEF TypeOK, SchedTypes, ProcTypes, FreesPages, HaltsFreeing
<1> QED BY <1>1, <1>2 DEF TypeOK

LEMMA CollectTypes ==
  ASSUME ProcTypes, curr_proc \in Pid, exited_children[curr_proc] # <<>>, CollectChild
  PROVE  exited_children' \in [Pid -> Seq([pid : Pid, status : Statuses])]
<1>1. Tail(exited_children[curr_proc]) \in Seq([pid : Pid, status : Statuses])
  BY DequeueProperties DEF ProcTypes
<1> QED BY <1>1 DEF ProcTypes, CollectChild

LEMMA WaitTypes == TypeOK /\ (HandleWait \/ ResumeWait) => TypeOK'
<1> SUFFICES ASSUME TypeOK, HandleWait \/ ResumeWait PROVE TypeOK'
  OBVIOUS
<1>1. TimeTypes' /\ InTypes' /\ OutTypes'
  BY UnchangedTypes DEF TypeOK, HandleWait, ResumeWait, ttyVars
<1>2. /\ pid_counter' = pid_counter /\ halted' = halted /\ pcb' = pcb
      /\ parent' = parent /\ running_children' = running_children
      /\ processQueue' = processQueue /\ runningTime' = runningTime
  BY DEF HandleWait, ResumeWait
<1>3. CASE exited_children' = exited_children /\ UNCHANGED
           <<curr_proc, runningQueue, wait_queue, kstack>>
  BY <1>1, <1>2, <1>3 DEF TypeOK, ProcTypes, SchedTypes
<1>4. CASE /\ wait_queue' = Append(wait_queue, curr_proc)
           /\ scheduleNextProcess(Frame("wait"))
           /\ UNCHANGED exited_children
  <2>1. Frame("wait") \in Frames
    BY FrameTypes DEF TtySites, Sites
  <2>2. SchedTypes'
    BY <1>2, <1>4, <2>1, ScheduleTypes, EnqueueProperties DEF TypeOK, SchedTypes
  <2> QED BY <1>1, <1>2, <1>4, <2>2 DEF TypeOK, ProcTypes
<1>5. CASE exited_children[curr_proc] # <<>> /\ CollectChild /\ UNCHANGED kstack
  BY <1>1, <1>2, <1>5, CollectTypes DEF TypeOK, ProcTypes, SchedTypes, CollectChild
<1>6. CASE exited_children[curr_proc] # <<>> /\ CollectChild /\ ReturnToUser
  BY <1>1, <1>2, <1>6, CollectTypes, ReturnTypes
     DEF TypeOK, ProcTypes, SchedTypes, CollectChild
<1> QED BY <1>3, <1>4, <1>5, <1>6 DEF HandleWait, ResumeWait

LEMMA DelayTypes ==
  ASSUME TypeOK, NEW n \in 1..MaxTicks, HandleDelay(n)
  PROVE  TypeOK'
<1>1. ProcTypes' /\ InTypes' /\ OutTypes'
  BY UnchangedTypes DEF TypeOK, HandleDelay, ttyVars
<1>2. TimeTypes'
  BY EnqueueProperties DEF TypeOK, TimeTypes, SchedTypes, HandleDelay
<1>3. Frame("delay") \in Frames
  BY FrameTypes DEF TtySites, Sites, Returning
<1>4. SchedTypes'
  BY <1>3, ScheduleTypes DEF TypeOK, SchedTypes, HandleDelay
<1> QED BY <1>1, <1>2, <1>4 DEF TypeOK

LEMMA ClockTypes == TypeOK /\ TrapClockHandler => TypeOK'
<1> SUFFICES ASSUME TypeOK, TrapClockHandler PROVE TypeOK'
  OBVIOUS
<1>1. ProcTypes' /\ InTypes' /\ OutTypes'
  BY UnchangedTypes DEF TypeOK, TrapClockHandler, ttyVars
<1>2. TimeTypes'
  <2>1. delay_queue' \in Seq(Pid)
    BY KeepProperties DEF TypeOK, TimeTypes, TrapClockHandler
  <2>2. ASSUME NEW p \in Range(delay_queue) \ Expired, p \in Pid
        PROVE  delay_left[p] - 1 \in 0..MaxTicks
    <3>1. delay_left[p] \in 0..MaxTicks /\ ~ (delay_left[p] - 1 < 0)
      BY <2>2 DEF Expired, TypeOK, TimeTypes
    <3> QED BY <3>1, KernelAssumption
  <2>3. 0 \in 0..MaxTicks
    BY KernelAssumption
  <2> QED BY <2>1, <2>2, <2>3 DEF TimeTypes, TrapClockHandler
<1>3. ReadyAtTick \in Seq(Pid)
  BY KeepProperties, ConcatProperties DEF TypeOK, SchedTypes, TimeTypes, ReadyAtTick
<1>4. runningTime' \in [Pid -> 0..1]
  BY DEF TypeOK, SchedTypes, TrapClockHandler, SliceOver
<1>5. CASE SliceOver /\ ReadyAtTick # <<>>
  <2>1. Head(ReadyAtTick) \in Pid /\ Tail(ReadyAtTick) \in Seq(Pid)
    BY <1>3, <1>5, DequeueProperties
  <2>2. Requeue(Tail(ReadyAtTick)) \in Seq(Pid)
    BY <2>1, EnqueueProperties DEF Requeue, TypeOK, SchedTypes
  <2>3. Frame("clock") \in Frames
    BY FrameTypes DEF TtySites, Sites, Returning
  <2>4. SwitchTo(Head(ReadyAtTick), Frame("clock")) /\ runningQueue' = Requeue(Tail(ReadyAtTick))
        /\ wait_queue' = wait_queue
    BY <1>5 DEF TrapClockHandler
  <2>5. curr_proc' \in Pid /\ kstack' \in [Pid -> Frames]
    BY <2>1, <2>3, <2>4, SwitchTypes DEF TypeOK
  <2>6. SchedTypes'
    BY <1>4, <2>2, <2>4, <2>5 DEF TypeOK, SchedTypes
  <2> QED BY <1>1, <1>2, <2>6 DEF TypeOK
<1>6. CASE ~ (SliceOver /\ ReadyAtTick # <<>>)
  <2>1. SchedTypes'
    BY <1>3, <1>4, <1>6 DEF TypeOK, SchedTypes, TrapClockHandler
  <2> QED BY <1>1, <1>2, <2>1 DEF TypeOK
<1> QED BY <1>5, <1>6

LEMMA TakeTextTypes ==
  ASSUME InTypes, NEW t \in Ttys, NEW n \in 0..MaxLine, inputBuffer[t] # <<>>,
         TakeText(t, n), readQueue' \in [Ttys -> Seq(Pid)]
  PROVE  InTypes'
<1> DEFINE text == Head(inputBuffer[t])
           copied == IF n < text.length THEN n ELSE text.length
           left == [ptr |-> text.ptr + copied, length |-> text.length - copied]
           rest == Tail(inputBuffer[t])
<1>1. text \in Texts /\ rest \in Seq(Texts)
  BY DequeueProperties DEF InTypes
<1>2. left \in Texts
  <2>1. /\ text.ptr \in Nat /\ text.length \in Nat /\ n \in Nat /\ MaxLine \in Nat
        /\ text.ptr + text.length <= MaxLine
    BY <1>1, KernelAssumption DEF Texts
  <2>2. copied \in Nat /\ copied <= text.length
    BY <2>1
  <2>3. /\ text.ptr + copied \in 0..MaxLine /\ text.length - copied \in 0..MaxLine
        /\ text.ptr + copied + (text.length - copied) <= MaxLine
    BY <2>1, <2>2
  <2> QED BY <2>3 DEF Texts
<1>3. (IF left.length = 0 THEN <<>> ELSE <<left>>) \o rest \in Seq(Texts)
  <2> HIDE DEF left, rest
  <2>1. <<left>> \in Seq(Texts) /\ <<>> \in Seq(Texts)
    BY <1>2
  <2> QED BY <1>1, <2>1, ConcatProperties
<1>4. inputBuffer' = [inputBuffer EXCEPT ![t] =
                        (IF left.length = 0 THEN <<>> ELSE <<left>>) \o rest]
  BY DEF TakeText
<1>5. readReady' = [readReady EXCEPT ![t] = IF NothingLeft(t, left) THEN -1 ELSE @]
  BY DEF TakeText
<1> HIDE DEF left, rest
<1> QED BY <1>3, <1>4, <1>5 DEF InTypes

LEMMA ReadTypes ==
  ASSUME TypeOK, NEW t \in Ttys, NEW n \in 1..MaxLine, HandleTtyRead(t, n)
  PROVE  TypeOK'
<1>1. ProcTypes' /\ TimeTypes' /\ OutTypes'
  BY UnchangedTypes DEF TypeOK, HandleTtyRead
<1>2. CASE readReady[t] = -1
  <2>1. /\ readQueue' = [readQueue EXCEPT ![t] = Append(@, curr_proc)]
        /\ scheduleNextProcess(TtyFrame("read", t, n))
        /\ UNCHANGED <<inputBuffer, readReady, wait_queue, runningTime>>
    BY <1>2 DEF HandleTtyRead
  <2>2. InTypes'
    BY <2>1, EnqueueProperties DEF TypeOK, InTypes, SchedTypes
  <2>3. TtyFrame("read", t, n) \in Frames
    BY FrameTypes DEF TtySites, Sites
  <2>4. SchedTypes'
    BY <2>1, <2>3, ScheduleTypes DEF TypeOK, SchedTypes
  <2> QED BY <1>1, <2>2, <2>4 DEF TypeOK
<1>3. CASE readReady[t] # -1
  <2>1. /\ inputBuffer[t] # <<>> /\ TakeText(t, n)
        /\ UNCHANGED <<curr_proc, runningQueue, kstack, readQueue, wait_queue, runningTime>>
    BY <1>3 DEF HandleTtyRead
  <2>2. InTypes'
    BY <2>1, TakeTextTypes DEF TypeOK, InTypes
  <2>3. SchedTypes'
    BY <2>1 DEF TypeOK, SchedTypes
  <2> QED BY <1>1, <2>2, <2>3 DEF TypeOK
<1> QED BY <1>2, <1>3

LEMMA ResumeReadTypes == TypeOK /\ ResumeRead => TypeOK'
<1> SUFFICES ASSUME TypeOK, ResumeRead PROVE TypeOK'
  OBVIOUS
<1> DEFINE t == kstack[curr_proc].tty
<1>1. ProcTypes' /\ TimeTypes' /\ OutTypes'
  BY UnchangedTypes DEF TypeOK, ResumeRead
<1>2. SchedTypes'
  BY ReturnTypes DEF TypeOK, SchedTypes, ResumeRead
<1>3. t \in Ttys /\ kstack[curr_proc].len \in 0..MaxLine
  BY FrameTypes DEF TypeOK, SchedTypes, ResumeRead, TtySites
<1>4. InTypes'
  BY <1>3, TakeTextTypes DEF TypeOK, InTypes, ResumeRead
<1> QED BY <1>1, <1>2, <1>4 DEF TypeOK

LEMMA LoopTypes ==
  ASSUME SchedTypes, InTypes, NEW t \in Ttys, NEW ready, ReceiveLoop(t, ready)
  PROVE  /\ curr_proc' \in Pid /\ kstack' \in [Pid -> Frames] /\ runningQueue' \in Seq(Pid)
         /\ readQueue' \in [Ttys -> Seq(Pid)]
<1>1. CASE ReturnToUser /\ UNCHANGED <<curr_proc, runningQueue, readQueue>>
  BY <1>1, ReturnTypes DEF SchedTypes, InTypes
<1>2. CASE readQueue[t] # <<>> /\ ServeReader(t)
  <2>1. Head(readQueue[t]) \in Pid /\ Tail(readQueue[t]) \in Seq(Pid)
    BY <1>2, DequeueProperties DEF InTypes
  <2>2. TtyFrame("recv", t, 0) \in Frames
    BY FrameTypes, KernelAssumption DEF TtySites
  <2> QED BY <1>2, <2>1, <2>2, PreemptTypes DEF ServeReader, InTypes
<1> QED BY <1>1, <1>2 DEF ReceiveLoop

LEMMA ReceiveTypes ==
  ASSUME TypeOK, NEW t \in Ttys, NEW n \in 0..MaxLine, TrapReceiveHandler(t, n)
  PROVE  TypeOK'
<1>1. ProcTypes' /\ TimeTypes' /\ OutTypes'
  BY UnchangedTypes DEF TypeOK, TrapReceiveHandler
<1>2. SchedTypes' /\ readQueue' \in [Ttys -> Seq(Pid)]
  BY LoopTypes DEF TypeOK, SchedTypes, TrapReceiveHandler
<1>3. [ptr |-> 0, length |-> n] \in Texts
  BY KernelAssumption DEF Texts
<1>4. Append(inputBuffer[t], [ptr |-> 0, length |-> n]) \in Seq(Texts)
  BY <1>3, EnqueueProperties DEF TypeOK, InTypes
<1>5. InTypes'
  BY <1>2, <1>4 DEF TypeOK, InTypes, TrapReceiveHandler
<1> QED BY <1>1, <1>2, <1>5 DEF TypeOK

LEMMA ResumeReceiveTypes == TypeOK /\ ResumeReceive => TypeOK'
<1> SUFFICES ASSUME TypeOK, ResumeReceive PROVE TypeOK'
  OBVIOUS
<1> DEFINE t == kstack[curr_proc].tty
           ready == IF inputBuffer[t] = <<>> THEN -1 ELSE readReady[t]
<1>1. ProcTypes' /\ TimeTypes' /\ OutTypes'
  BY UnchangedTypes DEF TypeOK, ResumeReceive
<1>2. t \in Ttys
  BY FrameTypes DEF TypeOK, SchedTypes, ResumeReceive, TtySites
<1>3. SchedTypes' /\ readQueue' \in [Ttys -> Seq(Pid)]
  BY <1>2, LoopTypes DEF TypeOK, SchedTypes, ResumeReceive
<1>4. InTypes'
  BY <1>2, <1>3 DEF TypeOK, InTypes, ResumeReceive
<1> QED BY <1>1, <1>3, <1>4 DEF TypeOK

LEMMA TransmitTypes ==
  ASSUME OutTypes, NEW t \in Ttys, NEW p \in Pid, TtyTransmit(t, p),
         writeQueue' \in [Ttys -> Seq(Pid)]
  PROVE  OutTypes'
<1>1. /\ writeReady' \in [Ttys -> {-1, 1}]
      /\ transmitPCB' \in [Ttys -> Pid \cup {NULL}]
      /\ transmitting' \in [Ttys -> Nat]
  BY DEF OutTypes, TtyTransmit
<1>2. ASSUME NEW u \in Ttys, transmitting'[u] > 0 PROVE transmitPCB'[u] # NULL
  <2>1. CASE u = t
    BY <2>1, PidFacts DEF OutTypes, TtyTransmit
  <2>2. CASE u # t
    BY <1>2, <2>2 DEF OutTypes, TtyTransmit
  <2> QED BY <2>1, <2>2
<1> QED BY <1>1, <1>2 DEF OutTypes

LEMMA WriteTypes ==
  ASSUME TypeOK, NEW t \in Ttys, HandleTtyWrite(t)
  PROVE  TypeOK'
<1>1. ProcTypes' /\ TimeTypes' /\ InTypes'
  BY UnchangedTypes DEF TypeOK, HandleTtyWrite
<1>2. TtyFrame("write", t, 0) \in Frames
  BY FrameTypes, KernelAssumption DEF TtySites
<1>3. SchedTypes'
  BY <1>2, ScheduleTypes DEF TypeOK, SchedTypes, HandleTtyWrite
<1>4. CASE TtyTransmit(t, curr_proc) /\ UNCHANGED writeQueue
  BY <1>1, <1>3, <1>4, TransmitTypes DEF TypeOK, OutTypes, SchedTypes
<1>5. CASE /\ writeQueue' = [writeQueue EXCEPT ![t] = Append(@, curr_proc)]
           /\ UNCHANGED <<writeReady, transmitPCB, transmitting>>
  <2>1. Append(writeQueue[t], curr_proc) \in Seq(Pid)
    BY EnqueueProperties DEF TypeOK, SchedTypes, OutTypes
  <2>2. OutTypes'
    BY <1>5, <2>1 DEF TypeOK, OutTypes
  <2> QED BY <1>1, <1>3, <2>2 DEF TypeOK
<1> QED BY <1>4, <1>5 DEF HandleTtyWrite

LEMMA TransmittedTypes ==
  ASSUME TypeOK, NEW t \in Ttys, TrapTransmitHandler(t)
  PROVE  TypeOK'
<1>1. ProcTypes' /\ TimeTypes' /\ InTypes'
  BY UnchangedTypes DEF TypeOK, TrapTransmitHandler
<1>2. TtyFrame("xmit", t, 0) \in Frames /\ transmitPCB[t] \in Pid
  BY FrameTypes, KernelAssumption DEF TtySites, TypeOK, OutTypes, TrapTransmitHandler
<1>3. SchedTypes'
  BY <1>2, PreemptTypes DEF TypeOK, SchedTypes, TrapTransmitHandler
<1>4. OutTypes'
  BY DEF TypeOK, OutTypes, TrapTransmitHandler
<1> QED BY <1>1, <1>3, <1>4 DEF TypeOK

LEMMA ResumeTransmitTypes == TypeOK /\ ResumeTransmit => TypeOK'
<1> SUFFICES ASSUME TypeOK, ResumeTransmit PROVE TypeOK'
  OBVIOUS
<1> DEFINE t == kstack[curr_proc].tty
<1>1. ProcTypes' /\ TimeTypes' /\ InTypes'
  BY UnchangedTypes DEF TypeOK, ResumeTransmit
<1>2. SchedTypes'
  BY ReturnTypes DEF TypeOK, SchedTypes, ResumeTransmit
<1>3. t \in Ttys
  BY FrameTypes DEF TypeOK, SchedTypes, ResumeTransmit, TtySites
<1>4. CASE NextMayTransmit(t)
  <2>1. Head(writeQueue[t]) \in Pid /\ Tail(writeQueue[t]) \in Seq(Pid)
    BY <1>3, <1>4, DequeueProperties DEF TypeOK, OutTypes, NextMayTransmit
  <2>2. TransmitNext(t)
    BY <1>4 DEF ResumeTransmit
  <2>3. OutTypes'
    BY <1>3, <2>1, <2>2, TransmitTypes DEF TypeOK, OutTypes, TransmitNext
  <2> QED BY <1>1, <1>2, <2>3 DEF TypeOK
<1>5. CASE ~NextMayTransmit(t)
  BY <1>1, <1>2, <1>5, UnchangedTypes DEF TypeOK, ResumeTransmit
<1> QED BY <1>4, <1>5

LEMMA StepTypeOK == TypeOK /\ [Next]_vars => TypeOK'
<1> SUFFICES ASSUME TypeOK, [Next]_vars PROVE TypeOK'
  OBVIOUS
<1>1. CASE HandleFork
  BY <1>1, ForkTypes
<1>2. CASE \/ \E status \in Statuses : HandleExit(status)
           \/ HandleExec \/ HandleBrk \/ TrapIllegalHandler \/ TrapMathHandler \/ TrapMemoryHandler
  BY <1>2, TerminateTypes, FreesTypes, KernelAssumption
     DEF HandleExit, HandleExec, HandleBrk, TrapIllegalHandler, TrapMathHandler, TrapMemoryHandler
<1>3. CASE HandleWait \/ ResumeWait
  BY <1>3, WaitTypes
<1>4. CASE \E n \in 1..MaxTicks : HandleDelay(n)
  BY <1>4, DelayTypes
<1>5. CASE TrapClockHandler
  BY <1>5, ClockTypes
<1>6. CASE \E t \in Ttys, n \in 1..MaxLine : HandleTtyRead(t, n)
  BY <1>6, ReadTypes
<1>7. CASE \E t \in Ttys : HandleTtyWrite(t) \/ TrapTransmitHandler(t)
  BY <1>7, WriteTypes, TransmittedTypes
<1>8. CASE \E t \in Ttys, n \in 0..MaxLine : TrapReceiveHandler(t, n)
  BY <1>8, ReceiveTypes
<1>9. CASE ResumeRead \/ ResumeReceive \/ ResumeTransmit
  BY <1>9, ResumeReadTypes, ResumeReceiveTypes, ResumeTransmitTypes
<1>10. CASE UNCHANGED vars
  BY <1>10, UnchangedTypes DEF TypeOK, SchedTypes, vars, ttyVars
<1> QED BY <1>1, <1>2, <1>3, <1>4, <1>5, <1>6, <1>7, <1>8, <1>9, <1>10 DEF Next, Halted

\* The variables keep their types.
THEOREM TypeCorrect == Spec => []TypeOK
<1>1. Init => TypeOK
  BY InitTypeOK
<1>2. TypeOK /\ [Next]_vars => TypeOK'
  BY StepTypeOK
<1> QED BY <1>1, <1>2, PTL DEF Spec
----------------------------------------------------------------------------
(***************************************************************************)
(* Places.                                                                 *)
(***************************************************************************)
LEMMA ResumedSites ==
  ASSUME NEW f \in Frames
  PROVE  /\ f.site \in Returning => Resumed(f) = User
         /\ f.site \notin Returning => Resumed(f) = f
         /\ User.site = "user"
BY DEF Resumed, User, Frame

\* The running process blocks or terminates: the head of the ready queue runs
\* or, when nobody is ready, idle does.
LEMMA NextSets ==
  ASSUME NEW ready \in Seq(Pid), IsInjective(ready)
  PROVE  /\ IsInjective(AfterNext(ready))
         /\ Range(AfterNext(ready)) = Range(ready) \ {NextReady(ready)}
         /\ \/ NextReady(ready) \in Range(ready)
            \/ NextReady(ready) = Idle /\ Range(ready) = {}
<1>1. CASE ready = <<>>
  BY <1>1 DEF NextReady, AfterNext, Range, IsInjective
<1>2. CASE ready # <<>>
  BY <1>2, DequeueProperties DEF NextReady, AfterNext
<1> QED BY <1>1, <1>2

\* Whoever is listed is a PID.
LEMMA ListedPids ==
  ASSUME TypeOK
  PROVE  /\ Range(runningQueue) \subseteq Pid
         /\ Range(delay_queue) \subseteq Pid
         /\ Range(wait_queue) \subseteq Pid
         /\ \A t \in Ttys : Range(readQueue[t]) \subseteq Pid /\ Range(writeQueue[t]) \subseteq Pid
         /\ \A t \in Ttys : transmitting[t] > 0 => transmitPCB[t] \in Pid
         /\ \A p : Blocked(p) => p \in Pid
BY RangeOfSeq DEF TypeOK, SchedTypes, TimeTypes, InTypes, OutTypes, Blocked

\* Whoever is blocked is suspended where it blocked; idle never is.
LEMMA BlockedFacts ==
  ASSUME TypeOK, PlaceInv, ~halted
  PROVE  /\ Distinct /\ BlockedSites /\ TransmitSites /\ ReadySites
         /\ CurrSite /\ IdleSite /\ ListedLive
         /\ \A p : Blocked(p) => kstack[p].site \in {"delay", "wait", "read", "write"}
         /\ ~Blocked(Idle)
         /\ ~Blocked(curr_proc) /\ curr_proc \notin Range(runningQueue)
<1>1. /\ Distinct /\ BlockedSites /\ TransmitSites /\ ReadySites
      /\ CurrSite /\ IdleSite /\ ListedLive
  BY DEF PlaceInv
<1>2. \A p : Blocked(p) => kstack[p].site \in {"delay", "wait", "read", "write"}
  BY <1>1 DEF BlockedSites, TransmitSites, Blocked
<1>3. ~Blocked(curr_proc) /\ curr_proc \notin Range(runningQueue)
  BY <1>1 DEF CurrSite, Listed
<1>4. ~Blocked(Idle)
  BY <1>1, <1>2, <1>3 DEF IdleSite
<1> QED BY <1>1, <1>2, <1>3, <1>4

\* Where the processes that were blocked before the step, and are not q, which moves,
\* are suspended after it.
LEMMA SuspendedButMoved ==
  ASSUME TypeOK, BlockedSites, TransmitSites, NEW q,
         \A p \in Pid \ {q} : Blocked(p) => kstack'[p] = kstack[p]
  PROVE  /\ \A p \in Range(delay_queue) \ {q} : kstack'[p].site = "delay"
         /\ \A p \in Range(wait_queue) \ {q} : kstack'[p].site = "wait"
         /\ \A t \in Ttys : \A p \in Range(readQueue[t]) \ {q} :
              kstack'[p].site = "read" /\ kstack'[p].tty = t
         /\ \A t \in Ttys : \A p \in Range(writeQueue[t]) \ {q} :
              kstack'[p].site = "write" /\ kstack'[p].tty = t
         /\ \A t \in Ttys : transmitting[t] > 0 /\ transmitPCB[t] # q =>
              kstack'[transmitPCB[t]].site = "write" /\ kstack'[transmitPCB[t]].tty = t
<1>1. \A p \in (Range(delay_queue) \cup Range(wait_queue)) \ {q} : kstack'[p] = kstack[p]
  BY ListedPids DEF Blocked
<1>2. \A t \in Ttys : \A p \in (Range(readQueue[t]) \cup Range(writeQueue[t])) \ {q} :
        kstack'[p] = kstack[p]
  BY ListedPids DEF Blocked
<1>3. \A t \in Ttys : transmitting[t] > 0 /\ transmitPCB[t] # q =>
        kstack'[transmitPCB[t]] = kstack[transmitPCB[t]]
  BY ListedPids DEF Blocked
<1> QED BY <1>1, <1>2, <1>3 DEF BlockedSites, TransmitSites

LEMMA StillSuspended ==
  ASSUME TypeOK, BlockedSites, TransmitSites,
         \A p \in Pid : Blocked(p) => kstack'[p] = kstack[p]
  PROVE  /\ \A p \in Range(delay_queue) : kstack'[p].site = "delay"
         /\ \A p \in Range(wait_queue) : kstack'[p].site = "wait"
         /\ \A t \in Ttys : \A p \in Range(readQueue[t]) :
              kstack'[p].site = "read" /\ kstack'[p].tty = t
         /\ \A t \in Ttys : \A p \in Range(writeQueue[t]) :
              kstack'[p].site = "write" /\ kstack'[p].tty = t
         /\ \A t \in Ttys : transmitting[t] > 0 =>
              kstack'[transmitPCB[t]].site = "write" /\ kstack'[transmitPCB[t]].tty = t
<1>1. \A p \in Range(delay_queue) \cup Range(wait_queue) : kstack'[p] = kstack[p]
  BY ListedPids DEF Blocked
<1>2. \A t \in Ttys : \A p \in Range(readQueue[t]) \cup Range(writeQueue[t]) :
        kstack'[p] = kstack[p]
  BY ListedPids DEF Blocked
<1>3. \A t \in Ttys : transmitting[t] > 0 => kstack'[transmitPCB[t]] = kstack[transmitPCB[t]]
  BY ListedPids DEF Blocked
<1> QED BY <1>1, <1>2, <1>3 DEF BlockedSites, TransmitSites

\* The running process has blocked and calls scheduleNextProcess: what is left
\* to show of the step is what joining its list does.
LEMMA BlockStep ==
  ASSUME TypeOK, PlaceInv, UserProgram, NEW frame \in Frames,
         frame.site \in {"delay", "wait", "read", "write"},
         scheduleNextProcess(frame), UNCHANGED <<pcb, halted>>,
         \A p \in Pid : Blocked(p)' <=> (Blocked(p) \/ p = curr_proc)
  PROVE  /\ IsInjective(runningQueue')
         /\ ReadySites' /\ CurrSite' /\ IdleSite' /\ ListedLive' /\ ~halted'
         /\ kstack'[curr_proc] = frame
         /\ \A p \in Pid : Blocked(p) => kstack'[p] = kstack[p]
<1> DEFINE q == NextReady(runningQueue)
<1>1. ~halted /\ curr_proc # Idle /\ curr_proc \in Pid /\ Idle \in Pid
  BY PidFacts DEF UserProgram, UserMode, TypeOK, SchedTypes
<1>2. /\ Distinct /\ ReadySites /\ CurrSite /\ IdleSite /\ ListedLive
      /\ \A p : Blocked(p) => kstack[p].site \in {"delay", "wait", "read", "write"}
      /\ ~Blocked(Idle)
      /\ ~Blocked(curr_proc) /\ curr_proc \notin Range(runningQueue)
  BY <1>1, BlockedFacts
<1>3. /\ curr_proc' = q /\ runningQueue' = AfterNext(runningQueue)
      /\ kstack' = [kstack EXCEPT ![curr_proc] = frame, ![q] = Resumed(@)]
  BY DEF scheduleNextProcess, SwitchTo
<1>4. /\ IsInjective(runningQueue')
      /\ Range(runningQueue') = Range(runningQueue) \ {q}
      /\ q \in Range(runningQueue) \/ (q = Idle /\ Range(runningQueue) = {})
  BY <1>2, <1>3, NextSets DEF Distinct, TypeOK, SchedTypes
<1> HIDE DEF q
<1>5. q \in Pid /\ q # curr_proc /\ ~Blocked(q) /\ Range(runningQueue) \subseteq Pid
  BY <1>1, <1>2, <1>4, ListedPids DEF ReadySites
<1>6. \A p \in Pid : kstack'[p] = IF p = curr_proc THEN frame
                                  ELSE IF p = q THEN Resumed(kstack[p]) ELSE kstack[p]
  BY <1>1, <1>3, <1>5 DEF TypeOK, SchedTypes
<1>7. kstack'[curr_proc] = frame /\ \A p \in Pid : Blocked(p) => kstack'[p] = kstack[p]
  BY <1>1, <1>2, <1>5, <1>6
<1>8. ReadySites'
  BY <1>1, <1>2, <1>4, <1>5, <1>6 DEF ReadySites
<1>9. kstack'[q].site \in {"user", "wait", "recv", "xmit"}
  <2>1. kstack[q].site \in {"boot", "fork", "clock", "delay", "wait", "recv", "xmit"}
    BY <1>1, <1>2, <1>4 DEF ReadySites, IdleSite
  <2>2. kstack[q] \in Frames
    BY <1>5 DEF TypeOK, SchedTypes
  <2> QED BY <1>5, <1>6, <2>1, <2>2, ResumedSites DEF Returning
<1>10. CurrSite'
  BY <1>3, <1>4, <1>5, <1>9 DEF CurrSite, Listed
<1>11. IdleSite'
  BY <1>1, <1>2, <1>3, <1>6 DEF IdleSite
<1>12. ListedLive'
  BY <1>1, <1>2, <1>3, <1>4, <1>5 DEF ListedLive, Listed, Live
<1> QED BY <1>1, <1>4, <1>7, <1>8, <1>10, <1>11, <1>12

LEMMA DelayPlaces ==
  ASSUME TypeOK, PlaceInv, NEW n \in 1..MaxTicks, HandleDelay(n)
  PROVE  PlaceInv'
<1>1. /\ UNCHANGED <<wait_queue, readQueue, writeQueue, transmitPCB, transmitting, writeReady, pcb, halted>>
      /\ delay_queue' = Append(delay_queue, curr_proc)
      /\ scheduleNextProcess(Frame("delay")) /\ UserProgram /\ ~halted
      /\ curr_proc \in Pid
  BY DEF HandleDelay, ttyVars, inVars, outVars, procVars, UserProgram, UserMode, TypeOK, SchedTypes
<1>2. /\ Distinct /\ BlockedSites /\ TransmitSites /\ ~Blocked(curr_proc)
  BY <1>1, BlockedFacts
<1>3. Frame("delay") \in Frames /\ Frame("delay").site = "delay"
  BY FrameTypes DEF Sites, Returning, TtySites, Frame
<1>4. Range(delay_queue') = Range(delay_queue) \cup {curr_proc} /\ IsInjective(delay_queue')
  BY <1>1, <1>2, EnqueueProperties DEF TypeOK, TimeTypes, Distinct, Blocked
<1>5. \A p \in Pid : Blocked(p)' <=> (Blocked(p) \/ p = curr_proc)
  BY <1>1, <1>4 DEF Blocked
<1>6. /\ IsInjective(runningQueue')
      /\ ReadySites' /\ CurrSite' /\ IdleSite' /\ ListedLive' /\ ~halted'
      /\ kstack'[curr_proc] = Frame("delay")
      /\ \A p \in Pid : Blocked(p) => kstack'[p] = kstack[p]
  BY <1>1, <1>3, <1>5, BlockStep
<1>7. Distinct'
  BY <1>1, <1>2, <1>4, <1>6 DEF Distinct
<1>8. BlockedSites'
  BY <1>1, <1>2, <1>3, <1>4, <1>6, StillSuspended DEF BlockedSites
<1>9. TransmitSites'
  BY <1>1, <1>2, <1>6, StillSuspended DEF TransmitSites, Blocked
<1> QED BY <1>6, <1>7, <1>8, <1>9 DEF PlaceInv

LEMMA BlocksInWait ==
  ASSUME TypeOK, PlaceInv, UserProgram,
         wait_queue' = Append(wait_queue, curr_proc), scheduleNextProcess(Frame("wait")),
         UNCHANGED <<delay_queue, readQueue, writeQueue, transmitPCB, transmitting,
                     writeReady, pcb, halted>>
  PROVE  PlaceInv'
<1>1. ~halted /\ curr_proc \in Pid
  BY DEF UserProgram, UserMode, TypeOK, SchedTypes
<1>2. /\ Distinct /\ BlockedSites /\ TransmitSites /\ ~Blocked(curr_proc)
  BY <1>1, BlockedFacts
<1>3. Frame("wait") \in Frames /\ Frame("wait").site = "wait"
  BY FrameTypes DEF Sites, Returning, TtySites, Frame
<1>4. Range(wait_queue') = Range(wait_queue) \cup {curr_proc} /\ IsInjective(wait_queue')
  BY <1>1, <1>2, EnqueueProperties DEF TypeOK, SchedTypes, Distinct, Blocked
<1>5. \A p \in Pid : Blocked(p)' <=> (Blocked(p) \/ p = curr_proc)
  BY <1>1, <1>4 DEF Blocked
<1>6. /\ IsInjective(runningQueue')
      /\ ReadySites' /\ CurrSite' /\ IdleSite' /\ ListedLive' /\ ~halted'
      /\ kstack'[curr_proc] = Frame("wait")
      /\ \A p \in Pid : Blocked(p) => kstack'[p] = kstack[p]
  BY <1>1, <1>3, <1>5, BlockStep
<1>7. Distinct'
  BY <1>1, <1>2, <1>4, <1>6 DEF Distinct
<1>8. BlockedSites'
  BY <1>1, <1>2, <1>3, <1>4, <1>6, StillSuspended DEF BlockedSites
<1>9. TransmitSites'
  BY <1>1, <1>2, <1>6, StillSuspended DEF TransmitSites, Blocked
<1> QED BY <1>6, <1>7, <1>8, <1>9 DEF PlaceInv

LEMMA BlocksInRead ==
  ASSUME TypeOK, PlaceInv, UserProgram, NEW t \in Ttys, NEW n \in 1..MaxLine,
         readQueue' = [readQueue EXCEPT ![t] = Append(@, curr_proc)],
         scheduleNextProcess(TtyFrame("read", t, n)),
         UNCHANGED <<delay_queue, wait_queue, writeQueue, transmitPCB, transmitting,
                     writeReady, pcb, halted>>
  PROVE  PlaceInv'
<1>1. ~halted /\ curr_proc \in Pid /\ readQueue \in [Ttys -> Seq(Pid)]
  BY DEF UserProgram, UserMode, TypeOK, SchedTypes, InTypes
<1>2. /\ Distinct /\ BlockedSites /\ TransmitSites /\ ~Blocked(curr_proc)
  BY <1>1, BlockedFacts
<1>3. /\ TtyFrame("read", t, n) \in Frames
      /\ TtyFrame("read", t, n).site = "read" /\ TtyFrame("read", t, n).tty = t
  BY FrameTypes DEF TtySites, TtyFrame
<1>4. /\ readQueue'[t] = Append(readQueue[t], curr_proc)
      /\ \A u \in Ttys \ {t} : readQueue'[u] = readQueue[u]
  BY <1>1
<1>5. Range(readQueue'[t]) = Range(readQueue[t]) \cup {curr_proc} /\ IsInjective(readQueue'[t])
  BY <1>1, <1>2, <1>4, EnqueueProperties DEF Distinct, Blocked
<1>6. \A p \in Pid : Blocked(p)' <=> (Blocked(p) \/ p = curr_proc)
  BY <1>1, <1>4, <1>5 DEF Blocked
<1>7. /\ IsInjective(runningQueue')
      /\ ReadySites' /\ CurrSite' /\ IdleSite' /\ ListedLive' /\ ~halted'
      /\ kstack'[curr_proc] = TtyFrame("read", t, n)
      /\ \A p \in Pid : Blocked(p) => kstack'[p] = kstack[p]
  BY <1>1, <1>3, <1>6, BlockStep
<1>8. Distinct'
  BY <1>1, <1>2, <1>4, <1>5, <1>7 DEF Distinct
<1>9. BlockedSites'
  BY <1>1, <1>2, <1>3, <1>4, <1>5, <1>7, StillSuspended DEF BlockedSites
<1>10. TransmitSites'
  BY <1>1, <1>2, <1>7, StillSuspended DEF TransmitSites, Blocked
<1> QED BY <1>7, <1>8, <1>9, <1>10 DEF PlaceInv

LEMMA WritePlaces ==
  ASSUME TypeOK, PlaceInv, NEW t \in Ttys, HandleTtyWrite(t)
  PROVE  PlaceInv'
<1>1. /\ ~halted /\ curr_proc \in Pid /\ UserProgram
      /\ UNCHANGED <<delay_queue, wait_queue, readQueue, pcb, halted>>
      /\ scheduleNextProcess(TtyFrame("write", t, 0))
      /\ writeQueue \in [Ttys -> Seq(Pid)] /\ writeReady \in [Ttys -> {-1, 1}]
      /\ transmitPCB \in [Ttys -> Pid \cup {NULL}] /\ transmitting \in [Ttys -> Nat]
  BY DEF HandleTtyWrite, UserProgram, UserMode, TypeOK, SchedTypes, OutTypes, inVars, procVars,
         timeVars
<1>2. /\ Distinct /\ BlockedSites /\ TransmitSites /\ ~Blocked(curr_proc)
  BY <1>1, BlockedFacts
<1>3. /\ TtyFrame("write", t, 0) \in Frames
      /\ TtyFrame("write", t, 0).site = "write" /\ TtyFrame("write", t, 0).tty = t
  BY FrameTypes, KernelAssumption DEF TtySites, TtyFrame
<1>4. CASE writeReady[t] = 1 /\ TtyTransmit(t, curr_proc) /\ UNCHANGED writeQueue
  <2>1. /\ transmitPCB'[t] = curr_proc /\ transmitting'[t] = 1 /\ writeReady'[t] = -1
        /\ transmitting[t] = 0
        /\ \A u \in Ttys \ {t} : /\ transmitPCB'[u] = transmitPCB[u]
                                 /\ transmitting'[u] = transmitting[u]
                                 /\ writeReady'[u] = writeReady[u]
    BY <1>1, <1>2, <1>4 DEF TtyTransmit, TransmitSites
  <2>2. \A p \in Pid : Blocked(p)' <=> (Blocked(p) \/ p = curr_proc)
    <3>1. \A p \in Pid, u \in Ttys :
            (transmitting'[u] > 0 /\ p = transmitPCB'[u])
              <=> (transmitting[u] > 0 /\ p = transmitPCB[u]) \/ (u = t /\ p = curr_proc)
      BY <2>1
    <3> QED BY <1>1, <1>4, <3>1 DEF Blocked
  <2>3. /\ IsInjective(runningQueue')
        /\ ReadySites' /\ CurrSite' /\ IdleSite' /\ ListedLive' /\ ~halted'
        /\ kstack'[curr_proc] = TtyFrame("write", t, 0)
        /\ \A p \in Pid : Blocked(p) => kstack'[p] = kstack[p]
    BY <1>1, <1>3, <2>2, BlockStep
  <2>4. Distinct'
    BY <1>1, <1>2, <1>4, <2>3 DEF Distinct
  <2>5. BlockedSites'
    BY <1>1, <1>2, <1>4, <2>3, StillSuspended DEF BlockedSites
  <2>6. TransmitSites'
    BY <1>1, <1>2, <1>3, <1>4, <2>1, <2>3, StillSuspended DEF TransmitSites, Blocked
  <2> QED BY <2>3, <2>4, <2>5, <2>6 DEF PlaceInv
<1>5. CASE /\ writeReady[t] # 1 /\ writeQueue' = [writeQueue EXCEPT ![t] = Append(@, curr_proc)]
           /\ UNCHANGED <<writeReady, transmitPCB, transmitting>>
  <2>1. /\ writeQueue'[t] = Append(writeQueue[t], curr_proc)
        /\ \A u \in Ttys \ {t} : writeQueue'[u] = writeQueue[u]
    BY <1>1, <1>5
  <2>2. Range(writeQueue'[t]) = Range(writeQueue[t]) \cup {curr_proc} /\ IsInjective(writeQueue'[t])
    BY <1>1, <1>2, <2>1, EnqueueProperties DEF Distinct, Blocked
  <2>3. \A p \in Pid : Blocked(p)' <=> (Blocked(p) \/ p = curr_proc)
    BY <1>1, <1>5, <2>1, <2>2 DEF Blocked
  <2>4. /\ IsInjective(runningQueue')
        /\ ReadySites' /\ CurrSite' /\ IdleSite' /\ ListedLive' /\ ~halted'
        /\ kstack'[curr_proc] = TtyFrame("write", t, 0)
        /\ \A p \in Pid : Blocked(p) => kstack'[p] = kstack[p]
    BY <1>1, <1>3, <2>3, BlockStep
  <2>5. Distinct'
    BY <1>1, <1>2, <1>5, <2>1, <2>2, <2>4 DEF Distinct
  <2>6. BlockedSites'
    BY <1>1, <1>2, <1>3, <1>5, <2>1, <2>2, <2>4, StillSuspended DEF BlockedSites
  <2>7. TransmitSites'
    BY <1>1, <1>2, <1>5, <2>1, <2>2, <2>4, StillSuspended DEF TransmitSites, Blocked
  <2> QED BY <2>4, <2>5, <2>6, <2>7 DEF PlaceInv
<1> QED BY <1>4, <1>5 DEF HandleTtyWrite

\* Nobody moves; the running process may return to user mode.
LEMMA StillStep ==
  ASSUME TypeOK, PlaceInv, ~halted, ReturnToUser \/ UNCHANGED kstack,
         UNCHANGED <<curr_proc, runningQueue, delay_queue, wait_queue, readQueue, writeQueue,
                     transmitPCB, transmitting, writeReady, pcb, halted>>
  PROVE  PlaceInv'
<1>1. /\ Distinct /\ BlockedSites /\ TransmitSites /\ ReadySites
      /\ CurrSite /\ IdleSite /\ ListedLive
      /\ ~Blocked(curr_proc) /\ curr_proc \notin Range(runningQueue)
  BY BlockedFacts
<1>2. \A p : Blocked(p)' <=> Blocked(p)
  BY DEF Blocked
<1>3. /\ \A p \in Pid \ {curr_proc} : kstack'[p] = kstack[p]
      /\ kstack'[curr_proc].site \in {kstack[curr_proc].site, "user"}
  BY DEF ReturnToUser, TypeOK, SchedTypes, User, Frame
<1>4. Distinct'
  BY <1>1 DEF Distinct
<1>5. BlockedSites'
  BY <1>1, <1>3, StillSuspended DEF BlockedSites
<1>6. TransmitSites'
  BY <1>1, <1>3, StillSuspended DEF TransmitSites
<1>7. ReadySites'
  BY <1>1, <1>2, <1>3, ListedPids DEF ReadySites
<1>8. CurrSite'
  BY <1>1, <1>2, <1>3 DEF CurrSite, Listed
<1>9. IdleSite'
  BY <1>1, <1>3, PidFacts DEF IdleSite
<1>10. ListedLive'
  BY <1>1, <1>2 DEF ListedLive, Listed, Live
<1> QED BY <1>4, <1>5, <1>6, <1>7, <1>8, <1>9, <1>10 DEF PlaceInv

LEMMA WaitPlaces == TypeOK /\ PlaceInv /\ (HandleWait \/ ResumeWait) => PlaceInv'
<1> SUFFICES ASSUME TypeOK, PlaceInv, HandleWait \/ ResumeWait PROVE PlaceInv'
  OBVIOUS
<1>1. UNCHANGED <<delay_queue, readQueue, writeQueue, transmitPCB, transmitting,
                  writeReady, pcb, halted>>
  BY DEF HandleWait, ResumeWait, timeVars, ttyVars, inVars, outVars
<1>2. ~halted
  BY DEF HandleWait, ResumeWait, UserProgram, UserMode, PlaceInv
<1>3. \/ /\ UserProgram /\ wait_queue' = Append(wait_queue, curr_proc)
         /\ scheduleNextProcess(Frame("wait"))
      \/ /\ UNCHANGED <<curr_proc, runningQueue, wait_queue>>
         /\ ReturnToUser \/ UNCHANGED kstack
  BY DEF HandleWait, ResumeWait, CollectChild
<1> QED BY <1>1, <1>2, <1>3, BlocksInWait, StillStep

LEMMA ReadPlaces ==
  ASSUME TypeOK, PlaceInv,
         ResumeRead \/ \E t \in Ttys, n \in 1..MaxLine : HandleTtyRead(t, n)
  PROVE  PlaceInv'
<1>1. UNCHANGED <<delay_queue, wait_queue, writeQueue, transmitPCB, transmitting,
                  writeReady, pcb, halted>>
  BY DEF HandleTtyRead, ResumeRead, timeVars, procVars, outVars
<1>2. ~halted
  BY DEF HandleTtyRead, ResumeRead, UserProgram, UserMode, PlaceInv
<1>3. CASE ResumeRead
  BY <1>1, <1>2, <1>3, StillStep DEF ResumeRead
<1>4. ASSUME NEW t \in Ttys, NEW n \in 1..MaxLine, HandleTtyRead(t, n) PROVE PlaceInv'
  <2>1. CASE readReady[t] = -1
    BY <1>1, <1>4, <2>1, BlocksInRead DEF HandleTtyRead
  <2>2. CASE readReady[t] # -1
    BY <1>1, <1>2, <1>4, <2>2, StillStep DEF HandleTtyRead
  <2> QED BY <2>1, <2>2
<1> QED BY <1>3, <1>4

\* The running process stays ready and q, which leaves its list or is new, runs.
LEMMA PreemptStep ==
  ASSUME TypeOK, PlaceInv, ~halted, NEW q \in Pid, q \notin {curr_proc, Idle},
         q \notin Range(runningQueue), kstack[q].site \in {"read", "write", "user"},
         NEW frame \in Frames, frame.site \in {"fork", "recv", "xmit"},
         curr_proc = Idle => frame.site # "fork",
         PreemptBy(q, frame), UNCHANGED halted,
         \A p \in Pid : Blocked(p)' <=> (Blocked(p) /\ p # q),
         \A p \in Pid : p \in Live' <=> p \in Live \cup {q}
  PROVE  /\ IsInjective(runningQueue')
         /\ ReadySites' /\ CurrSite' /\ IdleSite' /\ ListedLive' /\ ~halted'
         /\ \A p \in Pid \ {q} : Blocked(p) => kstack'[p] = kstack[p]
<1>1. curr_proc \in Pid /\ Idle \in Pid
  BY PidFacts DEF TypeOK, SchedTypes
<1>2. /\ Distinct /\ ReadySites /\ CurrSite /\ IdleSite /\ ListedLive
      /\ ~Blocked(curr_proc) /\ curr_proc \notin Range(runningQueue)
  BY BlockedFacts
<1>3. /\ curr_proc' = q /\ runningQueue' = Append(runningQueue, curr_proc)
      /\ kstack' = [kstack EXCEPT ![curr_proc] = frame, ![q] = Resumed(@)]
  BY DEF PreemptBy, SwitchTo
<1>4. /\ IsInjective(runningQueue')
      /\ Range(runningQueue') = Range(runningQueue) \cup {curr_proc}
  BY <1>1, <1>2, <1>3, EnqueueProperties DEF Distinct, TypeOK, SchedTypes
<1>5. \A p \in Pid : kstack'[p] = IF p = curr_proc THEN frame
                                  ELSE IF p = q THEN Resumed(kstack[p]) ELSE kstack[p]
  BY <1>1, <1>3 DEF TypeOK, SchedTypes
<1>6. \A p \in Pid \ {q} : Blocked(p) => kstack'[p] = kstack[p]
  BY <1>2, <1>5
<1>7. ReadySites'
  BY <1>1, <1>2, <1>4, <1>5, ListedPids DEF ReadySites
<1>8. kstack'[q].site \in {"user", "read"}
  <2>1. kstack[q] \in Frames
    BY DEF TypeOK, SchedTypes
  <2> QED BY <1>5, <2>1, ResumedSites DEF Returning
<1>9. CurrSite'
  BY <1>3, <1>4, <1>8 DEF CurrSite, Listed
<1>10. IdleSite'
  BY <1>1, <1>2, <1>3, <1>5 DEF IdleSite
<1>11. ListedLive'
  <2>1. \A p \in Pid : Listed(p)' <=> (Listed(p) /\ p # q) \/ p = curr_proc
    BY <1>2, <1>4 DEF Listed
  <2>2. /\ Idle \in Live /\ \A p \in Pid : Listed(p) \/ p = curr_proc => p \in Live
        /\ \A p \in Live \ {curr_proc, Idle} : Listed(p)
    BY <1>2 DEF ListedLive
  <2>3. Live' \subseteq Pid /\ Live \subseteq Pid
    BY DEF Live
  <2> QED BY <1>1, <1>3, <2>1, <2>2, <2>3 DEF ListedLive
<1> QED BY <1>4, <1>6, <1>7, <1>9, <1>10, <1>11

LEMMA ForkPlaces ==
  ASSUME TypeOK, PlaceInv, ProcessInv, HandleFork
  PROVE  PlaceInv'
<1> DEFINE child == pid_counter
<1>1. /\ UNCHANGED <<delay_queue, wait_queue, readQueue, writeQueue, transmitPCB,
                     transmitting, writeReady, halted>>
      /\ ~halted /\ curr_proc # Idle /\ curr_proc \in Pid
      /\ child \in Pid /\ child >= 2 /\ child \in Nat
  BY KernelAssumption
     DEF HandleFork, timeVars, ttyVars, inVars, outVars, UserProgram, UserMode,
         TypeOK, ProcTypes, SchedTypes, Pid
<1>2. /\ Distinct /\ BlockedSites /\ TransmitSites /\ ReadySites /\ ListedLive /\ CurrSite
      /\ IdleSite
  BY <1>1, BlockedFacts
<1>3. \A p : Blocked(p)' <=> Blocked(p)
  BY <1>1 DEF Blocked
<1>4. child \notin Live /\ kstack[child] = User /\ child # Idle
  BY <1>1 DEF ProcessInv, Live, Idle
<1>5. ~Listed(child) /\ child # curr_proc
  BY <1>1, <1>2, <1>4 DEF ListedLive
<1>6. CASE ForkWithoutPCB
  BY <1>1, <1>6, StillStep DEF ForkWithoutPCB
<1>7. CASE ForkWithoutFrames(child)
  <2>1. \A p \in Pid : p \in Live' <=> p \in Live
    BY <1>1, <1>4, <1>7 DEF ForkWithoutFrames, Live, TypeOK, ProcTypes
  <2>2. UNCHANGED <<curr_proc, runningQueue, kstack>>
    BY <1>7 DEF ForkWithoutFrames
  <2>3. Live' = Live
    BY <2>1 DEF Live
  <2>4. \A p : Listed(p)' <=> Listed(p)
    BY <1>3, <2>2 DEF Listed
  <2>5. ListedLive'
    BY <1>2, <2>2, <2>3, <2>4 DEF ListedLive
  <2>6. Distinct' /\ BlockedSites' /\ TransmitSites' /\ IdleSite'
    BY <1>1, <1>2, <2>2 DEF Distinct, BlockedSites, TransmitSites, IdleSite
  <2>7. ReadySites' /\ CurrSite'
    BY <1>2, <1>3, <2>2, <2>4 DEF ReadySites, CurrSite
  <2> QED BY <1>1, <2>5, <2>6, <2>7 DEF PlaceInv
<1>8. CASE ForkCopies(child)
  <2>1. PreemptBy(child, Frame("fork"))
    BY <1>8 DEF ForkCopies
  <2>2. \A p \in Pid : p \in Live' <=> p \in Live \cup {child}
    BY <1>1, <1>8 DEF ForkCopies, Live, TypeOK, ProcTypes
  <2>3. Frame("fork") \in Frames /\ Frame("fork").site = "fork" /\ User.site = "user"
    BY FrameTypes DEF Sites, Returning, TtySites, Frame, User
  <2>4. \A p \in Pid : Blocked(p)' <=> (Blocked(p) /\ p # child)
    BY <1>3, <1>5 DEF Listed
  <2>5. /\ IsInjective(runningQueue')
        /\ ReadySites' /\ CurrSite' /\ IdleSite' /\ ListedLive' /\ ~halted'
        /\ \A p \in Pid \ {child} : Blocked(p) => kstack'[p] = kstack[p]
    BY <1>1, <1>4, <1>5, <2>1, <2>2, <2>3, <2>4, PreemptStep DEF Listed
  <2>6. \A p \in Pid : Blocked(p) => kstack'[p] = kstack[p]
    BY <1>5, <2>5 DEF Listed
  <2>7. Distinct'
    BY <1>1, <1>2, <2>5 DEF Distinct
  <2>8. BlockedSites'
    BY <1>1, <1>2, <2>6, StillSuspended DEF BlockedSites
  <2>9. TransmitSites'
    BY <1>1, <1>2, <2>6, StillSuspended DEF TransmitSites
  <2> QED BY <2>5, <2>7, <2>8, <2>9 DEF PlaceInv
<1> QED BY <1>6, <1>7, <1>8 DEF HandleFork

\* One round of TrapReceiveHandler's loop.
LEMMA LoopPlaces ==
  ASSUME TypeOK, PlaceInv, ~halted, NEW t \in Ttys, NEW ready, ReceiveLoop(t, ready),
         UNCHANGED <<delay_queue, wait_queue, writeQueue, transmitPCB, transmitting,
                     writeReady, pcb, halted>>
  PROVE  PlaceInv'
<1>1. CASE ReturnToUser /\ UNCHANGED <<curr_proc, runningQueue, readQueue>>
  BY <1>1, StillStep
<1>2. CASE readQueue[t] # <<>> /\ ServeReader(t)
  <2> DEFINE q == Head(readQueue[t])
  <2>1. /\ Distinct /\ BlockedSites /\ TransmitSites /\ ReadySites /\ CurrSite
        /\ ~Blocked(Idle) /\ ~Blocked(curr_proc)
    BY BlockedFacts
  <2>2. /\ readQueue'[t] = Tail(readQueue[t])
        /\ \A u \in Ttys \ {t} : readQueue'[u] = readQueue[u]
        /\ PreemptBy(q, TtyFrame("recv", t, 0))
    BY <1>2 DEF ServeReader, TypeOK, InTypes
  <2>3. /\ q \in Pid /\ q \in Range(readQueue[t])
        /\ IsInjective(readQueue'[t]) /\ Range(readQueue'[t]) = Range(readQueue[t]) \ {q}
    BY <1>2, <2>1, <2>2, DequeueProperties DEF TypeOK, InTypes, Distinct
  <2> HIDE DEF q
  <2>4. Blocked(q) /\ q \notin {curr_proc, Idle} /\ q \notin Range(runningQueue)
    BY <2>1, <2>3 DEF Blocked, ReadySites
  <2>5. /\ kstack[q].site = "read" /\ kstack[q].tty = t
        /\ q \notin Range(delay_queue) /\ q \notin Range(wait_queue)
        /\ \A u \in Ttys \ {t} : q \notin Range(readQueue[u])
        /\ \A u \in Ttys : q \notin Range(writeQueue[u])
        /\ \A u \in Ttys : transmitting[u] > 0 => transmitPCB[u] # q
    BY <2>1, <2>3 DEF BlockedSites, TransmitSites
  <2>6. \A p \in Pid : Blocked(p)' <=> (Blocked(p) /\ p # q)
    <3>1. \A p \in Pid, u \in Ttys :
            p \in Range(readQueue'[u]) <=> p \in Range(readQueue[u]) /\ p # q
      BY <2>2, <2>3, <2>5
    <3> QED BY <2>5, <3>1 DEF Blocked
  <2>7. TtyFrame("recv", t, 0) \in Frames /\ TtyFrame("recv", t, 0).site = "recv"
    BY FrameTypes, KernelAssumption DEF TtySites, TtyFrame
  <2>8. \A p \in Pid : p \in Live' <=> p \in Live \cup {q}
    BY <2>3, <2>4, BlockedFacts DEF ListedLive, Listed, Live
  <2>9. /\ IsInjective(runningQueue')
        /\ ReadySites' /\ CurrSite' /\ IdleSite' /\ ListedLive' /\ ~halted'
        /\ \A p \in Pid \ {q} : Blocked(p) => kstack'[p] = kstack[p]
    BY <2>2, <2>3, <2>4, <2>5, <2>6, <2>7, <2>8, PreemptStep
  <2>10. Distinct'
    BY <2>1, <2>2, <2>3, <2>9 DEF Distinct
  <2>11. BlockedSites'
    BY <2>1, <2>2, <2>3, <2>5, <2>9, SuspendedButMoved DEF BlockedSites
  <2>12. TransmitSites'
    BY <2>1, <2>5, <2>9, SuspendedButMoved DEF TransmitSites
  <2> QED BY <2>9, <2>10, <2>11, <2>12 DEF PlaceInv
<1> QED BY <1>1, <1>2 DEF ReceiveLoop

LEMMA ReceivePlaces ==
  ASSUME TypeOK, PlaceInv,
         ResumeReceive \/ \E t \in Ttys, n \in 0..MaxLine : TrapReceiveHandler(t, n)
  PROVE  PlaceInv'
<1>1. UNCHANGED <<delay_queue, wait_queue, writeQueue, transmitPCB, transmitting,
                  writeReady, pcb, halted>>
  BY DEF TrapReceiveHandler, ResumeReceive, timeVars, procVars, outVars
<1>2. ~halted
  BY DEF TrapReceiveHandler, ResumeReceive, UserMode, PlaceInv
<1>3. \E t \in Ttys, ready \in {-1, 1} : ReceiveLoop(t, ready)
  <2>1. CASE ResumeReceive
    <3>1. kstack[curr_proc].tty \in Ttys
      BY <2>1, FrameTypes DEF TypeOK, SchedTypes, ResumeReceive, TtySites
    <3> QED BY <2>1, <3>1 DEF ResumeReceive, TypeOK, InTypes
  <2>2. CASE \E t \in Ttys, n \in 0..MaxLine : TrapReceiveHandler(t, n)
    BY <2>2 DEF TrapReceiveHandler
  <2> QED BY <2>1, <2>2
<1> QED BY <1>1, <1>2, <1>3, LoopPlaces

LEMMA TransmittedPlaces ==
  ASSUME TypeOK, PlaceInv, NEW t \in Ttys, TrapTransmitHandler(t)
  PROVE  PlaceInv'
<1> DEFINE q == transmitPCB[t]
<1>1. /\ ~halted /\ transmitting[t] > 0 /\ q \in Pid
      /\ UNCHANGED <<delay_queue, wait_queue, readQueue, writeQueue, transmitPCB, pcb, halted>>
      /\ PreemptBy(q, TtyFrame("xmit", t, 0))
      /\ transmitting \in [Ttys -> Nat]
  BY ListedPids DEF TrapTransmitHandler, UserMode, timeVars, procVars, inVars, TypeOK, OutTypes
<1>2. /\ Distinct /\ BlockedSites /\ TransmitSites /\ ReadySites /\ CurrSite
      /\ ~Blocked(Idle) /\ ~Blocked(curr_proc)
  BY <1>1, BlockedFacts
<1>3. /\ transmitting[t] = 1 /\ transmitting'[t] = 0 /\ writeReady'[t] = 1
      /\ \A u \in Ttys \ {t} : transmitting'[u] = transmitting[u] /\ writeReady'[u] = writeReady[u]
  BY <1>1, <1>2 DEF TrapTransmitHandler, TransmitSites, TypeOK, OutTypes
<1> HIDE DEF q
<1>4. Blocked(q) /\ q \notin {curr_proc, Idle} /\ q \notin Range(runningQueue)
  BY <1>1, <1>2 DEF Blocked, ReadySites, q
<1>5. /\ kstack[q].site = "write" /\ kstack[q].tty = t
      /\ q \notin Range(delay_queue) /\ q \notin Range(wait_queue)
      /\ \A u \in Ttys : q \notin Range(readQueue[u]) /\ q \notin Range(writeQueue[u])
      /\ \A u \in Ttys \ {t} : transmitting[u] > 0 => transmitPCB[u] # q
  <2>1. kstack[q].site = "write" /\ kstack[q].tty = t /\ q \notin Range(writeQueue[t])
    BY <1>1, <1>2 DEF TransmitSites, q
  <2> QED BY <1>2, <2>1 DEF BlockedSites, TransmitSites
<1>6. \A p \in Pid : Blocked(p)' <=> (Blocked(p) /\ p # q)
  <2>1. \A p \in Pid, u \in Ttys :
          (transmitting'[u] > 0 /\ p = transmitPCB'[u])
            <=> (transmitting[u] > 0 /\ p = transmitPCB[u] /\ p # q)
    BY <1>1, <1>3, <1>5 DEF q
  <2> QED BY <1>1, <1>5, <2>1 DEF Blocked
<1>7. TtyFrame("xmit", t, 0) \in Frames /\ TtyFrame("xmit", t, 0).site = "xmit"
  BY FrameTypes, KernelAssumption DEF TtySites, TtyFrame
<1>8. \A p \in Pid : p \in Live' <=> p \in Live \cup {q}
  BY <1>1, <1>4, BlockedFacts DEF ListedLive, Listed, Live
<1>9. /\ IsInjective(runningQueue')
      /\ ReadySites' /\ CurrSite' /\ IdleSite' /\ ListedLive' /\ ~halted'
      /\ \A p \in Pid \ {q} : Blocked(p) => kstack'[p] = kstack[p]
  BY <1>1, <1>4, <1>5, <1>6, <1>7, <1>8, PreemptStep
<1>10. Distinct'
  BY <1>1, <1>2, <1>9 DEF Distinct
<1>11. BlockedSites'
  BY <1>1, <1>2, <1>5, <1>9, SuspendedButMoved DEF BlockedSites
<1>12. TransmitSites'
  BY <1>1, <1>2, <1>3, <1>5, <1>9, SuspendedButMoved DEF TransmitSites
<1> QED BY <1>9, <1>10, <1>11, <1>12 DEF PlaceInv

\* Nobody leaves or joins the blocked or the ready; what is left to show is
\* which of its lists each blocked process is in.
LEMMA SameBlocked ==
  ASSUME TypeOK, PlaceInv, ~halted, ReturnToUser, UNCHANGED <<curr_proc, runningQueue, pcb>>,
         \A p \in Pid : Blocked(p)' <=> Blocked(p)
  PROVE  /\ ReadySites' /\ CurrSite' /\ IdleSite' /\ ListedLive'
         /\ \A p \in Pid : Blocked(p) => kstack'[p] = kstack[p]
<1>1. /\ ReadySites /\ CurrSite /\ IdleSite /\ ListedLive
      /\ ~Blocked(curr_proc) /\ curr_proc \notin Range(runningQueue)
      /\ curr_proc \in Pid /\ Range(runningQueue) \subseteq Pid
  BY BlockedFacts, ListedPids DEF TypeOK, SchedTypes
<1>2. /\ \A p \in Pid \ {curr_proc} : kstack'[p] = kstack[p]
      /\ kstack'[curr_proc].site = "user"
  BY DEF ReturnToUser, TypeOK, SchedTypes, User, Frame
<1>3. ReadySites'
  BY <1>1, <1>2 DEF ReadySites
<1>4. CurrSite'
  BY <1>1, <1>2 DEF CurrSite, Listed
<1>5. IdleSite'
  BY <1>1, <1>2, PidFacts DEF IdleSite
<1>6. ListedLive'
  BY <1>1 DEF ListedLive, Listed, Live
<1> QED BY <1>1, <1>2, <1>3, <1>4, <1>5, <1>6

LEMMA ResumeTransmitPlaces == TypeOK /\ PlaceInv /\ ResumeTransmit => PlaceInv'
<1> SUFFICES ASSUME TypeOK, PlaceInv, ResumeTransmit PROVE PlaceInv'
  OBVIOUS
<1> DEFINE t == kstack[curr_proc].tty
           q == Head(writeQueue[t])
<1>1. /\ ~halted /\ ReturnToUser /\ t \in Ttys
      /\ UNCHANGED <<curr_proc, runningQueue, delay_queue, wait_queue, readQueue, pcb, halted>>
  BY FrameTypes DEF ResumeTransmit, PlaceInv, timeVars, procVars, inVars, TypeOK, SchedTypes,
                    TtySites
<1>2. CASE ~NextMayTransmit(t)
  BY <1>1, <1>2, StillStep DEF ResumeTransmit, outVars
<1>3. CASE NextMayTransmit(t)
  <2>1. Distinct /\ BlockedSites /\ TransmitSites
    BY <1>1, BlockedFacts
  <2>2. /\ writeQueue[t] # <<>> /\ writeReady[t] = 1 /\ transmitting[t] = 0
        /\ writeQueue'[t] = Tail(writeQueue[t])
        /\ transmitPCB'[t] = q /\ transmitting'[t] = 1 /\ writeReady'[t] = -1
        /\ \A u \in Ttys \ {t} : /\ writeQueue'[u] = writeQueue[u]
                                 /\ transmitPCB'[u] = transmitPCB[u]
                                 /\ transmitting'[u] = transmitting[u]
                                 /\ writeReady'[u] = writeReady[u]
    BY <1>1, <1>3, <2>1
       DEF NextMayTransmit, ResumeTransmit, TransmitNext, TtyTransmit, TransmitSites,
           TypeOK, OutTypes
  <2>3. /\ q \in Pid /\ q \in Range(writeQueue[t])
        /\ IsInjective(writeQueue'[t]) /\ Range(writeQueue'[t]) = Range(writeQueue[t]) \ {q}
    BY <1>1, <2>1, <2>2, DequeueProperties DEF TypeOK, OutTypes, Distinct
  <2> HIDE DEF t, q
  <2>4. \A p \in Pid : Blocked(p)' <=> Blocked(p)
    <3>1. \A p \in Pid, u \in Ttys :
            p \in Range(writeQueue'[u]) \/ (transmitting'[u] > 0 /\ p = transmitPCB'[u])
              <=> p \in Range(writeQueue[u]) \/ (transmitting[u] > 0 /\ p = transmitPCB[u])
      BY <2>2, <2>3
    <3> QED BY <1>1, <3>1 DEF Blocked
  <2>5. /\ ReadySites' /\ CurrSite' /\ IdleSite' /\ ListedLive'
        /\ \A p \in Pid : Blocked(p) => kstack'[p] = kstack[p]
    BY <1>1, <2>4, SameBlocked
  <2>6. Distinct'
    BY <1>1, <2>1, <2>2, <2>3 DEF Distinct
  <2>7. BlockedSites'
    BY <1>1, <2>1, <2>2, <2>3, <2>5, StillSuspended DEF BlockedSites
  <2>8. TransmitSites'
    BY <1>1, <2>1, <2>2, <2>3, <2>5, StillSuspended DEF TransmitSites
  <2> QED BY <1>1, <2>5, <2>6, <2>7, <2>8 DEF PlaceInv
<1> QED BY <1>2, <1>3

\* The processes whose delay is over move from delay_queue to the ready queue.
LEMMA TickSets ==
  ASSUME TypeOK, PlaceInv, ~halted, delay_queue' = Keep(delay_queue, Range(delay_queue) \ Expired),
         UNCHANGED <<wait_queue, readQueue, writeQueue, transmitPCB, transmitting>>
  PROVE  /\ ReadyAtTick \in Seq(Pid) /\ IsInjective(ReadyAtTick)
         /\ Range(ReadyAtTick) = Range(runningQueue) \cup Expired
         /\ IsInjective(delay_queue') /\ Range(delay_queue') = Range(delay_queue) \ Expired
         /\ Expired \subseteq Range(delay_queue)
         /\ \A p \in Pid : Blocked(p)' <=> (Blocked(p) /\ p \notin Expired)
<1>1. /\ Distinct /\ ReadySites /\ BlockedSites /\ TransmitSites
      /\ runningQueue \in Seq(Pid) /\ delay_queue \in Seq(Pid)
  BY BlockedFacts DEF TypeOK, SchedTypes, TimeTypes
<1>2. Expired \subseteq Range(delay_queue)
  BY DEF Expired
<1>3. /\ Keep(delay_queue, Expired) \in Seq(Pid) /\ IsInjective(Keep(delay_queue, Expired))
      /\ Range(Keep(delay_queue, Expired)) = Expired
  <2>1. Range(delay_queue) \cap Expired = Expired
    BY <1>2
  <2> QED BY <1>1, <2>1, KeepProperties DEF Distinct
<1>4. IsInjective(delay_queue') /\ Range(delay_queue') = Range(delay_queue) \ Expired
  <2> DEFINE rest == Range(delay_queue) \ Expired
  <2>1. /\ IsInjective(Keep(delay_queue, rest))
        /\ Range(Keep(delay_queue, rest)) = Range(delay_queue) \cap rest
    <3> HIDE DEF rest
    <3> QED BY <1>1, KeepProperties DEF Distinct
  <2>2. Range(delay_queue) \cap rest = rest
    OBVIOUS
  <2> QED BY <2>1, <2>2
<1>5. Range(runningQueue) \cap Expired = {}
  BY <1>1, <1>2 DEF ReadySites, Blocked
<1>6. /\ ReadyAtTick \in Seq(Pid) /\ IsInjective(ReadyAtTick)
      /\ Range(ReadyAtTick) = Range(runningQueue) \cup Expired
  BY <1>1, <1>3, <1>5, ConcatInjective, ConcatProperties, RangeConcatenation DEF ReadyAtTick, Distinct
<1>7. \A p \in Expired :
        /\ p \notin Range(wait_queue)
        /\ \A t \in Ttys : /\ p \notin Range(readQueue[t]) /\ p \notin Range(writeQueue[t])
                           /\ transmitting[t] > 0 => p # transmitPCB[t]
  BY <1>1, <1>2 DEF BlockedSites, TransmitSites
<1>8. ASSUME NEW p \in Pid PROVE Blocked(p)' <=> (Blocked(p) /\ p \notin Expired)
  <2>1. CASE p \in Expired
    BY <1>4, <1>7, <2>1 DEF Blocked
  <2>2. CASE p \notin Expired
    BY <1>4, <2>2 DEF Blocked
  <2> QED BY <2>1, <2>2
<1> QED BY <1>2, <1>4, <1>6, <1>8

LEMMA ClockPlaces == TypeOK /\ PlaceInv /\ TrapClockHandler => PlaceInv'
<1> SUFFICES ASSUME TypeOK, PlaceInv, TrapClockHandler PROVE PlaceInv'
  OBVIOUS
<1>1. /\ ~halted /\ kstack[curr_proc].site = "user" /\ curr_proc \in Pid /\ Idle \in Pid
      /\ delay_queue' = Keep(delay_queue, Range(delay_queue) \ Expired)
      /\ UNCHANGED <<wait_queue, readQueue, writeQueue, transmitPCB, transmitting,
                     writeReady, pcb, halted>>
  BY PidFacts DEF TrapClockHandler, UserMode, procVars, ttyVars, inVars, outVars, TypeOK, SchedTypes
<1>2. /\ Distinct /\ BlockedSites /\ TransmitSites /\ ReadySites
      /\ CurrSite /\ IdleSite /\ ListedLive
      /\ ~Blocked(Idle) /\ ~Blocked(curr_proc) /\ curr_proc \notin Range(runningQueue)
  BY <1>1, BlockedFacts
<1>3. /\ ReadyAtTick \in Seq(Pid) /\ IsInjective(ReadyAtTick)
      /\ Range(ReadyAtTick) = Range(runningQueue) \cup Expired
      /\ IsInjective(delay_queue') /\ Range(delay_queue') = Range(delay_queue) \ Expired
      /\ Expired \subseteq Range(delay_queue)
      /\ \A p \in Pid : Blocked(p)' <=> (Blocked(p) /\ p \notin Expired)
  BY <1>1, TickSets
<1>4. /\ \A p \in Expired : Blocked(p) /\ kstack[p].site = "delay"
      /\ Range(ReadyAtTick) \subseteq Pid
  BY <1>2, <1>3, ListedPids DEF Blocked, BlockedSites
<1>5. \A p \in Range(ReadyAtTick) :
        /\ kstack[p].site \in {"fork", "clock", "delay", "wait", "recv", "xmit"}
        /\ ~Blocked(p)'
  BY <1>2, <1>3, <1>4 DEF ReadySites
<1>6. curr_proc \notin Range(ReadyAtTick)
  BY <1>2, <1>3, <1>4
<1>7. \A p \in Pid : Listed(p) <=> p \in Range(ReadyAtTick) \/ Blocked(p)'
  BY <1>3, <1>4 DEF Listed
<1>8. CASE ~ (SliceOver /\ ReadyAtTick # <<>>)
  <2>1. runningQueue' = ReadyAtTick /\ UNCHANGED <<curr_proc, kstack>>
    BY <1>8 DEF TrapClockHandler
  <2>2. Distinct'
    BY <1>1, <1>2, <1>3, <2>1 DEF Distinct
  <2>3. BlockedSites'
    BY <1>1, <1>2, <1>3, <2>1 DEF BlockedSites
  <2>4. TransmitSites'
    BY <1>1, <1>2, <2>1 DEF TransmitSites
  <2>5. ReadySites'
    BY <1>5, <2>1 DEF ReadySites
  <2>6. CurrSite'
    BY <1>1, <1>2, <1>3, <1>6, <2>1 DEF CurrSite, Listed
  <2>7. IdleSite'
    BY <1>2, <2>1 DEF IdleSite
  <2>8. ListedLive'
    <3>1. \A p \in Pid : Listed(p)' <=> Listed(p)
      BY <1>7, <2>1 DEF Listed
    <3>2. Live' = Live /\ Live \subseteq Pid
      BY <1>1 DEF Live
    <3> QED BY <1>2, <2>1, <3>1, <3>2 DEF ListedLive
  <2> QED BY <1>1, <2>2, <2>3, <2>4, <2>5, <2>6, <2>7, <2>8 DEF PlaceInv
<1>9. CASE SliceOver /\ ReadyAtTick # <<>>
  <2> DEFINE q == Head(ReadyAtTick)
  <2>1. /\ q \in Pid /\ q \in Range(ReadyAtTick) /\ Tail(ReadyAtTick) \in Seq(Pid)
        /\ IsInjective(Tail(ReadyAtTick))
        /\ Range(Tail(ReadyAtTick)) = Range(ReadyAtTick) \ {q}
    BY <1>3, <1>9, DequeueProperties
  <2>2. /\ curr_proc' = q /\ runningQueue' = Requeue(Tail(ReadyAtTick))
        /\ kstack' = [kstack EXCEPT ![curr_proc] = Frame("clock"), ![q] = Resumed(@)]
    BY <1>9 DEF TrapClockHandler, SwitchTo
  <2> HIDE DEF q
  <2>3. /\ IsInjective(runningQueue')
        /\ Range(runningQueue') =
              (Range(ReadyAtTick) \ {q}) \cup (IF curr_proc # Idle THEN {curr_proc} ELSE {})
    BY <1>1, <1>6, <2>1, <2>2, EnqueueProperties DEF Requeue
  <2>4. q # curr_proc
    BY <1>6, <2>1
  <2>5. \A p \in Pid : kstack'[p] = IF p = curr_proc THEN Frame("clock")
                                    ELSE IF p = q THEN Resumed(kstack[p]) ELSE kstack[p]
    BY <1>1, <2>1, <2>2, <2>4 DEF TypeOK, SchedTypes
  <2>6. Frame("clock").site = "clock"
    BY DEF Frame
  <2>7. kstack'[q].site \in {"user", "wait", "recv", "xmit"}
    <3>1. kstack[q] \in Frames
      BY <2>1 DEF TypeOK, SchedTypes
    <3> QED BY <1>5, <2>1, <2>4, <2>5, <3>1, ResumedSites DEF Returning
  <2>8. \A p \in Pid : Blocked(p)' => Blocked(p) /\ kstack'[p] = kstack[p]
    BY <1>2, <1>3, <1>5, <2>1, <2>5
  <2>9. Distinct'
    BY <1>1, <1>2, <1>3, <2>3 DEF Distinct
  <2>10. BlockedSites'
    <3>1. \A p \in Range(delay_queue') \cup Range(wait_queue') : kstack'[p] = kstack[p]
      BY <1>1, <1>3, <2>8, ListedPids DEF Blocked
    <3>2. \A t \in Ttys : \A p \in Range(readQueue[t]) \cup Range(writeQueue[t]) :
            kstack'[p] = kstack[p]
      BY <1>1, <2>8, ListedPids DEF Blocked
    <3>3. \A p \in Range(delay_queue') : p \in Range(delay_queue)
      BY <1>3
    <3>4. \A p \in Range(delay_queue') : kstack'[p].site = "delay"
      BY <1>2, <3>1, <3>3 DEF BlockedSites
    <3>5. \A p \in Range(wait_queue') : kstack'[p].site = "wait"
      BY <1>1, <1>2, <3>1 DEF BlockedSites
    <3>6. \A t \in Ttys :
            /\ \A p \in Range(readQueue[t]) : kstack'[p].site = "read" /\ kstack'[p].tty = t
            /\ \A p \in Range(writeQueue[t]) : kstack'[p].site = "write" /\ kstack'[p].tty = t
      BY <1>2, <3>2 DEF BlockedSites
    <3> QED BY <1>1, <3>4, <3>5, <3>6 DEF BlockedSites
  <2>11. TransmitSites'
    <3>1. \A t \in Ttys : transmitting[t] > 0 =>
            kstack'[transmitPCB[t]] = kstack[transmitPCB[t]]
      BY <1>1, <2>8, ListedPids DEF Blocked
    <3> QED BY <1>1, <1>2, <3>1 DEF TransmitSites
  <2>12. ReadySites'
    BY <1>1, <1>2, <1>3, <1>4, <1>5, <2>3, <2>5, <2>6 DEF ReadySites
  <2>13. CurrSite'
    BY <1>5, <2>1, <2>2, <2>3, <2>4, <2>7 DEF CurrSite, Listed
  <2>14. IdleSite'
    BY <1>1, <1>2, <2>2, <2>5, <2>6 DEF IdleSite
  <2>15. ListedLive'
    <3>1. \A p \in Pid :
            Listed(p)' <=> (Listed(p) /\ p # q) \/ (p = curr_proc /\ curr_proc # Idle)
      BY <1>5, <1>7, <2>1, <2>3 DEF Listed
    <3>2. Live' = Live /\ Live \subseteq Pid
      BY <1>1 DEF Live
    <3>3. q \in Live
      BY <1>2, <1>7, <2>1 DEF ListedLive
    <3> QED BY <1>2, <2>2, <3>1, <3>2, <3>3 DEF ListedLive
  <2> QED BY <1>1, <2>9, <2>10, <2>11, <2>12, <2>13, <2>14, <2>15 DEF PlaceInv
<1> QED BY <1>8, <1>9

\* The ready queue once a terminating process has told its parent.
LEMMA ExitSets ==
  ASSUME TypeOK, PlaceInv, UserProgram, wait_queue' = WaitersAfterExit,
         UNCHANGED <<delay_queue, readQueue, writeQueue, transmitPCB, transmitting>>
  PROVE  LET woken == IF WakesParent THEN parent[curr_proc] ELSE NULL IN
         /\ ReadyAfterExit \in Seq(Pid) /\ IsInjective(ReadyAfterExit)
         /\ \A p : p \in Range(ReadyAfterExit) <=> p \in Range(runningQueue) \/ (WakesParent /\ p = woken)
         /\ IsInjective(wait_queue')
         /\ \A p \in Pid : p \in Range(wait_queue') <=> p \in Range(wait_queue) /\ p # woken
         /\ Range(wait_queue') \subseteq Pid
         /\ WakesParent => woken \in Range(wait_queue) /\ kstack[woken].site = "wait"
         /\ \A p \in Pid : Blocked(p)' <=> (Blocked(p) /\ p # woken)
<1> DEFINE dad == parent[curr_proc]
           woken == IF WakesParent THEN dad ELSE NULL
<1>1. /\ ~halted /\ curr_proc \in Pid /\ runningQueue \in Seq(Pid) /\ wait_queue \in Seq(Pid)
      /\ dad \in Pid \cup {NULL} /\ NULL \notin Pid
  BY PidFacts DEF UserProgram, UserMode, TypeOK, SchedTypes, ProcTypes
<1>2. /\ Distinct /\ ReadySites /\ BlockedSites /\ TransmitSites
      /\ Range(wait_queue) \subseteq Pid
  BY <1>1, BlockedFacts, ListedPids
<1>3. /\ IsInjective(wait_queue') /\ Range(wait_queue') = Range(wait_queue) \ {dad}
  BY <1>1, <1>2, SearchAndRemoveProperties DEF WaitersAfterExit, Distinct
<1>4. WakesParent <=> dad \in Range(wait_queue)
  BY <1>1, <1>2 DEF WakesParent
<1>5. WakesParent => dad \notin Range(runningQueue) /\ kstack[dad].site = "wait" /\ dad \in Pid
  BY <1>2, <1>4 DEF ReadySites, Blocked, BlockedSites
<1>6. /\ ReadyAfterExit \in Seq(Pid) /\ IsInjective(ReadyAfterExit)
      /\ \A p : p \in Range(ReadyAfterExit) <=> p \in Range(runningQueue) \/ (WakesParent /\ p = dad)
  <2>1. CASE WakesParent
    BY <1>1, <1>2, <1>5, <2>1, EnqueueProperties DEF ReadyAfterExit, Distinct
  <2>2. CASE ~WakesParent
    BY <1>1, <1>2, <2>2 DEF ReadyAfterExit, Distinct
  <2> QED BY <2>1, <2>2
<1>7. \A p \in Pid : p \in Range(wait_queue') <=> p \in Range(wait_queue) /\ p # woken
  BY <1>1, <1>3, <1>4
<1>8. ASSUME NEW p \in Pid PROVE Blocked(p)' <=> (Blocked(p) /\ p # woken)
  <2>1. CASE WakesParent /\ p = dad
    <3>1. /\ p \notin Range(delay_queue) /\ p \notin Range(wait_queue')
          /\ \A t \in Ttys : p \notin Range(readQueue[t]) /\ p \notin Range(writeQueue[t])
          /\ \A t \in Ttys : transmitting[t] > 0 => p # transmitPCB[t]
      BY <1>2, <1>5, <1>7, <2>1 DEF BlockedSites, TransmitSites
    <3> QED BY <2>1, <3>1 DEF Blocked
  <2>2. CASE ~ (WakesParent /\ p = dad)
    <3>1. p # woken
      BY <1>1, <2>2
    <3> QED BY <1>7, <3>1 DEF Blocked
  <2> QED BY <2>1, <2>2
<1> QED BY <1>2, <1>3, <1>4, <1>5, <1>6, <1>7, <1>8

LEMMA TerminatePlaces ==
  ASSUME TypeOK, PlaceInv, UserProgram, NEW status, TerminateProcess(status)
  PROVE  PlaceInv'
<1> DEFINE woken == IF WakesParent THEN parent[curr_proc] ELSE NULL
<1>0. PICK q : q = NextReady(ReadyAfterExit)
  OBVIOUS
<1>1. /\ ~halted /\ curr_proc # Idle /\ kstack[curr_proc].site = "user"
      /\ curr_proc \in Pid /\ Idle \in Pid /\ NULL \notin Pid
      /\ UNCHANGED <<delay_queue, readQueue, writeQueue, transmitPCB, transmitting, writeReady>>
      /\ wait_queue' = WaitersAfterExit /\ runningQueue' = AfterNext(ReadyAfterExit)
  BY PidFacts DEF UserProgram, UserMode, TypeOK, SchedTypes, TerminateProcess, notifyParent,
                  timeVars, ttyVars, inVars, outVars
<1>2. /\ Distinct /\ BlockedSites /\ TransmitSites /\ ReadySites
      /\ CurrSite /\ IdleSite /\ ListedLive
      /\ ~Blocked(Idle) /\ ~Blocked(curr_proc) /\ curr_proc \notin Range(runningQueue)
  BY <1>1, BlockedFacts
<1>3. /\ ReadyAfterExit \in Seq(Pid) /\ IsInjective(ReadyAfterExit)
      /\ \A p : p \in Range(ReadyAfterExit) <=> p \in Range(runningQueue) \/ (WakesParent /\ p = woken)
      /\ IsInjective(wait_queue')
      /\ \A p \in Pid : p \in Range(wait_queue') <=> p \in Range(wait_queue) /\ p # woken
      /\ Range(wait_queue') \subseteq Pid
      /\ WakesParent => woken \in Range(wait_queue) /\ kstack[woken].site = "wait"
      /\ \A p \in Pid : Blocked(p)' <=> (Blocked(p) /\ p # woken)
  BY <1>1, ExitSets
<1>4. /\ IsInjective(runningQueue') /\ Range(runningQueue') = Range(ReadyAfterExit) \ {q}
      /\ q \in Range(ReadyAfterExit) \/ (q = Idle /\ Range(ReadyAfterExit) = {})
  BY <1>0, <1>1, <1>3, NextSets
<1>5. CASE halted' = TRUE /\ UNCHANGED <<curr_proc, kstack>>
  BY <1>1, <1>5 DEF PlaceInv
<1>6. CASE /\ halted' = FALSE /\ SwitchTo(q, User)
           /\ pcb' = [pcb EXCEPT ![curr_proc] = "freed"]
  <2> HIDE DEF woken
  <2>1. WakesParent => Blocked(woken) /\ woken \in Pid
    BY <1>3, ListedPids DEF Blocked
  <2>2. \A p \in Range(ReadyAfterExit) :
          /\ p \in Pid /\ ~Blocked(p)' /\ p # curr_proc
          /\ kstack[p].site \in {"fork", "clock", "delay", "wait", "recv", "xmit"}
    BY <1>2, <1>3, <2>1, ListedPids DEF ReadySites
  <2>3. /\ q \in Pid /\ q # curr_proc /\ ~Blocked(q)'
        /\ kstack[q].site \in {"boot", "fork", "clock", "delay", "wait", "recv", "xmit"}
    <3>1. CASE q \in Range(ReadyAfterExit)
      BY <2>2, <3>1
    <3>2. CASE q = Idle
      <4>1. ~Blocked(Idle)'
        BY <1>1, <1>2, <1>3
      <4>2. kstack[Idle].site \in {"boot", "clock", "recv", "xmit"}
        BY <1>1, <1>2 DEF IdleSite
      <4> QED BY <1>1, <3>2, <4>1, <4>2
    <3> QED BY <1>4, <3>1, <3>2
  <2>4. /\ curr_proc' = q
        /\ \A p \in Pid : kstack'[p] = IF p = curr_proc THEN User
                                        ELSE IF p = q THEN Resumed(kstack[p]) ELSE kstack[p]
    BY <1>1, <1>6, <2>3 DEF SwitchTo, TypeOK, SchedTypes
  <2>5. kstack'[q].site \in {"user", "wait", "recv", "xmit"}
    <3>1. kstack[q] \in Frames
      BY <2>3 DEF TypeOK, SchedTypes
    <3> QED BY <2>3, <2>4, <3>1, ResumedSites DEF Returning
  <2>6. \A p \in Pid \ {woken} : Blocked(p) => kstack'[p] = kstack[p]
    <3> SUFFICES ASSUME NEW p \in Pid, p # woken, Blocked(p) PROVE kstack'[p] = kstack[p]
      OBVIOUS
    <3>1. Blocked(p)' /\ p # curr_proc
      BY <1>2, <1>3
    <3> QED BY <2>3, <2>4, <3>1
  <2>7. \A p \in Pid : Listed(p)' <=> (Listed(p) /\ p # q)
    <3>1. \A p \in Pid : Listed(p) <=> p \in Range(ReadyAfterExit) \/ Blocked(p)'
      BY <1>1, <1>3, <2>1 DEF Listed, woken
    <3>2. \A p \in Pid : Listed(p)' <=> (p \in Range(ReadyAfterExit) /\ p # q) \/ Blocked(p)'
      BY <1>4 DEF Listed
    <3>3. \A p \in Pid : Blocked(p)' => p # q
      BY <2>3
    <3> QED BY <3>1, <3>2, <3>3
  <2>8. Distinct'
    BY <1>1, <1>2, <1>3, <1>4 DEF Distinct
  <2>9. BlockedSites'
    <3>1. \A p \in Range(wait_queue') : p \in Range(wait_queue) \ {woken}
      BY <1>3
    <3>2. \A p \in Range(delay_queue) : p # woken
      BY <1>1, <1>2, <1>3, ListedPids DEF BlockedSites, woken
    <3>3. \A t \in Ttys : \A p \in Range(readQueue[t]) \cup Range(writeQueue[t]) : p # woken
      BY <1>1, <1>2, <1>3, ListedPids DEF BlockedSites, woken
    <3>4. \A p \in Range(delay_queue') : kstack'[p].site = "delay"
      BY <1>1, <1>2, <2>6, <3>2, SuspendedButMoved
    <3>5. \A p \in Range(wait_queue') : kstack'[p].site = "wait"
      BY <1>2, <2>6, <3>1, SuspendedButMoved
    <3>6. \A t \in Ttys :
            /\ \A p \in Range(readQueue[t]) : kstack'[p].site = "read" /\ kstack'[p].tty = t
            /\ \A p \in Range(writeQueue[t]) : kstack'[p].site = "write" /\ kstack'[p].tty = t
      BY <1>2, <2>6, <3>3, SuspendedButMoved
    <3> QED BY <1>1, <3>4, <3>5, <3>6 DEF BlockedSites
  <2>10. TransmitSites'
    <3>1. \A t \in Ttys : transmitting[t] > 0 => transmitPCB[t] # woken
      BY <1>1, <1>2, <1>3, ListedPids DEF TransmitSites, woken
    <3> QED BY <1>1, <1>2, <2>6, <3>1, SuspendedButMoved DEF TransmitSites
  <2>11. ReadySites'
    BY <1>4, <2>2, <2>4 DEF ReadySites
  <2>12. CurrSite'
    BY <2>3, <2>4, <2>5, <2>7 DEF CurrSite
  <2>13. IdleSite'
    BY <1>1, <1>2, <2>4 DEF IdleSite
  <2>14. ListedLive'
    <3>1. Live' = Live \ {curr_proc} /\ Live \subseteq Pid
      BY <1>1, <1>6 DEF Live, TypeOK, ProcTypes
    <3>2. q \in Live \ {curr_proc} /\ ~Listed(curr_proc)
      BY <1>2, <1>3, <1>4, <2>1, <2>3 DEF ListedLive, Listed
    <3> QED BY <1>1, <1>2, <2>4, <2>7, <3>1, <3>2 DEF ListedLive
  <2> QED BY <1>6, <2>8, <2>9, <2>10, <2>11, <2>12, <2>13, <2>14 DEF PlaceInv
<1> QED BY <1>0, <1>5, <1>6 DEF TerminateProcess, FreesPCB, HaltsFreeing

LEMMA FreesPlaces == UserProgram /\ FreesPages => PlaceInv'
BY DEF UserProgram, UserMode, FreesPages, HaltsFreeing, PlaceInv

LEMMA InitPlaces == Init => PlaceInv
<1> SUFFICES ASSUME Init PROVE PlaceInv
  OBVIOUS
<1>1. Range(<<>>) = {} /\ IsInjective(<<>>)
  BY DEF Range, IsInjective
<1>2. \A p : ~Listed(p)
  BY <1>1 DEF Init, initKernel, CreateInitProcess, Listed, Blocked
<1>3. Distinct /\ BlockedSites /\ TransmitSites /\ ReadySites
  BY <1>1 DEF Init, initKernel, CreateInitProcess, Distinct, BlockedSites, TransmitSites, ReadySites
<1>4. CurrSite /\ IdleSite /\ ~halted
  BY <1>2, PidFacts DEF Init, initKernel, CreateInitProcess, CurrSite, IdleSite, User, Frame, First, Idle
<1>5. ListedLive
  BY <1>2, PidFacts DEF Init, initKernel, CreateInitProcess, ListedLive, Live
<1> QED BY <1>3, <1>4, <1>5 DEF PlaceInv

LEMMA StepPlaceInv == TypeOK /\ PlaceInv /\ ProcessInv /\ [Next]_vars => PlaceInv'
<1> SUFFICES ASSUME TypeOK, PlaceInv, ProcessInv, [Next]_vars PROVE PlaceInv'
  OBVIOUS
<1>1. CASE HandleFork
  BY <1>1, ForkPlaces
<1>2. CASE \/ \E status \in Statuses : HandleExit(status)
           \/ HandleExec \/ HandleBrk \/ TrapIllegalHandler \/ TrapMathHandler \/ TrapMemoryHandler
  BY <1>2, TerminatePlaces, FreesPlaces
     DEF HandleExit, HandleExec, HandleBrk, TrapIllegalHandler, TrapMathHandler, TrapMemoryHandler
<1>3. CASE HandleWait \/ ResumeWait
  BY <1>3, WaitPlaces
<1>4. CASE \E n \in 1..MaxTicks : HandleDelay(n)
  BY <1>4, DelayPlaces
<1>5. CASE TrapClockHandler
  BY <1>5, ClockPlaces
<1>6. CASE ResumeRead \/ \E t \in Ttys, n \in 1..MaxLine : HandleTtyRead(t, n)
  BY <1>6, ReadPlaces
<1>7. CASE \E t \in Ttys : HandleTtyWrite(t) \/ TrapTransmitHandler(t)
  BY <1>7, WritePlaces, TransmittedPlaces
<1>8. CASE ResumeReceive \/ \E t \in Ttys, n \in 0..MaxLine : TrapReceiveHandler(t, n)
  BY <1>8, ReceivePlaces
<1>9. CASE ResumeTransmit
  BY <1>9, ResumeTransmitPlaces
<1>10. CASE UNCHANGED vars
  <2>1. \A p : Listed(p)' <=> Listed(p)
    BY <1>10 DEF vars, timeVars, ttyVars, inVars, outVars, Listed, Blocked
  <2>2. \A p : Blocked(p)' <=> Blocked(p)
    BY <1>10 DEF vars, timeVars, ttyVars, inVars, outVars, Blocked
  <2> QED BY <1>10, <2>1, <2>2
          DEF vars, timeVars, procVars, ttyVars, inVars, outVars, PlaceInv, Distinct,
              BlockedSites, TransmitSites, ReadySites, CurrSite, IdleSite, ListedLive, Live
<1> QED BY <1>1, <1>2, <1>3, <1>4, <1>5, <1>6, <1>7, <1>8, <1>9, <1>10 DEF Next, Halted

\* A step that changes the kernel stacks of the process that was running and
\* of the one that runs now, both live, and no PCB.
LEMMA SwitchProcesses ==
  ASSUME ProcessInv, ~halted, UNCHANGED <<pid_counter, pcb, processQueue, halted>>,
         \A p \in Pid : kstack'[p] # kstack[p] => p \in Live
  PROVE  ProcessInv'
<1>1. Live' = Live
  BY DEF Live
<1>2. \A p \in Pid : p >= pid_counter => kstack'[p] = User
  BY DEF ProcessInv, Live
<1> QED BY <1>1, <1>2 DEF ProcessInv

LEMMA ForkProcesses == TypeOK /\ PlaceInv /\ ProcessInv /\ HandleFork => ProcessInv'
<1> SUFFICES ASSUME TypeOK, PlaceInv, ProcessInv, HandleFork PROVE ProcessInv'
  OBVIOUS
<1> DEFINE child == pid_counter
<1>1. /\ ~halted /\ curr_proc # Idle /\ curr_proc \in Pid
      /\ child \in Pid /\ child >= 2 /\ child \in Nat /\ pid_counter' = child + 1
      /\ halted' = halted /\ Pid \subseteq Nat
      /\ pcb \in [Pid -> {"none", "live", "failed", "freed"}] /\ kstack \in [Pid -> Frames]
  BY KernelAssumption, PidFacts
     DEF HandleFork, UserProgram, UserMode, TypeOK, ProcTypes, SchedTypes, Pid
<1>2. /\ \A p \in Pid : p >= child => pcb[p] = "none" /\ kstack[p] = User
      /\ IsInjective(processQueue) /\ Range(processQueue) = Live \ {Idle}
      /\ Live # {Idle}
  BY <1>1 DEF ProcessInv
<1>3. child \notin Live /\ child # Idle /\ curr_proc < child
  <2>1. curr_proc \in Live
    BY <1>1, BlockedFacts DEF ListedLive
  <2> QED BY <1>1, <1>2, <2>1 DEF Live, Idle
<1>4. CASE ForkWithoutPCB
  <2>1. Live' = Live
    BY <1>4 DEF ForkWithoutPCB, Live
  <2> QED BY <1>1, <1>2, <1>4, <2>1 DEF ForkWithoutPCB, ProcessInv
<1>5. CASE ForkWithoutFrames(child)
  <2>1. Live' = Live
    BY <1>1, <1>3, <1>5 DEF ForkWithoutFrames, Live
  <2> QED BY <1>1, <1>2, <1>5, <2>1 DEF ForkWithoutFrames, ProcessInv
<1>6. CASE ForkCopies(child)
  <2>1. Live' = Live \cup {child}
    BY <1>1, <1>6 DEF ForkCopies, Live
  <2>2. \A p \in Pid : p >= child + 1 => pcb'[p] = "none" /\ kstack'[p] = User
    BY <1>1, <1>2, <1>3, <1>6 DEF ForkCopies, PreemptBy, SwitchTo
  <2>3. IsInjective(processQueue') /\ Range(processQueue') = Range(processQueue) \cup {child}
    BY <1>1, <1>2, <1>3, <1>6, EnqueueProperties DEF ForkCopies, TypeOK, ProcTypes
  <2>4. Live' # {Idle} /\ ~halted'
    BY <1>1, <1>3, <2>1
  <2> QED BY <1>1, <1>2, <1>3, <2>1, <2>2, <2>3, <2>4 DEF ProcessInv
<1> QED BY <1>4, <1>5, <1>6 DEF HandleFork

LEMMA TerminateProcesses ==
  ASSUME TypeOK, PlaceInv, ProcessInv, UserProgram, NEW status, TerminateProcess(status), FreesPCB
  PROVE  ProcessInv'
<1>0. PICK q, left : /\ q = NextReady(ReadyAfterExit)
                     /\ left = SearchAndRemovePCB(processQueue, curr_proc)
  OBVIOUS
<1>1. /\ ~halted /\ curr_proc # Idle /\ curr_proc \in Pid /\ Idle \in Pid /\ Pid \subseteq Nat
      /\ pid_counter' = pid_counter /\ pid_counter \in Nat /\ processQueue' = left
      /\ pcb' = [pcb EXCEPT ![curr_proc] = "freed"]
      /\ processQueue \in Seq(Pid)
  BY <1>0, PidFacts, KernelAssumption
     DEF UserProgram, UserMode, TypeOK, SchedTypes, ProcTypes, TerminateProcess, FreesPCB
<1>2. /\ \A p \in Pid : p >= pid_counter => pcb[p] = "none" /\ kstack[p] = User
      /\ IsInjective(processQueue) /\ Range(processQueue) = Live \ {Idle}
  BY DEF ProcessInv
<1>3. ListedLive /\ IdleSite
  BY <1>1, BlockedFacts
<1>4. Live' = Live \ {curr_proc} /\ curr_proc \in Live /\ Idle \in Live'
  BY <1>1, <1>3 DEF Live, TypeOK, ProcTypes, ListedLive
<1>5. left \in Seq(Pid) /\ IsInjective(left) /\ Range(left) = Live' \ {Idle}
  BY <1>0, <1>1, <1>2, <1>4, SearchAndRemoveProperties
<1>6. left = <<>> <=> Live' = {Idle}
  <2>1. left = <<>> <=> Range(left) = {}
    <3>1. left # <<>> => Range(left) # {}
      BY <1>5, DequeueProperties
    <3>2. left = <<>> => Range(left) = {}
      BY DEF Range
    <3> QED BY <3>1, <3>2
  <2> QED BY <1>4, <1>5, <2>1
<1>7. q \in Live'
  <2>1. wait_queue' = WaitersAfterExit
        /\ UNCHANGED <<delay_queue, readQueue, writeQueue, transmitPCB, transmitting>>
    BY DEF TerminateProcess, notifyParent, timeVars, ttyVars, inVars, outVars
  <2>2. /\ ReadyAfterExit \in Seq(Pid) /\ IsInjective(ReadyAfterExit)
        /\ \A p \in Range(ReadyAfterExit) : Listed(p)
    BY <2>1, ExitSets DEF Listed, Blocked
  <2>3. q \in Range(ReadyAfterExit) \/ q = Idle
    BY <1>0, <2>2, NextSets
  <2>4. ~Listed(curr_proc)
    BY <1>1, BlockedFacts DEF CurrSite
  <2>5. Range(ReadyAfterExit) \subseteq Pid
    BY <2>2, RangeOfSeq
  <2> QED BY <1>3, <1>4, <2>2, <2>3, <2>4, <2>5 DEF ListedLive
<1>8. LastOneGone(q, left) <=> Live' = {Idle}
  BY <1>6, <1>7 DEF LastOneGone
<1>9. halted' <=> Live' = {Idle}
  BY <1>0, <1>8 DEF FreesPCB
<1>10. \A p \in Pid : p >= pid_counter => pcb'[p] = "none" /\ kstack'[p] = User
  <2> SUFFICES ASSUME NEW p \in Pid, p >= pid_counter PROVE pcb'[p] = "none" /\ kstack'[p] = User
    OBVIOUS
  <2>1. p # curr_proc /\ p # q /\ pcb[p] = "none" /\ kstack[p] = User
    BY <1>2, <1>4, <1>7 DEF Live
  <2>2. kstack' = kstack \/ kstack' = [kstack EXCEPT ![curr_proc] = User, ![q] = Resumed(@)]
    BY <1>0 DEF FreesPCB, SwitchTo
  <2>3. kstack'[p] = kstack[p]
    BY <2>1, <2>2 DEF TypeOK, SchedTypes
  <2> QED BY <1>1, <2>1, <2>3 DEF TypeOK, ProcTypes
<1> QED BY <1>1, <1>5, <1>9, <1>10 DEF ProcessInv

\* The kernel halts while it frees the pages of a process.
LEMMA FreesProcesses ==
  ASSUME TypeOK, PlaceInv, ProcessInv, UserProgram, HaltsFreeing, UNCHANGED pid_counter
  PROVE  ProcessInv'
<1>1. pcb[curr_proc] = "live"
  BY BlockedFacts DEF UserProgram, UserMode, TypeOK, SchedTypes, ListedLive, Live
<1> QED BY <1>1 DEF HaltsFreeing, ProcessInv, Live

\* A step that makes, ends and counts no process.
LEMMA QuietProcesses ==
  ASSUME TypeOK, TypeOK', PlaceInv, PlaceInv', ProcessInv, ~halted,
         UNCHANGED <<pid_counter, pcb, processQueue, halted>>,
         \/ ReturnToUser \/ UNCHANGED kstack
         \/ \E frame : SwitchTo(curr_proc', frame)
  PROVE  ProcessInv'
<1>1. Live' = Live
  BY DEF Live
<1>2. curr_proc \in Live /\ curr_proc' \in Live
  <2>1. ListedLive /\ ListedLive'
    BY DEF PlaceInv
  <2>2. curr_proc \in Pid /\ curr_proc' \in Pid
    BY DEF TypeOK, SchedTypes
  <2> QED BY <1>1, <2>1, <2>2 DEF ListedLive
<1>3. \A p \in Pid \ {curr_proc, curr_proc'} : kstack'[p] = kstack[p]
  BY DEF ReturnToUser, SwitchTo, TypeOK, SchedTypes
<1> QED BY <1>2, <1>3, SwitchProcesses

LEMMA StepProcessInv ==
  TypeOK /\ TypeOK' /\ PlaceInv /\ PlaceInv' /\ ProcessInv /\ [Next]_vars => ProcessInv'
<1> SUFFICES ASSUME TypeOK, TypeOK', PlaceInv, PlaceInv', ProcessInv, [Next]_vars
             PROVE  ProcessInv'
  OBVIOUS
<1>1. CASE HandleFork
  BY <1>1, ForkProcesses
<1>2. CASE \/ \E status \in Statuses : HandleExit(status)
           \/ HandleExec \/ HandleBrk \/ TrapIllegalHandler \/ TrapMathHandler \/ TrapMemoryHandler
  <2>1. CASE \E status : UserProgram /\ TerminateProcess(status)
    BY <2>1, TerminateProcesses, FreesProcesses DEF TerminateProcess
  <2>2. CASE UserProgram /\ FreesPages
    BY <2>2, FreesProcesses DEF FreesPages
  <2> QED BY <1>2, <2>1, <2>2
          DEF HandleExit, HandleExec, HandleBrk, TrapIllegalHandler, TrapMathHandler,
              TrapMemoryHandler
<1>3. CASE HandleWait \/ ResumeWait
  <2>1. ~halted /\ UNCHANGED <<pid_counter, pcb, processQueue, halted>>
    BY <1>3 DEF HandleWait, ResumeWait, UserProgram, UserMode, PlaceInv
  <2>2. ReturnToUser \/ UNCHANGED kstack \/ \E frame : SwitchTo(curr_proc', frame)
    BY <1>3 DEF HandleWait, ResumeWait, scheduleNextProcess, SwitchTo
  <2> QED BY <2>1, <2>2, QuietProcesses
<1>4. CASE \E n \in 1..MaxTicks : HandleDelay(n)
  <2>1. ~halted /\ UNCHANGED <<pid_counter, pcb, processQueue, halted>>
    BY <1>4 DEF HandleDelay, UserProgram, UserMode, procVars
  <2>2. \E frame : SwitchTo(curr_proc', frame)
    BY <1>4 DEF HandleDelay, scheduleNextProcess, SwitchTo
  <2> QED BY <2>1, <2>2, QuietProcesses
<1>5. CASE TrapClockHandler
  <2>1. ~halted /\ UNCHANGED <<pid_counter, pcb, processQueue, halted>>
    BY <1>5 DEF TrapClockHandler, UserMode, procVars
  <2>2. UNCHANGED kstack \/ \E frame : SwitchTo(curr_proc', frame)
    BY <1>5 DEF TrapClockHandler, SwitchTo
  <2> QED BY <2>1, <2>2, QuietProcesses
<1>6. CASE ResumeRead \/ \E t \in Ttys, n \in 1..MaxLine : HandleTtyRead(t, n)
  <2>1. ~halted /\ UNCHANGED <<pid_counter, pcb, processQueue, halted>>
    BY <1>6 DEF HandleTtyRead, ResumeRead, UserProgram, UserMode, PlaceInv, procVars
  <2>2. ReturnToUser \/ UNCHANGED kstack \/ \E frame : SwitchTo(curr_proc', frame)
    BY <1>6 DEF HandleTtyRead, ResumeRead, scheduleNextProcess, SwitchTo
  <2> QED BY <2>1, <2>2, QuietProcesses
<1>7. CASE \E t \in Ttys : HandleTtyWrite(t) \/ TrapTransmitHandler(t)
  <2>1. ~halted /\ UNCHANGED <<pid_counter, pcb, processQueue, halted>>
    BY <1>7 DEF HandleTtyWrite, TrapTransmitHandler, UserProgram, UserMode, procVars
  <2>2. \E frame : SwitchTo(curr_proc', frame)
    BY <1>7 DEF HandleTtyWrite, TrapTransmitHandler, scheduleNextProcess, PreemptBy, SwitchTo
  <2> QED BY <2>1, <2>2, QuietProcesses
<1>8. CASE ResumeReceive \/ \E t \in Ttys, n \in 0..MaxLine : TrapReceiveHandler(t, n)
  <2>1. ~halted /\ UNCHANGED <<pid_counter, pcb, processQueue, halted>>
    BY <1>8 DEF ResumeReceive, TrapReceiveHandler, UserMode, PlaceInv, procVars
  <2>2. ReturnToUser \/ \E frame : SwitchTo(curr_proc', frame)
    BY <1>8 DEF ResumeReceive, TrapReceiveHandler, ReceiveLoop, ServeReader, PreemptBy, SwitchTo
  <2> QED BY <2>1, <2>2, QuietProcesses
<1>9. CASE ResumeTransmit
  <2>1. ~halted /\ ReturnToUser /\ UNCHANGED <<pid_counter, pcb, processQueue, halted>>
    BY <1>9 DEF ResumeTransmit, PlaceInv, procVars
  <2> QED BY <2>1, QuietProcesses
<1>10. CASE UNCHANGED vars
  BY <1>10 DEF vars, procVars, ProcessInv, Live
<1> QED BY <1>1, <1>2, <1>3, <1>4, <1>5, <1>6, <1>7, <1>8, <1>9, <1>10 DEF Next, Halted

LEMMA InitProcesses == Init => ProcessInv
<1> SUFFICES ASSUME Init PROVE ProcessInv
  OBVIOUS
<1>1. Live = {Idle, First} /\ First # Idle
  BY PidFacts DEF Init, initKernel, CreateInitProcess, Live, First, Idle
<1>2. \A p \in Pid : p >= pid_counter => pcb[p] = "none" /\ kstack[p] = User
  BY PidFacts DEF Init, initKernel, CreateInitProcess, First, Idle
<1>3. processQueue = <<First>> /\ IsInjective(<<First>>) /\ Range(<<First>>) = {First}
  BY DEF Init, initKernel, CreateInitProcess, IsInjective, Range
<1>4. halted = FALSE
  BY DEF Init, initKernel, CreateInitProcess
<1> QED BY <1>1, <1>2, <1>3, <1>4 DEF ProcessInv

\* A process that is in a place is in no other, once the invariant holds.
LEMMA PlacesUnique ==
  ASSUME TypeOK, PlaceInv, ~halted, NEW p \in Pid, NEW x \in PlacesOf(p), NEW y \in PlacesOf(p)
  PROVE  x = y
<1>1. /\ BlockedSites /\ TransmitSites /\ ReadySites /\ CurrSite
      /\ ~Blocked(curr_proc) /\ curr_proc \notin Range(runningQueue)
  BY BlockedFacts
<1>2. /\ x = <<x[1], x[2]>> /\ y = <<y[1], y[2]>>
      /\ InPlace(p, x[1], x[2]) /\ InPlace(p, y[1], y[2])
  BY DEF PlacesOf
<1>3. x[1] = y[1] /\ x[2] = y[2]
  BY <1>1, <1>2 DEF InPlace, Blocked, BlockedSites, TransmitSites, ReadySites
<1> QED BY <1>2, <1>3

LEMMA InPlaceListed ==
  ASSUME TypeOK, NEW p \in Pid
  PROVE  (\E x \in PlacesOf(p) : TRUE) <=> Listed(p) \/ p = curr_proc
<1> DEFINE Places == {"cpu", "ready", "delay", "wait", "read", "write", "transmit"}
<1>1. \A place \in Places, t \in Ttys \cup {NULL} : InPlace(p, place, t) =>
        <<place, t>> \in PlacesOf(p)
  BY DEF PlacesOf
<1>2. ASSUME Listed(p) \/ p = curr_proc PROVE \E x \in PlacesOf(p) : TRUE
  <2>1. \E place \in Places, t \in Ttys \cup {NULL} : InPlace(p, place, t)
    BY <1>2 DEF Listed, Blocked, InPlace
  <2> QED BY <1>1, <2>1
<1>3. ASSUME NEW x \in PlacesOf(p) PROVE Listed(p) \/ p = curr_proc
  BY <1>3 DEF PlacesOf, InPlace, Listed, Blocked
<1> QED BY <1>2, <1>3

LEMMA PlaceInvOnePlace == TypeOK /\ PlaceInv => OnePlace
<1> SUFFICES ASSUME TypeOK, PlaceInv, ~halted PROVE OnePlace
  BY DEF OnePlace
<1>1. Distinct /\ ListedLive /\ ~Blocked(Idle) /\ Idle \in Pid
  BY BlockedFacts, PidFacts
<1>2. ASSUME NEW p \in Live \ {Idle} PROVE \E x \in PlacesOf(p) : PlacesOf(p) = {x}
  <2>1. p \in Pid /\ (Listed(p) \/ p = curr_proc)
    BY <1>1 DEF ListedLive, Live
  <2>2. PICK x \in PlacesOf(p) : TRUE
    BY <2>1, InPlaceListed
  <2> QED BY <2>1, <2>2, PlacesUnique
<1>3. PlacesOf(Idle) \in {{<<"cpu", NULL>>}, {<<"ready", NULL>>}, {}}
  <2>1. ASSUME NEW x \in PlacesOf(Idle) PROVE x \in {<<"cpu", NULL>>, <<"ready", NULL>>}
    BY <1>1 DEF PlacesOf, InPlace, Blocked
  <2>2. \A x, y \in PlacesOf(Idle) : x = y
    BY <1>1, PlacesUnique
  <2> QED BY <2>1, <2>2
<1>4. ASSUME NEW p \in Pid \ Live PROVE PlacesOf(p) = {}
  BY <1>1, InPlaceListed DEF ListedLive
<1> QED BY <1>1, <1>2, <1>3, <1>4 DEF OnePlace, Distinct

\* The invariant is inductive together with the types.
LEMMA Invariants == Spec => [](TypeOK /\ PlaceInv /\ ProcessInv)
<1> DEFINE Inv == TypeOK /\ PlaceInv /\ ProcessInv
<1>1. Init => Inv
  BY InitTypeOK, InitPlaces, InitProcesses
<1>2. Inv /\ [Next]_vars => Inv'
  BY StepTypeOK, StepPlaceInv, StepProcessInv
<1> QED BY <1>1, <1>2, PTL DEF Spec

\* Who is blocked, ready, running or idle is suspended where its list says, so
\* that what a handler resumes is the call that the process is blocked in.
THEOREM SuspendedWhereListed == Spec => []PlaceInv
BY Invariants, PTL

\* Whatever the handlers do, no process is lost, listed twice, or run while it
\* is listed.
THEOREM NeverMisplaced == Spec => []OnePlace
BY Invariants, PlaceInvOnePlace, PTL

\* The kernel halts when only idle is left, and before that only inside a call
\* whose process is still there (FreePhysicalPage).  processQueue lists who is.
THEOREM HaltsWhenDone == Spec => []HaltedWhenDone
<1>1. ProcessInv => HaltedWhenDone
  BY DEF ProcessInv, HaltedWhenDone
<1> QED BY <1>1, Invariants, PTL

\* A terminal has at most one transmission under way, and whose line it is
\* stays blocked in TtyWrite on that terminal.
THEOREM TransmitsOneLine == Spec => []OneTransmission
<1>1. ASSUME TypeOK, PlaceInv PROVE OneTransmission
  <2> SUFFICES ASSUME ~halted PROVE OneTransmission
    BY DEF OneTransmission
  <2>1. TransmitSites /\ ListedLive
    BY <1>1, BlockedFacts
  <2>2. \A t \in Ttys : transmitting[t] = 1 => transmitPCB[t] \in Live
    BY <1>1, <2>1, ListedPids DEF ListedLive, Listed, Blocked
  <2> QED BY <2>1, <2>2 DEF OneTransmission, TransmitSites
<1> QED BY <1>1, Invariants, PTL
----------------------------------------------------------------------------
\* Where there are no terminals nobody interrupts idle but the clock, which
\* lists it nowhere.
IdleUnready == halted \/ Idle \notin Range(runningQueue)

LEMMA ScheduledIdle ==
  ASSUME TypeOK, PlaceInv, IdleUnready, ~halted, NEW frame, scheduleNextProcess(frame)
  PROVE  IdleUnready' /\ (curr_proc' = Idle => runningQueue' = <<>>)
<1>1. /\ Range(runningQueue') = Range(runningQueue) \ {curr_proc'}
      /\ curr_proc' \in Range(runningQueue) \/ Range(runningQueue) = {}
  BY BlockedFacts, NextSets DEF scheduleNextProcess, SwitchTo, Distinct, TypeOK, SchedTypes
<1>2. runningQueue = <<>> => runningQueue' = <<>>
  BY DEF scheduleNextProcess, AfterNext
<1>3. runningQueue # <<>> => Range(runningQueue) # {}
  BY DequeueProperties DEF TypeOK, SchedTypes
<1> QED BY <1>1, <1>2, <1>3 DEF IdleUnready

LEMMA TerminatedIdle ==
  ASSUME TypeOK, PlaceInv, IdleUnready, UserProgram, NEW status, TerminateProcess(status)
  PROVE  IdleUnready' /\ (curr_proc' = Idle => runningQueue' = <<>>)
<1>1. /\ ~halted /\ curr_proc # Idle
      /\ wait_queue' = WaitersAfterExit /\ runningQueue' = AfterNext(ReadyAfterExit)
      /\ UNCHANGED <<delay_queue, readQueue, writeQueue, transmitPCB, transmitting>>
      /\ curr_proc' \in {curr_proc, NextReady(ReadyAfterExit)}
  BY DEF UserProgram, UserMode, TerminateProcess, FreesPCB, HaltsFreeing, SwitchTo, notifyParent, timeVars, ttyVars,
         inVars, outVars
<1>2. /\ ReadyAfterExit \in Seq(Pid) /\ IsInjective(ReadyAfterExit)
      /\ \A p \in Range(ReadyAfterExit) : p \in Range(runningQueue) \/ p \in Range(wait_queue)
  BY <1>1, ExitSets
<1>3. Idle \notin Range(ReadyAfterExit)
  BY <1>1, <1>2, BlockedFacts DEF Blocked, IdleUnready
<1>4. /\ Range(runningQueue') \subseteq Range(ReadyAfterExit)
      /\ NextReady(ReadyAfterExit) = Idle => Range(ReadyAfterExit) = {}
  BY <1>1, <1>2, <1>3, NextSets
<1>5. Range(ReadyAfterExit) = {} => runningQueue' = <<>>
  BY <1>1, <1>2, DequeueProperties DEF AfterNext
<1> QED BY <1>1, <1>3, <1>4, <1>5 DEF IdleUnready

LEMMA TickedIdle ==
  ASSUME TypeOK, PlaceInv, IdleUnready, TrapClockHandler
  PROVE  IdleUnready' /\ (curr_proc # Idle => curr_proc' # Idle)
<1>1. /\ ~halted /\ delay_queue' = Keep(delay_queue, Range(delay_queue) \ Expired)
      /\ UNCHANGED <<wait_queue, readQueue, writeQueue, transmitPCB, transmitting>>
  BY DEF TrapClockHandler, UserMode, ttyVars, inVars, outVars
<1>2. /\ ReadyAtTick \in Seq(Pid)
      /\ Range(ReadyAtTick) = Range(runningQueue) \cup Expired
      /\ Expired \subseteq Range(delay_queue)
  BY <1>1, TickSets
<1>3. Idle \notin Range(ReadyAtTick)
  BY <1>1, <1>2, BlockedFacts DEF Blocked, IdleUnready
<1>4. CASE ~ (SliceOver /\ ReadyAtTick # <<>>)
  BY <1>3, <1>4 DEF TrapClockHandler, IdleUnready
<1>5. CASE SliceOver /\ ReadyAtTick # <<>>
  <2>0. PICK rest : rest = Tail(ReadyAtTick)
    OBVIOUS
  <2>1. /\ curr_proc' \in Range(ReadyAtTick) /\ rest \in Seq(Pid)
        /\ Range(rest) \subseteq Range(ReadyAtTick)
        /\ runningQueue' = Requeue(rest)
    BY <1>2, <1>5, <2>0, DequeueProperties DEF TrapClockHandler, SwitchTo
  <2>2. CASE curr_proc # Idle
    <3>1. curr_proc \in Pid /\ runningQueue' = Append(rest, curr_proc)
      BY <2>1, <2>2 DEF Requeue, TypeOK, SchedTypes
    <3>2. Range(runningQueue') = Range(rest) \cup {curr_proc}
      BY <2>1, <3>1, EnqueueProperties
    <3> QED BY <1>3, <2>1, <2>2, <3>2 DEF IdleUnready
  <2>3. CASE curr_proc = Idle
    BY <1>3, <2>1, <2>3 DEF Requeue, IdleUnready
  <2> QED BY <2>2, <2>3
<1> QED BY <1>4, <1>5

LEMMA IdleStep ==
  ASSUME Ttys = {}, TypeOK, PlaceInv, ProcessInv, IdleUnready, [Next]_vars
  PROVE  IdleUnready' /\ (curr_proc # Idle /\ curr_proc' = Idle => runningQueue' = <<>>)
<1>1. CASE HandleFork
  <2>1. pid_counter # Idle /\ ~halted /\ curr_proc # Idle
    BY <1>1, KernelAssumption DEF HandleFork, UserProgram, UserMode, TypeOK, ProcTypes, Idle
  <2>2. \/ UNCHANGED <<curr_proc, runningQueue>>
        \/ /\ curr_proc' = pid_counter
           /\ runningQueue' = Append(runningQueue, curr_proc)
    BY <1>1 DEF HandleFork, ForkWithoutPCB, ForkWithoutFrames, ForkCopies, PreemptBy, SwitchTo
  <2>3. Range(runningQueue') \subseteq Range(runningQueue) \cup {curr_proc}
    BY <2>2, EnqueueProperties DEF TypeOK, SchedTypes
  <2> QED BY <2>1, <2>2, <2>3 DEF IdleUnready
<1>2. CASE \/ \E status \in Statuses : HandleExit(status)
           \/ HandleExec \/ HandleBrk \/ TrapIllegalHandler \/ TrapMathHandler \/ TrapMemoryHandler
  BY <1>2, TerminatedIdle
     DEF HandleExit, HandleExec, HandleBrk, TrapIllegalHandler, TrapMathHandler,
         TrapMemoryHandler, FreesPages, HaltsFreeing, IdleUnready
<1>3. CASE HandleWait \/ ResumeWait
  <2>1. \/ UNCHANGED <<halted, curr_proc, runningQueue>>
        \/ ~halted /\ scheduleNextProcess(Frame("wait"))
    BY <1>3 DEF HandleWait, ResumeWait, CollectChild, UserProgram, UserMode
  <2> QED BY <2>1, ScheduledIdle DEF IdleUnready
<1>4. CASE \E n \in 1..MaxTicks : HandleDelay(n)
  BY <1>4, ScheduledIdle DEF HandleDelay, UserProgram, UserMode
<1>5. CASE TrapClockHandler
  BY <1>5, TickedIdle
<1>6. CASE ResumeRead \/ ResumeReceive \/ ResumeTransmit
  <2>1. kstack[curr_proc].site \in TtySites /\ kstack[curr_proc] \in Frames
    BY <1>6 DEF ResumeRead, ResumeReceive, ResumeTransmit, TtySites, TypeOK, SchedTypes
  <2> QED BY <2>1, FrameTypes
<1>7. CASE UNCHANGED vars
  BY <1>7 DEF vars, procVars, IdleUnready
<1> QED BY <1>1, <1>2, <1>3, <1>4, <1>5, <1>6, <1>7 DEF Next, Halted

\* Without terminals the CPU goes to idle only when nobody is ready
\* (scheduleNextProcess, TerminateProcess, TrapClockHandler).  With one, an
\* interrupt puts idle into the ready queue, and it may run before others.
THEOREM IdleYieldsToReady ==
  ASSUME Ttys = {}
  PROVE  Spec => IdleOnlyWhenNoneReady
<1>1. Init => IdleUnready
  BY DEF Init, initKernel, IdleUnready, Range
<1>2. TypeOK /\ PlaceInv /\ ProcessInv /\ IdleUnready /\ [Next]_vars => IdleUnready'
  BY IdleStep
<1>3. TypeOK /\ PlaceInv /\ ProcessInv /\ IdleUnready /\ [Next]_vars =>
        [curr_proc # Idle /\ curr_proc' = Idle => runningQueue' = <<>>]_vars
  BY IdleStep
<1> QED BY <1>1, <1>2, <1>3, Invariants, PTL DEF Spec, IdleOnlyWhenNoneReady
============================================================================
