--------------------------- MODULE TerminalProofs ---------------------------
(***************************************************************************)
(* Terminals for every number of processes and terminals: a reader that is *)
(* resumed finds its text, no reader and no writer is forgotten, and a     *)
(* write returns when its own line is out.  All four rest on how the CPU   *)
(* passes from one process to the next while others are suspended inside   *)
(* an interrupt handler.                                                   *)
(***************************************************************************)
EXTENDS PlacementProofs

Runnable == {"boot", "fork", "clock", "delay", "wait", "recv", "xmit", "user"}

\* The running process keeps the CPU, and nobody leaves the ready queue.
GoesOn ==
  /\ curr_proc' = curr_proc
  /\ Range(runningQueue) \subseteq Range(runningQueue')
  /\ \A p \in Pid \ {curr_proc} : kstack'[p] = kstack[p]
  /\ kstack'[curr_proc].site = "user" \/ UNCHANGED vars

\* q gets the CPU.
HandsTo(q) ==
  /\ q \in Pid /\ q # curr_proc /\ curr_proc' = q
  /\ kstack'[q] = Resumed(kstack[q])
  /\ \A p \in Pid \ {curr_proc, q} : kstack'[p] = kstack[p]
  /\ Range(runningQueue) \subseteq Range(runningQueue') \cup {q}

HandsToReader(t) ==
  /\ readQueue[t] # <<>>
  /\ HandsTo(Head(readQueue[t]))
  /\ kstack[Head(readQueue[t])].site = "read" /\ kstack[Head(readQueue[t])].tty = t
  /\ inputBuffer'[t] # <<>>

HandsToWriter(t) == TrapTransmitHandler(t) /\ HandsTo(transmitPCB[t])

CpuMoves ==
  \/ GoesOn
  \/ \E q : HandsTo(q) /\ kstack[q].site \in Runnable
  \/ \E t \in Ttys : HandsToReader(t) \/ HandsToWriter(t)

LEMMA SwitchHands ==
  ASSUME TypeOK, NEW q \in Pid, q # curr_proc, NEW frame, SwitchTo(q, frame),
         Range(runningQueue) \subseteq Range(runningQueue') \cup {q}
  PROVE  HandsTo(q) /\ kstack'[curr_proc] = frame
BY DEF SwitchTo, HandsTo, TypeOK, SchedTypes

LEMMA ScheduleHands ==
  ASSUME TypeOK, PlaceInv, UserProgram, NEW frame, scheduleNextProcess(frame)
  PROVE  CpuMoves
<1> DEFINE q == NextReady(runningQueue)
<1>1. ~halted /\ curr_proc # Idle /\ Idle \in Pid /\ runningQueue \in Seq(Pid)
  BY PidFacts DEF UserProgram, UserMode, TypeOK, SchedTypes
<1>2. /\ Distinct /\ ReadySites /\ IdleSite /\ curr_proc \notin Range(runningQueue)
      /\ Range(runningQueue) \subseteq Pid
  BY <1>1, BlockedFacts, ListedPids
<1>3. /\ Range(runningQueue') = Range(runningQueue) \ {q}
      /\ q \in Range(runningQueue) \/ q = Idle
  BY <1>1, <1>2, NextSets DEF Distinct, scheduleNextProcess
<1> HIDE DEF q
<1>4. q \in Pid /\ q # curr_proc
  BY <1>1, <1>2, <1>3
<1>5. kstack[q].site \in Runnable
  BY <1>1, <1>2, <1>3 DEF ReadySites, IdleSite, Runnable
<1>6. SwitchTo(q, frame)
  BY DEF scheduleNextProcess, q
<1>7. HandsTo(q)
  BY <1>3, <1>4, <1>6, SwitchHands
<1> QED BY <1>5, <1>7 DEF CpuMoves

LEMMA PreemptHands ==
  ASSUME TypeOK, NEW q \in Pid, q # curr_proc, NEW frame, PreemptBy(q, frame)
  PROVE  HandsTo(q) /\ curr_proc \in Range(runningQueue') /\ kstack'[curr_proc] = frame
<1>1. Range(runningQueue') = Range(runningQueue) \cup {curr_proc}
  BY EnqueueProperties DEF PreemptBy, TypeOK, SchedTypes
<1> QED BY <1>1, SwitchHands DEF PreemptBy

LEMMA ForkHands ==
  ASSUME TypeOK, PlaceInv, ProcessInv, HandleFork
  PROVE  CpuMoves
<1>1. /\ ~halted /\ kstack[curr_proc].site = "user"
      /\ pid_counter \in Pid /\ pid_counter # Idle
  BY KernelAssumption
     DEF HandleFork, UserProgram, UserMode, TypeOK, ProcTypes, Pid, Idle
<1>2. CASE UNCHANGED <<curr_proc, runningQueue, kstack>>
  BY <1>1, <1>2 DEF CpuMoves, GoesOn
<1>3. CASE ForkCopies(pid_counter)
  <2>1. pcb[pid_counter] = "none" /\ kstack[pid_counter] = User
    BY <1>1, PidFacts DEF ProcessInv
  <2>2. pid_counter # curr_proc
    BY <1>1, <2>1, BlockedFacts DEF ListedLive, Live
  <2>3. kstack[pid_counter].site \in Runnable
    BY <2>1, ResumedSites, FrameTypes DEF Runnable
  <2>4. HandsTo(pid_counter)
    BY <1>1, <1>3, <2>2, PreemptHands DEF ForkCopies
  <2> QED BY <2>3, <2>4 DEF CpuMoves
<1> QED BY <1>2, <1>3 DEF HandleFork, ForkWithoutPCB, ForkWithoutFrames

LEMMA ClockHands ==
  ASSUME TypeOK, PlaceInv, TrapClockHandler
  PROVE  CpuMoves
<1>1. ~halted /\ kstack[curr_proc].site = "user" /\ curr_proc \in Pid
  BY DEF TrapClockHandler, UserMode, TypeOK, SchedTypes
<1>2. /\ ReadyAtTick \in Seq(Pid) /\ IsInjective(ReadyAtTick)
      /\ Range(ReadyAtTick) = Range(runningQueue) \cup Expired
      /\ Expired \subseteq Range(delay_queue)
  BY <1>1, TickSets DEF TrapClockHandler, ttyVars, inVars, outVars
<1>3. /\ ReadySites /\ BlockedSites /\ curr_proc \notin Range(runningQueue)
      /\ ~Blocked(curr_proc)
  BY <1>1, BlockedFacts
<1>4. CASE ~(SliceOver /\ ReadyAtTick # <<>>)
  <2>1. runningQueue' = ReadyAtTick /\ UNCHANGED <<curr_proc, kstack>>
    BY <1>4 DEF TrapClockHandler
  <2> QED BY <1>1, <1>2, <2>1 DEF CpuMoves, GoesOn
<1>5. CASE SliceOver /\ ReadyAtTick # <<>>
  <2> DEFINE q == Head(ReadyAtTick)
  <2>1. /\ q \in Pid /\ q \in Range(ReadyAtTick) /\ Tail(ReadyAtTick) \in Seq(Pid)
        /\ Range(Tail(ReadyAtTick)) = Range(ReadyAtTick) \ {q}
    BY <1>2, <1>5, DequeueProperties
  <2>2. SwitchTo(q, Frame("clock")) /\ runningQueue' = Requeue(Tail(ReadyAtTick))
    BY <1>5 DEF TrapClockHandler
  <2> HIDE DEF q
  <2>3. Range(Tail(ReadyAtTick)) \subseteq Range(runningQueue')
    <3>1. \A rest \in Seq(Pid) : Range(Append(rest, curr_proc)) = Range(rest) \cup {curr_proc}
      BY <1>1, EnqueueProperties
    <3> QED BY <2>1, <2>2, <3>1 DEF Requeue
  <2>4. q # curr_proc /\ kstack[q].site \in Runnable
    BY <1>2, <1>3, <2>1 DEF ReadySites, BlockedSites, Blocked, Runnable
  <2>5. HandsTo(q)
    BY <1>2, <2>1, <2>2, <2>3, <2>4, SwitchHands
  <2> QED BY <2>4, <2>5 DEF CpuMoves
<1> QED BY <1>4, <1>5

LEMMA TerminateHands ==
  ASSUME TypeOK, PlaceInv, UserProgram, NEW status, TerminateProcess(status), ~halted'
  PROVE  CpuMoves
<1> DEFINE q == NextReady(ReadyAfterExit)
<1>1. /\ ~halted /\ curr_proc # Idle /\ Idle \in Pid
      /\ wait_queue' = WaitersAfterExit /\ runningQueue' = AfterNext(ReadyAfterExit)
      /\ UNCHANGED <<delay_queue, readQueue, writeQueue, transmitPCB, transmitting>>
      /\ SwitchTo(q, User)
  BY PidFacts DEF UserProgram, UserMode, TerminateProcess, FreesPCB, HaltsFreeing, notifyParent,
                  timeVars, ttyVars, inVars, outVars
<1>2. /\ ReadySites /\ IdleSite /\ curr_proc \notin Range(runningQueue) /\ ~Blocked(curr_proc)
      /\ Range(runningQueue) \subseteq Pid /\ Range(wait_queue) \subseteq Pid
  BY <1>1, BlockedFacts, ListedPids
<1>3. /\ ReadyAfterExit \in Seq(Pid) /\ IsInjective(ReadyAfterExit)
      /\ Range(runningQueue) \subseteq Range(ReadyAfterExit)
      /\ \A p \in Range(ReadyAfterExit) :
           p \in Range(runningQueue) \/ (p \in Range(wait_queue) /\ kstack[p].site = "wait")
  BY <1>1, ExitSets
<1>4. /\ Range(runningQueue') = Range(ReadyAfterExit) \ {q}
      /\ q \in Range(ReadyAfterExit) \/ q = Idle
  BY <1>1, <1>3, NextSets
<1> HIDE DEF q
<1>5. q \in Pid /\ q # curr_proc /\ kstack[q].site \in Runnable
  BY <1>1, <1>2, <1>3, <1>4 DEF ReadySites, IdleSite, Blocked, Runnable
<1>6. HandsTo(q)
  BY <1>1, <1>3, <1>4, <1>5, SwitchHands
<1> QED BY <1>5, <1>6 DEF CpuMoves

\* What a round of TrapReceiveHandler's loop does to the CPU.
LEMMA LoopHands ==
  ASSUME TypeOK, PlaceInv, ~halted, NEW t \in Ttys, NEW ready, ReceiveLoop(t, ready),
         ready = 1 => inputBuffer'[t] # <<>>
  PROVE  /\ CpuMoves
         /\ readQueue'[t] # <<>> /\ ready = 1 =>
              /\ curr_proc \in Range(runningQueue')
              /\ kstack'[curr_proc].site = "recv" /\ kstack'[curr_proc].tty = t
<1>1. CASE readQueue[t] # <<>> /\ ready = 1
  <2> DEFINE q == Head(readQueue[t])
  <2>1. PreemptBy(q, TtyFrame("recv", t, 0))
    BY <1>1 DEF ReceiveLoop, ServeReader
  <2>2. q \in Pid /\ q \in Range(readQueue[t])
    BY <1>1, DequeueProperties DEF TypeOK, InTypes
  <2>3. kstack[q].site = "read" /\ kstack[q].tty = t /\ q # curr_proc
    BY <2>2, BlockedFacts DEF BlockedSites, Blocked
  <2>4. HandsTo(q) /\ curr_proc \in Range(runningQueue') /\ kstack'[curr_proc] = TtyFrame("recv", t, 0)
    BY <2>1, <2>2, <2>3, PreemptHands
  <2>5. TtyFrame("recv", t, 0).site = "recv" /\ TtyFrame("recv", t, 0).tty = t
    BY DEF TtyFrame
  <2> QED BY <1>1, <2>3, <2>4, <2>5 DEF CpuMoves, HandsToReader
<1>2. CASE ~(readQueue[t] # <<>> /\ ready = 1)
  <2>1. ReturnToUser /\ UNCHANGED <<curr_proc, runningQueue, readQueue>>
    BY <1>2 DEF ReceiveLoop
  <2>2. /\ \A p \in Pid \ {curr_proc} : kstack'[p] = kstack[p]
        /\ kstack'[curr_proc].site = "user"
    BY <2>1 DEF ReturnToUser, TypeOK, SchedTypes, User, Frame
  <2> QED BY <1>2, <2>1, <2>2 DEF CpuMoves, GoesOn
<1> QED BY <1>1, <1>2

LEMMA ReturnMoves ==
  ASSUME TypeOK, ReturnToUser, UNCHANGED <<curr_proc, runningQueue>>
  PROVE  CpuMoves
<1>1. /\ \A p \in Pid \ {curr_proc} : kstack'[p] = kstack[p]
      /\ kstack'[curr_proc].site = "user"
  BY DEF ReturnToUser, TypeOK, SchedTypes, User, Frame
<1> QED BY <1>1 DEF CpuMoves, GoesOn

LEMMA ReceivedText ==
  ASSUME TypeOK, NEW t \in Ttys, NEW n \in 0..MaxLine, TrapReceiveHandler(t, n)
  PROVE  inputBuffer'[t] # <<>> /\ readReady'[t] = 1
<1>1. [ptr |-> 0, length |-> n] \in Texts
  BY KernelAssumption DEF Texts
<1>2. Append(inputBuffer[t], [ptr |-> 0, length |-> n]) # <<>>
  BY <1>1, EnqueueProperties DEF TypeOK, InTypes
<1> QED BY <1>2 DEF TrapReceiveHandler, TypeOK, InTypes

LEMMA StayMoves ==
  ASSUME UserMode, UNCHANGED <<curr_proc, runningQueue, kstack>>
  PROVE  CpuMoves
BY DEF UserMode, CpuMoves, GoesOn

\* Every step that does not stop the machine is one of the ways in which the
\* CPU moves on.
LEMMA HowTheCpuMoves ==
  ASSUME TypeOK, PlaceInv, ProcessInv, ReadReadyExact, ~halted, ~halted', [Next]_vars
  PROVE  CpuMoves
<1>1. CASE HandleFork
  BY <1>1, ForkHands
<1>2. CASE \/ \E status \in Statuses : HandleExit(status)
           \/ HandleExec \/ HandleBrk \/ TrapIllegalHandler \/ TrapMathHandler \/ TrapMemoryHandler
  BY <1>2, TerminateHands
     DEF HandleExit, HandleExec, HandleBrk, TrapIllegalHandler, TrapMathHandler,
         TrapMemoryHandler, FreesPages, HaltsFreeing
<1>3. CASE HandleWait \/ ResumeWait
  <2>1. \/ UserProgram /\ scheduleNextProcess(Frame("wait"))
        \/ /\ UNCHANGED <<curr_proc, runningQueue>>
           /\ ReturnToUser \/ (UserMode /\ UNCHANGED kstack)
    BY <1>3 DEF HandleWait, ResumeWait, CollectChild, UserProgram
  <2> QED BY <2>1, ScheduleHands, ReturnMoves, StayMoves
<1>4. CASE \E n \in 1..MaxTicks : HandleDelay(n)
  BY <1>4, ScheduleHands DEF HandleDelay
<1>5. CASE TrapClockHandler
  BY <1>5, ClockHands
<1>6. CASE \E t \in Ttys, n \in 1..MaxLine : HandleTtyRead(t, n)
  BY <1>6, ScheduleHands, StayMoves DEF HandleTtyRead, UserProgram
<1>7. CASE \E t \in Ttys : HandleTtyWrite(t)
  BY <1>7, ScheduleHands DEF HandleTtyWrite
<1>8. ASSUME NEW t \in Ttys, TrapTransmitHandler(t) PROVE CpuMoves
  <2>1. transmitPCB[t] \in Pid /\ transmitPCB[t] # curr_proc
    BY <1>8, BlockedFacts, ListedPids DEF TrapTransmitHandler, Blocked
  <2> QED BY <1>8, <2>1, PreemptHands DEF TrapTransmitHandler, CpuMoves, HandsToWriter
<1>9. ASSUME NEW t \in Ttys, NEW n \in 0..MaxLine, TrapReceiveHandler(t, n) PROVE CpuMoves
  <2>1. inputBuffer'[t] # <<>>
    BY <1>9, ReceivedText
  <2> QED BY <1>9, <2>1, LoopHands DEF TrapReceiveHandler
<1>10. CASE ResumeReceive
  <2>1. kstack[curr_proc].tty \in Ttys
    BY <1>10, FrameTypes DEF TypeOK, SchedTypes, ResumeReceive, TtySites
  <2> QED BY <1>10, <2>1, LoopHands DEF ResumeReceive
<1>11. CASE ResumeRead \/ ResumeTransmit
  BY <1>11, ReturnMoves DEF ResumeRead, ResumeTransmit
<1>12. CASE UNCHANGED vars
  BY <1>12 DEF CpuMoves, GoesOn, vars
<1> QED
  BY <1>1, <1>2, <1>3, <1>4, <1>5, <1>6, <1>7, <1>8, <1>9, <1>10, <1>11, <1>12 DEF Next, Halted
----------------------------------------------------------------------------
(***************************************************************************)
(* The flag readReady.                                                     *)
(***************************************************************************)
LEMMA TakeTextReady ==
  ASSUME InTypes, ReadReadyExact, NEW t \in Ttys, NEW n \in 0..MaxLine,
         inputBuffer[t] # <<>>, TakeText(t, n)
  PROVE  ReadReadyExact'
<1> DEFINE text == Head(inputBuffer[t])
           copied == IF n < text.length THEN n ELSE text.length
           left == [ptr |-> text.ptr + copied, length |-> text.length - copied]
           rest == Tail(inputBuffer[t])
<1>1. rest \in Seq(Texts)
  BY DequeueProperties DEF InTypes
<1>2. /\ inputBuffer'[t] = (IF left.length = 0 THEN <<>> ELSE <<left>>) \o rest
      /\ readReady'[t] = IF left.length = 0 /\ rest = <<>> THEN -1 ELSE readReady[t]
      /\ \A u \in Ttys \ {t} : inputBuffer'[u] = inputBuffer[u] /\ readReady'[u] = readReady[u]
  BY DEF TakeText, NothingLeft, InTypes
<1>3. readReady[t] = 1
  BY DEF ReadReadyExact
<1> HIDE DEF left, rest
<1>4. inputBuffer'[t] = <<>> <=> left.length = 0 /\ rest = <<>>
  <2>1. Len(rest) \in Nat /\ (Len(rest) = 0 <=> rest = <<>>)
    BY <1>1, EmptySeq, LenProperties
  <2>2. Len(<<left>> \o rest) = 1 + Len(rest) /\ <<>> \o rest = rest
    BY <1>1
  <2> QED BY <1>2, <2>1, <2>2
<1> QED BY <1>2, <1>3, <1>4 DEF ReadReadyExact

LEMMA StepReadReady == TypeOK /\ ReadReadyExact /\ [Next]_vars => ReadReadyExact'
<1> SUFFICES ASSUME TypeOK, ReadReadyExact, [Next]_vars PROVE ReadReadyExact'
  OBVIOUS
<1>1. ASSUME NEW t \in Ttys, NEW n \in 1..MaxLine, HandleTtyRead(t, n) PROVE ReadReadyExact'
  <2>1. CASE UNCHANGED <<inputBuffer, readReady>>
    BY <2>1 DEF ReadReadyExact
  <2>2. CASE inputBuffer[t] # <<>> /\ TakeText(t, n)
    BY <2>2, TakeTextReady DEF TypeOK
  <2> QED BY <1>1, <2>1, <2>2 DEF HandleTtyRead
<1>2. CASE ResumeRead
  <2>1. kstack[curr_proc].tty \in Ttys /\ kstack[curr_proc].len \in 0..MaxLine
    BY <1>2, FrameTypes DEF TypeOK, SchedTypes, ResumeRead, TtySites
  <2> QED BY <1>2, <2>1, TakeTextReady DEF ResumeRead, TypeOK
<1>3. ASSUME NEW t \in Ttys, NEW n \in 0..MaxLine, TrapReceiveHandler(t, n) PROVE ReadReadyExact'
  <2>1. inputBuffer'[t] # <<>> /\ readReady'[t] = 1
    BY <1>3, ReceivedText
  <2>2. \A u \in Ttys \ {t} : inputBuffer'[u] = inputBuffer[u] /\ readReady'[u] = readReady[u]
    BY <1>3 DEF TrapReceiveHandler, TypeOK, InTypes
  <2> QED BY <2>1, <2>2 DEF ReadReadyExact
<1>4. CASE ResumeReceive
  BY <1>4 DEF ResumeReceive, ReadReadyExact, TypeOK, InTypes
<1>5. CASE UNCHANGED inVars
  BY <1>5 DEF inVars, ReadReadyExact
<1>6. CASE \/ HandleFork \/ HandleWait \/ ResumeWait \/ TrapClockHandler \/ ResumeTransmit
           \/ \E status \in Statuses : HandleExit(status)
           \/ HandleExec \/ HandleBrk \/ TrapIllegalHandler \/ TrapMathHandler \/ TrapMemoryHandler
           \/ \E n \in 1..MaxTicks : HandleDelay(n)
           \/ \E t \in Ttys : HandleTtyWrite(t) \/ TrapTransmitHandler(t)
  <2>1. UNCHANGED inVars
    BY <1>6 DEF HandleFork, HandleWait, ResumeWait, TrapClockHandler, ResumeTransmit, HandleExit,
                HandleExec, HandleBrk, TrapIllegalHandler, TrapMathHandler, TrapMemoryHandler,
                TerminateProcess, FreesPages, HandleDelay, HandleTtyWrite, TrapTransmitHandler, ttyVars
  <2> QED BY <1>5, <2>1
<1>7. CASE UNCHANGED vars
  BY <1>5, <1>7 DEF vars, ttyVars
<1> QED BY <1>1, <1>2, <1>3, <1>4, <1>6, <1>7 DEF Next, Halted
----------------------------------------------------------------------------
(***************************************************************************)
(* Wakeups.  A process suspended in an interrupt handler of terminal t has *)
(* still to serve who waits there; it must not leave the ready queue, nor  *)
(* have its place in the handler changed, before it has run.               *)
(***************************************************************************)
Serves(p, site, t) ==
  /\ p \in Range(runningQueue) \cup {curr_proc}
  /\ kstack[p].site = site /\ kstack[p].tty = t

LEMMA StillServes ==
  ASSUME TypeOK, PlaceInv, CpuMoves, ~halted,
         NEW site \in {"recv", "xmit"}, NEW t, NEW p, p # curr_proc, Serves(p, site, t)
  PROVE  Serves(p, site, t)'
<1>1. p \in Range(runningQueue) /\ p \in Pid /\ kstack[p] \in Frames
  BY ListedPids DEF Serves, TypeOK, SchedTypes
<1>2. CASE GoesOn
  BY <1>1, <1>2 DEF GoesOn, Serves
<1>3. ASSUME NEW q, HandsTo(q) PROVE Serves(p, site, t)'
  <2>1. Resumed(kstack[p]) = kstack[p]
    BY <1>1, ResumedSites DEF Serves, Returning
  <2> QED BY <1>1, <1>3, <2>1 DEF HandsTo, Serves
<1> QED BY <1>2, <1>3 DEF CpuMoves, HandsToReader, HandsToWriter

\* The machine stops where a process terminates or pages are freed, and nowhere
\* else; nobody's place on a kernel stack changes then.
LEMMA HaltingStep ==
  ASSUME ~halted, halted', [Next]_vars
  PROVE  UNCHANGED kstack
<1>1. (\E status : TerminateProcess(status)) \/ FreesPages
  BY DEF Next, HandleExit, HandleExec, HandleBrk, TrapIllegalHandler, TrapMathHandler, TrapMemoryHandler,
         HandleFork, HandleWait, ResumeWait, HandleDelay, TrapClockHandler, HandleTtyRead,
         HandleTtyWrite, TrapTransmitHandler, TrapReceiveHandler, ResumeRead, ResumeReceive,
         ResumeTransmit, Halted, vars, procVars
<1> QED BY <1>1 DEF TerminateProcess, FreesPages, FreesPCB, HaltsFreeing

\* Who is in the middle of a handler does not start another.
LEMMA BusyInKernel ==
  ASSUME [Next]_vars, kstack[curr_proc].site \in {"recv", "xmit"}
  PROVE  ResumeReceive \/ ResumeTransmit \/ UNCHANGED vars
BY DEF Next, HandleExit, HandleExec, HandleBrk, TrapIllegalHandler, TrapMathHandler, TrapMemoryHandler,
       HandleFork, HandleWait, ResumeWait, HandleDelay, TrapClockHandler, HandleTtyRead,
       HandleTtyWrite, TrapTransmitHandler, TrapReceiveHandler, ResumeRead, Halted,
       UserProgram, UserMode

LEMMA HaltedStops ==
  ASSUME PlaceInv, halted, [Next]_vars
  PROVE  UNCHANGED vars
BY DEF PlaceInv, Next, HandleExit, HandleExec, HandleBrk, TrapIllegalHandler, TrapMathHandler,
       TrapMemoryHandler, HandleFork, HandleWait, ResumeWait, HandleDelay, TrapClockHandler,
       HandleTtyRead, HandleTtyWrite, TrapTransmitHandler, TrapReceiveHandler, ResumeRead,
       ResumeReceive, ResumeTransmit, Halted, UserProgram, UserMode

\* Where there is a text and somebody waits for one, this was so before the
\* step, or the step has just switched away inside the receive handler.
LEMMA ReadersWait ==
  ASSUME TypeOK, PlaceInv, ReadReadyExact, [Next]_vars, ~halted,
         NEW t \in Ttys, readReady'[t] = 1, readQueue'[t] # <<>>
  PROVE  \/ readReady[t] = 1 /\ readQueue[t] # <<>>
            /\ ~(ResumeReceive /\ kstack[curr_proc].tty = t)
         \/ curr_proc \in Range(runningQueue')
            /\ kstack'[curr_proc].site = "recv" /\ kstack'[curr_proc].tty = t
<1>1. ASSUME NEW u \in Ttys, NEW n \in 1..MaxLine, HandleTtyRead(u, n)
      PROVE  readReady[t] = 1 /\ readQueue[t] # <<>> /\ ~ResumeReceive
  <2>1. kstack[curr_proc].site = "user"
    BY <1>1 DEF HandleTtyRead, UserProgram, UserMode
  <2>2. CASE readReady[u] = -1 /\ UNCHANGED readReady
    BY <1>1, <2>1, <2>2 DEF HandleTtyRead, ResumeReceive, TypeOK, InTypes
  <2>3. CASE TakeText(u, n) /\ UNCHANGED readQueue
    BY <2>1, <2>3 DEF TakeText, ResumeReceive, TypeOK, InTypes
  <2> QED BY <1>1, <2>2, <2>3 DEF HandleTtyRead
<1>2. CASE ResumeRead
  BY <1>2 DEF ResumeRead, TakeText, ResumeReceive, TypeOK, InTypes
<1>3. ASSUME NEW u \in Ttys, NEW n \in 0..MaxLine, TrapReceiveHandler(u, n)
      PROVE  \/ readReady[t] = 1 /\ readQueue[t] # <<>> /\ ~ResumeReceive
             \/ curr_proc \in Range(runningQueue')
                /\ kstack'[curr_proc].site = "recv" /\ kstack'[curr_proc].tty = t
  <2>1. kstack[curr_proc].site = "user" /\ ReceiveLoop(u, 1)
    BY <1>3 DEF TrapReceiveHandler, UserMode
  <2>2. CASE u = t
    BY <1>3, <2>1, <2>2, ReceivedText, LoopHands
  <2>3. CASE u # t
    BY <1>3, <2>1, <2>3
       DEF TrapReceiveHandler, ReceiveLoop, ServeReader, ResumeReceive, TypeOK, InTypes
  <2> QED BY <2>2, <2>3
<1>4. CASE ResumeReceive
  <2> DEFINE u == kstack[curr_proc].tty
             ready == IF inputBuffer[u] = <<>> THEN -1 ELSE readReady[u]
  <2>1. u \in Ttys
    BY <1>4, FrameTypes DEF TypeOK, SchedTypes, ResumeReceive, TtySites
  <2>2. readReady' = [readReady EXCEPT ![u] = ready] /\ ReceiveLoop(u, ready)
        /\ inputBuffer' = inputBuffer
    BY <1>4 DEF ResumeReceive
  <2>3. CASE u = t
    <3>1. ready = 1 /\ inputBuffer[t] # <<>>
      BY <2>2, <2>3 DEF TypeOK, InTypes
    <3> QED BY <2>1, <2>2, <2>3, <3>1, LoopHands
  <2>4. CASE u # t
    BY <2>1, <2>2, <2>4 DEF ReceiveLoop, ServeReader, TypeOK, InTypes
  <2> QED BY <2>3, <2>4
<1>5. CASE UNCHANGED inVars /\ ~ResumeReceive
  BY <1>5 DEF inVars
<1>6. CASE \/ HandleFork \/ HandleWait \/ ResumeWait \/ TrapClockHandler \/ ResumeTransmit
           \/ \E status \in Statuses : HandleExit(status)
           \/ HandleExec \/ HandleBrk \/ TrapIllegalHandler \/ TrapMathHandler \/ TrapMemoryHandler
           \/ \E n \in 1..MaxTicks : HandleDelay(n)
           \/ \E u \in Ttys : HandleTtyWrite(u) \/ TrapTransmitHandler(u)
  <2>1. UNCHANGED inVars
    BY <1>6 DEF HandleFork, HandleWait, ResumeWait, TrapClockHandler, ResumeTransmit, HandleExit,
                HandleExec, HandleBrk, TrapIllegalHandler, TrapMathHandler, TrapMemoryHandler,
                TerminateProcess, FreesPages, HandleDelay, HandleTtyWrite, TrapTransmitHandler, ttyVars
  <2>2. ~ResumeReceive
    BY <1>6 DEF HandleFork, HandleWait, ResumeWait, TrapClockHandler, ResumeTransmit, HandleExit,
                HandleExec, HandleBrk, TrapIllegalHandler, TrapMathHandler, TrapMemoryHandler,
                HandleDelay, HandleTtyWrite, TrapTransmitHandler, UserProgram, UserMode, ResumeReceive
  <2> QED BY <1>5, <2>1, <2>2
<1>7. CASE UNCHANGED vars
  BY <1>4, <1>5, <1>7 DEF vars, ttyVars
<1> QED BY <1>1, <1>2, <1>3, <1>4, <1>6, <1>7 DEF Next, Halted

LEMMA StepReaderWoken ==
  ASSUME TypeOK, PlaceInv, ProcessInv, ReadReadyExact, ReaderWillBeWoken, [Next]_vars
  PROVE  ReaderWillBeWoken'
<1>1. CASE UNCHANGED vars
  BY <1>1 DEF vars, procVars, ttyVars, inVars, ReaderWillBeWoken
<1>2. CASE ~UNCHANGED vars
  <2> SUFFICES ASSUME ~halted', NEW t \in Ttys, readReady'[t] = 1, readQueue'[t] # <<>>
               PROVE  \E p : Serves(p, "recv", t)'
    BY DEF ReaderWillBeWoken, Serves
  <2>1. ~halted /\ ~halted'
    BY <1>2, HaltedStops
  <2>2. CpuMoves
    BY <2>1, HowTheCpuMoves
  <2>3. CASE /\ curr_proc \in Range(runningQueue')
             /\ kstack'[curr_proc].site = "recv" /\ kstack'[curr_proc].tty = t
    BY <2>3 DEF Serves
  <2>4. CASE readReady[t] = 1 /\ readQueue[t] # <<>> /\ ~(ResumeReceive /\ kstack[curr_proc].tty = t)
    <3>1. PICK p : Serves(p, "recv", t)
      BY <2>1, <2>4 DEF ReaderWillBeWoken, Serves
    <3>2. p # curr_proc
      <4>1. ~ResumeTransmit \/ kstack[curr_proc].site = "xmit"
        BY DEF ResumeTransmit
      <4> QED BY <1>2, <2>4, <3>1, <4>1, BusyInKernel DEF Serves
    <3> QED BY <2>1, <2>2, <3>1, <3>2, StillServes
  <2> QED BY <2>1, <2>3, <2>4, ReadersWait
<1> QED BY <1>1, <1>2

\* Where a terminal is free and somebody waits to write, this was so before the
\* step, or the step has just switched away inside the transmit handler.
LEMMA WritersWait ==
  ASSUME TypeOK, [Next]_vars,
         NEW t \in Ttys, writeReady'[t] = 1, writeQueue'[t] # <<>>
  PROVE  \/ writeReady[t] = 1 /\ writeQueue[t] # <<>>
            /\ ~(ResumeTransmit /\ kstack[curr_proc].tty = t)
         \/ TrapTransmitHandler(t)
<1>1. ASSUME NEW u \in Ttys, HandleTtyWrite(u)
      PROVE  writeReady[t] = 1 /\ writeQueue[t] # <<>> /\ ~ResumeTransmit
  BY <1>1 DEF HandleTtyWrite, TtyTransmit, UserProgram, UserMode, ResumeTransmit, TypeOK, OutTypes
<1>2. ASSUME NEW u \in Ttys, TrapTransmitHandler(u), u # t
      PROVE  writeReady[t] = 1 /\ writeQueue[t] # <<>> /\ ~ResumeTransmit
  BY <1>2 DEF TrapTransmitHandler, UserMode, ResumeTransmit, TypeOK, OutTypes
<1>3. CASE ResumeTransmit
  <2> DEFINE u == kstack[curr_proc].tty
  <2>1. u \in Ttys
    BY <1>3, FrameTypes DEF TypeOK, SchedTypes, ResumeTransmit, TtySites
  <2>2. CASE NextMayTransmit(u)
    <3>1. /\ writeReady'[u] = -1
          /\ u # t => writeReady'[t] = writeReady[t] /\ writeQueue'[t] = writeQueue[t]
      BY <1>3, <2>1, <2>2 DEF ResumeTransmit, TransmitNext, TtyTransmit, TypeOK, OutTypes
    <3> QED BY <3>1
  <2>3. CASE ~NextMayTransmit(u) /\ UNCHANGED outVars
    BY <2>3 DEF NextMayTransmit, outVars
  <2> QED BY <1>3, <2>2, <2>3 DEF ResumeTransmit
<1>4. CASE UNCHANGED outVars /\ ~ResumeTransmit
  BY <1>4 DEF outVars
<1>5. CASE \/ HandleFork \/ HandleWait \/ ResumeWait \/ TrapClockHandler
           \/ ResumeRead \/ ResumeReceive
           \/ \E status \in Statuses : HandleExit(status)
           \/ HandleExec \/ HandleBrk \/ TrapIllegalHandler \/ TrapMathHandler \/ TrapMemoryHandler
           \/ \E n \in 1..MaxTicks : HandleDelay(n)
           \/ \E u \in Ttys, n \in 1..MaxLine : HandleTtyRead(u, n)
           \/ \E u \in Ttys, n \in 0..MaxLine : TrapReceiveHandler(u, n)
  <2>1. UNCHANGED outVars
    BY <1>5 DEF HandleFork, HandleWait, ResumeWait, TrapClockHandler, ResumeRead, ResumeReceive,
                HandleExit, HandleExec, HandleBrk, TrapIllegalHandler, TrapMathHandler, TrapMemoryHandler,
                TerminateProcess, FreesPages, HandleDelay, HandleTtyRead, TrapReceiveHandler, ttyVars
  <2>2. ~ResumeTransmit
    BY <1>5 DEF HandleFork, HandleWait, ResumeWait, TrapClockHandler, ResumeRead, ResumeReceive,
                HandleExit, HandleExec, HandleBrk, TrapIllegalHandler, TrapMathHandler, TrapMemoryHandler,
                HandleDelay, HandleTtyRead, TrapReceiveHandler, UserProgram, UserMode, ResumeTransmit
  <2> QED BY <1>4, <2>1, <2>2
<1>6. CASE UNCHANGED vars
  BY <1>3, <1>4, <1>6 DEF vars, ttyVars
<1> QED BY <1>1, <1>2, <1>3, <1>5, <1>6 DEF Next, Halted

LEMMA StepWriterWoken ==
  ASSUME TypeOK, PlaceInv, ProcessInv, ReadReadyExact, WriterWillBeWoken, [Next]_vars
  PROVE  WriterWillBeWoken'
<1>1. CASE UNCHANGED vars
  BY <1>1 DEF vars, procVars, ttyVars, outVars, WriterWillBeWoken
<1>2. CASE ~UNCHANGED vars
  <2> SUFFICES ASSUME ~halted', NEW t \in Ttys, writeReady'[t] = 1, writeQueue'[t] # <<>>
               PROVE  \E p : Serves(p, "xmit", t)'
    BY DEF WriterWillBeWoken, Serves
  <2>1. ~halted /\ ~halted'
    BY <1>2, HaltedStops
  <2>2. CpuMoves
    BY <2>1, HowTheCpuMoves
  <2>3. CASE TrapTransmitHandler(t)
    <3>1. transmitPCB[t] \in Pid /\ transmitPCB[t] # curr_proc
      BY <2>1, <2>3, BlockedFacts, ListedPids DEF TrapTransmitHandler, Blocked
    <3>2. curr_proc \in Range(runningQueue') /\ kstack'[curr_proc] = TtyFrame("xmit", t, 0)
      BY <2>3, <3>1, PreemptHands DEF TrapTransmitHandler
    <3> QED BY <3>2 DEF Serves, TtyFrame
  <2>4. CASE writeReady[t] = 1 /\ writeQueue[t] # <<>> /\ ~(ResumeTransmit /\ kstack[curr_proc].tty = t)
    <3>1. PICK p : Serves(p, "xmit", t)
      BY <2>1, <2>4 DEF WriterWillBeWoken, Serves
    <3>2. p # curr_proc
      <4>1. ~ResumeReceive \/ kstack[curr_proc].site = "recv"
        BY DEF ResumeReceive
      <4> QED BY <1>2, <2>4, <3>1, <4>1, BusyInKernel DEF Serves
    <3> QED BY <2>1, <2>2, <3>1, <3>2, StillServes
  <2> QED BY <2>3, <2>4, WritersWait
<1> QED BY <1>1, <1>2
----------------------------------------------------------------------------
(***************************************************************************)
(* Whom the CPU is handed to in the middle of a handler.  A reader gets it *)
(* only from the receive handler, a writer only from the transmit handler. *)
(***************************************************************************)
LEMMA StepReaderFindsText ==
  ASSUME TypeOK, PlaceInv, ProcessInv, ReadReadyExact, ReaderFindsText, [Next]_vars
  PROVE  ReaderFindsText'
<1>1. CASE UNCHANGED vars
  BY <1>1 DEF vars, ttyVars, inVars, ReaderFindsText
<1>2. CASE halted'
  <2>1. PlaceInv'
    BY StepPlaceInv
  <2> QED BY <1>2, <2>1 DEF PlaceInv, ReaderFindsText
<1>3. CASE ~halted' /\ ~UNCHANGED vars
  <2>1. CpuMoves /\ ~halted
    BY <1>3, HaltedStops, HowTheCpuMoves
  <2>2. CASE GoesOn
    BY <1>3, <2>2 DEF GoesOn, ReaderFindsText
  <2>3. ASSUME NEW q, HandsTo(q), kstack[q].site # "read" PROVE ReaderFindsText'
    <3>1. kstack[q] \in Frames
      BY <2>3 DEF HandsTo, TypeOK, SchedTypes
    <3>2. Resumed(kstack[q]).site # "read"
      BY <2>3, <3>1 DEF Resumed, User, Frame
    <3> QED BY <2>3, <3>2 DEF HandsTo, ReaderFindsText
  <2>4. ASSUME NEW t \in Ttys, HandsToReader(t) PROVE ReaderFindsText'
    <3> DEFINE q == Head(readQueue[t])
    <3>1. /\ HandsTo(q) /\ kstack[q].site = "read" /\ kstack[q].tty = t
          /\ inputBuffer'[t] # <<>>
      BY <2>4 DEF HandsToReader
    <3> HIDE DEF q
    <3>2. curr_proc' = q /\ kstack'[q] = kstack[q]
      BY <3>1 DEF HandsTo, Resumed, Returning
    <3> QED BY <3>1, <3>2 DEF ReaderFindsText
  <2>5. ASSUME NEW t \in Ttys, HandsToWriter(t) PROVE ReaderFindsText'
    <3>1. HandsTo(transmitPCB[t]) /\ kstack[transmitPCB[t]].site = "write"
      BY <2>1, <2>5, BlockedFacts DEF HandsToWriter, TrapTransmitHandler, TransmitSites
    <3> QED BY <3>1, <2>3
  <2> QED BY <2>1, <2>2, <2>3, <2>4, <2>5 DEF CpuMoves, Runnable
<1> QED BY <1>1, <1>2, <1>3

LEMMA StepWriteReturns ==
  ASSUME TypeOK, PlaceInv, ProcessInv, ReadReadyExact, [Next]_vars,
         NEW p \in Pid, kstack[p].site = "write", kstack'[p].site # "write"
  PROVE  \E t \in Ttys : /\ t = kstack[p].tty
                         /\ p = transmitPCB[t]
                         /\ transmitting[t] = 1 /\ transmitting'[t] = 0
<1>1. ~UNCHANGED vars /\ ~halted
  BY HaltedStops DEF vars
<1>2. p # curr_proc
  BY <1>1, BlockedFacts DEF CurrSite
<1>3. CASE halted'
  BY <1>1, <1>3, HaltingStep
<1>4. CASE ~halted'
  <2>1. CpuMoves
    BY <1>1, <1>4, HowTheCpuMoves
  <2>2. ~GoesOn
    BY <1>2 DEF GoesOn
  <2>3. ASSUME NEW q, HandsTo(q) PROVE p = q
    BY <1>2, <2>3 DEF HandsTo
  <2>4. ASSUME NEW q, HandsTo(q), kstack[q].site \in Runnable \cup {"read"} PROVE FALSE
    BY <2>3, <2>4 DEF Runnable
  <2>5. PICK t \in Ttys : HandsToWriter(t)
    BY <2>1, <2>2, <2>4 DEF CpuMoves, HandsToReader
  <2>6. p = transmitPCB[t] /\ transmitting[t] > 0
    BY <2>3, <2>5 DEF HandsToWriter, TrapTransmitHandler
  <2>7. kstack[p].tty = t /\ transmitting[t] = 1
    BY <1>1, <2>6, BlockedFacts DEF TransmitSites
  <2>8. transmitting'[t] = 0
    BY <2>5, <2>7 DEF HandsToWriter, TrapTransmitHandler, TypeOK, OutTypes
  <2> QED BY <2>6, <2>7, <2>8
<1> QED BY <1>3, <1>4
----------------------------------------------------------------------------
TerminalInv ==
  /\ TypeOK /\ PlaceInv /\ ProcessInv
  /\ ReadReadyExact /\ ReaderFindsText /\ ReaderWillBeWoken /\ WriterWillBeWoken

LEMMA InitTerminals ==
  Init => ReadReadyExact /\ ReaderFindsText /\ ReaderWillBeWoken /\ WriterWillBeWoken
<1> SUFFICES ASSUME Init
             PROVE  ReadReadyExact /\ ReaderFindsText /\ ReaderWillBeWoken /\ WriterWillBeWoken
  OBVIOUS
<1>1. kstack[curr_proc].site = "user"
  BY PidFacts DEF Init, CreateInitProcess, Idle, First, User, Frame
<1>2. ReaderFindsText
  BY <1>1 DEF ReaderFindsText
<1>3. ReadReadyExact /\ ReaderWillBeWoken /\ WriterWillBeWoken
  BY DEF Init, initKernel, ReadReadyExact, ReaderWillBeWoken, WriterWillBeWoken
<1> QED BY <1>2, <1>3

LEMMA TerminalInvariants == Spec => []TerminalInv
<1>1. Init => TerminalInv
  BY InitTypeOK, InitPlaces, InitProcesses, InitTerminals DEF TerminalInv
<1>2. TerminalInv /\ [Next]_vars => TerminalInv'
  BY StepTypeOK, StepPlaceInv, StepProcessInv, StepReadReady, StepReaderFindsText,
     StepReaderWoken, StepWriterWoken DEF TerminalInv
<1> QED BY <1>1, <1>2, PTL DEF Spec

\* The flag readReady never disagrees with inputBuffer.
THEOREM ReadReadyTellsText == Spec => []ReadReadyExact
<1>1. TerminalInv => ReadReadyExact
  BY DEF TerminalInv
<1> QED BY <1>1, TerminalInvariants, PTL

\* A reader that the receive handler resumes finds its text.
THEOREM ResumedReaderFindsText == Spec => []ReaderFindsText
<1>1. TerminalInv => ReaderFindsText
  BY DEF TerminalInv
<1> QED BY <1>1, TerminalInvariants, PTL

\* Nobody waits in readQueue beside a text that no handler is about to hand out.
THEOREM NoReaderForgotten == Spec => []ReaderWillBeWoken
<1>1. TerminalInv => ReaderWillBeWoken
  BY DEF TerminalInv
<1> QED BY <1>1, TerminalInvariants, PTL

\* Nobody waits in writeQueue for a free terminal that no handler will give it.
THEOREM NoWriterForgotten == Spec => []WriterWillBeWoken
<1>1. TerminalInv => WriterWillBeWoken
  BY DEF TerminalInv
<1> QED BY <1>1, TerminalInvariants, PTL

\* A process leaves TtyWrite only at the end of its own transmission.
THEOREM WritesEndInTransmission == Spec => WriteReturnsWhenDone
<1>1. TerminalInv /\ [Next]_vars =>
        [\A p \in Pid :
           kstack[p].site = "write" /\ kstack'[p].site # "write" =>
             \E t \in Ttys : /\ t = kstack[p].tty
                             /\ p = transmitPCB[t]
                             /\ transmitting[t] = 1 /\ transmitting'[t] = 0]_vars
  BY StepWriteReturns DEF TerminalInv
<1> QED BY <1>1, TerminalInvariants, PTL DEF Spec, WriteReturnsWhenDone
============================================================================
