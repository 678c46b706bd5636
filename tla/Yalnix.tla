------------------------------- MODULE Yalnix -------------------------------
(***************************************************************************)
(* The Yalnix kernel after KernelStart: the process handlers and the       *)
(* terminal handlers over the state they share, and what makes that state  *)
(* right.                                                                  *)
(***************************************************************************)
EXTENDS Processes, Terminals

\* The queues are empty; terminals have nothing to read and may be written to.
initKernel ==
  /\ runningQueue = <<>>
  /\ delay_queue = <<>>
  /\ wait_queue = <<>>
  /\ inputBuffer = [t \in Ttys |-> <<>>]
  /\ readReady = [t \in Ttys |-> -1]
  /\ writeReady = [t \in Ttys |-> 1]
  /\ readQueue = [t \in Ttys |-> <<>>]
  /\ writeQueue = [t \in Ttys |-> <<>>]
  /\ transmitPCB = [t \in Ttys |-> NULL]
  /\ transmitting = [t \in Ttys |-> 0]

\* KernelStart has made idle and switched to init, which is loaded and about
\* to enter user mode; idle is suspended inside CreateInitProcess.
CreateInitProcess ==
  /\ curr_proc = First
  /\ pid_counter = First + 1
  /\ halted = FALSE
  /\ pcb = [p \in Pid |-> IF p \in {Idle, First} THEN "live" ELSE "none"]
  /\ parent = [p \in Pid |-> IF p = First THEN Idle ELSE NULL]
  /\ running_children = [p \in Pid |-> IF p = Idle THEN <<First>> ELSE <<>>]
  /\ exited_children = [p \in Pid |-> <<>>]
  /\ processQueue = <<First>>
  /\ runningTime = [p \in Pid |-> 0]
  /\ delay_left = [p \in Pid |-> 0]
  /\ kstack = [p \in Pid |-> IF p = Idle THEN Frame("boot") ELSE User]

Init == initKernel /\ CreateInitProcess

\* Halt stops the machine.
Halted == halted /\ UNCHANGED vars

Resume == ResumeWait \/ ResumeRead \/ ResumeReceive \/ ResumeTransmit

Next ==
  \/ HandleFork
  \/ \E status \in Statuses : HandleExit(status)
  \/ HandleExec
  \/ HandleBrk
  \/ TrapIllegalHandler
  \/ TrapMathHandler
  \/ TrapMemoryHandler
  \/ HandleWait
  \/ \E n \in 1..MaxTicks : HandleDelay(n)
  \/ TrapClockHandler
  \/ \E t \in Ttys, n \in 1..MaxLine : HandleTtyRead(t, n)
  \/ \E t \in Ttys : HandleTtyWrite(t)
  \/ \E t \in Ttys, n \in 0..MaxLine : TrapReceiveHandler(t, n)
  \/ \E t \in Ttys : TrapTransmitHandler(t)
  \/ ResumeWait
  \/ ResumeRead
  \/ ResumeReceive
  \/ ResumeTransmit
  \/ Halted

Spec == Init /\ [][Next]_vars

(***************************************************************************)
(* Kernel code runs on by itself.  The clock ticks, and a transmission     *)
(* ends; the hardware holds either interrupt until the machine is in user  *)
(* mode, so user mode again and again is enough.  User programs and the    *)
(* people at the terminals owe the kernel nothing.                         *)
(***************************************************************************)
Fairness ==
  /\ WF_vars(Resume)
  /\ SF_vars(TrapClockHandler)
  /\ \A t \in Ttys : SF_vars(TrapTransmitHandler(t))

FairSpec == Spec /\ Fairness
----------------------------------------------------------------------------
ProcTypes ==
  /\ pid_counter \in 2..MaxPid + 1
  /\ halted \in BOOLEAN
  /\ pcb \in [Pid -> {"none", "live", "failed", "freed"}]
  /\ parent \in [Pid -> Pid \cup {NULL}]
  /\ running_children \in [Pid -> Seq(Pid)]
  /\ exited_children \in [Pid -> Seq([pid : Pid, status : Statuses])]
  /\ processQueue \in Seq(Pid)

SchedTypes ==
  /\ curr_proc \in Pid
  /\ runningQueue \in Seq(Pid)
  /\ wait_queue \in Seq(Pid)
  /\ runningTime \in [Pid -> 0..1]
  /\ kstack \in [Pid -> Frames]

TimeTypes ==
  /\ delay_queue \in Seq(Pid)
  /\ delay_left \in [Pid -> 0..MaxTicks]

InTypes ==
  /\ inputBuffer \in [Ttys -> Seq(Texts)]
  /\ readReady \in [Ttys -> {-1, 1}]
  /\ readQueue \in [Ttys -> Seq(Pid)]

OutTypes ==
  /\ writeReady \in [Ttys -> {-1, 1}]
  /\ writeQueue \in [Ttys -> Seq(Pid)]
  /\ transmitPCB \in [Ttys -> Pid \cup {NULL}]
  /\ transmitting \in [Ttys -> Nat]
  /\ \A t \in Ttys : transmitting[t] > 0 => transmitPCB[t] # NULL

\* The variables have their types; a running transmission has a writer.
TypeOK == ProcTypes /\ SchedTypes /\ TimeTypes /\ InTypes /\ OutTypes
----------------------------------------------------------------------------
(***************************************************************************)
(* Where a process is: on the CPU, or in one list, or transmitting.        *)
(***************************************************************************)
Live == {p \in Pid : pcb[p] = "live"}

InPlace(p, place, t) ==
  \/ place = "cpu"      /\ t = NULL   /\ p = curr_proc
  \/ place = "ready"    /\ t = NULL   /\ p \in Range(runningQueue)
  \/ place = "delay"    /\ t = NULL   /\ p \in Range(delay_queue)
  \/ place = "wait"     /\ t = NULL   /\ p \in Range(wait_queue)
  \/ place = "read"     /\ t \in Ttys /\ p \in Range(readQueue[t])
  \/ place = "write"    /\ t \in Ttys /\ p \in Range(writeQueue[t])
  \/ place = "transmit" /\ t \in Ttys /\ p = transmitPCB[t] /\ transmitting[t] > 0

PlacesOf(p) ==
  {x \in {"cpu", "ready", "delay", "wait", "read", "write", "transmit"}
           \X (Ttys \cup {NULL}) : InPlace(p, x[1], x[2])}

\* Every process is in one place, and once: the handlers move a PCB between
\* the lists and never lose it, list it twice, or run it while it is listed.
\* Idle alone may be in no list, and it never blocks.  Nobody else is listed.
OnePlace ==
  halted \/
  /\ IsInjective(runningQueue)
  /\ IsInjective(delay_queue)
  /\ IsInjective(wait_queue)
  /\ \A t \in Ttys : IsInjective(readQueue[t]) /\ IsInjective(writeQueue[t])
  /\ \A p \in Live \ {Idle} : \E x \in PlacesOf(p) : PlacesOf(p) = {x}
  /\ PlacesOf(Idle) \in {{<<"cpu", NULL>>}, {<<"ready", NULL>>}, {}}
  /\ \A p \in Pid \ Live : PlacesOf(p) = {}

\* The family links agree both ways and never lead to a freed PCB, so that
\* notifyParent and notifyChildren write to no freed memory: a child names its
\* parent and is listed by it, until one of the two terminates.
FamilyConsistent ==
  /\ \A p \in Pid : pcb[p] \in {"none", "freed"} =>
       parent[p] = NULL /\ running_children[p] = <<>> /\ exited_children[p] = <<>>
  /\ \A p \in Pid : IsInjective(running_children[p])
  /\ \A p, c \in Pid : c \in Range(running_children[p]) <=> parent[c] = p
  /\ \A c \in Pid : parent[c] # NULL => pcb[parent[c]] = "live"

\* A process is blocked in Wait only while it has a child and none of its
\* children has exited; one that Wait has resumed finds a status to collect,
\* however many handlers ran between the exit and the resumption.
WaitAnswered ==
  /\ \A p \in Range(wait_queue) :
       exited_children[p] = <<>> /\ running_children[p] # <<>>
  /\ \A p \in Live \ Range(wait_queue) :
       kstack[p].site = "wait" => exited_children[p] # <<>>

\* The kernel halts when the last process but idle has terminated (README:
\* "When all processes except idle have terminated").  It halts before only
\* inside a call of a process that is still there, whose page it cannot free;
\* never once the process is gone and others, blocked ones say, are left.
HaltedWhenDone ==
  /\ Live = {Idle} => halted
  /\ halted => Live = {Idle} \/ pcb[curr_proc] = "live"
  /\ Range(processQueue) = Live \ {Idle}
----------------------------------------------------------------------------
\* The flag readReady is set exactly while there is a text to read, so that no
\* TtyRead looks at the head of an empty inputBuffer.
ReadReadyExact ==
  \A t \in Ttys : readReady[t] = 1 <=> inputBuffer[t] # <<>>

\* A reader that the receive handler resumes finds the text it was resumed
\* for: nothing runs in between that could take it.
ReaderFindsText ==
  kstack[curr_proc].site = "read" => inputBuffer[kstack[curr_proc].tty] # <<>>

\* No lost wakeup of a reader: while there is text and somebody waits for it,
\* an interrupted process is still inside the loop of TrapReceiveHandler, and
\* it is running or ready.
ReaderWillBeWoken ==
  halted \/ \A t \in Ttys :
    readReady[t] = 1 /\ readQueue[t] # <<>> =>
      \E p \in Range(runningQueue) \cup {curr_proc} :
        kstack[p].site = "recv" /\ kstack[p].tty = t

\* No lost wakeup of a writer: while the terminal is free and somebody waits
\* to write, an interrupted process has yet to finish TrapTransmitHandler.
WriterWillBeWoken ==
  halted \/ \A t \in Ttys :
    writeReady[t] = 1 /\ writeQueue[t] # <<>> =>
      \E p \in Range(runningQueue) \cup {curr_proc} :
        kstack[p].site = "xmit" /\ kstack[p].tty = t

\* The terminal transmits one line at a time, for a process that is blocked in
\* TtyWrite on it; TtyTransmit is never called while the terminal is busy.
OneTransmission ==
  halted \/ \A t \in Ttys :
    /\ transmitting[t] = IF writeReady[t] = 1 THEN 0 ELSE 1
    /\ transmitting[t] = 1 =>
         /\ transmitPCB[t] \in Live
         /\ kstack[transmitPCB[t]].site = "write" /\ kstack[transmitPCB[t]].tty = t

\* TtyWrite returns when the writer's own line has been transmitted, not when
\* that of another has.
WriteReturnsWhenDone ==
  [][\A p \in Pid :
       kstack[p].site = "write" /\ kstack'[p].site # "write" =>
         \E t \in Ttys : /\ t = kstack[p].tty
                         /\ p = transmitPCB[t]
                         /\ transmitting[t] = 1 /\ transmitting'[t] = 0]_vars
----------------------------------------------------------------------------
\* The CPU goes to idle only when no process is ready.
IdleOnlyWhenNoneReady ==
  [][curr_proc # Idle /\ curr_proc' = Idle => runningQueue' = <<>>]_vars

\* A blocked process still has a child that can end its Wait.
WaiterHasChild ==
  \A p \in Range(wait_queue) :
    \E c \in Range(running_children[p]) : pcb[c] = "live"

\* A process starts its time slice anew when it gets the CPU.
FreshSlice ==
  [][curr_proc' # curr_proc => runningTime'[curr_proc'] = 0]_vars
----------------------------------------------------------------------------
\* Round robin: a ready process gets the CPU, whatever the others do, unless
\* the kernel halts for want of memory.
ReadyRuns ==
  \A p \in Pid \ {Idle} : p \in Range(runningQueue) ~> curr_proc = p \/ halted

\* A process that delays itself gets back to its program, or the kernel halts.
DelayEnds ==
  \A p \in Pid \ {Idle} :
    p \in Range(delay_queue) ~> (curr_proc = p /\ kstack[p].site = "user") \/ halted

\* A process whose line is being transmitted gets back to its program, or the
\* kernel halts.
WriteEnds ==
  \A t \in Ttys, p \in Pid \ {Idle} :
    transmitting[t] = 1 /\ transmitPCB[t] = p ~>
      (curr_proc = p /\ kstack[p].site = "user") \/ halted

\* A write or a read that finds the terminal free while others wait for it.
OvertakesWriter(t) ==
  writeReady[t] = 1 /\ writeQueue[t] # <<>> /\ HandleTtyWrite(t)
OvertakesReader(t) ==
  readReady[t] = 1 /\ readQueue[t] # <<>> /\ \E n \in 1..MaxLine : HandleTtyRead(t, n)

\* A process in writeQueue gets to transmit, unless others overtake it for ever
\* or the kernel halts.
QueuedWriterServed ==
  \A t \in Ttys, p \in Pid \ {Idle} :
    \/ p \in Range(writeQueue[t]) ~> p \notin Range(writeQueue[t]) \/ halted
    \/ []<><<OvertakesWriter(t)>>_vars

\* A process in readQueue is resumed if lines keep coming, unless others
\* overtake it for ever or the kernel halts.
QueuedReaderServed ==
  \A t \in Ttys, p \in Pid \ {Idle} :
    \/ p \in Range(readQueue[t]) ~> p \notin Range(readQueue[t]) \/ halted
    \/ []<><<OvertakesReader(t)>>_vars
    \/ <>[][\A n \in 0..MaxLine : ~TrapReceiveHandler(t, n)]_vars
============================================================================
