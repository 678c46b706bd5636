----------------------------- MODULE Terminals -----------------------------
(***************************************************************************)
(* Terminal input and output: TtyRead, TtyWrite and the receive and        *)
(* transmit interrupts.  Both interrupt handlers switch away in the middle *)
(* and finish only when the process they interrupted runs again.           *)
(***************************************************************************)
EXTENDS KernelState

\* Definitions whose name ends in Fault are faulty forms of the one that
\* follows: each breaks a property of module Yalnix.

\* The unread rest of a line: ptr bytes are read, length bytes are left.
Texts == {text \in [ptr : 0..MaxLine, length : 0..MaxLine] :
            text.ptr + text.length <= MaxLine}
----------------------------------------------------------------------------
(***************************************************************************)
(* TtyRead(t, buf, n), n > 0.  TakeText is the code behind the call of     *)
(* scheduleNextProcess, run at once when the terminal is ready to read and *)
(* otherwise on resumption.                                                *)
(***************************************************************************)
\* Whether other lines are left is not looked at.
NothingLeft_Fault(t, text) == text.length = 0

NothingLeft(t, text) == text.length = 0 /\ Tail(inputBuffer[t]) = <<>>

TakeText(t, n) ==
  LET text == Head(inputBuffer[t])
      copied == IF n < text.length THEN n ELSE text.length
      left == [ptr |-> text.ptr + copied, length |-> text.length - copied]
  IN
  /\ inputBuffer' = [inputBuffer EXCEPT ![t] =
                       (IF left.length = 0 THEN <<>> ELSE <<left>>) \o Tail(@)]
  /\ readReady' = [readReady EXCEPT ![t] = IF NothingLeft(t, left) THEN -1 ELSE @]

HandleTtyRead(t, n) ==
  /\ UserProgram
  /\ \/ /\ readReady[t] = -1
        /\ readQueue' = [readQueue EXCEPT ![t] = Append(@, curr_proc)]
        /\ scheduleNextProcess(TtyFrame("read", t, n))
        /\ UNCHANGED <<inputBuffer, readReady>>
     \/ /\ readReady[t] # -1
        /\ inputBuffer[t] # <<>>            \* else a NULL text is read
        /\ TakeText(t, n)
        /\ UNCHANGED <<curr_proc, runningQueue, kstack, readQueue>>
  /\ UNCHANGED <<wait_queue, runningTime, procVars, timeVars, outVars>>

ResumeRead ==
  LET t == kstack[curr_proc].tty IN
  /\ kstack[curr_proc].site = "read"
  /\ inputBuffer[t] # <<>>                  \* else a NULL text is read
  /\ TakeText(t, kstack[curr_proc].len)
  /\ ReturnToUser
  /\ UNCHANGED <<curr_proc, runningQueue, wait_queue, runningTime, readQueue,
                 procVars, timeVars, outVars>>
----------------------------------------------------------------------------
(***************************************************************************)
(* The receive interrupt.  ReceiveLoop is the code from the head of its    *)
(* loop to the next ContextSwitch: while somebody waits for text and there *)
(* is text, the first reader runs and the interrupted process waits for    *)
(* its turn.                                                               *)
(***************************************************************************)
\* The reader is made ready instead of being switched to.
ServeReader_ReadyFault(t) ==
  /\ readQueue' = [readQueue EXCEPT ![t] = Tail(@)]
  /\ runningQueue' = Append(runningQueue, Head(readQueue[t]))
  /\ ReturnToUser
  /\ UNCHANGED curr_proc

\* The reader is peeked at and stays in readQueue.
ServeReader_PeekFault(t) ==
  /\ PreemptBy(Head(readQueue[t]), TtyFrame("recv", t, 0))
  /\ UNCHANGED readQueue

\* The reader that came last is served first.
ServeReader_LifoFault(t) ==
  /\ PreemptBy(Last(readQueue[t]), TtyFrame("recv", t, 0))
  /\ readQueue' = [readQueue EXCEPT ![t] = Front(@)]

ServeReader(t) ==
  /\ PreemptBy(Head(readQueue[t]), TtyFrame("recv", t, 0))
  /\ readQueue' = [readQueue EXCEPT ![t] = Tail(@)]

ReceiveLoop(t, ready) ==
  IF readQueue[t] # <<>> /\ ready = 1
    THEN ServeReader(t)
    ELSE ReturnToUser /\ UNCHANGED <<curr_proc, runningQueue, readQueue>>

TrapReceiveHandler(t, n) ==
  /\ UserMode
  /\ Len(inputBuffer[t]) < MaxInput                          \* bound
  /\ inputBuffer' = [inputBuffer EXCEPT ![t] = Append(@, [ptr |-> 0, length |-> n])]
  /\ readReady' = [readReady EXCEPT ![t] = 1]
  /\ ReceiveLoop(t, 1)
  /\ UNCHANGED <<wait_queue, runningTime, procVars, timeVars, outVars>>

\* One reader is served, no loop.
ResumeReceive_Fault ==
  /\ kstack[curr_proc].site = "recv"
  /\ ReturnToUser
  /\ UNCHANGED <<curr_proc, runningQueue, wait_queue, runningTime, inVars,
                 procVars, timeVars, outVars>>

ResumeReceive ==
  LET t == kstack[curr_proc].tty
      ready == IF inputBuffer[t] = <<>> THEN -1 ELSE readReady[t]
  IN
  /\ kstack[curr_proc].site = "recv"
  /\ readReady' = [readReady EXCEPT ![t] = ready]
  /\ ReceiveLoop(t, ready)
  /\ UNCHANGED <<wait_queue, runningTime, inputBuffer, procVars, timeVars, outVars>>
----------------------------------------------------------------------------
(***************************************************************************)
(* TtyWrite(t, buf, n), n > 0.  The writer blocks whether or not it could  *)
(* start the transmission; what it writes is left out.                     *)
(***************************************************************************)
TtyTransmit(t, p) ==
  /\ writeReady' = [writeReady EXCEPT ![t] = -1]
  /\ transmitPCB' = [transmitPCB EXCEPT ![t] = p]
  /\ transmitting' = [transmitting EXCEPT ![t] = @ + 1]

HandleTtyWrite(t) ==
  /\ UserProgram
  /\ \/ /\ writeReady[t] = 1
        /\ TtyTransmit(t, curr_proc)
        /\ UNCHANGED writeQueue
     \/ /\ writeReady[t] # 1
        /\ writeQueue' = [writeQueue EXCEPT ![t] = Append(@, curr_proc)]
        /\ UNCHANGED <<writeReady, transmitPCB, transmitting>>
  /\ scheduleNextProcess(TtyFrame("write", t, 0))
  /\ UNCHANGED <<wait_queue, runningTime, procVars, timeVars, inVars>>

(***************************************************************************)
(* The transmit interrupt: the writer whose transmission is over runs and  *)
(* the interrupted process waits for its turn; when it runs again it       *)
(* starts the next transmission, if the terminal is still free.            *)
(***************************************************************************)
\* The writer is never resumed.
TrapTransmitHandler_Fault(t) ==
  /\ UserMode
  /\ transmitting[t] > 0
  /\ transmitting' = [transmitting EXCEPT ![t] = @ - 1]
  /\ writeReady' = [writeReady EXCEPT ![t] = 1]
  /\ UNCHANGED <<curr_proc, kstack, runningQueue, wait_queue, runningTime,
                 writeQueue, transmitPCB, procVars, timeVars, inVars>>

TrapTransmitHandler(t) ==
  /\ UserMode
  /\ transmitting[t] > 0
  /\ transmitting' = [transmitting EXCEPT ![t] = @ - 1]
  /\ writeReady' = [writeReady EXCEPT ![t] = 1]
  /\ PreemptBy(transmitPCB[t], TtyFrame("xmit", t, 0))
  /\ UNCHANGED <<wait_queue, runningTime, writeQueue, transmitPCB,
                 procVars, timeVars, inVars>>

\* Nobody who waits is served.
NextMayTransmit_NeverFault(t) == FALSE

\* Whether the terminal is still free is not checked again.
NextMayTransmit_BusyFault(t) == writeQueue[t] # <<>>

NextMayTransmit(t) == writeQueue[t] # <<>> /\ writeReady[t] = 1

\* Who came last is served first.
TransmitNext_LifoFault(t) ==
  /\ TtyTransmit(t, Last(writeQueue[t]))
  /\ writeQueue' = [writeQueue EXCEPT ![t] = Front(@)]

\* transmitPCB keeps naming the writer before.
TransmitNext_Fault(t) ==
  /\ TtyTransmit(t, transmitPCB[t])
  /\ writeQueue' = [writeQueue EXCEPT ![t] = Tail(@)]

TransmitNext(t) ==
  /\ TtyTransmit(t, Head(writeQueue[t]))
  /\ writeQueue' = [writeQueue EXCEPT ![t] = Tail(@)]

ResumeTransmit ==
  LET t == kstack[curr_proc].tty IN
  /\ kstack[curr_proc].site = "xmit"
  /\ IF NextMayTransmit(t) THEN TransmitNext(t) ELSE UNCHANGED outVars
  /\ ReturnToUser
  /\ UNCHANGED <<curr_proc, runningQueue, wait_queue, runningTime,
                 procVars, timeVars, inVars>>
============================================================================
