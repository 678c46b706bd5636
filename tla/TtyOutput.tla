----------------------------- MODULE TtyOutput -----------------------------
(***************************************************************************)
(* What TtyWrite promises about a terminal: one writer has it, until the   *)
(* hardware is done with his line; the others wait in the order they came, *)
(* and who has been waiting longest is next.  A newcomer may take a        *)
(* terminal that is free although others wait for it.                      *)
(***************************************************************************)
EXTENDS Sequences, SequencesExt

CONSTANTS Ttys, Procs, Nobody

VARIABLES
  writer,    \* writer[t]: who has terminal t
  waiting    \* waiting[t]: who waits for it

ttyOutVars == <<writer, waiting>>

Init ==
  /\ writer = [t \in Ttys |-> Nobody]
  /\ waiting = [t \in Ttys |-> <<>>]

\* p is blocked in TtyWrite.
Writing(p) == \E t \in Ttys : writer[t] = p \/ p \in Range(waiting[t])

Take(t, p) ==
  /\ writer[t] = Nobody /\ ~Writing(p)
  /\ writer' = [writer EXCEPT ![t] = p]
  /\ UNCHANGED waiting

Wait(t, p) ==
  /\ writer[t] # Nobody /\ ~Writing(p)
  /\ waiting' = [waiting EXCEPT ![t] = Append(@, p)]
  /\ UNCHANGED writer

Leave(t) ==
  /\ writer[t] # Nobody
  /\ writer' = [writer EXCEPT ![t] = Nobody]
  /\ UNCHANGED waiting

Succeed(t) ==
  /\ writer[t] = Nobody /\ waiting[t] # <<>>
  /\ writer' = [writer EXCEPT ![t] = Head(waiting[t])]
  /\ waiting' = [waiting EXCEPT ![t] = Tail(@)]

Next ==
  \E t \in Ttys :
    \/ \E p \in Procs : Take(t, p) \/ Wait(t, p)
    \/ Leave(t)
    \/ Succeed(t)

Spec == Init /\ [][Next]_ttyOutVars
============================================================================
