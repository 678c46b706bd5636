------------------------------- MODULE Fifos -------------------------------
(***************************************************************************)
(* What the callers of linked_list.c rely on: lists are FIFO queues, from  *)
(* which an element can also be taken by name, and the clock handler moves *)
(* what is due from one to another, in order, and misses none.  There is   *)
(* room for so many elements in all the lists: an element too many is      *)
(* dropped without a word, but the clock handler drops none.               *)
(***************************************************************************)
EXTENDS Integers, Sequences, SequencesExt, FiniteSets

CONSTANTS
  Lists, Data,
  DelayQ, RunQ,    \* delay_queue and runningQueue, two of Lists
  None,            \* the null pointer, or no list
  Room             \* the elements there is memory for

VARIABLES
  fifo,       \* fifo[l]: the contents of l
  retired,    \* lists whose contents were destroyed and that nobody may use
  due,        \* what the clock handler has yet to move, {} when it is not at it
  walking,    \* the clock handler is at it
  last        \* the last call: the operation, the list, and the element

fifoVars == <<fifo, retired, due, walking, last>>

Call(op, l, x) == [op |-> op, list |-> l, data |-> x]

Init ==
  /\ fifo = [l \in Lists |-> <<>>]
  /\ retired = {}
  /\ due = {}
  /\ walking = FALSE
  /\ last = Call("none", None, None)

Usable(l) == ~walking /\ l \notin retired

Elements == UNION {{l} \X Range(fifo[l]) : l \in Lists}

Enqueue(l, x) ==
  /\ Usable(l) /\ x \notin Range(fifo[l])
  /\ fifo' = IF Cardinality(Elements) = Room THEN fifo
             ELSE [fifo EXCEPT ![l] = Append(@, x)]
  /\ last' = Call("enqueue", l, x)
  /\ UNCHANGED <<retired, due, walking>>

Dequeue(l) ==
  /\ Usable(l)
  /\ \/ fifo[l] = <<>> /\ last' = Call("dequeue", l, None) /\ UNCHANGED fifo
     \/ /\ fifo[l] # <<>>
        /\ fifo' = [fifo EXCEPT ![l] = Tail(@)]
        /\ last' = Call("dequeue", l, Head(fifo[l]))
  /\ UNCHANGED <<retired, due, walking>>

Peek(l) ==
  /\ Usable(l)
  /\ last' = Call("peek", l, IF fifo[l] = <<>> THEN None ELSE Head(fifo[l]))
  /\ UNCHANGED <<fifo, retired, due, walking>>

TakeOut(l, x) ==
  /\ Usable(l)
  /\ fifo' = [fifo EXCEPT ![l] = RemoveFirst(@, x)]
  /\ last' = Call("remove", l, IF x \in Range(fifo[l]) THEN x ELSE None)
  /\ UNCHANGED <<retired, due, walking>>

Retire(l) ==
  /\ Usable(l)
  /\ fifo' = [fifo EXCEPT ![l] = <<>>]
  /\ retired' = retired \cup {l}
  /\ last' = Call("retire", l, None)
  /\ UNCHANGED <<due, walking>>

Begin(S) ==
  /\ Usable(DelayQ) /\ Usable(RunQ) /\ fifo[DelayQ] # <<>>
  /\ S \subseteq Range(fifo[DelayQ])
  /\ due' = S
  /\ walking' = TRUE
  /\ last' = Call("walk", DelayQ, None)
  /\ UNCHANGED <<fifo, retired>>

\* x is the first in DelayQ that is due.
Move(x) ==
  /\ walking /\ x \in due
  /\ \E n \in 1..Len(fifo[DelayQ]) :
       /\ fifo[DelayQ][n] = x
       /\ \A m \in 1..(n - 1) : fifo[DelayQ][m] \notin due
  /\ fifo' = [fifo EXCEPT ![DelayQ] = RemoveFirst(@, x), ![RunQ] = Append(@, x)]
  /\ due' = due \ {x}
  /\ UNCHANGED <<retired, walking, last>>

End ==
  /\ walking /\ due = {}
  /\ walking' = FALSE
  /\ UNCHANGED <<fifo, retired, due, last>>

Next ==
  \/ \E l \in Lists, x \in Data : Enqueue(l, x) \/ TakeOut(l, x)
  \/ \E l \in Lists : Dequeue(l) \/ Peek(l) \/ Retire(l)
  \/ \E S \in SUBSET Data : Begin(S)
  \/ \E x \in Data : Move(x)
  \/ End

Spec == Init /\ [][Next]_fifoVars
============================================================================
