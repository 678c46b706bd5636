----------------------------- MODULE LinkedList -----------------------------
(***************************************************************************)
(* linked_list.c down to its pointers: nodes that malloc hands out and     *)
(* free takes back, doubly linked, with a head and a tail per list; and    *)
(* the loop of the clock handler, which unlinks and frees nodes of the     *)
(* list it is walking along, while it allocates nodes for another.         *)
(*                                                                         *)
(* Definitions whose name ends in Fault are faulty forms of the one that   *)
(* follows: each breaks a property.                                        *)
(***************************************************************************)
EXTENDS Integers, Sequences, SequencesExt, FiniteSets

CONSTANTS
  Addr,            \* where malloc can put a node
  Lists, Data,     \* the lists, and the PCBs in them
  DelayQ, RunQ,    \* delay_queue and runningQueue, two of Lists
  None             \* the null pointer, or no list

ASSUME ListAssumption ==
  /\ DelayQ \in Lists /\ RunQ \in Lists /\ DelayQ # RunQ
  /\ None \notin Addr \cup Data \cup Lists
  /\ IsFiniteSet(Addr)

VARIABLES
  node,       \* node[a]: the ListNode at a; Garbage where none is allocated
  head, tail, \* head[l], tail[l]
  retired,    \* lists whose contents were destroyed
  temp,       \* the clock handler's place in DelayQ
  due,        \* of those it has yet to look at, those whose delay is over
  walking,    \* the clock handler is in its loop
  last        \* the last call: the operation, the list, and the element

listVars == <<node, head, tail>>
vars == <<listVars, retired, temp, due, walking, last>>

Call(op, l, x) == [op |-> op, list |-> l, data |-> x]

Garbage == [data |-> None, next |-> None, previous |-> None, allocated |-> FALSE]
Node(x, before) == [data |-> x, next |-> None, previous |-> before, allocated |-> TRUE]
Allocated == {a \in Addr : node[a].allocated}

\* The nodes of l in order, along next, as far as there are addresses.
Path(l) ==
  LET at[n \in 0..Cardinality(Addr)] ==
        IF n = 0 THEN head[l]
        ELSE IF at[n - 1] = None THEN None ELSE node[at[n - 1]].next
      size == Cardinality({n \in DOMAIN at : at[n] # None})
  IN  [n \in 1..size |-> at[n - 1]]

Contents(l) == LET path == Path(l) IN [n \in DOMAIN path |-> node[path[n]].data]
----------------------------------------------------------------------------
(***************************************************************************)
(* The pieces of the operations, on h = [node, head, tail].                *)
(***************************************************************************)
Now == [node |-> node, head |-> head, tail |-> tail]

Becomes(h) == node' = h.node /\ head' = h.head /\ tail' = h.tail

\* malloc: any address that is not allocated, or NULL.
Malloc(h) ==
  LET free == {a \in Addr : ~h.node[a].allocated} IN IF free = {} THEN {None} ELSE free

Linked(h, l, x, a) ==
  IF h.head[l] = None /\ h.tail[l] = None
    THEN [h EXCEPT !.node[a] = Node(x, None), !.head[l] = a, !.tail[l] = a]
    ELSE [h EXCEPT !.node = [@ EXCEPT ![a] = Node(x, h.tail[l]), ![h.tail[l]].next = a],
                   !.tail[l] = a]

\* enqueueToList with the address malloc returned; without one it gives up.
Enqueued(h, l, x, a) == IF a = None THEN h ELSE Linked(h, l, x, a)

Freed(h, a) == [h EXCEPT !.node[a] = Garbage]

WithoutHead(h, l) ==
  LET next == h.node[h.head[l]].next IN
  IF next = None THEN [h EXCEPT !.head[l] = None, !.tail[l] = None]
  ELSE [h EXCEPT !.head[l] = next, !.node[next].previous = None]

\* The middle node's successor keeps its link to it.
Unlinked_Fault(h, l, a) ==
  LET next == h.node[a].next  before == h.node[a].previous IN
  IF h.head[l] = h.tail[l] THEN [h EXCEPT !.head[l] = None, !.tail[l] = None]
  ELSE IF a = h.head[l] THEN [h EXCEPT !.head[l] = next, !.node[next].previous = None]
  ELSE IF a = h.tail[l] THEN [h EXCEPT !.tail[l] = before, !.node[before].next = None]
  ELSE [h EXCEPT !.node[before].next = next]

\* SearchAndRemovePCB, once the node is found: the only node, the first, the
\* last, or one in the middle.
Unlinked(h, l, a) ==
  LET next == h.node[a].next  before == h.node[a].previous IN
  IF h.head[l] = h.tail[l] THEN [h EXCEPT !.head[l] = None, !.tail[l] = None]
  ELSE IF a = h.head[l] THEN [h EXCEPT !.head[l] = next, !.node[next].previous = None]
  ELSE IF a = h.tail[l] THEN [h EXCEPT !.tail[l] = before, !.node[before].next = None]
  ELSE [h EXCEPT !.node[before].next = next, !.node[next].previous = before]
----------------------------------------------------------------------------
IsLinkedListEmpty(l) == head[l] = None

\* The first node's data that is x, or NULL.
SearchAndReturnPCB(l, x) == IF x \in Range(Contents(l)) THEN x ELSE None

\* The kernel runs one handler at a time: no other call while it walks.
Usable(l) == ~walking /\ l \notin retired

Idling == UNCHANGED <<retired, temp, due, walking>>

\* A process is in a list at most once (Yalnix!OnePlace).
enqueueToList(l, x) ==
  /\ Usable(l) /\ x \notin Range(Contents(l))
  /\ \E a \in Malloc(Now) : Becomes(Enqueued(Now, l, x, a))
  /\ last' = Call("enqueue", l, x)
  /\ Idling

dequeueFromList(l) ==
  /\ Usable(l)
  /\ IF IsLinkedListEmpty(l) THEN last' = Call("dequeue", l, None) /\ UNCHANGED listVars
     ELSE /\ Becomes(Freed(WithoutHead(Now, l), head[l]))
          /\ last' = Call("dequeue", l, node[head[l]].data)
  /\ Idling

peekFromList(l) ==
  /\ Usable(l)
  /\ last' = Call("peek", l, IF IsLinkedListEmpty(l) THEN None ELSE node[head[l]].data)
  /\ UNCHANGED listVars
  /\ Idling

SearchAndRemovePCB(l, x) ==
  /\ Usable(l)
  /\ \/ /\ x \notin Range(Contents(l))
        /\ last' = Call("remove", l, None)
        /\ UNCHANGED listVars
     \/ \E a \in Range(Path(l)) :
          /\ node[a].data = x
          /\ Becomes(Freed(Unlinked(Now, l, a), a))
          /\ last' = Call("remove", l, x)
  /\ Idling

\* freeListContents, and freeListContentsExitChildren, which frees the data as
\* well, when the PCB with list l is about to be freed.
freeListContents(l) ==
  /\ Usable(l) /\ l \notin {DelayQ, RunQ}
  /\ node' = [a \in Addr |-> IF a \in Range(Path(l)) THEN Garbage ELSE node[a]]
  /\ retired' = retired \cup {l}
  /\ last' = Call("retire", l, None)
  /\ UNCHANGED <<head, tail, temp, due, walking>>
----------------------------------------------------------------------------
(***************************************************************************)
(* The loop of TrapClockHandler over delay_queue.  S are the processes     *)
(* whose delay is over.                                                    *)
(***************************************************************************)
WalkBegins(S) ==
  /\ Usable(DelayQ) /\ Usable(RunQ) /\ ~IsLinkedListEmpty(DelayQ)
  /\ S \subseteq Range(Contents(DelayQ)) /\ Range(Contents(RunQ)) \cap S = {}
  /\ walking' = TRUE
  /\ temp' = head[DelayQ]
  /\ due' = S
  /\ last' = Call("walk", DelayQ, None)
  /\ UNCHANGED <<listVars, retired>>

\* temp->next is read when the node has been freed and another put elsewhere.
NextPlace_Fault(after) == after.node[temp].next

\* temp2, read before the node is freed.
NextPlace(after) == node[temp].next

\* temp->data is due: off DelayQ, on to RunQ, at whatever address.
WalkMoves ==
  /\ walking /\ temp # None /\ node[temp].data \in due
  /\ LET x == SearchAndReturnPCB(DelayQ, node[temp].data)
         h == Freed(Unlinked(Now, DelayQ, temp), temp)
     IN \E a \in Malloc(h) :
          /\ Becomes(Enqueued(h, RunQ, x, a))
          /\ temp' = NextPlace(Enqueued(h, RunQ, x, a))
          /\ due' = due \ {x}
  /\ UNCHANGED <<retired, walking, last>>

\* The loop does not go on past a process that is not due.
WalkPasses_Fault ==
  /\ walking /\ temp # None /\ node[temp].data \notin due
  /\ UNCHANGED vars

WalkPasses ==
  /\ walking /\ temp # None /\ node[temp].data \notin due
  /\ temp' = node[temp].next
  /\ UNCHANGED <<listVars, retired, due, walking, last>>

WalkEnds ==
  /\ walking /\ temp = None
  /\ walking' = FALSE
  /\ UNCHANGED <<listVars, retired, temp, due, last>>

Walk == WalkMoves \/ WalkPasses \/ WalkEnds

Init ==
  /\ node = [a \in Addr |-> Garbage]
  /\ head = [l \in Lists |-> None]
  /\ tail = [l \in Lists |-> None]
  /\ retired = {}
  /\ temp = None
  /\ due = {}
  /\ walking = FALSE
  /\ last = Call("none", None, None)

Next ==
  \/ \E l \in Lists, x \in Data : enqueueToList(l, x)
  \/ \E l \in Lists : dequeueFromList(l)
  \/ \E l \in Lists : peekFromList(l)
  \/ \E l \in Lists, x \in Data : SearchAndRemovePCB(l, x)
  \/ \E l \in Lists : freeListContents(l)
  \/ \E S \in SUBSET Data : WalkBegins(S)
  \/ WalkMoves
  \/ WalkPasses
  \/ WalkEnds

Spec == Init /\ [][Next]_vars

\* The loop runs on without interruption.
FairSpec == Spec /\ WF_vars(Walk)
----------------------------------------------------------------------------
\* The links hold together whatever was put in and taken out where: along next
\* every list comes to its tail, along previous back to its head, no node is
\* in two lists, none in a list is freed, and every allocated node is in one.
WellLinked ==
  /\ \A l \in Lists \ retired :
       LET path == Path(l) IN
       /\ IsInjective(path) /\ Range(path) \subseteq Allocated
       /\ head[l] = IF path = <<>> THEN None ELSE path[1]
       /\ tail[l] = IF path = <<>> THEN None ELSE path[Len(path)]
       /\ \A n \in DOMAIN path :
            /\ node[path[n]].next = IF n = Len(path) THEN None ELSE path[n + 1]
            /\ node[path[n]].previous = IF n = 1 THEN None ELSE path[n - 1]
  /\ \A l, m \in Lists \ retired : l # m => Range(Path(l)) \cap Range(Path(m)) = {}
  /\ Allocated = UNION {Range(Path(l)) : l \in Lists \ retired}

\* The clock handler's loop comes to an end, though nodes it has freed come
\* back in the list it appends to.
WalkTerminates == walking ~> ~walking

\* The lists are the queues their callers take them for, as long as malloc has
\* a node for them; and the clock handler, which frees one first, always has.
Abstract == INSTANCE Fifos WITH
  Room <- Cardinality(Addr),
  fifo <- [l \in Lists |-> IF l \in retired THEN <<>> ELSE Contents(l)]

FifosSpec == Abstract!Spec
============================================================================
