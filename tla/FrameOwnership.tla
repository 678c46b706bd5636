--------------------------- MODULE FrameOwnership ---------------------------
(***************************************************************************)
(* What the handlers of module Memory promise about physical frames,       *)
(* without page tables, lists or counts: a frame is free, or the kernel's, *)
(* or one process's, and a system call touches no frame of anybody but its *)
(* caller.  Once the list of free frames has been broken nothing holds.    *)
(***************************************************************************)
EXTENDS FiniteSets

CONSTANTS Frame, Pid, Free, Kernel     \* Free and Kernel are not in Pid

Owner == Pid \cup {Free, Kernel}

VARIABLES
  owner,    \* owner[f]: who has frame f
  broken    \* a frame that is not free has been handed out as free

Of(who) == {f \in Frame : owner[f] = who}

Init ==
  /\ owner = [f \in Frame |-> Free]
  /\ broken = FALSE

\* From who's frames and the free ones, to who, the free and the kernel.
Moves(from, to) ==
  \A f \in Frame : owner'[f] # owner[f] => owner[f] \in from /\ owner'[f] \in to

\* p's address space changes.  What the kernel has it keeps.
Resize(p) == Moves({Free, p}, {Free, p, Kernel})

\* A child gets as many frames as its parent has, all of them free before.
Spawn(p, c) ==
  /\ p # c /\ Of(c) = {}
  /\ Moves({Free}, {c, Kernel})
  /\ Cardinality({f \in Frame : owner'[f] = c}) = Cardinality(Of(p))

\* The kernel takes free frames, for page tables and for its heap.
KernelGrows == Moves({Free}, {Kernel})

Break == ~broken /\ broken'

Moved ==
  \/ \E p \in Pid : Resize(p)
  \/ \E p, c \in Pid : Spawn(p, c)
  \/ KernelGrows

Next ==
  \/ Break
  \/ ~broken' /\ UNCHANGED broken /\ owner' \in [Frame -> Owner] /\ Moved

Spec == Init /\ [][Next]_<<owner, broken>>
============================================================================
