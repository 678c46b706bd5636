------------------------------ MODULE MCYalnix ------------------------------
(***************************************************************************)
(* Small instances of the kernel.  The assumption compares Keep, which is  *)
(* defined without recursion so that it can be proved about, with          *)
(* SelectSeq on all short lists.                                           *)
(***************************************************************************)
EXTENDS Promises

ASSUME KeepIsSelectSeq ==
  \A n \in 0..4 : \A list \in [1..n -> 0..2], S \in SUBSET (0..2) :
    LET in(x) == x \in S IN Keep(list, S) = SelectSeq(list, in)
============================================================================
