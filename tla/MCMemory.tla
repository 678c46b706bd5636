------------------------------ MODULE MCMemory ------------------------------
(***************************************************************************)
(* Small instances of Memory: a Region 0 of eight or nine pages, of which *)
(* six are the user's, and programs of two and three pages.                *)
(***************************************************************************)
EXTENDS Memory

Small == [text |-> 1, data |-> 0, stack |-> 1]
Large == [text |-> 1, data |-> 1, stack |-> 1]

MCPrograms == {Small, Large}
MCIdle == Small
MCInit == Small

(***************************************************************************)
(* The view of a state under which two states that differ only in which    *)
(* frame is which are one: a frame is replaced by the first place it has   *)
(* among the entries of the page tables and of the free list.  Handlers    *)
(* and properties treat all Low frames alike.                              *)
(***************************************************************************)
Entries ==
  LET user == [n \in 1..(MaxPid + 1) * PAGE_TABLE_LEN |->
                 pgt_r0[(n - 1) \div PAGE_TABLE_LEN][(n - 1) % PAGE_TABLE_LEN]]
      kernel == [n \in 1..HeapPages |-> mem.pgt_r1[n]]
  IN  user \o kernel \o mem.free

FirstPlaces ==
  LET entries == Entries
  IN  [n \in DOMAIN entries |->
         IF entries[n] \in Frame THEN Min({m \in 1..n : entries[m] = entries[n]}) ELSE 0]

View ==
  <<[mem EXCEPT !.free = Len(@), !.pgt_r1 = Valid(@)], phase, live, pid_counter, brk,
    uStack_bottom, slot, result, FirstPlaces>>
============================================================================
