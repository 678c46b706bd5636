---------------------------- MODULE MemoryProofs ----------------------------
(***************************************************************************)
(* The frames stay in order, for any number of frames, pages, programs and *)
(* processes: each has one owner, none is lost, the count is one short,    *)
(* heap and stack never meet, and no call touches anybody else's memory.   *)
(***************************************************************************)
EXTENDS Memory, TLAPS, FiniteSetTheorems, FunctionTheorems, SequenceTheorems

Entry == Frame \cup {NoFrame, KernelFrame}

\* The frames in a page table, and the frames of the kernel, the free ones
\* among them.
FramesIn(table) == {table[i] : i \in DOMAIN table} \cap Frame
KFrames(k) == Range(k.free) \cup FramesIn(k.pgt_r1)

\* No frame backs two pages of the table.
OneEach(table) ==
  \A i, j \in DOMAIN table : table[i] \in Frame /\ table[i] = table[j] => i = j

\* list has the elements of S, each once.
Lists(list, S) ==
  /\ list \in Seq(S)
  /\ IsInjective(list)
  /\ Range(list) = S

LEMMA Numbers ==
  /\ LowFrames \in Nat /\ HighFrames \in Nat /\ MEM_INVALID_PAGES \in Nat
  /\ HeapPages \in Nat \ {0} /\ MaxPid \in Nat /\ KERNEL_STACK_PAGES \in Nat \ {0}
  /\ PAGE_TABLE_LEN \in Nat /\ StackLimit \in Nat /\ MEM_INVALID_PAGES < StackLimit
  /\ NoFrame \notin Frame /\ KernelFrame \notin Frame /\ NoFrame # KernelFrame
  /\ Frame \subseteq Int /\ Page \subseteq Nat
  /\ KStack = (StackLimit + 1)..(PAGE_TABLE_LEN - 1) /\ KStack \subseteq Page
  /\ StackLimit \in Page
BY MemoryAssumption, BootFits
   DEF Frame, NoFrame, KernelFrame, Page, KStack, StackLimit
----------------------------------------------------------------------------
(***************************************************************************)
(* Lists of numbers.                                                       *)
(***************************************************************************)
\* Ranks in a finite set of numbers differ, so that every rank up to the
\* number of elements occurs.
LEMMA RankFacts ==
  ASSUME NEW S \in SUBSET Int, IsFiniteSet(S)
  PROVE  LET rank(i) == Cardinality({j \in S : j <= i}) IN
         /\ Cardinality(S) \in Nat
         /\ \A i, j \in S : rank(i) = rank(j) => i = j
         /\ \A k \in 1..Cardinality(S) : \E i \in S : rank(i) = k
         /\ \A i \in S : rank(i) \in 1..Cardinality(S)
<1> DEFINE upto(i) == {j \in S : j <= i}
           rank == [i \in S |-> Cardinality(upto(i))]
           ranks == 1..Cardinality(S)
<1>1. Cardinality(S) \in Nat
  BY FS_CardinalityType
<1>2. ASSUME NEW i \in S
      PROVE  IsFiniteSet(upto(i)) /\ Cardinality(upto(i)) \in ranks
  <2>1. upto(i) \in SUBSET S /\ i \in upto(i)
    OBVIOUS
  <2>2. IsFiniteSet(upto(i)) /\ Cardinality(upto(i)) <= Cardinality(S)
        /\ Cardinality(upto(i)) \in Nat
    BY <2>1, FS_Subset, FS_CardinalityType
  <2>3. Cardinality(upto(i)) # 0
    BY <2>1, <2>2, FS_EmptySet
  <2> QED BY <1>1, <2>2, <2>3
<1>3. ASSUME NEW i \in S, NEW j \in S, i < j
      PROVE  Cardinality(upto(i)) # Cardinality(upto(j))
  <2>1. \A x \in S : x <= i => x <= j
    BY <1>3
  <2>2. ~ (j <= i) /\ j <= j
    BY <1>3
  <2>3. upto(i) \in SUBSET upto(j) /\ j \in upto(j) /\ j \notin upto(i)
    BY <2>1, <2>2
  <2> QED BY <1>2, <2>3, FS_Subset
<1>4. rank \in [S -> ranks]
  BY <1>2
<1>5. \A i, j \in S : rank[i] = rank[j] => i = j
  <2> SUFFICES ASSUME NEW i \in S, NEW j \in S, rank[i] = rank[j] PROVE i = j
    OBVIOUS
  <2>1. i < j \/ j < i \/ i = j
    OBVIOUS
  <2> QED BY <1>3, <2>1
<1>6. rank \in Injection(S, ranks)
  BY <1>4, <1>5, Fun_IsInj
<1>7. IsFiniteSet(ranks) /\ Cardinality(ranks) = Cardinality(S)
  BY <1>1, FS_Interval
<1>8. rank \in Surjection(S, ranks)
  BY <1>6, <1>7, FS_Injection
<1> QED BY <1>1, <1>2, <1>5, <1>8 DEF Surjection

LEMMA AscendingLists ==
  ASSUME NEW S \in SUBSET Int, IsFiniteSet(S)
  PROVE  Lists(Ascending(S), S) /\ Len(Ascending(S)) = Cardinality(S)
<1> DEFINE rank(i) == Cardinality({j \in S : j <= i})
           nth(n) == CHOOSE i \in S : rank(i) = n
           c == Cardinality(S)
           list == [n \in 1..c |-> nth(n)]
<1>1. /\ c \in Nat
      /\ \A i, j \in S : rank(i) = rank(j) => i = j
      /\ \A k \in 1..c : \E i \in S : rank(i) = k
      /\ \A i \in S : rank(i) \in 1..c
  BY RankFacts
<1>2. \A n \in 1..c : nth(n) \in S /\ rank(nth(n)) = n
  BY <1>1
<1>3. list = Ascending(S)
  BY DEF Ascending
<1> HIDE DEF nth, rank, c
<1>4. list \in Seq(S) /\ Len(list) = c
  BY <1>1, <1>2
<1>5. IsInjective(list)
  <2> SUFFICES ASSUME NEW m \in 1..c, NEW n \in 1..c, list[m] = list[n] PROVE m = n
    BY DEF IsInjective
  <2> QED BY <1>2
<1>6. ASSUME NEW i \in S PROVE i \in Range(list)
  <2>1. rank(i) \in 1..c /\ list[rank(i)] = nth(rank(i))
    BY <1>1
  <2>2. nth(rank(i)) = i
    BY <1>1, <1>2, <2>1
  <2> QED BY <2>1, <2>2 DEF Range
<1>7. Range(list) \subseteq S
  BY <1>2 DEF Range
<1> QED BY <1>3, <1>4, <1>5, <1>6, <1>7 DEF Lists, c

LEMMA ReverseLists ==
  ASSUME NEW S, NEW list, Lists(list, S)
  PROVE  Lists(Reverse(list), S) /\ Len(Reverse(list)) = Len(list)
<1> DEFINE n == Len(list)
<1>1. n \in Nat /\ list \in [1..n -> S] /\ DOMAIN list = 1..n
  BY LenProperties DEF Lists
<1>2. \A i \in 1..n : n - i + 1 \in 1..n /\ Reverse(list)[i] = list[n - i + 1]
  BY <1>1 DEF Reverse
<1>3. Reverse(list) \in Seq(S) /\ Len(Reverse(list)) = n /\ DOMAIN Reverse(list) = 1..n
  BY <1>1 DEF Reverse
<1>4. IsInjective(Reverse(list))
  <2> SUFFICES ASSUME NEW i \in 1..n, NEW j \in 1..n,
                      Reverse(list)[i] = Reverse(list)[j]
               PROVE  i = j
    BY <1>3 DEF IsInjective
  <2>1. n - i + 1 = n - j + 1
    BY <1>1, <1>2 DEF Lists, IsInjective
  <2> QED BY <1>1, <2>1
<1>5. ASSUME NEW x \in Range(list) PROVE x \in Range(Reverse(list))
  <2>1. PICK i \in 1..n : list[i] = x
    BY <1>1 DEF Range
  <2>2. n - i + 1 \in 1..n /\ n - (n - i + 1) + 1 = i
    BY <1>1
  <2>3. Reverse(list)[n - i + 1] = x
    BY <1>2, <2>1, <2>2
  <2> QED BY <1>3, <2>2, <2>3 DEF Range
<1>6. Range(Reverse(list)) \subseteq S
  BY <1>1, <1>2, <1>3 DEF Range
<1> QED BY <1>3, <1>4, <1>5, <1>6 DEF Lists

\* The two ends of a list without repetition have nothing in common.
LEMMA Split ==
  ASSUME NEW T, NEW list \in Seq(T), IsInjective(list), NEW n \in 0..Len(list)
  PROVE  LET front == SubSeq(list, 1, n)
             back  == SubSeq(list, n + 1, Len(list))
         IN  /\ front \in Seq(T) /\ Len(front) = n /\ IsInjective(front)
             /\ back \in Seq(T) /\ Len(back) = Len(list) - n /\ IsInjective(back)
             /\ Range(front) \cap Range(back) = {}
             /\ Range(list) = Range(front) \cup Range(back)
<1> DEFINE front == SubSeq(list, 1, n)
           back  == SubSeq(list, n + 1, Len(list))
<1>1. Len(list) \in Nat /\ DOMAIN list = 1..Len(list) /\ list \in [1..Len(list) -> T]
  BY LenProperties
<1>2. /\ front \in Seq(T) /\ Len(front) = n /\ DOMAIN front = 1..n
      /\ \A i \in 1..n : front[i] = list[i]
  <2>1. \A i \in 1..n : list[i] \in T
    BY <1>1
  <2> QED BY <1>1, <2>1, SubSeqProperties, LenProperties
<1>3. /\ back \in Seq(T) /\ Len(back) = Len(list) - n /\ DOMAIN back = 1..(Len(list) - n)
      /\ \A i \in 1..(Len(list) - n) : back[i] = list[n + i]
  <2>1. \A i \in (n + 1)..Len(list) : list[i] \in T
    BY <1>1
  <2>2. /\ back \in Seq(T)
        /\ Len(back) = IF n + 1 <= Len(list) THEN Len(list) - (n + 1) + 1 ELSE 0
        /\ \A i \in 1..(Len(list) - (n + 1) + 1) : back[i] = list[(n + 1) + i - 1]
    BY <1>1, <2>1, SubSeqProperties
  <2>3. Len(back) = Len(list) - n /\ Len(list) - (n + 1) + 1 = Len(list) - n
    <3> DEFINE l == Len(list)
               b == Len(back)
    <3>1. l \in Nat /\ n \in 0..l /\ b = IF n + 1 <= l THEN l - (n + 1) + 1 ELSE 0
      BY <1>1, <2>2
    <3> HIDE DEF l, b
    <3>2. b = l - n /\ l - (n + 1) + 1 = l - n
      BY <3>1
    <3> QED BY <3>2 DEF l, b
  <2>4. \A i \in 1..(Len(list) - n) : (n + 1) + i - 1 = n + i
    BY <1>1
  <2> QED BY <2>2, <2>3, <2>4, LenProperties
<1> HIDE DEF front, back
<1>4. IsInjective(front) /\ IsInjective(back)
  <2>1. ASSUME NEW i \in 1..n, NEW j \in 1..n, front[i] = front[j] PROVE i = j
    <3>1. i \in DOMAIN list /\ j \in DOMAIN list /\ list[i] = list[j]
      BY <1>1, <1>2, <2>1
    <3> QED BY <3>1 DEF IsInjective
  <2>2. ASSUME NEW i \in 1..(Len(list) - n), NEW j \in 1..(Len(list) - n), back[i] = back[j]
        PROVE  i = j
    <3>1. n + i \in DOMAIN list /\ n + j \in DOMAIN list /\ list[n + i] = list[n + j]
      BY <1>1, <1>3, <2>2
    <3>2. n + i = n + j
      BY <3>1 DEF IsInjective
    <3> QED BY <1>1, <3>2
  <2> QED BY <1>2, <1>3, <2>1, <2>2 DEF IsInjective
<1>5. ASSUME NEW i \in 1..n, NEW j \in 1..(Len(list) - n) PROVE front[i] # back[j]
  <2>1. i \in DOMAIN list /\ n + j \in DOMAIN list /\ i # n + j
    BY <1>1
  <2> QED BY <1>2, <1>3, <2>1 DEF IsInjective
<1>6. ASSUME NEW i \in 1..Len(list) PROVE list[i] \in Range(front) \cup Range(back)
  <2>1. CASE i <= n
    BY <1>2, <2>1 DEF Range
  <2>2. CASE i > n
    <3>1. i - n \in 1..(Len(list) - n) /\ n + (i - n) = i
      BY <1>1, <2>2
    <3> QED BY <1>3, <3>1 DEF Range
  <2> QED BY <1>1, <2>1, <2>2
<1>7. Range(front) \cup Range(back) \subseteq Range(list)
  <2>1. ASSUME NEW i \in 1..n PROVE front[i] \in Range(list)
    <3>1. i \in DOMAIN list
      BY <1>1
    <3> QED BY <1>2, <3>1 DEF Range
  <2>2. ASSUME NEW i \in 1..(Len(list) - n) PROVE back[i] \in Range(list)
    <3>1. n + i \in DOMAIN list
      BY <1>1
    <3> QED BY <1>3, <3>1 DEF Range
  <2>3. Range(front) \subseteq Range(list)
    BY <1>2, <2>1 DEF Range
  <2>4. Range(back) \subseteq Range(list)
    BY <1>3, <2>2 DEF Range
  <2> QED BY <2>3, <2>4
<1>8. Range(front) \cap Range(back) = {}
  BY <1>2, <1>3, <1>5 DEF Range
<1>9. Range(list) = Range(front) \cup Range(back)
  BY <1>1, <1>6, <1>7 DEF Range
<1> QED BY <1>2, <1>3, <1>4, <1>8, <1>9 DEF front, back
----------------------------------------------------------------------------
(***************************************************************************)
(* Page tables: frames are given to pages that have none, or taken away.   *)
(***************************************************************************)
\* The pages in S have no frame yet, and the frames, one for each, are new.
Room(D, table, S, pages, frames) ==
  /\ table \in [D -> Entry] /\ OneEach(table)
  /\ S \subseteq D /\ \A i \in S : table[i] = NoFrame
  /\ Lists(pages, S)
  /\ frames \in Seq(Frame) /\ IsInjective(frames) /\ Len(frames) = Len(pages)
  /\ FramesIn(table) \cap Range(frames) = {}

\* M is the table in which the pages in S have got the frames.
Filled(D, table, S, frames, M) ==
  /\ M \in [D -> Entry] /\ OneEach(M)
  /\ FramesIn(M) = FramesIn(table) \cup Range(frames)
  /\ \A i \in D \ S : M[i] = table[i]
  /\ \A i \in S : M[i] \in Frame

LEMMA MappedFacts ==
  ASSUME NEW D, NEW table, NEW S, NEW pages, NEW frames, Room(D, table, S, pages, frames)
  PROVE  Filled(D, table, S, frames, Mapped(table, pages, frames))
<1> DEFINE M == Mapped(table, pages, frames)
<1>0. /\ table \in [D -> Entry] /\ OneEach(table)
      /\ S \subseteq D /\ \A i \in S : table[i] = NoFrame
      /\ Lists(pages, S)
      /\ frames \in Seq(Frame) /\ IsInjective(frames) /\ Len(frames) = Len(pages)
      /\ FramesIn(table) \cap Range(frames) = {}
  BY DEF Room
<1> DEFINE at(i) == CHOOSE n \in DOMAIN pages : pages[n] = i
           dom == 1..Len(pages)
<1>1. DOMAIN pages = dom /\ DOMAIN frames = dom /\ \A n \in dom : frames[n] \in Frame
  BY <1>0, LenProperties DEF Lists
<1>2. \A i \in S : at(i) \in dom /\ pages[at(i)] = i
  BY <1>0, <1>1 DEF Lists, Range
<1>3. \A i \in S : M[i] = frames[at(i)]
  BY <1>0 DEF Mapped, Lists
<1>4. DOMAIN M = D /\ \A i \in D \ S : M[i] = table[i]
  BY <1>0 DEF Mapped, Lists
<1>5. \A n \in dom : pages[n] \in S /\ at(pages[n]) = n
  BY <1>0, <1>1, <1>2 DEF Lists, Range, IsInjective
<1>6. M = [i \in D |-> M[i]]
  BY <1>0 DEF Mapped
<1> HIDE DEF at, dom, M
<1>7. \A i \in S : M[i] \in Frame /\ M[i] \in Range(frames)
  BY <1>0, <1>1, <1>2, <1>3 DEF Range
<1>8. M \in [D -> Entry]
  <2>1. \A i \in D : M[i] \in Entry
    BY <1>0, <1>4, <1>7 DEF Entry
  <2> QED BY <1>0, <1>6, <2>1
<1>9. OneEach(M)
  <2> SUFFICES ASSUME NEW i \in D, NEW j \in D, M[i] \in Frame, M[i] = M[j] PROVE i = j
    BY <1>0, <1>4 DEF OneEach
  <2>1. CASE i \in S /\ j \in S
    <3>1. at(i) = at(j)
      BY <1>0, <1>1, <1>2, <1>3, <2>1 DEF IsInjective
    <3> QED BY <1>0, <1>2, <2>1, <3>1
  <2>2. CASE i \notin S /\ j \notin S
    BY <1>0, <1>4, <2>2 DEF OneEach
  <2>3. \A x \in D \ S : M[x] \in Frame => M[x] \notin Range(frames)
    BY <1>0, <1>4 DEF FramesIn
  <2> QED BY <1>0, <1>7, <2>1, <2>2, <2>3
<1>10. ASSUME NEW f \in FramesIn(M) PROVE f \in FramesIn(table) \cup Range(frames)
  <2>1. PICK i \in D : f = M[i] /\ f \in Frame
    BY <1>0, <1>4 DEF FramesIn
  <2> QED BY <1>0, <1>4, <1>7, <2>1 DEF FramesIn
<1>11. ASSUME NEW f \in Range(frames) PROVE f \in FramesIn(M)
  <2>1. PICK n \in dom : f = frames[n]
    BY <1>0, <1>1 DEF Range
  <2>2. pages[n] \in D /\ M[pages[n]] = f /\ f \in Frame
    BY <1>0, <1>1, <1>3, <1>5, <2>1
  <2> QED BY <1>0, <1>4, <2>2 DEF FramesIn
<1>12. ASSUME NEW f \in FramesIn(table) PROVE f \in FramesIn(M)
  <2>1. PICK i \in D : f = table[i] /\ f \in Frame
    BY <1>0 DEF FramesIn
  <2>2. i \notin S
    BY <1>0, <2>1, Numbers
  <2> QED BY <1>0, <1>4, <2>1, <2>2 DEF FramesIn
<1> QED BY <1>0, <1>4, <1>7, <1>8, <1>9, <1>10, <1>11, <1>12 DEF Filled, M

\* What the entries of the pages in S hold.
Backing(table, S) == {table[i] : i \in S}

\* The frames of the pages in a list, in that order.
FramesOf(table, pages) == [n \in 1..Len(pages) |-> table[pages[n]]]

LEMMA ListedFrames ==
  ASSUME NEW table, OneEach(table), NEW S, S \subseteq DOMAIN table,
         Backing(table, S) \subseteq Frame,
         NEW pages, Lists(pages, S), NEW frames, frames = FramesOf(table, pages)
  PROVE  /\ frames \in Seq(Frame) /\ IsInjective(frames) /\ Len(frames) = Len(pages)
         /\ Range(frames) = Backing(table, S)
<1> DEFINE dom == 1..Len(pages)
<1>1. Len(pages) \in Nat /\ DOMAIN pages = dom /\ \A n \in dom : pages[n] \in S
  BY LenProperties DEF Lists
<1>2. DOMAIN frames = dom /\ \A n \in dom : frames[n] = table[pages[n]] /\ frames[n] \in Frame
  BY <1>1 DEF FramesOf, Backing
<1>3. frames \in Seq(Frame) /\ Len(frames) = Len(pages)
  BY <1>1, <1>2 DEF FramesOf
<1>4. IsInjective(frames)
  <2> SUFFICES ASSUME NEW m \in dom, NEW n \in dom, frames[m] = frames[n] PROVE m = n
    BY <1>2 DEF IsInjective
  <2>1. pages[m] = pages[n]
    BY <1>1, <1>2 DEF OneEach
  <2> QED BY <1>1, <2>1 DEF Lists, IsInjective
<1>5. ASSUME NEW i \in S PROVE table[i] \in Range(frames)
  <2>1. PICK n \in dom : pages[n] = i
    BY <1>1 DEF Lists, Range
  <2> QED BY <1>2, <2>1 DEF Range
<1>6. Range(frames) \subseteq Backing(table, S)
  BY <1>1, <1>2 DEF Range, Backing
<1>7. Range(frames) = Backing(table, S)
  BY <1>5, <1>6 DEF Backing
<1> QED BY <1>3, <1>4, <1>7

\* A table without the pages in S.
Without(table, S) == [i \in DOMAIN table |-> IF i \in S THEN NoFrame ELSE table[i]]

LEMMA WithoutFacts ==
  ASSUME NEW D, NEW table \in [D -> Entry], OneEach(table), NEW S \in SUBSET D
  PROVE  /\ Without(table, S) \in [D -> Entry] /\ OneEach(Without(table, S))
         /\ FramesIn(Without(table, S)) \cap Backing(table, S) = {}
         /\ FramesIn(table) = FramesIn(Without(table, S)) \cup (Backing(table, S) \cap Frame)
         /\ Valid(Without(table, S)) = Valid(table) \ S
<1> DEFINE W == Without(table, S)
<1>1. W \in [D -> Entry]
  BY DEF Without, Entry
<1>2. \A i \in D : W[i] = IF i \in S THEN NoFrame ELSE table[i]
  BY DEF Without
<1>3. DOMAIN W = D /\ DOMAIN table = D
  BY DEF Without
<1> HIDE DEF W
<1>4. \A i \in D : W[i] \in Frame => i \notin S /\ W[i] = table[i]
  BY <1>2, Numbers
<1>5. OneEach(W)
  BY <1>3, <1>4 DEF OneEach
<1>6. ASSUME NEW f \in FramesIn(W) PROVE f \in FramesIn(table) /\ f \notin Backing(table, S)
  <2>1. PICK i \in D : f = W[i] /\ f \in Frame
    BY <1>3 DEF FramesIn
  <2> QED BY <1>3, <1>4, <2>1 DEF FramesIn, OneEach, Backing
<1>7. ASSUME NEW f \in FramesIn(table), f \notin Backing(table, S) PROVE f \in FramesIn(W)
  <2>1. PICK i \in D : f = table[i] /\ f \in Frame
    BY <1>3 DEF FramesIn
  <2>2. W[i] = f
    BY <1>2, <1>7, <2>1 DEF Backing
  <2> QED BY <1>3, <2>1, <2>2 DEF FramesIn
<1>8. Backing(table, S) \cap Frame \subseteq FramesIn(table)
  BY <1>3 DEF FramesIn
<1>9. Valid(W) = Valid(table) \ S
  BY <1>2, <1>3 DEF Valid
<1>10. FramesIn(W) \cap Backing(table, S) = {}
  BY <1>6
<1>11. FramesIn(table) = FramesIn(W) \cup (Backing(table, S) \cap Frame)
  <2>1. FramesIn(table) \subseteq Frame
    BY DEF FramesIn
  <2> QED BY <1>6, <1>7, <1>8, <2>1
<1> QED BY <1>1, <1>5, <1>9, <1>10, <1>11 DEF W
----------------------------------------------------------------------------
(***************************************************************************)
(* The kernel's record.  In a sound one the free list and the pages of     *)
(* Region 1 hold different frames, and the count is one short.             *)
(***************************************************************************)
KernelRecord(k) ==
  k \in [free : Seq(Frame), count : Int, kernel_brk : 1..HeapPages,
         addr_next_pgt_r0 : 0..HeapPages, is_half_used : BOOLEAN,
         pgt_r1 : [0..HeapPages -> Entry], machine : {k.machine},
         taker : {k.taker}, short : {k.short}]

KernelSound(k) ==
  /\ KernelRecord(k)
  /\ IsInjective(k.free)
  /\ OneEach(k.pgt_r1)
  /\ Range(k.free) \cap FramesIn(k.pgt_r1) = {}
  /\ k.count = Len(k.free) + HighFrames - 1
  /\ k.pgt_r1[0] = KernelFrame
  /\ k.is_half_used => k.pgt_r1[k.addr_next_pgt_r0] # NoFrame /\ k.addr_next_pgt_r0 >= 1

\* Nothing but the free list and the count differ.
SameButFree(k1, k) ==
  /\ k1.pgt_r1 = k.pgt_r1 /\ k1.kernel_brk = k.kernel_brk
  /\ k1.addr_next_pgt_r0 = k.addr_next_pgt_r0 /\ k1.is_half_used = k.is_half_used
  /\ k1.machine = k.machine

\* Region 1: the pages of the heap are mapped, and it ends at most at a page
\* of tables that has room for another.
Region1OK(k) ==
  /\ \A i \in 0..HeapPages : i < k.kernel_brk => k.pgt_r1[i] # NoFrame
  /\ k.is_half_used => k.kernel_brk <= k.addr_next_pgt_r0

\* A slot that has been handed out: in a mapped page above the heap, and not
\* the one that comes next.
SlotOK(k, s) ==
  /\ s \in (0..HeapPages) \X {1, 2}
  /\ s[1] >= k.kernel_brk /\ s[1] >= k.addr_next_pgt_r0
  /\ k.pgt_r1[s[1]] # NoFrame
  /\ s[1] = k.addr_next_pgt_r0 => k.is_half_used /\ s[2] = 1

\* The kernel gives no frame back, and what was in order in Region 1 still is.
Kept(k, k1) ==
  /\ FramesIn(k.pgt_r1) \subseteq FramesIn(k1.pgt_r1)
  /\ Region1OK(k) => Region1OK(k1)
  /\ \A s : SlotOK(k, s) => SlotOK(k1, s)

LEMMA KeptSame ==
  ASSUME NEW k, NEW k1, k1.pgt_r1 = k.pgt_r1, k1.kernel_brk = k.kernel_brk,
         k1.addr_next_pgt_r0 = k.addr_next_pgt_r0, k1.is_half_used = k.is_half_used
  PROVE  Kept(k, k1)
BY DEF Kept, Region1OK, SlotOK

LEMMA KeptOn ==
  ASSUME NEW k, NEW k1, NEW k2, Kept(k, k1), Kept(k1, k2)
  PROVE  Kept(k, k2)
BY DEF Kept

\* Frames are taken from the front of the free list.
LEMMA AllocateFacts ==
  ASSUME NEW k, KernelSound(k), NEW n \in Nat, NEW who,
         NEW k1, k1 = AllocateFreePage(k, n, who), Runs(k1)
  PROVE  /\ KernelSound(k1) /\ Runs(k) /\ n <= Len(k.free) /\ Len(k1.free) = Len(k.free) - n
         /\ SameButFree(k1, k)
         /\ Taken(k, n) \in Seq(Frame) /\ Len(Taken(k, n)) = n /\ IsInjective(Taken(k, n))
         /\ Range(Taken(k, n)) \cap KFrames(k1) = {}
         /\ KFrames(k) = KFrames(k1) \cup Range(Taken(k, n))
<1>1. Runs(k) /\ n <= Len(k.free)
  <2>1. CASE ~Runs(k)
    BY <2>1 DEF AllocateFreePage
  <2>2. CASE Runs(k) /\ n > Len(k.free)
    BY <2>2 DEF AllocateFreePage, Runs, KernelSound, KernelRecord
  <2>3. Len(k.free) \in Nat
    BY LenProperties DEF KernelSound, KernelRecord
  <2> QED BY <2>1, <2>2, <2>3
<1>2. k1 = [k EXCEPT !.free = SubSeq(k.free, n + 1, Len(k.free)), !.count = k.count - n]
  <2>1. ~ (n > Len(k.free))
    <3>1. Len(k.free) \in Nat
      BY LenProperties DEF KernelSound, KernelRecord
    <3> QED BY <1>1, <3>1
  <2> QED BY <1>1, <2>1 DEF AllocateFreePage
<1>3. k.free \in Seq(Frame) /\ IsInjective(k.free) /\ Len(k.free) \in Nat /\ n \in 0..Len(k.free)
  <2>1. k.free \in Seq(Frame) /\ IsInjective(k.free)
    BY DEF KernelSound, KernelRecord
  <2>2. Len(k.free) \in Nat
    BY <2>1, LenProperties
  <2> QED BY <1>1, <2>1, <2>2
<1> DEFINE rest == SubSeq(k.free, n + 1, Len(k.free))
           took == SubSeq(k.free, 1, n)
<1>4. /\ took \in Seq(Frame) /\ Len(took) = n /\ IsInjective(took)
      /\ rest \in Seq(Frame) /\ Len(rest) = Len(k.free) - n /\ IsInjective(rest)
      /\ Range(took) \cap Range(rest) = {}
      /\ Range(k.free) = Range(took) \cup Range(rest)
  BY <1>3, Split
<1>5. k1 = [k EXCEPT !.free = rest, !.count = k.count - n]
  BY <1>2
<1> HIDE DEF rest
<1>6. /\ KernelRecord(k1) /\ k1.free = rest /\ k1.count = k.count - n
      /\ SameButFree(k1, k)
  <2> DEFINE c == k.count - n
  <2>1. c \in Int /\ KernelRecord(k)
    BY DEF KernelSound, KernelRecord
  <2>2. k1 = [k EXCEPT !.free = rest, !.count = c] /\ c = k.count - n
    BY <1>5
  <2> HIDE DEF c
  <2> QED BY <1>4, <2>1, <2>2 DEF KernelRecord, SameButFree
<1>7. KernelSound(k1)
  <2>1. k1.count = Len(k1.free) + HighFrames - 1
    <3>1. k.count = Len(k.free) + HighFrames - 1
      BY DEF KernelSound
    <3>2. Len(k1.free) = Len(k.free) - n
      BY <1>4, <1>6
    <3> QED BY <1>3, <1>6, <3>1, <3>2, Numbers
  <2> QED BY <1>4, <1>6, <2>1 DEF KernelSound, SameButFree
<1>8. Taken(k, n) = took
  BY DEF Taken
<1> HIDE DEF took
<1> QED BY <1>1, <1>4, <1>5, <1>6, <1>7, <1>8 DEF KFrames, KernelSound, SameButFree

\* What the record says when a handler takes a node past the end of the list.
LEMMA AllocateFails ==
  ASSUME NEW k, KernelRecord(k), Runs(k), NEW n \in Nat, NEW who,
         NEW k1, k1 = AllocateFreePage(k, n, who), ~Runs(k1)
  PROVE  /\ n > Len(k.free)
         /\ k1.machine = "corrupt" /\ k1.taker = who /\ k1.short = n - Len(k.free)
<1>1. n > Len(k.free)
  <2> SUFFICES ASSUME ~ (n > Len(k.free)) PROVE FALSE
    OBVIOUS
  <2>1. k1.machine = k.machine
    BY DEF AllocateFreePage, KernelRecord
  <2> QED BY <2>1 DEF Runs
<1>2. k1 = [k EXCEPT !.machine = "corrupt", !.taker = who, !.short = n - Len(k.free)]
  BY <1>1 DEF AllocateFreePage
<1> QED BY <1>1, <1>2 DEF KernelRecord

LEMMA PushedFacts ==
  ASSUME NEW k, KernelSound(k), NEW frames \in Seq(Frame), IsInjective(frames),
         Range(frames) \cap KFrames(k) = {},
         NEW k1, k1 = Pushed(k, frames)
  PROVE  /\ KernelSound(k1) /\ Len(k1.free) = Len(k.free) + Len(frames)
         /\ SameButFree(k1, k)
         /\ KFrames(k1) = KFrames(k) \cup Range(frames)
<1> DEFINE back == Reverse(frames)
           both == back \o k.free
<1>1. k.free \in Seq(Frame) /\ IsInjective(k.free) /\ Len(k.free) \in Nat
  <2>1. k.free \in Seq(Frame) /\ IsInjective(k.free)
    BY DEF KernelSound, KernelRecord
  <2> QED BY <2>1, LenProperties
<1>2. /\ back \in Seq(Frame) /\ IsInjective(back) /\ Range(back) = Range(frames)
      /\ Len(back) = Len(frames) /\ Len(frames) \in Nat
  <2>1. Lists(frames, Range(frames)) /\ Range(frames) \subseteq Frame
    BY SeqOfRange, RangeOfSeq DEF Lists
  <2>2. Lists(back, Range(frames)) /\ Len(back) = Len(frames)
    BY <2>1, ReverseLists
  <2> QED BY <2>1, <2>2, SeqMonotonic, LenProperties DEF Lists
<1>3. k1 = [k EXCEPT !.free = both, !.count = k.count + Len(frames)]
  BY DEF Pushed
<1> HIDE DEF back
<1>4. /\ both \in Seq(Frame) /\ Len(both) = Len(back) + Len(k.free)
      /\ Range(both) = Range(back) \cup Range(k.free)
      /\ \A i \in 1..Len(back) + Len(k.free) :
           both[i] = IF i <= Len(back) THEN back[i] ELSE k.free[i - Len(back)]
  <2>1. /\ both \in Seq(Frame) /\ Len(both) = Len(back) + Len(k.free)
        /\ \A i \in 1..Len(back) + Len(k.free) :
             both[i] = IF i <= Len(back) THEN back[i] ELSE k.free[i - Len(back)]
    BY <1>1, <1>2, ConcatProperties
  <2>2. Range(both) = Range(back) \cup Range(k.free)
    BY <1>1, <1>2, RangeConcatenation
  <2> QED BY <2>1, <2>2
<1> HIDE DEF both
<1>5. IsInjective(both)
  <2> DEFINE b == Len(back)
             l == Len(k.free)
  <2>1. /\ b \in Nat /\ l \in Nat /\ DOMAIN both = 1..(b + l)
        /\ DOMAIN back = 1..b /\ DOMAIN k.free = 1..l
    BY <1>1, <1>2, <1>4, LenProperties
  <2> SUFFICES ASSUME NEW i \in 1..(b + l), NEW j \in 1..(b + l), both[i] = both[j]
               PROVE  i = j
    BY <2>1 DEF IsInjective
  <2>2. \A x \in 1..(b + l) :
          /\ x <= b => x \in DOMAIN back /\ both[x] = back[x]
          /\ x > b => x - b \in DOMAIN k.free /\ both[x] = k.free[x - b]
    BY <1>4, <2>1
  <2>3. \A x \in DOMAIN back, y \in DOMAIN k.free : back[x] # k.free[y]
    BY <1>2 DEF KFrames, Range
  <2> HIDE DEF b, l
  <2>4. CASE i <= b /\ j <= b
    BY <1>2, <2>2, <2>4 DEF IsInjective
  <2>5. CASE i > b /\ j > b
    <3>1. i - b = j - b
      BY <1>1, <2>2, <2>5 DEF IsInjective
    <3> QED BY <2>1, <3>1
  <2>6. CASE i <= b /\ j > b
    BY <2>2, <2>3, <2>6
  <2>7. CASE i > b /\ j <= b
    BY <2>2, <2>3, <2>7
  <2>8. (i <= b \/ i > b) /\ (j <= b \/ j > b)
    BY <2>1
  <2> QED BY <2>4, <2>5, <2>6, <2>7, <2>8
<1>6. /\ KernelRecord(k1) /\ k1.free = both /\ k1.count = k.count + Len(frames)
      /\ SameButFree(k1, k)
  <2> DEFINE c == k.count + Len(frames)
  <2>1. c \in Int /\ KernelRecord(k)
    BY <1>2 DEF KernelSound, KernelRecord
  <2>2. k1 = [k EXCEPT !.free = both, !.count = c] /\ c = k.count + Len(frames)
    BY <1>3
  <2> HIDE DEF c
  <2> QED BY <1>4, <2>1, <2>2 DEF KernelRecord, SameButFree
<1>7. k1.count = Len(k1.free) + HighFrames - 1 /\ Len(k1.free) = Len(k.free) + Len(frames)
  <2>1. k.count = Len(k.free) + HighFrames - 1
    BY DEF KernelSound
  <2>2. Len(k1.free) = Len(k.free) + Len(frames)
    BY <1>1, <1>2, <1>4, <1>6
  <2> QED BY <1>1, <1>2, <1>6, <2>1, <2>2, Numbers
<1>8. KernelSound(k1)
  BY <1>2, <1>4, <1>5, <1>6, <1>7 DEF KernelSound, KFrames, SameButFree
<1>9. KFrames(k1) = KFrames(k) \cup Range(frames)
  BY <1>2, <1>4, <1>6 DEF KFrames, SameButFree
<1> QED BY <1>3, <1>6, <1>7, <1>8, <1>9

\* A heap that grows, or a page table, takes frames that stay the kernel's.
LEMMA GrowFacts ==
  ASSUME NEW k, KernelSound(k), CanGrow(k), NEW k1, k1 = SetKernelBrk(k), Runs(k1)
  PROVE  KernelSound(k1) /\ KFrames(k1) = KFrames(k) /\ Kept(k, k1) /\ Runs(k)
<1> DEFINE S == PagesToFill(k)
           new == Ascending(S)
           ka == AllocateFreePage(k, Len(new), "heap")
           took == Taken(k, Len(new))
           filled == Mapped(ka.pgt_r1, new, took)
<1>1. /\ k.kernel_brk \in 1..HeapPages /\ k.kernel_brk + 1 \in 1..HeapPages
      /\ k.pgt_r1 \in [0..HeapPages -> Entry] /\ OneEach(k.pgt_r1)
  BY Numbers DEF CanGrow, KernelSound, KernelRecord
<1>2. S \in SUBSET (0..HeapPages) /\ (\A i \in S : k.pgt_r1[i] = NoFrame)
  BY <1>1, Numbers DEF PagesToFill
<1>3. S \in SUBSET Int /\ IsFiniteSet(S)
  <2>1. IsFiniteSet(0..HeapPages) /\ 0..HeapPages \subseteq Int
    BY Numbers, FS_Interval
  <2> HIDE DEF S
  <2> QED BY <1>2, <2>1, FS_Subset
<1>4. Lists(new, S) /\ Len(new) \in Nat
  BY <1>3, AscendingLists, FS_CardinalityType
<1>5. Runs(ka)
  BY DEF SetKernelBrk
<1>6. k1 = [ka EXCEPT !.kernel_brk = ka.kernel_brk + 1, !.pgt_r1 = filled]
  BY <1>5 DEF SetKernelBrk
<1>7. /\ KernelSound(ka) /\ Runs(k)
      /\ SameButFree(ka, k)
      /\ took \in Seq(Frame) /\ Len(took) = Len(new) /\ IsInjective(took)
      /\ Range(took) \cap KFrames(ka) = {}
      /\ KFrames(k) = KFrames(ka) \cup Range(took)
  BY <1>4, <1>5, AllocateFacts
<1> HIDE DEF new, ka, took, S
<1>8. /\ filled \in [0..HeapPages -> Entry] /\ OneEach(filled)
      /\ FramesIn(filled) = FramesIn(ka.pgt_r1) \cup Range(took)
      /\ \A i \in (0..HeapPages) \ S : filled[i] = ka.pgt_r1[i]
      /\ \A i \in S : filled[i] \in Frame
  <2> DEFINE table == ka.pgt_r1
             D == 0..HeapPages
  <2>1. table = k.pgt_r1 /\ FramesIn(table) \cap Range(took) = {}
    BY <1>7 DEF SameButFree, KFrames
  <2>2. /\ table \in [D -> Entry] /\ OneEach(table)
        /\ S \in SUBSET D /\ \A i \in S : table[i] = NoFrame
    BY <1>1, <1>2, <2>1
  <2> HIDE DEF table, D
  <2>3. Room(D, table, S, new, took)
    BY <1>4, <1>7, <2>1, <2>2 DEF Room
  <2>4. filled = Mapped(table, new, took)
    BY DEF table
  <2>5. Filled(D, table, S, took, filled)
    BY <2>3, <2>4, MappedFacts
  <2> HIDE DEF filled
  <2> QED BY <2>5 DEF table, D, Filled
<1> HIDE DEF filled
<1>9. /\ KernelRecord(k1) /\ k1.pgt_r1 = filled /\ k1.free = ka.free /\ k1.count = ka.count
      /\ k1.addr_next_pgt_r0 = k.addr_next_pgt_r0 /\ k1.is_half_used = k.is_half_used
  <2>1. KernelRecord(ka) /\ ka.kernel_brk + 1 \in 1..HeapPages
    BY <1>1, <1>7 DEF KernelSound, SameButFree
  <2> QED BY <1>6, <1>7, <1>8, <2>1 DEF KernelRecord, SameButFree
<1>10. \A i \in 0..HeapPages : filled[i] = k.pgt_r1[i] \/ (k.pgt_r1[i] = NoFrame /\ filled[i] # NoFrame)
  <2>1. \A i \in S : filled[i] # NoFrame
    BY <1>8, Numbers
  <2>2. \A i \in (0..HeapPages) \ S : filled[i] = k.pgt_r1[i]
    BY <1>7, <1>8 DEF SameButFree
  <2> QED BY <1>2, <2>1, <2>2
<1>11. KFrames(k1) = KFrames(k)
  BY <1>7, <1>8, <1>9 DEF KFrames
<1>12. KernelSound(k1)
  <2>1. k1.pgt_r1[0] = KernelFrame
    BY <1>9, <1>10, Numbers DEF KernelSound
  <2>2. k1.is_half_used => k1.pgt_r1[k1.addr_next_pgt_r0] # NoFrame /\ k1.addr_next_pgt_r0 >= 1
    <3>1. k.addr_next_pgt_r0 \in 0..HeapPages
      BY DEF KernelSound, KernelRecord
    <3> QED BY <1>9, <1>10, <3>1, Numbers DEF KernelSound
  <2>3. Range(k1.free) \cap FramesIn(k1.pgt_r1) = {}
    BY <1>7, <1>8, <1>9 DEF KFrames, KernelSound
  <2> QED BY <1>7, <1>8, <1>9, <2>1, <2>2, <2>3 DEF KernelSound
<1>13. k1.kernel_brk = k.kernel_brk + 1
  BY <1>6, <1>7 DEF SameButFree, KernelSound, KernelRecord
<1>14. Kept(k, k1)
  <2>1. FramesIn(k.pgt_r1) \subseteq FramesIn(k1.pgt_r1)
    BY <1>7, <1>8, <1>9 DEF SameButFree
  <2>2. k.kernel_brk + 1 <= k.addr_next_pgt_r0 /\ k.kernel_brk \in Nat /\ k.addr_next_pgt_r0 \in Nat
    BY <1>1 DEF CanGrow, KernelSound, KernelRecord
  <2>3. \A i \in 0..HeapPages : k.pgt_r1[i] # NoFrame => k1.pgt_r1[i] # NoFrame
    BY <1>9, <1>10
  <2>4. k1.pgt_r1[k.kernel_brk] # NoFrame
    <3>1. k.kernel_brk \in S => filled[k.kernel_brk] # NoFrame
      BY <1>8, Numbers
    <3>2. k.kernel_brk \notin S => k.pgt_r1[k.kernel_brk] # NoFrame
      BY <1>1, Numbers DEF S, PagesToFill
    <3> QED BY <1>1, <1>9, <2>3, <3>1, <3>2
  <2>5. Region1OK(k) => Region1OK(k1)
    <3> HIDE DEF filled
    <3> SUFFICES ASSUME Region1OK(k) PROVE Region1OK(k1)
      OBVIOUS
    <3>1. ASSUME NEW i \in 0..HeapPages, i < k1.kernel_brk PROVE k1.pgt_r1[i] # NoFrame
      <4>1. i = k.kernel_brk \/ i < k.kernel_brk
        BY <1>13, <2>2, <3>1
      <4> QED BY <2>3, <2>4, <4>1 DEF Region1OK
    <3>2. k1.is_half_used => k1.kernel_brk <= k1.addr_next_pgt_r0
      BY <1>9, <1>13, <2>2
    <3> QED BY <3>1, <3>2 DEF Region1OK
  <2>6. ASSUME NEW s, SlotOK(k, s) PROVE SlotOK(k1, s)
    <3>1. s \in (0..HeapPages) \X {1, 2} /\ s[1] \in 0..HeapPages
      BY <2>6 DEF SlotOK
    <3>2. s[1] >= k1.kernel_brk /\ s[1] >= k1.addr_next_pgt_r0
      BY <1>9, <1>13, <2>2, <2>6, <3>1 DEF SlotOK
    <3>3. k1.pgt_r1[s[1]] # NoFrame
      BY <2>3, <2>6, <3>1 DEF SlotOK
    <3> QED BY <1>9, <2>6, <3>1, <3>2, <3>3 DEF SlotOK
  <2> QED BY <2>1, <2>5, <2>6 DEF Kept
<1> QED BY <1>7, <1>11, <1>12, <1>14

LEMMA MallocFacts ==
  ASSUME NEW k, KernelSound(k), NEW k1 \in Malloc(k), Runs(k1)
  PROVE  KernelSound(k1) /\ KFrames(k1) = KFrames(k) /\ Kept(k, k1)
<1>1. CASE k1 = k
  BY <1>1, KeptSame
<1>2. CASE k1 # k /\ CanGrow(k)
  <2>1. k1 = SetKernelBrk(k)
    BY <1>2 DEF Malloc
  <2> QED BY <1>2, <2>1, GrowFacts
<1>3. CASE k1 # k /\ ~CanGrow(k)
  <2>1. k1 = [k EXCEPT !.machine = "crashed"]
    BY <1>3 DEF Malloc
  <2>2. k1.machine = "crashed"
    BY <2>1 DEF KernelSound, KernelRecord
  <2> QED BY <2>2 DEF Runs
<1> QED BY <1>1, <1>2, <1>3

LEMMA EnqueueFacts ==
  ASSUME NEW k, KernelSound(k), NEW k1 \in Enqueue(k), Runs(k1)
  PROVE  KernelSound(k1) /\ KFrames(k1) = KFrames(k) /\ Kept(k, k1)
<1>1. CASE k1 = k
  BY <1>1, KeptSame
<1>2. CASE k1 # k
  <2>1. CanGrow(k) /\ k1 = SetKernelBrk(k)
    BY <1>2 DEF Enqueue
  <2> QED BY <2>1, GrowFacts
<1> QED BY <1>1, <1>2

LEMMA FreeFacts ==
  ASSUME NEW k, KernelSound(k), Runs(k), NEW frames \in Seq(Frame), IsInjective(frames),
         Range(frames) \cap KFrames(k) = {}, NEW grow \in 0..Len(frames),
         NEW k1, k1 = FreePhysicalPage(k, frames, grow), Runs(k1)
  PROVE  /\ KernelSound(k1) /\ KFrames(k1) = KFrames(k) \cup Range(frames)
         /\ Kept(k, k1)
         /\ grow = 0 => Len(k1.free) = Len(k.free) + Len(frames) /\ SameButFree(k1, k)
<1>1. CASE grow = 0
  <2>1. k1 = Pushed(k, frames)
    BY <1>1 DEF FreePhysicalPage
  <2> QED BY <2>1, PushedFacts, KeptSame DEF SameButFree
<1>2. CASE grow # 0
  <2> DEFINE front  == SubSeq(frames, 1, grow - 1)
             back   == SubSeq(frames, grow, Len(frames))
             before == Pushed(k, front)
             grown  == SetKernelBrk(before)
  <2>1. grow - 1 \in 0..Len(frames) /\ (grow - 1) + 1 = grow
    BY <1>2, LenProperties
  <2>2. /\ front \in Seq(Frame) /\ IsInjective(front)
        /\ back \in Seq(Frame) /\ IsInjective(back)
        /\ Range(front) \cap Range(back) = {}
        /\ Range(frames) = Range(front) \cup Range(back)
    <3> DEFINE m == grow - 1
    <3>1. m \in 0..Len(frames) /\ m + 1 = grow
      BY <2>1
    <3> HIDE DEF m
    <3>2. /\ SubSeq(frames, 1, m) \in Seq(Frame) /\ IsInjective(SubSeq(frames, 1, m))
          /\ SubSeq(frames, m + 1, Len(frames)) \in Seq(Frame)
          /\ IsInjective(SubSeq(frames, m + 1, Len(frames)))
          /\ Range(SubSeq(frames, 1, m)) \cap Range(SubSeq(frames, m + 1, Len(frames))) = {}
          /\ Range(frames) = Range(SubSeq(frames, 1, m))
                               \cup Range(SubSeq(frames, m + 1, Len(frames)))
      BY <3>1, Split
    <3> QED BY <3>1, <3>2 DEF m
  <2> HIDE DEF front, back
  <2>3. /\ KernelSound(before) /\ KFrames(before) = KFrames(k) \cup Range(front)
        /\ Kept(k, before)
    BY <2>2, PushedFacts, KeptSame DEF SameButFree
  <2>4. CASE ~CanGrow(before)
    <3>1. k1 = [before EXCEPT !.machine = "halted"]
      BY <1>2, <2>4 DEF FreePhysicalPage, front
    <3>2. k1.machine = "halted"
      BY <2>3, <3>1 DEF KernelSound, KernelRecord
    <3> QED BY <3>2 DEF Runs
  <2>5. CASE CanGrow(before)
    <3>1. Runs(grown) /\ k1 = Pushed(grown, back)
      BY <1>2, <2>5 DEF FreePhysicalPage, front, back
    <3>2. KernelSound(grown) /\ KFrames(grown) = KFrames(before) /\ Kept(before, grown)
      BY <2>3, <2>5, <3>1, GrowFacts
    <3>3. /\ KernelSound(k1) /\ KFrames(k1) = KFrames(grown) \cup Range(back)
          /\ Kept(grown, k1)
      BY <2>2, <2>3, <3>1, <3>2, PushedFacts, KeptSame DEF SameButFree
    <3> QED BY <1>2, <2>2, <2>3, <3>2, <3>3, KeptOn
  <2> QED BY <2>4, <2>5
<1> QED BY <1>1, <1>2

LEMMA TableFacts ==
  ASSUME NEW k, KernelSound(k), NEW made, made = AllocateRegion0PageTable(k), Runs(made.k)
  PROVE  KernelSound(made.k) /\ KFrames(made.k) = KFrames(k) /\ Kept(k, made.k)
<1> DEFINE a == k.addr_next_pgt_r0
           k1 == AllocateFreePage(k, 1, "table")
<1>0. KernelRecord(k) /\ a \in 0..HeapPages /\ k.pgt_r1 \in [0..HeapPages -> Entry]
  BY DEF KernelSound, KernelRecord
<1>1. CASE ~TableFits(k)
  <2>1. made = [k |-> k, ok |-> FALSE]
    BY <1>1 DEF AllocateRegion0PageTable
  <2> QED BY <2>1, KeptSame
<1>2. CASE TableFits(k) /\ k.is_half_used
  <2>1. made = [k |-> [k EXCEPT !.is_half_used = FALSE, !.addr_next_pgt_r0 = a - 1],
                ok |-> TRUE]
    BY <1>2 DEF AllocateRegion0PageTable
  <2>2. made.k = [k EXCEPT !.is_half_used = FALSE, !.addr_next_pgt_r0 = a - 1]
    BY <2>1
  <2>3. a - 1 \in 0..HeapPages
    BY <1>0, <1>2, Numbers DEF KernelSound
  <2>4. /\ KernelRecord(made.k) /\ made.k.free = k.free /\ made.k.count = k.count
        /\ made.k.pgt_r1 = k.pgt_r1 /\ made.k.is_half_used = FALSE
        /\ made.k.addr_next_pgt_r0 = a - 1 /\ made.k.kernel_brk = k.kernel_brk
    BY <1>0, <2>2, <2>3 DEF KernelRecord
  <2>5. Kept(k, made.k)
    BY <1>0, <2>3, <2>4 DEF Kept, Region1OK, SlotOK
  <2> QED BY <2>4, <2>5 DEF KernelSound, KFrames
<1>3. CASE TableFits(k) /\ ~k.is_half_used /\ ~Runs(k1)
  <2>1. made = [k |-> k1, ok |-> FALSE]
    BY <1>3 DEF AllocateRegion0PageTable
  <2> QED BY <1>3, <2>1
<1>4. CASE TableFits(k) /\ ~k.is_half_used /\ Runs(k1)
  <2> DEFINE f == Head(k.free)
             table == [k.pgt_r1 EXCEPT ![a] = f]
  <2>1. made = [k |-> [k1 EXCEPT !.is_half_used = TRUE, !.pgt_r1[a] = f], ok |-> TRUE]
    BY <1>4 DEF AllocateRegion0PageTable
  <2>2. made.k = [k1 EXCEPT !.is_half_used = TRUE, !.pgt_r1[a] = f]
    BY <2>1
  <2>3. /\ KernelSound(k1) /\ SameButFree(k1, k)
        /\ 1 <= Len(k.free) /\ Taken(k, 1) \in Seq(Frame) /\ Len(Taken(k, 1)) = 1
        /\ Range(Taken(k, 1)) \cap KFrames(k1) = {}
        /\ KFrames(k) = KFrames(k1) \cup Range(Taken(k, 1))
    <3> DEFINE n == 1
    <3>1. n \in Nat /\ k1 = AllocateFreePage(k, n, "table") /\ Runs(k1)
      BY <1>4
    <3> HIDE DEF n, k1
    <3>2. /\ KernelSound(k1) /\ SameButFree(k1, k)
          /\ n <= Len(k.free) /\ Taken(k, n) \in Seq(Frame) /\ Len(Taken(k, n)) = n
          /\ Range(Taken(k, n)) \cap KFrames(k1) = {}
          /\ KFrames(k) = KFrames(k1) \cup Range(Taken(k, n))
      BY <3>1, AllocateFacts
    <3> QED BY <3>2 DEF n
  <2>4. Range(Taken(k, 1)) = {f} /\ f \in Frame
    <3>1. k.free \in Seq(Frame) /\ Len(k.free) \in Nat
      BY <1>0, LenProperties DEF KernelRecord
    <3>2. k.free[1] \in Frame /\ f = k.free[1]
      BY <2>3, <3>1, ElementOfSeq
    <3>3. Taken(k, 1)[1] = f /\ DOMAIN Taken(k, 1) = {1}
      <4>1. \A i \in 1..1 : k.free[i] \in Frame
        BY <3>2
      <4>2. \A i \in 1..(1 - 1 + 1) : Taken(k, 1)[i] = k.free[1 + i - 1]
        BY <4>1, SubSeqProperties DEF Taken
      <4>3. DOMAIN Taken(k, 1) = 1..1
        BY <2>3, LenProperties
      <4> QED BY <3>2, <4>2, <4>3
    <3> QED BY <3>2, <3>3 DEF Range
  <2>5. k1.pgt_r1 = k.pgt_r1 /\ KernelRecord(k1)
    BY <2>3 DEF SameButFree, KernelSound
  <2> HIDE DEF f
  <2>6. table \in [0..HeapPages -> Entry]
    BY <1>0, <2>4 DEF Entry
  <2>7. k.pgt_r1[a] = NoFrame
    BY <1>4 DEF TableFits
  <2>8. /\ KernelRecord(made.k) /\ made.k.free = k1.free /\ made.k.count = k1.count
        /\ made.k.pgt_r1 = table /\ made.k.is_half_used = TRUE /\ made.k.addr_next_pgt_r0 = a
        /\ made.k.kernel_brk = k.kernel_brk
    <3>1. made.k = [k1 EXCEPT !.is_half_used = TRUE, !.pgt_r1 = table]
      BY <2>2, <2>5 DEF KernelRecord
    <3> HIDE DEF table
    <3> QED BY <1>0, <2>3, <2>5, <2>6, <3>1 DEF KernelRecord, SameButFree
  <2>9. FramesIn(table) = FramesIn(k.pgt_r1) \cup {f}
    BY <1>0, <2>4, <2>7, Numbers DEF FramesIn
  <2>10. OneEach(table)
    <3>1. f \notin FramesIn(k.pgt_r1)
      BY <2>3, <2>4, <2>5 DEF KFrames
    <3>2. \A i \in 0..HeapPages : k.pgt_r1[i] # f
      BY <1>0, <2>4, <3>1 DEF FramesIn
    <3> QED BY <1>0, <2>4, <3>2 DEF OneEach, KernelSound
  <2>11. a >= 1 /\ table[0] = KernelFrame /\ table[a] # NoFrame
    BY <1>0, <2>4, <2>7, Numbers DEF KernelSound
  <2>12. KernelSound(made.k)
    BY <2>3, <2>4, <2>5, <2>8, <2>9, <2>10, <2>11 DEF KernelSound, KFrames
  <2>13. KFrames(made.k) = KFrames(k)
    BY <2>3, <2>4, <2>5, <2>8, <2>9 DEF KFrames
  <2>14. \A i \in 0..HeapPages : k.pgt_r1[i] # NoFrame => table[i] # NoFrame
    BY <1>0, <2>4, Numbers
  <2>15. Region1OK(k) => Region1OK(made.k)
    <3>1. Region1OK(k) => k.kernel_brk <= a
      BY <1>0, <2>7 DEF Region1OK, KernelRecord
    <3> HIDE DEF table
    <3> QED BY <2>8, <2>14, <3>1 DEF Region1OK
  <2>16. \A s : SlotOK(k, s) => SlotOK(made.k, s)
    <3> HIDE DEF table
    <3> QED BY <1>4, <2>8, <2>14 DEF SlotOK
  <2> QED BY <2>8, <2>9, <2>12, <2>13, <2>15, <2>16 DEF Kept
<1> QED BY <1>0, <1>1, <1>2, <1>3, <1>4 DEF KernelRecord

LEMMA GrowRuns ==
  ASSUME NEW k, Runs(SetKernelBrk(k))
  PROVE  Runs(k)
<1> SUFFICES ASSUME ~Runs(k) PROVE FALSE
  OBVIOUS
<1> QED BY DEF SetKernelBrk, AllocateFreePage

LEMMA CreatedFacts ==
  ASSUME NEW k, KernelSound(k), NEW made \in CreatePCB(k), Runs(made.k)
  PROVE  KernelSound(made.k) /\ KFrames(made.k) = KFrames(k) /\ Kept(k, made.k)
<1> DEFINE plain == AllocateRegion0PageTable(k)
           grown == SetKernelBrk(k)
           late  == SetKernelBrk(plain.k)
           none(kk) == [k |-> kk, ok |-> FALSE]
           after(kk) == IF Runs(kk) THEN AllocateRegion0PageTable(kk) ELSE none(kk)
<1>1. \/ made = plain
      \/ CanGrow(k) /\ made = after(grown)
      \/ made = none([k EXCEPT !.machine = "crashed"])
      \/ made = none(plain.k)
      \/ CanGrow(plain.k) /\ made = [k |-> late, ok |-> Runs(late)]
  BY DEF CreatePCB
<1>2. CASE made = plain
  BY <1>2, TableFacts
<1>3. CASE CanGrow(k) /\ made = after(grown)
  <2>1. CASE ~Runs(grown)
    <3>1. made.k = grown
      BY <1>3, <2>1
    <3> QED BY <2>1, <3>1
  <2>2. CASE Runs(grown)
    <3>1. made = AllocateRegion0PageTable(grown)
      BY <1>3, <2>2
    <3>2. KernelSound(grown) /\ KFrames(grown) = KFrames(k) /\ Kept(k, grown)
      BY <1>3, <2>2, GrowFacts
    <3> QED BY <2>2, <3>1, <3>2, TableFacts, KeptOn
  <2> QED BY <2>1, <2>2
<1>4. CASE made = none([k EXCEPT !.machine = "crashed"])
  <2>1. made.k = [k EXCEPT !.machine = "crashed"]
    BY <1>4
  <2>2. made.k.machine = "crashed"
    BY <2>1 DEF KernelSound, KernelRecord
  <2> QED BY <2>2 DEF Runs
<1>5. CASE made = none(plain.k)
  <2>1. made.k = plain.k
    BY <1>5
  <2> QED BY <2>1, TableFacts
<1>6. CASE CanGrow(plain.k) /\ made = [k |-> late, ok |-> Runs(late)]
  <2>1. made.k = late
    BY <1>6
  <2>2. Runs(plain.k)
    BY <2>1, GrowRuns
  <2>3. KernelSound(plain.k) /\ KFrames(plain.k) = KFrames(k) /\ Kept(k, plain.k)
    BY <2>2, TableFacts
  <2> QED BY <1>6, <2>1, <2>3, GrowFacts, KeptOn
<1> QED BY <1>1, <1>2, <1>3, <1>4, <1>5, <1>6
----------------------------------------------------------------------------
(***************************************************************************)
(* The kernel's record k and the page tables t of all processes together.  *)
(***************************************************************************)
Sound(k, t) ==
  /\ KernelSound(k)
  /\ t \in [Pid -> [Page -> Entry]]
  /\ \A p \in Pid : OneEach(t[p]) /\ FramesIn(t[p]) \cap KFrames(k) = {}
  /\ \A p, q \in Pid : p # q => FramesIn(t[p]) \cap FramesIn(t[q]) = {}
  /\ Frame = KFrames(k) \cup UNION {FramesIn(t[p]) : p \in Pid}
  /\ \A p \in Pid : \A i \in Page : t[p][i] = KernelFrame => p = Idle /\ i \in KStack

\* The kernel and p exchange frames: p's table was old and is new.
Exchange(p, k, old, k1, new) ==
  /\ KernelSound(k1)
  /\ new \in [Page -> Entry] /\ OneEach(new)
  /\ \A i \in Page : new[i] = KernelFrame => p = Idle /\ i \in KStack
  /\ FramesIn(new) \cap KFrames(k1) = {}
  /\ FramesIn(new) \cup KFrames(k1) = FramesIn(old) \cup KFrames(k)

\* The tables t when p's has been replaced.
Put(t, p, table) == [t EXCEPT ![p] = table]

LEMMA ExchangeSound ==
  ASSUME NEW k, NEW t, Sound(k, t), NEW p \in Pid, NEW k1, NEW new,
         Exchange(p, k, t[p], k1, new),
         NEW t1, t1 = Put(t, p, new)
  PROVE  Sound(k1, t1)
<1>1. t1 \in [Pid -> [Page -> Entry]]
  BY DEF Sound, Exchange, Put
<1>2. t1[p] = new /\ \A q \in Pid : q # p => t1[q] = t[q]
  BY DEF Sound, Put
<1>3. \A q \in Pid : q # p => FramesIn(t[q]) \cap (FramesIn(t[p]) \cup KFrames(k)) = {}
  BY DEF Sound
<1>4. \A q \in Pid : q # p => FramesIn(t1[q]) \cap (FramesIn(new) \cup KFrames(k1)) = {}
  BY <1>2, <1>3 DEF Exchange
<1>5. \A q \in Pid : OneEach(t1[q]) /\ FramesIn(t1[q]) \cap KFrames(k1) = {}
  BY <1>2, <1>4 DEF Sound, Exchange
<1>6. ASSUME NEW q \in Pid, NEW r \in Pid, q # r
      PROVE  FramesIn(t1[q]) \cap FramesIn(t1[r]) = {}
  <2>1. CASE q = p
    BY <1>2, <1>4, <1>6, <2>1
  <2>2. CASE r = p
    BY <1>2, <1>4, <1>6, <2>2
  <2>3. CASE q # p /\ r # p
    BY <1>2, <1>6, <2>3 DEF Sound
  <2> QED BY <2>1, <2>2, <2>3
<1>7. ASSUME NEW f \in Frame PROVE f \in KFrames(k1) \cup UNION {FramesIn(t1[q]) : q \in Pid}
  <2>1. CASE f \in FramesIn(t[p]) \cup KFrames(k)
    BY <1>2, <2>1 DEF Exchange
  <2>2. CASE f \notin FramesIn(t[p]) \cup KFrames(k)
    <3>1. PICK q \in Pid : f \in FramesIn(t[q])
      BY <2>2 DEF Sound
    <3> QED BY <1>2, <2>2, <3>1
  <2> QED BY <2>1, <2>2
<1>8. KFrames(k1) \cup UNION {FramesIn(t1[q]) : q \in Pid} \subseteq Frame
  <2>1. Range(k1.free) \subseteq Frame
    BY RangeOfSeq DEF Exchange, KernelSound, KernelRecord
  <2> QED BY <2>1 DEF KFrames, FramesIn
<1>9. \A q \in Pid : \A i \in Page : t1[q][i] = KernelFrame => q = Idle /\ i \in KStack
  BY <1>2 DEF Sound, Exchange
<1>10. Frame = KFrames(k1) \cup UNION {FramesIn(t1[q]) : q \in Pid}
  BY <1>7, <1>8
<1> QED BY <1>1, <1>5, <1>6, <1>9, <1>10 DEF Sound, Exchange

LEMMA KernelMoves ==
  ASSUME NEW k, NEW t, Sound(k, t), NEW k1, KernelSound(k1), KFrames(k1) = KFrames(k)
  PROVE  Sound(k1, t)
BY DEF Sound

\* p gets n frames for the pages in S.
LEMMA GiveFacts ==
  ASSUME NEW k, NEW t, Sound(k, t), NEW p \in Pid,
         NEW S, S \subseteq Page, S \cap Valid(t[p]) = {},
         NEW pages, Lists(pages, S), NEW n, n = Len(pages),
         NEW who, NEW k1, k1 = AllocateFreePage(k, n, who), Runs(k1),
         NEW new, new = Mapped(t[p], pages, Taken(k, n)),
         NEW t1, t1 = Put(t, p, new)
  PROVE  /\ Sound(k1, t1) /\ t1[p] = new
         /\ Valid(new) = Valid(t[p]) \cup S
         /\ Len(k1.free) = Len(k.free) - n /\ SameButFree(k1, k)
<1> DEFINE old == t[p]
           took == Taken(k, n)
<1>1. n \in Nat
  BY LenProperties DEF Lists
<1>2. old \in [Page -> Entry] /\ OneEach(old) /\ FramesIn(old) \cap KFrames(k) = {}
  BY DEF Sound
<1>3. /\ KernelSound(k1) /\ Len(k1.free) = Len(k.free) - n /\ SameButFree(k1, k)
      /\ took \in Seq(Frame) /\ Len(took) = n /\ IsInjective(took)
      /\ Range(took) \cap KFrames(k1) = {}
      /\ KFrames(k) = KFrames(k1) \cup Range(took)
  <2>1. KernelSound(k)
    BY DEF Sound
  <2> QED BY <1>1, <2>1, AllocateFacts
<1>4. \A i \in S : old[i] = NoFrame
  BY <1>2 DEF Valid
<1> HIDE DEF old, took
<1>5. FramesIn(old) \cap Range(took) = {}
  BY <1>2, <1>3
<1>6. Room(Page, old, S, pages, took)
  BY <1>2, <1>3, <1>4, <1>5 DEF Room
<1>7. Filled(Page, old, S, took, new)
  BY <1>6, MappedFacts DEF old, took
<1>8. FramesIn(new) = FramesIn(old) \cup Range(took)
  BY <1>7 DEF Filled
<1>9. \A i \in Page : new[i] = KernelFrame => p = Idle /\ i \in KStack
  <2>1. \A i \in S : new[i] # KernelFrame
    BY <1>7, Numbers DEF Filled
  <2>2. \A i \in Page \ S : new[i] = old[i]
    BY <1>7 DEF Filled
  <2>3. \A i \in Page : old[i] = KernelFrame => p = Idle /\ i \in KStack
    BY DEF Sound, old
  <2> QED BY <2>1, <2>2, <2>3
<1>10. Exchange(p, k, old, k1, new)
  BY <1>2, <1>3, <1>7, <1>8, <1>9 DEF Exchange, Filled
<1>11. Sound(k1, t1)
  BY <1>10, ExchangeSound DEF old
<1>12. Valid(new) = Valid(old) \cup S
  <2>1. DOMAIN new = Page /\ DOMAIN old = Page
    BY <1>2, <1>7 DEF Filled
  <2>2. \A i \in S : new[i] # NoFrame
    BY <1>7, Numbers DEF Filled
  <2>3. \A i \in Page \ S : new[i] = old[i]
    BY <1>7 DEF Filled
  <2> QED BY <2>1, <2>2, <2>3 DEF Valid
<1>13. t1[p] = new
  BY DEF Sound, Put
<1> QED BY <1>3, <1>11, <1>12, <1>13 DEF old

\* The frames of p's pages in S are freed.
LEMMA TakeFacts ==
  ASSUME NEW k, NEW t, Sound(k, t), Runs(k), NEW p \in Pid,
         NEW S, S \subseteq Valid(t[p]), p = Idle => S \cap KStack = {},
         NEW pages, Lists(pages, S),
         NEW frames, frames = FramesOf(t[p], pages),
         NEW grow \in 0..Len(pages),
         NEW k1, k1 = FreePhysicalPage(k, frames, grow), Runs(k1),
         NEW t1, t1 = Put(t, p, Without(t[p], S))
  PROVE  /\ Sound(k1, t1) /\ t1[p] = Without(t[p], S) /\ Kept(k, k1)
         /\ Valid(Without(t[p], S)) = Valid(t[p]) \ S
         /\ grow = 0 => Len(k1.free) = Len(k.free) + Len(pages) /\ SameButFree(k1, k)
<1> DEFINE old == t[p]
           new == Without(old, S)
           gone == Backing(old, S)
<1>1. old \in [Page -> Entry] /\ OneEach(old) /\ FramesIn(old) \cap KFrames(k) = {}
  BY DEF Sound
<1>2. S \subseteq Page
  BY <1>1 DEF Valid
<1>3. \A i \in S : old[i] \in Frame
  <2>1. \A i \in S : old[i] # NoFrame /\ old[i] # KernelFrame
    BY <1>2 DEF Sound, Valid
  <2> QED BY <1>1, <1>2, <2>1 DEF Entry
<1> HIDE DEF old
<1>4. /\ frames \in Seq(Frame) /\ IsInjective(frames) /\ Range(frames) = gone
      /\ Len(frames) = Len(pages)
  <2>1. frames = FramesOf(old, pages)
    BY DEF old
  <2>2. S \subseteq DOMAIN old /\ gone \subseteq Frame
    BY <1>1, <1>2, <1>3 DEF Backing
  <2> QED BY <1>1, <2>1, <2>2, ListedFrames
<1>5. gone \cap KFrames(k) = {} /\ gone \cap Frame = gone
  <2>1. gone \subseteq FramesIn(old)
    BY <1>1, <1>2, <1>3 DEF FramesIn, Backing
  <2> QED BY <1>1, <2>1 DEF FramesIn
<1>6. /\ KernelSound(k1) /\ KFrames(k1) = KFrames(k) \cup gone /\ Kept(k, k1)
      /\ grow = 0 => Len(k1.free) = Len(k.free) + Len(pages) /\ SameButFree(k1, k)
  <2>1. KernelSound(k)
    BY DEF Sound
  <2>2. grow \in 0..Len(frames) /\ Range(frames) \cap KFrames(k) = {}
    BY <1>4, <1>5
  <2> HIDE DEF gone
  <2> QED BY <1>4, <2>1, <2>2, FreeFacts
<1>7. /\ new \in [Page -> Entry] /\ OneEach(new)
      /\ FramesIn(new) \cap gone = {}
      /\ FramesIn(old) = FramesIn(new) \cup (gone \cap Frame)
      /\ Valid(new) = Valid(old) \ S
  BY <1>1, <1>2, WithoutFacts
<1>8. \A i \in Page : new[i] = KernelFrame => p = Idle /\ i \in KStack
  <2>1. \A i \in Page : new[i] = KernelFrame => old[i] = KernelFrame
    BY <1>1, Numbers DEF Without
  <2> QED BY <2>1 DEF Sound, old
<1> HIDE DEF new, gone
<1>9. Exchange(p, k, old, k1, new)
  BY <1>1, <1>5, <1>6, <1>7, <1>8 DEF Exchange
<1>10. Sound(k1, t1) /\ t1[p] = new
  <2>1. t1 = Put(t, p, new)
    BY DEF new, old
  <2>2. t1[p] = new
    BY <2>1 DEF Sound, Put
  <2> QED BY <1>9, <2>1, <2>2, ExchangeSound DEF old
<1> QED BY <1>6, <1>7, <1>10 DEF new, old
----------------------------------------------------------------------------
(***************************************************************************)
(* The invariant.                                                          *)
(***************************************************************************)
\* The heap below b, the stack from s up to its limit, the kernel stack.
Layout(b, s) == (MEM_INVALID_PAGES..(b - 1)) \cup (s..(StackLimit - 1)) \cup KStack

SpaceOK(table, b, s) ==
  /\ b \in Page /\ s \in Page
  /\ MEM_INVALID_PAGES <= b /\ b < s /\ s <= StackLimit
  /\ Valid(table) = Layout(b, s)

\* What KernelStart finds before init runs: there are frames enough.
BootInv ==
  /\ phase \in {"idle", "init", "up"}
  /\ phase # "up" => live = {} /\ TableFits(mem) /\ ~mem.is_half_used
  /\ phase = "idle" => Len(mem.free) = LowFrames
  /\ phase = "init" =>
       Len(mem.free) >= FrameNeed(InitProgram) + KERNEL_STACK_PAGES + 1

SpacesInv ==
  /\ brk \in [Pid -> Page] /\ uStack_bottom \in [Pid -> Page]
  /\ pid_counter \in Nat
  /\ \A p \in live : p \in Pid /\ p # Idle /\ p < pid_counter
  /\ \A p \in live \cup {Idle} : SpaceOK(pgt_r0[p], brk[p], uStack_bottom[p])
  /\ \A p \in Pid : p \notin live /\ p # Idle => Valid(pgt_r0[p]) = {}

MemInv == Sound(mem, pgt_r0) /\ BootInv /\ SpacesInv

\* What is left once a handler has taken a node past the end of the list and
\* returned: the types.
Loose ==
  /\ Corrupt /\ KernelRecord(mem)
  /\ phase \in {"idle", "init", "up"}
  /\ live \subseteq Pid \ {Idle} /\ pid_counter \in Nat
  /\ pgt_r0 \in [Pid -> [Page -> Entry]]
  /\ brk \in [Pid -> Page] /\ uStack_bottom \in [Pid -> Page]

\* A handler returns so, and Region 1 is in order.
CutOff == Loose' /\ Kept(mem, mem')

LEMMA PagesListed ==
  ASSUME NEW S, S \subseteq Page
  PROVE  /\ Lists(Ascending(S), S) /\ Len(Ascending(S)) = Cardinality(S)
         /\ IsFiniteSet(S) /\ Cardinality(S) \in Nat
<1>1. IsFiniteSet(Page) /\ Page \subseteq Int
  BY Numbers, FS_Interval DEF Page
<1>2. IsFiniteSet(S) /\ S \in SUBSET Int
  BY <1>1, FS_Subset
<1> QED BY <1>2, AscendingLists, FS_CardinalityType

LEMMA ProgramFacts ==
  ASSUME NEW prog \in Sizes, FitsVirtual(prog)
  PROVE  /\ ProgramPages(prog) \subseteq Page /\ ProgramPages(prog) \cap KStack = {}
         /\ Cardinality(ProgramPages(prog)) = FrameNeed(prog) /\ FrameNeed(prog) \in Nat
         /\ HeapEnd(prog) \in Page /\ StackLimit - prog.stack \in Page
         /\ MEM_INVALID_PAGES <= HeapEnd(prog) /\ HeapEnd(prog) < StackLimit - prog.stack
         /\ StackLimit - prog.stack <= StackLimit
         /\ ProgramPages(prog) \cup KStack = Layout(HeapEnd(prog), StackLimit - prog.stack)
<1> DEFINE m == MEM_INVALID_PAGES
           h == HeapEnd(prog)
           s == StackLimit - prog.stack
           heap == m..(h - 1)
           stack == s..(StackLimit - 1)
<1>1. /\ prog.text \in Nat /\ prog.data \in Nat /\ prog.stack \in Nat
      /\ m \in Nat /\ StackLimit \in Nat /\ PAGE_TABLE_LEN \in Nat
      /\ h = m + prog.text + prog.data
      /\ StackLimit = PAGE_TABLE_LEN - KERNEL_STACK_PAGES - 1 /\ KERNEL_STACK_PAGES \in Nat
  BY Numbers DEF Sizes, HeapEnd, StackLimit
<1>2. m + prog.text + prog.data + 1 + prog.stack + 1 + KERNEL_STACK_PAGES <= PAGE_TABLE_LEN
  BY DEF FitsVirtual
<1>3. /\ h \in Nat /\ s \in Nat /\ m <= h /\ h < s /\ s <= StackLimit
      /\ StackLimit <= PAGE_TABLE_LEN - 1
  BY <1>1, <1>2
<1>4. ProgramPages(prog) = heap \cup stack
  BY DEF ProgramPages
<1>5. FrameNeed(prog) = (h - m) + (StackLimit - s) /\ FrameNeed(prog) \in Nat
  BY <1>1 DEF FrameNeed
<1> HIDE DEF h, s
<1>6. heap \subseteq Page /\ stack \subseteq Page /\ heap \cap stack = {} /\ h \in Page /\ s \in Page
  BY <1>1, <1>3 DEF Page
<1>7. heap \cap KStack = {} /\ stack \cap KStack = {}
  BY <1>1, <1>3, Numbers
<1>8. Cardinality(heap \cup stack) = (h - m) + (StackLimit - s)
  <2>1. /\ IsFiniteSet(heap) /\ Cardinality(heap) = IF m > h - 1 THEN 0 ELSE (h - 1) - m + 1
        /\ IsFiniteSet(stack)
        /\ Cardinality(stack) = IF s > StackLimit - 1 THEN 0 ELSE (StackLimit - 1) - s + 1
    <3>1. m \in Int /\ h - 1 \in Int /\ s \in Int /\ StackLimit - 1 \in Int
      BY <1>1, <1>3
    <3>2. \A a \in Int, b \in Int :
            IsFiniteSet(a..b) /\ Cardinality(a..b) = IF a > b THEN 0 ELSE b - a + 1
      BY FS_Interval
    <3> QED BY <3>1, <3>2
  <2>2. Cardinality(heap) = h - m /\ Cardinality(stack) = StackLimit - s
    BY <1>1, <1>3, <2>1
  <2>3. Cardinality(heap \cup stack) =
          Cardinality(heap) + Cardinality(stack) - Cardinality(heap \cap stack)
    BY <2>1, FS_Union
  <2>4. Cardinality(heap \cap stack) = 0
    BY <1>6, FS_EmptySet
  <2> HIDE DEF heap, stack
  <2> QED BY <1>1, <1>3, <2>2, <2>3, <2>4
<1>9. ProgramPages(prog) \cup KStack = Layout(h, s)
  BY <1>4 DEF Layout
<1> HIDE DEF heap, stack
<1>10. ProgramPages(prog) \subseteq Page /\ ProgramPages(prog) \cap KStack = {}
  BY <1>4, <1>6, <1>7
<1> QED BY <1>3, <1>4, <1>5, <1>6, <1>8, <1>9, <1>10 DEF h, s

LEMMA InitSound ==
  ASSUME Init
  PROVE  MemInv
<1> DEFINE all == [n \in 1..LowFrames |-> n]
           r1  == [i \in 0..HeapPages |-> IF i = 0 THEN KernelFrame ELSE NoFrame]
           idle == [i \in Page |-> IF i \in KStack THEN KernelFrame ELSE NoFrame]
<1>1. /\ mem = [free |-> all, count |-> BootCount, kernel_brk |-> 1,
                addr_next_pgt_r0 |-> HeapPages, is_half_used |-> FALSE, pgt_r1 |-> r1,
                machine |-> "runs", taker |-> "none", short |-> 0]
  BY DEF Init, InitMemoryManagement
<1>2. /\ all \in Seq(Frame) /\ Len(all) = LowFrames /\ IsInjective(all) /\ Range(all) = Frame
  BY Numbers DEF IsInjective, Range, Frame
<1>3. r1 \in [0..HeapPages -> Entry] /\ FramesIn(r1) = {} /\ OneEach(r1)
      /\ r1[0] = KernelFrame /\ r1[HeapPages] = NoFrame
  BY Numbers DEF Entry, FramesIn, OneEach
<1>4. KernelSound(mem) /\ KFrames(mem) = Frame
  <2> HIDE DEF all, r1
  <2>1. BootCount = LowFrames + HighFrames - 1 /\ BootCount \in Int
    BY Numbers DEF BootCount
  <2>2. KernelRecord(mem)
    BY <1>1, <1>2, <1>3, <2>1, Numbers DEF KernelRecord
  <2> QED BY <1>1, <1>2, <1>3, <2>1, <2>2 DEF KernelSound, KFrames
<1>5. \A p \in Pid : pgt_r0[p] = IF p = Idle THEN idle ELSE NoTable
  BY DEF Init, NoTable
<1>6. /\ idle \in [Page -> Entry] /\ OneEach(idle) /\ FramesIn(idle) = {} /\ Valid(idle) = KStack
      /\ \A i \in Page : idle[i] = KernelFrame => i \in KStack
  BY Numbers DEF Entry, FramesIn, OneEach, Valid
<1>7. /\ NoTable \in [Page -> Entry] /\ OneEach(NoTable) /\ FramesIn(NoTable) = {}
      /\ Valid(NoTable) = {} /\ \A i \in Page : NoTable[i] # KernelFrame
  BY Numbers DEF NoTable, Entry, FramesIn, OneEach, Valid
<1> HIDE DEF idle
<1>8. pgt_r0 \in [Pid -> [Page -> Entry]]
  <2>1. pgt_r0 = [p \in Pid |-> pgt_r0[p]]
    BY DEF Init
  <2> QED BY <1>5, <1>6, <1>7, <2>1
<1>9. Sound(mem, pgt_r0)
  <2>1. \A p \in Pid : FramesIn(pgt_r0[p]) = {} /\ OneEach(pgt_r0[p])
    BY <1>5, <1>6, <1>7
  <2>2. \A p \in Pid : \A i \in Page : pgt_r0[p][i] = KernelFrame => p = Idle /\ i \in KStack
    BY <1>5, <1>6, <1>7
  <2> QED BY <1>4, <1>8, <2>1, <2>2 DEF Sound
<1>10. BootInv
  <2>1. /\ mem.free = all /\ mem.is_half_used = FALSE /\ mem.addr_next_pgt_r0 = HeapPages
        /\ mem.pgt_r1 = r1
    BY <1>1
  <2> HIDE DEF all, r1
  <2> QED BY <1>2, <1>3, <2>1 DEF BootInv, Init, TableFits
<1>11. SpacesInv
  <2>1. MEM_INVALID_PAGES \in Page /\ StackLimit \in Page
    BY Numbers DEF Page
  <2>2. SpaceOK(idle, MEM_INVALID_PAGES, StackLimit)
    <3>1. MEM_INVALID_PAGES..(MEM_INVALID_PAGES - 1) = {} /\ StackLimit..(StackLimit - 1) = {}
      BY Numbers
    <3> QED BY <1>6, <2>1, <3>1, Numbers DEF SpaceOK, Layout
  <2>3. Idle \in Pid /\ Idle \in Nat
    BY Numbers DEF Idle, Pid
  <2> QED BY <1>5, <1>7, <2>1, <2>2, <2>3 DEF SpacesInv, Init
<1> QED BY <1>9, <1>10, <1>11 DEF MemInv
----------------------------------------------------------------------------
(***************************************************************************)
(* Steps of a kind.                                                        *)
(***************************************************************************)
\* The memory of everyone but p, and what the kernel has, stays as it is.
OnlyOwn(p) ==
  Kept(mem, mem') /\ \A q \in Pid : q # p => pgt_r0'[q] = pgt_r0[q]

LEMMA StopsKeeps ==
  ASSUME MemInv, NEW k, Stops(k)
  PROVE  MemInv' /\ \A p \in Pid : OnlyOwn(p)
<1>1. /\ mem' = [mem EXCEPT !.machine = k.machine, !.taker = k.taker, !.short = k.short]
      /\ phase' = phase /\ live' = live /\ pid_counter' = pid_counter
      /\ pgt_r0' = pgt_r0 /\ brk' = brk /\ uStack_bottom' = uStack_bottom
  BY DEF Stops, Noted, spaces
<1>2. KernelSound(mem)
  BY DEF MemInv, Sound
<1>3. /\ KernelRecord(mem') /\ mem'.free = mem.free /\ mem'.count = mem.count
      /\ mem'.pgt_r1 = mem.pgt_r1 /\ mem'.is_half_used = mem.is_half_used
      /\ mem'.addr_next_pgt_r0 = mem.addr_next_pgt_r0 /\ mem'.kernel_brk = mem.kernel_brk
  BY <1>1, <1>2 DEF KernelSound, KernelRecord
<1>4. KernelSound(mem') /\ KFrames(mem') = KFrames(mem)
  BY <1>2, <1>3 DEF KernelSound, KFrames
<1>5. Sound(mem', pgt_r0')
  BY <1>1, <1>4, KernelMoves DEF MemInv
<1>6. BootInv'
  BY <1>1, <1>3 DEF MemInv, BootInv, TableFits
<1>7. SpacesInv'
  BY <1>1 DEF MemInv, SpacesInv
<1> QED BY <1>1, <1>3, <1>5, <1>6, <1>7, KeptSame DEF MemInv, OnlyOwn

\* The handler returns with part of its work done.
LEMMA CutShortKeeps ==
  ASSUME MemInv, NEW k, CutShort(k), k.machine = "corrupt",
         pgt_r0' \in [Pid -> [Page -> Entry]],
         brk' \in [Pid -> Page], uStack_bottom' \in [Pid -> Page]
  PROVE  CutOff
<1>1. /\ mem' = [mem EXCEPT !.machine = k.machine, !.taker = k.taker, !.short = k.short]
      /\ phase' = phase /\ live' = live /\ pid_counter' = pid_counter
  BY DEF CutShort, Noted
<1>2. KernelRecord(mem)
  BY DEF MemInv, Sound, KernelSound
<1>3. /\ KernelRecord(mem') /\ mem'.machine = "corrupt"
      /\ mem'.pgt_r1 = mem.pgt_r1 /\ mem'.kernel_brk = mem.kernel_brk
      /\ mem'.addr_next_pgt_r0 = mem.addr_next_pgt_r0 /\ mem'.is_half_used = mem.is_half_used
  BY <1>1, <1>2 DEF KernelRecord
<1>4. live \subseteq Pid \ {Idle} /\ pid_counter \in Nat /\ phase \in {"idle", "init", "up"}
  BY DEF MemInv, SpacesInv, BootInv
<1>5. Kept(mem, mem')
  BY <1>3, KeptSame
<1> QED BY <1>1, <1>3, <1>4, <1>5 DEF CutOff, Loose, Corrupt

\* A table with pages mapped to what a handler has got by then.
LEMMA ReceivedMapped ==
  ASSUME NEW k, KernelRecord(k), NEW m \in Nat,
         NEW pages, DOMAIN pages = 1..m, NEW table \in [Page -> Entry]
  PROVE  Mapped(table, pages, Received(k, m)) \in [Page -> Entry]
<1> DEFINE got == Received(k, m)
           at(i) == CHOOSE n \in DOMAIN pages : pages[n] = i
<1>1. k.free \in Seq(Frame) /\ Len(k.free) \in Nat /\ DOMAIN k.free = 1..Len(k.free)
  BY LenProperties DEF KernelRecord
<1>2. \A n \in 1..m : got[n] \in Entry
  <2> SUFFICES ASSUME NEW n \in 1..m PROVE got[n] \in Entry
    OBVIOUS
  <2>1. got[n] = IF n <= Len(k.free) THEN k.free[n] ELSE KernelFrame
    BY DEF Received
  <2>2. n <= Len(k.free) => k.free[n] \in Frame
    BY <1>1, ElementOfSeq
  <2> QED BY <2>1, <2>2 DEF Entry
<1>3. \A i \in Range(pages) : at(i) \in 1..m
  BY DEF Range
<1> HIDE DEF got, at
<1>4. Mapped(table, pages, got) =
        [i \in Page |-> IF i \in Range(pages) THEN got[at(i)] ELSE table[i]]
  BY DEF Mapped, at
<1> QED BY <1>2, <1>3, <1>4 DEF got

\* The memory of nobody changes.
LEMMA KernelStep ==
  ASSUME MemInv, phase = "up", KernelSound(mem'), KFrames(mem') = KFrames(mem),
         Kept(mem, mem'),
         phase' = phase, live' = live, spaces' = spaces,
         pid_counter' \in Nat, pid_counter' >= pid_counter
  PROVE  MemInv' /\ \A p \in Pid : OnlyOwn(p)
<1>1. pgt_r0' = pgt_r0 /\ brk' = brk /\ uStack_bottom' = uStack_bottom
  BY DEF spaces
<1>2. Sound(mem', pgt_r0')
  BY <1>1, KernelMoves DEF MemInv
<1>3. BootInv'
  BY DEF BootInv
<1>4. SpacesInv'
  <2>1. \A p \in live : p < pid_counter'
    <3>1. pid_counter \in Nat /\ \A p \in live : p \in Pid /\ p < pid_counter
      BY DEF MemInv, SpacesInv
    <3>2. \A p \in Pid : p \in Nat
      BY DEF Pid
    <3> QED BY <3>1, <3>2
  <2> QED BY <1>1, <2>1 DEF MemInv, SpacesInv
<1> QED BY <1>1, <1>2, <1>3, <1>4 DEF MemInv, OnlyOwn

LEMMA RefusedKeeps ==
  ASSUME MemInv, phase = "up", NEW k, Refused(k),
         KernelSound(k), KFrames(k) = KFrames(mem), Kept(mem, k),
         pid_counter' \in Nat, pid_counter' >= pid_counter
  PROVE  MemInv' /\ \A p \in Pid : OnlyOwn(p)
BY KernelStep DEF Refused

\* The memory of everyone but p stays as it is.
Others(p) ==
  \A q \in Pid : q # p =>
    pgt_r0'[q] = pgt_r0[q] /\ brk'[q] = brk[q] /\ uStack_bottom'[q] = uStack_bottom[q]

LEMMA ProcessStep ==
  ASSUME MemInv, NEW p \in Pid, p # Idle, phase' = "up", Sound(mem, pgt_r0)',
         Others(p), Kept(mem, mem'), brk' \in [Pid -> Page], uStack_bottom' \in [Pid -> Page],
         pid_counter' \in Nat, pid_counter' >= pid_counter,
         \/ /\ live' = live \cup {p} /\ p < pid_counter'
            /\ SpaceOK(pgt_r0'[p], brk'[p], uStack_bottom'[p])
         \/ live' = live \ {p} /\ Valid(pgt_r0'[p]) = {}
  PROVE  MemInv' /\ OnlyOwn(p)
<1>1. BootInv'
  BY DEF BootInv
<1>2. SpacesInv
  BY DEF MemInv
<1>3. ASSUME NEW q \in live' PROVE q \in Pid /\ q # Idle /\ q < pid_counter'
  <2>1. CASE q = p /\ q \notin live
    BY <2>1
  <2>2. CASE q \in live
    BY <1>2, <2>2, Numbers DEF SpacesInv, Pid
  <2> QED BY <2>1, <2>2
<1>4. ASSUME NEW q \in live' \cup {Idle}
      PROVE  SpaceOK(pgt_r0'[q], brk'[q], uStack_bottom'[q])
  <2>1. CASE q = p
    BY <2>1
  <2>2. CASE q # p
    <3>1. q \in live \cup {Idle} /\ q \in Pid
      BY <1>2, <2>2, Numbers DEF SpacesInv, Idle, Pid
    <3> QED BY <1>2, <2>2, <3>1 DEF SpacesInv, Others
  <2> QED BY <2>1, <2>2
<1>5. ASSUME NEW q \in Pid, q \notin live', q # Idle PROVE Valid(pgt_r0'[q]) = {}
  <2>1. CASE q = p
    BY <1>5, <2>1
  <2>2. CASE q # p
    BY <1>2, <1>5, <2>2 DEF SpacesInv, Others
  <2> QED BY <2>1, <2>2
<1>6. SpacesInv'
  BY <1>3, <1>4, <1>5 DEF SpacesInv
<1> QED BY <1>1, <1>6 DEF MemInv, OnlyOwn, Others

\* What a process at work has.
LEMMA AtWork ==
  ASSUME MemInv, NEW p \in live
  PROVE  /\ p \in Pid /\ p # Idle /\ p < pid_counter /\ phase = "up"
         /\ SpaceOK(pgt_r0[p], brk[p], uStack_bottom[p])
         /\ KernelSound(mem) /\ Sound(mem, pgt_r0) /\ pid_counter \in Nat
         /\ pgt_r0 \in [Pid -> [Page -> Entry]] /\ pgt_r0[p] \in [Page -> Entry]
         /\ brk \in [Pid -> Page] /\ uStack_bottom \in [Pid -> Page]
         /\ brk[p] \in Page /\ uStack_bottom[p] \in Page
<1>1. p \in Pid /\ p # Idle /\ p < pid_counter
  BY DEF MemInv, SpacesInv
<1>2. Sound(mem, pgt_r0)
  BY DEF MemInv
<1>3. pgt_r0 \in [Pid -> [Page -> Entry]] /\ KernelSound(mem)
  BY <1>2 DEF Sound
<1>4. brk \in [Pid -> Page] /\ uStack_bottom \in [Pid -> Page] /\ pid_counter \in Nat
  BY DEF MemInv, SpacesInv
<1>5. phase = "up"
  BY DEF MemInv, BootInv
<1>6. SpaceOK(pgt_r0[p], brk[p], uStack_bottom[p])
  BY DEF MemInv, SpacesInv
<1> QED BY <1>1, <1>2, <1>3, <1>4, <1>5, <1>6
----------------------------------------------------------------------------
(***************************************************************************)
(* Termination.                                                            *)
(***************************************************************************)
LEMMA TerminateKeeps ==
  ASSUME MemInv, NEW p \in live, NEW k, NEW table, NEW t, Sound(k, t), Runs(k), Kept(mem, k),
         t[p] = table, \A q \in Pid : q # p => t[q] = pgt_r0[q],
         NEW b, NEW s, SpaceOK(table, b, s),
         TerminateProcess(p, k, table)
  PROVE  MemInv' /\ OnlyOwn(p)
<1> DEFINE S == PagesToFree(table)
           pages == Ascending(S)
           frames == FramesAt(table, S)
<1>1. p \in Pid /\ p # Idle
  BY AtWork
<1>2. table \in [Page -> Entry]
  BY <1>1 DEF Sound
<1>3. S = Valid(table) /\ S \subseteq Page
  <2>1. Valid(table) \subseteq Page
    BY <1>2 DEF Valid
  <2>2. \A i \in Valid(table) : i >= MEM_INVALID_PAGES
    <3>1. \A i \in Layout(b, s) : i >= MEM_INVALID_PAGES
      BY Numbers DEF Layout, SpaceOK, Page
    <3> QED BY <3>1 DEF SpaceOK
  <2> QED BY <2>1, <2>2 DEF PagesToFree
<1>4. Lists(pages, S) /\ Len(pages) = Cardinality(S) /\ frames = FramesOf(table, pages)
  BY <1>3, PagesListed DEF FramesAt, FramesOf
<1> HIDE DEF S, pages, frames
<1>5. PICK grow \in GrowAt(k, Cardinality(S)) :
        LET k1 == FreePhysicalPage(k, frames, grow) IN
        \/ Stops(k1)
        \/ /\ Runs(k1)
           /\ mem' = [k1 EXCEPT !.machine = IF live = {p} THEN "halted" ELSE @]
           /\ live' = live \ {p}
           /\ pgt_r0' = [pgt_r0 EXCEPT ![p] = NoTable]
           /\ brk' = [brk EXCEPT ![p] = MEM_INVALID_PAGES]
           /\ uStack_bottom' = [uStack_bottom EXCEPT ![p] = StackLimit]
           /\ slot' = [slot EXCEPT ![p] = NoSlot]
           /\ result' = OK
           /\ UNCHANGED <<phase, pid_counter>>
  BY DEF TerminateProcess, S, frames
<1> DEFINE k1 == FreePhysicalPage(k, frames, grow)
           t1 == Put(t, p, Without(table, S))
<1>6. CASE Stops(k1)
  BY <1>1, <1>6, StopsKeeps
<1>7. CASE /\ Runs(k1)
           /\ mem' = [k1 EXCEPT !.machine = IF live = {p} THEN "halted" ELSE @]
           /\ live' = live \ {p}
           /\ pgt_r0' = [pgt_r0 EXCEPT ![p] = NoTable]
           /\ brk' = [brk EXCEPT ![p] = MEM_INVALID_PAGES]
           /\ uStack_bottom' = [uStack_bottom EXCEPT ![p] = StackLimit]
           /\ slot' = [slot EXCEPT ![p] = NoSlot]
           /\ result' = OK
           /\ UNCHANGED <<phase, pid_counter>>
  <2>1. grow \in 0..Len(pages)
    <3>1. Cardinality(S) \in Nat
      BY <1>3, PagesListed
    <3> QED BY <1>4, <3>1 DEF GrowAt
  <2>2. /\ S \subseteq Valid(t[p]) /\ (p = Idle => S \cap KStack = {})
        /\ frames = FramesOf(t[p], pages) /\ t1 = Put(t, p, Without(t[p], S))
    BY <1>1, <1>3, <1>4
  <2>3. Sound(k1, t1) /\ Kept(k, k1)
    <3> HIDE DEF k1, t1
    <3>1. k1 = FreePhysicalPage(k, frames, grow) /\ Runs(k1)
      BY <1>7 DEF k1
    <3> QED BY <1>1, <1>4, <2>1, <2>2, <3>1, TakeFacts
  <2>4. Without(table, S) = NoTable /\ Valid(NoTable) = {}
    BY <1>2, <1>3 DEF Without, NoTable, Valid
  <2>5. t1 = pgt_r0'
    <3>1. t \in [Pid -> [Page -> Entry]] /\ pgt_r0 \in [Pid -> [Page -> Entry]]
      BY AtWork DEF Sound
    <3> QED BY <1>7, <2>4, <3>1 DEF Put
  <2>6. KernelSound(mem') /\ KFrames(mem') = KFrames(k1) /\ Kept(mem, mem')
    <3> DEFINE m == IF live = {p} THEN "halted" ELSE k1.machine
    <3>1. mem' = [k1 EXCEPT !.machine = m] /\ KernelSound(k1)
      BY <1>7, <2>3 DEF Sound
    <3> HIDE DEF m, k1
    <3>2. /\ KernelRecord(mem') /\ mem'.free = k1.free /\ mem'.count = k1.count
          /\ mem'.pgt_r1 = k1.pgt_r1 /\ mem'.is_half_used = k1.is_half_used
          /\ mem'.addr_next_pgt_r0 = k1.addr_next_pgt_r0 /\ mem'.kernel_brk = k1.kernel_brk
      BY <3>1 DEF KernelSound, KernelRecord
    <3>3. Kept(mem, mem')
      BY <2>3, <3>2, KeptSame, KeptOn
    <3> QED BY <3>1, <3>2, <3>3 DEF KernelSound, KFrames
  <2>7. Sound(mem', pgt_r0')
    BY <2>3, <2>5, <2>6, KernelMoves
  <2>8. /\ pgt_r0'[p] = NoTable /\ Others(p)
        /\ brk' \in [Pid -> Page] /\ uStack_bottom' \in [Pid -> Page]
        /\ phase' = "up" /\ pid_counter' = pid_counter /\ pid_counter \in Nat
    <3>1. MEM_INVALID_PAGES \in Page /\ StackLimit \in Page
      BY Numbers DEF Page
    <3> QED BY <1>1, <1>7, <3>1, AtWork DEF Others
  <2>9. live' = live \ {p} /\ Valid(pgt_r0'[p]) = {}
    BY <1>7, <2>4, <2>8
  <2>10. pid_counter' \in Nat /\ pid_counter' >= pid_counter
    BY <2>8
  <2> QED BY <1>1, <2>6, <2>7, <2>8, <2>9, <2>10, ProcessStep
<1> QED BY <1>5, <1>6, <1>7

LEMMA EndsKeeps ==
  ASSUME MemInv, NEW p \in live, NEW k, NEW table, NEW t, Sound(k, t), Kept(mem, k),
         t[p] = table, \A q \in Pid : q # p => t[q] = pgt_r0[q],
         NEW b, NEW s, SpaceOK(table, b, s),
         Ends(p, k, table)
  PROVE  MemInv' /\ OnlyOwn(p)
<1>1. PICK k1 \in Malloc(k) : Stops(k1) \/ (Runs(k1) /\ TerminateProcess(p, k1, table))
  BY DEF Ends
<1>2. CASE Stops(k1)
  BY <1>2, AtWork, StopsKeeps
<1>3. CASE Runs(k1) /\ TerminateProcess(p, k1, table)
  <2>1. KernelSound(k1) /\ KFrames(k1) = KFrames(k) /\ Kept(k, k1)
    BY <1>3, MallocFacts DEF Sound
  <2>2. Sound(k1, t) /\ Kept(mem, k1)
    BY <2>1, KernelMoves, KeptOn
  <2> QED BY <1>3, <2>2, TerminateKeeps
<1> QED BY <1>1, <1>2, <1>3

LEMMA ExitKeeps ==
  ASSUME MemInv, NEW p \in Pid, HandleExit(p)
  PROVE  MemInv' /\ OnlyOwn(p)
<1>1. p \in live /\ Ends(p, mem, pgt_r0[p])
  BY DEF HandleExit
<1>2. /\ Sound(mem, pgt_r0) /\ Kept(mem, mem)
      /\ SpaceOK(pgt_r0[p], brk[p], uStack_bottom[p])
  BY <1>1, AtWork, KeptSame
<1> QED BY <1>1, <1>2, EndsKeeps
----------------------------------------------------------------------------
(***************************************************************************)
(* Brk and the growth of the stack.                                        *)
(***************************************************************************)
LEMMA UnsignedFacts ==
  /\ \A x \in Page : Unsigned(x) = x
  /\ \A x \in Page : ~ (Unsigned(-1) < x)
  /\ Unsigned(-1) \in Int
<1>1. UintSize \in Nat \ {0} /\ \A x \in Page : x \in Nat /\ x < UintSize
  BY MemoryAssumption, Numbers DEF Page
<1>2. \A x \in Nat, m \in Nat \ {0} : x < m => x % m = x
  BY Z3
<1>3. \A m \in Nat \ {0} : (-1) % m = m - 1
  BY Z3
<1>4. \A x \in Page : Unsigned(x) = x
  BY <1>1, <1>2 DEF Unsigned
<1>5. Unsigned(-1) = UintSize - 1
  BY <1>1, <1>3 DEF Unsigned
<1> QED BY <1>1, <1>4, <1>5

LEMMA BrkRange ==
  ASSUME MemInv, NEW p \in live, NEW new \in Page, ~BrkRefused(p, new)
  PROVE  MEM_INVALID_PAGES < new /\ new < uStack_bottom[p]
<1> DEFINE u == uStack_bottom[p]
<1>1. u \in Page /\ brk[p] \in Page /\ brk[p] < u
  BY AtWork DEF SpaceOK
<1>2. ~ (Unsigned(new - 1) >= Unsigned(u - 1)) /\ ~ (Unsigned(new - 1) < MEM_INVALID_PAGES)
  BY DEF BrkRefused
<1> HIDE DEF u
<1>3. u - 1 \in Page /\ Unsigned(u - 1) = u - 1
  <2>1. u - 1 \in Page
    BY <1>1, Numbers DEF Page
  <2> QED BY <2>1, UnsignedFacts
<1>4. CASE new = 0
  <2>1. Unsigned(new - 1) = Unsigned(-1)
    BY <1>4
  <2> DEFINE a == Unsigned(-1)
             c == Unsigned(u - 1)
  <2>2. a \in Int /\ c \in Page /\ ~ (a < c) /\ ~ (a >= c)
    BY <1>2, <1>3, <2>1, UnsignedFacts
  <2> HIDE DEF a, c
  <2> QED BY <2>2, Numbers
<1>5. CASE new # 0
  <2>1. new - 1 \in Page
    BY <1>5, Numbers DEF Page
  <2>2. Unsigned(new - 1) = new - 1
    BY <2>1, UnsignedFacts
  <2>3. ~ (new - 1 >= u - 1) /\ ~ (new - 1 < MEM_INVALID_PAGES)
    BY <1>2, <1>3, <2>2
  <2>4. new < u /\ MEM_INVALID_PAGES < new
    BY <1>1, <2>3, Numbers
  <2> QED BY <2>4 DEF u
<1> QED BY <1>4, <1>5

\* p's own pages change; nobody is born or dies.
LEMMA SpaceChange ==
  ASSUME MemInv, NEW p \in live, NEW new, Sound(mem', pgt_r0'), Kept(mem, mem'),
         pgt_r0' = [pgt_r0 EXCEPT ![p] = new],
         brk' \in [Pid -> Page], uStack_bottom' \in [Pid -> Page],
         \A q \in Pid : q # p => brk'[q] = brk[q] /\ uStack_bottom'[q] = uStack_bottom[q],
         SpaceOK(new, brk'[p], uStack_bottom'[p]),
         phase' = phase, live' = live, pid_counter' = pid_counter
  PROVE  MemInv' /\ OnlyOwn(p)
<1>1. pgt_r0'[p] = new /\ Others(p) /\ phase' = "up"
  BY AtWork DEF Others
<1>2. /\ live' = live \cup {p} /\ p < pid_counter'
      /\ SpaceOK(pgt_r0'[p], brk'[p], uStack_bottom'[p])
  BY <1>1, AtWork
<1>3. p \in Pid /\ p # Idle /\ pid_counter' \in Nat /\ pid_counter' >= pid_counter
  BY AtWork
<1> QED BY <1>1, <1>2, <1>3, ProcessStep

LEMMA BrkUpKeeps ==
  ASSUME MemInv, NEW p \in live, NEW new \in Page, ~BrkRefused(p, new), BrkUp(p, new)
  PROVE  (MemInv' /\ OnlyOwn(p)) \/ CutOff
<1> DEFINE b == brk[p]
           u == uStack_bottom[p]
           n == new - b
           S == b..(new - 1)
           pages == Ascending(S)
           k1 == AllocateFreePage(mem, n, "brk")
           table == Mapped(pgt_r0[p], pages, Taken(mem, n))
           BrkLate(m) ==
             /\ CutShort(k1)
             /\ pgt_r0' = [pgt_r0 EXCEPT ![p] =
                   Mapped(pgt_r0[p], Ascending(b..(b + m - 1)), Received(mem, m))]
             /\ brk' = [brk EXCEPT ![p] = b + m]
             /\ uStack_bottom' = uStack_bottom
<1>1. /\ b \in Page /\ u \in Page /\ b < new /\ new < u /\ u <= StackLimit
      /\ MEM_INVALID_PAGES <= b /\ Valid(pgt_r0[p]) = Layout(b, u)
  BY BrkRange, AtWork DEF BrkUp, SpaceOK
<1>2. \/ Stops(k1)
      \/ /\ Runs(k1)
         /\ mem' = k1
         /\ pgt_r0' = [pgt_r0 EXCEPT ![p] = table]
         /\ brk' = [brk EXCEPT ![p] = new]
         /\ phase' = phase /\ live' = live /\ pid_counter' = pid_counter
         /\ uStack_bottom' = uStack_bottom
      \/ \E m \in ListEnds(mem, n) : BrkLate(m)
  BY DEF BrkUp
<1>a. n \in Nat /\ KernelRecord(mem) /\ pgt_r0[p] \in [Page -> Entry]
  BY <1>1, AtWork, Numbers DEF KernelSound
<1>7. CASE \E m \in ListEnds(mem, n) : BrkLate(m)
  <2>1. PICK m \in ListEnds(mem, n) : BrkLate(m)
    BY <1>7
  <2>2. Runs(mem) /\ m \in Nat /\ m < n
    <3>1. ListEnds(mem, n) # {} /\ Len(mem.free) \in Nat
      BY <1>a, LenProperties DEF KernelRecord
    <3>2. Runs(mem) /\ m \in (Len(mem.free) + 1)..(n - 1)
      BY <3>1 DEF ListEnds
    <3> QED BY <1>a, <3>1, <3>2
  <2>3. k1.machine = "corrupt"
    BY <1>a, <2>1, <2>2, AllocateFails DEF CutShort
  <2> DEFINE T == b..(b + m - 1)
             some == Ascending(T)
  <2>4. DOMAIN some = 1..m
    <3>1. T \subseteq Page /\ b \in Int /\ b + m - 1 \in Int
      BY <1>1, <2>2, Numbers DEF Page
    <3>2. Cardinality(T) = m
      <4>1. Cardinality(T) = IF b > b + m - 1 THEN 0 ELSE (b + m - 1) - b + 1
        BY <3>1, FS_Interval
      <4> QED BY <2>2, <3>1, <4>1
    <3>3. some \in Seq(T) /\ Len(some) = m
      BY <3>1, <3>2, PagesListed DEF Lists
    <3> QED BY <3>3, LenProperties
  <2>5. b + m \in Page
    BY <1>1, <2>2, Numbers DEF Page
  <2> HIDE DEF T, some, n, k1, table
  <2>6. Mapped(pgt_r0[p], some, Received(mem, m)) \in [Page -> Entry]
    BY <1>a, <2>2, <2>4, ReceivedMapped
  <2>7. pgt_r0' \in [Pid -> [Page -> Entry]]
    BY <2>1, <2>6, AtWork DEF T, some
  <2>8. brk' \in [Pid -> Page] /\ uStack_bottom' \in [Pid -> Page]
    BY <2>1, <2>5, AtWork
  <2> QED BY <2>1, <2>3, <2>7, <2>8, CutShortKeeps
<1> HIDE DEF b, u
<1>3. S \subseteq Page /\ S \cap Layout(b, u) = {} /\ Layout(b, u) \cup S = Layout(new, u)
  <2>1. S \subseteq Page
    BY <1>1, Numbers DEF Page
  <2>2. \A i \in S : i \in Int /\ i >= b /\ i < u /\ i < StackLimit
    BY <1>1, Numbers
  <2>3. S \cap Layout(b, u) = {}
    BY <1>1, <2>2, Numbers DEF Layout
  <2>4. (MEM_INVALID_PAGES..(b - 1)) \cup S = MEM_INVALID_PAGES..(new - 1)
    BY <1>1, Numbers
  <2> QED BY <2>1, <2>3, <2>4 DEF Layout
<1>4. Lists(pages, S) /\ n = Len(pages)
  <2>1. Cardinality(S) = IF b > new - 1 THEN 0 ELSE (new - 1) - b + 1
    <3>1. b \in Int /\ new - 1 \in Int
      BY <1>1, Numbers
    <3> QED BY <3>1, FS_Interval
  <2>2. Lists(pages, S) /\ Len(pages) = Cardinality(S)
    BY <1>3, PagesListed
  <2>3. Cardinality(S) = new - b
    BY <1>1, <2>1, Numbers
  <2> QED BY <2>2, <2>3
<1> HIDE DEF S, pages, n
<1>5. CASE Stops(k1)
  BY <1>5, AtWork, StopsKeeps
<1>6. CASE /\ Runs(k1)
           /\ mem' = k1
           /\ pgt_r0' = [pgt_r0 EXCEPT ![p] = table]
           /\ brk' = [brk EXCEPT ![p] = new]
           /\ phase' = phase /\ live' = live /\ pid_counter' = pid_counter
           /\ uStack_bottom' = uStack_bottom
  <2>1. Sound(mem', pgt_r0') /\ Valid(table) = Layout(b, u) \cup S /\ Kept(mem, mem')
    <3> HIDE DEF k1, table
    <3>1. /\ k1 = AllocateFreePage(mem, n, "brk")
          /\ table = Mapped(pgt_r0[p], pages, Taken(mem, n))
      BY DEF k1, table
    <3>2. /\ p \in Pid /\ Sound(mem, pgt_r0)
          /\ S \subseteq Page /\ S \cap Valid(pgt_r0[p]) = {}
      BY <1>1, <1>3, AtWork
    <3>3. pgt_r0' = Put(pgt_r0, p, table) /\ Runs(k1) /\ Lists(pages, S) /\ n = Len(pages)
      BY <1>4, <1>6 DEF Put
    <3>4. Sound(k1, pgt_r0') /\ Valid(table) = Valid(pgt_r0[p]) \cup S /\ SameButFree(k1, mem)
      BY <3>1, <3>2, <3>3, GiveFacts
    <3> QED BY <1>1, <1>6, <3>4, KeptSame DEF SameButFree
  <2>2. SpaceOK(table, new, u)
    BY <1>1, <1>3, <2>1, Numbers DEF SpaceOK
  <2>3. /\ brk' \in [Pid -> Page] /\ uStack_bottom' \in [Pid -> Page]
        /\ brk'[p] = new /\ uStack_bottom'[p] = u
        /\ \A q \in Pid : q # p => brk'[q] = brk[q] /\ uStack_bottom'[q] = uStack_bottom[q]
    BY <1>6, AtWork DEF u
  <2> HIDE DEF table, k1
  <2> QED BY <1>6, <2>1, <2>2, <2>3, SpaceChange
<1> QED BY <1>2, <1>5, <1>6, <1>7

LEMMA BrkDownKeeps ==
  ASSUME MemInv, NEW p \in live, NEW new \in Page, ~BrkRefused(p, new), Runs(mem),
         BrkDown(p, new)
  PROVE  MemInv' /\ OnlyOwn(p)
<1> DEFINE b == brk[p]
           u == uStack_bottom[p]
           S == new..(b - 1)
           pages == Reverse(Ascending(S))
           frames == [n \in DOMAIN pages |-> pgt_r0[p][pages[n]]]
           table == [i \in Page |-> IF i \in Range(pages) THEN NoFrame ELSE pgt_r0[p][i]]
<1>1. /\ b \in Page /\ u \in Page /\ MEM_INVALID_PAGES < new /\ new < b /\ b < u
      /\ u <= StackLimit /\ Valid(pgt_r0[p]) = Layout(b, u)
  BY BrkRange, AtWork DEF BrkDown, SpaceOK
<1>2. PICK grow \in GrowAt(mem, Len(pages)) :
        LET k1 == FreePhysicalPage(mem, frames, grow) IN
        \/ Stops(k1)
        \/ /\ Runs(k1)
           /\ mem' = k1
           /\ pgt_r0' = [pgt_r0 EXCEPT ![p] = table]
           /\ brk' = [brk EXCEPT ![p] = new]
           /\ phase' = phase /\ live' = live /\ pid_counter' = pid_counter
           /\ uStack_bottom' = uStack_bottom
  BY DEF BrkDown
<1> DEFINE k1 == FreePhysicalPage(mem, frames, grow)
<1> HIDE DEF b, u
<1>3. /\ S \subseteq Page /\ S \subseteq Layout(b, u) /\ Layout(b, u) \ S = Layout(new, u)
  <2>1. S \subseteq Page /\ S \subseteq MEM_INVALID_PAGES..(b - 1)
    BY <1>1, Numbers DEF Page
  <2>2. (MEM_INVALID_PAGES..(b - 1)) \ S = MEM_INVALID_PAGES..(new - 1)
    BY <1>1, Numbers
  <2>3. \A i \in S : i < u /\ i < StackLimit /\ i \in Int
    BY <1>1, Numbers
  <2>4. S \cap (u..(StackLimit - 1)) = {} /\ S \cap KStack = {}
    BY <1>1, <2>3, Numbers
  <2> HIDE DEF S
  <2> QED BY <2>1, <2>2, <2>4 DEF Layout
<1>4. Lists(pages, S) /\ frames = FramesOf(pgt_r0[p], pages) /\ DOMAIN pages = 1..Len(pages)
      /\ Len(pages) \in Nat
  <2>1. Lists(pages, S)
    BY <1>3, PagesListed, ReverseLists
  <2>2. DOMAIN pages = 1..Len(pages) /\ Len(pages) \in Nat
    <3> HIDE DEF pages, S
    <3> QED BY <2>1, LenProperties DEF Lists
  <2> QED BY <2>1, <2>2 DEF FramesOf
<1> HIDE DEF S, pages, frames
<1>5. table = Without(pgt_r0[p], S)
  BY <1>4, AtWork DEF Without, Lists
<1> HIDE DEF table
<1>6. CASE Stops(k1)
  BY <1>6, AtWork, StopsKeeps
<1>7. CASE /\ Runs(k1)
           /\ mem' = k1
           /\ pgt_r0' = [pgt_r0 EXCEPT ![p] = table]
           /\ brk' = [brk EXCEPT ![p] = new]
           /\ phase' = phase /\ live' = live /\ pid_counter' = pid_counter
           /\ uStack_bottom' = uStack_bottom
  <2>1. grow \in 0..Len(pages)
    BY <1>4 DEF GrowAt
  <2>2. Sound(mem', pgt_r0') /\ Valid(table) = Layout(b, u) \ S /\ Kept(mem, mem')
    <3> HIDE DEF k1
    <3>1. k1 = FreePhysicalPage(mem, frames, grow)
      BY DEF k1
    <3>2. /\ p \in Pid /\ Sound(mem, pgt_r0) /\ (p = Idle => S \cap KStack = {})
          /\ S \subseteq Valid(pgt_r0[p]) /\ frames = FramesOf(pgt_r0[p], pages)
      BY <1>1, <1>3, <1>4, AtWork
    <3>3. /\ pgt_r0' = Put(pgt_r0, p, Without(pgt_r0[p], S))
          /\ Lists(pages, S) /\ Runs(mem) /\ Runs(k1)
      BY <1>4, <1>5, <1>7 DEF Put
    <3>4. /\ Sound(k1, pgt_r0') /\ Kept(mem, k1)
          /\ Valid(Without(pgt_r0[p], S)) = Valid(pgt_r0[p]) \ S
      BY <2>1, <3>1, <3>2, <3>3, TakeFacts
    <3> QED BY <1>1, <1>5, <1>7, <3>4
  <2>3. SpaceOK(table, new, u)
    BY <1>1, <1>3, <2>2, Numbers DEF SpaceOK
  <2>4. /\ brk' \in [Pid -> Page] /\ uStack_bottom' \in [Pid -> Page]
        /\ brk'[p] = new /\ uStack_bottom'[p] = u
        /\ \A q \in Pid : q # p => brk'[q] = brk[q] /\ uStack_bottom'[q] = uStack_bottom[q]
    BY <1>7, AtWork DEF u
  <2> HIDE DEF k1
  <2> QED BY <1>7, <2>2, <2>3, <2>4, SpaceChange
<1> QED BY <1>2, <1>6, <1>7

LEMMA BrkKeeps ==
  ASSUME MemInv, NEW p \in Pid, NEW new \in Page, HandleBrk(p, new)
  PROVE  (MemInv' /\ OnlyOwn(p)) \/ CutOff
<1>1. p \in live /\ Runs(mem)
  BY DEF HandleBrk
<1>2. CASE BrkRefused(p, new) /\ Refused(mem) /\ UNCHANGED pid_counter
  BY <1>1, <1>2, AtWork, RefusedKeeps, KeptSame
<1>3. CASE ~BrkRefused(p, new) /\ BrkUp(p, new)
  BY <1>1, <1>3, BrkUpKeeps
<1>4. CASE ~BrkRefused(p, new) /\ BrkDown(p, new)
  BY <1>1, <1>4, BrkDownKeeps
<1>5. CASE UNCHANGED <<mem, phase, live, pid_counter, spaces, slot>>
  BY <1>1, <1>5, AtWork, KernelStep, KeptSame
<1> QED BY <1>2, <1>3, <1>4, <1>5 DEF HandleBrk

LEMMA StackKeeps ==
  ASSUME MemInv, NEW p \in live, NEW x \in Page, InStackReach(p, x), StackGrows(p, x)
  PROVE  (MemInv' /\ OnlyOwn(p)) \/ CutOff
<1> DEFINE b == brk[p]
           u == uStack_bottom[p]
           n == u - x
           S == x..(u - 1)
           pages == Reverse(Ascending(S))
           k1 == AllocateFreePage(mem, n, "stack")
           table == Mapped(pgt_r0[p], pages, Taken(mem, n))
           GrownLate(m) ==
             /\ CutShort(k1)
             /\ pgt_r0' = [pgt_r0 EXCEPT ![p] =
                   Mapped(pgt_r0[p], Reverse(Ascending((u - m)..(u - 1))), Received(mem, m))]
             /\ brk' = brk
             /\ uStack_bottom' = uStack_bottom
<1>1. /\ b \in Page /\ u \in Page /\ b < x /\ x < u /\ u <= StackLimit
      /\ MEM_INVALID_PAGES <= b /\ Valid(pgt_r0[p]) = Layout(b, u)
  <2>1. /\ b \in Page /\ u \in Page /\ u <= StackLimit /\ MEM_INVALID_PAGES <= b
        /\ Valid(pgt_r0[p]) = Layout(b, u) /\ x > b + 1 /\ x < u
    BY AtWork DEF SpaceOK, InStackReach
  <2> HIDE DEF b, u
  <2> QED BY <2>1, Numbers
<1>2. \/ Stops(k1)
      \/ /\ Runs(k1)
         /\ mem' = k1
         /\ pgt_r0' = [pgt_r0 EXCEPT ![p] = table]
         /\ uStack_bottom' = [uStack_bottom EXCEPT ![p] = x]
         /\ phase' = phase /\ live' = live /\ pid_counter' = pid_counter
         /\ brk' = brk
      \/ \E m \in ListEnds(mem, n) : GrownLate(m)
  BY DEF StackGrows
<1>a. n \in Nat /\ KernelRecord(mem) /\ pgt_r0[p] \in [Page -> Entry]
  <2>1. KernelRecord(mem) /\ pgt_r0[p] \in [Page -> Entry]
    <3> HIDE DEF b, u, n, S, pages, k1, table, GrownLate
    <3> QED BY AtWork DEF KernelSound
  <2>2. n \in Nat
    <3>1. u \in Nat /\ x \in Nat /\ x < u
      BY <1>1, Numbers
    <3> HIDE DEF u
    <3> QED BY <3>1
  <2> QED BY <2>1, <2>2
<1>7. CASE \E m \in ListEnds(mem, n) : GrownLate(m)
  <2>1. PICK m \in ListEnds(mem, n) : GrownLate(m)
    BY <1>7
  <2>2. Runs(mem) /\ m \in Nat /\ m < n
    <3>1. ListEnds(mem, n) # {} /\ Len(mem.free) \in Nat
      BY <1>a, LenProperties DEF KernelRecord
    <3>2. Runs(mem) /\ m \in (Len(mem.free) + 1)..(n - 1)
      BY <3>1 DEF ListEnds
    <3> QED BY <1>a, <3>1, <3>2
  <2>3. k1.machine = "corrupt"
    BY <1>a, <2>1, <2>2, AllocateFails DEF CutShort
  <2> DEFINE T == (u - m)..(u - 1)
             some == Reverse(Ascending(T))
  <2>4. DOMAIN some = 1..m
    <3>1. T \subseteq Page /\ u - m \in Int /\ u - 1 \in Int
      BY <1>1, <2>2, Numbers DEF Page
    <3>2. Cardinality(T) = m
      <4>1. Cardinality(T) = IF u - m > u - 1 THEN 0 ELSE (u - 1) - (u - m) + 1
        BY <3>1, FS_Interval
      <4> QED BY <1>1, <2>2, <4>1, Numbers
    <3>3. some \in Seq(T) /\ Len(some) = m
      BY <3>1, <3>2, PagesListed, ReverseLists DEF Lists
    <3> QED BY <3>3, LenProperties
  <2> HIDE DEF T, some, n, k1, table
  <2>6. Mapped(pgt_r0[p], some, Received(mem, m)) \in [Page -> Entry]
    BY <1>a, <2>2, <2>4, ReceivedMapped
  <2>7. pgt_r0' \in [Pid -> [Page -> Entry]]
    BY <2>1, <2>6, AtWork DEF T, some
  <2>8. brk' \in [Pid -> Page] /\ uStack_bottom' \in [Pid -> Page]
    BY <2>1, AtWork
  <2> QED BY <2>1, <2>3, <2>7, <2>8, CutShortKeeps
<1> HIDE DEF b, u
<1>3. S \subseteq Page /\ S \cap Layout(b, u) = {} /\ Layout(b, u) \cup S = Layout(b, x)
  <2>1. S \subseteq Page
    BY <1>1, Numbers DEF Page
  <2>2. \A i \in S : i \in Int /\ i >= b /\ i < u /\ i < StackLimit
    BY <1>1, Numbers
  <2>3. S \cap Layout(b, u) = {}
    BY <1>1, <2>2, Numbers DEF Layout
  <2>4. S \cup (u..(StackLimit - 1)) = x..(StackLimit - 1)
    BY <1>1, Numbers
  <2> QED BY <2>1, <2>3, <2>4 DEF Layout
<1>4. Lists(pages, S) /\ n = Len(pages)
  <2>1. Cardinality(S) = IF x > u - 1 THEN 0 ELSE (u - 1) - x + 1
    <3>1. x \in Int /\ u - 1 \in Int
      BY <1>1, Numbers
    <3> QED BY <3>1, FS_Interval
  <2>2. Lists(pages, S) /\ Len(pages) = Cardinality(S)
    BY <1>3, PagesListed, ReverseLists
  <2>3. Cardinality(S) = u - x
    BY <1>1, <2>1, Numbers
  <2> QED BY <2>2, <2>3
<1> HIDE DEF S, pages, n
<1>5. CASE Stops(k1)
  BY <1>5, AtWork, StopsKeeps
<1>6. CASE /\ Runs(k1)
           /\ mem' = k1
           /\ pgt_r0' = [pgt_r0 EXCEPT ![p] = table]
           /\ uStack_bottom' = [uStack_bottom EXCEPT ![p] = x]
           /\ phase' = phase /\ live' = live /\ pid_counter' = pid_counter
           /\ brk' = brk
  <2>1. Sound(mem', pgt_r0') /\ Valid(table) = Layout(b, u) \cup S /\ Kept(mem, mem')
    <3> HIDE DEF k1, table
    <3>1. /\ k1 = AllocateFreePage(mem, n, "stack")
          /\ table = Mapped(pgt_r0[p], pages, Taken(mem, n))
      BY DEF k1, table
    <3>2. /\ p \in Pid /\ Sound(mem, pgt_r0)
          /\ S \subseteq Page /\ S \cap Valid(pgt_r0[p]) = {}
      BY <1>1, <1>3, AtWork
    <3>3. pgt_r0' = Put(pgt_r0, p, table) /\ Runs(k1) /\ Lists(pages, S) /\ n = Len(pages)
      BY <1>4, <1>6 DEF Put
    <3>4. Sound(k1, pgt_r0') /\ Valid(table) = Valid(pgt_r0[p]) \cup S /\ SameButFree(k1, mem)
      BY <3>1, <3>2, <3>3, GiveFacts
    <3> QED BY <1>1, <1>6, <3>4, KeptSame DEF SameButFree
  <2>2. SpaceOK(table, b, x)
    BY <1>1, <1>3, <2>1, Numbers DEF SpaceOK
  <2>3. /\ brk' \in [Pid -> Page] /\ uStack_bottom' \in [Pid -> Page]
        /\ brk'[p] = b /\ uStack_bottom'[p] = x
        /\ \A q \in Pid : q # p => brk'[q] = brk[q] /\ uStack_bottom'[q] = uStack_bottom[q]
    BY <1>6, AtWork DEF b
  <2> HIDE DEF table, k1
  <2> QED BY <1>6, <2>1, <2>2, <2>3, SpaceChange
<1> QED BY <1>2, <1>5, <1>6, <1>7

LEMMA TrapKeeps ==
  ASSUME MemInv, NEW p \in Pid, NEW x \in Page, TrapMemoryHandler(p, x)
  PROVE  (MemInv' /\ OnlyOwn(p)) \/ CutOff
<1>1. p \in live
  BY DEF TrapMemoryHandler
<1>2. CASE InStackReach(p, x) /\ StackGrows(p, x)
  BY <1>1, <1>2, StackKeeps
<1>3. CASE HandleExit(p)
  BY <1>3, ExitKeeps
<1> QED BY <1>2, <1>3 DEF TrapMemoryHandler
----------------------------------------------------------------------------
(***************************************************************************)
(* Fork.                                                                   *)
(***************************************************************************)
LEMMA NothingMapped ==
  ASSUME MemInv, NEW p \in Pid, p \notin live, p # Idle
  PROVE  pgt_r0[p] = NoTable
<1>1. pgt_r0[p] \in [Page -> Entry] /\ Valid(pgt_r0[p]) = {}
  BY DEF MemInv, Sound, SpacesInv
<1>2. \A i \in Page : pgt_r0[p][i] = NoFrame
  BY <1>1 DEF Valid
<1> QED BY <1>1, <1>2 DEF NoTable

\* A child has come into being, with pages where p has some.
HasChild(p, child) ==
  /\ OnlyOwn(child) /\ p # child /\ child \in Pid \ {Idle}
  /\ pgt_r0[child] = NoTable /\ Valid(pgt_r0'[child]) = Valid(pgt_r0[p])

LEMMA CopiesKeep ==
  ASSUME MemInv, NEW p \in live, pid_counter <= MaxPid, NEW k,
         KernelSound(k), KFrames(k) = KFrames(mem), Kept(mem, k), ForkCopies(p, pid_counter, k)
  PROVE  MemInv' /\ (OnlyOwn(p) \/ HasChild(p, pid_counter))
<1> DEFINE child == pid_counter
           U == UserPages(p)
           K == StackPages(p)
           user == Ascending(U)
           stack == Ascending(K)
           k1 == AllocateFreePage(k, Cardinality(U), "copy")
           half == Mapped(pgt_r0[child], user, Taken(k, Len(user)))
           t1 == Put(pgt_r0, child, half)
<1>1. child \in Pid /\ child # Idle /\ child \notin live /\ child \in Nat
  <2>1. pid_counter \in Nat /\ p \in Pid /\ p # Idle /\ p < pid_counter
    BY AtWork
  <2>2. child \in Pid /\ child # Idle
    BY <2>1, Numbers DEF Pid, Idle
  <2>3. child \notin live
    <3> SUFFICES ASSUME child \in live PROVE FALSE
      OBVIOUS
    <3>1. child < pid_counter
      BY DEF MemInv, SpacesInv
    <3> QED BY <2>1, <3>1
  <2> QED BY <2>1, <2>2, <2>3
<1>2. pgt_r0[child] = NoTable /\ Valid(NoTable) = {}
  BY <1>1, NothingMapped DEF NoTable, Valid
<1>3. /\ Lists(user, U) /\ Len(user) = Cardinality(U) /\ U \subseteq Page
      /\ Lists(stack, K) /\ Len(stack) = Cardinality(K) /\ K \subseteq Page
      /\ U \cap K = {} /\ U \cup K = Valid(pgt_r0[p])
  <2>1. Valid(pgt_r0[p]) \subseteq Page
    BY AtWork DEF Valid
  <2>2. /\ U \subseteq Page /\ K \subseteq Page
        /\ U \cap K = {} /\ U \cup K = Valid(pgt_r0[p])
    BY <2>1 DEF UserPages, StackPages
  <2> QED BY <2>2, PagesListed
<1>4. Sound(k, pgt_r0)
  BY AtWork, KernelMoves
<1>5. PICK k2 \in Enqueue(k1) :
        LET k3 == AllocateFreePage(k2, Cardinality(K), "copy") IN
        \/ Stops(k3)
        \/ /\ Runs(k3)
           /\ mem' = k3
           /\ pid_counter' = child + 1
           /\ live' = live \cup {child}
           /\ pgt_r0' = [pgt_r0 EXCEPT ![child] = ChildTable(p, k, k2)]
           /\ brk' = [brk EXCEPT ![child] = brk[p]]
           /\ uStack_bottom' = [uStack_bottom EXCEPT ![child] = uStack_bottom[p]]
           /\ phase' = phase
  BY DEF ForkCopies
<1> DEFINE k3 == AllocateFreePage(k2, Cardinality(K), "copy")
           table == Mapped(half, stack, Taken(k2, Len(stack)))
<1>6. CASE Stops(k3)
  BY <1>6, AtWork, StopsKeeps
<1>7. CASE /\ Runs(k3)
           /\ mem' = k3
           /\ pid_counter' = child + 1
           /\ live' = live \cup {child}
           /\ pgt_r0' = [pgt_r0 EXCEPT ![child] = ChildTable(p, k, k2)]
           /\ brk' = [brk EXCEPT ![child] = brk[p]]
           /\ uStack_bottom' = [uStack_bottom EXCEPT ![child] = uStack_bottom[p]]
           /\ phase' = phase
  <2>1. pgt_r0' = [pgt_r0 EXCEPT ![child] = table]
    BY <1>2, <1>7 DEF ChildTable
  <2>2. Runs(k2) /\ Runs(k1)
    <3>1. Runs(k2)
      BY <1>7 DEF AllocateFreePage
    <3>2. k2 = k1 \/ k2 = SetKernelBrk(k1)
      BY DEF Enqueue
    <3> QED BY <3>1, <3>2, GrowRuns
  <2>3. k1 = AllocateFreePage(k, Len(user), "copy") /\ k3 = AllocateFreePage(k2, Len(stack), "copy")
    BY <1>3
  <2>4. U \cap Valid(pgt_r0[child]) = {}
    BY <1>2
  <2> HIDE DEF child, U, K, user, stack, k1, half, t1, k3, table
  <2>5. /\ Sound(k1, t1) /\ t1[child] = half
        /\ Valid(half) = Valid(pgt_r0[child]) \cup U /\ SameButFree(k1, k)
    <3>1. half = Mapped(pgt_r0[child], user, Taken(k, Len(user))) /\ t1 = Put(pgt_r0, child, half)
      BY DEF half, t1
    <3> DEFINE n == Len(user)
    <3>2. /\ n = Len(user) /\ k1 = AllocateFreePage(k, n, "copy")
          /\ half = Mapped(pgt_r0[child], user, Taken(k, n))
      BY <2>3, <3>1
    <3> HIDE DEF n
    <3> QED BY ONLY <1>1, <1>3, <1>4, <2>2, <2>4, <3>1, <3>2, GiveFacts
  <2>6. Sound(k2, t1) /\ Kept(k1, k2)
    <3>1. KernelSound(k2) /\ KFrames(k2) = KFrames(k1) /\ Kept(k1, k2)
      BY <1>5, <2>2, <2>5, EnqueueFacts DEF Sound, k1
    <3> QED BY <2>5, <3>1, KernelMoves
  <2>7. /\ Sound(k3, pgt_r0') /\ pgt_r0'[child] = table
        /\ Valid(table) = Valid(half) \cup K /\ SameButFree(k3, k2)
    <3>1. pgt_r0' = Put(t1, child, table)
      BY <1>1, <2>1, AtWork DEF Put, t1
    <3>2. K \cap Valid(t1[child]) = {}
      BY <1>2, <1>3, <2>5
    <3> DEFINE n == Len(stack)
    <3>3. /\ n = Len(stack) /\ k3 = AllocateFreePage(k2, n, "copy")
          /\ table = Mapped(t1[child], stack, Taken(k2, n)) /\ Runs(k3)
      BY <1>7, <2>3, <2>5 DEF table, k3
    <3> HIDE DEF n
    <3> QED BY ONLY <1>1, <1>3, <2>5, <2>6, <3>1, <3>2, <3>3, GiveFacts
  <2>8. Valid(pgt_r0'[child]) = Valid(pgt_r0[p])
    BY <1>2, <1>3, <2>5, <2>7
  <2>9. Kept(mem, mem') /\ Sound(mem', pgt_r0')
    <3>1. Kept(k, k1) /\ Kept(k2, k3)
      BY <2>5, <2>7, KeptSame DEF SameButFree
    <3>2. mem' = k3
      BY <1>7 DEF k3
    <3> QED BY <2>6, <2>7, <3>1, <3>2, KeptOn
  <2>10. /\ brk' \in [Pid -> Page] /\ uStack_bottom' \in [Pid -> Page]
         /\ brk'[child] = brk[p] /\ uStack_bottom'[child] = uStack_bottom[p]
         /\ Others(child)
    BY <1>1, <1>7, <2>1, AtWork DEF Others, child
  <2>11. SpaceOK(pgt_r0'[child], brk'[child], uStack_bottom'[child])
    BY <2>8, <2>10, AtWork DEF SpaceOK
  <2>12. /\ phase' = "up" /\ pid_counter' \in Nat /\ pid_counter' >= pid_counter
         /\ child < pid_counter' /\ live' = live \cup {child}
    BY <1>1, <1>7, AtWork DEF child
  <2>13. p # child /\ pgt_r0[child] = NoTable
    BY <1>1, <1>2
  <2>14. MemInv' /\ OnlyOwn(child)
    BY <1>1, <2>9, <2>10, <2>11, <2>12, ProcessStep
  <2> QED BY <1>1, <2>8, <2>13, <2>14 DEF HasChild, child
<1> QED BY <1>5, <1>6, <1>7

LEMMA ForkKeeps ==
  ASSUME MemInv, NEW p \in Pid, HandleFork(p)
  PROVE  MemInv' /\ (OnlyOwn(p) \/ HasChild(p, pid_counter))
<1>1. p \in live /\ pid_counter <= MaxPid
  BY DEF HandleFork
<1>2. PICK made \in CreatePCB(mem) :
        \/ Stops(made.k)
        \/ ForkRefused(made.k)
        \/ \E k \in Enqueue(made.k) :
             \/ Stops(k)
             \/ ForkRefused(k)
             \/ Runs(k) /\ ForkCopies(p, pid_counter, k)
  BY DEF HandleFork
<1>3. ASSUME Runs(made.k)
      PROVE  KernelSound(made.k) /\ KFrames(made.k) = KFrames(mem) /\ Kept(mem, made.k)
  BY <1>1, <1>3, AtWork, CreatedFacts
<1>4. ASSUME NEW k, KernelSound(k), KFrames(k) = KFrames(mem), Kept(mem, k), ForkRefused(k)
      PROVE  MemInv' /\ OnlyOwn(p)
  <2>1. phase = "up" /\ pid_counter' \in Nat /\ pid_counter' >= pid_counter /\ Refused(k)
    BY <1>1, <1>4, AtWork DEF ForkRefused
  <2> QED BY <1>4, <2>1, RefusedKeeps
<1>5. CASE Stops(made.k)
  BY <1>5, StopsKeeps
<1>6. CASE ForkRefused(made.k)
  <2>1. Runs(made.k)
    BY <1>6 DEF ForkRefused, Refused
  <2> QED BY <1>3, <1>4, <1>6, <2>1
<1>7. ASSUME NEW k \in Enqueue(made.k), Runs(k)
      PROVE  KernelSound(k) /\ KFrames(k) = KFrames(mem) /\ Kept(mem, k)
  <2>1. k = made.k \/ k = SetKernelBrk(made.k)
    BY DEF Enqueue
  <2>2. Runs(made.k)
    BY <1>7, <2>1, GrowRuns
  <2>3. KernelSound(k) /\ KFrames(k) = KFrames(made.k) /\ Kept(made.k, k)
    BY <1>3, <1>7, <2>2, EnqueueFacts
  <2> QED BY <1>3, <2>2, <2>3, KeptOn
<1>8. ASSUME NEW k \in Enqueue(made.k),
             Stops(k) \/ ForkRefused(k) \/ (Runs(k) /\ ForkCopies(p, pid_counter, k))
      PROVE  MemInv' /\ (OnlyOwn(p) \/ HasChild(p, pid_counter))
  <2>1. CASE Stops(k)
    BY <2>1, StopsKeeps
  <2>2. CASE ForkRefused(k)
    <3>1. Runs(k)
      BY <2>2 DEF ForkRefused, Refused
    <3> QED BY <1>4, <1>7, <2>2, <3>1
  <2>3. CASE Runs(k) /\ ForkCopies(p, pid_counter, k)
    BY <1>1, <1>7, <2>3, CopiesKeep
  <2> QED BY <1>8, <2>1, <2>2, <2>3
<1> QED BY <1>2, <1>5, <1>6, <1>8
----------------------------------------------------------------------------
(***************************************************************************)
(* Exec, and the programs loaded at boot.                                  *)
(***************************************************************************)
LEMMA DeleteFacts ==
  ASSUME NEW k, Sound(k, pgt_r0), Runs(k), NEW p \in Pid,
         NEW b, NEW s, SpaceOK(pgt_r0[p], b, s),
         NEW grow \in 0..Cardinality(UserPages(p)),
         NEW freed, freed = Deleted(k, p, grow), Runs(freed),
         NEW t, t = Put(pgt_r0, p, Bare(p))
  PROVE  /\ Sound(freed, t) /\ Kept(k, freed)
         /\ t[p] = Bare(p) /\ Valid(Bare(p)) = KStack
         /\ grow = 0 => Len(freed.free) >= Len(k.free) /\ SameButFree(freed, k)
<1> DEFINE S == UserPages(p)
           pages == Ascending(S)
           frames == FramesAt(pgt_r0[p], S)
<1>1. pgt_r0[p] \in [Page -> Entry]
  BY DEF Sound
<1>2. /\ S \subseteq Page /\ S \subseteq Valid(pgt_r0[p]) /\ S \cap KStack = {}
      /\ KStack \subseteq Valid(pgt_r0[p]) /\ Valid(pgt_r0[p]) \ S = KStack
  BY <1>1 DEF UserPages, Valid, SpaceOK, Layout
<1>3. Lists(pages, S) /\ Len(pages) = Cardinality(S) /\ frames = FramesOf(pgt_r0[p], pages)
      /\ Cardinality(S) \in Nat
  BY <1>2, PagesListed DEF FramesAt, FramesOf
<1>4. freed = FreePhysicalPage(k, frames, grow) /\ grow \in 0..Len(pages)
  BY <1>3 DEF Deleted
<1>5. Bare(p) = Without(pgt_r0[p], S)
  BY <1>1 DEF Bare, Without, UserPages, Valid
<1> HIDE DEF S, pages, frames
<1>6. /\ Sound(freed, t) /\ Kept(k, freed) /\ t[p] = Without(pgt_r0[p], S)
      /\ Valid(Without(pgt_r0[p], S)) = Valid(pgt_r0[p]) \ S
      /\ grow = 0 => Len(freed.free) = Len(k.free) + Len(pages) /\ SameButFree(freed, k)
  <2>1. t = Put(pgt_r0, p, Without(pgt_r0[p], S))
    BY <1>5
  <2>2. S \subseteq Valid(pgt_r0[p]) /\ (p = Idle => S \cap KStack = {})
    BY <1>2
  <2>3. Lists(pages, S)
    BY <1>3
  <2>4. frames = FramesOf(pgt_r0[p], pages)
    BY <1>3
  <2>5. grow \in 0..Len(pages)
    BY <1>4
  <2>6. freed = FreePhysicalPage(k, frames, grow)
    BY <1>4
  <2>7. Sound(k, pgt_r0) /\ Runs(k) /\ Runs(freed)
    OBVIOUS
  <2> QED BY ONLY <2>1, <2>2, <2>3, <2>4, <2>5, <2>6, <2>7, p \in Pid, TakeFacts
<1>7. Len(k.free) \in Nat /\ Len(pages) \in Nat
  BY <1>3, LenProperties DEF Sound, KernelSound, KernelRecord
<1>8. grow = 0 => Len(freed.free) >= Len(k.free) /\ SameButFree(freed, k)
  BY <1>6, <1>7
<1> QED BY <1>2, <1>5, <1>6, <1>8

LEMMA LoadFacts ==
  ASSUME NEW k, NEW t, Sound(k, t), NEW p \in Pid, NEW bare, t[p] = bare, Valid(bare) = KStack,
         NEW prog \in Sizes, FitsVirtual(prog),
         NEW new, new = Loaded(k, prog), Runs(new),
         NEW table, table = Mapped(bare, Ascending(ProgramPages(prog)), Taken(k, FrameNeed(prog))),
         NEW t1, t1 = Put(t, p, table)
  PROVE  /\ Sound(new, t1) /\ t1[p] = table
         /\ SpaceOK(table, HeapEnd(prog), StackLimit - prog.stack)
         /\ Len(new.free) = Len(k.free) - FrameNeed(prog) /\ SameButFree(new, k)
<1> DEFINE S == ProgramPages(prog)
           pages == Ascending(S)
           n == FrameNeed(prog)
<1>1. S \subseteq Page /\ S \cap Valid(t[p]) = {} /\ Cardinality(S) = n
  BY ProgramFacts
<1>2. Lists(pages, S) /\ Len(pages) = n
  BY <1>1, PagesListed
<1>3. /\ new = AllocateFreePage(k, n, "load")
      /\ table = Mapped(t[p], pages, Taken(k, n))
  BY DEF Loaded
<1> HIDE DEF S, pages, n
<1>4. /\ Sound(new, t1) /\ t1[p] = table /\ Valid(table) = Valid(t[p]) \cup S
      /\ Len(new.free) = Len(k.free) - n /\ SameButFree(new, k)
  BY <1>1, <1>2, <1>3, GiveFacts
<1>5. SpaceOK(table, HeapEnd(prog), StackLimit - prog.stack)
  BY <1>4, ProgramFacts DEF SpaceOK, S
<1> QED BY <1>4, <1>5 DEF n

\* LoadProgram returns when it gets no frame.
LEMMA LateLoad ==
  ASSUME MemInv, NEW p \in live, NEW prog \in Sizes, FitsVirtual(prog),
         NEW k, KernelRecord(k), LoadCutShort(p, prog, k)
  PROVE  CutOff
<1> DEFINE n == FrameNeed(prog)
           S == ProgramPages(prog)
           all == Ascending(S)
           new == Loaded(k, prog)
<1>1. PICK m \in ListEnds(k, n) :
        /\ CutShort(new)
        /\ pgt_r0' = [pgt_r0 EXCEPT ![p] =
                        Mapped(Bare(p), SubSeq(all, 1, m + 1), Received(k, m + 1))]
        /\ brk' = [brk EXCEPT ![p] = IF m >= prog.text + prog.data THEN HeapEnd(prog) ELSE @]
        /\ UNCHANGED uStack_bottom
  BY DEF LoadCutShort
<1>2. n \in Nat /\ Lists(all, S) /\ Len(all) = n
  BY ProgramFacts, PagesListed
<1>3. Runs(k) /\ m \in Nat /\ m + 1 \in 0..n
  <2>1. ListEnds(k, n) # {} /\ Len(k.free) \in Nat
    BY LenProperties DEF KernelRecord
  <2>2. Runs(k) /\ m \in (Len(k.free) + 1)..(n - 1)
    BY <2>1 DEF ListEnds
  <2> QED BY <1>2, <2>1, <2>2
<1>4. new.machine = "corrupt"
  BY <1>1, <1>2, <1>3, AllocateFails DEF Loaded, CutShort
<1> DEFINE some == SubSeq(all, 1, m + 1)
<1>5. DOMAIN some = 1..(m + 1)
  <2> HIDE DEF all, S, n
  <2>1. all \in Seq(S) /\ IsInjective(all) /\ m + 1 \in 0..Len(all)
    BY <1>2, <1>3 DEF Lists
  <2> DEFINE l == m + 1
  <2>2. l \in 0..Len(all)
    BY <2>1
  <2> HIDE DEF l
  <2>3. SubSeq(all, 1, l) \in Seq(S) /\ Len(SubSeq(all, 1, l)) = l
    BY <2>1, <2>2, Split
  <2> QED BY <2>3, LenProperties DEF l
<1>6. Bare(p) \in [Page -> Entry]
  BY AtWork DEF Bare, Entry
<1> HIDE DEF some, new, n
<1>7. Mapped(Bare(p), some, Received(k, m + 1)) \in [Page -> Entry]
  <2> DEFINE l == m + 1
  <2>1. l \in Nat /\ DOMAIN some = 1..l
    BY <1>3, <1>5
  <2> HIDE DEF l
  <2>2. Mapped(Bare(p), some, Received(k, l)) \in [Page -> Entry]
    BY <1>6, <2>1, ReceivedMapped
  <2> QED BY <2>2 DEF l
<1>8. pgt_r0' \in [Pid -> [Page -> Entry]]
  BY <1>1, <1>7, AtWork DEF some
<1>9. brk' \in [Pid -> Page] /\ uStack_bottom' \in [Pid -> Page]
  <2>1. HeapEnd(prog) \in Page
    BY ProgramFacts
  <2> QED BY <1>1, <2>1, AtWork
<1> QED BY <1>1, <1>4, <1>8, <1>9, CutShortKeeps

LEMMA ExecKeeps ==
  ASSUME MemInv, NEW p \in Pid, NEW prog \in Programs, HandleExec(p, prog)
  PROVE  (MemInv' /\ OnlyOwn(p)) \/ CutOff
<1>1. p \in live /\ prog \in Sizes
  BY MemoryAssumption DEF HandleExec
<1>2. PICK k \in Malloc(mem) :
        \/ Stops(k)
        \/ Runs(k) /\ Refused(k) /\ pid_counter' = pid_counter
        \/ /\ Runs(k) /\ FitsVirtual(prog)
           /\ \E grow \in GrowAt(k, Cardinality(UserPages(p))) :
                LET freed == Deleted(k, p, grow)
                    new   == Loaded(freed, prog)
                IN
                \/ Stops(new)
                \/ LoadCutShort(p, prog, freed)
                \/ /\ Runs(new)
                   /\ mem' = new
                   /\ Gets(p, LoadedTable(freed, p, prog), prog)
                   /\ phase' = phase /\ live' = live /\ pid_counter' = pid_counter
                \/ /\ Runs(new)
                   /\ Ends(p, new, LoadedTable(freed, p, prog))
  BY DEF HandleExec, ExecRefused
<1>3. CASE Stops(k)
  BY <1>3, StopsKeeps
<1>4. Runs(k) => KernelSound(k) /\ KFrames(k) = KFrames(mem) /\ Kept(mem, k)
  BY <1>1, AtWork, MallocFacts
<1>5. CASE Runs(k) /\ Refused(k) /\ pid_counter' = pid_counter
  <2>1. phase = "up" /\ pid_counter' \in Nat /\ pid_counter' >= pid_counter
    BY <1>1, <1>5, AtWork
  <2> QED BY <1>4, <1>5, <2>1, RefusedKeeps
<1>8. ASSUME Runs(k), NEW grow \in GrowAt(k, Cardinality(UserPages(p))),
             Runs(Deleted(k, p, grow))
      PROVE  /\ Sound(Deleted(k, p, grow), Put(pgt_r0, p, Bare(p))) /\ Kept(k, Deleted(k, p, grow))
             /\ Put(pgt_r0, p, Bare(p))[p] = Bare(p) /\ Valid(Bare(p)) = KStack
  <2> DEFINE freed == Deleted(k, p, grow)
             t == Put(pgt_r0, p, Bare(p))
  <2>1. Sound(k, pgt_r0)
    BY <1>1, <1>4, <1>8, AtWork, KernelMoves
  <2>2. grow \in 0..Cardinality(UserPages(p))
    <3>1. UserPages(p) \subseteq Page
      BY <1>1, AtWork DEF UserPages, Valid
    <3> QED BY <3>1, PagesListed DEF GrowAt
  <2>3. SpaceOK(pgt_r0[p], brk[p], uStack_bottom[p]) /\ p \in Pid
    BY <1>1, AtWork
  <2>4. freed = Deleted(k, p, grow) /\ t = Put(pgt_r0, p, Bare(p)) /\ Runs(freed)
    BY <1>8
  <2> HIDE DEF freed, t
  <2>5. Sound(freed, t) /\ Kept(k, freed) /\ t[p] = Bare(p) /\ Valid(Bare(p)) = KStack
    BY ONLY <1>8, <2>1, <2>2, <2>3, <2>4, DeleteFacts
  <2> QED BY <2>5 DEF freed, t
<1>6. ASSUME Runs(k), FitsVirtual(prog), NEW grow \in GrowAt(k, Cardinality(UserPages(p))),
             NEW freed, freed = Deleted(k, p, grow), NEW new, new = Loaded(freed, prog), Runs(new),
             \/ /\ mem' = new
                /\ Gets(p, LoadedTable(freed, p, prog), prog)
                /\ phase' = phase /\ live' = live /\ pid_counter' = pid_counter
             \/ Ends(p, new, LoadedTable(freed, p, prog))
      PROVE  MemInv' /\ OnlyOwn(p)
  <2> DEFINE table == LoadedTable(freed, p, prog)
             t == Put(pgt_r0, p, Bare(p))
             t1 == Put(t, p, table)
  <2>2. Runs(freed)
    BY <1>6 DEF Loaded, AllocateFreePage
  <2>4. Sound(freed, t) /\ Kept(k, freed) /\ t[p] = Bare(p) /\ Valid(Bare(p)) = KStack
    BY <1>6, <1>8, <2>2
  <2>5. /\ Sound(new, t1) /\ t1[p] = table
        /\ SpaceOK(table, HeapEnd(prog), StackLimit - prog.stack)
        /\ SameButFree(new, freed)
    <3>1. /\ table = Mapped(Bare(p), Ascending(ProgramPages(prog)), Taken(freed, FrameNeed(prog)))
          /\ t1 = Put(t, p, table)
      BY DEF LoadedTable
    <3> HIDE DEF t, t1, table
    <3> QED BY <1>1, <1>6, <2>4, <3>1, LoadFacts
  <2>6. t1 = Put(pgt_r0, p, table) /\ \A q \in Pid : q # p => t1[q] = pgt_r0[q]
    <3>1. pgt_r0 \in [Pid -> [Page -> Entry]]
      BY <1>1, AtWork
    <3> HIDE DEF table
    <3> QED BY <3>1 DEF Put
  <2> HIDE DEF t, t1, table
  <2>a. Kept(mem, new)
    <3>1. Kept(mem, k) /\ Kept(k, freed) /\ Kept(freed, new)
      BY <1>4, <1>6, <2>4, <2>5, KeptSame DEF SameButFree
    <3> QED BY <3>1, KeptOn
  <2>7. CASE Ends(p, new, table)
    BY <1>1, <1>6, <2>a, <2>5, <2>6, <2>7, EndsKeeps
  <2>8. CASE /\ mem' = new
             /\ Gets(p, table, prog)
             /\ phase' = phase /\ live' = live /\ pid_counter' = pid_counter
    <3>1. /\ pgt_r0' = [pgt_r0 EXCEPT ![p] = table]
          /\ brk' = [brk EXCEPT ![p] = HeapEnd(prog)]
          /\ uStack_bottom' = [uStack_bottom EXCEPT ![p] = StackLimit - prog.stack]
      BY <2>8 DEF Gets
    <3>2. Sound(mem', pgt_r0')
      BY <2>5, <2>6, <2>8, <3>1 DEF Put
    <3>3. HeapEnd(prog) \in Page /\ StackLimit - prog.stack \in Page
      BY <1>1, <1>6, ProgramFacts
    <3>4. /\ brk' \in [Pid -> Page] /\ uStack_bottom' \in [Pid -> Page]
          /\ brk'[p] = HeapEnd(prog) /\ uStack_bottom'[p] = StackLimit - prog.stack
          /\ \A q \in Pid : q # p => brk'[q] = brk[q] /\ uStack_bottom'[q] = uStack_bottom[q]
      BY <1>1, <3>1, <3>3, AtWork
    <3>5. SpaceOK(table, brk'[p], uStack_bottom'[p])
      BY <2>5, <3>4
    <3> QED BY <1>1, <2>8, <2>a, <3>1, <3>2, <3>4, <3>5, SpaceChange
  <2> QED BY <1>6, <2>7, <2>8 DEF table
<1>7. CASE /\ Runs(k) /\ FitsVirtual(prog)
           /\ \E grow \in GrowAt(k, Cardinality(UserPages(p))) :
                LET freed == Deleted(k, p, grow)
                    new   == Loaded(freed, prog)
                IN
                \/ Stops(new)
                \/ LoadCutShort(p, prog, freed)
                \/ /\ Runs(new)
                   /\ mem' = new
                   /\ Gets(p, LoadedTable(freed, p, prog), prog)
                   /\ phase' = phase /\ live' = live /\ pid_counter' = pid_counter
                \/ /\ Runs(new)
                   /\ Ends(p, new, LoadedTable(freed, p, prog))
  <2>1. PICK grow \in GrowAt(k, Cardinality(UserPages(p))) :
                LET freed == Deleted(k, p, grow)
                    new   == Loaded(freed, prog)
                IN
                \/ Stops(new)
                \/ LoadCutShort(p, prog, freed)
                \/ /\ Runs(new)
                   /\ mem' = new
                   /\ Gets(p, LoadedTable(freed, p, prog), prog)
                   /\ phase' = phase /\ live' = live /\ pid_counter' = pid_counter
                \/ /\ Runs(new)
                   /\ Ends(p, new, LoadedTable(freed, p, prog))
    BY <1>7
  <2> DEFINE freed == Deleted(k, p, grow)
             new   == Loaded(freed, prog)
  <2>2. CASE Stops(new)
    BY <2>2, StopsKeeps
  <2>4. CASE LoadCutShort(p, prog, freed)
    <3>1. Runs(freed)
      BY <2>4 DEF LoadCutShort, ListEnds
    <3>2. KernelRecord(freed)
      BY <1>7, <1>8, <3>1 DEF Sound, KernelSound
    <3> HIDE DEF freed
    <3> QED BY <1>1, <1>7, <2>4, <3>2, LateLoad
  <2>3. CASE ~Stops(new) /\ ~LoadCutShort(p, prog, freed)
    <3>1. /\ Runs(new)
          /\ \/ /\ mem' = new
                /\ Gets(p, LoadedTable(freed, p, prog), prog)
                /\ phase' = phase /\ live' = live /\ pid_counter' = pid_counter
             \/ Ends(p, new, LoadedTable(freed, p, prog))
      BY <2>1, <2>3
    <3> QED BY <1>6, <1>7, <3>1
  <2> QED BY <2>2, <2>3, <2>4
<1> QED BY <1>2, <1>3, <1>5, <1>7
----------------------------------------------------------------------------
(***************************************************************************)
(* KernelStart: there are frames for idle and for init.                    *)
(***************************************************************************)
LEMMA AllocateRuns ==
  ASSUME NEW k, Runs(k), NEW n, ~ (n > Len(k.free)), NEW who, KernelRecord(k)
  PROVE  Runs(AllocateFreePage(k, n, who))
BY DEF AllocateFreePage, Runs, KernelRecord

LEMMA BootNeeds ==
  /\ FrameNeed(IdleProgram) \in Nat /\ FrameNeed(InitProgram) \in Nat
  /\ IdleProgram \in Sizes /\ InitProgram \in Sizes
  /\ FitsVirtual(IdleProgram) /\ FitsVirtual(InitProgram)
  /\ LowFrames >= FrameNeed(IdleProgram) + FrameNeed(InitProgram) + KERNEL_STACK_PAGES + 1
<1>1. IdleProgram \in Sizes /\ InitProgram \in Sizes
  BY MemoryAssumption
<1> QED BY <1>1, BootFits, ProgramFacts

LEMMA IdleKeeps ==
  ASSUME MemInv, CreateIdleProcess
  PROVE  MemInv' /\ OnlyOwn(Idle) /\ Runs(mem')
<1> DEFINE freed == Deleted(mem, Idle, 0)
           new == Loaded(freed, IdleProgram)
           table == LoadedTable(freed, Idle, IdleProgram)
           t == Put(pgt_r0, Idle, Bare(Idle))
           t1 == Put(t, Idle, table)
<1>1. /\ Runs(mem) /\ phase = "idle" /\ mem' = new /\ Gets(Idle, table, IdleProgram)
      /\ pid_counter' = Idle + 1 /\ phase' = "init" /\ live' = live
  BY DEF CreateIdleProcess
<1>2. /\ Sound(mem, pgt_r0) /\ KernelSound(mem) /\ KernelRecord(mem)
      /\ live = {} /\ TableFits(mem) /\ ~mem.is_half_used /\ Len(mem.free) = LowFrames
      /\ Idle \in Pid /\ Idle = 0
      /\ SpaceOK(pgt_r0[Idle], brk[Idle], uStack_bottom[Idle])
  BY <1>1, Numbers DEF MemInv, BootInv, SpacesInv, Sound, KernelSound, Idle, Pid
<1>3. Runs(freed)
  <2>1. freed = Pushed(mem, FramesAt(pgt_r0[Idle], UserPages(Idle)))
    BY <1>1 DEF Deleted, FreePhysicalPage
  <2> HIDE DEF freed
  <2> QED BY <1>1, <1>2, <2>1 DEF Pushed, KernelRecord, Runs
<1>4. /\ Sound(freed, t) /\ t[Idle] = Bare(Idle) /\ Valid(Bare(Idle)) = KStack
      /\ Len(freed.free) >= LowFrames /\ SameButFree(freed, mem)
  <2>1. 0 \in 0..Cardinality(UserPages(Idle))
    <3>1. UserPages(Idle) \subseteq Page
      BY <1>2 DEF UserPages, Valid, Sound
    <3>2. Cardinality(UserPages(Idle)) \in Nat
      BY <3>1, PagesListed
    <3> QED BY <3>2
  <2>2. freed = Deleted(mem, Idle, 0) /\ t = Put(pgt_r0, Idle, Bare(Idle))
    OBVIOUS
  <2> HIDE DEF freed, t
  <2>3. /\ Sound(freed, t) /\ t[Idle] = Bare(Idle) /\ Valid(Bare(Idle)) = KStack
        /\ 0 = 0 => Len(freed.free) >= Len(mem.free) /\ SameButFree(freed, mem)
    BY <1>1, <1>2, <1>3, <2>1, <2>2, DeleteFacts
  <2> QED BY <1>2, <2>3
<1> HIDE DEF freed, t
<1>5. Len(freed.free) \in Nat /\ KernelRecord(freed)
  BY <1>4, LenProperties DEF Sound, KernelSound, KernelRecord
<1>6. Runs(new)
  <2>1. ~ (FrameNeed(IdleProgram) > Len(freed.free))
    BY <1>4, <1>5, BootNeeds, Numbers
  <2> QED BY <1>3, <1>5, <2>1, AllocateRuns DEF Loaded
<1>7. /\ Sound(new, t1) /\ t1[Idle] = table
      /\ SpaceOK(table, HeapEnd(IdleProgram), StackLimit - IdleProgram.stack)
      /\ Len(new.free) = Len(freed.free) - FrameNeed(IdleProgram) /\ SameButFree(new, freed)
  <2>1. /\ table = Mapped(Bare(Idle), Ascending(ProgramPages(IdleProgram)),
                          Taken(freed, FrameNeed(IdleProgram)))
        /\ t1 = Put(t, Idle, table) /\ new = Loaded(freed, IdleProgram)
    BY DEF LoadedTable
  <2> HIDE DEF new, table, t1
  <2> QED BY <1>2, <1>4, <1>6, <2>1, BootNeeds, LoadFacts
<1> HIDE DEF new, table
<1>8. pgt_r0' = t1 /\ \A q \in Pid : q # Idle => pgt_r0'[q] = pgt_r0[q]
  <2>1. pgt_r0 \in [Pid -> [Page -> Entry]] /\ pgt_r0' = [pgt_r0 EXCEPT ![Idle] = table]
    BY <1>1, <1>2 DEF Sound, Gets
  <2> QED BY <2>1 DEF Put, t
<1> HIDE DEF t1
<1>9. BootInv'
  <2>1. TableFits(new) /\ ~new.is_half_used
    BY <1>2, <1>4, <1>7 DEF TableFits, SameButFree
  <2>2. Len(new.free) >= FrameNeed(InitProgram) + KERNEL_STACK_PAGES + 1
    BY <1>4, <1>5, <1>7, BootNeeds, Numbers
  <2> QED BY <1>1, <1>2, <2>1, <2>2 DEF BootInv, TableFits
<1>10. SpacesInv'
  <2>1. HeapEnd(IdleProgram) \in Page /\ StackLimit - IdleProgram.stack \in Page
    BY BootNeeds, ProgramFacts
  <2>2. /\ brk' \in [Pid -> Page] /\ uStack_bottom' \in [Pid -> Page]
        /\ brk'[Idle] = HeapEnd(IdleProgram)
        /\ uStack_bottom'[Idle] = StackLimit - IdleProgram.stack
    BY <1>1, <1>2, <2>1 DEF MemInv, SpacesInv, Gets
  <2>3. SpaceOK(pgt_r0'[Idle], brk'[Idle], uStack_bottom'[Idle])
    BY <1>7, <1>8, <2>2
  <2>4. live' = {} /\ pid_counter' \in Nat
    BY <1>1, <1>2
  <2>5. \A q \in Pid : q # Idle => Valid(pgt_r0'[q]) = {}
    BY <1>2, <1>8 DEF MemInv, SpacesInv
  <2> QED BY <2>2, <2>3, <2>4, <2>5 DEF SpacesInv
<1>11. OnlyOwn(Idle)
  <2>1. Kept(mem, new)
    BY <1>4, <1>7, KeptSame DEF SameButFree
  <2> QED BY <1>1, <1>8, <2>1 DEF OnlyOwn
<1> QED BY <1>1, <1>6, <1>7, <1>8, <1>9, <1>10, <1>11 DEF MemInv

\* CreatePCB finds a page for the table, and a frame.
LEMMA FirstTable ==
  ASSUME NEW k, KernelSound(k), Runs(k), TableFits(k), ~k.is_half_used, Len(k.free) >= 1,
         NEW made, made = AllocateRegion0PageTable(k)
  PROVE  /\ Runs(made.k) /\ KernelSound(made.k) /\ KFrames(made.k) = KFrames(k)
         /\ Kept(k, made.k) /\ Len(made.k.free) = Len(k.free) - 1
<1> DEFINE k1 == AllocateFreePage(k, 1, "table")
<1>1. KernelRecord(k) /\ Len(k.free) \in Nat
  BY LenProperties DEF KernelSound, KernelRecord
<1>2. Runs(k1)
  <2>1. ~ (1 > Len(k.free))
    BY <1>1
  <2> QED BY <1>1, <2>1, AllocateRuns
<1>3. KernelSound(k1) /\ Len(k1.free) = Len(k.free) - 1 /\ KernelRecord(k1)
  <2>1. KernelSound(k1) /\ Len(k1.free) = Len(k.free) - 1
    BY <1>2, AllocateFacts
  <2> QED BY <2>1 DEF KernelSound
<1>4. made.k = [k1 EXCEPT !.is_half_used = TRUE, !.pgt_r1[k.addr_next_pgt_r0] = Head(k.free)]
  BY <1>2 DEF AllocateRegion0PageTable
<1> HIDE DEF k1
<1>5. made.k.free = k1.free /\ Runs(made.k)
  BY <1>2, <1>3, <1>4 DEF Runs, KernelRecord
<1>6. KernelSound(made.k) /\ KFrames(made.k) = KFrames(k) /\ Kept(k, made.k)
  BY <1>5, TableFacts
<1> QED BY <1>3, <1>5, <1>6

LEMMA InitKeeps ==
  ASSUME MemInv, CreateInitProcess
  PROVE  /\ MemInv' /\ OnlyOwn(First) /\ Runs(mem')
         /\ Kept(AllocateRegion0PageTable(mem).k, mem')
<1> DEFINE made  == AllocateRegion0PageTable(mem)
           kst   == Ascending(KStack)
           copy  == AllocateFreePage(made.k, Len(kst), "copy")
           table == Mapped(NoTable, kst, Taken(made.k, Len(kst)))
           t     == Put(pgt_r0, First, table)
           new   == Loaded(copy, InitProgram)
           full  == Mapped(table, Ascending(ProgramPages(InitProgram)),
                           Taken(copy, FrameNeed(InitProgram)))
           t1    == Put(t, First, full)
<1>1. /\ Runs(mem) /\ phase = "init" /\ mem' = new /\ Gets(First, full, InitProgram)
      /\ live' = {First} /\ pid_counter' = First + 1 /\ phase' = "up"
  BY DEF CreateInitProcess
<1>2. /\ Sound(mem, pgt_r0) /\ KernelSound(mem) /\ KernelRecord(mem)
      /\ live = {} /\ TableFits(mem) /\ ~mem.is_half_used
      /\ Len(mem.free) >= FrameNeed(InitProgram) + KERNEL_STACK_PAGES + 1
      /\ Len(mem.free) \in Nat /\ pid_counter \in Nat
  BY <1>1, LenProperties DEF MemInv, BootInv, SpacesInv, Sound, KernelSound, KernelRecord
<1>3. First \in Pid /\ First # Idle /\ First = 1
  BY MemoryAssumption, Numbers DEF First, Pid, Idle
<1>4. pgt_r0[First] = NoTable /\ Valid(NoTable) = {}
  BY <1>2, <1>3, NothingMapped DEF NoTable, Valid
<1>5. /\ Kept(mem, made.k) /\ Runs(made.k) /\ KernelSound(made.k) /\ KFrames(made.k) = KFrames(mem)
      /\ Len(made.k.free) = Len(mem.free) - 1
  <2>1. Len(mem.free) >= 1
    BY <1>2, BootNeeds, Numbers
  <2> QED BY <1>1, <1>2, <2>1, FirstTable
<1> HIDE DEF made
<1>6. Lists(kst, KStack) /\ Len(kst) = KERNEL_STACK_PAGES /\ KStack \subseteq Page
  <2>1. Cardinality(KStack) = KERNEL_STACK_PAGES
    <3>1. /\ StackLimit + 1 \in Int /\ PAGE_TABLE_LEN - 1 \in Int
          /\ StackLimit = PAGE_TABLE_LEN - KERNEL_STACK_PAGES - 1
          /\ KStack = (StackLimit + 1)..(PAGE_TABLE_LEN - 1)
      BY Numbers DEF StackLimit
    <3>2. Cardinality(KStack) = IF StackLimit + 1 > PAGE_TABLE_LEN - 1 THEN 0
                                ELSE (PAGE_TABLE_LEN - 1) - (StackLimit + 1) + 1
      <4>1. \A a \in Int, b \in Int : Cardinality(a..b) = IF a > b THEN 0 ELSE b - a + 1
        BY FS_Interval
      <4> QED BY <3>1, <4>1
    <3> QED BY <3>1, <3>2, Numbers
  <2> QED BY <2>1, PagesListed, Numbers
<1>7. Runs(copy)
  <2>1. ~ (Len(kst) > Len(made.k.free)) /\ KernelRecord(made.k)
    BY <1>2, <1>5, <1>6, BootNeeds, Numbers DEF KernelSound
  <2> HIDE DEF kst
  <2> QED BY <1>5, <2>1, AllocateRuns
<1>8. /\ Sound(copy, t) /\ t[First] = table /\ Valid(table) = KStack
      /\ Len(copy.free) = Len(made.k.free) - Len(kst) /\ SameButFree(copy, made.k)
  <2>1. Sound(made.k, pgt_r0)
    BY <1>2, <1>5, KernelMoves
  <2>2. KStack \cap Valid(pgt_r0[First]) = {}
    BY <1>4
  <2>3. /\ copy = AllocateFreePage(made.k, Len(kst), "copy")
        /\ table = Mapped(pgt_r0[First], kst, Taken(made.k, Len(kst)))
        /\ t = Put(pgt_r0, First, table)
    BY <1>4
  <2> HIDE DEF kst, copy, table, t
  <2>4. /\ Sound(copy, t) /\ t[First] = table
        /\ Valid(table) = Valid(pgt_r0[First]) \cup KStack
        /\ Len(copy.free) = Len(made.k.free) - Len(kst) /\ SameButFree(copy, made.k)
    BY <1>3, <1>6, <1>7, <2>1, <2>2, <2>3, GiveFacts
  <2> QED BY <1>4, <2>4
<1> HIDE DEF kst, copy, table, t
<1>9. Runs(new)
  <2>1. ~ (FrameNeed(InitProgram) > Len(copy.free)) /\ KernelRecord(copy)
    BY <1>2, <1>5, <1>6, <1>8, BootNeeds, Numbers DEF Sound, KernelSound
  <2> QED BY <1>7, <2>1, AllocateRuns DEF Loaded
<1>10. /\ Sound(new, t1) /\ t1[First] = full
       /\ SpaceOK(full, HeapEnd(InitProgram), StackLimit - InitProgram.stack)
       /\ SameButFree(new, copy)
  <2>1. /\ full = Mapped(table, Ascending(ProgramPages(InitProgram)),
                         Taken(copy, FrameNeed(InitProgram)))
        /\ t1 = Put(t, First, full) /\ new = Loaded(copy, InitProgram)
    OBVIOUS
  <2> HIDE DEF new, full, t1
  <2> QED BY <1>3, <1>8, <1>9, <2>1, BootNeeds, LoadFacts
<1> HIDE DEF new, full
<1>11. pgt_r0' = t1
  <2>1. pgt_r0 \in [Pid -> [Page -> Entry]] /\ pgt_r0' = [pgt_r0 EXCEPT ![First] = full]
    BY <1>1, <1>2 DEF Sound, Gets
  <2> QED BY <2>1 DEF Put, t
<1>12. \A q \in Pid : q # First => pgt_r0'[q] = pgt_r0[q]
  BY <1>1, <1>2 DEF Sound, Gets
<1> HIDE DEF t1
<1>13. HeapEnd(InitProgram) \in Page /\ StackLimit - InitProgram.stack \in Page
  BY BootNeeds, ProgramFacts
<1>14. /\ brk' \in [Pid -> Page] /\ uStack_bottom' \in [Pid -> Page]
       /\ brk'[First] = HeapEnd(InitProgram)
       /\ uStack_bottom'[First] = StackLimit - InitProgram.stack
       /\ \A q \in Pid : q # First => brk'[q] = brk[q] /\ uStack_bottom'[q] = uStack_bottom[q]
  BY <1>1, <1>3, <1>13 DEF MemInv, SpacesInv, Gets
<1>15. BootInv'
  BY <1>1 DEF BootInv
<1>16. SpacesInv'
  <2>1. /\ live' = {First} /\ pid_counter' \in Nat /\ First < pid_counter'
    BY <1>1, <1>3
  <2>2. SpaceOK(pgt_r0'[First], brk'[First], uStack_bottom'[First])
    BY <1>10, <1>11, <1>14
  <2>3. Idle \in Pid /\ SpaceOK(pgt_r0[Idle], brk[Idle], uStack_bottom[Idle])
    BY Numbers DEF MemInv, SpacesInv, Idle, Pid
  <2>4. SpaceOK(pgt_r0'[Idle], brk'[Idle], uStack_bottom'[Idle])
    BY <1>3, <1>12, <1>14, <2>3
  <2>5. \A q \in Pid : q # First /\ q # Idle => Valid(pgt_r0'[q]) = {}
    BY <1>2, <1>12 DEF MemInv, SpacesInv
  <2> QED BY <1>3, <1>14, <2>1, <2>2, <2>4, <2>5 DEF SpacesInv
<1>17. OnlyOwn(First) /\ Kept(made.k, mem') /\ Runs(mem')
  <2>1. Kept(made.k, new)
    BY <1>8, <1>10, KeptSame DEF SameButFree
  <2>2. Kept(mem, new)
    BY <1>5, <2>1, KeptOn
  <2> QED BY <1>1, <1>9, <1>12, <2>1, <2>2 DEF OnlyOwn
<1> QED BY <1>1, <1>10, <1>11, <1>15, <1>16, <1>17 DEF MemInv, made
----------------------------------------------------------------------------
(***************************************************************************)
(* The invariant holds in every state, and what follows from it.           *)
(***************************************************************************)
LEMMA HeapKeeps ==
  ASSUME MemInv, KernelMalloc
  PROVE  MemInv' /\ \A p \in Pid : OnlyOwn(p)
<1> DEFINE k == SetKernelBrk(mem)
<1>1. /\ CanGrow(mem) /\ phase = "up"
      /\ \/ Stops(k)
         \/ /\ Runs(k) /\ mem' = k /\ phase' = phase /\ live' = live
            /\ pid_counter' = pid_counter /\ spaces' = spaces
  BY DEF KernelMalloc
<1>2. CASE Stops(k)
  BY <1>2, StopsKeeps
<1>3. CASE /\ Runs(k) /\ mem' = k /\ phase' = phase /\ live' = live
           /\ pid_counter' = pid_counter /\ spaces' = spaces
  <2>1. KernelSound(mem) /\ pid_counter \in Nat
    BY DEF MemInv, Sound, SpacesInv
  <2>2. KernelSound(k) /\ KFrames(k) = KFrames(mem) /\ Kept(mem, k)
    BY <1>1, <1>3, <2>1, GrowFacts
  <2>3. pid_counter' \in Nat /\ pid_counter' >= pid_counter
    BY <1>3, <2>1
  <2> HIDE DEF k
  <2> QED BY <1>1, <1>3, <2>2, <2>3, KernelStep
<1> QED BY <1>1, <1>2, <1>3

LEMMA OnlyRunning ==
  ASSUME Next
  PROVE  Runs(mem)
BY DEF Next, CreateIdleProcess, CreateInitProcess, HandleFork, HandleExit, HandleExec, HandleBrk,
   TrapMemoryHandler, KernelMalloc

\* What every state is like: in order, or at the end of a handler that took a
\* node past the end of the list.
MemoryInv == MemInv \/ Loose

LEMMA NextKeeps ==
  ASSUME MemInv, [Next]_memVars
  PROVE  MemoryInv'
<1>1. CASE CreateIdleProcess
  BY <1>1, IdleKeeps DEF MemoryInv, CutOff
<1>2. CASE CreateInitProcess
  BY <1>2, InitKeeps DEF MemoryInv, CutOff
<1>3. CASE \E p \in Pid : HandleFork(p)
  BY <1>3, ForkKeeps DEF MemoryInv, CutOff
<1>4. CASE \E p \in Pid : HandleExit(p)
  BY <1>4, ExitKeeps DEF MemoryInv, CutOff
<1>5. CASE \E p \in Pid, prog \in Programs : HandleExec(p, prog)
  BY <1>5, ExecKeeps DEF MemoryInv, CutOff
<1>6. CASE \E p \in Pid, new \in Page : HandleBrk(p, new)
  BY <1>6, BrkKeeps DEF MemoryInv, CutOff
<1>7. CASE \E p \in Pid, x \in Page : TrapMemoryHandler(p, x)
  BY <1>7, TrapKeeps DEF MemoryInv, CutOff
<1>8. CASE KernelMalloc
  BY <1>8, HeapKeeps DEF MemoryInv, CutOff
<1>9. CASE UNCHANGED memVars
  BY <1>9 DEF memVars, spaces, MemInv, Sound, BootInv, SpacesInv, TableFits, KernelSound,
              KernelRecord, KFrames, MemoryInv
<1> QED BY <1>1, <1>2, <1>3, <1>4, <1>5, <1>6, <1>7, <1>8, <1>9 DEF Next

LEMMA StepKeeps ==
  ASSUME MemoryInv, [Next]_memVars
  PROVE  MemoryInv'
<1>1. CASE MemInv
  BY <1>1, NextKeeps
<1>2. CASE Loose /\ Next
  BY <1>2, OnlyRunning DEF Loose, Corrupt, Runs
<1>3. CASE Loose /\ UNCHANGED memVars
  BY <1>3 DEF memVars, spaces, MemoryInv, Loose, Corrupt, KernelRecord
<1> QED BY <1>1, <1>2, <1>3 DEF MemoryInv

LEMMA MemInvariant == Spec => []MemoryInv
<1>1. Init => MemoryInv
  BY InitSound DEF MemoryInv
<1>2. MemoryInv /\ [Next]_memVars => MemoryInv'
  BY StepKeeps
<1> QED BY <1>1, <1>2, PTL DEF Spec

\* The frames of a table, and of the kernel, are those its pages show.
LEMMA OwnedFrames ==
  ASSUME MemInv
  PROVE  /\ \A p \in Pid : Owned(p) = FramesIn(pgt_r0[p])
         /\ KernelOwned = FramesIn(mem.pgt_r1)
         /\ KFrames(mem) = Range(mem.free) \cup KernelOwned
<1>1. \A p \in Pid : Owned(p) = FramesIn(pgt_r0[p])
  BY Numbers DEF Owned, FramesIn, Valid
<1>2. KernelOwned = FramesIn(mem.pgt_r1)
  BY Numbers DEF KernelOwned, FramesIn, Valid
<1> QED BY <1>1, <1>2 DEF KFrames

\* No frame is used twice, with any number of frames, pages and processes:
\* what Fork, Exec, Brk, a stack, termination or the heap takes from the free
\* list was nobody's, and what is put there has been unmapped.
THEOREM NoFrameUsedTwice == Spec => []FrameExclusive
<1>1. MemInv => FrameExclusive
  <2> SUFFICES ASSUME MemInv PROVE FrameExclusive
    OBVIOUS
  <2>1. /\ Sound(mem, pgt_r0) /\ KernelSound(mem)
        /\ \A p \in Pid : Owned(p) = FramesIn(pgt_r0[p])
        /\ KernelOwned = FramesIn(mem.pgt_r1)
        /\ KFrames(mem) = Range(mem.free) \cup KernelOwned
    BY OwnedFrames DEF MemInv, Sound
  <2>2. ASSUME NEW p \in Pid, NEW q \in Pid, NEW i \in Page, NEW j \in Page,
               pgt_r0[p][i] \in Frame, pgt_r0[p][i] = pgt_r0[q][j]
        PROVE  p = q /\ i = j
    <3>1. DOMAIN pgt_r0[p] = Page /\ DOMAIN pgt_r0[q] = Page
      BY <2>1 DEF Sound
    <3>2. pgt_r0[p][i] \in FramesIn(pgt_r0[p]) /\ pgt_r0[p][i] \in FramesIn(pgt_r0[q])
      BY <2>2, <3>1 DEF FramesIn
    <3>3. p = q
      BY <2>1, <3>2 DEF Sound
    <3> QED BY <2>1, <2>2, <3>1, <3>3 DEF Sound, OneEach
  <2>3. ASSUME NEW i \in 0..HeapPages, NEW j \in 0..HeapPages,
               mem.pgt_r1[i] \in Frame, mem.pgt_r1[i] = mem.pgt_r1[j]
        PROVE  i = j
    <3>1. DOMAIN mem.pgt_r1 = 0..HeapPages /\ OneEach(mem.pgt_r1)
      BY <2>1 DEF KernelSound, KernelRecord
    <3> QED BY <2>3, <3>1 DEF OneEach
  <2>4. \A p \in Pid : Owned(p) \cap (Range(mem.free) \cup KernelOwned) = {}
    BY <2>1 DEF Sound
  <2>5. KernelOwned \cap Range(mem.free) = {} /\ IsInjective(mem.free)
    BY <2>1 DEF KernelSound
  <2> QED BY <2>2, <2>3, <2>4, <2>5 DEF FrameExclusive
<1>2. MemoryInv => FrameExclusive
  BY <1>1 DEF MemoryInv, Loose, FrameExclusive
<1> QED BY <1>2, MemInvariant, PTL

\* No frame is lost, with any number of frames, pages and processes: a process
\* that ends, or whose program is replaced, gives back all it had.
THEOREM NoFrameLost == Spec => []FramesConserved
<1>1. MemInv => FramesConserved
  <2> SUFFICES ASSUME MemInv PROVE FramesConserved
    OBVIOUS
  <2>1. /\ Frame = KFrames(mem) \cup UNION {FramesIn(pgt_r0[p]) : p \in Pid}
        /\ \A p \in Pid : Owned(p) = FramesIn(pgt_r0[p])
        /\ KFrames(mem) = Range(mem.free) \cup KernelOwned
    BY OwnedFrames DEF MemInv, Sound
  <2>2. \A p \in Pid : p \notin live \cup {Idle} => Owned(p) = {}
    BY DEF MemInv, SpacesInv, Owned
  <2>3. live \cup {Idle} \subseteq Pid
    BY Numbers DEF MemInv, SpacesInv, Idle, Pid
  <2> QED BY <2>1, <2>2, <2>3 DEF FramesConserved
<1>2. MemoryInv => FramesConserved
  BY <1>1 DEF MemoryInv, Loose, FramesConserved
<1> QED BY <1>2, MemInvariant, PTL

\* The count of free frames is one short from boot on and never drifts, with
\* any number of frames: each handler takes and gives as many as it counts.
THEOREM CountNeverDrifts == Spec => []CountOffByOne
<1>1. MemInv => CountOffByOne
  BY DEF MemInv, Sound, KernelSound, CountOffByOne
<1>2. MemoryInv => CountOffByOne
  BY <1>1 DEF MemoryInv, Loose, CountOffByOne
<1> QED BY <1>2, MemInvariant, PTL

\* Heap and stack stay apart and nothing else is mapped, for programs of any
\* size and whatever a process asks of Brk and touches of its stack.
THEOREM HeapMeetsNoStack == Spec => []HeapStackApart
<1>1. MemInv => HeapStackApart
  BY DEF MemInv, SpacesInv, SpaceOK, Layout, HeapStackApart
<1>2. MemoryInv => HeapStackApart
  BY <1>1 DEF MemoryInv, Loose, HeapStackApart
<1> QED BY <1>2, MemInvariant, PTL
----------------------------------------------------------------------------
(***************************************************************************)
(* Who has which frame.                                                    *)
(***************************************************************************)
OwnerIn(k, t) ==
  [f \in Frame |->
     IF f \in Range(k.free) THEN -1
     ELSE IF f \in FramesIn(k.pgt_r1) THEN -2
     ELSE CHOOSE p \in Pid : f \in FramesIn(t[p])]

LEMMA OwnerFacts ==
  ASSUME NEW k, NEW t, Sound(k, t)
  PROVE  /\ OwnerIn(k, t) \in [Frame -> Ownership!Owner]
         /\ \A f \in Frame :
              /\ OwnerIn(k, t)[f] = -1 <=> f \in Range(k.free)
              /\ OwnerIn(k, t)[f] = -2 <=> f \in FramesIn(k.pgt_r1)
              /\ \A p \in Pid : OwnerIn(k, t)[f] = p <=> f \in FramesIn(t[p])
<1>1. -1 \notin Pid /\ -2 \notin Pid /\ -1 # -2
  BY Numbers DEF Pid
<1>2. ASSUME NEW f \in Frame
      PROVE  /\ OwnerIn(k, t)[f] \in Pid \cup {-1, -2}
             /\ OwnerIn(k, t)[f] = -1 <=> f \in Range(k.free)
             /\ OwnerIn(k, t)[f] = -2 <=> f \in FramesIn(k.pgt_r1)
             /\ \A p \in Pid : OwnerIn(k, t)[f] = p <=> f \in FramesIn(t[p])
  <2>1. OwnerIn(k, t)[f] = IF f \in Range(k.free) THEN -1
                           ELSE IF f \in FramesIn(k.pgt_r1) THEN -2
                           ELSE CHOOSE p \in Pid : f \in FramesIn(t[p])
    BY DEF OwnerIn
  <2>2. /\ \A p \in Pid : FramesIn(t[p]) \cap (Range(k.free) \cup FramesIn(k.pgt_r1)) = {}
        /\ Range(k.free) \cap FramesIn(k.pgt_r1) = {}
        /\ \A p, q \in Pid : p # q => FramesIn(t[p]) \cap FramesIn(t[q]) = {}
    BY DEF Sound, KernelSound, KFrames
  <2>3. CASE f \in Range(k.free)
    BY <1>1, <2>1, <2>2, <2>3
  <2>4. CASE f \in FramesIn(k.pgt_r1)
    BY <1>1, <2>1, <2>2, <2>4
  <2>5. CASE f \notin Range(k.free) /\ f \notin FramesIn(k.pgt_r1)
    <3>1. \E p \in Pid : f \in FramesIn(t[p])
      BY <2>5 DEF Sound, KFrames
    <3>2. OwnerIn(k, t)[f] \in Pid /\ f \in FramesIn(t[OwnerIn(k, t)[f]])
      BY <2>1, <2>5, <3>1
    <3> QED BY <1>1, <2>2, <2>5, <3>2
  <2> QED BY <2>3, <2>4, <2>5
<1> QED BY <1>2 DEF OwnerIn, Ownership!Owner

LEMMA OwnerKnown == MemInv => owner = OwnerIn(mem, pgt_r0)
<1> SUFFICES ASSUME MemInv PROVE owner = OwnerIn(mem, pgt_r0)
  OBVIOUS
<1>1. (\A p \in Pid : Owned(p) = FramesIn(pgt_r0[p])) /\ KernelOwned = FramesIn(mem.pgt_r1)
  BY OwnedFrames
<1>2. \A f \in Frame : (CHOOSE p \in Pid : f \in Owned(p))
                         = CHOOSE p \in Pid : f \in FramesIn(pgt_r0[p])
  BY <1>1
<1>3. ASSUME NEW f \in Frame PROVE owner[f] = OwnerIn(mem, pgt_r0)[f]
  <2> DEFINE one == CHOOSE p \in Pid : f \in Owned(p)
             other == CHOOSE p \in Pid : f \in FramesIn(pgt_r0[p])
  <2>1. owner[f] = IF f \in Range(mem.free) THEN -1
                   ELSE IF f \in KernelOwned THEN -2 ELSE one
    BY DEF owner
  <2>2. OwnerIn(mem, pgt_r0)[f] = IF f \in Range(mem.free) THEN -1
                                  ELSE IF f \in FramesIn(mem.pgt_r1) THEN -2 ELSE other
    BY DEF OwnerIn
  <2>3. one = other
    BY <1>2
  <2> HIDE DEF one, other
  <2> QED BY <1>1, <2>1, <2>2, <2>3
<1>4. owner = [f \in Frame |-> owner[f]]
  BY DEF owner
<1>5. OwnerIn(mem, pgt_r0) = [f \in Frame |-> OwnerIn(mem, pgt_r0)[f]]
  BY DEF OwnerIn
<1> QED BY <1>3, <1>4, <1>5

\* What the owners have in common before and after a step.
LEMMA OwnersAround ==
  ASSUME MemInv, MemInv', NEW p \in Pid, OnlyOwn(p)
  PROVE  /\ owner' \in [Frame -> Ownership!Owner]
         /\ \A f \in Frame : owner'[f] # owner[f] =>
              owner[f] \in {-1, p} /\ owner'[f] \in {-1, p, -2}
<1>1. owner = OwnerIn(mem, pgt_r0) /\ owner' = OwnerIn(mem', pgt_r0')
  <2>1. owner = OwnerIn(mem, pgt_r0)
    BY OwnerKnown
  <2>2. (MemInv => owner = OwnerIn(mem, pgt_r0))'
    BY OwnerKnown, PTL
  <2> QED BY <2>1, <2>2 DEF OwnerIn
<1>2. Sound(mem, pgt_r0) /\ Sound(mem', pgt_r0')
  BY DEF MemInv
<1>3. /\ owner \in [Frame -> Pid \cup {-1, -2}]
      /\ \A f \in Frame :
           /\ owner[f] = -2 <=> f \in FramesIn(mem.pgt_r1)
           /\ \A q \in Pid : owner[f] = q <=> f \in FramesIn(pgt_r0[q])
  BY <1>1, <1>2, OwnerFacts DEF Ownership!Owner
<1>4. /\ owner' \in [Frame -> Pid \cup {-1, -2}]
      /\ \A f \in Frame :
           /\ owner'[f] = -2 <=> f \in FramesIn(mem'.pgt_r1)
           /\ \A q \in Pid : owner'[f] = q <=> f \in FramesIn(pgt_r0'[q])
  BY <1>1, <1>2, OwnerFacts DEF Ownership!Owner
<1>5. /\ FramesIn(mem.pgt_r1) \subseteq FramesIn(mem'.pgt_r1)
      /\ \A q \in Pid : q # p => FramesIn(pgt_r0'[q]) = FramesIn(pgt_r0[q])
  BY DEF OnlyOwn, Kept
<1> HIDE DEF owner
<1>6. ASSUME NEW f \in Frame, owner'[f] # owner[f]
      PROVE  owner[f] \in {-1, p} /\ owner'[f] \in {-1, p, -2}
  <2>1. owner[f] # -2
    BY <1>3, <1>4, <1>5, <1>6
  <2>2. \A q \in Pid : q # p => owner[f] # q /\ owner'[f] # q
    BY <1>3, <1>4, <1>5, <1>6
  <2> QED BY <1>3, <1>4, <2>1, <2>2
<1> QED BY <1>4, <1>6 DEF Ownership!Owner

\* Each page of a process is backed by a frame of its own.
LEMMA BackedPages ==
  ASSUME NEW table \in [Page -> Entry], OneEach(table),
         \A i \in Page : table[i] # KernelFrame
  PROVE  Cardinality(FramesIn(table)) = Cardinality(Valid(table))
<1> DEFINE S == Valid(table)
           M == [i \in S |-> table[i]]
<1>1. S \subseteq Page /\ IsFiniteSet(S)
  <2>1. S \subseteq Page
    BY DEF Valid
  <2> QED BY <2>1, PagesListed
<1>2. \A i \in S : table[i] \in FramesIn(table)
  BY DEF Valid, Entry, FramesIn
<1>3. ASSUME NEW f \in FramesIn(table) PROVE \E i \in S : table[i] = f
  <2>1. PICK i \in Page : f = table[i] /\ f \in Frame
    BY DEF FramesIn
  <2> QED BY <2>1, Numbers DEF Valid
<1>4. \A i, j \in S : table[i] = table[j] => i = j
  BY <1>1, <1>2 DEF OneEach, FramesIn
<1> HIDE DEF S
<1>5. M \in Bijection(S, FramesIn(table))
  BY <1>2, <1>3, <1>4 DEF Bijection, Injection, Surjection, IsInjective
<1>6. Cardinality(FramesIn(table)) = Cardinality(S)
  BY <1>1, <1>5, FS_Bijection DEF ExistsBijection
<1> QED BY <1>6 DEF S

LEMMA ChildSpawned ==
  ASSUME MemInv, MemInv', NEW p \in live, NEW c, HasChild(p, c)
  PROVE  owner' \in [Frame -> Ownership!Owner] /\ Ownership!Spawn(p, c)
<1>1. p \in Pid /\ p # Idle /\ c \in Pid /\ c # Idle /\ p # c /\ OnlyOwn(c)
  BY AtWork DEF HasChild
<1>2. /\ owner' \in [Frame -> Ownership!Owner]
      /\ \A f \in Frame : owner'[f] # owner[f] =>
           owner[f] \in {-1, c} /\ owner'[f] \in {-1, c, -2}
  BY <1>1, OwnersAround
<1>3. owner = OwnerIn(mem, pgt_r0) /\ owner' = OwnerIn(mem', pgt_r0')
  <2>1. owner = OwnerIn(mem, pgt_r0)
    BY OwnerKnown
  <2>2. (MemInv => owner = OwnerIn(mem, pgt_r0))'
    BY OwnerKnown, PTL
  <2> QED BY <2>1, <2>2 DEF OwnerIn
<1>4. Sound(mem, pgt_r0) /\ Sound(mem', pgt_r0')
  BY DEF MemInv
<1>5. /\ \A f \in Frame : owner[f] = c <=> f \in FramesIn(pgt_r0[c])
      /\ \A f \in Frame : owner[f] = p <=> f \in FramesIn(pgt_r0[p])
      /\ \A f \in Frame : owner'[f] = c <=> f \in FramesIn(pgt_r0'[c])
  BY <1>1, <1>3, <1>4, OwnerFacts
<1> HIDE DEF owner
<1>6. \A t \in {pgt_r0[c], pgt_r0[p], pgt_r0'[c]} : FramesIn(t) \subseteq Frame
  BY DEF FramesIn
<1>7. Ownership!Of(c) = {} /\ Ownership!Of(p) = FramesIn(pgt_r0[p])
  <2>1. FramesIn(pgt_r0[c]) = {}
    BY Numbers DEF HasChild, NoTable, FramesIn
  <2> QED BY <1>5, <1>6, <2>1 DEF Ownership!Of
<1>8. {f \in Frame : owner'[f] = c} = FramesIn(pgt_r0'[c])
  BY <1>5, <1>6
<1>9. Cardinality(FramesIn(pgt_r0'[c])) = Cardinality(FramesIn(pgt_r0[p]))
  <2>1. /\ pgt_r0'[c] \in [Page -> Entry] /\ OneEach(pgt_r0'[c])
        /\ \A i \in Page : pgt_r0'[c][i] # KernelFrame
    BY <1>1, <1>4 DEF Sound
  <2>2. /\ pgt_r0[p] \in [Page -> Entry] /\ OneEach(pgt_r0[p])
        /\ \A i \in Page : pgt_r0[p][i] # KernelFrame
    BY <1>1, <1>4 DEF Sound
  <2>3. Valid(pgt_r0'[c]) = Valid(pgt_r0[p])
    BY DEF HasChild
  <2>4. Cardinality(FramesIn(pgt_r0'[c])) = Cardinality(Valid(pgt_r0'[c]))
    BY <2>1, BackedPages
  <2>5. Cardinality(FramesIn(pgt_r0[p])) = Cardinality(Valid(pgt_r0[p]))
    BY <2>2, BackedPages
  <2> QED BY <2>3, <2>4, <2>5
<1>10. Ownership!Moves({-1}, {c, -2})
  <2> SUFFICES ASSUME NEW f \in Frame, owner'[f] # owner[f]
               PROVE  owner[f] = -1 /\ owner'[f] \in {c, -2}
    BY DEF Ownership!Moves
  <2>1. owner[f] # c
    BY <1>7 DEF Ownership!Of
  <2> QED BY <1>2, <2>1
<1>11. Cardinality({f \in Frame : owner'[f] = c}) = Cardinality(Ownership!Of(p))
  BY <1>7, <1>8, <1>9
<1>12. p # c /\ Ownership!Of(c) = {}
  BY <1>1, <1>7
<1>13. \A S : Ownership!Cardinality(S) = Cardinality(S)
  BY DEF Ownership!Cardinality, Cardinality
<1>14. Ownership!Spawn(p, c)
  BY <1>10, <1>11, <1>12, <1>13 DEF Ownership!Spawn
<1> QED BY <1>2, <1>14

LEMMA OwnerAtInit == Init => Ownership!Init
<1> SUFFICES ASSUME Init PROVE Ownership!Init
  OBVIOUS
<1>1. mem.free = [n \in 1..LowFrames |-> n] /\ mem.machine = "runs"
  BY DEF Init, InitMemoryManagement
<1>2. Range(mem.free) = Frame
  BY <1>1, Numbers DEF Range, Frame
<1>3. owner = [f \in Frame |-> -1]
  BY <1>2 DEF owner
<1>4. Corrupt = FALSE
  BY <1>1 DEF Corrupt
<1> QED BY <1>3, <1>4 DEF Ownership!Init

\* The frames have moved as a system call may move them.
OwnersMoved == owner' \in [Frame -> Ownership!Owner] /\ Ownership!Moved

LEMMA OwnersMove ==
  ASSUME MemInv, MemInv', NEW p \in Pid, OnlyOwn(p)
  PROVE  OwnersMoved
<1>1. /\ owner' \in [Frame -> Ownership!Owner]
      /\ \A f \in Frame : owner'[f] # owner[f] =>
           owner[f] \in {-1, p} /\ owner'[f] \in {-1, p, -2}
  BY OwnersAround
<1>2. Ownership!Resize(p)
  BY <1>1 DEF Ownership!Resize, Ownership!Moves
<1> QED BY <1>1, <1>2 DEF OwnersMoved, Ownership!Moved

LEMMA OwnersSpawn ==
  ASSUME MemInv, MemInv', NEW p \in live, NEW c, HasChild(p, c)
  PROVE  OwnersMoved
<1>1. p \in Pid /\ c \in Pid
  BY AtWork DEF HasChild
<1>2. owner' \in [Frame -> Ownership!Owner] /\ Ownership!Spawn(p, c)
  BY ChildSpawned
<1> QED BY <1>1, <1>2 DEF OwnersMoved, Ownership!Moved

LEMMA OwnersNext ==
  ASSUME MemInv, MemInv', Next, ~Corrupt'
  PROVE  OwnersMoved
<1>1. CASE CreateIdleProcess
  <2>1. Idle \in Pid
    BY Numbers DEF Idle, Pid
  <2> QED BY <1>1, <2>1, IdleKeeps, OwnersMove
<1>2. CASE CreateInitProcess
  <2>1. First \in Pid /\ OnlyOwn(First)
    BY <1>2, InitKeeps, BootFits, MemoryAssumption DEF First, Pid
  <2> QED BY <2>1, OwnersMove
<1>3. CASE \E p \in Pid : HandleFork(p)
  <2>1. PICK p \in Pid : HandleFork(p)
    BY <1>3
  <2>2. p \in live
    BY <2>1 DEF HandleFork
  <2>3. OnlyOwn(p) \/ HasChild(p, pid_counter)
    BY <2>1, ForkKeeps
  <2> QED BY <2>2, <2>3, OwnersMove, OwnersSpawn
<1>4. CASE \E p \in Pid : HandleExit(p)
  BY <1>4, ExitKeeps, OwnersMove
<1>5. CASE \E p \in Pid, prog \in Programs : HandleExec(p, prog)
  BY <1>5, ExecKeeps, OwnersMove DEF CutOff, Loose
<1>6. CASE \E p \in Pid, new \in Page : HandleBrk(p, new)
  BY <1>6, BrkKeeps, OwnersMove DEF CutOff, Loose
<1>7. CASE \E p \in Pid, x \in Page : TrapMemoryHandler(p, x)
  BY <1>7, TrapKeeps, OwnersMove DEF CutOff, Loose
<1>8. CASE KernelMalloc
  <2>1. Idle \in Pid
    BY Numbers DEF Idle, Pid
  <2> QED BY <1>8, <2>1, HeapKeeps, OwnersMove
<1> QED BY <1>1, <1>2, <1>3, <1>4, <1>5, <1>6, <1>7, <1>8 DEF Next

LEMMA OwnersStep ==
  ASSUME MemoryInv, MemoryInv', [Next]_memVars
  PROVE  [Ownership!Next]_<<owner, Corrupt>>
<1>1. CASE UNCHANGED memVars
  <2>1. mem' = mem /\ pgt_r0' = pgt_r0
    BY <1>1 DEF memVars, spaces
  <2> QED BY <2>1 DEF owner, Owned, KernelOwned, Valid, Corrupt
<1>2. CASE Next
  <2>1. ~Corrupt
    BY <1>2, OnlyRunning DEF Runs, Corrupt
  <2>2. CASE Corrupt'
    BY <2>1, <2>2 DEF Ownership!Next, Ownership!Break
  <2>3. CASE ~Corrupt'
    <3>1. MemInv /\ MemInv'
      BY <2>1, <2>3 DEF MemoryInv, Loose
    <3>2. OwnersMoved
      BY <1>2, <2>3, <3>1, OwnersNext
    <3>3. Corrupt' = Corrupt
      BY <2>1, <2>3 DEF Corrupt
    <3> QED BY <2>3, <3>2, <3>3 DEF Ownership!Next, OwnersMoved
  <2> QED BY <2>2, <2>3
<1> QED BY <1>1, <1>2

\* Whatever the sizes, a system call moves frames only between its caller, its
\* child, the free list and the kernel, up to the step in which a handler takes
\* a node past the end of the list: the handlers, with their page tables and
\* the list of free frames, implement the owners of module FrameOwnership.
THEOREM MemoryImplementsOwnership == Spec => OwnershipSpec
<1>1. Init => Ownership!Init
  BY OwnerAtInit
<1>2. MemoryInv /\ MemoryInv' /\ [Next]_memVars => [Ownership!Next]_<<owner, Corrupt>>
  BY OwnersStep
<1> QED BY <1>1, <1>2, MemInvariant, PTL DEF Spec, OwnershipSpec, Ownership!Spec
----------------------------------------------------------------------------
(***************************************************************************)
(* The slots of the page tables.                                           *)
(***************************************************************************)
\* The slot that AllocateRegion0PageTable hands out is in order, and no one's.
LEMMA TableSlot ==
  ASSUME NEW k, KernelSound(k), Region1OK(k),
         NEW made, made = AllocateRegion0PageTable(k), Runs(made.k), made.ok
  PROVE  SlotOK(made.k, NextSlot(k)) /\ \A s : SlotOK(k, s) => s # NextSlot(k)
<1> DEFINE a == k.addr_next_pgt_r0
           k1 == AllocateFreePage(k, 1, "table")
<1>1. /\ KernelRecord(k) /\ a \in 0..HeapPages /\ k.kernel_brk \in 1..HeapPages
      /\ k.pgt_r1 \in [0..HeapPages -> Entry] /\ HeapPages \in Nat
  BY Numbers DEF KernelSound, KernelRecord
<1>2. CASE k.is_half_used
  <2>1. made.k = [k EXCEPT !.is_half_used = FALSE, !.addr_next_pgt_r0 = a - 1]
    BY <1>2 DEF AllocateRegion0PageTable, TableFits
  <2>2. /\ made.k.pgt_r1 = k.pgt_r1 /\ made.k.kernel_brk = k.kernel_brk
        /\ made.k.addr_next_pgt_r0 = a - 1
    BY <1>1, <2>1 DEF KernelRecord
  <2>3. NextSlot(k) = <<a, 2>>
    BY <1>2 DEF NextSlot
  <2>4. k.pgt_r1[a] # NoFrame /\ a >= k.kernel_brk
    BY <1>1, <1>2 DEF KernelSound, Region1OK
  <2>5. SlotOK(made.k, <<a, 2>>)
    BY <1>1, <2>2, <2>4 DEF SlotOK
  <2>6. ~ SlotOK(k, <<a, 2>>)
    BY DEF SlotOK
  <2> QED BY <2>3, <2>5, <2>6
<1>3. CASE ~k.is_half_used
  <2>1. TableFits(k) /\ Runs(k1)
    BY <1>3 DEF AllocateRegion0PageTable
  <2>2. made.k = [k1 EXCEPT !.is_half_used = TRUE, !.pgt_r1[a] = Head(k.free)]
    BY <1>3, <2>1 DEF AllocateRegion0PageTable
  <2>3. KernelSound(k1) /\ KernelRecord(k1) /\ SameButFree(k1, k)
    <3>1. KernelSound(k1) /\ SameButFree(k1, k)
      BY <2>1, AllocateFacts
    <3> QED BY <3>1 DEF KernelSound
  <2>4. /\ made.k.kernel_brk = k.kernel_brk /\ made.k.addr_next_pgt_r0 = a
        /\ made.k.is_half_used = TRUE
    <3> HIDE DEF k1
    <3> QED BY <2>2, <2>3 DEF KernelRecord, SameButFree
  <2>5. KernelSound(made.k)
    BY TableFacts
  <2>6. NextSlot(k) = <<a, 1>>
    BY <1>3 DEF NextSlot
  <2>7. a >= k.kernel_brk
    BY <1>1, <1>3, <2>1 DEF TableFits, Region1OK
  <2>8. made.k.pgt_r1[a] # NoFrame
    BY <2>4, <2>5 DEF KernelSound
  <2>9. SlotOK(made.k, <<a, 1>>)
    BY <1>1, <2>4, <2>7, <2>8 DEF SlotOK
  <2>10. ~ SlotOK(k, <<a, 1>>)
    BY <1>3 DEF SlotOK
  <2> QED BY <2>6, <2>9, <2>10
<1> QED BY <1>2, <1>3

LEMMA GrowNext ==
  ASSUME NEW k, KernelSound(k), CanGrow(k), NEW k1, k1 = SetKernelBrk(k), Runs(k1)
  PROVE  NextSlot(k1) = NextSlot(k)
<1> DEFINE n == Len(Ascending(PagesToFill(k)))
           ka == AllocateFreePage(k, n, "heap")
           table == Mapped(ka.pgt_r1, Ascending(PagesToFill(k)), Taken(k, n))
<1>1. Runs(ka) /\ k1 = [ka EXCEPT !.kernel_brk = @ + 1, !.pgt_r1 = table]
  BY DEF SetKernelBrk
<1>2. n \in Nat
  <2>1. k.kernel_brk \in Int
    BY DEF KernelSound, KernelRecord
  <2>2. PagesToFill(k) \in SUBSET {k.kernel_brk, k.kernel_brk + 1}
    BY DEF PagesToFill
  <2>3. IsFiniteSet({k.kernel_brk, k.kernel_brk + 1})
    <3>1. {k.kernel_brk, k.kernel_brk + 1} = {k.kernel_brk} \cup {k.kernel_brk + 1}
      OBVIOUS
    <3>2. IsFiniteSet({k.kernel_brk})
      BY FS_Singleton
    <3>3. IsFiniteSet({k.kernel_brk} \cup {k.kernel_brk + 1})
      BY <3>2, FS_AddElement
    <3> QED BY <3>1, <3>3
  <2>4. PagesToFill(k) \in SUBSET Int /\ IsFiniteSet(PagesToFill(k))
    BY <2>1, <2>2, <2>3, FS_Subset
  <2> QED BY <2>4, AscendingLists, FS_CardinalityType
<1> HIDE DEF n, ka, table
<1>3. KernelSound(ka) /\ SameButFree(ka, k)
  BY <1>1, <1>2, AllocateFacts DEF ka
<1> QED BY <1>1, <1>3 DEF KernelSound, KernelRecord, SameButFree, NextSlot

LEMMA CreatedSlot ==
  ASSUME NEW k, KernelSound(k), Region1OK(k), NEW made \in CreatePCB(k), Runs(made.k), made.ok
  PROVE  SlotOK(made.k, NextSlot(k)) /\ \A s : SlotOK(k, s) => s # NextSlot(k)
<1> DEFINE plain == AllocateRegion0PageTable(k)
           grown == SetKernelBrk(k)
           late  == SetKernelBrk(plain.k)
           none(kk) == [k |-> kk, ok |-> FALSE]
           after(kk) == IF Runs(kk) THEN AllocateRegion0PageTable(kk) ELSE none(kk)
<1>1. \/ made = plain
      \/ CanGrow(k) /\ made = after(grown)
      \/ plain.ok /\ CanGrow(plain.k) /\ made = [k |-> late, ok |-> Runs(late)]
  BY DEF CreatePCB
<1>2. CASE made = plain
  BY <1>2, TableSlot
<1>3. CASE CanGrow(k) /\ made = after(grown)
  <2>1. Runs(grown) /\ made = AllocateRegion0PageTable(grown)
    BY <1>3
  <2>2. KernelSound(grown) /\ Kept(k, grown) /\ NextSlot(grown) = NextSlot(k)
    BY <1>3, <2>1, GrowFacts, GrowNext
  <2>3. Region1OK(grown) /\ \A s : SlotOK(k, s) => SlotOK(grown, s)
    BY <2>2 DEF Kept
  <2> QED BY <2>1, <2>2, <2>3, TableSlot
<1>4. CASE plain.ok /\ CanGrow(plain.k) /\ made = [k |-> late, ok |-> Runs(late)]
  <2>1. made.k = late
    BY <1>4
  <2>2. Runs(plain.k)
    BY <2>1, GrowRuns
  <2>3. KernelSound(plain.k) /\ SlotOK(plain.k, NextSlot(k)) /\ \A s : SlotOK(k, s) => s # NextSlot(k)
    BY <1>4, <2>2, TableFacts, TableSlot
  <2>4. Kept(plain.k, late)
    BY <1>4, <2>1, <2>3, GrowFacts
  <2> QED BY <2>1, <2>3, <2>4 DEF Kept
<1> QED BY <1>1, <1>2, <1>3, <1>4

SlotInv ==
  /\ Region1OK(mem)
  /\ slot \in [Pid -> (0..HeapPages) \X {0, 1, 2}]
  /\ \A p \in live : SlotOK(mem, slot[p])
  /\ \A p, q \in live : slot[p] = slot[q] => p = q

\* A step that gives nobody a slot.
SlotsStay ==
  \/ live' = live /\ slot' = slot
  \/ \E p \in live : live' = live \ {p} /\ slot' = [slot EXCEPT ![p] = NoSlot]

\* A step that gives p the next one.
SlotGiven(p) ==
  /\ p \in Pid /\ p \notin live /\ live' = live \cup {p}
  /\ slot' = [slot EXCEPT ![p] = NextSlot(mem)]
  /\ SlotOK(mem', NextSlot(mem))
  /\ \A s : SlotOK(mem, s) => s # NextSlot(mem)

LEMMA StayKeeps ==
  ASSUME MemInv, SlotInv, Kept(mem, mem'), SlotsStay
  PROVE  SlotInv'
<1>1. live \subseteq Pid /\ NoSlot \in (0..HeapPages) \X {0, 1, 2}
  BY Numbers DEF MemInv, SpacesInv, NoSlot
<1>2. /\ live' \subseteq live /\ slot' \in [Pid -> (0..HeapPages) \X {0, 1, 2}]
      /\ \A p \in live' : slot'[p] = slot[p]
  BY <1>1 DEF SlotsStay, SlotInv
<1> QED BY <1>2 DEF SlotInv, Kept

LEMMA GivenKeeps ==
  ASSUME MemInv, SlotInv, Kept(mem, mem'), NEW p, SlotGiven(p)
  PROVE  SlotInv'
<1>1. live \subseteq Pid /\ p \in Pid /\ p \notin live /\ live' = live \cup {p}
  BY DEF MemInv, SpacesInv, SlotGiven
<1>2. NextSlot(mem) \in (0..HeapPages) \X {0, 1, 2}
  BY DEF SlotGiven, SlotOK
<1>3. /\ slot' \in [Pid -> (0..HeapPages) \X {0, 1, 2}] /\ slot'[p] = NextSlot(mem)
      /\ \A q \in live : slot'[q] = slot[q]
  BY <1>1, <1>2 DEF SlotInv, SlotGiven
<1>4. \A q \in live : slot[q] # slot'[p]
  BY <1>3 DEF SlotInv, SlotGiven
<1>5. \A q \in live' : SlotOK(mem', slot'[q])
  BY <1>1, <1>3 DEF SlotInv, Kept, SlotGiven
<1>6. \A q, r \in live' : slot'[q] = slot'[r] => q = r
  BY <1>1, <1>3, <1>4 DEF SlotInv
<1> QED BY <1>3, <1>5, <1>6 DEF SlotInv, Kept

LEMMA EndSlots ==
  ASSUME NEW p \in live, NEW k, NEW table, Ends(p, k, table)
  PROVE  SlotsStay
BY DEF Ends, TerminateProcess, Stops, SlotsStay

LEMMA ForkSlots ==
  ASSUME MemInv, SlotInv, NEW p \in Pid, HandleFork(p)
  PROVE  SlotInv'
<1>1. p \in live /\ pid_counter <= MaxPid
  BY DEF HandleFork
<1>2. Kept(mem, mem')
  BY ForkKeeps DEF OnlyOwn, HasChild
<1>3. PICK made \in CreatePCB(mem) :
        \/ Stops(made.k)
        \/ Refused(made.k)
        \/ made.ok /\ \E k \in Enqueue(made.k) :
             Stops(k) \/ Refused(k) \/ (Runs(k) /\ ForkCopies(p, pid_counter, k))
  BY DEF HandleFork, ForkRefused
<1>4. ASSUME NEW k, Stops(k) \/ Refused(k) PROVE SlotInv'
  BY <1>2, <1>4, StayKeeps DEF Stops, Refused, SlotsStay
<1>5. ASSUME made.ok, NEW k \in Enqueue(made.k), Runs(k), ForkCopies(p, pid_counter, k)
      PROVE  SlotInv'
  <2> DEFINE user == Cardinality(UserPages(p))
             stack == Cardinality(StackPages(p))
             k1 == AllocateFreePage(k, user, "copy")
  <2>1. PICK k2 \in Enqueue(k1) :
          LET k3 == AllocateFreePage(k2, stack, "copy") IN
          \/ Stops(k3)
          \/ /\ Runs(k3) /\ mem' = k3 /\ live' = live \cup {pid_counter}
             /\ slot' = [slot EXCEPT ![pid_counter] = NextSlot(mem)]
    BY <1>5 DEF ForkCopies
  <2> DEFINE k3 == AllocateFreePage(k2, stack, "copy")
  <2>2. CASE Stops(k3)
    BY <1>4, <2>2
  <2>3. CASE /\ Runs(k3) /\ mem' = k3 /\ live' = live \cup {pid_counter}
             /\ slot' = [slot EXCEPT ![pid_counter] = NextSlot(mem)]
    <3>1. Runs(k2) /\ Runs(k1) /\ Runs(made.k)
      <4>1. Runs(k2)
        BY <2>3 DEF AllocateFreePage
      <4>2. \A kk, kn : kn \in Enqueue(kk) => kn = kk \/ kn = SetKernelBrk(kk)
        BY DEF Enqueue
      <4> QED BY <1>5, <4>1, <4>2, GrowRuns
    <3>2. KernelSound(mem) /\ pid_counter \in Nat
      BY <1>1, AtWork
    <3>3. /\ SlotOK(made.k, NextSlot(mem)) /\ KernelSound(made.k)
          /\ \A s : SlotOK(mem, s) => s # NextSlot(mem)
      BY <1>5, <3>1, <3>2, CreatedFacts, CreatedSlot DEF SlotInv
    <3>4. user \in Nat /\ stack \in Nat
      <4>1. Valid(pgt_r0[p]) \subseteq Page
        BY <1>1, AtWork DEF Valid
      <4>2. UserPages(p) \subseteq Page /\ StackPages(p) \subseteq Page
        BY <4>1 DEF UserPages, StackPages
      <4> QED BY <4>2, PagesListed
    <3> HIDE DEF k1, k3, user, stack
    <3>5. KernelSound(k) /\ Kept(made.k, k)
      BY <1>5, <3>3, EnqueueFacts
    <3>6. KernelSound(k1) /\ SameButFree(k1, k)
      BY <3>1, <3>4, <3>5, AllocateFacts DEF k1
    <3>7. KernelSound(k2) /\ Kept(k1, k2)
      BY <3>1, <3>6, EnqueueFacts
    <3>8. SameButFree(k3, k2)
      BY <2>3, <3>4, <3>7, AllocateFacts DEF k3
    <3>9. Kept(made.k, k3)
      BY <3>5, <3>6, <3>7, <3>8, KeptSame, KeptOn DEF SameButFree
    <3>10. pid_counter \in Pid /\ pid_counter \notin live
      <4>1. pid_counter \in Pid
        BY <1>1, <3>2, Numbers DEF Pid
      <4>2. ASSUME pid_counter \in live PROVE FALSE
        <5>1. pid_counter < pid_counter
          BY <4>2 DEF MemInv, SpacesInv
        <5> QED BY <3>2, <5>1
      <4> QED BY <4>1, <4>2
    <3>11. SlotGiven(pid_counter)
      BY <2>3, <3>3, <3>9, <3>10 DEF SlotGiven, Kept
    <3> QED BY <1>2, <3>11, GivenKeeps
  <2> QED BY <2>1, <2>2, <2>3
<1> QED BY <1>3, <1>4, <1>5

LEMMA SlotsNext ==
  ASSUME MemInv, SlotInv, [Next]_memVars
  PROVE  SlotInv'
<1>1. CASE CreateIdleProcess
  <2>1. Kept(mem, mem')
    BY <1>1, IdleKeeps DEF OnlyOwn
  <2> QED BY <1>1, <2>1, StayKeeps DEF CreateIdleProcess, SlotsStay
<1>2. CASE CreateInitProcess
  <2>1. Kept(mem, mem')
    BY <1>2, InitKeeps DEF OnlyOwn
  <2> DEFINE made == AllocateRegion0PageTable(mem)
  <2>2. /\ Runs(mem) /\ phase = "init" /\ slot' = [slot EXCEPT ![First] = NextSlot(mem)]
        /\ live' = {First}
    BY <1>2 DEF CreateInitProcess
  <2>3. /\ KernelSound(mem) /\ live = {} /\ TableFits(mem) /\ ~mem.is_half_used
        /\ Len(mem.free) >= FrameNeed(InitProgram) + KERNEL_STACK_PAGES + 1 /\ Len(mem.free) \in Nat
    BY <2>2, LenProperties DEF MemInv, BootInv, Sound, KernelSound, KernelRecord
  <2>4. Len(mem.free) >= 1
    BY <2>3, BootNeeds, Numbers
  <2>5. Runs(made.k) /\ KernelSound(made.k)
    BY <2>2, <2>3, <2>4, FirstTable
  <2>6. made.ok
    <3>1. ~ (1 > Len(mem.free)) /\ KernelRecord(mem)
      BY <2>3, <2>4 DEF KernelSound
    <3>2. Runs(AllocateFreePage(mem, 1, "table"))
      BY <2>2, <3>1, AllocateRuns
    <3> QED BY <2>3, <3>2 DEF AllocateRegion0PageTable
  <2>7. SlotOK(made.k, NextSlot(mem)) /\ \A s : SlotOK(mem, s) => s # NextSlot(mem)
    BY <2>3, <2>5, <2>6, TableSlot DEF SlotInv
  <2>8. Kept(made.k, mem')
    BY <1>2, InitKeeps
  <2>9. SlotGiven(First)
    <3>1. First \in Pid
      BY Numbers, MemoryAssumption DEF First, Pid
    <3> QED BY <2>2, <2>3, <2>7, <2>8, <3>1 DEF SlotGiven, Kept
  <2> QED BY <2>1, <2>9, GivenKeeps
<1>3. CASE \E p \in Pid : HandleFork(p)
  BY <1>3, ForkSlots
<1>4. ASSUME NEW p \in Pid, HandleExit(p) PROVE SlotInv'
  <2>1. Kept(mem, mem')
    BY <1>4, ExitKeeps DEF OnlyOwn
  <2>2. SlotsStay
    BY <1>4, EndSlots DEF HandleExit
  <2> QED BY <2>1, <2>2, StayKeeps
<1>5. CASE \E p \in Pid, prog \in Programs : HandleExec(p, prog)
  <2>1. PICK p \in Pid, prog \in Programs : HandleExec(p, prog)
    BY <1>5
  <2>2. Kept(mem, mem')
    BY <2>1, ExecKeeps DEF OnlyOwn, CutOff
  <2>3. PICK k \in Malloc(mem) :
          \/ Stops(k)
          \/ Refused(k)
          \/ \E grow \in GrowAt(k, Cardinality(UserPages(p))) :
               LET freed == Deleted(k, p, grow)
                   new   == Loaded(freed, prog)
               IN
               \/ Stops(new)
               \/ CutShort(new)
               \/ live' = live /\ slot' = slot
               \/ Ends(p, new, LoadedTable(freed, p, prog))
    BY <2>1 DEF HandleExec, ExecRefused, LoadCutShort
  <2>4. p \in live
    BY <2>1 DEF HandleExec
  <2>5. (live' = live /\ slot' = slot) \/ SlotsStay
    BY <2>3, <2>4, EndSlots DEF Stops, Refused, CutShort
  <2> QED BY <2>2, <2>5, StayKeeps DEF SlotsStay
<1>6. CASE \E p \in Pid, new \in Page : HandleBrk(p, new)
  <2>1. Kept(mem, mem')
    BY <1>6, BrkKeeps DEF OnlyOwn, CutOff
  <2>2. live' = live /\ slot' = slot
    BY <1>6 DEF HandleBrk, BrkUp, BrkDown, Stops, Refused, CutShort
  <2> QED BY <2>1, <2>2, StayKeeps DEF SlotsStay
<1>7. CASE \E p \in Pid, x \in Page : TrapMemoryHandler(p, x)
  <2>1. PICK p \in Pid, x \in Page : TrapMemoryHandler(p, x)
    BY <1>7
  <2>2. CASE HandleExit(p)
    BY <1>4, <2>2
  <2>3. CASE StackGrows(p, x)
    <3>1. Kept(mem, mem')
      BY <2>1, TrapKeeps DEF OnlyOwn, CutOff
    <3>2. live' = live /\ slot' = slot
      BY <2>3 DEF StackGrows, Stops, CutShort
    <3> QED BY <3>1, <3>2, StayKeeps DEF SlotsStay
  <2> QED BY <2>1, <2>2, <2>3 DEF TrapMemoryHandler
<1>8. CASE KernelMalloc
  <2>1. Kept(mem, mem')
    BY <1>8, HeapKeeps, Numbers DEF OnlyOwn, Idle, Pid
  <2>2. live' = live /\ slot' = slot
    BY <1>8 DEF KernelMalloc, Stops
  <2> QED BY <2>1, <2>2, StayKeeps DEF SlotsStay
<1>9. CASE UNCHANGED memVars
  BY <1>9, StayKeeps, KeptSame DEF memVars, SlotsStay
<1> QED BY <1>1, <1>2, <1>3, <1>4, <1>5, <1>6, <1>7, <1>8, <1>9 DEF Next

LEMMA SlotsStep ==
  ASSUME MemoryInv, SlotInv, [Next]_memVars
  PROVE  SlotInv'
<1>1. CASE MemInv
  BY <1>1, SlotsNext
<1>2. CASE Loose /\ Next
  BY <1>2, OnlyRunning DEF Loose, Corrupt, Runs
<1>3. CASE UNCHANGED memVars
  BY <1>3 DEF memVars, SlotInv, Region1OK, SlotOK
<1> QED BY <1>1, <1>2, <1>3 DEF MemoryInv

LEMMA SlotInvariant == Spec => []SlotInv
<1>1. Init => SlotInv
  <2> SUFFICES ASSUME Init PROVE SlotInv
    OBVIOUS
  <2>1. /\ mem.kernel_brk = 1 /\ mem.is_half_used = FALSE
        /\ mem.pgt_r1 = [i \in 0..HeapPages |-> IF i = 0 THEN KernelFrame ELSE NoFrame]
    BY DEF Init, InitMemoryManagement
  <2>2. Region1OK(mem)
    BY <2>1, Numbers DEF Region1OK
  <2>3. slot \in [Pid -> (0..HeapPages) \X {0, 1, 2}] /\ live = {}
    BY Numbers DEF Init, NoSlot
  <2> QED BY <2>2, <2>3 DEF SlotInv
<1>2. MemoryInv /\ SlotInv /\ [Next]_memVars => SlotInv'
  BY SlotsStep
<1> QED BY <1>1, <1>2, MemInvariant, PTL DEF Spec

\* However many processes come and go, and however the kernel heap grows
\* against them, no two living processes have their page tables in the same
\* place, and the heap does not reach one.
THEOREM MemoryTablesApart == Spec => []TablesApart
<1>1. SlotInv => TablesApart
  BY DEF SlotInv, TablesApart, SlotOK
<1> QED BY <1>1, SlotInvariant, PTL
----------------------------------------------------------------------------
(***************************************************************************)
(* What becomes of the machine, and how far a handler runs off the end of  *)
(* the list.                                                               *)
(***************************************************************************)
Takers == {"table", "heap", "load", "copy", "brk", "stack"}

\* Those who take frames that no count has promised.
Unpromised == {"table", "heap"}

IsList(s) == \E S : s \in Seq(S)

\* A record on its way through a handler; who may have run off the list.
Fate(k, who) ==
  /\ {"free", "count", "kernel_brk", "pgt_r1", "machine", "taker", "short"} \subseteq DOMAIN k
  /\ IsList(k.free) /\ k.kernel_brk \in Int /\ k.short \in Nat
  /\ k.machine \in {"runs", "halted", "crashed", "corrupt"}
  /\ k.taker = "none" \/ k.taker \in who
  /\ Runs(k) => k.taker = "none"

\* Region 1 has the pages it had.
Holds(k, k1) ==
  /\ DOMAIN k1.pgt_r1 = DOMAIN k.pgt_r1
  /\ \A i \in DOMAIN k.pgt_r1 : k1.pgt_r1[i] = NoFrame => k.pgt_r1[i] = NoFrame

LEMMA ListFacts ==
  ASSUME NEW s, IsList(s)
  PROVE  /\ Len(s) \in Nat /\ DOMAIN s = 1..Len(s)
         /\ \A n \in 0..Len(s) :
              /\ IsList(SubSeq(s, 1, n)) /\ Len(SubSeq(s, 1, n)) = n
              /\ IsList(SubSeq(s, n + 1, Len(s))) /\ Len(SubSeq(s, n + 1, Len(s))) = Len(s) - n
<1> PICK S : s \in Seq(S)
  BY DEF IsList
<1>1. Len(s) \in Nat /\ DOMAIN s = 1..Len(s) /\ \A i \in 1..Len(s) : s[i] \in S
  BY LenProperties, ElementOfSeq
<1> SUFFICES ASSUME NEW n \in 0..Len(s)
             PROVE  /\ SubSeq(s, 1, n) \in Seq(S) /\ Len(SubSeq(s, 1, n)) = n
                    /\ SubSeq(s, n + 1, Len(s)) \in Seq(S)
                    /\ Len(SubSeq(s, n + 1, Len(s))) = Len(s) - n
  BY <1>1 DEF IsList
<1> DEFINE l == Len(s)
           b == Len(SubSeq(s, n + 1, l))
<1>2. SubSeq(s, 1, n) \in Seq(S) /\ Len(SubSeq(s, 1, n)) = n
  <2>1. \A i \in 1..n : s[i] \in S
    BY <1>1
  <2> QED BY <1>1, <2>1, SubSeqProperties
<1>3. SubSeq(s, n + 1, l) \in Seq(S) /\ b = IF n + 1 <= l THEN l - (n + 1) + 1 ELSE 0
  <2>1. \A i \in (n + 1)..Len(s) : s[i] \in S
    BY <1>1
  <2> QED BY <1>1, <2>1, SubSeqProperties
<1>4. l \in Nat /\ n \in 0..l
  BY <1>1
<1> HIDE DEF l, b
<1>5. b = l - n
  BY <1>3, <1>4
<1> QED BY <1>2, <1>3, <1>5 DEF l, b

LEMMA PushedList ==
  ASSUME NEW s, IsList(s), NEW t, IsList(t)
  PROVE  IsList(Reverse(s) \o t) /\ Len(Reverse(s) \o t) = Len(s) + Len(t)
<1> DEFINE r == Reverse(s)
<1>1. PICK S : s \in Seq(S)
  BY DEF IsList
<1>2. PICK T : t \in Seq(T)
  BY DEF IsList
<1>3. r \in Seq(S) /\ Len(r) = Len(s)
  <2>1. Len(s) \in Nat /\ \A i \in 1..Len(s) : s[i] \in S
    BY <1>1, LenProperties, ElementOfSeq
  <2> QED BY <2>1 DEF Reverse
<1> HIDE DEF r
<1>4. r \in Seq(S \cup T) /\ t \in Seq(S \cup T)
  BY <1>2, <1>3, SeqMonotonic
<1>5. r \o t \in Seq(S \cup T) /\ Len(r \o t) = Len(r) + Len(t)
  BY <1>4, ConcatProperties
<1> QED BY <1>3, <1>5 DEF IsList, r

LEMMA FateGrows ==
  ASSUME NEW k, NEW A, NEW B, Fate(k, A), A \subseteq B \/ Runs(k)
  PROVE  Fate(k, B)
BY DEF Fate

LEMMA HoldsOn ==
  ASSUME NEW k, NEW k1, NEW k2, Holds(k, k1), Holds(k1, k2)
  PROVE  Holds(k, k2)
BY DEF Holds

\* As long as the break is where it was there are no more pages to fill.
LEMMA LessToFill ==
  ASSUME NEW k, NEW k1, Holds(k, k1), k1.kernel_brk = k.kernel_brk, k.kernel_brk \in Int
  PROVE  /\ Cardinality(PagesToFill(k1)) \in Nat /\ Cardinality(PagesToFill(k)) \in Nat
         /\ Cardinality(PagesToFill(k1)) <= Cardinality(PagesToFill(k))
<1> DEFINE kb == k.kernel_brk
<1>1. IsFiniteSet({kb, kb + 1})
  <2> DEFINE kc == kb + 1
  <2>1. kb \in Int /\ kc \in Int /\ {kb, kc} = kb..kc
    OBVIOUS
  <2> HIDE DEF kb, kc
  <2>2. IsFiniteSet(kb..kc)
    BY <2>1, FS_Interval
  <2> QED BY <2>1, <2>2 DEF kc
<1>2. PagesToFill(k) \subseteq {kb, kb + 1} /\ PagesToFill(k1) \subseteq PagesToFill(k)
  BY DEF PagesToFill, Holds
<1>3. IsFiniteSet(PagesToFill(k))
  BY <1>1, <1>2, FS_Subset
<1> QED BY <1>2, <1>3, FS_Subset, FS_CardinalityType

LEMMA AllocateFate ==
  ASSUME NEW who, NEW k, Fate(k, who), NEW n \in Nat, NEW w \in who,
         NEW k1, k1 = AllocateFreePage(k, n, w)
  PROVE  /\ Fate(k1, who) /\ Holds(k, k1) /\ k1.kernel_brk = k.kernel_brk
         /\ k1.pgt_r1 = k.pgt_r1
         /\ Runs(k1) => Runs(k) /\ Len(k1.free) = Len(k.free) - n
         /\ ~Runs(k1) => k1 = k \/ (Runs(k) /\ k1.taker = w /\ k1.short = n - Len(k.free))
<1>1. Len(k.free) \in Nat
  BY ListFacts DEF Fate
<1>2. CASE ~Runs(k)
  BY <1>2 DEF AllocateFreePage, Holds
<1>3. CASE Runs(k) /\ n > Len(k.free)
  <2> DEFINE s == n - Len(k.free)
  <2>1. k1 = [k EXCEPT !.machine = "corrupt", !.taker = w, !.short = s] /\ s \in Nat
    BY <1>1, <1>3 DEF AllocateFreePage
  <2> HIDE DEF s
  <2>2. /\ k1.machine = "corrupt" /\ k1.taker = w /\ k1.short = s /\ k1.free = k.free
        /\ k1.pgt_r1 = k.pgt_r1 /\ k1.kernel_brk = k.kernel_brk /\ DOMAIN k1 = DOMAIN k
    BY <2>1 DEF Fate
  <2> QED BY <1>3, <2>1, <2>2 DEF Fate, Runs, Holds, s
<1>4. CASE Runs(k) /\ ~ (n > Len(k.free))
  <2> DEFINE rest == SubSeq(k.free, n + 1, Len(k.free))
             c == k.count - n
  <2>1. k1 = [k EXCEPT !.free = rest, !.count = c]
    BY <1>4 DEF AllocateFreePage
  <2>2. IsList(rest) /\ Len(rest) = Len(k.free) - n
    BY <1>1, <1>4, ListFacts DEF Fate
  <2> HIDE DEF rest, c
  <2>3. /\ k1.machine = k.machine /\ k1.taker = k.taker /\ k1.short = k.short /\ k1.free = rest
        /\ k1.pgt_r1 = k.pgt_r1 /\ k1.kernel_brk = k.kernel_brk /\ DOMAIN k1 = DOMAIN k
    BY <2>1 DEF Fate
  <2> QED BY <1>4, <2>2, <2>3 DEF Fate, Runs, Holds
<1> QED BY <1>2, <1>3, <1>4

LEMMA GrowFate ==
  ASSUME NEW who, "heap" \in who, NEW k, Fate(k, who), NEW k1, k1 = SetKernelBrk(k)
  PROVE  /\ Fate(k1, who) /\ Holds(k, k1) /\ Cardinality(PagesToFill(k)) \in Nat
         /\ Runs(k1) => /\ k1.kernel_brk = k.kernel_brk + 1 /\ Runs(k)
                        /\ Len(k1.free) = Len(k.free) - Cardinality(PagesToFill(k))
         /\ ~Runs(k1) => k1 = k \/ (Runs(k) /\ k1.taker = "heap")
<1> DEFINE S == PagesToFill(k)
           pages == Ascending(S)
           n == Len(pages)
           ka == AllocateFreePage(k, n, "heap")
           table == Mapped(ka.pgt_r1, pages, Taken(k, n))
<1>1. k1 = IF ~Runs(ka) THEN ka ELSE [ka EXCEPT !.kernel_brk = ka.kernel_brk + 1, !.pgt_r1 = table]
  BY DEF SetKernelBrk
<1>2. n = Cardinality(S) /\ n \in Nat /\ Range(pages) = S
  <2> DEFINE kb == k.kernel_brk
             kc == kb + 1
  <2>1. S \subseteq kb..kc /\ kb \in Int /\ kc \in Int
    BY DEF PagesToFill, Fate
  <2> HIDE DEF S, kb, kc
  <2>2. IsFiniteSet(kb..kc) /\ S \in SUBSET Int
    BY <2>1, FS_Interval
  <2>3. IsFiniteSet(S)
    BY <2>1, <2>2, FS_Subset
  <2> QED BY <2>2, <2>3, AscendingLists, FS_CardinalityType DEF Lists
<1> HIDE DEF n
<1>3. /\ Fate(ka, who) /\ ka.kernel_brk = k.kernel_brk /\ ka.pgt_r1 = k.pgt_r1 /\ Holds(k, ka)
      /\ Runs(ka) => Runs(k) /\ Len(ka.free) = Len(k.free) - n
      /\ ~Runs(ka) => ka = k \/ (Runs(k) /\ ka.taker = "heap")
  BY <1>2, AllocateFate
<1>4. /\ DOMAIN table = DOMAIN k.pgt_r1
      /\ \A i \in DOMAIN k.pgt_r1 : table[i] = NoFrame => k.pgt_r1[i] = NoFrame
  BY <1>2, <1>3 DEF Mapped, PagesToFill
<1> HIDE DEF ka, table, pages, S
<1>5. CASE ~Runs(ka)
  BY <1>1, <1>2, <1>3, <1>5 DEF S
<1>6. CASE Runs(ka)
  <2> DEFINE kb == ka.kernel_brk + 1
  <2>1. k1 = [ka EXCEPT !.kernel_brk = kb, !.pgt_r1 = table] /\ kb \in Int
    BY <1>1, <1>6, <1>3 DEF Fate
  <2> HIDE DEF kb
  <2>2. /\ k1.machine = ka.machine /\ k1.taker = ka.taker /\ k1.short = ka.short
        /\ k1.free = ka.free /\ k1.pgt_r1 = table /\ k1.kernel_brk = kb /\ DOMAIN k1 = DOMAIN ka
    BY <1>3, <2>1 DEF Fate
  <2>3. Fate(k1, who) /\ Runs(k1)
    BY <1>3, <1>6, <2>1, <2>2 DEF Fate, Runs
  <2> QED BY <1>2, <1>3, <1>4, <1>6, <2>2, <2>3 DEF Holds, S, kb
<1> QED BY <1>5, <1>6

LEMMA MallocFate ==
  ASSUME NEW who, "heap" \in who, NEW k, Fate(k, who), Runs(k), NEW k1 \in Malloc(k)
  PROVE  /\ Fate(k1, who) /\ Holds(k, k1)
         /\ Runs(k1) => k1 = k \/ k1.kernel_brk = k.kernel_brk + 1
<1>1. CASE k1 = k
  BY <1>1 DEF Holds
<1>2. CASE k1 = SetKernelBrk(k)
  BY <1>2, GrowFate
<1>3. CASE k1 = [k EXCEPT !.machine = "crashed"]
  <2>1. /\ k1.machine = "crashed" /\ k1.taker = k.taker /\ k1.short = k.short /\ k1.free = k.free
        /\ k1.pgt_r1 = k.pgt_r1 /\ k1.kernel_brk = k.kernel_brk /\ DOMAIN k1 = DOMAIN k
    BY <1>3 DEF Fate
  <2> QED BY <2>1 DEF Fate, Runs, Holds
<1> QED BY <1>1, <1>2, <1>3 DEF Malloc

LEMMA EnqueueFate ==
  ASSUME NEW who, "heap" \in who, NEW k, Fate(k, who), NEW k1 \in Enqueue(k)
  PROVE  /\ Fate(k1, who) /\ Holds(k, k1)
         /\ Runs(k1) => \/ k1 = k
                        \/ /\ k.kernel_brk = mem.kernel_brk /\ Cardinality(PagesToFill(k)) \in Nat
                           /\ k1.kernel_brk = k.kernel_brk + 1
                           /\ Len(k1.free) = Len(k.free) - Cardinality(PagesToFill(k))
         /\ ~Runs(k1) => k1 = k \/ k1.taker = "heap"
<1>1. CASE k1 = k
  BY <1>1 DEF Holds
<1>2. CASE ~HasGrown(k) /\ k1 = SetKernelBrk(k)
  <2>1. k.kernel_brk = mem.kernel_brk
    BY <1>2 DEF HasGrown
  <2> QED BY <1>2, <2>1, GrowFate
<1> QED BY <1>1, <1>2 DEF Enqueue

\* The frames of some pages, in a list.
LEMMA FrameList ==
  ASSUME NEW table, DOMAIN table = Page, NEW S, S \subseteq Page
  PROVE  IsList(FramesAt(table, S)) /\ Len(FramesAt(table, S)) = Cardinality(S)
<1> DEFINE pages == Ascending(S)
           T == {table[pages[n]] : n \in 1..Len(pages)}
<1>1. Len(pages) = Cardinality(S) /\ Cardinality(S) \in Nat
  BY PagesListed
<1>2. FramesAt(table, S) = [n \in 1..Len(pages) |-> table[pages[n]]]
  BY DEF FramesAt
<1> HIDE DEF pages
<1>3. FramesAt(table, S) \in Seq(T) /\ Len(FramesAt(table, S)) = Len(pages)
  BY <1>1, <1>2
<1> QED BY <1>1, <1>3 DEF IsList

LEMMA PushedFate ==
  ASSUME NEW who, NEW k, Fate(k, who), NEW frames, IsList(frames), NEW k1, k1 = Pushed(k, frames)
  PROVE  /\ Fate(k1, who) /\ Len(k1.free) = Len(k.free) + Len(frames)
         /\ k1.machine = k.machine /\ k1.pgt_r1 = k.pgt_r1 /\ k1.kernel_brk = k.kernel_brk
         /\ k1.taker = k.taker /\ DOMAIN k1 = DOMAIN k
<1> DEFINE both == Reverse(frames) \o k.free
           c == k.count + Len(frames)
<1>1. k1 = [k EXCEPT !.free = both, !.count = c]
  BY DEF Pushed
<1>2. IsList(both) /\ Len(both) = Len(frames) + Len(k.free)
      /\ Len(frames) \in Nat /\ Len(k.free) \in Nat
  BY PushedList, ListFacts DEF Fate
<1> HIDE DEF both, c
<1>3. /\ k1.machine = k.machine /\ k1.taker = k.taker /\ k1.short = k.short /\ k1.free = both
      /\ k1.pgt_r1 = k.pgt_r1 /\ k1.kernel_brk = k.kernel_brk /\ DOMAIN k1 = DOMAIN k
  BY <1>1 DEF Fate
<1> QED BY <1>2, <1>3 DEF Fate, Runs

LEMMA FreeFate ==
  ASSUME NEW who, "heap" \in who, NEW k, Fate(k, who), Runs(k), NEW frames, IsList(frames),
         NEW grow \in 0..Len(frames), NEW k1, k1 = FreePhysicalPage(k, frames, grow)
  PROVE  /\ Fate(k1, who)
         /\ Runs(k1) => /\ grow = 0 => Len(k1.free) = Len(k.free) + Len(frames)
                        /\ grow # 0 => Len(k1.free) =
                                         Len(k.free) + Len(frames) - Cardinality(PagesToFill(k))
         /\ ~Runs(k1) => k1.taker \in {"heap", "none"}
<1> DEFINE front == SubSeq(frames, 1, grow - 1)
           back  == SubSeq(frames, grow, Len(frames))
           before == Pushed(k, front)
           grown  == SetKernelBrk(before)
<1>1. CASE grow = 0
  <2>1. k1 = Pushed(k, frames)
    BY <1>1 DEF FreePhysicalPage
  <2> QED BY <1>1, <2>1, PushedFate DEF Runs
<1>2. CASE grow # 0
  <2>1. /\ IsList(front) /\ Len(front) = grow - 1 /\ IsList(back)
        /\ Len(back) = Len(frames) - (grow - 1)
    <3> DEFINE m == grow - 1
    <3>1. m \in 0..Len(frames) /\ m + 1 = grow /\ m = grow - 1
      BY <1>2, ListFacts
    <3> HIDE DEF m
    <3>2. /\ IsList(SubSeq(frames, 1, m)) /\ Len(SubSeq(frames, 1, m)) = m
          /\ IsList(SubSeq(frames, m + 1, Len(frames)))
          /\ Len(SubSeq(frames, m + 1, Len(frames))) = Len(frames) - m
      BY <3>1, ListFacts
    <3> QED BY <3>1, <3>2
  <2>2. k1 = IF ~CanGrow(before) THEN [before EXCEPT !.machine = "halted"]
             ELSE IF ~Runs(grown) THEN grown ELSE Pushed(grown, back)
    BY <1>2 DEF FreePhysicalPage
  <2> HIDE DEF front, back
  <2>3. /\ Fate(before, who) /\ Len(before.free) = Len(k.free) + Len(front) /\ Runs(before)
        /\ before.taker = "none" /\ PagesToFill(before) = PagesToFill(k)
    <3>1. /\ Fate(before, who) /\ Len(before.free) = Len(k.free) + Len(front)
          /\ before.machine = k.machine /\ before.pgt_r1 = k.pgt_r1
          /\ before.kernel_brk = k.kernel_brk /\ before.taker = k.taker
      <4>1. before = Pushed(k, front)
        OBVIOUS
      <4> HIDE DEF before
      <4>2. IsList(front) /\ Fate(k, who)
        BY <2>1
      <4> QED BY ONLY <4>1, <4>2, PushedFate
    <3> HIDE DEF before
    <3> QED BY <3>1 DEF Runs, Fate, PagesToFill
  <2> HIDE DEF before
  <2>4. /\ Fate(grown, who) /\ Cardinality(PagesToFill(k)) \in Nat
        /\ Runs(grown) => Len(grown.free) = Len(before.free) - Cardinality(PagesToFill(k))
        /\ ~Runs(grown) => grown = before \/ grown.taker = "heap"
    BY <2>3, GrowFate
  <2> HIDE DEF grown
  <2>5. CASE ~CanGrow(before)
    <3>1. k1 = [before EXCEPT !.machine = "halted"]
      BY <2>2, <2>5
    <3>2. /\ k1.machine = "halted" /\ k1.taker = "none" /\ k1.short = before.short
          /\ k1.free = before.free /\ k1.kernel_brk = before.kernel_brk
          /\ DOMAIN k1 = DOMAIN before
      BY <2>3, <3>1 DEF Fate
    <3> QED BY <2>3, <3>2 DEF Fate, Runs
  <2>6. CASE CanGrow(before) /\ ~Runs(grown)
    BY <2>2, <2>3, <2>4, <2>6
  <2>7. CASE CanGrow(before) /\ Runs(grown)
    <3>1. k1 = Pushed(grown, back)
      BY <2>2, <2>7
    <3>2. Fate(k1, who) /\ Len(k1.free) = Len(grown.free) + Len(back) /\ k1.machine = grown.machine
      <4>1. IsList(back) /\ Fate(grown, who)
        BY <2>1, <2>4
      <4> QED BY ONLY <3>1, <4>1, PushedFate
    <3>3. Len(k.free) \in Nat /\ Len(frames) \in Nat
      BY ListFacts DEF Fate
    <3> DEFINE c == Cardinality(PagesToFill(k))
               l1 == Len(k1.free)
               l == Len(k.free)
               f == Len(frames)
    <3>4. /\ l1 = l + (grow - 1) - c + (f - (grow - 1)) /\ l \in Nat /\ f \in Nat /\ c \in Nat
          /\ grow \in Nat
      <4>1. Len(before.free) = l + (grow - 1) /\ Len(back) = f - (grow - 1)
        BY <2>1, <2>3
      <4>2. Len(grown.free) = Len(before.free) - c /\ l1 = Len(grown.free) + Len(back) /\ c \in Nat
        BY <2>4, <2>7, <3>2
      <4> HIDE DEF l1, l, f, c
      <4>3. l \in Nat /\ f \in Nat /\ grow \in Nat
        BY <3>3 DEF l, f
      <4> QED BY <4>1, <4>2, <4>3
    <3> HIDE DEF l1, l, f, c
    <3>5. l1 = l + f - c
      BY <3>4
    <3> QED BY <1>2, <2>7, <3>2, <3>5 DEF Runs, c, l1, l, f
  <2> QED BY <2>5, <2>6, <2>7
<1> QED BY <1>1, <1>2

LEMMA TableFate ==
  ASSUME NEW who, "table" \in who, NEW k, Fate(k, who), NEW k2, k2 = AllocateRegion0PageTable(k).k
  PROVE  Fate(k2, who) /\ Holds(k, k2)
<1> DEFINE one == 1
           k1 == AllocateFreePage(k, one, "table")
           a  == k.addr_next_pgt_r0
           f  == Head(k.free)
           b  == a - 1
           kh == [k EXCEPT !.is_half_used = FALSE, !.addr_next_pgt_r0 = b]
           kt == [k1 EXCEPT !.is_half_used = TRUE, !.pgt_r1[a] = f]
<1>1. /\ k2 \in {k, kh, kt, k1}
      /\ k2 = kt => k2 \in {k, kh, k1} \/ (~k.is_half_used /\ TableFits(k))
  BY DEF AllocateRegion0PageTable
<1>2. Fate(k1, who) /\ Holds(k, k1) /\ k1.pgt_r1 = k.pgt_r1
  <2>1. one \in Nat
    OBVIOUS
  <2> HIDE DEF one
  <2> QED BY <2>1, AllocateFate
<1> HIDE DEF k1, b, f
<1>3. Fate(kh, who) /\ Holds(k, kh)
  <2> DEFINE kk == kh
  <2>1. /\ kk.machine = k.machine /\ kk.taker = k.taker /\ kk.short = k.short /\ kk.free = k.free
        /\ kk.pgt_r1 = k.pgt_r1 /\ kk.kernel_brk = k.kernel_brk /\ DOMAIN kk = DOMAIN k
    BY DEF Fate
  <2> HIDE DEF kk
  <2>2. Fate(kk, who) /\ Holds(k, kk)
    BY <2>1 DEF Fate, Runs, Holds
  <2> QED BY <2>2 DEF kk
<1>4. Fate(kt, who) /\ (~k.is_half_used /\ TableFits(k) => Holds(k, kt))
  <2> DEFINE kk == kt
             table == [k1.pgt_r1 EXCEPT ![a] = f]
  <2>1. /\ kk.machine = k1.machine /\ kk.taker = k1.taker /\ kk.short = k1.short
        /\ kk.free = k1.free /\ kk.kernel_brk = k1.kernel_brk /\ DOMAIN kk = DOMAIN k1
        /\ kk.pgt_r1 = table
    BY <1>2 DEF Fate
  <2>2. ~k.is_half_used /\ TableFits(k) =>
          /\ DOMAIN table = DOMAIN k.pgt_r1
          /\ \A i \in DOMAIN k.pgt_r1 : table[i] = NoFrame => k.pgt_r1[i] = NoFrame
    BY <1>2 DEF TableFits
  <2> HIDE DEF kk, table
  <2>3. Fate(kk, who) /\ (~k.is_half_used /\ TableFits(k) => Holds(k, kk))
    BY <1>2, <2>1, <2>2 DEF Fate, Runs, Holds
  <2> QED BY <2>3 DEF kk
<1>5. Holds(k, k)
  BY DEF Holds
<1> HIDE DEF kh, kt
<1> QED BY <1>1, <1>2, <1>3, <1>4, <1>5

LEMMA CreatedFate ==
  ASSUME NEW who, {"table", "heap"} \subseteq who, NEW k, Fate(k, who), Runs(k),
         NEW made \in CreatePCB(k)
  PROVE  Fate(made.k, who) /\ Holds(k, made.k)
<1> DEFINE plain == AllocateRegion0PageTable(k)
           grown == SetKernelBrk(k)
           late  == SetKernelBrk(plain.k)
           crash == [k EXCEPT !.machine = "crashed"]
           after == AllocateRegion0PageTable(grown).k
<1>1. made.k \in {plain.k, grown, after, crash, late}
  BY DEF CreatePCB
<1>2. Fate(plain.k, who) /\ Holds(k, plain.k) /\ Fate(grown, who) /\ Holds(k, grown)
  BY TableFate, GrowFate
<1>3. Fate(late, who) /\ Holds(plain.k, late)
  BY <1>2, GrowFate
<1>4. Fate(after, who) /\ Holds(grown, after)
  BY <1>2, TableFate
<1>5. Fate(crash, who) /\ Holds(k, crash)
  <2> DEFINE kk == crash
  <2>1. /\ kk.machine = "crashed" /\ kk.taker = k.taker /\ kk.short = k.short /\ kk.free = k.free
        /\ kk.pgt_r1 = k.pgt_r1 /\ kk.kernel_brk = k.kernel_brk /\ DOMAIN kk = DOMAIN k
    BY DEF Fate
  <2> HIDE DEF kk
  <2>2. Fate(kk, who) /\ Holds(k, kk)
    BY <2>1 DEF Fate, Runs, Holds
  <2> QED BY <2>2 DEF kk
<1> HIDE DEF plain, grown, late, crash, after
<1> QED BY <1>1, <1>2, <1>3, <1>4, <1>5, HoldsOn

LEMMA NotedFate ==
  ASSUME NEW who, Fate(mem, {}), NEW k, Fate(k, who), ~Runs(k), mem' = Noted(k)
  PROVE  Fate(mem', who) /\ mem'.taker = k.taker /\ mem'.short = k.short
<1>1. /\ mem'.machine = k.machine /\ mem'.taker = k.taker /\ mem'.short = k.short
      /\ mem'.free = mem.free /\ mem'.kernel_brk = mem.kernel_brk /\ DOMAIN mem' = DOMAIN mem
  BY DEF Fate, Noted
<1> QED BY <1>1 DEF Fate, Runs

LEMMA EndFate ==
  ASSUME Fate(mem, {}), NEW k, Fate(k, Unpromised), Runs(k),
         NEW p, NEW table, DOMAIN table = Page, Ends(p, k, table)
  PROVE  Fate(mem', Unpromised)
<1> DEFINE S == PagesToFree(table)
           frames == FramesAt(table, S)
<1>1. S \subseteq Page
  BY DEF PagesToFree, Valid
<1>2. IsList(frames) /\ Len(frames) = Cardinality(S) /\ Cardinality(S) \in Nat
  BY <1>1, FrameList, PagesListed
<1>3. "heap" \in Unpromised
  BY DEF Unpromised
<1>4. PICK k1 \in Malloc(k) : Stops(k1) \/ (Runs(k1) /\ TerminateProcess(p, k1, table))
  BY DEF Ends
<1>5. Fate(k1, Unpromised)
  BY <1>3, MallocFate
<1>6. CASE Stops(k1)
  BY <1>5, <1>6, NotedFate DEF Stops
<1>7. CASE Runs(k1) /\ TerminateProcess(p, k1, table)
  <2> DEFINE freed(grow) == FreePhysicalPage(k1, frames, grow)
  <2>1. PICK grow \in GrowAt(k1, Cardinality(S)) :
          \/ Stops(freed(grow))
          \/ /\ Runs(freed(grow))
             /\ mem' = [freed(grow) EXCEPT !.machine = IF live = {p} THEN "halted" ELSE @]
    BY <1>7 DEF TerminateProcess
  <2> DEFINE k2 == freed(grow)
  <2>2. grow \in 0..Len(frames)
    BY <1>2 DEF GrowAt
  <2> HIDE DEF frames
  <2>3. Fate(k2, Unpromised)
    BY <1>2, <1>3, <1>5, <1>7, <2>2, FreeFate
  <2>a. \/ Stops(k2)
        \/ Runs(k2) /\ mem' = [k2 EXCEPT !.machine = IF live = {p} THEN "halted" ELSE @]
    BY <2>1
  <2> HIDE DEF k2
  <2>4. CASE Stops(k2)
    BY <2>3, <2>4, NotedFate DEF Stops
  <2>5. CASE Runs(k2) /\ mem' = [k2 EXCEPT !.machine = IF live = {p} THEN "halted" ELSE @]
    <3>1. /\ mem'.machine \in {"halted", "runs"} /\ mem'.taker = "none" /\ mem'.short = k2.short
          /\ mem'.free = k2.free /\ mem'.kernel_brk = k2.kernel_brk /\ DOMAIN mem' = DOMAIN k2
      BY <2>3, <2>5 DEF Fate, Runs
    <3> QED BY <2>3, <3>1 DEF Fate
  <2> QED BY <2>a, <2>4, <2>5
<1> QED BY <1>4, <1>6, <1>7

\* The counts cover what the one who ran off the list wanted.
Covers(k) ==
  /\ k.taker \in {"brk", "stack"} /\ mem.count # -1 => k.short < HighFrames
  /\ k.taker \in {"copy", "load"} => k.short < HighFrames + Cardinality(PagesToFill(mem))

Covered == Fate(mem', Takers) /\ Covers(mem')

LEMMA UnpromisedCovered ==
  ASSUME Fate(mem', Unpromised)
  PROVE  Covered
BY DEF Fate, Unpromised, Takers, Covered, Covers

LEMMA NotedCovered ==
  ASSUME Fate(mem, {}), NEW k, Fate(k, Takers), Covers(k), ~Runs(k), mem' = Noted(k)
  PROVE  Covered
<1>1. Fate(mem', Takers) /\ mem'.taker = k.taker /\ mem'.short = k.short
  BY NotedFate
<1> QED BY <1>1 DEF Covered, Covers

\* n frames are promised by the count, and there are not as many.
LEMMA AskedCovered ==
  ASSUME MemInv, Fate(mem, {}), NEW n \in Nat, n <= Unsigned(mem.count), NEW w \in {"brk", "stack"},
         NEW k1, k1 = AllocateFreePage(mem, n, w), (~Runs(k1) /\ mem' = Noted(k1)) \/ mem' = k1
  PROVE  Covered
<1>1. w \in Takers /\ Fate(mem, Takers)
  BY FateGrows DEF Takers
<1>2. /\ Fate(k1, Takers)
      /\ ~Runs(k1) => k1 = mem \/ (Runs(mem) /\ k1.taker = w /\ k1.short = n - Len(mem.free))
  BY <1>1, AllocateFate
<1>3. mem.taker = "none"
  BY DEF Fate
<1>4. CASE Runs(k1)
  <2>1. k1.taker = "none"
    BY <1>2, <1>4 DEF Fate
  <2> QED BY <1>2, <1>4, <2>1 DEF Covered, Covers
<1>5. CASE ~Runs(k1)
  <2>1. Covers(k1)
    <3>1. CASE k1 = mem
      BY <1>3, <3>1 DEF Covers
    <3>2. CASE k1.taker = w /\ k1.short = n - Len(mem.free)
      <4> SUFFICES ASSUME mem.count # -1 PROVE n - Len(mem.free) < HighFrames
        BY <3>2 DEF Covers
      <4> DEFINE l == Len(mem.free)
      <4>1. mem.count = l + HighFrames - 1 /\ l \in Nat /\ mem.count \in Nat
        <5>1. KernelSound(mem)
          BY DEF MemInv, Sound
        <5>2. l \in Nat /\ mem.count = l + HighFrames - 1
          BY <5>1, LenProperties DEF KernelSound, KernelRecord
        <5> HIDE DEF l
        <5> QED BY <5>2, Numbers
      <4> HIDE DEF l
      <4>2. Unsigned(mem.count) <= mem.count /\ Unsigned(mem.count) \in Int
        <5>1. \A x \in Nat, m \in Nat \ {0} : x % m <= x /\ x % m \in Int
          BY Z3
        <5>2. UintSize \in Nat \ {0}
          BY MemoryAssumption, Numbers
        <5> QED BY <4>1, <5>1, <5>2 DEF Unsigned
      <4>3. n - l < HighFrames
        BY <4>1, <4>2, Numbers
      <4> QED BY <4>3 DEF l
    <3> QED BY <1>2, <1>5, <3>1, <3>2
  <2> QED BY <1>2, <1>5, <2>1, NotedCovered DEF Covered, Covers
<1> QED BY <1>4, <1>5

\* What Fork copies, where the heap may grow before the kernel stack.
LEMMA CopyCovered ==
  ASSUME MemInv, Fate(mem, {}), NEW p \in live, NEW k, Runs(k), KernelSound(k),
         Fate(k, Unpromised), Holds(mem, k), PagesNeeded(p) <= k.count,
         ForkCopies(p, pid_counter, k)
  PROVE  Covered
<1> DEFINE u == Cardinality(UserPages(p))
           s == Cardinality(StackPages(p))
           l == Len(k.free)
           g == Cardinality(PagesToFill(mem))
           k1 == AllocateFreePage(k, u, "copy")
           last(k2) == AllocateFreePage(k2, s, "copy")
<1>1. u \in Nat /\ s \in Nat /\ PagesNeeded(p) = u + s
  <2>1. UserPages(p) \subseteq Page /\ StackPages(p) \subseteq Page
    BY AtWork DEF UserPages, StackPages, Valid
  <2>2. UserPages(p) \cap StackPages(p) = {} /\ Valid(pgt_r0[p]) = UserPages(p) \cup StackPages(p)
    BY DEF UserPages, StackPages
  <2>3. IsFiniteSet(UserPages(p)) /\ IsFiniteSet(StackPages(p)) /\ u \in Nat /\ s \in Nat
    BY <2>1, PagesListed
  <2>4. Cardinality(UserPages(p) \cap StackPages(p)) = 0
    BY <2>2, FS_EmptySet
  <2>5. Cardinality(UserPages(p) \cup StackPages(p)) =
          u + s - Cardinality(UserPages(p) \cap StackPages(p))
    BY <2>3, FS_Union
  <2> QED BY <2>2, <2>3, <2>4, <2>5 DEF PagesNeeded
<1>2. l \in Nat /\ u + s <= l + HighFrames - 1
  <2>1. l \in Nat
    BY LenProperties DEF KernelSound, KernelRecord
  <2>2. k.count = l + HighFrames - 1
    BY DEF KernelSound
  <2> HIDE DEF u, s, l
  <2> QED BY <1>1, <2>1, <2>2
<1>3. g \in Nat
  BY LessToFill DEF Holds, Fate
<1>4. PICK k2 \in Enqueue(k1) : Stops(last(k2)) \/ (Runs(last(k2)) /\ mem' = last(k2))
  BY DEF ForkCopies
<1> DEFINE k3 == last(k2)
<1>5. Fate(k, Takers) /\ "copy" \in Takers /\ "heap" \in Takers
  BY FateGrows DEF Takers
<1> HIDE DEF u, s
<1>6. /\ Fate(k1, Takers) /\ Holds(k, k1)
      /\ Runs(k1) => Len(k1.free) = l - u
      /\ ~Runs(k1) => k1.taker = "copy" /\ k1.short = u - l
  BY <1>1, <1>5, AllocateFate
<1>7. /\ Fate(k2, Takers)
      /\ Runs(k2) => \/ k2 = k1
                     \/ /\ k1.kernel_brk = mem.kernel_brk /\ Cardinality(PagesToFill(k1)) \in Nat
                        /\ Len(k2.free) = Len(k1.free) - Cardinality(PagesToFill(k1))
      /\ ~Runs(k2) => k2 = k1 \/ k2.taker = "heap"
  BY <1>5, <1>6, EnqueueFate
<1>8. /\ Fate(k3, Takers)
      /\ Runs(k3) => k3.taker = "none"
      /\ ~Runs(k3) => k3 = k2 \/ (Runs(k2) /\ k3.taker = "copy" /\ k3.short = s - Len(k2.free))
  <2>1. /\ Fate(k3, Takers)
        /\ ~Runs(k3) => k3 = k2 \/ (Runs(k2) /\ k3.taker = "copy" /\ k3.short = s - Len(k2.free))
    <3>1. k3 = AllocateFreePage(k2, s, "copy") /\ s \in Nat /\ Fate(k2, Takers)
      BY <1>1, <1>7
    <3> HIDE DEF k3
    <3> QED BY ONLY <1>5, <3>1, AllocateFate
  <2> HIDE DEF k3
  <2> QED BY <2>1 DEF Fate
<1>9. Stops(k3) \/ (Runs(k3) /\ mem' = k3)
  BY <1>4
<1> HIDE DEF k1, k3
<1>10. Runs(k2) => Runs(k1)
  <2>1. k2 = k1 \/ k2 = SetKernelBrk(k1)
    BY <1>4 DEF Enqueue
  <2> QED BY <2>1, GrowRuns
<1>11. Runs(k2) => Len(k2.free) \in Int /\ Len(k2.free) >= l - u - g
  <2> SUFFICES ASSUME Runs(k2) PROVE Len(k2.free) \in Int /\ Len(k2.free) >= l - u - g
    OBVIOUS
  <2>1. Len(k1.free) = l - u
    BY <1>6, <1>10
  <2>2. CASE k2 = k1
    <3> HIDE DEF l, g
    <3> QED BY <1>1, <1>2, <1>3, <2>1, <2>2
  <2>3. CASE /\ k1.kernel_brk = mem.kernel_brk /\ Cardinality(PagesToFill(k1)) \in Nat
             /\ Len(k2.free) = Len(k1.free) - Cardinality(PagesToFill(k1))
    <3>1. Holds(mem, k1) /\ mem.kernel_brk \in Int
      BY <1>6, HoldsOn DEF Fate
    <3>2. Cardinality(PagesToFill(k1)) <= g
      BY <2>3, <3>1, LessToFill
    <3> HIDE DEF l, g
    <3> QED BY <1>1, <1>2, <1>3, <2>1, <2>3, <3>2
  <2> QED BY <1>7, <2>2, <2>3
<1>12. Covers(k3)
  <2>1. CASE k3.taker \in {"none", "heap"}
    BY <2>1 DEF Covers
  <2>2. CASE k3.taker = "copy" /\ k3.short = u - l
    <3> HIDE DEF l, g
    <3>1. k3.short < HighFrames + g
      BY <1>1, <1>2, <1>3, <2>2, Numbers
    <3> QED BY <2>2, <3>1 DEF Covers, g
  <2>3. CASE Runs(k2) /\ k3.taker = "copy" /\ k3.short = s - Len(k2.free)
    <3> HIDE DEF l, g
    <3> DEFINE l2 == Len(k2.free)
    <3>1. l2 \in Int /\ l2 >= l - u - g /\ k3.short = s - l2
      BY <1>11, <2>3
    <3> HIDE DEF l2
    <3>2. k3.short < HighFrames + g
      BY <1>1, <1>2, <1>3, <3>1, Numbers
    <3> QED BY <2>3, <3>2 DEF Covers, g
  <2> QED BY <1>6, <1>7, <1>8, <2>1, <2>2, <2>3
<1>13. CASE Stops(k3)
  BY <1>8, <1>12, <1>13, NotedCovered DEF Stops
<1>14. CASE Runs(k3) /\ mem' = k3
  BY <1>8, <1>12, <1>14 DEF Covered, Covers
<1> QED BY <1>9, <1>13, <1>14

LEMMA ForkCovered ==
  ASSUME MemInv, Fate(mem, {}), NEW p \in Pid, HandleFork(p)
  PROVE  Covered
<1>1. Fate(mem, Unpromised) /\ Runs(mem) /\ p \in live /\ KernelSound(mem)
      /\ {"table", "heap"} \subseteq Unpromised
  BY FateGrows, AtWork DEF HandleFork, Unpromised
<1>2. PICK made \in CreatePCB(mem) :
        \/ Stops(made.k) \/ Refused(made.k)
        \/ \E k \in Enqueue(made.k) :
             \/ Stops(k) \/ Refused(k)
             \/ Runs(k) /\ PagesNeeded(p) <= k.count /\ ForkCopies(p, pid_counter, k)
  BY DEF HandleFork, ForkRefused
<1>3. Fate(made.k, Unpromised) /\ Holds(mem, made.k)
  BY <1>1, CreatedFate
<1>4. ASSUME NEW k, Fate(k, Unpromised), Stops(k) \/ Refused(k) PROVE Covered
  <2>1. Fate(mem', Unpromised)
    BY <1>4, NotedFate DEF Stops, Refused
  <2> QED BY <2>1, UnpromisedCovered
<1>5. ASSUME NEW k \in Enqueue(made.k), Runs(k), PagesNeeded(p) <= k.count,
             ForkCopies(p, pid_counter, k)
      PROVE  Covered
  <2>1. Fate(k, Unpromised) /\ Holds(made.k, k)
    BY <1>1, <1>3, EnqueueFate
  <2>2. Runs(made.k)
    BY <1>5, GrowRuns DEF Enqueue
  <2>3. KernelSound(made.k)
    BY <1>1, <2>2, CreatedFacts
  <2>4. KernelSound(k)
    BY <1>5, <2>3, EnqueueFacts
  <2>5. Holds(mem, k)
    BY <1>3, <2>1, HoldsOn
  <2> QED BY <1>1, <1>5, <2>1, <2>4, <2>5, CopyCovered
<1>6. ASSUME NEW k \in Enqueue(made.k) PROVE Fate(k, Unpromised)
  BY <1>1, <1>3, EnqueueFate
<1> QED BY <1>2, <1>3, <1>4, <1>5, <1>6

LEMMA StackCovered ==
  ASSUME MemInv, Fate(mem, {}), NEW p \in live, NEW x \in Page, InStackReach(p, x),
         StackGrows(p, x)
  PROVE  Covered
<1> DEFINE n == uStack_bottom[p] - x
           k1 == AllocateFreePage(mem, n, "stack")
<1>1. n \in Nat /\ n <= Unsigned(mem.count)
  BY AtWork, Numbers DEF InStackReach, Page
<1>2. (~Runs(k1) /\ mem' = Noted(k1)) \/ mem' = k1
  BY DEF StackGrows, Stops, CutShort
<1> HIDE DEF n
<1> QED BY <1>1, <1>2, AskedCovered

LEMMA BrkCovered ==
  ASSUME MemInv, Fate(mem, {}), NEW p \in live, NEW new \in Page, HandleBrk(p, new)
  PROVE  Covered
<1>1. Fate(mem, Unpromised) /\ "heap" \in Unpromised /\ Runs(mem)
  BY FateGrows DEF Unpromised, HandleBrk
<1>2. CASE mem' = mem
  BY <1>1, <1>2, UnpromisedCovered
<1>3. CASE ~BrkRefused(p, new) /\ BrkUp(p, new)
  <2> DEFINE n == new - brk[p]
             k1 == AllocateFreePage(mem, n, "brk")
  <2>1. n \in Nat /\ n \in Page
    BY <1>3, AtWork, Numbers DEF BrkUp, Page
  <2>2. n <= Unsigned(mem.count)
    <3>1. ~ (Unsigned(n) > Unsigned(mem.count)) /\ Unsigned(n) = n
      BY <1>3, <2>1, UnsignedFacts DEF BrkRefused
    <3>2. Unsigned(mem.count) \in Int
      <4>1. mem.count \in Int
        BY DEF MemInv, Sound, KernelSound, KernelRecord
      <4>2. \A y \in Int, m \in Nat \ {0} : y % m \in Int
        BY Z3
      <4>3. UintSize \in Nat \ {0}
        BY MemoryAssumption, Numbers
      <4> QED BY <4>1, <4>2, <4>3 DEF Unsigned
    <3> QED BY <2>1, <3>1, <3>2
  <2>3. (~Runs(k1) /\ mem' = Noted(k1)) \/ mem' = k1
    BY <1>3 DEF BrkUp, Stops, CutShort
  <2> HIDE DEF n
  <2> QED BY <2>1, <2>2, <2>3, AskedCovered
<1>4. CASE BrkDown(p, new)
  <2> DEFINE S == new..(brk[p] - 1)
             pages == Reverse(Ascending(S))
             frames == [n \in DOMAIN pages |-> pgt_r0[p][pages[n]]]
             freed(grow) == FreePhysicalPage(mem, frames, grow)
  <2>1. PICK grow \in GrowAt(mem, Len(pages)) :
          Stops(freed(grow)) \/ mem' = freed(grow)
    BY <1>4 DEF BrkDown
  <2>2. pages \in Seq(S) /\ Len(pages) \in Nat /\ DOMAIN pages = 1..Len(pages)
    <3>1. S \subseteq Page
      BY AtWork, Numbers DEF Page
    <3> HIDE DEF S
    <3>2. Lists(Ascending(S), S)
      BY <3>1, PagesListed
    <3> QED BY <3>2, ReverseLists, LenProperties DEF Lists
  <2> HIDE DEF pages
  <2> DEFINE T == {pgt_r0[p][pages[n]] : n \in 1..Len(pages)}
  <2>3. frames \in Seq(T) /\ Len(frames) = Len(pages)
    BY <2>2
  <2> HIDE DEF frames
  <2>4. IsList(frames) /\ grow \in 0..Len(frames)
    BY <2>2, <2>3 DEF IsList, GrowAt
  <2> DEFINE k1 == freed(grow)
  <2>5. Stops(k1) \/ mem' = k1
    BY <2>1
  <2>6. Fate(k1, Unpromised)
    BY <1>1, <2>4, FreeFate
  <2> HIDE DEF k1
  <2> QED BY <2>5, <2>6, NotedFate, UnpromisedCovered DEF Stops
<1> QED BY <1>2, <1>3, <1>4 DEF HandleBrk, Refused

LEMMA ExitCovered ==
  ASSUME MemInv, Fate(mem, {}), NEW p \in Pid, HandleExit(p)
  PROVE  Covered
<1>1. Fate(mem, Unpromised) /\ Runs(mem) /\ Ends(p, mem, pgt_r0[p])
  BY FateGrows DEF HandleExit
<1>2. DOMAIN pgt_r0[p] = Page
  BY DEF MemInv, Sound
<1> QED BY <1>1, <1>2, EndFate, UnpromisedCovered

\* What LoadProgram takes, where the heap may grow while it frees pages.
LEMMA LoadCovered ==
  ASSUME MemInv, Fate(mem, {}), NEW p \in live, NEW prog \in Sizes,
         NEW k, Runs(k), KernelSound(k), Fate(k, Unpromised), Holds(mem, k),
         k = mem \/ k.kernel_brk = mem.kernel_brk + 1, FitsPhysical(k, p, prog),
         NEW grow \in GrowAt(k, Cardinality(UserPages(p))),
         NEW freed, freed = Deleted(k, p, grow), NEW new, new = Loaded(freed, prog)
  PROVE  Fate(new, Takers) /\ Covers(new)
<1> DEFINE u == Cardinality(UserPages(p))
           n == FrameNeed(prog)
           l == Len(k.free)
           g == Cardinality(PagesToFill(mem))
           frames == FramesAt(pgt_r0[p], UserPages(p))
<1>1. IsList(frames) /\ Len(frames) = u /\ u \in Nat
  <2>1. UserPages(p) \subseteq Page /\ DOMAIN pgt_r0[p] = Page
    BY AtWork DEF UserPages, Valid
  <2> QED BY <2>1, FrameList, PagesListed
<1>2. n \in Nat
  BY DEF FrameNeed, Sizes
<1>3. l \in Nat /\ n <= l + HighFrames - 1 + u
  <2>1. l \in Nat
    BY LenProperties DEF KernelSound, KernelRecord
  <2>2. k.count = l + HighFrames - 1
    BY DEF KernelSound
  <2>3. n <= k.count + u
    BY DEF FitsPhysical
  <2> HIDE DEF u, n, l
  <2> QED BY <2>1, <2>2, <2>3
<1>4. Fate(k, Takers) /\ "load" \in Takers /\ "heap" \in Takers
  BY FateGrows DEF Takers
<1>5. grow \in 0..Len(frames) /\ (grow # 0 => ~HasGrown(k))
  BY <1>1 DEF GrowAt
<1>6. freed = FreePhysicalPage(k, frames, grow)
  BY DEF Deleted
<1>7. g \in Nat /\ Cardinality(PagesToFill(k)) \in Nat
  <2>1. Holds(mem, mem) /\ Holds(k, k) /\ mem.kernel_brk \in Int /\ k.kernel_brk \in Int
    BY DEF Holds, Fate
  <2> QED BY <2>1, LessToFill
<1>8. grow # 0 => Cardinality(PagesToFill(k)) <= g
  <2> SUFFICES ASSUME grow # 0 PROVE PagesToFill(k) = PagesToFill(mem)
    BY <1>7
  <2>1. k.kernel_brk = mem.kernel_brk /\ mem.kernel_brk \in Int
    BY <1>5 DEF HasGrown, Fate
  <2> QED BY <2>1
<1> HIDE DEF frames
<1>9. /\ Fate(freed, Takers)
      /\ Runs(freed) => /\ grow = 0 => Len(freed.free) = l + u
                        /\ grow # 0 => Len(freed.free) = l + u - Cardinality(PagesToFill(k))
      /\ ~Runs(freed) => freed.taker \in {"heap", "none"}
  BY <1>1, <1>4, <1>5, <1>6, FreeFate
<1> HIDE DEF n
<1>10. /\ Fate(new, Takers)
       /\ ~Runs(new) => \/ new = freed
                        \/ Runs(freed) /\ new.taker = "load" /\ new.short = n - Len(freed.free)
  <2>1. new = AllocateFreePage(freed, n, "load")
    BY DEF Loaded, n
  <2>2. Fate(freed, Takers)
    BY <1>9
  <2> QED BY ONLY <1>2, <1>4, <2>1, <2>2, AllocateFate
<1>11. Runs(freed) => Len(freed.free) \in Int /\ Len(freed.free) >= l + u - g
  <2> DEFINE c == Cardinality(PagesToFill(k))
             lf == Len(freed.free)
  <2> HIDE DEF u, l, g, c, lf
  <2>1. Runs(freed) => (grow = 0 => lf = l + u) /\ (grow # 0 => lf = l + u - c)
    BY <1>9 DEF lf, u, l, c
  <2>2. c \in Nat /\ (grow # 0 => c <= g)
    BY <1>7, <1>8 DEF c
  <2>3. Runs(freed) => lf \in Int /\ lf >= l + u - g
    BY <1>1, <1>3, <1>7, <2>1, <2>2
  <2> QED BY <2>3 DEF lf
<1>12. CASE new.taker \in {"heap", "none"}
  BY <1>10, <1>12 DEF Covers
<1>13. CASE Runs(freed) /\ new.taker = "load" /\ new.short = n - Len(freed.free)
  <2> DEFINE lf == Len(freed.free)
  <2>1. lf \in Int /\ lf >= l + u - g /\ new.short = n - lf
    BY <1>11, <1>13
  <2> HIDE DEF u, l, g, lf
  <2>2. new.short < HighFrames + g
    BY <1>1, <1>2, <1>3, <1>7, <2>1, Numbers
  <2> QED BY <1>10, <1>13, <2>2 DEF Covers, g
<1>14. Runs(new) => new.taker = "none"
  BY <1>10 DEF Fate
<1> QED BY <1>9, <1>10, <1>12, <1>13, <1>14

LEMMA ExecCovered ==
  ASSUME MemInv, Fate(mem, {}), NEW p \in Pid, NEW prog \in Programs, HandleExec(p, prog)
  PROVE  Covered
<1>1. /\ Fate(mem, Unpromised) /\ "heap" \in Unpromised /\ Runs(mem) /\ p \in live
      /\ KernelSound(mem) /\ prog \in Sizes /\ Fate(mem, Takers) /\ "heap" \in Takers
  BY FateGrows, AtWork, MemoryAssumption DEF Unpromised, Takers, HandleExec
<1>2. PICK k \in Malloc(mem) :
        \/ Stops(k) \/ Refused(k)
        \/ /\ Runs(k) /\ FitsPhysical(k, p, prog)
           /\ \E grow \in GrowAt(k, Cardinality(UserPages(p))) :
                LET freed == Deleted(k, p, grow)
                    new   == Loaded(freed, prog)
                IN
                \/ ~Runs(new) /\ mem' = Noted(new)
                \/ mem' = new
                \/ Runs(new) /\ Ends(p, new, LoadedTable(freed, p, prog))
  BY DEF HandleExec, ExecRefused, LoadCutShort, CutShort, Stops
<1>3. /\ Fate(k, Unpromised) /\ Holds(mem, k)
      /\ Runs(k) => k = mem \/ k.kernel_brk = mem.kernel_brk + 1
  BY <1>1, MallocFate
<1>4. CASE Stops(k) \/ Refused(k)
  <2>1. Fate(mem', Unpromised)
    BY <1>3, <1>4, NotedFate DEF Stops, Refused
  <2> QED BY <2>1, UnpromisedCovered
<1>5. ASSUME Runs(k), FitsPhysical(k, p, prog), NEW grow \in GrowAt(k, Cardinality(UserPages(p))),
             NEW freed, freed = Deleted(k, p, grow), NEW new, new = Loaded(freed, prog),
             \/ ~Runs(new) /\ mem' = Noted(new)
             \/ mem' = new
             \/ Runs(new) /\ Ends(p, new, LoadedTable(freed, p, prog))
      PROVE  Covered
  <2>1. KernelSound(k)
    BY <1>1, <1>5, MallocFacts
  <2>2. Fate(new, Takers) /\ Covers(new)
    BY <1>1, <1>3, <1>5, <2>1, LoadCovered
  <2>3. CASE ~Runs(new) /\ mem' = Noted(new)
    BY <2>2, <2>3, NotedCovered
  <2>4. CASE mem' = new
    BY <2>2, <2>4 DEF Covered, Covers
  <2>5. CASE Runs(new) /\ Ends(p, new, LoadedTable(freed, p, prog))
    <3>1. DOMAIN LoadedTable(freed, p, prog) = Page
      BY DEF LoadedTable, Mapped, Bare
    <3>2. Fate(new, Unpromised)
      BY <2>2, <2>5, FateGrows
    <3> QED BY <2>5, <3>1, <3>2, EndFate, UnpromisedCovered
  <2> QED BY <1>5, <2>3, <2>4, <2>5
<1> QED BY <1>2, <1>4, <1>5

LEMMA BootCovered ==
  ASSUME MemInv, Fate(mem, {}), CreateIdleProcess \/ CreateInitProcess
  PROVE  Covered
<1>1. Fate(mem, Takers) /\ {"table", "copy", "load", "heap"} \subseteq Takers /\ Runs(mem)
  BY FateGrows DEF Takers, CreateIdleProcess, CreateInitProcess
<1>2. FrameNeed(IdleProgram) \in Nat /\ FrameNeed(InitProgram) \in Nat
  BY BootNeeds
<1>3. CASE CreateIdleProcess
  <2> DEFINE frames == FramesAt(pgt_r0[Idle], UserPages(Idle))
             none == 0
             freed == FreePhysicalPage(mem, frames, none)
             new == AllocateFreePage(freed, FrameNeed(IdleProgram), "load")
  <2>1. mem' = new
    BY <1>3 DEF CreateIdleProcess, Deleted, Loaded
  <2>2. Fate(freed, Takers) /\ Runs(freed)
    <3>1. UserPages(Idle) \subseteq Page /\ DOMAIN pgt_r0[Idle] = Page
      BY Numbers DEF UserPages, Valid, MemInv, Sound, Idle, Pid
    <3>2. IsList(frames) /\ none \in 0..Len(frames)
      BY <3>1, FrameList, PagesListed
    <3>3. freed = Pushed(mem, frames)
      BY <1>1 DEF FreePhysicalPage
    <3> HIDE DEF none, frames, freed
    <3> QED BY <1>1, <3>2, <3>3, PushedFate DEF Runs
  <2> HIDE DEF freed
  <2>3. Fate(new, Takers)
    <3>1. new = AllocateFreePage(freed, FrameNeed(IdleProgram), "load") /\ "load" \in Takers
      BY <1>1
    <3> HIDE DEF new
    <3> QED BY ONLY <1>2, <2>2, <3>1, AllocateFate
  <2>4. Runs(mem')
    BY <1>3, IdleKeeps
  <2> HIDE DEF new
  <2> QED BY <2>1, <2>3, <2>4 DEF Covered, Covers, Fate
<1>4. CASE CreateInitProcess
  <2> DEFINE made == AllocateRegion0PageTable(mem)
             m == Len(Ascending(KStack))
             copy == AllocateFreePage(made.k, m, "copy")
             new == AllocateFreePage(copy, FrameNeed(InitProgram), "load")
  <2>1. mem' = new /\ Runs(mem')
    BY <1>4, InitKeeps DEF CreateInitProcess, Loaded
  <2>2. Fate(made.k, Takers)
    BY <1>1, TableFate
  <2>3. m \in Nat
    BY Numbers, PagesListed
  <2> HIDE DEF made, m
  <2>4. Fate(copy, Takers)
    BY <1>1, <2>2, <2>3, AllocateFate
  <2> HIDE DEF copy
  <2>5. Fate(new, Takers)
    BY <1>1, <1>2, <2>4, AllocateFate
  <2> HIDE DEF new
  <2> QED BY <2>1, <2>5 DEF Covered, Covers, Fate
<1> QED BY <1>3, <1>4

LEMMA StepCovered ==
  ASSUME MemInv, Fate(mem, {}), Next
  PROVE  Covered
<1>1. CASE CreateIdleProcess \/ CreateInitProcess
  BY <1>1, BootCovered
<1>2. CASE \E p \in Pid : HandleFork(p)
  BY <1>2, ForkCovered
<1>3. CASE \E p \in Pid : HandleExit(p)
  BY <1>3, ExitCovered
<1>4. CASE \E p \in Pid, prog \in Programs : HandleExec(p, prog)
  BY <1>4, ExecCovered
<1>5. CASE \E p \in Pid, new \in Page : HandleBrk(p, new)
  BY <1>5, BrkCovered DEF HandleBrk
<1>6. CASE \E p \in Pid, x \in Page : TrapMemoryHandler(p, x)
  BY <1>6, ExitCovered, StackCovered DEF TrapMemoryHandler
<1>7. CASE KernelMalloc
  <2> DEFINE k == SetKernelBrk(mem)
  <2>1. Stops(k) \/ mem' = k
    BY <1>7 DEF KernelMalloc
  <2>2. Fate(mem, Unpromised) /\ "heap" \in Unpromised
    BY FateGrows DEF Unpromised
  <2>3. Fate(k, Unpromised)
    BY <2>2, GrowFate
  <2> HIDE DEF k
  <2> QED BY <2>1, <2>3, NotedFate, UnpromisedCovered DEF Stops
<1> QED BY <1>1, <1>2, <1>3, <1>4, <1>5, <1>6, <1>7 DEF Next

\* Any of those may have run off the list, when the machine no longer runs.
FateInv == Fate(mem, Takers)

LEMMA FateInvariant == Spec => []FateInv
<1>1. Init => FateInv
  <2> SUFFICES ASSUME Init PROVE FateInv
    OBVIOUS
  <2> DEFINE all == [n \in 1..LowFrames |-> n]
  <2>1. /\ mem.free = all /\ mem.kernel_brk = 1 /\ mem.short = 0 /\ mem.machine = "runs"
        /\ mem.taker = "none"
        /\ {"free", "count", "kernel_brk", "pgt_r1", "machine", "taker", "short"} \subseteq DOMAIN mem
    BY DEF Init, InitMemoryManagement
  <2>2. all \in Seq(Frame)
    BY Numbers DEF Frame
  <2> HIDE DEF all
  <2> QED BY <2>1, <2>2 DEF FateInv, Fate, IsList, Runs
<1>2. MemoryInv /\ FateInv /\ [Next]_memVars => FateInv'
  <2> SUFFICES ASSUME MemoryInv, FateInv, [Next]_memVars PROVE FateInv'
    OBVIOUS
  <2>1. CASE Next
    <3>1. MemInv /\ Fate(mem, {})
      BY <2>1, OnlyRunning, FateGrows DEF FateInv, MemoryInv, Loose, Corrupt, Runs
    <3> QED BY <2>1, <3>1, StepCovered DEF Covered, FateInv
  <2>2. CASE UNCHANGED memVars
    BY <2>2 DEF memVars, FateInv, Fate, Runs, IsList
  <2> QED BY <2>1, <2>2
<1> QED BY <1>1, <1>2, MemInvariant, PTL DEF Spec

\* The counts cover what is taken, on machines of every size: a Brk or a stack
\* runs off the end of the low part of the list only for frames that are there
\* above the kernel, unless the count was -1, which unsigned comparison takes
\* for plenty; Fork and Exec may want, besides, the pages that the heap has
\* taken since they looked.
THEOREM MemoryCountCovers == Spec => CountCovers
<1> DEFINE A == /\ mem'.taker \in {"brk", "stack"} /\ mem.count # -1 => mem'.short < HighFrames
                /\ mem'.taker \in {"copy", "load"} =>
                     mem'.short < HighFrames + Cardinality(PagesToFill(mem))
<1>1. MemoryInv /\ FateInv /\ [Next]_memVars => [A]_memVars
  <2> SUFFICES ASSUME MemoryInv, FateInv, Next
               PROVE  A
    OBVIOUS
  <2>1. MemInv /\ Fate(mem, {})
    BY OnlyRunning, FateGrows DEF FateInv, MemoryInv, Loose, Corrupt, Runs
  <2>2. Covers(mem')
    BY <2>1, StepCovered DEF Covered
  <2> QED BY <2>2 DEF Covers
<1> QED BY <1>1, MemInvariant, FateInvariant, PTL DEF Spec, CountCovers
----------------------------------------------------------------------------
(***************************************************************************)
(* The types.                                                              *)
(***************************************************************************)
KindInv ==
  /\ pid_counter \in 0..(MaxPid + 1)
  /\ result \in {OK, ERROR}
  /\ ~Corrupt => \A i \in KStack : pgt_r0[Idle][i] = KernelFrame

LEMMA IdleStack ==
  ASSUME MemInv, KindInv, CreateIdleProcess
  PROVE  \A i \in KStack : pgt_r0'[Idle][i] = KernelFrame
<1> DEFINE freed == Deleted(mem, Idle, 0)
           table == LoadedTable(freed, Idle, IdleProgram)
<1>1. pgt_r0' = [pgt_r0 EXCEPT ![Idle] = table] /\ pgt_r0 \in [Pid -> [Page -> Entry]]
  BY DEF CreateIdleProcess, Gets, MemInv, Sound
<1>2. ProgramPages(IdleProgram) \subseteq Page /\ ProgramPages(IdleProgram) \cap KStack = {}
  BY BootNeeds, ProgramFacts
<1>3. Range(Ascending(ProgramPages(IdleProgram))) = ProgramPages(IdleProgram)
  BY <1>2, PagesListed DEF Lists
<1>4. KStack \subseteq Page
  BY Numbers DEF Page
<1>5. \A i \in KStack : Bare(Idle)[i] = pgt_r0[Idle][i] /\ i \in DOMAIN Bare(Idle)
  BY <1>4 DEF Bare
<1>6. \A i \in KStack : table[i] = Bare(Idle)[i]
  BY <1>2, <1>3, <1>5 DEF LoadedTable, Mapped
<1> HIDE DEF table
<1>7. pgt_r0'[Idle] = table /\ ~Corrupt
  BY <1>1, Numbers DEF Idle, Pid, CreateIdleProcess, Runs, Corrupt
<1> QED BY <1>5, <1>6, <1>7 DEF KindInv

\* A step of a process changes nothing of idle's.
LEMMA KindStays ==
  ASSUME MemInv, KindInv, Runs(mem), NEW p \in Pid, p # Idle, OnlyOwn(p) \/ CutOff,
         result' \in {OK, ERROR, result}, pid_counter' \in {pid_counter, pid_counter + 1},
         pid_counter' # pid_counter => pid_counter <= MaxPid
  PROVE  KindInv'
<1>1. Idle \in Pid
  BY Numbers DEF Idle, Pid
<1>2. pid_counter' \in 0..(MaxPid + 1)
  BY MemoryAssumption, Numbers DEF KindInv
<1>3. ~Corrupt
  BY DEF Corrupt, Runs
<1> QED BY <1>1, <1>2, <1>3 DEF KindInv, OnlyOwn, CutOff, Loose

LEMMA EndKind ==
  ASSUME NEW p, NEW k, NEW table, Ends(p, k, table)
  PROVE  result' \in {OK, ERROR, result} /\ pid_counter' = pid_counter
BY DEF Ends, TerminateProcess, Stops

LEMMA KindNext ==
  ASSUME MemInv, KindInv, Next
  PROVE  KindInv'
<1>0. /\ Idle \in Pid /\ First \in Pid /\ First # Idle /\ 1 \in 0..(MaxPid + 1)
      /\ 2 \in 0..(MaxPid + 1) /\ Idle + 1 = 1 /\ First + 1 = 2
  BY MemoryAssumption, Numbers DEF Idle, First, Pid
<1>a. ASSUME NEW p \in live PROVE p \in Pid /\ p # Idle
  BY AtWork
<1>b. Runs(mem) /\ ~Corrupt
  BY OnlyRunning DEF Runs, Corrupt
<1>1. CASE CreateIdleProcess
  BY <1>0, <1>1, IdleStack DEF KindInv, CreateIdleProcess
<1>2. CASE CreateInitProcess
  <2>1. OnlyOwn(First)
    BY <1>2, InitKeeps
  <2> QED BY <1>0, <1>b, <1>2, <2>1 DEF KindInv, OnlyOwn, CreateInitProcess
<1>3. CASE \E p \in Pid : HandleFork(p)
  <2>1. PICK p \in Pid : HandleFork(p)
    BY <1>3
  <2>2. p \in live /\ pid_counter <= MaxPid /\ p # Idle
    BY <1>a, <2>1 DEF HandleFork
  <2>3. PICK q \in Pid : q # Idle /\ OnlyOwn(q)
    BY <2>1, <2>2, ForkKeeps DEF HasChild
  <2>4. result' \in {OK, ERROR, result} /\ pid_counter' \in {pid_counter, pid_counter + 1}
    BY <2>1 DEF HandleFork, ForkCopies, ForkRefused, Stops, Refused
  <2> QED BY <1>b, <2>2, <2>3, <2>4, KindStays
<1>4. ASSUME NEW p \in Pid, HandleExit(p) PROVE KindInv'
  <2>1. p # Idle
    BY <1>a, <1>4 DEF HandleExit
  <2>2. result' \in {OK, ERROR, result} /\ pid_counter' = pid_counter
    BY <1>4, EndKind DEF HandleExit
  <2> QED BY <1>b, <1>4, <2>1, <2>2, ExitKeeps, KindStays
<1>5. CASE \E p \in Pid, prog \in Programs : HandleExec(p, prog)
  <2>1. PICK p \in Pid, prog \in Programs : HandleExec(p, prog)
    BY <1>5
  <2>2. p # Idle
    BY <1>a, <2>1 DEF HandleExec
  <2>3. PICK k \in Malloc(mem) :
          \/ Stops(k)
          \/ Refused(k) /\ pid_counter' = pid_counter
          \/ \E grow \in GrowAt(k, Cardinality(UserPages(p))) :
               LET freed == Deleted(k, p, grow)
                   new   == Loaded(freed, prog)
               IN
               \/ Stops(new)
               \/ result' \in {OK, ERROR} /\ pid_counter' = pid_counter
               \/ Ends(p, new, LoadedTable(freed, p, prog))
    BY <2>1 DEF HandleExec, ExecRefused, LoadCutShort, CutShort
  <2>4. result' \in {OK, ERROR, result} /\ pid_counter' = pid_counter
    BY <2>3, EndKind DEF Stops, Refused
  <2> QED BY <2>1, <2>2, <2>4, <1>b, ExecKeeps, KindStays
<1>6. CASE \E p \in Pid, new \in Page : HandleBrk(p, new)
  <2>1. PICK p \in Pid, new \in Page : HandleBrk(p, new)
    BY <1>6
  <2>2. p # Idle
    BY <1>a, <2>1 DEF HandleBrk
  <2>3. result' \in {OK, ERROR, result} /\ pid_counter' = pid_counter
    BY <2>1 DEF HandleBrk, BrkUp, BrkDown, Stops, CutShort, Refused
  <2> QED BY <2>1, <2>2, <2>3, <1>b, BrkKeeps, KindStays
<1>7. CASE \E p \in Pid, x \in Page : TrapMemoryHandler(p, x)
  <2>1. PICK p \in Pid, x \in Page : TrapMemoryHandler(p, x)
    BY <1>7
  <2>2. p # Idle
    BY <1>a, <2>1 DEF TrapMemoryHandler
  <2>3. CASE HandleExit(p)
    BY <1>4, <2>3
  <2>4. CASE StackGrows(p, x)
    <3>1. result' \in {OK, ERROR, result} /\ pid_counter' = pid_counter
      BY <2>4 DEF StackGrows, Stops, CutShort
    <3> QED BY <2>1, <2>2, <3>1, <1>b, TrapKeeps, KindStays
  <2> QED BY <2>1, <2>3, <2>4 DEF TrapMemoryHandler
<1>8. CASE KernelMalloc
  <2>1. OnlyOwn(First)
    BY <1>0, <1>8, HeapKeeps
  <2>2. result' \in {OK, ERROR, result} /\ pid_counter' = pid_counter
    BY <1>8 DEF KernelMalloc, Stops
  <2> QED BY <1>0, <1>b, <2>1, <2>2, KindStays
<1> QED BY <1>1, <1>2, <1>3, <1>4, <1>5, <1>6, <1>7, <1>8 DEF Next

LEMMA KindStep ==
  ASSUME MemoryInv, KindInv, [Next]_memVars
  PROVE  KindInv'
<1>1. CASE Next
  <2>1. MemInv
    BY <1>1, OnlyRunning DEF MemoryInv, Loose, Corrupt, Runs
  <2> QED BY <1>1, <2>1, KindNext
<1>2. CASE UNCHANGED memVars
  BY <1>2 DEF memVars, KindInv, Corrupt, spaces
<1> QED BY <1>1, <1>2

LEMMA TypesFollow ==
  ASSUME MemoryInv, SlotInv, FateInv, KindInv
  PROVE  TypeOK
<1>1. KernelRecord(mem)
  BY DEF MemoryInv, Loose, MemInv, Sound, KernelSound
<1>2. /\ mem.free \in Seq(Frame) /\ mem.count \in Int /\ mem.kernel_brk \in 1..HeapPages
      /\ mem.addr_next_pgt_r0 \in 0..HeapPages /\ mem.is_half_used \in BOOLEAN
      /\ mem.pgt_r1 \in [0..HeapPages -> Entry]
  BY <1>1 DEF KernelRecord
<1>3. /\ mem.machine \in {"runs", "halted", "crashed", "corrupt"}
      /\ mem.taker \in {"none", "table", "heap", "load", "copy", "brk", "stack"} /\ mem.short \in Nat
  BY DEF FateInv, Fate, Takers
<1>4. /\ phase \in {"idle", "init", "up"} /\ live \subseteq Pid \ {Idle}
      /\ brk \in [Pid -> Page] /\ uStack_bottom \in [Pid -> Page]
  BY DEF MemoryInv, Loose, MemInv, BootInv, SpacesInv
<1>5. pgt_r0 \in [Pid -> [Page -> Entry]]
  BY DEF MemoryInv, Loose, MemInv, Sound
<1>6. ~Corrupt => \A p \in Pid : \A i \in Page : pgt_r0[p][i] = KernelFrame <=> p = Idle /\ i \in KStack
  BY DEF MemoryInv, Loose, MemInv, Sound, KindInv
<1>7. Entry = Frame \cup {NoFrame, KernelFrame}
  BY DEF Entry
<1>8. /\ slot \in [Pid -> (0..HeapPages) \X {0, 1, 2}] /\ result \in {OK, ERROR}
      /\ pid_counter \in 0..(MaxPid + 1)
  BY DEF SlotInv, KindInv
<1> QED BY <1>2, <1>3, <1>4, <1>5, <1>6, <1>7, <1>8 DEF TypeOK

\* The variables keep their types, and idle's kernel stack the frames it was
\* booted on.
THEOREM MemoryTypes == Spec => []TypeOK
<1>1. Init => KindInv
  BY MemoryAssumption, Numbers DEF Init, KindInv, Idle, Pid, Page
<1>2. MemoryInv /\ KindInv /\ [Next]_memVars => KindInv'
  BY KindStep
<1>3. MemoryInv /\ SlotInv /\ FateInv /\ KindInv => TypeOK
  BY TypesFollow
<1> QED BY <1>1, <1>2, <1>3, MemInvariant, SlotInvariant, FateInvariant, PTL DEF Spec
=============================================================================
