-------------------------- MODULE LinkedListProofs --------------------------
(***************************************************************************)
(* The pointers of linked_list.c hold together, and the lists are the      *)
(* queues their callers take them for: for every number of nodes, lists    *)
(* and elements.                                                           *)
(***************************************************************************)
EXTENDS LinkedList, ListProofs

\* s is what one finds along the pointers from first to last.
Chain(nodes, first, final, s) ==
  /\ s \in Seq(Addr) /\ IsInjective(s)
  /\ first = IF s = <<>> THEN None ELSE s[1]
  /\ final = IF s = <<>> THEN None ELSE s[Len(s)]
  /\ \A n \in 1..Len(s) :
       /\ nodes[s[n]].allocated
       /\ nodes[s[n]].next = IF n = Len(s) THEN None ELSE s[n + 1]
       /\ nodes[s[n]].previous = IF n = 1 THEN None ELSE s[n - 1]

\* A set of numbers has a least one.
LEMMA Least ==
  ASSUME NEW N \in Nat, NEW S \in SUBSET (0..N), S # {}
  PROVE  \E m \in S : \A k \in S : m <= k
<1> DEFINE at == {i \in 1..(N + 1) : i - 1 \in S}
           upto(i) == {j \in at : j <= i}
<1>1. at \in SUBSET (1..(N + 1)) /\ N + 1 \in Nat /\ \A k \in S : k + 1 \in at
  OBVIOUS
<1>2. at # {} /\ \A i \in at : i \in Int /\ i - 1 \in S
  <2>1. PICK k \in S : TRUE
    OBVIOUS
  <2>2. k + 1 \in at
    BY <1>1, <2>1
  <2>3. \A i \in at : i \in Int /\ i - 1 \in S
    OBVIOUS
  <2> HIDE DEF at
  <2> QED BY <2>2, <2>3
<1> HIDE DEF at
<1>3. IsFiniteSet(at) /\ Cardinality(at) \in Nat
      /\ \A k \in 1..Cardinality(at) : \E i \in at : Cardinality(upto(i)) = k
  BY <1>1, Ranks
<1>4. Cardinality(at) # 0
  BY <1>2, <1>3, FS_EmptySet
<1>5. PICK x \in at : Cardinality(upto(x)) = 1
  <2>1. 1 \in 1..Cardinality(at)
    BY <1>3, <1>4
  <2> QED BY <1>3, <2>1
<1>6. IsFiniteSet(upto(x))
  BY <1>3, FS_Subset
<1>7. PICK z : upto(x) = {z}
  BY <1>5, <1>6, FS_Singleton
<1>8. x \in upto(x)
  BY <1>2
<1>9. \A y \in at : y <= x => y = x
  BY <1>7, <1>8
<1>10. x - 1 \in S /\ \A k \in S : x - 1 <= k
  BY <1>1, <1>2, <1>9
<1> QED BY <1>10

\* An injective sequence of nodes is no longer than there are addresses.
LEMMA NoLonger ==
  ASSUME NEW s \in Seq(Addr), IsInjective(s)
  PROVE  Cardinality(Addr) \in Nat /\ Len(s) <= Cardinality(Addr) /\ Cardinality(Range(s)) = Len(s)
<1>1. IsFiniteSet(Addr) /\ Cardinality(Addr) \in Nat
  BY ListAssumption, FS_CardinalityType
<1>2. Len(s) \in Nat /\ DOMAIN s = 1..Len(s) /\ \A i \in 1..Len(s) : s[i] \in Addr
  BY LenProperties, ElementOfSeq
<1>3. Range(s) \in SUBSET Addr
  BY <1>2 DEF Range
<1>4. s \in Bijection(1..Len(s), Range(s))
  BY <1>2 DEF Bijection, Injection, Surjection, IsInjective, Range
<1>5. IsFiniteSet(1..Len(s)) /\ Cardinality(1..Len(s)) = Len(s)
  <2>1. \A b \in Int, c \in Int : IsFiniteSet(b..c)
    BY FS_Interval
  <2>2. \A b \in Int, c \in Int : Cardinality(b..c) = IF b > c THEN 0 ELSE c - b + 1
    BY FS_Interval
  <2>3. 1 \in Int /\ Len(s) \in Int
    BY <1>2
  <2>4. Cardinality(1..Len(s)) = IF 1 > Len(s) THEN 0 ELSE Len(s) - 1 + 1
    BY <2>2, <2>3
  <2>5. (IF 1 > Len(s) THEN 0 ELSE Len(s) - 1 + 1) = Len(s)
    BY <1>2
  <2> QED BY <2>1, <2>3, <2>4, <2>5
<1>6. Cardinality(Range(s)) = Cardinality(1..Len(s))
  BY <1>4, <1>5, FS_Bijection DEF ExistsBijection
<1> QED BY <1>1, <1>3, <1>5, <1>6, FS_Subset

\* Path finds the chain, if there is one.
LEMMA PathIsChain ==
  ASSUME NEW l, NEW s, Chain(node, head[l], tail[l], s)
  PROVE  Path(l) = s
<1> DEFINE N == Cardinality(Addr)
           Step(f) == [n \in 0..N |->
                         IF n = 0 THEN head[l]
                         ELSE IF f[n - 1] = None THEN None ELSE node[f[n - 1]].next]
           at == CHOOSE f : f = Step(f)
           g == [n \in 0..N |-> IF n < Len(s) THEN s[n + 1] ELSE None]
           size == Cardinality({n \in DOMAIN at : at[n] # None})
<1>1. /\ N \in Nat /\ Len(s) \in Nat /\ Len(s) <= N /\ DOMAIN s = 1..Len(s)
      /\ s \in Seq(Addr) /\ \A i \in 1..Len(s) : s[i] \in Addr /\ s[i] # None
  BY NoLonger, ListAssumption, LenProperties, ElementOfSeq DEF Chain
<1>2. /\ head[l] = g[0]
      /\ \A n \in 1..N : g[n] = IF g[n - 1] = None THEN None ELSE node[g[n - 1]].next
  <2>1. head[l] = g[0]
    <3>1. g[0] = IF 0 < Len(s) THEN s[1] ELSE None
      BY <1>1
    <3>2. s = <<>> <=> ~ (0 < Len(s))
      BY <1>1, EmptySeq
    <3> QED BY <3>1, <3>2 DEF Chain
  <2>2. ASSUME NEW n \in 1..N
        PROVE  g[n] = IF g[n - 1] = None THEN None ELSE node[g[n - 1]].next
    <3>1. n \in 0..N /\ n - 1 \in 0..N /\ n - 1 + 1 = n
      <4> HIDE DEF N
      <4> QED BY <1>1
    <3>2. CASE n - 1 < Len(s)
      <4>1. g[n - 1] = s[n] /\ n \in 1..Len(s)
        BY <1>1, <3>1, <3>2
      <4>2. node[s[n]].next = IF n = Len(s) THEN None ELSE s[n + 1]
        BY <4>1 DEF Chain
      <4>3. g[n] = IF n = Len(s) THEN None ELSE s[n + 1]
        <5>1. g[n] = IF n < Len(s) THEN s[n + 1] ELSE None
          BY <3>1
        <5>2. n < Len(s) <=> n # Len(s)
          <6>1. n \in 1..Len(s) /\ Len(s) \in Nat
            BY <1>1, <4>1
          <6> HIDE DEF g, N
          <6> QED BY <6>1
        <5> QED BY <5>1, <5>2
      <4> HIDE DEF g
      <4> QED BY <1>1, <4>1, <4>2, <4>3
    <3>3. CASE ~ (n - 1 < Len(s))
      BY <1>1, <3>1, <3>3
    <3> QED BY <3>2, <3>3
  <2> QED BY <2>1, <2>2
<1>3. g = Step(g)
  <2>1. g = [n \in 0..N |-> g[n]]
    OBVIOUS
  <2>2. \A n \in 0..N : n = 0 \/ n \in 1..N
    <3> HIDE DEF N
    <3> QED BY <1>1
  <2> HIDE DEF g
  <2>3. \A n \in 0..N : g[n] = Step(g)[n]
    <3> HIDE DEF N
    <3> QED BY <1>1, <1>2, <2>2
  <2> QED BY <2>1, <2>3
<1>4. at = Step(at)
  BY <1>3
<1>5. at = g
  <2> DEFINE S == {n \in 0..N : at[n] # g[n]}
  <2> HIDE DEF at, g
  <2>1. at[0] = head[l] /\ \A n \in 1..N : at[n] = IF at[n - 1] = None THEN None ELSE node[at[n - 1]].next
    BY <1>1, <1>4
  <2>2. ASSUME S # {} PROVE FALSE
    <3>1. S \in SUBSET (0..N)
      OBVIOUS
    <3>2. PICK m \in S : \A k \in S : m <= k
      <4> HIDE DEF S, N
      <4> QED BY <1>1, <2>2, <3>1, Least
    <3>3. m \in 1..N
      BY <1>1, <1>2, <2>1
    <3>4. m - 1 \in 0..N /\ ~ (m <= m - 1)
      BY <1>1, <3>3
    <3>5. at[m - 1] = g[m - 1]
      BY <3>2, <3>4
    <3>6. at[m] = g[m]
      BY <1>2, <2>1, <3>3, <3>5
    <3> QED BY <3>6
  <2>3. at = [n \in 0..N |-> at[n]] /\ g = [n \in 0..N |-> g[n]]
    BY <1>3, <1>4
  <2> QED BY <2>2, <2>3
<1>6. size = Len(s)
  <2>1. {n \in DOMAIN at : at[n] # None} = 0..(Len(s) - 1)
    <3> HIDE DEF at, N
    <3>1. DOMAIN at = 0..N /\ \A n \in 0..N : at[n] = IF n < Len(s) THEN s[n + 1] ELSE None
      BY <1>5
    <3>2. \A n \in 0..N : n < Len(s) => n + 1 \in 1..Len(s)
      BY <1>1
    <3>3. \A n \in 0..N : at[n] # None <=> n < Len(s)
      BY <1>1, <3>1, <3>2
    <3>4. {n \in 0..N : n < Len(s)} = 0..(Len(s) - 1)
      BY <1>1
    <3> QED BY <3>1, <3>3, <3>4
  <2>2. Cardinality(0..(Len(s) - 1)) = Len(s)
    <3>1. \A a \in Int, b \in Int : Cardinality(a..b) = IF a > b THEN 0 ELSE b - a + 1
      BY FS_Interval
    <3>2. 0 \in Int /\ Len(s) - 1 \in Int
      BY <1>1
    <3>3. Cardinality(0..(Len(s) - 1)) = IF 0 > Len(s) - 1 THEN 0 ELSE Len(s) - 1 - 0 + 1
      BY <3>1, <3>2
    <3>4. (IF 0 > Len(s) - 1 THEN 0 ELSE Len(s) - 1 - 0 + 1) = Len(s)
      BY <1>1
    <3> QED BY <3>3, <3>4
  <2> QED BY <2>1, <2>2
<1>7. Path(l) = [n \in 1..size |-> at[n - 1]]
  BY DEF Path
<1> HIDE DEF at, size
<1>8. Path(l) = [n \in 1..Len(s) |-> g[n - 1]]
  BY <1>5, <1>6, <1>7
<1>9. \A n \in 1..Len(s) : g[n - 1] = s[n]
  BY <1>1
<1>10. s = [n \in 1..Len(s) |-> s[n]]
  BY <1>1
<1> HIDE DEF g
<1> QED BY <1>8, <1>9, <1>10
----------------------------------------------------------------------------
(***************************************************************************)
(* The operations, on a heap whose lists are found along paths.            *)
(***************************************************************************)

ListNode == [data : Data \cup {None}, next : Addr \cup {None},
             previous : Addr \cup {None}, allocated : BOOLEAN]

Heap == [node : [Addr -> ListNode],
         head : [Lists -> Addr \cup {None}], tail : [Lists -> Addr \cup {None}]]

\* s without its entry at i.
Without(s, i) == [n \in 1..(Len(s) - 1) |-> IF n < i THEN s[n] ELSE s[n + 1]]

\* p but for its value at l.
With(p, l, t) == [p EXCEPT ![l] = t]

\* In h the paths p lead along the lists, but for those in R, which are gone;
\* a node is allocated only on one of them, and holds what no other there does.
Shape(h, R, p) ==
  /\ h \in Heap
  /\ p \in [Lists -> Seq(Addr)]
  /\ \A l \in Lists : IF l \in R THEN p[l] = <<>>
                     ELSE Chain(h.node, h.head[l], h.tail[l], p[l])
  /\ \A l, m \in Lists : l # m => Range(p[l]) \cap Range(p[m]) = {}
  /\ \A a \in Addr : h.node[a].allocated =>
       h.node[a].data \in Data /\ \E l \in Lists : a \in Range(p[l])
  /\ \A l \in Lists : \A i, j \in 1..Len(p[l]) :
       h.node[p[l][i]].data = h.node[p[l][j]].data => i = j

\* Taking an entry out of a sequence leaves the others where they were, or one
\* place before.
LEMMA WithoutProperties ==
  ASSUME NEW T, NEW s \in Seq(T), NEW i \in 1..Len(s)
  PROVE  /\ Without(s, i) \in Seq(T) /\ Len(Without(s, i)) = Len(s) - 1
         /\ \A n \in 1..(Len(s) - 1) : Without(s, i)[n] = IF n < i THEN s[n] ELSE s[n + 1]
         /\ IsInjective(s) => IsInjective(Without(s, i))
                              /\ Range(Without(s, i)) = Range(s) \ {s[i]}
<1>1. DOMAIN s = 1..Len(s) /\ Len(s) \in Nat /\ \A n \in 1..Len(s) : s[n] \in T
  BY LenProperties, ElementOfSeq
<1>2. /\ Len(s) - 1 \in Nat
      /\ \A n \in 1..(Len(s) - 1) : (n < i => n \in 1..Len(s)) /\ n + 1 \in 1..Len(s)
  BY <1>1
<1>3. Without(s, i) \in [1..(Len(s) - 1) -> T]
  BY <1>1, <1>2 DEF Without
<1>4. Without(s, i) \in Seq(T) /\ Len(Without(s, i)) = Len(s) - 1
  BY <1>2, <1>3
<1>5. DOMAIN Without(s, i) = 1..(Len(s) - 1)
      /\ \A n \in 1..(Len(s) - 1) : Without(s, i)[n] = IF n < i THEN s[n] ELSE s[n + 1]
  BY DEF Without
<1>6. ASSUME IsInjective(s)
      PROVE  IsInjective(Without(s, i)) /\ Range(Without(s, i)) = Range(s) \ {s[i]}
  <2>1. \A n, m \in 1..Len(s) : s[n] = s[m] => n = m
    BY <1>1, <1>6 DEF IsInjective
  <2>2. IsInjective(Without(s, i))
    BY <1>1, <1>2, <1>5, <2>1 DEF IsInjective
  <2>3. ASSUME NEW n \in 1..(Len(s) - 1) PROVE Without(s, i)[n] \in Range(s) \ {s[i]}
    BY <1>1, <1>2, <1>5, <2>1 DEF Range
  <2>4. ASSUME NEW n \in 1..Len(s), s[n] # s[i] PROVE s[n] \in Range(Without(s, i))
    <3>1. CASE n < i
      <4>1. n \in 1..(Len(s) - 1) /\ Without(s, i)[n] = s[n]
        BY <1>1, <1>5, <3>1
      <4> QED BY <1>5, <4>1 DEF Range
    <3>2. CASE n > i
      <4>1. n - 1 \in 1..(Len(s) - 1) /\ ~ (n - 1 < i) /\ n - 1 + 1 = n
        BY <1>1, <3>2
      <4>2. Without(s, i)[n - 1] = s[n]
        BY <1>5, <4>1
      <4> QED BY <1>5, <4>1, <4>2 DEF Range
    <3> QED BY <1>1, <2>4, <3>1, <3>2
  <2>5. Range(Without(s, i)) = {Without(s, i)[n] : n \in 1..(Len(s) - 1)}
    BY <1>5 DEF Range
  <2>6. Range(s) = {s[n] : n \in 1..Len(s)}
    BY <1>1 DEF Range
  <2> QED BY <2>2, <2>3, <2>4, <2>5, <2>6
<1> QED BY <1>4, <1>5, <1>6

\* The three ways in which the queues lose an entry are the same.
LEMMA TailIsWithout ==
  ASSUME NEW T, NEW s \in Seq(T), s # <<>>
  PROVE  Tail(s) = Without(s, 1) /\ Head(s) = s[1] /\ 1 \in 1..Len(s)
<1>1. /\ Len(s) \in Nat \ {0} /\ Head(s) = s[1]
      /\ Tail(s) \in Seq(T) /\ Len(Tail(s)) = Len(s) - 1
      /\ \A i \in 1..Len(s) - 1 : Tail(s)[i] = s[i + 1]
  BY HeadTailProperties, EmptySeq
<1>2. 1 \in 1..Len(s)
  BY <1>1
<1>3. /\ Without(s, 1) \in Seq(T) /\ Len(Without(s, 1)) = Len(s) - 1
      /\ \A n \in 1..(Len(s) - 1) : Without(s, 1)[n] = IF n < 1 THEN s[n] ELSE s[n + 1]
  BY <1>2, WithoutProperties
<1>4. \A n \in 1..(Len(s) - 1) : Tail(s)[n] = Without(s, 1)[n]
  BY <1>1, <1>3
<1>5. Tail(s) = Without(s, 1)
  BY <1>1, <1>3, <1>4, SeqEqual
<1> QED BY <1>1, <1>2, <1>5

LEMMA RemoveFirstIsWithout ==
  ASSUME NEW T, NEW s \in Seq(T), IsInjective(s), NEW i \in 1..Len(s)
  PROVE  RemoveFirst(s, s[i]) = Without(s, i)
<1>1. DOMAIN s = 1..Len(s) /\ Len(s) \in Nat /\ \A n \in 1..Len(s) : s[n] \in T
  BY LenProperties, ElementOfSeq
<1>2. \A n \in 1..Len(s) : s[n] = s[i] <=> n = i
  BY <1>1 DEF IsInjective
<1>3. (CHOOSE x \in {n \in 1..Len(s) : s[n] = s[i]} : 
         \A y \in {n \in 1..Len(s) : s[n] = s[i]} : x <= y) = i
  <2>1. {n \in 1..Len(s) : s[n] = s[i]} = {i}
    BY <1>2
  <2>2. \A x \in {i} : (\A y \in {i} : x <= y) <=> x = i
    BY <1>1
  <2>3. (CHOOSE x \in {i} : \A y \in {i} : x <= y) = i
    BY <2>2
  <2> QED BY <2>1, <2>3
<1>4. RemoveFirst(s, s[i]) = RemoveAt(s, i)
  BY <1>1, <1>2, <1>3 DEF RemoveFirst, SelectInSeq, Min
<1> DEFINE u == SubSeq(s, 1, i - 1)
           v == SubSeq(s, i + 1, Len(s))
<1>5. RemoveAt(s, i) = u \o v
  BY DEF RemoveAt
<1>6. u \in Seq(T) /\ Len(u) = i - 1 /\ \A n \in 1..i - 1 : u[n] = s[n]
  <2>1. 1 \in Int /\ i - 1 \in Int /\ \A n \in 1..i - 1 : s[n] \in T
    BY <1>1
  <2>2. u \in Seq(T) /\ Len(u) = (IF 1 <= i - 1 THEN i - 1 - 1 + 1 ELSE 0)
        /\ \A n \in 1..i - 1 - 1 + 1 : u[n] = s[1 + n - 1]
    BY <2>1, SubSeqProperties
  <2>3. i - 1 - 1 + 1 = i - 1 /\ (~ (1 <= i - 1) => i - 1 = 0) /\ \A n \in 1..i - 1 : 1 + n - 1 = n
    BY <1>1
  <2> HIDE DEF u
  <2> QED BY <2>2, <2>3
<1>7. v \in Seq(T) /\ Len(v) = Len(s) - i /\ \A n \in 1..Len(s) - i : v[n] = s[i + n]
  <2>1. i + 1 \in Int /\ Len(s) \in Int /\ \A n \in i + 1..Len(s) : s[n] \in T
    BY <1>1
  <2>2. v \in Seq(T) /\ Len(v) = (IF i + 1 <= Len(s) THEN Len(s) - (i + 1) + 1 ELSE 0)
        /\ \A n \in 1..Len(s) - (i + 1) + 1 : v[n] = s[i + 1 + n - 1]
    BY <2>1, SubSeqProperties
  <2>3. Len(s) \in Nat /\ i \in Nat /\ 1 <= i /\ i <= Len(s)
    BY <1>1
  <2> HIDE DEF u
  <2>4. Len(s) - (i + 1) + 1 = Len(s) - i /\ (~ (i + 1 <= Len(s)) => Len(s) - i = 0)
    BY <2>3
  <2>5. \A n \in 1..Len(s) - i : i + 1 + n - 1 = i + n
    BY <2>3
  <2> HIDE DEF v
  <2> QED BY <2>2, <2>4, <2>5
<1> HIDE DEF u, v
<1>8. /\ u \o v \in Seq(T) /\ Len(u \o v) = Len(u) + Len(v)
      /\ \A n \in 1..Len(u) + Len(v) :
           (u \o v)[n] = IF n <= Len(u) THEN u[n] ELSE v[n - Len(u)]
  BY <1>6, <1>7, ConcatProperties
<1>9. /\ Without(s, i) \in Seq(T) /\ Len(Without(s, i)) = Len(s) - 1
      /\ \A n \in 1..(Len(s) - 1) : Without(s, i)[n] = IF n < i THEN s[n] ELSE s[n + 1]
  BY WithoutProperties
<1>10. Len(u) + Len(v) = Len(s) - 1
  BY <1>1, <1>6, <1>7
<1>11. ASSUME NEW n \in 1..(Len(s) - 1) PROVE (u \o v)[n] = Without(s, i)[n]
  <2>1. CASE n < i
    <3>1. n <= Len(u) /\ n \in 1..i - 1
      BY <1>1, <1>6, <2>1
    <3> QED BY <1>6, <1>8, <1>9, <1>10, <2>1, <3>1
  <2>2. CASE ~ (n < i)
    <3>1. ~ (n <= Len(u)) /\ n - Len(u) \in 1..Len(s) - i /\ i + (n - Len(u)) = n + 1
      BY <1>1, <1>6, <2>2
    <3>2. v[n - Len(u)] = s[n + 1]
      BY <1>7, <3>1
    <3> QED BY <1>8, <1>9, <1>10, <2>2, <3>1, <3>2
  <2> QED BY <2>1, <2>2
<1>12. u \o v = Without(s, i)
  BY <1>8, <1>9, <1>10, <1>11, SeqEqual
<1> QED BY <1>4, <1>5, <1>12

\* A chain stays one as long as its nodes stay as they are.
LEMMA ChainSame ==
  ASSUME NEW nodes, NEW later, NEW first, NEW final, NEW s, Chain(nodes, first, final, s),
         \A b \in Range(s) : later[b] = nodes[b]
  PROVE  Chain(later, first, final, s)
<1>1. DOMAIN s = 1..Len(s)
  BY LenProperties DEF Chain
<1>2. \A n \in 1..Len(s) : later[s[n]] = nodes[s[n]]
  BY <1>1 DEF Range
<1> QED BY <1>2 DEF Chain

\* What an operation has to leave alone: l may get another path, t, and the
\* nodes of neither stay as they are.
LEMMA Reshaped ==
  ASSUME NEW h, NEW R, NEW p, Shape(h, R, p), NEW l \in Lists,
         NEW g \in Heap, NEW Q, NEW t \in Seq(Addr),
         \A m \in Lists \ {l} : /\ m \in Q <=> m \in R
                                /\ g.head[m] = h.head[m] /\ g.tail[m] = h.tail[m],
         IF l \in Q THEN t = <<>> ELSE Chain(g.node, g.head[l], g.tail[l], t),
         \A b \in Addr : b \notin Range(p[l]) /\ b \notin Range(t) => g.node[b] = h.node[b],
         \A b \in Range(p[l]) : b \notin Range(t) => ~ g.node[b].allocated,
         \A b \in Range(t) : b \notin Range(p[l]) => ~ h.node[b].allocated,
         \A b \in Range(t) : g.node[b].data \in Data,
         \A i, j \in 1..Len(t) : g.node[t[i]].data = g.node[t[j]].data => i = j
  PROVE  Shape(g, Q, With(p, l, t))
<1> DEFINE q == [p EXCEPT ![l] = t]
<1>1. /\ q \in [Lists -> Seq(Addr)] /\ q[l] = t /\ \A m \in Lists \ {l} : q[m] = p[m]
      /\ \A m \in Lists : DOMAIN p[m] = 1..Len(p[m])
      /\ \A m \in Lists : Range(p[m]) \subseteq Addr
  <2>1. p \in [Lists -> Seq(Addr)]
    BY DEF Shape
  <2>2. \A m \in Lists : DOMAIN p[m] = 1..Len(p[m])
    BY <2>1, LenProperties
  <2>3. \A m \in Lists : Range(p[m]) \subseteq Addr
    BY <2>1, RangeOfSeq
  <2> QED BY <2>1, <2>2, <2>3
<1> HIDE DEF q
\* A node of a list other than l is none of t, for it is allocated.
<1>2. ASSUME NEW m \in Lists \ {l}, NEW b \in Range(p[m])
      PROVE  b \in Addr /\ b \notin Range(p[l]) /\ b \notin Range(t) /\ g.node[b] = h.node[b]
  <2>1. b \notin Range(p[l]) /\ b \in Addr
    BY <1>1 DEF Shape
  <2>2. h.node[b].allocated
    <3>1. PICK n \in 1..Len(p[m]) : p[m][n] = b
      BY <1>1 DEF Range
    <3>2. CASE m \in R
      <4>1. Len(p[m]) = 0
        BY <3>2, EmptySeq DEF Shape
      <4> QED BY <3>1, <4>1
    <3>3. CASE m \notin R
      BY <3>1, <3>3 DEF Shape, Chain
    <3> QED BY <3>2, <3>3
  <2> QED BY <2>1, <2>2
<1>3. ASSUME NEW m \in Lists
      PROVE  IF m \in Q THEN q[m] = <<>> ELSE Chain(g.node, g.head[m], g.tail[m], q[m])
  <2>1. CASE m = l
    BY <1>1, <2>1
  <2>2. CASE m # l /\ m \in Q
    BY <1>1, <2>2 DEF Shape
  <2>3. CASE m # l /\ m \notin Q
    <3>1. Chain(h.node, h.head[m], h.tail[m], p[m])
      BY <2>3 DEF Shape
    <3>2. Chain(g.node, h.head[m], h.tail[m], p[m])
      BY <1>2, <2>3, <3>1, ChainSame
    <3> QED BY <1>1, <2>3, <3>2
  <2> QED BY <2>1, <2>2, <2>3
<1>4. ASSUME NEW m \in Lists, NEW k \in Lists, m # k
      PROVE  Range(q[m]) \cap Range(q[k]) = {}
  <2>1. CASE m # l /\ k # l
    BY <1>1, <1>4, <2>1 DEF Shape
  <2>2. CASE m = l \/ k = l
    BY <1>1, <1>2, <1>4, <2>2
  <2> QED BY <2>1, <2>2
<1>5. ASSUME NEW a \in Addr, g.node[a].allocated
      PROVE  g.node[a].data \in Data /\ \E m \in Lists : a \in Range(q[m])
  <2>1. CASE a \in Range(t)
    BY <1>1, <2>1
  <2>2. CASE a \notin Range(t)
    <3>1. a \notin Range(p[l]) /\ g.node[a] = h.node[a]
      BY <1>5, <2>2
    <3>2. h.node[a].data \in Data /\ \E m \in Lists : a \in Range(p[m])
      BY <1>5, <3>1 DEF Shape
    <3> QED BY <1>1, <3>1, <3>2
  <2> QED BY <2>1, <2>2
<1>6. ASSUME NEW m \in Lists, NEW i \in 1..Len(q[m]), NEW j \in 1..Len(q[m]),
             g.node[q[m][i]].data = g.node[q[m][j]].data
      PROVE  i = j
  <2>1. CASE m = l
    BY <1>1, <1>6, <2>1
  <2>2. CASE m # l
    <3>1. q[m] = p[m] /\ p[m][i] \in Range(p[m]) /\ p[m][j] \in Range(p[m])
      BY <1>1, <2>2 DEF Range
    <3>2. h.node[p[m][i]].data = h.node[p[m][j]].data
      BY <1>2, <1>6, <2>2, <3>1
    <3> QED BY <3>1, <3>2 DEF Shape
  <2> QED BY <2>1, <2>2
<1>7. Shape(g, Q, q)
  BY <1>1, <1>3, <1>4, <1>5, <1>6 DEF Shape
<1> QED BY <1>7 DEF q, With

\* What there is to know of the path of a list that is there.
LEMMA PathFacts ==
  ASSUME NEW h, NEW R, NEW p, Shape(h, R, p), NEW l \in Lists, l \notin R
  PROVE  /\ p[l] \in Seq(Addr) /\ Len(p[l]) \in Nat /\ DOMAIN p[l] = 1..Len(p[l])
         /\ IsInjective(p[l]) /\ \A i \in 1..Len(p[l]) : p[l][i] \in Addr /\ p[l][i] # None
         /\ \A i, j \in 1..Len(p[l]) : p[l][i] = p[l][j] => i = j
         /\ p[l] = <<>> <=> Len(p[l]) = 0
         /\ h.head[l] = IF Len(p[l]) = 0 THEN None ELSE p[l][1]
         /\ h.tail[l] = IF Len(p[l]) = 0 THEN None ELSE p[l][Len(p[l])]
         /\ \A n \in 1..Len(p[l]) :
              /\ h.node[p[l][n]].allocated
              /\ h.node[p[l][n]].data \in Data
              /\ h.node[p[l][n]].next = IF n = Len(p[l]) THEN None ELSE p[l][n + 1]
              /\ h.node[p[l][n]].previous = IF n = 1 THEN None ELSE p[l][n - 1]
<1> DEFINE s == p[l]
<1>1. Chain(h.node, h.head[l], h.tail[l], s) /\ s \in Seq(Addr)
  BY DEF Shape, Chain
<1>2. /\ Len(s) \in Nat /\ DOMAIN s = 1..Len(s) /\ (s = <<>> <=> Len(s) = 0)
      /\ \A i \in 1..Len(s) : s[i] \in Addr
  BY <1>1, LenProperties, ElementOfSeq, EmptySeq
<1>3. \A i \in 1..Len(s) : h.node[s[i]].data \in Data
  <2>1. \A b \in Addr : h.node[b].allocated => h.node[b].data \in Data
    BY DEF Shape
  <2>2. \A i \in 1..Len(s) : h.node[s[i]].allocated
    BY <1>1 DEF Chain
  <2> QED BY <1>2, <2>1, <2>2
<1> HIDE DEF s
<1>4. IsInjective(s) /\ \A i, j \in 1..Len(s) : s[i] = s[j] => i = j
  BY <1>1, <1>2 DEF Chain, IsInjective
<1>5. \A i \in 1..Len(s) : s[i] # None
  BY <1>2, ListAssumption
<1>6. /\ h.head[l] = IF Len(s) = 0 THEN None ELSE s[1]
      /\ h.tail[l] = IF Len(s) = 0 THEN None ELSE s[Len(s)]
      /\ \A n \in 1..Len(s) :
           /\ h.node[s[n]].allocated
           /\ h.node[s[n]].next = IF n = Len(s) THEN None ELSE s[n + 1]
           /\ h.node[s[n]].previous = IF n = 1 THEN None ELSE s[n - 1]
  BY <1>1, <1>2 DEF Chain
<1> QED BY <1>1, <1>2, <1>3, <1>4, <1>5, <1>6 DEF s

\* enqueueToList puts the node it got at the end of the path.
LEMMA LinkedShape ==
  ASSUME NEW h, NEW R, NEW p, Shape(h, R, p), NEW l \in Lists, l \notin R, NEW x \in Data,
         NEW a \in Addr, ~ h.node[a].allocated,
         \A i \in 1..Len(p[l]) : h.node[p[l][i]].data # x
  PROVE  /\ Shape(Linked(h, l, x, a), R, With(p, l, Append(p[l], a)))
         /\ \A b \in Addr :
              Linked(h, l, x, a).node[b].data = IF b = a THEN x ELSE h.node[b].data
<1>1. PICK s : s = p[l]
  OBVIOUS
<1> DEFINE g == Linked(h, l, x, a)
           t == Append(s, a)
<1>2. s \in Seq(Addr) /\ Len(s) \in Nat /\ DOMAIN s = 1..Len(s)
  BY <1>1, PathFacts
<1>3. Len(s) \in Nat
  BY <1>2
<1>4. /\ \A i \in 1..Len(s) : s[i] \in Addr /\ s[i] # None
      /\ \A i, j \in 1..Len(s) : s[i] = s[j] => i = j
  <2>1. \A i \in 1..Len(s) : s[i] \in Addr /\ s[i] # None
    BY <1>1, PathFacts
  <2>2. \A i, j \in 1..Len(s) : s[i] = s[j] => i = j
    BY <1>1, PathFacts
  <2> QED BY <2>1, <2>2
<1>5. IsInjective(s) /\ Range(s) = {s[i] : i \in 1..Len(s)}
  <2>1. IsInjective(s)
    BY <1>1, PathFacts
  <2>2. Range(s) = {s[i] : i \in 1..Len(s)}
    BY <1>2 DEF Range
  <2> QED BY <2>1, <2>2
<1>6. /\ h.head[l] = IF Len(s) = 0 THEN None ELSE s[1]
      /\ h.tail[l] = IF Len(s) = 0 THEN None ELSE s[Len(s)]
  BY <1>1, PathFacts
<1>7. \A n \in 1..Len(s) :
        /\ h.node[s[n]].allocated
        /\ h.node[s[n]].data \in Data
        /\ h.node[s[n]].next = IF n = Len(s) THEN None ELSE s[n + 1]
        /\ h.node[s[n]].previous = IF n = 1 THEN None ELSE s[n - 1]
  BY <1>1, PathFacts
<1>8. h \in Heap
  BY DEF Shape
<1>9. a \notin Range(s) /\ a # None
  BY <1>7, <1>5, ListAssumption
<1>10. /\ Node(x, h.tail[l]) \in ListNode
       /\ Node(x, h.tail[l]) = [data |-> x, next |-> None, previous |-> h.tail[l], allocated |-> TRUE]
  BY <1>8 DEF Node, ListNode, Heap
<1>11. /\ g \in Heap
       /\ g.head = [h.head EXCEPT ![l] = IF Len(s) = 0 THEN a ELSE s[1]]
       /\ g.tail = [h.tail EXCEPT ![l] = a]
       /\ g.node[a] = Node(x, h.tail[l])
       /\ \A b \in Addr \ {a} :
            g.node[b] = IF Len(s) > 0 /\ b = s[Len(s)] THEN [h.node[b] EXCEPT !.next = a]
                        ELSE h.node[b]
  <2>1. CASE Len(s) = 0
    <3>1. g = [h EXCEPT !.node[a] = Node(x, None), !.head[l] = a, !.tail[l] = a]
          /\ h.tail[l] = None
      BY <1>6, <2>1 DEF Linked
    <3> HIDE DEF g
    <3>2. /\ g.node = [h.node EXCEPT ![a] = Node(x, h.tail[l])]
          /\ g.head = [h.head EXCEPT ![l] = a] /\ g.tail = [h.tail EXCEPT ![l] = a]
          /\ g = [node |-> g.node, head |-> g.head, tail |-> g.tail]
      BY <1>8, <3>1 DEF Heap
    <3>3. /\ g.node \in [Addr -> ListNode] /\ g.node[a] = Node(x, h.tail[l])
          /\ \A b \in Addr \ {a} : g.node[b] = h.node[b]
      BY <1>8, <1>10, <3>2 DEF Heap
    <3>4. g \in Heap
      BY <1>8, <3>2, <3>3 DEF Heap
    <3> QED BY <2>1, <3>2, <3>3, <3>4
  <2>2. CASE Len(s) > 0
    <3> DEFINE z == s[Len(s)]
    <3>1. h.head[l] # None /\ h.tail[l] = z /\ z \in Addr /\ z # a
      BY <1>2, <1>4, <1>6, <1>5, <1>9, <2>2
    <3>2. g = [h EXCEPT !.node = [@ EXCEPT ![a] = Node(x, h.tail[l]), ![z].next = a],
                        !.tail[l] = a]
      BY <3>1 DEF Linked
    <3>3. h.head = [h.head EXCEPT ![l] = s[1]]
      BY <1>6, <1>8, <2>2 DEF Heap
    <3> HIDE DEF g, z
    <3>4. g.head = h.head /\ g.tail = [h.tail EXCEPT ![l] = a]
          /\ g.node = [h.node EXCEPT ![a] = Node(x, h.tail[l]), ![z].next = a]
          /\ g = [node |-> g.node, head |-> g.head, tail |-> g.tail]
      BY <1>8, <3>2 DEF Heap
    <3>5. h.node \in [Addr -> ListNode] /\ [h.node[z] EXCEPT !.next = a] \in ListNode
      BY <1>8, <3>1 DEF Heap, ListNode
    <3>6. g.node = [b \in Addr |-> IF b = z THEN [h.node[z] EXCEPT !.next = a]
                                   ELSE IF b = a THEN Node(x, h.tail[l]) ELSE h.node[b]]
      BY <3>1, <3>4, <3>5
    <3>7. /\ g.node \in [Addr -> ListNode] /\ g.node[a] = Node(x, h.tail[l])
          /\ \A b \in Addr \ {a} :
               g.node[b] = IF b = z THEN [h.node[b] EXCEPT !.next = a] ELSE h.node[b]
      <4> HIDE DEF Heap
      <4>1. \A b \in Addr : b # a => h.node[b] \in ListNode
        BY <3>5
      <4>2. \A b \in Addr : g.node[b] = IF b = z THEN [h.node[z] EXCEPT !.next = a]
                                   ELSE IF b = a THEN Node(x, h.tail[l]) ELSE h.node[b]
        BY <3>6
      <4>3. \A b \in Addr : g.node[b] \in ListNode
        BY <1>10, <3>1, <3>5, <4>1, <4>2
      <4>4. g.node \in [Addr -> ListNode]
        BY <3>6, <4>2, <4>3
      <4>5. g.node[a] = Node(x, h.tail[l])
        BY <3>1, <4>2
      <4>6. \A b \in Addr \ {a} :
              g.node[b] = IF b = z THEN [h.node[b] EXCEPT !.next = a] ELSE h.node[b]
        BY <4>2
      <4> QED BY <4>4, <4>5, <4>6
    <3>8. g \in Heap
      BY <1>8, <3>4, <3>7 DEF Heap
    <3> QED BY <2>2, <3>3, <3>4, <3>7, <3>8 DEF z
  <2> QED BY <1>2, <2>1, <2>2
<1> HIDE DEF g
<1>12. /\ t \in Seq(Addr) /\ Len(t) = Len(s) + 1 /\ Range(t) = Range(s) \cup {a}
       /\ IsInjective(t) /\ t[Len(s) + 1] = a /\ t # <<>>
       /\ \A i \in 1..Len(s) : t[i] = s[i]
  <2>1. t \in Seq(Addr) /\ Range(t) = Range(s) \cup {a} /\ IsInjective(t) /\ t # <<>>
    BY <1>2, <1>5, <1>9, EnqueueProperties
  <2>2. /\ Len(t) = Len(s) + 1 /\ t[Len(s) + 1] = a /\ \A i \in 1..Len(s) : t[i] = s[i]
    BY <1>2, AppendProperties
  <2> QED BY <2>1, <2>2
<1>13. /\ g.node[a].allocated /\ g.node[a].data = x
       /\ g.node[a].next = None /\ g.node[a].previous = h.tail[l]
  BY <1>10, <1>11
<1>14. ASSUME NEW b \in Addr \ {a}
      PROVE  /\ g.node[b].data = h.node[b].data /\ g.node[b].previous = h.node[b].previous
             /\ g.node[b].allocated = h.node[b].allocated
             /\ g.node[b].next = IF Len(s) > 0 /\ b = s[Len(s)] THEN a ELSE h.node[b].next
  <2>1. h.node[b] \in ListNode
    BY <1>8 DEF Heap
  <2> QED BY <1>11, <2>1 DEF ListNode
<1>15. Chain(g.node, g.head[l], g.tail[l], t)
  <2>1. g.head[l] = t[1] /\ g.tail[l] = t[Len(t)]
    <3>1. g.head[l] = (IF Len(s) = 0 THEN a ELSE s[1]) /\ g.tail[l] = a
      BY <1>8, <1>11 DEF Heap
    <3> HIDE DEF t
    <3>2. Len(s) = 0 \/ 1 \in 1..Len(s)
      BY <1>2
    <3> QED BY <1>2, <1>12, <3>1, <3>2
  <2>2. ASSUME NEW n \in 1..Len(s)
        PROVE  /\ g.node[s[n]].allocated
               /\ g.node[s[n]].next = t[n + 1]
               /\ g.node[s[n]].previous = IF n = 1 THEN None ELSE t[n - 1]
    <3> HIDE DEF t
    <3>1. s[n] \in Addr \ {a} /\ Len(s) > 0
      BY <1>2, <1>4, <1>5, <1>9
    <3>2. s[n] = s[Len(s)] <=> n = Len(s)
      <4>1. Len(s) \in 1..Len(s)
        BY <1>3
      <4> QED BY <1>4, <4>1
    <3>3. n # Len(s) => n + 1 \in 1..Len(s)
      BY <1>3
    <3>4. n # 1 => n - 1 \in 1..Len(s)
      BY <1>3
    <3>5. g.node[s[n]].next = IF n = Len(s) THEN a ELSE s[n + 1]
      BY <1>7, <1>14, <3>1, <3>2
    <3>6. g.node[s[n]].next = t[n + 1]
      BY <1>12, <3>3, <3>5
    <3>7. g.node[s[n]].allocated /\ g.node[s[n]].previous = IF n = 1 THEN None ELSE t[n - 1]
      <4>1. g.node[s[n]].allocated /\ g.node[s[n]].previous = h.node[s[n]].previous
        BY <1>7, <1>14, <3>1
      <4>2. n # 1 => t[n - 1] = s[n - 1]
        BY <1>12, <3>4
      <4> QED BY <1>7, <4>1, <4>2
    <3> QED BY <3>6, <3>7
  <2>3. g.node[a].previous = IF Len(t) = 1 THEN None ELSE t[Len(t) - 1]
    <3> HIDE DEF t
    <3>1. Len(t) - 1 = Len(s) /\ (Len(t) = 1 <=> Len(s) = 0) /\ (Len(s) # 0 => Len(s) \in 1..Len(s))
      BY <1>2, <1>12
    <3>2. Len(s) # 0 => t[Len(s)] = s[Len(s)]
      BY <1>12, <3>1
    <3> QED BY <1>6, <1>13, <3>1, <3>2
  <2>4. ASSUME NEW n \in 1..Len(t)
        PROVE  /\ g.node[t[n]].allocated
               /\ g.node[t[n]].next = IF n = Len(t) THEN None ELSE t[n + 1]
               /\ g.node[t[n]].previous = IF n = 1 THEN None ELSE t[n - 1]
    <3> HIDE DEF t
    <3>1. CASE n \in 1..Len(s)
      <4>1. n # Len(t) /\ t[n] = s[n]
        BY <1>2, <1>12, <3>1
      <4> QED BY <2>2, <3>1, <4>1
    <3>2. CASE n = Len(t)
      <4>1. t[n] = a
        BY <1>12, <3>2
      <4> QED BY <1>13, <2>3, <3>2, <4>1
    <3>3. n \in 1..Len(s) \/ n = Len(t)
      BY <1>2, <1>12
    <3> QED BY <3>1, <3>2, <3>3
  <2> HIDE DEF t
  <2> QED BY <1>12, <2>1, <2>4 DEF Chain
<1>16. \A m \in Lists \ {l} : g.head[m] = h.head[m] /\ g.tail[m] = h.tail[m]
  BY <1>8, <1>11 DEF Heap
<1>17. \A b \in Addr : b \notin Range(s) /\ b \notin Range(t) => g.node[b] = h.node[b]
  <2> HIDE DEF t
  <2>1. ASSUME NEW b \in Addr, b \notin Range(s), b \notin Range(t) PROVE g.node[b] = h.node[b]
    <3>1. b # a /\ ~ (Len(s) > 0 /\ b = s[Len(s)])
      BY <1>2, <1>5, <1>12, <2>1
    <3> QED BY <1>11, <3>1
  <2> QED BY <2>1
<1>18. \A b \in Range(t) : (b \notin Range(s) => b = a) /\ g.node[b].data \in Data
  <2> HIDE DEF t
  <2>1. \A i \in 1..Len(s) : s[i] \in Addr \ {a} /\ h.node[s[i]].data \in Data
    BY <1>7, <1>4, <1>5, <1>9
  <2>2. \A b \in Range(s) : g.node[b].data \in Data
    BY <1>14, <1>5, <2>1
  <2> QED BY <1>12, <1>13, <2>2
<1>19. ASSUME NEW i \in 1..Len(t), NEW j \in 1..Len(t), g.node[t[i]].data = g.node[t[j]].data
       PROVE  i = j
  <2>1. \A k \in 1..Len(s) : h.node[s[k]].data # x
    BY <1>1
  <2>2. \A k, n \in 1..Len(s) : h.node[s[k]].data = h.node[s[n]].data => k = n
    BY <1>1 DEF Shape
  <2> HIDE DEF t
  <2>3. \A k \in 1..Len(s) : g.node[t[k]].data = h.node[s[k]].data
    BY <1>4, <1>5, <1>9, <1>12, <1>14
  <2>4. g.node[t[Len(s) + 1]].data = x
    BY <1>12, <1>13
  <2>5. \A k \in 1..Len(t) : k \in 1..Len(s) \/ k = Len(s) + 1
    BY <1>2, <1>12
  <2> QED BY <1>19, <2>1, <2>2, <2>3, <2>4, <2>5
<1>20. \A b \in Range(s) : b \in Range(t)
  BY <1>12
<1>21. Shape(g, R, With(p, l, t))
  <2> HIDE DEF t
  <2>1. g \in Heap /\ t \in Seq(Addr) /\ \A b \in Range(t) : b \notin Range(p[l]) => ~ h.node[b].allocated
    BY <1>1, <1>11, <1>12, <1>18
  <2>2. \A b \in Range(p[l]) : b \notin Range(t) => ~ g.node[b].allocated
    BY <1>1, <1>20
  <2>3. \A b \in Addr : b \notin Range(p[l]) /\ b \notin Range(t) => g.node[b] = h.node[b]
    BY <1>1, <1>17
  <2>4. \A m \in Lists \ {l} : /\ m \in R <=> m \in R
                              /\ g.head[m] = h.head[m] /\ g.tail[m] = h.tail[m]
    BY <1>16
  <2>5. \A i, j \in 1..Len(t) : g.node[t[i]].data = g.node[t[j]].data => i = j
    BY <1>19
  <2> QED BY <1>15, <1>18, <2>1, <2>2, <2>3, <2>4, <2>5, Reshaped
<1> QED BY <1>1, <1>13, <1>14, <1>21 DEF g

\* Setting one pointer of one node.
LEMMA NextSet ==
  ASSUME NEW nodes \in [Addr -> ListNode], NEW b \in Addr, NEW v \in Addr \cup {None}
  PROVE  LET later == [nodes EXCEPT ![b].next = v] IN
         /\ later \in [Addr -> ListNode]
         /\ \A c \in Addr : /\ later[c].data = nodes[c].data
                            /\ later[c].allocated = nodes[c].allocated
                            /\ later[c].previous = nodes[c].previous
                            /\ later[c].next = IF c = b THEN v ELSE nodes[c].next
<1> DEFINE later == [nodes EXCEPT ![b].next = v]
<1>1. nodes[b] \in ListNode
  OBVIOUS
<1> DEFINE y == [nodes[b] EXCEPT !.next = v]
<1>2. y \in ListNode /\ y.data = nodes[b].data /\ y.allocated = nodes[b].allocated
      /\ y.previous = nodes[b].previous /\ y.next = v
  BY <1>1 DEF ListNode
<1>3. later = [nodes EXCEPT ![b] = y]
  OBVIOUS
<1> HIDE DEF y, later
<1>4. later \in [Addr -> ListNode]
  BY <1>2, <1>3
<1>5. ASSUME NEW c \in Addr
      PROVE  /\ later[c].data = nodes[c].data
             /\ later[c].allocated = nodes[c].allocated
             /\ later[c].previous = nodes[c].previous
             /\ later[c].next = IF c = b THEN v ELSE nodes[c].next
  <2>1. later[c] = IF c = b THEN y ELSE nodes[c]
    BY <1>3
  <2> QED BY <1>2, <2>1
<1>6. /\ later \in [Addr -> ListNode]
      /\ \A c \in Addr : /\ later[c].data = nodes[c].data
                         /\ later[c].allocated = nodes[c].allocated
                         /\ later[c].previous = nodes[c].previous
                         /\ later[c].next = IF c = b THEN v ELSE nodes[c].next
  BY <1>4, <1>5
<1> QED BY <1>6 DEF later

LEMMA PreviousSet ==
  ASSUME NEW nodes \in [Addr -> ListNode], NEW b \in Addr, NEW v \in Addr \cup {None}
  PROVE  LET later == [nodes EXCEPT ![b].previous = v] IN
         /\ later \in [Addr -> ListNode]
         /\ \A c \in Addr : /\ later[c].data = nodes[c].data
                            /\ later[c].allocated = nodes[c].allocated
                            /\ later[c].next = nodes[c].next
                            /\ later[c].previous = IF c = b THEN v ELSE nodes[c].previous
<1> DEFINE later == [nodes EXCEPT ![b].previous = v]
<1>1. nodes[b] \in ListNode
  OBVIOUS
<1> DEFINE y == [nodes[b] EXCEPT !.previous = v]
<1>2. y \in ListNode /\ y.data = nodes[b].data /\ y.allocated = nodes[b].allocated
      /\ y.next = nodes[b].next /\ y.previous = v
  BY <1>1 DEF ListNode
<1>3. later = [nodes EXCEPT ![b] = y]
  OBVIOUS
<1> HIDE DEF y, later
<1>4. later \in [Addr -> ListNode]
  BY <1>2, <1>3
<1>5. ASSUME NEW c \in Addr
      PROVE  /\ later[c].data = nodes[c].data
             /\ later[c].allocated = nodes[c].allocated
             /\ later[c].next = nodes[c].next
             /\ later[c].previous = IF c = b THEN v ELSE nodes[c].previous
  <2>1. later[c] = IF c = b THEN y ELSE nodes[c]
    BY <1>3
  <2> QED BY <1>2, <2>1
<1>6. /\ later \in [Addr -> ListNode]
      /\ \A c \in Addr : /\ later[c].data = nodes[c].data
                         /\ later[c].allocated = nodes[c].allocated
                         /\ later[c].next = nodes[c].next
                         /\ later[c].previous = IF c = b THEN v ELSE nodes[c].previous
  BY <1>4, <1>5
<1> QED BY <1>6 DEF later

\* free touches one node and no list.
LEMMA FreedIs ==
  ASSUME NEW u \in Heap, NEW a \in Addr
  PROVE  /\ Freed(u, a) \in Heap /\ Freed(u, a).head = u.head /\ Freed(u, a).tail = u.tail
         /\ \A b \in Addr : Freed(u, a).node[b] = IF b = a THEN Garbage ELSE u.node[b]
<1> DEFINE g == Freed(u, a)
<1>1. Garbage \in ListNode
  BY DEF Garbage, ListNode
<1>2. g = [u EXCEPT !.node[a] = Garbage]
  BY DEF Freed
<1> HIDE DEF g
<1>3. /\ g.node = [u.node EXCEPT ![a] = Garbage] /\ g.head = u.head /\ g.tail = u.tail
      /\ g = [node |-> g.node, head |-> g.head, tail |-> g.tail]
  BY <1>2 DEF Heap
<1>4. u.node \in [Addr -> ListNode]
  BY DEF Heap
<1>5. /\ g.node \in [Addr -> ListNode]
      /\ \A b \in Addr : g.node[b] = IF b = a THEN Garbage ELSE u.node[b]
  BY <1>1, <1>3, <1>4
<1>6. g \in Heap
  BY <1>3, <1>5 DEF Heap
<1> QED BY <1>3, <1>5, <1>6 DEF g

\* g is h with the node at i of the path s of l unlinked and freed: its
\* neighbours are each other's, or where they lack, the ends of the list.
Bridged(h, g, l, s, i) ==
  /\ g \in Heap
  /\ g.head = [h.head EXCEPT ![l] = IF i # 1 THEN s[1]
                                   ELSE IF Len(s) = 1 THEN None ELSE s[2]]
  /\ g.tail = [h.tail EXCEPT ![l] = IF i # Len(s) THEN s[Len(s)]
                                   ELSE IF Len(s) = 1 THEN None ELSE s[Len(s) - 1]]
  /\ ~ g.node[s[i]].allocated
  /\ \A b \in Addr \ {s[i]} :
       /\ g.node[b].data = h.node[b].data
       /\ g.node[b].allocated = h.node[b].allocated
       /\ g.node[b].next = IF i # 1 /\ b = s[i - 1]
                             THEN IF i = Len(s) THEN None ELSE s[i + 1]
                             ELSE h.node[b].next
       /\ g.node[b].previous = IF i # Len(s) /\ b = s[i + 1]
                                 THEN IF i = 1 THEN None ELSE s[i - 1]
                                 ELSE h.node[b].previous

\* The four cases of SearchAndRemovePCB come to the same.
LEMMA UnlinkedIs ==
  ASSUME NEW h, NEW R, NEW p, Shape(h, R, p), NEW l \in Lists, l \notin R,
         NEW s, s = p[l], NEW i \in 1..Len(s)
  PROVE  Bridged(h, Freed(Unlinked(h, l, s[i]), s[i]), l, s, i)
<1> DEFINE a == s[i]
           u == Unlinked(h, l, a)
           g == Freed(u, a)
<1>1. Len(s) \in Nat
  BY PathFacts
<1>2. \A n \in 1..Len(s) : s[n] \in Addr /\ s[n] # None
  BY PathFacts
<1>3. \A n, m \in 1..Len(s) : s[n] = s[m] => n = m
  BY PathFacts
<1>4. /\ h.head[l] = IF Len(s) = 0 THEN None ELSE s[1]
      /\ h.tail[l] = IF Len(s) = 0 THEN None ELSE s[Len(s)]
  BY PathFacts
<1>5. /\ h.node[a].next = IF i = Len(s) THEN None ELSE s[i + 1]
      /\ h.node[a].previous = IF i = 1 THEN None ELSE s[i - 1]
  BY PathFacts
<1>6. h \in Heap
  BY DEF Shape
<1>7. /\ h.node \in [Addr -> ListNode] /\ h.head \in [Lists -> Addr \cup {None}]
      /\ h.tail \in [Lists -> Addr \cup {None}]
      /\ h = [node |-> h.node, head |-> h.head, tail |-> h.tail]
  BY <1>6 DEF Heap
<1>8. Len(s) # 0 /\ 1 \in 1..Len(s) /\ Len(s) \in 1..Len(s)
  BY <1>1
<1>9. h.head[l] = s[1] /\ h.tail[l] = s[Len(s)] /\ a \in Addr
  BY <1>2, <1>4, <1>8
<1>10. (h.head[l] = h.tail[l] <=> Len(s) = 1) /\ (a = h.head[l] <=> i = 1) /\ (a = h.tail[l] <=> i = Len(s))
  BY <1>3, <1>8, <1>9
<1>11. /\ i # Len(s) => i + 1 \in 1..Len(s) /\ s[i + 1] \in Addr
       /\ i # 1 => i - 1 \in 1..Len(s) /\ s[i - 1] \in Addr
  <2>1. i # Len(s) => i + 1 \in 1..Len(s)
    BY <1>1
  <2>2. i # 1 => i - 1 \in 1..Len(s)
    BY <1>1
  <2> QED BY <1>2, <2>1, <2>2
<1> HIDE DEF u, g
<1>12. /\ u \in Heap
       /\ u.head = [h.head EXCEPT ![l] = IF i # 1 THEN s[1]
                                         ELSE IF Len(s) = 1 THEN None ELSE s[2]]
       /\ u.tail = [h.tail EXCEPT ![l] = IF i # Len(s) THEN s[Len(s)]
                                         ELSE IF Len(s) = 1 THEN None ELSE s[Len(s) - 1]]
       /\ \A b \in Addr \ {a} :
            /\ u.node[b].data = h.node[b].data
            /\ u.node[b].allocated = h.node[b].allocated
            /\ u.node[b].next = IF i # 1 /\ b = s[i - 1]
                                  THEN IF i = Len(s) THEN None ELSE s[i + 1]
                                  ELSE h.node[b].next
            /\ u.node[b].previous = IF i # Len(s) /\ b = s[i + 1]
                                      THEN IF i = 1 THEN None ELSE s[i - 1]
                                      ELSE h.node[b].previous
  <2>1. CASE Len(s) = 1
    <3>1. i = 1 /\ i = Len(s)
      BY <1>1, <2>1
    <3>2. u = [h EXCEPT !.head[l] = None, !.tail[l] = None]
      BY <1>10, <2>1 DEF Unlinked, u
    <3> HIDE DEF a
    <3>3. /\ u.node = h.node /\ u.head = [h.head EXCEPT ![l] = None]
          /\ u.tail = [h.tail EXCEPT ![l] = None]
          /\ u = [node |-> u.node, head |-> u.head, tail |-> u.tail]
      BY <1>7, <3>2
    <3>4. u \in Heap
      BY <1>7, <3>3 DEF Heap
    <3> QED BY <2>1, <3>1, <3>3, <3>4
  <2>2. CASE Len(s) # 1 /\ i = 1
    <3> DEFINE z == s[2]
    <3>1. i # Len(s) /\ i + 1 = 2
      BY <2>2
    <3>2. z \in Addr /\ h.node[a].next = z
      BY <1>5, <1>11, <3>1
    <3>3. u = [h EXCEPT !.head[l] = z, !.node[z].previous = None]
      BY <1>10, <2>2, <3>2 DEF Unlinked, u
    <3> HIDE DEF a, z
    <3>4. /\ u.node = [h.node EXCEPT ![z].previous = None]
          /\ u.head = [h.head EXCEPT ![l] = z] /\ u.tail = h.tail
          /\ u = [node |-> u.node, head |-> u.head, tail |-> u.tail]
      BY <1>7, <3>3
    <3>5. /\ u.node \in [Addr -> ListNode]
          /\ \A c \in Addr : /\ u.node[c].data = h.node[c].data
                             /\ u.node[c].allocated = h.node[c].allocated
                             /\ u.node[c].next = h.node[c].next
                             /\ u.node[c].previous = IF c = z THEN None ELSE h.node[c].previous
      <4>1. h.node \in [Addr -> ListNode] /\ z \in Addr /\ None \in Addr \cup {None}
        BY <1>7, <3>2
      <4>2. u.node = [h.node EXCEPT ![z].previous = None]
        BY <3>4
      <4> DEFINE m == [h.node EXCEPT ![z].previous = None]
      <4>3. /\ m \in [Addr -> ListNode]
            /\ \A c \in Addr : /\ m[c].data = h.node[c].data
                               /\ m[c].allocated = h.node[c].allocated
                               /\ m[c].next = h.node[c].next
                               /\ m[c].previous = IF c = z THEN None ELSE h.node[c].previous
        BY <4>1, PreviousSet
      <4>4. u.node = m
        BY <4>2
      <4> HIDE DEF m
      <4> QED BY <4>3, <4>4
    <3>6. u \in Heap
      BY <1>7, <3>2, <3>4, <3>5 DEF Heap
    <3>7. h.tail = [h.tail EXCEPT ![l] = s[Len(s)]]
      BY <1>7, <1>9
    <3> QED BY <2>2, <3>1, <3>4, <3>5, <3>6, <3>7 DEF z
  <2>3. CASE Len(s) # 1 /\ i = Len(s)
    <3> DEFINE z == s[Len(s) - 1]
    <3>1. i # 1 /\ i - 1 = Len(s) - 1
      BY <2>3
    <3>2. z \in Addr /\ h.node[a].previous = z
      BY <1>5, <1>11, <3>1
    <3>3. u = [h EXCEPT !.tail[l] = z, !.node[z].next = None]
      BY <1>10, <2>3, <3>1, <3>2 DEF Unlinked, u
    <3> HIDE DEF a, z
    <3>4. /\ u.node = [h.node EXCEPT ![z].next = None]
          /\ u.tail = [h.tail EXCEPT ![l] = z] /\ u.head = h.head
          /\ u = [node |-> u.node, head |-> u.head, tail |-> u.tail]
      BY <1>7, <3>3
    <3>5. /\ u.node \in [Addr -> ListNode]
          /\ \A c \in Addr : /\ u.node[c].data = h.node[c].data
                             /\ u.node[c].allocated = h.node[c].allocated
                             /\ u.node[c].previous = h.node[c].previous
                             /\ u.node[c].next = IF c = z THEN None ELSE h.node[c].next
      <4>1. h.node \in [Addr -> ListNode] /\ z \in Addr /\ None \in Addr \cup {None}
        BY <1>7, <3>2
      <4>2. u.node = [h.node EXCEPT ![z].next = None]
        BY <3>4
      <4> DEFINE m == [h.node EXCEPT ![z].next = None]
      <4>3. /\ m \in [Addr -> ListNode]
            /\ \A c \in Addr : /\ m[c].data = h.node[c].data
                               /\ m[c].allocated = h.node[c].allocated
                               /\ m[c].previous = h.node[c].previous
                               /\ m[c].next = IF c = z THEN None ELSE h.node[c].next
        BY <4>1, NextSet
      <4>4. u.node = m
        BY <4>2
      <4> HIDE DEF m
      <4> QED BY <4>3, <4>4
    <3>6. u \in Heap
      BY <1>7, <3>2, <3>4, <3>5 DEF Heap
    <3>7. h.head = [h.head EXCEPT ![l] = s[1]]
      BY <1>7, <1>9
    <3> QED BY <2>3, <3>1, <3>4, <3>5, <3>6, <3>7 DEF z
  <2>4. CASE i # 1 /\ i # Len(s)
    <3> DEFINE y == s[i - 1]
               z == s[i + 1]
               m == [h.node EXCEPT ![y].next = z]
    <3>1. Len(s) # 1
      <4>1. \A n \in Nat : i \in 1..n /\ n = 1 => i = 1
        OBVIOUS
      <4> QED BY <1>1, <2>4, <4>1
    <3>2. y \in Addr /\ z \in Addr /\ h.node[a].previous = y /\ h.node[a].next = z
      BY <1>5, <1>11, <2>4
    <3>3. u = [h EXCEPT !.node[y].next = z, !.node[z].previous = y]
      BY <1>10, <2>4, <3>1, <3>2 DEF Unlinked, u
    <3> HIDE DEF a, y, z
    <3>4. /\ u.node = [m EXCEPT ![z].previous = y]
          /\ u.tail = h.tail /\ u.head = h.head
          /\ u = [node |-> u.node, head |-> u.head, tail |-> u.tail]
      BY <1>7, <3>2, <3>3
    <3>5. /\ m \in [Addr -> ListNode]
          /\ \A c \in Addr : /\ m[c].data = h.node[c].data
                             /\ m[c].allocated = h.node[c].allocated
                             /\ m[c].previous = h.node[c].previous
                             /\ m[c].next = IF c = y THEN z ELSE h.node[c].next
      BY <1>7, <3>2, NextSet
    <3> HIDE DEF m
    <3>6. /\ u.node \in [Addr -> ListNode]
          /\ \A c \in Addr : /\ u.node[c].data = m[c].data
                             /\ u.node[c].allocated = m[c].allocated
                             /\ u.node[c].next = m[c].next
                             /\ u.node[c].previous = IF c = z THEN y ELSE m[c].previous
      BY <3>2, <3>4, <3>5, PreviousSet
    <3>7. u \in Heap
      BY <1>7, <3>4, <3>6 DEF Heap
    <3>8. h.head = [h.head EXCEPT ![l] = s[1]] /\ h.tail = [h.tail EXCEPT ![l] = s[Len(s)]]
      BY <1>7, <1>9
    <3> QED BY <2>4, <3>4, <3>5, <3>6, <3>7, <3>8 DEF y, z
  <2> QED BY <2>1, <2>2, <2>3, <2>4
<1>13. /\ g \in Heap /\ g.head = u.head /\ g.tail = u.tail
       /\ \A b \in Addr : g.node[b] = IF b = a THEN Garbage ELSE u.node[b]
  <2> HIDE DEF a
  <2> QED BY <1>9, <1>12, FreedIs DEF g
<1>14. ~ g.node[a].allocated
  BY <1>9, <1>13 DEF Garbage
<1>15. \A b \in Addr \ {a} : g.node[b] = u.node[b]
  BY <1>13
<1> HIDE DEF a
<1>16. Freed(Unlinked(h, l, a), a) = g
  BY DEF g, u
<1>17. \A b \in Addr \ {a} :
         /\ g.node[b].data = h.node[b].data
         /\ g.node[b].allocated = h.node[b].allocated
         /\ g.node[b].next = IF i # 1 /\ b = s[i - 1]
                               THEN IF i = Len(s) THEN None ELSE s[i + 1]
                               ELSE h.node[b].next
         /\ g.node[b].previous = IF i # Len(s) /\ b = s[i + 1]
                                   THEN IF i = 1 THEN None ELSE s[i - 1]
                                   ELSE h.node[b].previous
  BY <1>12, <1>15
<1>18. Bridged(h, g, l, s, i)
  BY <1>12, <1>13, <1>14, <1>17 DEF Bridged, a
<1> QED BY <1>16, <1>18 DEF a

\* Taking the node at i out and freeing it takes it, and nothing else, out of
\* the path.
LEMMA UnlinkedShape ==
  ASSUME NEW h, NEW R, NEW p, Shape(h, R, p), NEW l \in Lists, l \notin R,
         NEW i \in 1..Len(p[l]), NEW a, a = p[l][i],
         NEW g, g = Freed(Unlinked(h, l, a), a)
  PROVE  /\ Shape(g, R, With(p, l, Without(p[l], i)))
         /\ ~ g.node[a].allocated
         /\ \A b \in Addr \ {a} : g.node[b].data = h.node[b].data
<1>1. PICK s : s = p[l] /\ a = s[i]
  OBVIOUS
<1> DEFINE t == Without(s, i)
<1>2. i \in 1..Len(s)
  BY <1>1
<1>3. s \in Seq(Addr) /\ DOMAIN s = 1..Len(s)
  BY <1>1, PathFacts
<1>4. Len(s) \in Nat
  BY <1>3
<1>5. IsInjective(s)
  BY <1>1, PathFacts
<1>6. \A n \in 1..Len(s) : s[n] \in Addr
  BY <1>1, PathFacts
<1>7. \A n, m \in 1..Len(s) : s[n] = s[m] => n = m
  BY <1>1, PathFacts
<1>8. \A n \in 1..Len(s) :
        /\ h.node[s[n]].allocated
        /\ h.node[s[n]].data \in Data
        /\ h.node[s[n]].next = IF n = Len(s) THEN None ELSE s[n + 1]
        /\ h.node[s[n]].previous = IF n = 1 THEN None ELSE s[n - 1]
  BY <1>1, PathFacts
<1>9. /\ g \in Heap
      /\ g.head = [h.head EXCEPT ![l] = IF i # 1 THEN s[1]
                                       ELSE IF Len(s) = 1 THEN None ELSE s[2]]
      /\ g.tail = [h.tail EXCEPT ![l] = IF i # Len(s) THEN s[Len(s)]
                                       ELSE IF Len(s) = 1 THEN None ELSE s[Len(s) - 1]]
      /\ ~ g.node[a].allocated
      /\ \A b \in Addr \ {a} :
           /\ g.node[b].data = h.node[b].data
           /\ g.node[b].allocated = h.node[b].allocated
           /\ g.node[b].next = IF i # 1 /\ b = s[i - 1]
                                 THEN IF i = Len(s) THEN None ELSE s[i + 1]
                                 ELSE h.node[b].next
           /\ g.node[b].previous = IF i # Len(s) /\ b = s[i + 1]
                                     THEN IF i = 1 THEN None ELSE s[i - 1]
                                     ELSE h.node[b].previous
  <2>1. Bridged(h, g, l, s, i)
    BY <1>1, <1>2, UnlinkedIs
  <2> QED BY <1>1, <2>1 DEF Bridged
<1>10. t \in Seq(Addr) /\ Len(t) = Len(s) - 1
       /\ \A n \in 1..(Len(s) - 1) : t[n] = IF n < i THEN s[n] ELSE s[n + 1]
  BY <1>2, <1>3, WithoutProperties
<1>11. IsInjective(t) /\ Range(t) = Range(s) \ {a}
  BY <1>1, <1>2, <1>3, <1>5, WithoutProperties
<1> HIDE DEF t
<1>12. h \in Heap /\ h.node \in [Addr -> ListNode]
       /\ h.head \in [Lists -> Addr \cup {None}] /\ h.tail \in [Lists -> Addr \cup {None}]
  BY DEF Shape, Heap
<1>13. g.node \in [Addr -> ListNode]
  BY <1>9 DEF Heap
\* The entry at n of t was at j in s.
<1>14. ASSUME NEW n \in 1..(Len(s) - 1)
       PROVE  \E j \in 1..Len(s) : j = (IF n < i THEN n ELSE n + 1) /\ t[n] = s[j] /\ j # i
                                  /\ s[j] \in Addr \ {a}
  <2> DEFINE j == IF n < i THEN n ELSE n + 1
  <2>1. j \in 1..Len(s) /\ j # i
    BY <1>2, <1>4
  <2>2. t[n] = s[j]
    BY <1>10
  <2>3. s[j] \in Addr \ {a}
    BY <1>1, <1>2, <1>6, <1>7, <2>1
  <2> QED BY <2>1, <2>2, <2>3
<1>15. \A n \in 1..Len(t) : n \in 1..(Len(s) - 1)
  BY <1>10
<1>16. ASSUME NEW n \in 1..Len(t)
       PROVE  /\ g.node[t[n]].allocated
              /\ g.node[t[n]].next = IF n = Len(t) THEN None ELSE t[n + 1]
              /\ g.node[t[n]].previous = IF n = 1 THEN None ELSE t[n - 1]
  <2>1. PICK j \in 1..Len(s) : j = (IF n < i THEN n ELSE n + 1) /\ t[n] = s[j] /\ j # i
                             /\ s[j] \in Addr \ {a}
    BY <1>14, <1>15
  <2>2. g.node[t[n]].allocated
    BY <1>8, <1>9, <2>1
  <2>3. n \in Nat /\ 1 <= n /\ n <= Len(s) - 1 /\ i \in Nat /\ 1 <= i /\ i <= Len(s)
    BY <1>2, <1>4, <1>15
  <2>4. (i # 1 /\ s[j] = s[i - 1]) <=> j = i - 1
    <3>1. i # 1 => i - 1 \in 1..Len(s)
      BY <1>4, <2>3
    <3>2. j = i - 1 => i # 1
      BY <2>1
    <3> QED BY <1>7, <3>1, <3>2
  <2>5. (i # Len(s) /\ s[j] = s[i + 1]) <=> j = i + 1
    <3>1. i # Len(s) => i + 1 \in 1..Len(s)
      BY <1>4, <2>3
    <3>2. j = i + 1 => i # Len(s)
      BY <1>4, <2>1
    <3> QED BY <1>7, <3>1, <3>2
  <2>6. g.node[t[n]].next = IF j = i - 1 THEN IF i = Len(s) THEN None ELSE s[i + 1]
                            ELSE IF j = Len(s) THEN None ELSE s[j + 1]
    <3>1. g.node[s[j]].next = IF i # 1 /\ s[j] = s[i - 1]
                                THEN IF i = Len(s) THEN None ELSE s[i + 1]
                                ELSE h.node[s[j]].next
      BY <1>9, <2>1
    <3>2. h.node[s[j]].next = IF j = Len(s) THEN None ELSE s[j + 1]
      BY <1>8
    <3> QED BY <2>1, <2>4, <3>1, <3>2
  <2>7. g.node[t[n]].previous = IF j = i + 1 THEN IF i = 1 THEN None ELSE s[i - 1]
                                ELSE IF j = 1 THEN None ELSE s[j - 1]
    <3>1. g.node[s[j]].previous = IF i # Len(s) /\ s[j] = s[i + 1]
                                    THEN IF i = 1 THEN None ELSE s[i - 1]
                                    ELSE h.node[s[j]].previous
      BY <1>9, <2>1
    <3>2. h.node[s[j]].previous = IF j = 1 THEN None ELSE s[j - 1]
      BY <1>8
    <3> QED BY <2>1, <2>5, <3>1, <3>2
  <2>8. g.node[t[n]].next = IF n = Len(t) THEN None ELSE t[n + 1]
    <3>1. n + 1 \in 1..(Len(s) - 1) => t[n + 1] = IF n + 1 < i THEN s[n + 1] ELSE s[n + 2]
      <4>1. n + 1 + 1 = n + 2
        BY <2>3
      <4> QED BY <1>10, <4>1
    <3>2. (n = Len(t) <=> n = Len(s) - 1) /\ (n # Len(t) => n + 1 \in 1..(Len(s) - 1))
      BY <1>4, <1>10, <2>3
    <3>3. CASE j = i - 1
      <4>1. n = i - 1 /\ (i = Len(s) <=> n = Len(s) - 1) /\ ~ (n + 1 < i) /\ n + 2 = i + 1
        BY <1>4, <2>1, <2>3, <3>3
      <4> QED BY <2>6, <3>1, <3>2, <3>3, <4>1
    <3>4. CASE j # i - 1 /\ n < i
      <4>1. j = n /\ n + 1 < i /\ n # Len(s) - 1 /\ j # Len(s)
        BY <1>4, <2>1, <2>3, <3>4
      <4> QED BY <2>6, <3>1, <3>2, <3>4, <4>1
    <3>5. CASE j # i - 1 /\ ~ (n < i)
      <4>1. j = n + 1 /\ ~ (n + 1 < i) /\ (j = Len(s) <=> n = Len(s) - 1) /\ j + 1 = n + 2
        BY <1>4, <2>1, <2>3, <3>5
      <4> QED BY <2>6, <3>1, <3>2, <3>5, <4>1
    <3> QED BY <3>3, <3>4, <3>5
  <2>9. g.node[t[n]].previous = IF n = 1 THEN None ELSE t[n - 1]
    <3>1. n # 1 => t[n - 1] = IF n - 1 < i THEN s[n - 1] ELSE s[n]
      <4>1. n # 1 => n - 1 \in 1..(Len(s) - 1) /\ n - 1 + 1 = n
        BY <1>4, <2>3
      <4> QED BY <1>10, <4>1
    <3>2. CASE j = i + 1
      <4>1. n = i /\ n - 1 < i
        BY <1>4, <2>1, <2>3, <3>2
      <4> QED BY <2>7, <3>1, <3>2, <4>1
    <3>3. CASE j # i + 1 /\ n < i
      <4>1. j = n /\ n - 1 < i
        BY <2>1, <2>3, <3>3
      <4> QED BY <2>7, <3>1, <3>3, <4>1
    <3>4. CASE j # i + 1 /\ ~ (n < i)
      <4>1. j = n + 1 /\ ~ (n - 1 < i) /\ n # 1 /\ j # 1 /\ j - 1 = n
        BY <2>1, <2>3, <3>4
      <4> QED BY <2>7, <3>1, <3>4, <4>1
    <3> QED BY <3>2, <3>3, <3>4
  <2> QED BY <2>2, <2>8, <2>9
<1>17. /\ g.head[l] = IF t = <<>> THEN None ELSE t[1]
       /\ g.tail[l] = IF t = <<>> THEN None ELSE t[Len(t)]
  <2>1. /\ g.head[l] = IF i # 1 THEN s[1] ELSE IF Len(s) = 1 THEN None ELSE s[2]
        /\ g.tail[l] = IF i # Len(s) THEN s[Len(s)] ELSE IF Len(s) = 1 THEN None ELSE s[Len(s) - 1]
    BY <1>9, <1>12
  <2>2. t = <<>> <=> Len(s) = 1
    BY <1>4, <1>10, EmptySeq
  <2>3. CASE Len(s) = 1
    <3>1. i = 1 /\ i = Len(s)
      BY <1>2, <1>4, <2>3
    <3> QED BY <2>1, <2>2, <2>3, <3>1
  <2>4. CASE Len(s) # 1
    <3>1. 1 \in 1..(Len(s) - 1) /\ Len(s) - 1 \in 1..(Len(s) - 1) /\ Len(t) = Len(s) - 1
      <4>1. i \in Nat /\ 1 <= i /\ i <= Len(s)
        BY <1>2, <1>4
      <4> QED BY <1>4, <1>10, <2>4, <4>1
    <3>2. t[1] = IF 1 < i THEN s[1] ELSE s[2]
      BY <1>10, <3>1
    <3>3. t[Len(t)] = IF Len(s) - 1 < i THEN s[Len(s) - 1] ELSE s[Len(s)]
      <4>1. Len(s) - 1 + 1 = Len(s)
        BY <1>4
      <4> QED BY <1>10, <3>1, <4>1
    <3>4. (1 < i <=> i # 1) /\ (Len(s) - 1 < i <=> i = Len(s))
      BY <1>2, <1>4
    <3> QED BY <2>1, <2>2, <2>4, <3>2, <3>3, <3>4
  <2> QED BY <2>3, <2>4
<1>18. Chain(g.node, g.head[l], g.tail[l], t)
  BY <1>10, <1>11, <1>16, <1>17 DEF Chain
<1>19. \A m \in Lists \ {l} : g.head[m] = h.head[m] /\ g.tail[m] = h.tail[m]
  BY <1>9, <1>12
<1>20. ASSUME NEW b \in Addr, b \notin Range(s)
       PROVE  g.node[b] = h.node[b]
  <2>1. \A n \in 1..Len(s) : b # s[n]
    BY <1>3, <1>20 DEF Range
  <2>2. b # a /\ ~ (i # 1 /\ b = s[i - 1]) /\ ~ (i # Len(s) /\ b = s[i + 1])
    <3>1. (i # 1 => i - 1 \in 1..Len(s)) /\ (i # Len(s) => i + 1 \in 1..Len(s))
      BY <1>2, <1>4
    <3> QED BY <1>1, <1>2, <2>1, <3>1
  <2>3. /\ g.node[b].data = h.node[b].data /\ g.node[b].allocated = h.node[b].allocated
        /\ g.node[b].next = h.node[b].next /\ g.node[b].previous = h.node[b].previous
    BY <1>9, <2>2
  <2>4. g.node[b] \in ListNode /\ h.node[b] \in ListNode
    BY <1>12, <1>13
  <2> QED BY <2>3, <2>4 DEF ListNode
<1>21. \A b \in Range(t) : g.node[b].data \in Data
  <2>1. \A n \in 1..Len(s) : s[n] # a => g.node[s[n]].data \in Data
    BY <1>6, <1>8, <1>9
  <2>2. Range(s) = {s[n] : n \in 1..Len(s)}
    BY <1>3 DEF Range
  <2> QED BY <1>11, <2>1, <2>2
<1>22. ASSUME NEW n \in 1..Len(t), NEW m \in 1..Len(t), g.node[t[n]].data = g.node[t[m]].data
       PROVE  n = m
  <2>1. PICK j \in 1..Len(s) : j = (IF n < i THEN n ELSE n + 1) /\ t[n] = s[j] /\ s[j] \in Addr \ {a}
    BY <1>14, <1>15
  <2>2. PICK k \in 1..Len(s) : k = (IF m < i THEN m ELSE m + 1) /\ t[m] = s[k] /\ s[k] \in Addr \ {a}
    BY <1>14, <1>15
  <2>3. h.node[s[j]].data = h.node[s[k]].data
    <3>1. g.node[s[j]].data = h.node[s[j]].data /\ g.node[s[k]].data = h.node[s[k]].data
      BY <1>9, <2>1, <2>2
    <3> QED BY <1>22, <2>1, <2>2, <3>1
  <2>4. j = k
    BY <1>1, <2>3 DEF Shape
  <2>5. n \in Nat /\ m \in Nat /\ i \in Nat
    BY <1>2, <1>4, <1>10
  <2> QED BY <2>1, <2>2, <2>4, <2>5
<1>23. Shape(g, R, With(p, l, t))
  <2>1. \A b \in Addr : b \notin Range(p[l]) /\ b \notin Range(t) => g.node[b] = h.node[b]
    BY <1>1, <1>20
  <2>2. \A b \in Range(p[l]) : b \notin Range(t) => ~ g.node[b].allocated
    BY <1>1, <1>9, <1>11
  <2>3. \A b \in Range(t) : b \notin Range(p[l]) => ~ h.node[b].allocated
    BY <1>1, <1>11
  <2>4. \A m \in Lists \ {l} : /\ m \in R <=> m \in R
                              /\ g.head[m] = h.head[m] /\ g.tail[m] = h.tail[m]
    BY <1>19
  <2>5. \A n, m \in 1..Len(t) : g.node[t[n]].data = g.node[t[m]].data => n = m
    BY <1>22
  <2>6. g \in Heap /\ t \in Seq(Addr)
    BY <1>9, <1>10
  <2> QED BY <1>18, <1>21, <2>1, <2>2, <2>3, <2>4, <2>5, <2>6, Reshaped
<1>24. \A b \in Addr \ {a} : g.node[b].data = h.node[b].data
  BY <1>9
<1> QED BY <1>1, <1>9, <1>23, <1>24 DEF t
----------------------------------------------------------------------------
(***************************************************************************)
(* The same operations as the callers see them, on the data along a path.  *)
(***************************************************************************)

Items(h, s) == [n \in 1..Len(s) |-> h.node[s[n]].data]

Queues(h, p) == [l \in Lists |-> Items(h, p[l])]

\* What a list holds is a sequence of elements, none twice.
Queue(h, s, t) ==
  /\ t \in Seq(Data) /\ Len(t) = Len(s) /\ Len(s) \in Nat /\ DOMAIN t = 1..Len(s)
  /\ IsInjective(t)
  /\ \A n \in 1..Len(s) : t[n] = h.node[s[n]].data
  /\ t = <<>> <=> Len(s) = 0
  /\ \A y : y \in Range(t) <=> \E n \in 1..Len(s) : y = h.node[s[n]].data

LEMMA ItemsProperties ==
  ASSUME NEW h, NEW R, NEW p, Shape(h, R, p), NEW l \in Lists
  PROVE  Queue(h, p[l], Items(h, p[l]))
<1>1. PICK s : s = p[l]
  OBVIOUS
<1> DEFINE t == Items(h, s)
<1>2. Len(s) \in Nat
  BY <1>1, LenProperties DEF Shape
<1>3. \A n \in 1..Len(s) : h.node[s[n]].data \in Data
  <2>1. CASE l \in R
    <3>1. Len(s) = 0
      BY <1>1, <2>1, EmptySeq DEF Shape
    <3> QED BY <3>1
  <2>2. CASE l \notin R
    BY <1>1, <2>2, PathFacts
  <2> QED BY <2>1, <2>2
<1>4. \A i, j \in 1..Len(s) : h.node[s[i]].data = h.node[s[j]].data => i = j
  BY <1>1 DEF Shape
<1>5. t \in [1..Len(s) -> Data] /\ \A n \in 1..Len(s) : t[n] = h.node[s[n]].data
  BY <1>3 DEF Items
<1> HIDE DEF t
<1>6. t \in Seq(Data) /\ Len(t) = Len(s) /\ DOMAIN t = 1..Len(s)
  BY <1>2, <1>5
<1>7. IsInjective(t)
  BY <1>4, <1>5, <1>6 DEF IsInjective
<1>8. \A y : y \in Range(t) <=> \E n \in 1..Len(s) : y = h.node[s[n]].data
  BY <1>5, <1>6 DEF Range
<1>9. t = <<>> <=> Len(s) = 0
  BY <1>2, <1>6, EmptySeq
<1> QED BY <1>1, <1>2, <1>5, <1>6, <1>7, <1>8, <1>9 DEF t, Queue

\* What is in a list stays there when the data along its path does.
LEMMA ItemsSame ==
  ASSUME NEW h, NEW g, NEW s, \A n \in 1..Len(s) : g.node[s[n]].data = h.node[s[n]].data
  PROVE  Items(g, s) = Items(h, s)
BY DEF Items

\* enqueueToList appends.
LEMMA LinkedQueues ==
  ASSUME NEW h, NEW R, NEW p, Shape(h, R, p), NEW l \in Lists, l \notin R, NEW x \in Data,
         NEW a \in Addr, ~ h.node[a].allocated, x \notin Range(Queues(h, p)[l]),
         NEW g, g = Linked(h, l, x, a), NEW q, q = With(p, l, Append(p[l], a))
  PROVE  Shape(g, R, q) /\ Queues(g, q) = With(Queues(h, p), l, Append(Queues(h, p)[l], x))
<1>1. \A i \in 1..Len(p[l]) : h.node[p[l][i]].data # x
  <2>1. x \notin Range(Items(h, p[l]))
    BY DEF Queues
  <2>2. \A y : y \in Range(Items(h, p[l])) <=> \E n \in 1..Len(p[l]) : y = h.node[p[l][n]].data
    <3>1. Queue(h, p[l], Items(h, p[l]))
      BY ItemsProperties
    <3> QED BY <3>1 DEF Queue
  <2> QED BY <2>1, <2>2
<1>2. Shape(g, R, q) /\ \A b \in Addr : g.node[b].data = IF b = a THEN x ELSE h.node[b].data
  <2>1. Shape(Linked(h, l, x, a), R, With(p, l, Append(p[l], a)))
    BY <1>1, LinkedShape
  <2>2. \A b \in Addr : Linked(h, l, x, a).node[b].data = IF b = a THEN x ELSE h.node[b].data
    BY <1>1, LinkedShape
  <2> QED BY <2>1, <2>2
<1>3. p \in [Lists -> Seq(Addr)]
  BY DEF Shape
<1>4. ASSUME NEW m \in Lists, NEW n \in 1..Len(p[m])
      PROVE  p[m][n] \in Addr \ {a}
  <2>1. CASE m \in R
    <3>1. Len(p[m]) = 0
      BY <2>1, EmptySeq DEF Shape
    <3> QED BY <3>1
  <2>2. CASE m \notin R
    BY <2>2, PathFacts
  <2> QED BY <2>1, <2>2
<1>5. ASSUME NEW m \in Lists \ {l}
      PROVE  Items(g, q[m]) = Items(h, p[m])
  <2>1. q[m] = p[m]
    BY <1>3 DEF With
  <2>2. \A n \in 1..Len(p[m]) : g.node[p[m][n]].data = h.node[p[m][n]].data
    BY <1>2, <1>4
  <2> QED BY <2>1, <2>2, ItemsSame
<1>6. Items(g, q[l]) = Append(Items(h, p[l]), x)
  <2> DEFINE s == p[l]
             t == Append(s, a)
             u == Items(h, s)
             v == Items(g, t)
  <2>1. s \in Seq(Addr) /\ q[l] = t
    BY <1>3 DEF With
  <2>2. Len(s) \in Nat
    BY <2>1
  <2>3. t \in Seq(Addr) /\ Len(t) = Len(s) + 1 /\ t[Len(s) + 1] = a
        /\ \A n \in 1..Len(s) : t[n] = s[n]
    BY <2>1, AppendProperties
  <2>4. u \in Seq(Data) /\ Len(u) = Len(s) /\ \A n \in 1..Len(s) : u[n] = h.node[s[n]].data
    BY ItemsProperties DEF Queue
  <2>5. Append(u, x) \in Seq(Data) /\ Len(Append(u, x)) = Len(s) + 1
        /\ Append(u, x)[Len(s) + 1] = x /\ \A n \in 1..Len(s) : Append(u, x)[n] = u[n]
    BY <2>4, AppendProperties
  <2>6. v \in Seq(Data) /\ Len(v) = Len(s) + 1
        /\ \A n \in 1..(Len(s) + 1) : v[n] = g.node[t[n]].data
    <3>1. Len(q[l]) = Len(s) + 1 /\ q[l] = t
      BY <2>1, <2>3
    <3>2. Queue(g, q[l], Items(g, q[l]))
      BY <1>2, ItemsProperties
    <3> HIDE DEF t
    <3> QED BY <3>1, <3>2 DEF Queue
  <2> HIDE DEF u, v, t
  <2>7. ASSUME NEW n \in 1..(Len(s) + 1) PROVE v[n] = Append(u, x)[n]
    <3>1. CASE n \in 1..Len(s)
      <4>1. v[n] = g.node[s[n]].data
        BY <2>3, <2>6, <3>1
      <4>2. g.node[s[n]].data = h.node[s[n]].data
        BY <1>2, <1>4, <3>1
      <4> QED BY <2>4, <2>5, <3>1, <4>1, <4>2
    <3>2. CASE n = Len(s) + 1
      BY <1>2, <2>3, <2>5, <2>6, <3>2
    <3>3. n \in 1..Len(s) \/ n = Len(s) + 1
      BY <2>2
    <3> QED BY <3>1, <3>2, <3>3
  <2>8. v = Append(u, x)
    BY <2>5, <2>6, <2>7, SeqEqual
  <2> QED BY <2>1, <2>8 DEF u, v
<1> QED BY <1>2, <1>5, <1>6 DEF Queues, With

\* SearchAndRemovePCB takes out.
LEMMA UnlinkedQueues ==
  ASSUME NEW h, NEW R, NEW p, Shape(h, R, p), NEW l \in Lists, l \notin R,
         NEW i \in 1..Len(p[l]), NEW a, a = p[l][i],
         NEW g, g = Freed(Unlinked(h, l, a), a), NEW q, q = With(p, l, Without(p[l], i))
  PROVE  /\ Shape(g, R, q)
         /\ Queues(g, q) = With(Queues(h, p), l, Without(Queues(h, p)[l], i))
         /\ ~ g.node[a].allocated
<1>1. Shape(g, R, q) /\ ~ g.node[a].allocated
      /\ \A b \in Addr \ {a} : g.node[b].data = h.node[b].data
  BY UnlinkedShape
<1>2. p \in [Lists -> Seq(Addr)]
  BY DEF Shape
<1>3. \A n \in 1..Len(p[l]) : p[l][n] \in Addr
  BY PathFacts
<1>4. ASSUME NEW m \in Lists, NEW n \in 1..Len(q[m])
      PROVE  q[m][n] \in Addr \ {a}
  <2>1. CASE m \in R
    <3>1. Len(q[m]) = 0
      BY <1>1, <2>1, EmptySeq DEF Shape
    <3> QED BY <3>1
  <2>2. CASE m \notin R
    <3>1. \A k \in 1..Len(q[m]) : q[m][k] \in Addr /\ g.node[q[m][k]].allocated
      BY <1>1, <2>2, PathFacts
    <3> QED BY <1>1, <3>1
  <2> QED BY <2>1, <2>2
<1>5. ASSUME NEW m \in Lists \ {l}
      PROVE  Items(g, q[m]) = Items(h, p[m])
  <2>1. q[m] = p[m]
    BY <1>2 DEF With
  <2>2. \A n \in 1..Len(p[m]) : g.node[p[m][n]].data = h.node[p[m][n]].data
    BY <1>1, <1>4, <2>1
  <2> QED BY <2>1, <2>2, ItemsSame
<1>6. Items(g, q[l]) = Without(Items(h, p[l]), i)
  <2> DEFINE s == p[l]
             t == Without(s, i)
             u == Items(h, s)
             v == Items(g, t)
  <2>1. s \in Seq(Addr) /\ q[l] = t
    BY <1>2 DEF With
  <2>2. Len(s) \in Nat
    BY <2>1
  <2>3. t \in Seq(Addr) /\ Len(t) = Len(s) - 1
        /\ \A n \in 1..(Len(s) - 1) : t[n] = IF n < i THEN s[n] ELSE s[n + 1]
    BY <2>1, WithoutProperties
  <2>4. u \in Seq(Data) /\ Len(u) = Len(s) /\ \A n \in 1..Len(s) : u[n] = h.node[s[n]].data
    BY ItemsProperties DEF Queue
  <2>5. Without(u, i) \in Seq(Data) /\ Len(Without(u, i)) = Len(s) - 1
        /\ \A n \in 1..(Len(s) - 1) : Without(u, i)[n] = IF n < i THEN u[n] ELSE u[n + 1]
    <3>1. i \in 1..Len(u)
      BY <2>4
    <3> HIDE DEF u
    <3> QED BY <2>4, <3>1, WithoutProperties
  <2>6. v \in Seq(Data) /\ Len(v) = Len(s) - 1
        /\ \A n \in 1..(Len(s) - 1) : v[n] = g.node[t[n]].data
    <3>1. Len(q[l]) = Len(s) - 1 /\ q[l] = t
      BY <2>1, <2>3
    <3>2. Queue(g, q[l], Items(g, q[l]))
      BY <1>1, ItemsProperties
    <3> HIDE DEF t
    <3> QED BY <3>1, <3>2 DEF Queue
  <2>7. \A n \in 1..(Len(s) - 1) : t[n] \in Addr \ {a}
    BY <1>4, <2>1, <2>3
  <2> HIDE DEF u, v, t
  <2>8. ASSUME NEW n \in 1..(Len(s) - 1) PROVE v[n] = Without(u, i)[n]
    <3>1. v[n] = h.node[t[n]].data
      BY <1>1, <2>6, <2>7
    <3>2. (n < i => n \in 1..Len(s)) /\ n + 1 \in 1..Len(s)
      BY <2>2
    <3> QED BY <2>3, <2>4, <2>5, <3>1, <3>2
  <2>9. v = Without(u, i)
    BY <2>5, <2>6, <2>8, SeqEqual
  <2> QED BY <2>1, <2>9 DEF u, v
<1> QED BY <1>1, <1>5, <1>6 DEF Queues, With

\* Unlinking the first node is what dequeueFromList does as well.
LEMMA HeadIsUnlinked ==
  ASSUME NEW h, NEW R, NEW p, Shape(h, R, p), NEW l \in Lists, l \notin R, h.head[l] # None
  PROVE  /\ 1 \in 1..Len(p[l]) /\ h.head[l] = p[l][1]
         /\ WithoutHead(h, l) = Unlinked(h, l, h.head[l])
<1>1. PICK s : s = p[l]
  OBVIOUS
<1>2. Len(s) \in Nat
  BY <1>1, PathFacts
<1>3. /\ h.head[l] = IF Len(s) = 0 THEN None ELSE s[1]
      /\ h.tail[l] = IF Len(s) = 0 THEN None ELSE s[Len(s)]
  BY <1>1, PathFacts
<1>4. Len(s) # 0 /\ 1 \in 1..Len(s) /\ Len(s) \in 1..Len(s)
  BY <1>2, <1>3
<1>5. h.head[l] = s[1] /\ h.tail[l] = s[Len(s)]
  BY <1>3, <1>4
<1>6. h.node[s[1]].next = IF 1 = Len(s) THEN None ELSE s[2]
  <2>1. \A n \in 1..Len(p[l]) : h.node[p[l][n]].next = IF n = Len(p[l]) THEN None ELSE p[l][n + 1]
    BY PathFacts
  <2>2. h.node[s[1]].next = IF 1 = Len(s) THEN None ELSE s[1 + 1]
    BY <1>1, <1>4, <2>1
  <2> QED BY <2>2
<1>7. s[1] = s[Len(s)] <=> Len(s) = 1
  <2>1. \A i, j \in 1..Len(s) : s[i] = s[j] => i = j
    BY <1>1, PathFacts
  <2> QED BY <1>4, <2>1
<1>8. Len(s) # 1 => s[2] # None
  <2>1. Len(s) # 1 => 2 \in 1..Len(s)
    <3>1. \A n \in Nat : n # 0 /\ n # 1 => 2 \in 1..n
      OBVIOUS
    <3> QED BY <1>2, <1>4, <3>1
  <2>2. \A i \in 1..Len(s) : s[i] # None
    BY <1>1, PathFacts
  <2> QED BY <2>1, <2>2
<1>9. CASE Len(s) = 1
  <2>1. h.head[l] = h.tail[l] /\ h.node[h.head[l]].next = None
    BY <1>5, <1>6, <1>9
  <2> QED BY <1>1, <1>4, <1>5, <2>1 DEF WithoutHead, Unlinked
<1>10. CASE Len(s) # 1
  <2>1. h.head[l] # h.tail[l] /\ h.node[h.head[l]].next # None
    BY <1>5, <1>6, <1>7, <1>8, <1>10
  <2> QED BY <1>1, <1>4, <1>5, <2>1 DEF WithoutHead, Unlinked
<1> QED BY <1>9, <1>10

\* A list that is destroyed has no path any more; none else loses a node.
LEMMA RetiredQueues ==
  ASSUME NEW h, NEW R, NEW p, Shape(h, R, p), NEW l \in Lists, l \notin R,
         NEW g, g = [node |-> [a \in Addr |-> IF a \in Range(p[l]) THEN Garbage ELSE h.node[a]],
                     head |-> h.head, tail |-> h.tail],
         NEW q, q = With(p, l, <<>>)
  PROVE  Shape(g, R \cup {l}, q) /\ Queues(g, q) = With(Queues(h, p), l, <<>>)
<1>1. Garbage \in ListNode /\ ~ Garbage.allocated
  BY DEF Garbage, ListNode
<1>2. /\ h.node \in [Addr -> ListNode] /\ h.head \in [Lists -> Addr \cup {None}]
      /\ h.tail \in [Lists -> Addr \cup {None}] /\ p \in [Lists -> Seq(Addr)]
  BY DEF Shape, Heap
<1>3. g.head = h.head /\ g.tail = h.tail
      /\ \A b \in Addr : g.node[b] = IF b \in Range(p[l]) THEN Garbage ELSE h.node[b]
  OBVIOUS
<1>4. g \in Heap
  BY <1>1, <1>2 DEF Heap
<1> DEFINE t == <<>>
<1>5. t \in Seq(Addr) /\ Len(t) = 0 /\ Range(t) = {}
  BY EmptySeq DEF Range
<1>6. Range(p[l]) \subseteq Addr
  BY <1>2, RangeOfSeq
<1>7. Shape(g, R \cup {l}, With(p, l, t))
  <2>1. \A m \in Lists \ {l} : /\ m \in R \cup {l} <=> m \in R
                              /\ g.head[m] = h.head[m] /\ g.tail[m] = h.tail[m]
    BY <1>3
  <2>2. IF l \in R \cup {l} THEN t = <<>> ELSE Chain(g.node, g.head[l], g.tail[l], t)
    OBVIOUS
  <2> HIDE DEF t
  <2>3. \A b \in Addr : b \notin Range(p[l]) /\ b \notin Range(t) => g.node[b] = h.node[b]
    BY <1>3
  <2>4. \A b \in Range(p[l]) : b \notin Range(t) => ~ g.node[b].allocated
    BY <1>1, <1>3, <1>6
  <2>5. /\ \A b \in Range(t) : b \notin Range(p[l]) => ~ h.node[b].allocated
        /\ \A b \in Range(t) : g.node[b].data \in Data
    BY <1>5
  <2>6. \A i, j \in 1..Len(t) : g.node[t[i]].data = g.node[t[j]].data => i = j
    BY <1>5
  <2> QED BY <1>4, <1>5, <2>1, <2>2, <2>3, <2>4, <2>5, <2>6, Reshaped
<1>8. ASSUME NEW m \in Lists \ {l}
      PROVE  Items(g, q[m]) = Items(h, p[m])
  <2>1. q[m] = p[m]
    BY <1>2 DEF With
  <2>2. \A n \in 1..Len(p[m]) : p[m][n] \in Addr /\ p[m][n] \in Range(p[m])
    BY <1>2, LenProperties, ElementOfSeq DEF Range
  <2>3. Range(p[m]) \cap Range(p[l]) = {}
    BY DEF Shape
  <2>4. \A n \in 1..Len(p[m]) : g.node[p[m][n]].data = h.node[p[m][n]].data
    BY <1>3, <2>2, <2>3
  <2> QED BY <2>1, <2>4, ItemsSame
<1>9. Items(g, q[l]) = <<>>
  <2>1. q[l] = t
    BY <1>2 DEF With
  <2>2. Queue(g, q[l], Items(g, q[l]))
    BY <1>7, ItemsProperties
  <2> QED BY <1>5, <2>1, <2>2 DEF Queue
<1> QED BY <1>7, <1>8, <1>9 DEF Queues, With
----------------------------------------------------------------------------
(***************************************************************************)
(* The pointers hold together.                                             *)
(***************************************************************************)

\* The clock handler is at the entry of delay_queue up to which none is due;
\* what is due is in delay_queue, and not in runningQueue.
Walking(p) ==
  LET delayed == Queues(Now, p)[DelayQ] IN
  walking =>
    /\ \E k \in 1..(Len(p[DelayQ]) + 1) :
         /\ temp = IF k = Len(p[DelayQ]) + 1 THEN None ELSE p[DelayQ][k]
         /\ \A n \in 1..(k - 1) : delayed[n] \notin due
    /\ due \subseteq Range(delayed)
    /\ Range(Queues(Now, p)[RunQ]) \cap due = {}

Along(p) ==
  /\ Shape(Now, retired, p)
  /\ Walking(p)
  /\ DelayQ \notin retired /\ RunQ \notin retired /\ retired \subseteq Lists

ListInv == \E p : Along(p)

LEMMA InitAlong ==
  ASSUME Init
  PROVE  Along([l \in Lists |-> <<>>])
<1> DEFINE p == [l \in Lists |-> <<>>]
<1>1. Garbage \in ListNode /\ ~ Garbage.allocated
  BY DEF Garbage, ListNode
<1>2. Now \in Heap
  BY <1>1 DEF Init, Now, Heap
<1>3. /\ Now.head = [l \in Lists |-> None] /\ Now.tail = [l \in Lists |-> None]
      /\ Now.node = [a \in Addr |-> Garbage] /\ retired = {} /\ ~ walking
  BY DEF Init, Now
<1>4. \A T : <<>> \in Seq(T) /\ Len(<<>>) = 0
  BY EmptySeq
<1>5. IsInjective(<<>>) /\ Range(<<>>) = {}
  BY DEF IsInjective, Range
<1>6. Chain(Now.node, None, None, <<>>)
  BY <1>4, <1>5 DEF Chain
<1>7. Shape(Now, retired, p)
  BY <1>1, <1>2, <1>3, <1>4, <1>5, <1>6 DEF Shape
<1> QED BY <1>3, <1>7, ListAssumption DEF Along, Walking

\* The paths in terms of which the model states its properties are these.
LEMMA PathsAre ==
  ASSUME NEW p, Shape(Now, retired, p)
  PROVE  \A l \in Lists \ retired : Path(l) = p[l] /\ Contents(l) = Items(Now, p[l])
<1> SUFFICES ASSUME NEW l \in Lists \ retired
             PROVE  Path(l) = p[l] /\ Contents(l) = Items(Now, p[l])
  OBVIOUS
<1>1. Chain(node, head[l], tail[l], p[l])
  BY DEF Shape, Now
<1>2. Path(l) = p[l]
  BY <1>1, PathIsChain
<1>3. DOMAIN p[l] = 1..Len(p[l])
  BY PathFacts
<1> QED BY <1>2, <1>3 DEF Contents, Items, Now

LEMMA AlongWellLinked ==
  ASSUME ListInv
  PROVE  WellLinked
<1>1. PICK p : Along(p)
  BY DEF ListInv
<1>2. Shape(Now, retired, p)
  BY <1>1 DEF Along
<1>3. \A l \in Lists \ retired : Path(l) = p[l]
  BY <1>2, PathsAre
<1>4. ASSUME NEW l \in Lists \ retired
      PROVE  LET path == Path(l) IN
             /\ IsInjective(path) /\ Range(path) \subseteq Allocated
             /\ head[l] = IF path = <<>> THEN None ELSE path[1]
             /\ tail[l] = IF path = <<>> THEN None ELSE path[Len(path)]
             /\ \A n \in DOMAIN path :
                  /\ node[path[n]].next = IF n = Len(path) THEN None ELSE path[n + 1]
                  /\ node[path[n]].previous = IF n = 1 THEN None ELSE path[n - 1]
  <2>1. Chain(node, head[l], tail[l], p[l])
    BY <1>2 DEF Shape, Now
  <2>2. /\ DOMAIN p[l] = 1..Len(p[l])
        /\ \A n \in 1..Len(p[l]) : p[l][n] \in Addr
    BY <1>2, PathFacts
  <2>3. Range(p[l]) \subseteq Allocated
    BY <2>1, <2>2 DEF Allocated, Range, Chain
  <2>4. Path(l) = p[l]
    BY <1>3
  <2> QED BY <2>1, <2>2, <2>3, <2>4 DEF Chain
<1>5. \A l, m \in Lists \ retired : l # m => Range(Path(l)) \cap Range(Path(m)) = {}
  BY <1>2, <1>3 DEF Shape
<1>6. ASSUME NEW a \in Allocated
      PROVE  \E l \in Lists \ retired : a \in Range(Path(l))
  <2>1. PICK l \in Lists : a \in Range(p[l])
    BY <1>2 DEF Allocated, Shape, Now
  <2>2. l \notin retired
    BY <1>2, <2>1 DEF Shape, Range
  <2> QED BY <1>3, <2>1, <2>2
<1>7. Allocated = UNION {Range(Path(l)) : l \in Lists \ retired}
  <2>1. \A l \in Lists \ retired : Range(Path(l)) \subseteq Allocated
    BY <1>4
  <2>2. \A a \in Allocated : a \in UNION {Range(Path(l)) : l \in Lists \ retired}
    BY <1>6
  <2> QED BY <2>1, <2>2
<1> QED BY <1>4, <1>5, <1>7 DEF WellLinked

\* What one can read from a list, in terms of its queue.
LEMMA QueueFacts ==
  ASSUME NEW p, Along(p), NEW l \in Lists
  PROVE  /\ Shape(Now, retired, p)
         /\ Queues(Now, p)[l] = Items(Now, p[l])
         /\ Queue(Now, p[l], Queues(Now, p)[l])
         /\ l \in retired => Queues(Now, p)[l] = <<>>
         /\ l \notin retired =>
              /\ Path(l) = p[l] /\ Contents(l) = Queues(Now, p)[l]
              /\ IsLinkedListEmpty(l) <=> Queues(Now, p)[l] = <<>>
              /\ ~ IsLinkedListEmpty(l) => node[head[l]].data = Head(Queues(Now, p)[l])
<1>1. Shape(Now, retired, p)
  BY DEF Along
<1>2. Queues(Now, p)[l] = Items(Now, p[l])
  BY DEF Queues
<1>3. Queue(Now, p[l], Queues(Now, p)[l])
  BY <1>1, <1>2, ItemsProperties
<1>4. l \in retired => Queues(Now, p)[l] = <<>>
  <2>1. l \in retired => Len(p[l]) = 0
    BY <1>1, EmptySeq DEF Shape
  <2> QED BY <1>3, <2>1 DEF Queue
<1>5. ASSUME l \notin retired
      PROVE  /\ Path(l) = p[l] /\ Contents(l) = Queues(Now, p)[l]
             /\ IsLinkedListEmpty(l) <=> Queues(Now, p)[l] = <<>>
             /\ ~ IsLinkedListEmpty(l) => node[head[l]].data = Head(Queues(Now, p)[l])
  <2>1. Path(l) = p[l] /\ Contents(l) = Queues(Now, p)[l]
    BY <1>1, <1>2, <1>5, PathsAre
  <2>2. head[l] = IF Len(p[l]) = 0 THEN None ELSE p[l][1]
    BY <1>1, <1>5, PathFacts DEF Now
  <2>3. Len(p[l]) # 0 => 1 \in 1..Len(p[l])
    BY <1>3 DEF Queue
  <2>4. Len(p[l]) # 0 => p[l][1] # None
    BY <1>1, <1>5, <2>3, PathFacts
  <2>5. Queues(Now, p)[l] = <<>> <=> Len(p[l]) = 0
    BY <1>3 DEF Queue
  <2>6. IsLinkedListEmpty(l) <=> Len(p[l]) = 0
    BY <2>2, <2>4 DEF IsLinkedListEmpty
  <2>7. Len(p[l]) # 0 => Queues(Now, p)[l][1] = node[head[l]].data
    BY <1>3, <2>2, <2>3 DEF Queue, Now
  <2>8. Len(p[l]) # 0 => Head(Queues(Now, p)[l]) = Queues(Now, p)[l][1]
    BY <1>3, <2>5, TailIsWithout DEF Queue
  <2> QED BY <2>1, <2>5, <2>6, <2>7, <2>8
<1> QED BY <1>1, <1>2, <1>3, <1>4, <1>5

\* What is at a node of a list is what is at its place in the queue.
LEMMA DataAt ==
  ASSUME NEW p, Along(p), NEW l \in Lists, NEW i \in 1..Len(p[l])
  PROVE  i \in 1..Len(Queues(Now, p)[l]) /\ Queues(Now, p)[l][i] = node[p[l][i]].data
<1>1. Queue(Now, p[l], Queues(Now, p)[l])
  BY QueueFacts
<1> QED BY <1>1 DEF Queue, Now

LEMMA NowIs ==
  ASSUME NEW h \in Heap, Becomes(h)
  PROVE  Now' = h
BY DEF Becomes, Now, Heap

\* Outside the loop of the clock handler the lists are all there is to look at.
LEMMA AlongLater ==
  ASSUME NEW q, NEW R, Shape(Now', R, q), retired' = R, ~ walking', R \subseteq Lists,
         DelayQ \notin R, RunQ \notin R
  PROVE  Along(q)'
BY DEF Along, Walking

LEMMA EnqueueStep ==
  ASSUME NEW p, Along(p), NEW l \in Lists, NEW x \in Data, enqueueToList(l, x)
  PROVE  \/ /\ \A a \in Addr : node[a].allocated
            /\ Along(p)' /\ Queues(Now', p) = Queues(Now, p)
         \/ /\ \E a \in Addr : ~ node[a].allocated
            /\ \E q : /\ Along(q)'
                     /\ Queues(Now', q) = With(Queues(Now, p), l, Append(Queues(Now, p)[l], x))
<1>1. /\ ~ walking /\ l \notin retired /\ x \notin Range(Contents(l))
      /\ UNCHANGED <<retired, temp, due, walking>>
  BY DEF enqueueToList, Usable, Idling
<1>2. Shape(Now, retired, p) /\ x \notin Range(Queues(Now, p)[l]) /\ Now \in Heap
      /\ DelayQ \notin retired /\ RunQ \notin retired /\ retired \subseteq Lists
  BY <1>1, QueueFacts DEF Along, Shape
<1>3. PICK a \in Malloc(Now) : Becomes(Enqueued(Now, l, x, a))
  BY DEF enqueueToList
<1>4. CASE {b \in Addr : ~ Now.node[b].allocated} = {}
  <2>1. a = None
    BY <1>3, <1>4 DEF Malloc
  <2>2. Now' = Now
    BY <1>2, <1>3, <2>1, NowIs DEF Enqueued
  <2>3. Along(p)'
    BY <1>1, <1>2, <2>2, AlongLater
  <2>4. \A b \in Addr : node[b].allocated
    BY <1>4 DEF Now
  <2> QED BY <2>2, <2>3, <2>4
<1>5. CASE {b \in Addr : ~ Now.node[b].allocated} # {}
  <2>1. a \in Addr /\ ~ Now.node[a].allocated
    BY <1>3, <1>5 DEF Malloc
  <2>2. a # None
    BY <2>1, ListAssumption
  <2> DEFINE g == Linked(Now, l, x, a)
             q == With(p, l, Append(p[l], a))
  <2>3. Shape(g, retired, q)
        /\ Queues(g, q) = With(Queues(Now, p), l, Append(Queues(Now, p)[l], x))
    BY <1>1, <1>2, <2>1, LinkedQueues
  <2>4. Now' = g
    <3>1. g \in Heap
      BY <2>3 DEF Shape
    <3>2. Becomes(g)
      BY <1>3, <2>2 DEF Enqueued
    <3> HIDE DEF g
    <3> QED BY <3>1, <3>2, NowIs
  <2> HIDE DEF g, q
  <2>5. Along(q)'
    BY <1>1, <1>2, <2>3, <2>4, AlongLater
  <2>6. ~ node[a].allocated
    BY <2>1 DEF Now
  <2> QED BY <2>1, <2>3, <2>4, <2>5, <2>6
<1> QED BY <1>4, <1>5

\* Taking out, by SearchAndRemovePCB or dequeueFromList.
LEMMA TakeStep ==
  ASSUME NEW p, Along(p), NEW l \in Lists, l \notin retired, NEW i \in 1..Len(p[l]),
         ~ walking, UNCHANGED <<retired, temp, due, walking>>,
         Becomes(Freed(Unlinked(Now, l, p[l][i]), p[l][i]))
  PROVE  \E q : /\ Along(q)'
              /\ Queues(Now', q) = With(Queues(Now, p), l, Without(Queues(Now, p)[l], i))
<1> DEFINE a == p[l][i]
           g == Freed(Unlinked(Now, l, a), a)
           q == With(p, l, Without(p[l], i))
<1>1. Shape(Now, retired, p)
      /\ DelayQ \notin retired /\ RunQ \notin retired /\ retired \subseteq Lists
  BY DEF Along
<1>2. Shape(g, retired, q) /\ Queues(g, q) = With(Queues(Now, p), l, Without(Queues(Now, p)[l], i))
  BY <1>1, UnlinkedQueues
<1>3. Becomes(g)
  OBVIOUS
<1> HIDE DEF g, q
<1>4. Now' = g
  <2>1. g \in Heap
    BY <1>2 DEF Shape
  <2> QED BY <1>3, <2>1, NowIs
<1>5. Along(q)'
  BY <1>1, <1>2, <1>4, AlongLater
<1> QED BY <1>2, <1>4, <1>5

LEMMA DequeueStep ==
  ASSUME NEW p, Along(p), NEW l \in Lists, dequeueFromList(l)
  PROVE  LET queue == Queues(Now, p)[l] IN
         \/ /\ queue = <<>> /\ last' = Call("dequeue", l, None)
            /\ Along(p)' /\ Queues(Now', p) = Queues(Now, p)
         \/ /\ queue # <<>> /\ last' = Call("dequeue", l, Head(queue))
            /\ \E q : Along(q)' /\ Queues(Now', q) = With(Queues(Now, p), l, Tail(queue))
<1>1. ~ walking /\ l \notin retired /\ UNCHANGED <<retired, temp, due, walking>>
  BY DEF dequeueFromList, Usable, Idling
<1>2. Shape(Now, retired, p)
      /\ DelayQ \notin retired /\ RunQ \notin retired /\ retired \subseteq Lists
  BY DEF Along
<1>3. CASE IsLinkedListEmpty(l)
  <2>1. last' = Call("dequeue", l, None) /\ Now' = Now
    BY <1>3 DEF dequeueFromList, listVars, Now
  <2>2. Along(p)'
    BY <1>1, <1>2, <2>1, AlongLater
  <2> QED BY <1>1, <1>3, <2>1, <2>2, QueueFacts
<1>4. CASE ~ IsLinkedListEmpty(l)
  <2>1. /\ Becomes(Freed(WithoutHead(Now, l), head[l]))
        /\ last' = Call("dequeue", l, node[head[l]].data)
    BY <1>4 DEF dequeueFromList
  <2>2. Now.head[l] # None /\ Now.head[l] = head[l]
    BY <1>4 DEF IsLinkedListEmpty, Now
  <2>3. /\ 1 \in 1..Len(p[l]) /\ head[l] = p[l][1]
        /\ WithoutHead(Now, l) = Unlinked(Now, l, head[l])
    BY <1>1, <1>2, <2>2, HeadIsUnlinked
  <2>4. Becomes(Freed(Unlinked(Now, l, p[l][1]), p[l][1]))
    BY <2>1, <2>3
  <2>5. \E q : Along(q)' /\ Queues(Now', q) = With(Queues(Now, p), l, Without(Queues(Now, p)[l], 1))
    BY <1>1, <2>3, <2>4, TakeStep
  <2>6. Queues(Now, p)[l] # <<>> /\ node[head[l]].data = Head(Queues(Now, p)[l])
    BY <1>1, <1>4, QueueFacts
  <2>7. Tail(Queues(Now, p)[l]) = Without(Queues(Now, p)[l], 1)
    <3>1. Queues(Now, p)[l] \in Seq(Data)
      BY QueueFacts DEF Queue
    <3> QED BY <2>6, <3>1, TailIsWithout
  <2> QED BY <2>1, <2>5, <2>6, <2>7
<1> QED BY <1>3, <1>4

LEMMA RemoveStep ==
  ASSUME NEW p, Along(p), NEW l \in Lists, NEW x \in Data, SearchAndRemovePCB(l, x)
  PROVE  LET queue == Queues(Now, p)[l] IN
         \/ /\ x \notin Range(queue) /\ last' = Call("remove", l, None)
            /\ Along(p)' /\ Queues(Now', p) = Queues(Now, p)
         \/ /\ x \in Range(queue) /\ last' = Call("remove", l, x)
            /\ \E q : Along(q)' /\ Queues(Now', q) = With(Queues(Now, p), l, RemoveFirst(queue, x))
<1>1. ~ walking /\ l \notin retired /\ UNCHANGED <<retired, temp, due, walking>>
  BY DEF SearchAndRemovePCB, Usable, Idling
<1>2. Shape(Now, retired, p)
      /\ DelayQ \notin retired /\ RunQ \notin retired /\ retired \subseteq Lists
  BY DEF Along
<1>3. Path(l) = p[l] /\ Contents(l) = Queues(Now, p)[l]
  BY <1>1, QueueFacts
<1>4. CASE x \notin Range(Contents(l)) /\ last' = Call("remove", l, None) /\ UNCHANGED listVars
  <2>1. Now' = Now
    BY <1>4 DEF listVars, Now
  <2>2. Along(p)'
    BY <1>1, <1>2, <2>1, AlongLater
  <2> QED BY <1>3, <1>4, <2>1, <2>2
<1>5. CASE \E a \in Range(Path(l)) :
             /\ node[a].data = x
             /\ Becomes(Freed(Unlinked(Now, l, a), a))
             /\ last' = Call("remove", l, x)
  <2>1. PICK a \in Range(p[l]) : /\ node[a].data = x
                                /\ Becomes(Freed(Unlinked(Now, l, a), a))
                                /\ last' = Call("remove", l, x)
    BY <1>3, <1>5
  <2>2. DOMAIN p[l] = 1..Len(p[l])
    BY <1>1, <1>2, PathFacts
  <2>3. PICK i \in 1..Len(p[l]) : p[l][i] = a
    BY <2>1, <2>2 DEF Range
  <2>4. \E q : Along(q)' /\ Queues(Now', q) = With(Queues(Now, p), l, Without(Queues(Now, p)[l], i))
    BY <1>1, <2>1, <2>3, TakeStep
  <2> DEFINE queue == Queues(Now, p)[l]
  <2>5. queue \in Seq(Data) /\ IsInjective(queue) /\ DOMAIN queue = 1..Len(queue)
    <3>1. Queue(Now, p[l], queue)
      BY QueueFacts
    <3> QED BY <3>1 DEF Queue
  <2>6. i \in 1..Len(queue) /\ queue[i] = x
    BY <2>1, <2>3, DataAt
  <2> HIDE DEF queue
  <2>7. RemoveFirst(queue, x) = Without(queue, i) /\ x \in Range(queue)
    BY <2>5, <2>6, RemoveFirstIsWithout DEF Range
  <2> QED BY <2>1, <2>4, <2>7 DEF queue
<1> QED BY <1>4, <1>5 DEF SearchAndRemovePCB

LEMMA RetireStep ==
  ASSUME NEW p, Along(p), NEW l \in Lists, freeListContents(l)
  PROVE  \E q : Along(q)' /\ Queues(Now', q) = With(Queues(Now, p), l, <<>>)
<1>1. /\ ~ walking /\ l \notin retired /\ l # DelayQ /\ l # RunQ
      /\ node' = [a \in Addr |-> IF a \in Range(Path(l)) THEN Garbage ELSE node[a]]
      /\ retired' = retired \cup {l} /\ UNCHANGED <<head, tail, temp, due, walking>>
  BY DEF freeListContents, Usable
<1>2. Shape(Now, retired, p)
      /\ DelayQ \notin retired /\ RunQ \notin retired /\ retired \subseteq Lists
  BY DEF Along
<1>3. Path(l) = p[l]
  BY <1>1, QueueFacts
<1> DEFINE g == [node |-> [a \in Addr |-> IF a \in Range(p[l]) THEN Garbage ELSE Now.node[a]],
                 head |-> Now.head, tail |-> Now.tail]
           q == With(p, l, <<>>)
<1>4. Shape(g, retired \cup {l}, q) /\ Queues(g, q) = With(Queues(Now, p), l, <<>>)
  BY <1>1, <1>2, RetiredQueues
<1>5. Now' = g
  BY <1>1, <1>3 DEF Now
<1> HIDE DEF g, q
<1>6. Along(q)'
  BY <1>1, <1>2, <1>4, <1>5, AlongLater
<1> QED BY <1>4, <1>5, <1>6

LEMMA BeginStep ==
  ASSUME NEW p, Along(p), NEW S \in SUBSET Data, WalkBegins(S)
  PROVE  /\ Queues(Now, p)[DelayQ] # <<>> /\ S \subseteq Range(Queues(Now, p)[DelayQ])
         /\ Along(p)' /\ Queues(Now', p) = Queues(Now, p)
<1> DEFINE s == p[DelayQ]
           delayed == Queues(Now, p)[DelayQ]
<1>1. /\ DelayQ \in Lists /\ RunQ \in Lists /\ DelayQ \notin retired /\ RunQ \notin retired
      /\ retired \subseteq Lists
  BY ListAssumption DEF Along
<1>2. /\ ~ IsLinkedListEmpty(DelayQ) /\ S \subseteq Range(delayed)
      /\ Range(Queues(Now, p)[RunQ]) \cap S = {}
  BY <1>1, QueueFacts DEF WalkBegins
<1>3. delayed # <<>>
  BY <1>1, <1>2, QueueFacts
<1>4. Now' = Now /\ retired' = retired /\ due' = S /\ temp' = head[DelayQ]
  BY DEF WalkBegins, listVars, Now
<1>5. Shape(Now, retired, p)
  BY DEF Along
<1>6. Len(s) \in Nat /\ Len(s) # 0
  <2>1. Queue(Now, s, delayed)
    BY <1>1, QueueFacts
  <2> QED BY <1>3, <2>1 DEF Queue
<1>7. head[DelayQ] = s[1]
  <2>1. Now.head[DelayQ] = IF Len(s) = 0 THEN None ELSE s[1]
    BY <1>1, <1>5, PathFacts
  <2> QED BY <1>6, <2>1 DEF Now
<1>8. Walking(p)'
  <2>1. 1 \in 1..(Len(s) + 1) /\ 1 # Len(s) + 1 /\ ~ \E n \in 1..(1 - 1) : TRUE
    <3>1. \A m \in Nat : m # 0 => 1 \in 1..(m + 1) /\ 1 # m + 1
      OBVIOUS
    <3> HIDE DEF s
    <3> QED BY <1>6, <3>1
  <2>2. \E k \in 1..(Len(s) + 1) :
          /\ temp' = IF k = Len(s) + 1 THEN None ELSE s[k]
          /\ \A n \in 1..(k - 1) : delayed[n] \notin due'
    <3> HIDE DEF s, delayed
    <3> QED BY <1>4, <1>7, <2>1
  <2> QED BY <1>2, <1>4, <2>2 DEF Walking
<1> QED BY <1>1, <1>2, <1>3, <1>4, <1>5, <1>8 DEF Along

\* Where the loop is, and what it has passed.
LEMMA PlaceOf ==
  ASSUME NEW p, Along(p), walking
  PROVE  LET s == p[DelayQ]  delayed == Queues(Now, p)[DelayQ] IN
         /\ DelayQ \in Lists /\ RunQ \in Lists /\ DelayQ # RunQ
         /\ Len(s) \in Nat /\ Queue(Now, s, delayed)
         /\ due \subseteq Range(delayed) /\ Range(Queues(Now, p)[RunQ]) \cap due = {}
         /\ temp = None =>
              \A n \in 1..Len(s) : delayed[n] \notin due
         /\ temp # None =>
              \E k \in 1..Len(s) :
                /\ temp = s[k] /\ node[temp].data = delayed[k]
                /\ node[temp].next = IF k = Len(s) THEN None ELSE s[k + 1]
                /\ \A n \in 1..(k - 1) : delayed[n] \notin due
<1>1. PICK s : s = p[DelayQ]
  OBVIOUS
<1>2. PICK delayed : delayed = Queues(Now, p)[DelayQ]
  OBVIOUS
<1>3. DelayQ \in Lists /\ RunQ \in Lists /\ DelayQ # RunQ /\ DelayQ \notin retired
  BY ListAssumption DEF Along
<1>4. Queue(Now, s, delayed)
  BY <1>1, <1>2, <1>3, QueueFacts
<1>5. due \subseteq Range(delayed) /\ Range(Queues(Now, p)[RunQ]) \cap due = {}
  BY <1>2 DEF Along, Walking
<1>6. PICK k \in 1..(Len(s) + 1) : /\ temp = IF k = Len(s) + 1 THEN None ELSE s[k]
                                  /\ \A n \in 1..(k - 1) : delayed[n] \notin due
  BY <1>1, <1>2 DEF Along, Walking
<1>7. Len(s) \in Nat
  BY <1>4 DEF Queue
<1>8. Shape(Now, retired, p)
  BY DEF Along
<1>9. \A n \in 1..Len(s) : s[n] # None
  BY <1>1, <1>3, <1>8, PathFacts
<1>10. \A n \in 1..Len(s) : node[s[n]].next = IF n = Len(s) THEN None ELSE s[n + 1]
  BY <1>1, <1>3, <1>8, PathFacts DEF Now
<1>11. \A n \in 1..Len(s) : node[s[n]].data = delayed[n]
  BY <1>4 DEF Queue, Now
<1>12. k \in 1..Len(s) \/ k = Len(s) + 1
  BY <1>7
<1>13. CASE k \in 1..Len(s)
  <2>1. k # Len(s) + 1
    BY <1>7, <1>13
  <2>2. temp = s[k] /\ temp # None
    BY <1>6, <1>9, <1>13, <2>1
  <2>3. /\ node[temp].data = delayed[k]
        /\ node[temp].next = IF k = Len(s) THEN None ELSE s[k + 1]
    BY <1>10, <1>11, <1>13, <2>2
  <2>4. \E j \in 1..Len(s) :
          /\ temp = s[j] /\ node[temp].data = delayed[j]
          /\ node[temp].next = IF j = Len(s) THEN None ELSE s[j + 1]
          /\ \A n \in 1..(j - 1) : delayed[n] \notin due
    BY <1>6, <1>13, <2>2, <2>3
  <2> QED BY <1>1, <1>2, <1>3, <1>4, <1>5, <1>7, <2>2, <2>4
<1>14. CASE k = Len(s) + 1
  <2>1. temp = None
    BY <1>6, <1>14
  <2>2. k - 1 = Len(s)
    BY <1>7, <1>14
  <2>3. \A n \in 1..Len(s) : delayed[n] \notin due
    BY <1>6, <2>2
  <2> QED BY <1>1, <1>2, <1>3, <1>4, <1>5, <1>7, <2>1, <2>3
<1> QED BY <1>12, <1>13, <1>14

LEMMA PassStep ==
  ASSUME NEW p, Along(p), WalkPasses
  PROVE  /\ Along(p)' /\ Queues(Now', p) = Queues(Now, p)
         /\ UNCHANGED <<retired, due, walking, last>>
<1>1. /\ walking /\ temp # None /\ node[temp].data \notin due /\ temp' = node[temp].next
      /\ Now' = Now /\ UNCHANGED <<retired, due, walking, last>>
  BY DEF WalkPasses, listVars, Now
<1>2. PICK s : s = p[DelayQ]
  OBVIOUS
<1>3. PICK delayed : delayed = Queues(Now, p)[DelayQ]
  OBVIOUS
<1>4. Len(s) \in Nat /\ due \subseteq Range(delayed) /\ Range(Queues(Now, p)[RunQ]) \cap due = {}
  BY <1>1, <1>2, <1>3, PlaceOf
<1>5. PICK k \in 1..Len(s) :
        /\ temp = s[k] /\ node[temp].data = delayed[k]
        /\ node[temp].next = IF k = Len(s) THEN None ELSE s[k + 1]
        /\ \A n \in 1..(k - 1) : delayed[n] \notin due
  BY <1>1, <1>2, <1>3, PlaceOf
<1>6. /\ k + 1 \in 1..(Len(s) + 1) /\ (k + 1 = Len(s) + 1 <=> k = Len(s))
      /\ \A n \in 1..(k + 1 - 1) : n \in 1..(k - 1) \/ n = k
  BY <1>4
<1>7. temp' = IF k + 1 = Len(s) + 1 THEN None ELSE s[k + 1]
  BY <1>1, <1>5, <1>6
<1>8. \A n \in 1..(k + 1 - 1) : delayed[n] \notin due
  BY <1>1, <1>5, <1>6
<1>9. \E j \in 1..(Len(s) + 1) : /\ temp' = IF j = Len(s) + 1 THEN None ELSE s[j]
                               /\ \A n \in 1..(j - 1) : delayed[n] \notin due
  BY <1>6, <1>7, <1>8
<1>10. Walking(p)'
  BY <1>1, <1>2, <1>3, <1>4, <1>9 DEF Walking
<1> QED BY <1>1, <1>10 DEF Along

LEMMA EndStep ==
  ASSUME NEW p, Along(p), WalkEnds
  PROVE  /\ walking /\ due = {} /\ Along(p)' /\ Queues(Now', p) = Queues(Now, p)
<1>1. walking /\ temp = None /\ ~ walking' /\ Now' = Now /\ UNCHANGED <<retired, temp, due, last>>
  BY DEF WalkEnds, listVars, Now
<1>2. PICK s : s = p[DelayQ]
  OBVIOUS
<1>3. PICK delayed : delayed = Queues(Now, p)[DelayQ]
  OBVIOUS
<1>4. due \subseteq Range(delayed) /\ Queue(Now, s, delayed) /\ \A n \in 1..Len(s) : delayed[n] \notin due
  BY <1>1, <1>2, <1>3, PlaceOf
<1>5. due = {}
  BY <1>4 DEF Queue, Range
<1> QED BY <1>1, <1>5 DEF Along, Walking

LEMMA MoveStep ==
  ASSUME NEW p, Along(p), WalkMoves
  PROVE  LET queues == Queues(Now, p)  delayed == queues[DelayQ] IN
         \E k \in 1..Len(delayed) :
           /\ delayed[k] \in due /\ \A n \in 1..(k - 1) : delayed[n] \notin due
           /\ due' = due \ {delayed[k]} /\ walking /\ UNCHANGED <<retired, walking, last>>
           /\ \E q : /\ Along(q)'
                    /\ Queues(Now', q) =
                         With(With(queues, DelayQ, Without(delayed, k)),
                              RunQ, Append(queues[RunQ], delayed[k]))
<1>1. /\ walking /\ temp # None /\ node[temp].data \in due /\ UNCHANGED <<retired, walking, last>>
  BY DEF WalkMoves
<1>2. PICK s : s = p[DelayQ]
  OBVIOUS
<1>3. PICK queues : queues = Queues(Now, p)
  OBVIOUS
<1>4. PICK delayed : delayed = queues[DelayQ]
  OBVIOUS
<1>5. /\ DelayQ \in Lists /\ RunQ \in Lists /\ DelayQ # RunQ
      /\ Len(s) \in Nat /\ Queue(Now, s, delayed)
      /\ due \subseteq Range(delayed) /\ Range(queues[RunQ]) \cap due = {}
  BY <1>1, <1>2, <1>3, <1>4, PlaceOf
<1>6. PICK k \in 1..Len(s) :
        /\ temp = s[k] /\ node[temp].data = delayed[k]
        /\ node[temp].next = IF k = Len(s) THEN None ELSE s[k + 1]
        /\ \A n \in 1..(k - 1) : delayed[n] \notin due
  BY <1>1, <1>2, <1>3, <1>4, PlaceOf
<1>7. Shape(Now, retired, p) /\ DelayQ \notin retired /\ RunQ \notin retired /\ retired \subseteq Lists
  BY DEF Along
<1>8. PICK x : x = delayed[k]
  OBVIOUS
<1>9. /\ delayed \in Seq(Data) /\ Len(delayed) = Len(s) /\ IsInjective(delayed)
      /\ DOMAIN delayed = 1..Len(s)
  BY <1>5 DEF Queue
<1>10. x \in Data /\ x \in Range(delayed) /\ x \in due
  BY <1>1, <1>6, <1>8, <1>9, ElementOfSeq DEF Range
<1>11. SearchAndReturnPCB(DelayQ, node[temp].data) = x
  <2>1. Contents(DelayQ) = delayed
    BY <1>3, <1>4, <1>5, <1>7, QueueFacts
  <2> QED BY <1>6, <1>8, <1>10, <2>1 DEF SearchAndReturnPCB
<1>12. PICK h : h = Freed(Unlinked(Now, DelayQ, temp), temp)
  OBVIOUS
<1>13. PICK r : r = With(p, DelayQ, Without(s, k))
  OBVIOUS
<1>14. /\ Shape(h, retired, r) /\ Queues(h, r) = With(queues, DelayQ, Without(delayed, k))
       /\ ~ h.node[temp].allocated
  BY <1>2, <1>3, <1>4, <1>5, <1>6, <1>7, <1>12, <1>13, UnlinkedQueues
<1>15. PICK a \in Malloc(h) : /\ Becomes(Enqueued(h, RunQ, x, a))
                             /\ temp' = NextPlace(Enqueued(h, RunQ, x, a))
                             /\ due' = due \ {x}
  BY <1>11, <1>12 DEF WalkMoves
<1>16. a \in Addr /\ ~ h.node[a].allocated /\ a # None
  <2>1. temp \in Addr
    BY <1>2, <1>5, <1>6, <1>7, PathFacts
  <2>2. temp \in {b \in Addr : ~ h.node[b].allocated}
    BY <1>14, <2>1
  <2>3. a \in {b \in Addr : ~ h.node[b].allocated}
    BY <1>15, <2>2 DEF Malloc
  <2> QED BY <2>3, ListAssumption
<1>17. PICK g : g = Linked(h, RunQ, x, a)
  OBVIOUS
<1>18. PICK q : q = With(r, RunQ, Append(r[RunQ], a))
  OBVIOUS
<1>19. queues \in [Lists -> Seq(Data)]
  <2>1. \A l \in Lists : queues[l] \in Seq(Data)
    BY <1>3, QueueFacts DEF Queue
  <2> QED BY <1>3, <2>1 DEF Queues
<1>20. /\ Queues(h, r)[RunQ] = queues[RunQ] /\ Queues(h, r)[DelayQ] = Without(delayed, k)
  BY <1>5, <1>14, <1>19 DEF With
<1>21. x \notin Range(Queues(h, r)[RunQ])
  BY <1>5, <1>10, <1>20
<1>22. /\ Shape(g, retired, q)
       /\ Queues(g, q) = With(Queues(h, r), RunQ, Append(queues[RunQ], x))
  <2>1. Shape(g, retired, q) /\ Queues(g, q) = With(Queues(h, r), RunQ, Append(Queues(h, r)[RunQ], x))
    BY <1>5, <1>7, <1>10, <1>14, <1>16, <1>17, <1>18, <1>21, LinkedQueues
  <2> QED BY <1>20, <2>1
<1>23. Now' = g /\ temp' = node[temp].next
  <2>1. Becomes(g)
    BY <1>15, <1>16, <1>17 DEF Enqueued
  <2>2. g \in Heap
    BY <1>22 DEF Shape
  <2> QED BY <1>15, <2>1, <2>2, NowIs DEF NextPlace
<1>24. Queues(g, q)[DelayQ] = Without(delayed, k) /\ Queues(g, q)[RunQ] = Append(queues[RunQ], x)
  <2>1. Queues(h, r) \in [Lists -> Seq(Data)]
    <3>1. \A l \in Lists : Items(h, r[l]) \in Seq(Data)
      BY <1>14, ItemsProperties DEF Queue
    <3> QED BY <3>1 DEF Queues
  <2> QED BY <1>5, <1>20, <1>22, <2>1 DEF With
<1>25. k \in 1..Len(delayed)
  BY <1>9
<1>26. /\ \A n \in 1..(Len(s) - 1) : Without(delayed, k)[n] = IF n < k THEN delayed[n] ELSE delayed[n + 1]
       /\ Range(Without(delayed, k)) = Range(delayed) \ {x}
  BY <1>8, <1>9, <1>25, WithoutProperties
<1>27. PICK t : t = Without(s, k)
  OBVIOUS
<1>28. q[DelayQ] = t
  <2>1. p \in [Lists -> Seq(Addr)] /\ r \in [Lists -> Seq(Addr)]
    BY <1>7, <1>14 DEF Shape
  <2> QED BY <1>5, <1>13, <1>18, <1>27, <2>1 DEF With
<1>29. Len(t) = Len(s) - 1 /\ \A n \in 1..(Len(s) - 1) : t[n] = IF n < k THEN s[n] ELSE s[n + 1]
  <2>1. s \in Seq(Addr)
    BY <1>2, <1>5, <1>7 DEF Shape
  <2> QED BY <1>27, <2>1, WithoutProperties
<1>30. \E j \in 1..(Len(t) + 1) :
         /\ temp' = IF j = Len(t) + 1 THEN None ELSE t[j]
         /\ \A n \in 1..(j - 1) : Without(delayed, k)[n] \notin due'
  <2>1. k \in 1..(Len(t) + 1) /\ (k = Len(t) + 1 <=> k = Len(s))
    BY <1>5, <1>29
  <2>2. k # Len(s) => t[k] = s[k + 1]
    <3>1. k # Len(s) => k \in 1..(Len(s) - 1) /\ ~ (k < k)
      BY <1>5
    <3> QED BY <1>29, <3>1
  <2>3. temp' = IF k = Len(t) + 1 THEN None ELSE t[k]
    BY <1>6, <1>23, <2>1, <2>2
  <2>4. \A n \in 1..(k - 1) : n \in 1..(Len(s) - 1) /\ n < k
    BY <1>5
  <2>5. \A n \in 1..(k - 1) : Without(delayed, k)[n] \notin due'
    BY <1>6, <1>15, <1>26, <2>4
  <2> QED BY <2>1, <2>3, <2>5
<1>31. Walking(q)'
  <2>1. due' \subseteq Range(Without(delayed, k))
    BY <1>5, <1>15, <1>26
  <2>2. Range(Append(queues[RunQ], x)) = Range(queues[RunQ]) \cup {x}
    <3>1. queues[RunQ] \in Seq(Data)
      BY <1>5, <1>19
    <3> QED BY <1>10, <3>1, EnqueueProperties
  <2>3. Range(Append(queues[RunQ], x)) \cap due' = {}
    BY <1>5, <1>15, <2>2
  <2> QED BY <1>23, <1>24, <1>28, <1>30, <2>1, <2>3 DEF Walking
<1>32. Along(q)'
  BY <1>1, <1>7, <1>22, <1>23, <1>31 DEF Along
<1>33. Queues(Now', q) = With(With(queues, DelayQ, Without(delayed, k)), RunQ, Append(queues[RunQ], x))
  BY <1>14, <1>22, <1>23
<1>34. due' = due \ {delayed[k]} /\ delayed[k] \in due
  BY <1>8, <1>10, <1>15
<1>35. \E f : /\ Along(f)'
            /\ Queues(Now', f) = With(With(queues, DelayQ, Without(delayed, k)),
                                      RunQ, Append(queues[RunQ], delayed[k]))
  BY <1>8, <1>32, <1>33
<1> QED BY <1>1, <1>3, <1>4, <1>6, <1>25, <1>34, <1>35

LEMMA NextListInv ==
  ASSUME ListInv, [Next]_vars
  PROVE  ListInv'
<1>1. PICK p : Along(p)
  BY DEF ListInv
<1> SUFFICES \E q : Along(q)'
  BY DEF ListInv
<1>2. ASSUME NEW l \in Lists, NEW x \in Data, enqueueToList(l, x) PROVE \E q : Along(q)'
  BY <1>1, <1>2, EnqueueStep
<1>3. ASSUME NEW l \in Lists, dequeueFromList(l) PROVE \E q : Along(q)'
  BY <1>1, <1>3, DequeueStep
<1>4. ASSUME NEW l \in Lists, peekFromList(l) PROVE \E q : Along(q)'
  BY <1>1, <1>4 DEF peekFromList, listVars, Idling, Along, Walking, Now
<1>5. ASSUME NEW l \in Lists, NEW x \in Data, SearchAndRemovePCB(l, x) PROVE \E q : Along(q)'
  BY <1>1, <1>5, RemoveStep
<1>6. ASSUME NEW l \in Lists, freeListContents(l) PROVE \E q : Along(q)'
  BY <1>1, <1>6, RetireStep
<1>7. ASSUME NEW S \in SUBSET Data, WalkBegins(S) PROVE \E q : Along(q)'
  BY <1>1, <1>7, BeginStep
<1>8. CASE WalkMoves
  BY <1>1, <1>8, MoveStep
<1>9. CASE WalkPasses
  BY <1>1, <1>9, PassStep
<1>10. CASE WalkEnds
  BY <1>1, <1>10, EndStep
<1>11. CASE UNCHANGED vars
  BY <1>1, <1>11 DEF vars, listVars, Along, Walking, Now
<1> QED BY <1>2, <1>3, <1>4, <1>5, <1>6, <1>7, <1>8, <1>9, <1>10, <1>11 DEF Next

LEMMA ListInvariant == Spec => []ListInv
<1>1. Init => ListInv
  BY InitAlong DEF ListInv
<1>2. ListInv /\ [Next]_vars => ListInv'
  BY NextListInv
<1> QED BY <1>1, <1>2, PTL DEF Spec

\* Whatever is put in and taken out where, and however long the clock handler
\* unlinks, frees and allocates nodes on its way through delay_queue: the links
\* of linked_list.c agree with each other, no node is in two lists, none in a
\* list has been freed, and none that is in no list is left allocated.
THEOREM LinksHoldTogether == Spec => []WellLinked
<1>1. ListInv => WellLinked
  BY AlongWellLinked
<1> QED BY <1>1, ListInvariant, PTL
----------------------------------------------------------------------------
(***************************************************************************)
(* The lists are queues.                                                   *)
(***************************************************************************)

\* What Fifos sees of the lists.
Fifo == [l \in Lists |-> IF l \in retired THEN <<>> ELSE Contents(l)]

FifoMatches == \A p : Along(p) => Fifo = Queues(Now, p)

LEMMA FifoIs == FifoMatches
<1> SUFFICES ASSUME NEW p, Along(p) PROVE Fifo = Queues(Now, p)
  BY DEF FifoMatches
<1>1. \A l \in Lists : Queues(Now, p)[l] = IF l \in retired THEN <<>> ELSE Contents(l)
  BY QueueFacts
<1>2. Queues(Now, p) = [l \in Lists |-> Queues(Now, p)[l]]
  BY DEF Queues
<1> QED BY <1>1, <1>2 DEF Fifo

\* There are as many elements in the lists as there are nodes allocated.
LEMMA ElementsAreNodes ==
  ASSUME NEW p, Along(p)
  PROVE  LET elements == UNION {{l} \X Range(Fifo[l]) : l \in Lists} IN
         Cardinality(elements) = Cardinality(Addr) <=> \A a \in Addr : node[a].allocated
<1> DEFINE elements == UNION {{l} \X Range(Fifo[l]) : l \in Lists}
           owner(a) == CHOOSE l \in Lists : a \in Range(p[l])
           f == [a \in Allocated |-> <<owner(a), node[a].data>>]
<1>1. Fifo = Queues(Now, p) /\ Shape(Now, retired, p)
  BY FifoIs DEF FifoMatches, Along
<1>2. ASSUME NEW l \in Lists, NEW i \in 1..Len(p[l])
      PROVE  p[l][i] \in Allocated /\ p[l][i] \in Range(p[l])
  <2>1. l \notin retired
    <3>1. Queue(Now, p[l], Queues(Now, p)[l])
      BY QueueFacts
    <3>2. l \in retired => Len(p[l]) = 0
      BY <1>1, EmptySeq DEF Shape
    <3> QED BY <3>1, <3>2 DEF Queue
  <2>2. p[l][i] \in Addr /\ Now.node[p[l][i]].allocated /\ DOMAIN p[l] = 1..Len(p[l])
    BY <1>1, <2>1, PathFacts
  <2> QED BY <2>2 DEF Allocated, Now, Range
<1>3. ASSUME NEW a \in Allocated
      PROVE  /\ owner(a) \in Lists /\ a \in Range(p[owner(a)])
             /\ \A l \in Lists : a \in Range(p[l]) => l = owner(a)
  <2>1. \E l \in Lists : a \in Range(p[l])
    BY <1>1 DEF Allocated, Shape, Now
  <2>2. owner(a) \in Lists /\ a \in Range(p[owner(a)])
    BY <2>1
  <2> HIDE DEF owner
  <2> QED BY <1>1, <2>2 DEF Shape
<1> HIDE DEF owner
<1>4. ASSUME NEW a \in Allocated
      PROVE  \E i \in 1..Len(p[owner(a)]) : /\ a = p[owner(a)][i]
                                            /\ node[a].data = Fifo[owner(a)][i]
                                            /\ node[a].data \in Range(Fifo[owner(a)])
  <2>1. owner(a) \in Lists /\ a \in Range(p[owner(a)])
    BY <1>3
  <2>2. Queue(Now, p[owner(a)], Fifo[owner(a)])
    BY <1>1, <2>1, QueueFacts
  <2>3. DOMAIN p[owner(a)] = 1..Len(p[owner(a)])
    BY <1>1, <2>1, LenProperties DEF Shape
  <2>4. PICK i \in 1..Len(p[owner(a)]) : a = p[owner(a)][i]
    BY <2>1, <2>3 DEF Range
  <2>5. node[a].data = Fifo[owner(a)][i]
    BY <2>2, <2>4 DEF Queue, Now
  <2>6. node[a].data \in Range(Fifo[owner(a)])
    BY <2>2, <2>4 DEF Queue, Now
  <2> QED BY <2>4, <2>5, <2>6
<1>5. f \in [Allocated -> elements]
  <2>1. \A a \in Allocated : <<owner(a), node[a].data>> \in elements
    BY <1>3, <1>4
  <2> HIDE DEF elements
  <2> QED BY <2>1
<1>6. ASSUME NEW a \in Allocated, NEW b \in Allocated, f[a] = f[b]
      PROVE  a = b
  <2>1. owner(a) = owner(b) /\ node[a].data = node[b].data
    BY <1>6
  <2>2. PICK l \in Lists : l = owner(a)
    BY <1>3
  <2>3. PICK i \in 1..Len(p[l]) : a = p[l][i] /\ node[a].data = Fifo[l][i]
    BY <1>4, <2>2
  <2>4. PICK j \in 1..Len(p[l]) : b = p[l][j] /\ node[b].data = Fifo[l][j]
    BY <1>4, <2>1, <2>2
  <2>5. Queue(Now, p[l], Fifo[l])
    BY <1>1, QueueFacts
  <2>6. i = j
    BY <2>1, <2>3, <2>4, <2>5 DEF Queue, IsInjective
  <2> QED BY <2>3, <2>4, <2>6
<1>7. ASSUME NEW e \in elements
      PROVE  \E a \in Allocated : f[a] = e
  <2>1. PICK l \in Lists : e \in {l} \X Range(Fifo[l])
    OBVIOUS
  <2>2. PICK y \in Range(Fifo[l]) : e = <<l, y>>
    BY <2>1
  <2>3. Queue(Now, p[l], Fifo[l])
    BY <1>1, QueueFacts
  <2>4. PICK i \in 1..Len(p[l]) : y = node[p[l][i]].data
    BY <2>2, <2>3 DEF Queue, Now
  <2>5. p[l][i] \in Allocated /\ owner(p[l][i]) = l
    BY <1>2, <1>3
  <2>6. f[p[l][i]] = <<owner(p[l][i]), node[p[l][i]].data>>
    BY <2>5
  <2> QED BY <2>2, <2>4, <2>5, <2>6
<1> HIDE DEF elements, f
<1>8. f \in Bijection(Allocated, elements)
  BY <1>5, <1>6, <1>7, Fun_IsBij
<1>9. IsFiniteSet(Addr) /\ Allocated \in SUBSET Addr
  BY ListAssumption DEF Allocated
<1>10. IsFiniteSet(Allocated) /\ (Cardinality(Addr) = Cardinality(Allocated) => Addr = Allocated)
  BY <1>9, FS_Subset
<1>11. Cardinality(elements) = Cardinality(Allocated)
  BY <1>8, <1>10, FS_Bijection DEF ExistsBijection
<1>12. Cardinality(elements) = Cardinality(Addr) <=> Addr = Allocated
  BY <1>10, <1>11
<1>13. Addr = Allocated <=> \A a \in Addr : node[a].allocated
  BY DEF Allocated
<1> QED BY <1>12, <1>13 DEF elements

\* The operators that Fifos takes from the library are the same.
LEMMA SameOperators ==
  /\ \A f : Abstract!Range(f) = Range(f)
  /\ \A s, x : Abstract!RemoveFirst(s, x) = RemoveFirst(s, x)
  /\ \A S : Abstract!Cardinality(S) = Cardinality(S)
<1>1. \A f : Abstract!Range(f) = Range(f)
  BY DEF Range, Abstract!Range
<1>2. \A s, x : Abstract!RemoveFirst(s, x) = RemoveFirst(s, x)
  BY DEF RemoveFirst, SelectInSeq, Min, RemoveAt,
         Abstract!RemoveFirst, Abstract!SelectInSeq, Abstract!Min, Abstract!RemoveAt
<1>3. \A S : Abstract!Cardinality(S) = Cardinality(S)
  BY DEF Cardinality, Abstract!Cardinality
<1> QED BY <1>1, <1>2, <1>3

LEMMA FifosInit == Init => Abstract!Init
<1> SUFFICES ASSUME Init PROVE Abstract!Init
  OBVIOUS
<1> DEFINE p == [l \in Lists |-> <<>>]
<1>1. Along(p)
  BY InitAlong
<1>2. ASSUME NEW l \in Lists PROVE Queues(Now, p)[l] = <<>>
  <2>1. Queue(Now, p[l], Queues(Now, p)[l])
    BY <1>1, QueueFacts
  <2> QED BY <2>1, EmptySeq DEF Queue
<1>3. Queues(Now, p) = p
  BY <1>2 DEF Queues
<1>4. Fifo = p
  BY <1>1, <1>3, FifoIs DEF FifoMatches
<1> QED BY <1>4 DEF Fifo, Abstract!Init, Init, Abstract!Call, Call

\* Every step of the pointers is a step of the queues, or none.
LEMMA FifosStep ==
  ASSUME ListInv, [Next]_vars
  PROVE  [Abstract!Next]_(Abstract!fifoVars)
<1>1. PICK p : Along(p)
  BY DEF ListInv
<1>2. \A q : Along(q)' => Fifo' = Queues(Now', q)
  <2>1. FifoMatches'
    BY FifoIs, PTL
  <2> QED BY <2>1 DEF FifoMatches
<1>3. Fifo = Queues(Now, p)
  BY <1>1, FifoIs DEF FifoMatches
<1>4. Fifo \in [Lists -> Seq(Data)] /\ \A l \in Lists : Queue(Now, p[l], Fifo[l])
  <2>1. \A l \in Lists : Queue(Now, p[l], Fifo[l])
    BY <1>1, <1>3, QueueFacts
  <2>2. Fifo = [l \in Lists |-> Fifo[l]]
    BY <1>3 DEF Queues
  <2> QED BY <2>1, <2>2 DEF Queue
<1>5. ASSUME NEW l \in Lists, NEW x \in Data, enqueueToList(l, x)
      PROVE  Abstract!Enqueue(l, x)
  <2>1. ~ walking /\ l \notin retired /\ x \notin Range(Contents(l))
        /\ last' = Call("enqueue", l, x) /\ UNCHANGED <<retired, due, walking>>
    BY <1>5 DEF enqueueToList, Usable, Idling
  <2>2. Fifo[l] = Contents(l)
    BY <2>1 DEF Fifo
  <2>3. Fifo' = IF Cardinality(UNION {{m} \X Range(Fifo[m]) : m \in Lists}) = Cardinality(Addr)
                THEN Fifo ELSE With(Fifo, l, Append(Fifo[l], x))
    <3> DEFINE full == Cardinality(UNION {{m} \X Range(Fifo[m]) : m \in Lists}) = Cardinality(Addr)
    <3>1. full <=> \A a \in Addr : node[a].allocated
      BY <1>1, ElementsAreNodes
    <3> HIDE DEF full
    <3>2. \/ (\A a \in Addr : node[a].allocated) /\ Along(p)' /\ Queues(Now', p) = Queues(Now, p)
          \/ /\ \E a \in Addr : ~ node[a].allocated
             /\ \E q : /\ Along(q)'
                      /\ Queues(Now', q) = With(Queues(Now, p), l, Append(Queues(Now, p)[l], x))
      BY <1>1, <1>5, EnqueueStep
    <3>3. Fifo' = IF full THEN Fifo ELSE With(Fifo, l, Append(Fifo[l], x))
      BY <1>2, <1>3, <3>1, <3>2
    <3> QED BY <3>3 DEF full
  <2>4. x \notin Abstract!Range(Fifo[l])
    BY <2>1, <2>2, SameOperators
  <2>5. UNION {{m} \X Range(Fifo[m]) : m \in Lists} = Abstract!Elements
    BY SameOperators DEF Fifo, Abstract!Elements
  <2>6. Fifo' = IF Abstract!Cardinality(Abstract!Elements) = Cardinality(Addr)
                THEN Fifo ELSE [Fifo EXCEPT ![l] = Append(@, x)]
    BY <2>3, <2>5, SameOperators DEF With
  <2> QED BY <2>1, <2>4, <2>6 DEF Fifo, Abstract!Enqueue, Abstract!Usable, Abstract!Call, Call
<1>6. ASSUME NEW l \in Lists, dequeueFromList(l)
      PROVE  Abstract!Dequeue(l)
  <2>1. ~ walking /\ l \notin retired /\ UNCHANGED <<retired, due, walking>>
    BY <1>6 DEF dequeueFromList, Usable, Idling
  <2>2. \/ /\ Fifo[l] = <<>> /\ last' = Call("dequeue", l, None) /\ Fifo' = Fifo
        \/ /\ Fifo[l] # <<>> /\ last' = Call("dequeue", l, Head(Fifo[l]))
           /\ Fifo' = With(Fifo, l, Tail(Fifo[l]))
    BY <1>1, <1>2, <1>3, <1>6, DequeueStep
  <2> QED BY <2>1, <2>2 DEF Fifo, With, Abstract!Dequeue, Abstract!Usable, Abstract!Call, Call
<1>7. ASSUME NEW l \in Lists, peekFromList(l)
      PROVE  Abstract!Peek(l)
  <2>1. /\ ~ walking /\ l \notin retired /\ UNCHANGED <<retired, due, walking>>
        /\ last' = Call("peek", l, IF IsLinkedListEmpty(l) THEN None ELSE node[head[l]].data)
        /\ Now' = Now
    BY <1>7 DEF peekFromList, Usable, Idling, listVars, Now
  <2>2. Along(p)'
    BY <1>1, <2>1 DEF Along, Walking
  <2>3. Fifo' = Fifo
    BY <1>2, <1>3, <2>1, <2>2
  <2>4. (IsLinkedListEmpty(l) <=> Fifo[l] = <<>>)
        /\ (~ IsLinkedListEmpty(l) => node[head[l]].data = Head(Fifo[l]))
    BY <1>1, <1>3, <2>1, QueueFacts
  <2>5. last' = Call("peek", l, IF Fifo[l] = <<>> THEN None ELSE Head(Fifo[l]))
    BY <2>1, <2>4
  <2> QED BY <2>1, <2>3, <2>5 DEF Fifo, Abstract!Peek, Abstract!Usable, Abstract!Call, Call
<1>8. ASSUME NEW l \in Lists, NEW x \in Data, SearchAndRemovePCB(l, x)
      PROVE  Abstract!TakeOut(l, x)
  <2>1. ~ walking /\ l \notin retired /\ UNCHANGED <<retired, due, walking>>
    BY <1>8 DEF SearchAndRemovePCB, Usable, Idling
  <2>2. \/ /\ x \notin Range(Fifo[l]) /\ last' = Call("remove", l, None) /\ Fifo' = Fifo
        \/ /\ x \in Range(Fifo[l]) /\ last' = Call("remove", l, x)
           /\ Fifo' = With(Fifo, l, RemoveFirst(Fifo[l], x))
    BY <1>1, <1>2, <1>3, <1>8, RemoveStep
  <2>3. x \notin Range(Fifo[l]) => RemoveFirst(Fifo[l], x) = Fifo[l]
    BY <1>4, RemoveFirstProperties
  <2>4. Fifo' = With(Fifo, l, RemoveFirst(Fifo[l], x))
        /\ last' = Call("remove", l, IF x \in Range(Fifo[l]) THEN x ELSE None)
    BY <1>4, <2>2, <2>3 DEF With
  <2>5. Fifo' = [Fifo EXCEPT ![l] = Abstract!RemoveFirst(@, x)]
        /\ last' = Call("remove", l, IF x \in Abstract!Range(Fifo[l]) THEN x ELSE None)
    BY <2>4, SameOperators DEF With
  <2> QED BY <2>1, <2>5 DEF Fifo, Abstract!TakeOut, Abstract!Usable, Abstract!Call, Call
<1>9. ASSUME NEW l \in Lists, freeListContents(l)
      PROVE  Abstract!Retire(l)
  <2>1. /\ ~ walking /\ l \notin retired /\ retired' = retired \cup {l}
        /\ last' = Call("retire", l, None) /\ UNCHANGED <<due, walking>>
    BY <1>9 DEF freeListContents, Usable
  <2>2. Fifo' = With(Fifo, l, <<>>)
    BY <1>1, <1>2, <1>3, <1>9, RetireStep
  <2> QED BY <2>1, <2>2 DEF Fifo, With, Abstract!Retire, Abstract!Usable, Abstract!Call, Call
<1>10. ASSUME NEW S \in SUBSET Data, WalkBegins(S)
       PROVE  Abstract!Begin(S)
  <2>1. /\ ~ walking /\ DelayQ \notin retired /\ RunQ \notin retired /\ due' = S /\ walking' = TRUE
        /\ last' = Call("walk", DelayQ, None) /\ UNCHANGED retired
    BY <1>10 DEF WalkBegins, Usable
  <2>2. Fifo[DelayQ] # <<>> /\ S \subseteq Range(Fifo[DelayQ]) /\ Fifo' = Fifo
    BY <1>1, <1>2, <1>3, <1>10, BeginStep
  <2>3. S \subseteq Abstract!Range(Fifo[DelayQ])
    BY <2>2, SameOperators
  <2> QED BY <2>1, <2>2, <2>3 DEF Fifo, Abstract!Begin, Abstract!Usable, Abstract!Call, Call
<1>11. ASSUME WalkMoves
       PROVE  \E x \in Data : Abstract!Move(x)
  <2>1. PICK k \in 1..Len(Fifo[DelayQ]) :
          /\ Fifo[DelayQ][k] \in due /\ \A n \in 1..(k - 1) : Fifo[DelayQ][n] \notin due
          /\ due' = due \ {Fifo[DelayQ][k]} /\ walking /\ UNCHANGED <<retired, walking, last>>
          /\ Fifo' = With(With(Fifo, DelayQ, Without(Fifo[DelayQ], k)),
                          RunQ, Append(Fifo[RunQ], Fifo[DelayQ][k]))
    BY <1>1, <1>2, <1>3, <1>11, MoveStep
  <2>2. PICK x : x = Fifo[DelayQ][k]
    OBVIOUS
  <2>3. /\ DelayQ \in Lists /\ RunQ \in Lists /\ DelayQ # RunQ
        /\ Fifo[DelayQ] \in Seq(Data) /\ IsInjective(Fifo[DelayQ])
    BY <1>4, ListAssumption DEF Queue
  <2>4. x \in Data /\ RemoveFirst(Fifo[DelayQ], x) = Without(Fifo[DelayQ], k)
    BY <2>1, <2>2, <2>3, ElementOfSeq, RemoveFirstIsWithout
  <2>5. Fifo' = [Fifo EXCEPT ![DelayQ] = Abstract!RemoveFirst(@, x), ![RunQ] = Append(@, x)]
    BY <1>4, <2>1, <2>2, <2>3, <2>4, SameOperators DEF With
  <2>6. \E n \in 1..Len(Fifo[DelayQ]) : /\ Fifo[DelayQ][n] = x
                                      /\ \A m \in 1..(n - 1) : Fifo[DelayQ][m] \notin due
    BY <2>1, <2>2
  <2>7. walking /\ x \in due /\ due' = due \ {x} /\ UNCHANGED <<retired, walking, last>>
    BY <2>1, <2>2
  <2>8. Abstract!Move(x)
    BY <2>5, <2>6, <2>7 DEF Fifo, Abstract!Move
  <2> QED BY <2>4, <2>8
<1>12. ASSUME WalkPasses PROVE UNCHANGED Abstract!fifoVars
  <2>1. Fifo' = Fifo /\ UNCHANGED <<retired, due, walking, last>>
    BY <1>1, <1>2, <1>3, <1>12, PassStep
  <2> QED BY <2>1 DEF Fifo, Abstract!fifoVars
<1>13. ASSUME WalkEnds PROVE Abstract!End
  <2>1. Fifo' = Fifo /\ walking /\ due = {} /\ walking' = FALSE /\ UNCHANGED <<retired, due, last>>
    BY <1>1, <1>2, <1>3, <1>13, EndStep DEF WalkEnds
  <2> QED BY <2>1 DEF Fifo, Abstract!End
<1>14. ASSUME UNCHANGED vars PROVE UNCHANGED Abstract!fifoVars
  <2>1. Now' = Now /\ Along(p)' /\ UNCHANGED <<retired, due, walking, last>>
    BY <1>1, <1>14 DEF vars, listVars, Along, Walking, Now
  <2>2. Fifo' = Fifo
    BY <1>2, <1>3, <2>1
  <2> QED BY <2>1, <2>2 DEF Fifo, Abstract!fifoVars
<1> QED
  BY <1>5, <1>6, <1>7, <1>8, <1>9, <1>10, <1>11, <1>12, <1>13, <1>14 DEF Next, Abstract!Next

\* linked_list.c implements the queues its callers take its lists for: what is
\* enqueued comes out in that order, or by name, once; what is lost is lost for
\* want of a node; and the loop of the clock handler moves what is due, in
\* order, all of it, and loses none.
THEOREM ListsAreFifos == Spec => FifosSpec
<1>1. Init => Abstract!Init
  BY FifosInit
<1>2. ListInv /\ [Next]_vars => [Abstract!Next]_(Abstract!fifoVars)
  BY FifosStep
<1> QED BY <1>1, <1>2, ListInvariant, PTL DEF Spec, FifosSpec, Abstract!Spec
============================================================================
