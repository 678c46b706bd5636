----------------------------- MODULE ListProofs -----------------------------
(***************************************************************************)
(* What appending, taking the first, and taking out do to the length, the  *)
(* contents and the absence of duplicates of a list; the kernel's list     *)
(* operations are made of these.                                           *)
(***************************************************************************)
EXTENDS Integers, Sequences, SequencesExt, FiniteSets, TLAPS, FiniteSetTheorems, FunctionTheorems,
        SequenceTheorems

\* Ranks in a finite set of numbers differ, so that every rank up to the
\* number of elements occurs.
LEMMA Ranks ==
  ASSUME NEW n \in Nat, NEW at \in SUBSET (1..n)
  PROVE  LET rank(i) == Cardinality({j \in at : j <= i}) IN
         /\ IsFiniteSet(at) /\ Cardinality(at) \in Nat
         /\ \A i \in at : rank(i) \in 1..Cardinality(at)
         /\ \A i, j \in at : rank(i) = rank(j) => i = j
         /\ \A k \in 1..Cardinality(at) : \E i \in at : rank(i) = k
<1> DEFINE upto(i) == {j \in at : j <= i}
           rank == [i \in at |-> Cardinality(upto(i))]
           ranks == 1..Cardinality(at)
<1>1. IsFiniteSet(at) /\ Cardinality(at) \in Nat
  <2>1. IsFiniteSet(1..n)
    BY FS_Interval
  <2> QED BY <2>1, FS_Subset, FS_CardinalityType
<1>2. ASSUME NEW i \in at
      PROVE  IsFiniteSet(upto(i)) /\ Cardinality(upto(i)) \in ranks
  <2>1. upto(i) \in SUBSET at /\ i \in upto(i)
    OBVIOUS
  <2>2. IsFiniteSet(upto(i)) /\ Cardinality(upto(i)) <= Cardinality(at)
        /\ Cardinality(upto(i)) \in Nat
    BY <1>1, <2>1, FS_Subset, FS_CardinalityType
  <2>3. Cardinality(upto(i)) # 0
    BY <2>1, <2>2, FS_EmptySet
  <2> QED BY <1>1, <2>2, <2>3
<1>3. ASSUME NEW i \in at, NEW j \in at, i < j
      PROVE  Cardinality(upto(i)) # Cardinality(upto(j))
  <2>1. upto(i) \in SUBSET upto(j) /\ j \in upto(j) /\ j \notin upto(i)
    <3>1. i \in Nat /\ j \in Nat /\ \A x \in at : x \in Nat
      OBVIOUS
    <3>2. \A x \in at : x <= i => x <= j
      BY <1>3, <3>1
    <3>3. ~ (j <= i) /\ j <= j
      BY <1>3, <3>1
    <3> QED BY <3>2, <3>3
  <2> QED BY <1>2, <2>1, FS_Subset
<1>4. rank \in [at -> ranks]
  BY <1>2
<1>5. \A i, j \in at : rank[i] = rank[j] => i = j
  <2> SUFFICES ASSUME NEW i \in at, NEW j \in at, rank[i] = rank[j] PROVE i = j
    OBVIOUS
  <2>1. i < j \/ j < i \/ i = j
    OBVIOUS
  <2> QED BY <1>3, <2>1
<1>6. rank \in Injection(at, ranks)
  BY <1>4, <1>5, Fun_IsInj
<1>7. IsFiniteSet(ranks) /\ Cardinality(ranks) = Cardinality(at)
  BY <1>1, FS_Interval
<1>8. rank \in Surjection(at, ranks)
  BY <1>6, <1>7, FS_Injection
<1> QED BY <1>1, <1>2, <1>5, <1>8 DEF Surjection

\* Append adds its argument, once if it was not there.
LEMMA EnqueueProperties ==
  ASSUME NEW T, NEW list \in Seq(T), NEW x \in T
  PROVE  /\ Append(list, x) \in Seq(T) /\ Append(list, x) # <<>>
         /\ Range(Append(list, x)) = Range(list) \cup {x}
         /\ IsInjective(list) /\ x \notin Range(list) => IsInjective(Append(list, x))
<1>1. /\ Append(list, x) \in Seq(T) /\ Append(list, x) # <<>>
      /\ DOMAIN list = 1..Len(list) /\ Len(list) \in Nat
      /\ DOMAIN Append(list, x) = 1..Len(list) + 1
      /\ \A i \in 1..Len(list) : Append(list, x)[i] = list[i]
      /\ Append(list, x)[Len(list) + 1] = x
  BY AppendProperties, LenProperties
<1>2. Range(Append(list, x)) = Range(list) \cup {x}
  BY <1>1 DEF Range
<1>3. ASSUME IsInjective(list), x \notin Range(list)
      PROVE  IsInjective(Append(list, x))
  <2> SUFFICES ASSUME NEW i \in 1..Len(list) + 1, NEW j \in 1..Len(list) + 1,
                      Append(list, x)[i] = Append(list, x)[j]
               PROVE  i = j
    BY <1>1 DEF IsInjective
  <2>1. \A k \in 1..Len(list) : list[k] # x
    BY <1>1, <1>3 DEF Range
  <2>2. CASE i \in 1..Len(list) /\ j \in 1..Len(list)
    BY <1>1, <1>3, <2>2 DEF IsInjective
  <2>3. CASE i = Len(list) + 1 \/ j = Len(list) + 1
    BY <1>1, <2>1, <2>3
  <2> QED BY <1>1, <2>2, <2>3
<1> QED BY <1>1, <1>2, <1>3

\* Head and Tail take one element out of a list without duplicates.
LEMMA DequeueProperties ==
  ASSUME NEW T, NEW list \in Seq(T), list # <<>>
  PROVE  /\ Head(list) \in T /\ Head(list) \in Range(list)
         /\ Tail(list) \in Seq(T)
         /\ Range(Tail(list)) \subseteq Range(list)
         /\ IsInjective(list) =>
              IsInjective(Tail(list)) /\ Range(Tail(list)) = Range(list) \ {Head(list)}
<1>1. /\ DOMAIN list = 1..Len(list) /\ Len(list) \in Nat \ {0}
      /\ Head(list) = list[1] /\ Head(list) \in T
      /\ Tail(list) \in Seq(T) /\ DOMAIN Tail(list) = 1..Len(list) - 1
      /\ \A i \in 1..Len(list) - 1 : Tail(list)[i] = list[i + 1]
  BY HeadTailProperties, LenProperties
<1>2. Head(list) \in Range(list) /\ Range(Tail(list)) \subseteq Range(list)
  BY <1>1 DEF Range
<1>3. ASSUME IsInjective(list)
      PROVE  IsInjective(Tail(list)) /\ Range(Tail(list)) = Range(list) \ {Head(list)}
  <2>1. \A i, j \in 1..Len(list) : list[i] = list[j] => i = j
    BY <1>1, <1>3 DEF IsInjective
  <2>2. IsInjective(Tail(list))
    BY <1>1, <2>1 DEF IsInjective
  <2>3. \A i \in 1..Len(list) - 1 : Tail(list)[i] \in Range(list) \ {Head(list)}
    BY <1>1, <2>1 DEF Range
  <2>4. ASSUME NEW i \in 1..Len(list), list[i] # Head(list)
        PROVE  list[i] \in Range(Tail(list))
    <3>1. i - 1 \in 1..Len(list) - 1 /\ Tail(list)[i - 1] = list[i]
      BY <1>1, <2>4
    <3> QED BY <1>1, <3>1 DEF Range
  <2> QED BY <1>1, <2>2, <2>3, <2>4 DEF Range
<1> QED BY <1>1, <1>2, <1>3

\* Two lists without duplicates and without a common element, one after the
\* other, have no duplicates.
LEMMA ConcatInjective ==
  ASSUME NEW T, NEW s \in Seq(T), NEW u \in Seq(T),
         IsInjective(s), IsInjective(u), Range(s) \cap Range(u) = {}
  PROVE  IsInjective(s \o u)
<1>1. /\ DOMAIN s = 1..Len(s) /\ Len(s) \in Nat
      /\ DOMAIN u = 1..Len(u) /\ Len(u) \in Nat
      /\ DOMAIN (s \o u) = 1..Len(s) + Len(u)
      /\ \A i \in 1..Len(s) + Len(u) :
           (s \o u)[i] = IF i <= Len(s) THEN s[i] ELSE u[i - Len(s)]
  BY ConcatProperties, LenProperties
<1> SUFFICES ASSUME NEW i \in 1..Len(s) + Len(u), NEW j \in 1..Len(s) + Len(u),
                    (s \o u)[i] = (s \o u)[j]
             PROVE  i = j
  BY <1>1 DEF IsInjective
<1>2. \A k \in 1..Len(s), l \in 1..Len(u) : s[k] # u[l]
  BY <1>1 DEF Range
<1>3. CASE i <= Len(s) /\ j <= Len(s)
  BY <1>1, <1>3 DEF IsInjective
<1>4. CASE i > Len(s) /\ j > Len(s)
  <2>1. u[i - Len(s)] = u[j - Len(s)] /\ i - Len(s) \in 1..Len(u) /\ j - Len(s) \in 1..Len(u)
    BY <1>1, <1>4
  <2>2. i - Len(s) = j - Len(s)
    BY <1>1, <2>1 DEF IsInjective
  <2> QED BY <1>1, <2>2
<1>5. CASE i <= Len(s) /\ j > Len(s)
  <2>1. s[i] = u[j - Len(s)] /\ i \in 1..Len(s) /\ j - Len(s) \in 1..Len(u)
    BY <1>1, <1>5
  <2> QED BY <1>2, <2>1
<1>6. CASE i > Len(s) /\ j <= Len(s)
  <2>1. u[i - Len(s)] = s[j] /\ j \in 1..Len(s) /\ i - Len(s) \in 1..Len(u)
    BY <1>1, <1>6
  <2> QED BY <1>2, <2>1
<1> QED BY <1>1, <1>3, <1>4, <1>5, <1>6

\* A list with the entry at n taken out.
LEMMA RemoveAtProperties ==
  ASSUME NEW T, NEW list \in Seq(T), NEW n \in 1..Len(list)
  PROVE  /\ RemoveAt(list, n) \in Seq(T)
         /\ Range(RemoveAt(list, n)) \subseteq Range(list)
         /\ IsInjective(list) =>
              /\ IsInjective(RemoveAt(list, n))
              /\ Range(RemoveAt(list, n)) = Range(list) \ {list[n]}
<1> DEFINE s == SubSeq(list, 1, n - 1)
           u == SubSeq(list, n + 1, Len(list))
<1>1. DOMAIN list = 1..Len(list) /\ Len(list) \in Nat /\ \A i \in 1..Len(list) : list[i] \in T
  BY LenProperties, ElementOfSeq
<1>2. /\ s \in Seq(T) /\ Len(s) = n - 1 /\ DOMAIN s = 1..n - 1
      /\ \A i \in 1..n - 1 : s[i] = list[i]
  <2>1. 1 \in Int /\ n - 1 \in Int /\ \A i \in 1..n - 1 : list[i] \in T
    BY <1>1
  <2>2. s \in Seq(T) /\ Len(s) = (IF 1 <= n - 1 THEN n - 1 ELSE 0)
        /\ \A i \in 1..n - 1 : s[i] = list[1 + i - 1]
    BY <2>1, SubSeqProperties
  <2> QED BY <1>1, <2>2, LenProperties
<1>3. /\ u \in Seq(T) /\ Len(u) = Len(list) - n /\ DOMAIN u = 1..Len(list) - n
      /\ \A i \in 1..Len(list) - n : u[i] = list[n + i]
  <2>1. n + 1 \in Int /\ Len(list) \in Int /\ \A i \in n + 1..Len(list) : list[i] \in T
    BY <1>1
  <2>2. u \in Seq(T)
        /\ Len(u) = (IF n + 1 <= Len(list) THEN Len(list) - (n + 1) + 1 ELSE 0)
        /\ \A i \in 1..Len(list) - (n + 1) + 1 : u[i] = list[n + 1 + i - 1]
    BY <2>1, SubSeqProperties
  <2>3. Len(list) - (n + 1) + 1 = Len(list) - n /\ n <= Len(list)
    BY <1>1
  <2>4. Len(u) = Len(list) - n
    <3>1. CASE n + 1 <= Len(list)
      BY <2>2, <2>3, <3>1
    <3>2. CASE n = Len(list)
      <4>1. ~ (n + 1 <= Len(list)) /\ Len(list) - n = 0
        BY <1>1, <3>2
      <4> QED BY <2>2, <4>1
    <3>3. n + 1 <= Len(list) \/ n = Len(list)
      <4>1. Len(list) \in Int /\ n \in Int /\ n <= Len(list)
        BY <1>1
      <4> HIDE DEF u, s
      <4> QED BY <4>1
    <3> QED BY <3>1, <3>2, <3>3
  <2>5. ASSUME NEW i \in 1..Len(list) - n PROVE u[i] = list[n + i]
    <3>1. n + 1 + i - 1 = n + i
      OBVIOUS
    <3> QED BY <2>2, <2>3, <3>1
  <2> QED BY <1>1, <2>2, <2>4, <2>5, LenProperties
<1>4. RemoveAt(list, n) = s \o u
  BY DEF RemoveAt
<1> HIDE DEF s, u
<1>5. Range(s) = {list[i] : i \in 1..n - 1}
  BY <1>2 DEF Range
<1>6. Range(u) = {list[i] : i \in n + 1..Len(list)}
  <2>1. Range(u) = {list[n + i] : i \in 1..Len(list) - n}
    BY <1>3 DEF Range
  <2>2. \A i \in n + 1..Len(list) : i - n \in 1..Len(list) - n /\ n + (i - n) = i
    BY <1>1
  <2>3. \A i \in 1..Len(list) - n : n + i \in n + 1..Len(list)
    BY <1>1
  <2> QED BY <2>1, <2>2, <2>3
<1>7. Range(RemoveAt(list, n)) = Range(s) \cup Range(u)
  BY <1>2, <1>3, <1>4, RangeConcatenation
<1>8. Range(list) = {list[i] : i \in 1..Len(list)}
  BY <1>1 DEF Range
<1>9. ASSUME IsInjective(list)
      PROVE  /\ IsInjective(RemoveAt(list, n))
             /\ Range(RemoveAt(list, n)) = Range(list) \ {list[n]}
  <2>1. \A i, j \in 1..Len(list) : list[i] = list[j] => i = j
    BY <1>1, <1>9 DEF IsInjective
  <2>2. IsInjective(s)
    BY <1>1, <1>2, <2>1 DEF IsInjective
  <2>3. IsInjective(u)
    BY <1>1, <1>3, <2>1 DEF IsInjective
  <2>4. Range(s) \cap Range(u) = {}
    BY <1>1, <1>5, <1>6, <2>1
  <2>5. IsInjective(RemoveAt(list, n))
    BY <1>2, <1>3, <1>4, <2>2, <2>3, <2>4, ConcatInjective
  <2>6. \A i \in 1..Len(list) : list[i] # list[n] => i \in 1..n - 1 \/ i \in n + 1..Len(list)
    BY <1>1
  <2>7. \A i \in 1..n - 1 : list[i] # list[n] /\ i \in 1..Len(list)
    BY <1>1, <2>1
  <2>8. \A i \in n + 1..Len(list) : list[i] # list[n] /\ i \in 1..Len(list)
    BY <1>1, <2>1
  <2> QED BY <1>5, <1>6, <1>7, <1>8, <2>5, <2>6, <2>7, <2>8
<1>10. RemoveAt(list, n) \in Seq(T)
  BY <1>2, <1>3, <1>4, ConcatProperties
<1>11. Range(s) \subseteq Range(list) /\ Range(u) \subseteq Range(list)
  <2>1. 1..n - 1 \subseteq 1..Len(list) /\ n + 1..Len(list) \subseteq 1..Len(list)
    BY <1>1
  <2> QED BY <1>5, <1>6, <1>8, <2>1
<1> QED BY <1>7, <1>9, <1>10, <1>11

\* RemoveFirst takes p, and nothing else, out of a list without duplicates.
LEMMA RemoveFirstProperties ==
  ASSUME NEW T, NEW list \in Seq(T), NEW p
  PROVE  /\ RemoveFirst(list, p) \in Seq(T)
         /\ Range(RemoveFirst(list, p)) \subseteq Range(list)
         /\ p \notin Range(list) => RemoveFirst(list, p) = list
         /\ IsInjective(list) =>
              /\ IsInjective(RemoveFirst(list, p))
              /\ Range(RemoveFirst(list, p)) = Range(list) \ {p}
<1>1. DOMAIN list = 1..Len(list) /\ Len(list) \in Nat
  BY LenProperties
<1>2. Range(list) = {list[i] : i \in 1..Len(list)}
  BY <1>1 DEF Range
<1>3. CASE ~ \E i \in 1..Len(list) : list[i] = p
  <2>1. RemoveFirst(list, p) = list
    BY <1>3 DEF RemoveFirst
  <2> QED BY <1>2, <1>3, <2>1
<1>4. CASE \E i \in 1..Len(list) : list[i] = p
  <2> DEFINE at == {i \in 1..Len(list) : list[i] = p}
             n == CHOOSE x \in at : \A y \in at : x <= y
  <2>1. at \in SUBSET (1..Len(list)) /\ at # {}
    BY <1>4
  <2>2. \E x \in at : \A y \in at : x <= y
    <3> DEFINE upto(i) == {j \in at : j <= i}
    <3> HIDE DEF at
    <3>1. IsFiniteSet(at) /\ Cardinality(at) \in Nat
          /\ \A k \in 1..Cardinality(at) : \E i \in at : Cardinality(upto(i)) = k
      BY <1>1, <2>1, Ranks
    <3>2. Cardinality(at) # 0
      BY <2>1, <3>1, FS_EmptySet
    <3>3. PICK x \in at : Cardinality(upto(x)) = 1
      <4>1. 1 \in 1..Cardinality(at)
        BY <3>1, <3>2
      <4> QED BY <3>1, <4>1
    <3>4. IsFiniteSet(upto(x))
      BY <3>1, FS_Subset
    <3>5. PICK z : upto(x) = {z}
      BY <3>3, <3>4, FS_Singleton
    <3>6. x \in upto(x)
      BY <2>1
    <3>7. \A y \in at : y <= x => y = x
      BY <3>5, <3>6
    <3> QED BY <2>1, <3>7
  <2>3. n \in at
    BY <2>2
  <2>4. RemoveFirst(list, p) = RemoveAt(list, n)
    BY <1>4, <2>1 DEF RemoveFirst, SelectInSeq, Min
  <2>5. n \in 1..Len(list) /\ list[n] = p
    BY <2>3
  <2> HIDE DEF n
  <2> QED BY <1>2, <2>4, <2>5, RemoveAtProperties
<1> QED BY <1>3, <1>4
============================================================================
