----------------------------- MODULE SequenceFacts -----------------------------
(***************************************************************************)
(* What Append, Tail and RemoveAt do to the elements of a queue, for the   *)
(* proofs about the queues of the audit writer and the reflection loop;    *)
(* and the ranks of a strict order on a finite set, for the lists that the *)
(* stores sort and cut off at a limit.                                     *)
(***************************************************************************)
EXTENDS Integers, SequencesExt, SequenceTheorems, FiniteSetTheorems, TLAPS

\* An item put at the end of a queue is its only new element, and it is there
\* once if it was not there before.
LEMMA AppendFacts ==
    ASSUME NEW S, NEW s \in Seq(S), NEW x \in S
    PROVE  /\ Append(s, x) \in Seq(S)
           /\ Len(Append(s, x)) = Len(s) + 1
           /\ ToSet(Append(s, x)) = ToSet(s) \cup {x}
           /\ IsInjective(s) /\ x \notin ToSet(s) => IsInjective(Append(s, x))
<1> DEFINE t == Append(s, x)
<1>1. /\ t \in Seq(S) /\ Len(t) = Len(s) + 1 /\ DOMAIN t = 1..(Len(s) + 1)
      /\ \A i \in 1..Len(s) : t[i] = s[i]
      /\ t[Len(s) + 1] = x /\ Len(s) \in Nat /\ DOMAIN s = 1..Len(s)
  BY AppendProperties, LenProperties
<1> HIDE DEF t
<1>2. ToSet(t) = ToSet(s) \cup {x}
  BY <1>1 DEF ToSet
<1>3. ASSUME IsInjective(s), x \notin ToSet(s) PROVE IsInjective(t)
  BY <1>1, <1>3 DEF ToSet, IsInjective
<1> QED BY <1>1, <1>2, <1>3 DEF t

\* Taking the first item removes that element and, if it was there once, leaves
\* no copy of it.
LEMMA TailFacts ==
    ASSUME NEW S, NEW s \in Seq(S), s # <<>>
    PROVE  /\ Tail(s) \in Seq(S)
           /\ Len(Tail(s)) = Len(s) - 1
           /\ Head(s) \in S /\ Head(s) \in ToSet(s) /\ Head(s) = s[1]
           /\ \A i \in 1..(Len(s) - 1) : Tail(s)[i] = s[i + 1]
           /\ ToSet(s) = ToSet(Tail(s)) \cup {Head(s)}
           /\ IsInjective(s) => /\ IsInjective(Tail(s))
                                /\ Head(s) \notin ToSet(Tail(s))
<1> DEFINE t == Tail(s)
<1>1. /\ t \in Seq(S) /\ Len(t) = Len(s) - 1 /\ DOMAIN t = 1..(Len(s) - 1)
      /\ \A i \in 1..(Len(s) - 1) : t[i] = s[i + 1]
      /\ Head(s) = s[1] /\ Head(s) \in S
      /\ Len(s) \in Nat \ {0} /\ DOMAIN s = 1..Len(s)
  BY HeadTailProperties, LenProperties, EmptySeq
<1> HIDE DEF t
<1>2. ToSet(s) = ToSet(t) \cup {s[1]}
  <2>1. ASSUME NEW i \in 1..Len(s) PROVE s[i] \in ToSet(t) \cup {s[1]}
    <3>1. CASE i = 1
      BY <3>1
    <3>2. CASE i # 1
      <4>1. i - 1 \in 1..(Len(s) - 1) /\ t[i - 1] = s[i]
        BY <1>1, <3>2
      <4> QED BY <1>1, <4>1 DEF ToSet
    <3> QED BY <3>1, <3>2
  <2>2. ASSUME NEW i \in 1..(Len(s) - 1) PROVE t[i] \in ToSet(s)
    BY <1>1 DEF ToSet
  <2>3. ToSet(s) \subseteq ToSet(t) \cup {s[1]}
    BY <1>1, <2>1 DEF ToSet
  <2>4. ToSet(t) \subseteq ToSet(s)
    BY <1>1, <2>2 DEF ToSet
  <2>5. s[1] \in ToSet(s)
    BY <1>1 DEF ToSet
  <2> QED BY <2>3, <2>4, <2>5
<1>3. ASSUME IsInjective(s) PROVE IsInjective(t) /\ s[1] \notin ToSet(t)
  <2>1. \A i, j \in 1..Len(s) : s[i] = s[j] => i = j
    BY <1>1, <1>3 DEF IsInjective
  <2>2. ASSUME NEW i \in 1..(Len(s) - 1) PROVE i + 1 \in 1..Len(s) /\ i + 1 # 1
    BY <1>1
  <2>3. ASSUME NEW i \in 1..(Len(s) - 1), NEW j \in 1..(Len(s) - 1), t[i] = t[j]
        PROVE  i = j
    <3>1. s[i + 1] = s[j + 1]
      BY <1>1, <2>3
    <3>2. i + 1 = j + 1
      BY <2>1, <2>2, <3>1
    <3> QED BY <3>2
  <2>4. ASSUME NEW i \in 1..(Len(s) - 1) PROVE t[i] # s[1]
    <3>1. t[i] = s[i + 1] /\ 1 \in 1..Len(s)
      BY <1>1
    <3> QED BY <2>1, <2>2, <3>1
  <2> QED BY <1>1, <2>3, <2>4 DEF ToSet, IsInjective
<1>4. s[1] \in ToSet(s)
  BY <1>1 DEF ToSet
<1> QED BY <1>1, <1>2, <1>3, <1>4 DEF t

\* Removing the item at one position removes exactly that element from a queue
\* that holds each item once.
LEMMA RemoveAtFacts ==
    ASSUME NEW S, NEW s \in Seq(S), NEW i \in DOMAIN s
    PROVE  /\ RemoveAt(s, i) \in Seq(S)
           /\ ToSet(s) = ToSet(RemoveAt(s, i)) \cup {s[i]}
           /\ IsInjective(s) => /\ IsInjective(RemoveAt(s, i))
                                /\ s[i] \notin ToSet(RemoveAt(s, i))
<1> DEFINE t == RemoveAt(s, i)
<1>1. Len(s) \in Nat /\ DOMAIN s = 1..Len(s) /\ i \in 1..Len(s)
  BY LenProperties
<1>2. /\ t \in Seq(S) /\ DOMAIN t = 1..(Len(s) - 1)
      /\ \A j \in 1..(Len(s) - 1) : t[j] = IF j < i THEN s[j] ELSE s[j + 1]
  <2> DEFINE a == SubSeq(s, 1, i - 1)
             b == SubSeq(s, i + 1, Len(s))
  <2>1. /\ a \in Seq(S) /\ Len(a) = i - 1
        /\ \A j \in 1..(i - 1) : a[j] = s[j]
    BY <1>1, SubSeqProperties
  <2>2. /\ b \in Seq(S) /\ Len(b) = Len(s) - i
        /\ \A j \in 1..(Len(s) - i) : b[j] = s[i + j]
    BY <1>1, SubSeqProperties
  <2> HIDE DEF a, b
  <2>3. /\ a \o b \in Seq(S) /\ Len(a \o b) = Len(s) - 1
        /\ \A j \in 1..(Len(s) - 1) :
              (a \o b)[j] = IF j <= Len(a) THEN a[j] ELSE b[j - Len(a)]
    <3>1. /\ a \o b \in Seq(S) /\ Len(a \o b) = Len(a) + Len(b)
          /\ \A j \in 1..(Len(a) + Len(b)) :
                (a \o b)[j] = IF j <= Len(a) THEN a[j] ELSE b[j - Len(a)]
      BY <2>1, <2>2, ConcatProperties
    <3>2. Len(a) + Len(b) = Len(s) - 1
      BY <1>1, <2>1, <2>2
    <3> QED BY <3>1, <3>2
  <2>4. ASSUME NEW j \in 1..(Len(s) - 1)
        PROVE  (a \o b)[j] = IF j < i THEN s[j] ELSE s[j + 1]
    <3>1. CASE j < i
      <4>1. j \in 1..(i - 1) /\ j <= Len(a)
        BY <1>1, <2>1, <3>1
      <4> QED BY <2>1, <2>3, <3>1, <4>1
    <3>2. CASE ~(j < i)
      <4>1. j - (i - 1) \in 1..(Len(s) - i) /\ ~(j <= Len(a))
        BY <1>1, <2>1, <3>2
      <4>2. (a \o b)[j] = b[j - (i - 1)]
        BY <2>1, <2>3, <4>1
      <4>3. b[j - (i - 1)] = s[i + (j - (i - 1))] /\ i + (j - (i - 1)) = j + 1
        BY <1>1, <2>2, <4>1
      <4> QED BY <3>2, <4>2, <4>3
    <3> QED BY <3>1, <3>2
  <2>5. DOMAIN (a \o b) = 1..(Len(s) - 1)
    BY <2>3, LenProperties
  <2> QED BY <2>3, <2>4, <2>5 DEF a, b, RemoveAt
<1> HIDE DEF t
<1>3. ASSUME NEW k \in 1..Len(s), k # i PROVE s[k] \in ToSet(t)
  <2>1. CASE k < i
    BY <1>1, <1>2, <2>1 DEF ToSet
  <2>2. CASE k > i
    <3>1. k - 1 \in 1..(Len(s) - 1) /\ t[k - 1] = s[k]
      BY <1>1, <1>2, <2>2
    <3> QED BY <1>2, <3>1 DEF ToSet
  <2> QED BY <1>1, <1>3, <2>1, <2>2
<1>4. ToSet(s) = ToSet(t) \cup {s[i]}
  <2>1. ASSUME NEW j \in DOMAIN t PROVE t[j] \in ToSet(s)
    BY <1>1, <1>2 DEF ToSet
  <2> QED BY <1>1, <1>3, <2>1 DEF ToSet
<1>5. ASSUME IsInjective(s) PROVE IsInjective(t) /\ s[i] \notin ToSet(t)
  <2> DEFINE at(j) == IF j < i THEN j ELSE j + 1
  <2>1. \A j, k \in 1..Len(s) : s[j] = s[k] => j = k
    BY <1>1, <1>5 DEF IsInjective
  <2>2. ASSUME NEW j \in 1..(Len(s) - 1)
        PROVE  at(j) \in 1..Len(s) /\ at(j) # i /\ t[j] = s[at(j)]
    BY <1>1, <1>2
  <2>3. ASSUME NEW j \in 1..(Len(s) - 1), NEW k \in 1..(Len(s) - 1), at(j) = at(k)
        PROVE  j = k
    BY <1>1, <2>3
  <2> HIDE DEF at
  <2>4. \A j, k \in 1..(Len(s) - 1) : t[j] = t[k] => j = k
    BY <2>1, <2>2, <2>3
  <2>5. \A j \in 1..(Len(s) - 1) : t[j] # s[i]
    BY <1>1, <2>1, <2>2
  <2> QED BY <1>2, <2>4, <2>5 DEF ToSet, IsInjective
<1> QED BY <1>2, <1>4, <1>5 DEF t

\* A sequence without repetition is as long as the set of its elements is large.
LEMMA InjectiveCount ==
    ASSUME NEW S, NEW s \in Seq(S), IsInjective(s)
    PROVE  Cardinality(ToSet(s)) = Len(s)
<1>1. s \in [1..Len(s) -> ToSet(s)] /\ Len(s) \in Nat /\ DOMAIN s = 1..Len(s)
  BY DEF ToSet
<1>2. s \in Injection(1..Len(s), ToSet(s))
  BY <1>1 DEF Injection
<1>3. \A x \in ToSet(s) : \E i \in 1..Len(s) : s[i] = x
  BY <1>1 DEF ToSet
<1>4. s \in Surjection(1..Len(s), ToSet(s))
  BY <1>1, <1>3 DEF Surjection
<1>5. ExistsBijection(1..Len(s), ToSet(s))
  BY <1>2, <1>4 DEF ExistsBijection, Bijection
<1> QED BY <1>1, <1>5, FS_CountingElements

--------------------------------------------------------------------------------
(* Ranks                                                                       *)

\* A strict order on a finite set, and the rank of an element in it: the number of those
\* before it.
LEMMA RankGrows ==
  ASSUME NEW S, IsFiniteSet(S), NEW R,
         \A i \in S : <<i, i>> \notin R,
         \A i, j, k \in S : <<i, j>> \in R /\ <<j, k>> \in R => <<i, k>> \in R,
         NEW i \in S, NEW j \in S, <<j, i>> \in R
  PROVE  Cardinality({k \in S : <<k, j>> \in R}) < Cardinality({k \in S : <<k, i>> \in R})
<1> DEFINE Under(x) == {k \in S : <<k, x>> \in R}
<1>1. Under(j) \in SUBSET Under(i) /\ j \in Under(i) /\ j \notin Under(j) OBVIOUS
<1>2. IsFiniteSet(Under(i)) /\ IsFiniteSet(Under(j))
  <2>1. Under(i) \in SUBSET S /\ Under(j) \in SUBSET S OBVIOUS
  <2> QED BY <2>1, FS_Subset
<1>3. Cardinality(Under(i)) \in Nat /\ Cardinality(Under(j)) \in Nat
  BY <1>2, FS_CardinalityType
<1>4. /\ Cardinality(Under(j)) <= Cardinality(Under(i))
      /\ Cardinality(Under(i)) = Cardinality(Under(j)) => Under(i) = Under(j)
  BY <1>1, <1>2, FS_Subset
<1>5. Cardinality(Under(i)) # Cardinality(Under(j)) BY <1>1, <1>4
<1>6. Cardinality(Under(j)) < Cardinality(Under(i)) BY <1>3, <1>4, <1>5
<1> QED BY <1>6

\* R orders S strictly and totally.
Orders(R, S) ==
    /\ \A i \in S : <<i, i>> \notin R
    /\ \A i, j, k \in S : <<i, j>> \in R /\ <<j, k>> \in R => <<i, k>> \in R
    /\ \A i, j \in S : i = j \/ <<i, j>> \in R \/ <<j, i>> \in R

\* The rank of i: how many come before it.
RankOf(R, S, i) == Cardinality({k \in S : <<k, i>> \in R})

\* The ranks in a strict total order are 0, 1, ... up to the last element's, one each, and they
\* tell the order.
LEMMA Ranks ==
  ASSUME NEW S, IsFiniteSet(S), NEW R, Orders(R, S)
  PROVE  /\ \A i \in S : RankOf(R, S, i) \in 0..(Cardinality(S) - 1)
         /\ \A i, j \in S : RankOf(R, S, i) = RankOf(R, S, j) => i = j
         /\ \A i, j \in S : RankOf(R, S, i) < RankOf(R, S, j) => <<i, j>> \in R
         /\ \A m \in 0..(Cardinality(S) - 1) : \E i \in S : RankOf(R, S, i) = m
<1> DEFINE Rank(i) == RankOf(R, S, i)
           size == Cardinality(S)
<1>1. size \in Nat BY FS_CardinalityType
<1>2. ASSUME NEW i \in S PROVE Rank(i) \in 0..(size - 1)
  <2> DEFINE Under == {k \in S : <<k, i>> \in R}
  <2>1. Under \in SUBSET S /\ Under # S BY DEF Orders
  <2>2. /\ IsFiniteSet(Under) /\ Cardinality(Under) <= Cardinality(S)
        /\ Cardinality(S) = Cardinality(Under) => S = Under
    BY <2>1, FS_Subset
  <2>3. Cardinality(Under) \in Nat BY <2>2, FS_CardinalityType
  <2>4. Cardinality(Under) # Cardinality(S) BY <2>1, <2>2
  <2>5. Rank(i) = Cardinality(Under) BY DEF RankOf
  <2> HIDE DEF Under
  <2> QED BY <1>1, <2>2, <2>3, <2>4, <2>5
<1>3. ASSUME NEW i \in S, NEW j \in S, <<j, i>> \in R PROVE Rank(j) < Rank(i)
  BY <1>3, RankGrows DEF Orders, RankOf
<1> HIDE DEF Rank
<1>4. ASSUME NEW i \in S, NEW j \in S, Rank(i) = Rank(j) PROVE i = j
  <2>1. Rank(i) \in Int /\ Rank(j) \in Int BY <1>2
  <2>2. ~(<<i, j>> \in R) /\ ~(<<j, i>> \in R) BY <1>3, <1>4, <2>1
  <2> QED BY <2>2 DEF Orders
<1>5. ASSUME NEW i \in S, NEW j \in S, Rank(i) < Rank(j) PROVE <<i, j>> \in R
  <2>1. Rank(i) \in Int /\ Rank(j) \in Int BY <1>2
  <2>2. i # j /\ ~(<<j, i>> \in R) BY <1>3, <1>5, <2>1
  <2> QED BY <2>2 DEF Orders
<1> DEFINE places == [i \in S |-> Rank(i)]
<1>6. IsFiniteSet(0..(size - 1)) /\ Cardinality(0..(size - 1)) = size
  <2>1. PICK top \in Int : top = size - 1 BY <1>1
  <2>2. IsFiniteSet(0..top) /\ Cardinality(0..top) = IF 0 > top THEN 0 ELSE top - 0 + 1
    BY FS_Interval
  <2> QED BY <1>1, <2>1, <2>2
<1>7. places \in Injection(S, 0..(size - 1))
  BY <1>2, <1>4 DEF Injection, IsInjective
<1>8. places \in Surjection(S, 0..(size - 1)) BY <1>6, <1>7, FS_Injection
<1>9. \A m \in 0..(size - 1) : \E i \in S : Rank(i) = m BY <1>8 DEF Surjection
<1> QED BY <1>2, <1>4, <1>5, <1>9 DEF Rank

\* The elements with fewer than n before them.
FirstOf(R, S, n) == {i \in S : RankOf(R, S, i) < n}

\* If an element has n or more before it in a total order, the elements with fewer before them
\* are just n.
LEMMA FirstRanks ==
  ASSUME NEW S, IsFiniteSet(S), NEW R, Orders(R, S),
         NEW n \in Nat, NEW late \in S, late \notin FirstOf(R, S, n)
  PROVE  Cardinality(FirstOf(R, S, n)) = n
<1> DEFINE Rank(i) == RankOf(R, S, i)
           size == Cardinality(S)
           Early == {i \in S : Rank(i) < n}
           early == [i \in Early |-> Rank(i)]
<1>1. FirstOf(R, S, n) = Early BY DEF FirstOf
<1>2. /\ \A i \in S : Rank(i) \in 0..(size - 1)
      /\ \A i, j \in S : Rank(i) = Rank(j) => i = j
      /\ \A m \in 0..(size - 1) : \E i \in S : Rank(i) = m
  BY Ranks
<1>3. size \in Nat BY FS_CardinalityType
<1> HIDE DEF Rank
<1>4. Rank(late) >= n /\ Rank(late) \in 0..(size - 1)
  <2>1. ~(Rank(late) < n) BY <1>1
  <2> QED BY <1>2, <2>1
<1>5. early \in Surjection(Early, 0..(n - 1))
  <2>1. early \in [Early -> 0..(n - 1)] BY <1>2
  <2>2. ASSUME NEW m \in 0..(n - 1) PROVE \E i \in Early : early[i] = m
    <3>1. m \in 0..(size - 1) BY <1>3, <1>4
    <3>2. PICK i \in S : Rank(i) = m BY <1>2, <3>1
    <3>3. i \in Early BY <3>2
    <3> QED BY <3>2, <3>3
  <2> QED BY <2>1, <2>2 DEF Surjection
<1>6. early \in Injection(Early, 0..(n - 1))
  BY <1>2 DEF Injection, IsInjective
<1>7. IsFiniteSet(Early) BY FS_Subset
<1>8. Cardinality(0..(n - 1)) = Cardinality(Early) BY <1>5, <1>6, <1>7, FS_Surjection
<1>9. Cardinality(0..(n - 1)) = n BY FS_Interval
<1> QED BY <1>1, <1>8, <1>9

\* The list of the first n elements: in the order of R, each once, and what it leaves out comes
\* after all that it holds.
Listed(R, S, n) == [i \in 1..n |-> CHOOSE d \in S : RankOf(R, S, d) = i - 1]

LEMMA ListedFacts ==
  ASSUME NEW S, IsFiniteSet(S), NEW R, Orders(R, S), NEW n \in 0..Cardinality(S)
  PROVE  /\ Len(Listed(R, S, n)) = n /\ ToSet(Listed(R, S, n)) \subseteq S
         /\ Cardinality(ToSet(Listed(R, S, n))) = n
         /\ \A i, j \in 1..n : /\ Listed(R, S, n)[i] \in S
                               /\ i < j => <<Listed(R, S, n)[i], Listed(R, S, n)[j]>> \in R
         /\ \A d \in S \ ToSet(Listed(R, S, n)) :
               n < Cardinality(S) /\ \A e \in ToSet(Listed(R, S, n)) : <<e, d>> \in R
<1> DEFINE Rank(i) == RankOf(R, S, i)
           size == Cardinality(S)
           s == Listed(R, S, n)
<1>1. /\ \A i \in S : Rank(i) \in 0..(size - 1)
      /\ \A i, j \in S : Rank(i) = Rank(j) => i = j
      /\ \A i, j \in S : Rank(i) < Rank(j) => <<i, j>> \in R
      /\ \A m \in 0..(size - 1) : \E i \in S : Rank(i) = m
  BY Ranks
<1>2. size \in Nat /\ n \in Nat /\ n <= size BY FS_CardinalityType
<1>3. s = [i \in 1..n |-> CHOOSE d \in S : Rank(d) = i - 1] BY DEF Listed
<1> HIDE DEF Rank, size, s
<1>4. ASSUME NEW i \in 1..n PROVE s[i] \in S /\ Rank(s[i]) = i - 1
  <2>1. i - 1 \in 0..(size - 1) BY <1>2
  <2>2. \E d \in S : Rank(d) = i - 1 BY <1>1, <2>1
  <2> QED BY <1>3, <2>2
<1>5. s \in [1..n -> S] /\ DOMAIN s = 1..n BY <1>3, <1>4
<1>6. s \in Seq(S) /\ Len(s) = n
  <2>1. s \in Seq(S)
    <3>1. [i \in 1..n |-> s[i]] \in Seq(S) BY <1>2, <1>4
    <3> QED BY <1>5, <3>1
  <2> QED BY <1>2, <1>5, <2>1, LenProperties
<1>7. ASSUME NEW i \in 1..n, NEW j \in 1..n, i < j PROVE <<s[i], s[j]>> \in R
  <2>1. Rank(s[i]) < Rank(s[j]) BY <1>4, <1>7
  <2> QED BY <1>1, <1>4, <2>1
<1>8. IsInjective(s)
  <2>1. ASSUME NEW i \in 1..n, NEW j \in 1..n, s[i] = s[j] PROVE i = j
    BY <1>4, <2>1
  <2> QED BY <1>5, <2>1 DEF IsInjective
<1>9. Cardinality(ToSet(s)) = n BY <1>6, <1>8, InjectiveCount
<1>10. ToSet(s) \subseteq S BY <1>5 DEF ToSet
<1>11. ASSUME NEW d \in S, d \notin ToSet(s)
       PROVE  n < size /\ \A e \in ToSet(s) : <<e, d>> \in R
  <2>1. Rank(d) \in 0..(size - 1) BY <1>1
  <2>2. Rank(d) >= n
    <3>1. SUFFICES ASSUME Rank(d) < n PROVE FALSE BY <1>2, <2>1
    <3>2. Rank(d) + 1 \in 1..n BY <1>2, <2>1, <3>1
    <3>3. Rank(s[Rank(d) + 1]) = Rank(d) BY <1>4, <2>1, <3>2
    <3>4. s[Rank(d) + 1] = d BY <1>1, <1>4, <3>2, <3>3
    <3> QED BY <1>5, <1>11, <3>2, <3>4 DEF ToSet
  <2>3. n < size BY <1>2, <2>1, <2>2
  <2>4. ASSUME NEW e \in ToSet(s) PROVE <<e, d>> \in R
    <3>1. PICK i \in 1..n : e = s[i] BY <1>5 DEF ToSet
    <3>2. Rank(e) < Rank(d) /\ e \in S BY <1>2, <1>4, <2>1, <2>2, <3>1
    <3> QED BY <1>1, <3>2
  <2> QED BY <2>3, <2>4
<1> QED BY <1>4, <1>6, <1>7, <1>9, <1>10, <1>11 DEF s, size

================================================================================
