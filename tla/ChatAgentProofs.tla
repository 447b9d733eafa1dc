-------------------------- MODULE ChatAgentProofs --------------------------
(***************************************************************************)
(* Proofs about the chat, for any number of documents, searches, tool      *)
(* calls, retries and model requests: what the single pass merges, what    *)
(* numbers mean, and that answers rest on evidence.                        *)
(***************************************************************************)
EXTENDS ChatAgent, SequenceTheorems, FiniteSetTheorems, FunctionTheorems, TLAPS

\* A list of documents or sources without a repetition, whatever its elements are.
IsList(list) == /\ Len(list) \in Nat
                /\ DOMAIN list = 1..Len(list)
                /\ list = [i \in DOMAIN list |-> list[i]]
NoRepetition(list) ==
    \A i, j \in DOMAIN list : list[i].resource = list[j].resource => i = j

LEMMA ListOfSequence == ASSUME NEW S, NEW list \in Seq(S) PROVE IsList(list)
BY DEF IsList

LEMMA SequenceOfList ==
    ASSUME NEW list, IsList(list), NEW S, \A i \in DOMAIN list : list[i] \in S
    PROVE  list \in Seq(S)
<1>1. list \in [1..Len(list) -> S]
  BY DEF IsList
<1>2. QED BY <1>1, SeqDef DEF IsList

\* _accumulate_sources appends.
LEMMA AccumulateAppends ==
    ASSUME NEW list, NEW more, IsList(list), IsList(more)
    PROVE  LET all == Accumulate(list, more) IN
           /\ IsList(all)
           /\ DOMAIN all = 1..(Len(list) + Len(more))
           /\ \A n \in DOMAIN list : n \in DOMAIN all /\ all[n] = list[n]
           /\ \A n \in DOMAIN all \ DOMAIN list :
                 n - Len(list) \in DOMAIN more /\ all[n] = more[n - Len(list)]
<1> DEFINE S == {list[i] : i \in DOMAIN list} \cup {more[i] : i \in DOMAIN more}
           all == list \o more
<1>1. list \in Seq(S) /\ more \in Seq(S)
  BY SequenceOfList
<1> HIDE DEF S
<1>2. /\ all \in Seq(S)
      /\ Len(all) = Len(list) + Len(more)
      /\ \A i \in 1..Len(list) : all[i] = list[i]
      /\ \A i \in 1..Len(more) : all[Len(list) + i] = more[i]
  BY <1>1, ConcatProperties
<1>3. IsList(all) /\ DOMAIN all = 1..(Len(list) + Len(more))
  BY <1>2, ListOfSequence DEF IsList
<1>4. \A n \in DOMAIN list : n \in DOMAIN all /\ all[n] = list[n]
  BY <1>2, <1>3 DEF IsList
<1>5. ASSUME NEW n \in DOMAIN all \ DOMAIN list
      PROVE  n - Len(list) \in DOMAIN more /\ all[n] = more[n - Len(list)]
  <2>1. n - Len(list) \in 1..Len(more) /\ n = Len(list) + (n - Len(list))
    BY <1>3 DEF IsList
  <2>2. QED BY <1>2, <2>1 DEF IsList
<1>6. QED BY <1>3, <1>4, <1>5 DEF Accumulate
-----------------------------------------------------------------------------
(***************************************************************************)
(* Lists that are taken at some places of others (Selection).              *)
(***************************************************************************)
\* A set of natural numbers with an element has a least one.
LEMMA LeastNatural ==
    ASSUME NEW S \in SUBSET Nat, S # {}
    PROVE  \E m \in S : \A k \in S : m <= k
<1>1. PICK m \in S : \A k \in S : ~(<<k, m>> \in OpToRel(<, Nat))
  BY NatLessThanWellFounded, WFMin, Zenon
<1>2. \A k \in S : ~(k < m)
  BY <1>1, Zenon DEF OpToRel
<1>3. QED BY <1>2

\* The interval from 1 to n counts n.
LEMMA IntervalFacts ==
    ASSUME NEW n \in Nat
    PROVE  IsFiniteSet(1..n) /\ Cardinality(1..n) = n
<1>1. 1 \in Int /\ n \in Int
  OBVIOUS
<1>2. /\ IsFiniteSet(1..n)
      /\ Cardinality(1..n) = IF 1 > n THEN 0 ELSE n - 1 + 1
  BY <1>1, FS_Interval, Zenon
<1>3. QED BY <1>2

\* What holds at first and is kept n times holds up to n.
LEMMA UpTo ==
    ASSUME NEW n \in Nat, NEW P, 0 \in P, \A t \in 0..(n - 1) : t \in P => t + 1 \in P
    PROVE  \A t \in 0..n : t \in P
<1> SUFFICES ASSUME NEW t \in 0..n, t \notin P PROVE FALSE
  OBVIOUS
<1> DEFINE rest == {k \in 0..n : k \notin P}
<1>1. rest \in SUBSET Nat /\ rest # {}
  OBVIOUS
<1>2. PICK k \in rest : \A l \in rest : k <= l
  <2> HIDE DEF rest
  <2>1. QED BY <1>1, LeastNatural
<1>3. k # 0 /\ k - 1 \in 0..(n - 1) /\ k - 1 \notin rest
  BY <1>2
<1>4. QED BY <1>2, <1>3

Preceding(D, R, i) == {j \in D : <<j, i>> \in R}
IsStrictOrder(D, R) ==
    /\ \A i \in D : <<i, i>> \notin R
    /\ \A i, j \in D : i # j => <<i, j>> \in R \/ <<j, i>> \in R
    /\ \A i, j, k \in D : <<i, j>> \in R /\ <<j, k>> \in R => <<i, k>> \in R

\* In a strict order of n things each number below n is how many are before one of them.
LEMMA RanksAreAll ==
    ASSUME NEW n \in Nat, NEW D, IsFiniteSet(D), Cardinality(D) = n, NEW R, IsStrictOrder(D, R)
    PROVE  \A k \in 0..(n - 1) : \E i \in D : Cardinality(Preceding(D, R, i)) = k
<1> DEFINE Down(i) == Preceding(D, R, i)
           rank == [i \in D |-> Cardinality(Down(i))]
<1>1. ASSUME NEW i \in D
      PROVE  IsFiniteSet(Down(i)) /\ Cardinality(Down(i)) \in 0..(n - 1)
  <2>1. i \notin Down(i) /\ Down(i) \in SUBSET D /\ Down(i) \cup {i} \in SUBSET D
    BY DEF Preceding, IsStrictOrder
  <2> HIDE DEF Down
  <2>2. IsFiniteSet(Down(i))
    BY <2>1, FS_Subset
  <2>3. Cardinality(Down(i) \cup {i}) = Cardinality(Down(i)) + 1 /\ Cardinality(Down(i)) \in Nat
    BY <2>1, <2>2, FS_AddElement, FS_CardinalityType
  <2>4. Cardinality(Down(i) \cup {i}) <= n
    BY <2>1, FS_Subset
  <2>5. QED BY <2>2, <2>3, <2>4
<1>2. ASSUME NEW i \in D, NEW k \in D, <<i, k>> \in R
      PROVE  Cardinality(Down(i)) < Cardinality(Down(k))
  <2>1. i \notin Down(i) /\ Down(i) \cup {i} \in SUBSET Down(k)
    BY <1>2 DEF Preceding, IsStrictOrder
  <2> HIDE DEF Down
  <2>2. Cardinality(Down(i) \cup {i}) = Cardinality(Down(i)) + 1
    BY <1>1, <2>1, FS_AddElement
  <2>3. Cardinality(Down(i) \cup {i}) <= Cardinality(Down(k))
    BY <1>1, <2>1, FS_Subset
  <2>4. QED BY <1>1, <2>2, <2>3
<1> HIDE DEF Down
<1>3. rank \in Injection(D, 0..(n - 1))
  <2>1. \A i, k \in D : rank[i] = rank[k] => i = k
    <3> SUFFICES ASSUME NEW i \in D, NEW k \in D, i # k PROVE rank[i] # rank[k]
      OBVIOUS
    <3>1. Cardinality(Down(i)) \in Int /\ Cardinality(Down(k)) \in Int
      BY <1>1
    <3>2. <<i, k>> \in R \/ <<k, i>> \in R
      BY DEF IsStrictOrder
    <3>3. Cardinality(Down(i)) < Cardinality(Down(k)) \/ Cardinality(Down(k)) < Cardinality(Down(i))
      BY <1>2, <3>2
    <3>4. Cardinality(Down(i)) # Cardinality(Down(k))
      BY <3>1, <3>3
    <3>5. QED BY <3>4
  <2>2. QED BY <1>1, <2>1, Fun_IsInj
<1>4. IsFiniteSet(0..(n - 1)) /\ Cardinality(0..(n - 1)) = n
  <2>1. 0 \in Int /\ n - 1 \in Int
    OBVIOUS
  <2>2. /\ IsFiniteSet(0..(n - 1))
        /\ Cardinality(0..(n - 1)) = IF 0 > n - 1 THEN 0 ELSE (n - 1) - 0 + 1
    BY <2>1, FS_Interval, Zenon
  <2>3. QED BY <2>2
<1> HIDE DEF rank
<1>5. rank \in Surjection(D, 0..(n - 1))
  BY <1>3, <1>4, FS_Injection
<1>6. QED BY <1>5 DEF Surjection, rank, Down

\* How many of some places are not above k.
Rank(places, k) == Cardinality({j \in places : j <= k})

\* The places are finitely many, and a higher one has a higher rank.
LEMMA RankFacts ==
    ASSUME NEW m \in Nat, NEW places \in SUBSET (1..m)
    PROVE  /\ IsFiniteSet(places) /\ Cardinality(places) \in Nat
           /\ \A k \in Int : Rank(places, k) \in 0..Cardinality(places)
           /\ \A i \in places : Rank(places, i) \in 1..Cardinality(places)
           /\ \A i, k \in places : i < k => Rank(places, i) < Rank(places, k)
<1> DEFINE Below(k) == {j \in places : j <= k}
<1>1. IsFiniteSet(places) /\ Cardinality(places) \in Nat
  BY IntervalFacts, FS_Subset, FS_CardinalityType
<1>2. ASSUME NEW k PROVE Below(k) \in SUBSET places
  OBVIOUS
<1>3. ASSUME NEW k
      PROVE  IsFiniteSet(Below(k)) /\ Rank(places, k) = Cardinality(Below(k))
             /\ Rank(places, k) \in 0..Cardinality(places)
  <2>1. Rank(places, k) = Cardinality(Below(k))
    BY DEF Rank
  <2> HIDE DEF Below
  <2>2. IsFiniteSet(Below(k)) /\ Cardinality(Below(k)) <= Cardinality(places)
    BY <1>1, <1>2, FS_Subset
  <2>3. Cardinality(Below(k)) \in Nat
    BY <2>2, FS_CardinalityType
  <2>4. QED BY <1>1, <2>1, <2>2, <2>3
<1>4. ASSUME NEW i \in places, NEW k \in places, i < k
      PROVE  Rank(places, i) < Rank(places, k)
  <2>1. \A j \in places : j \in Int
    OBVIOUS
  <2>2. k \notin Below(i) /\ Below(i) \cup {k} \in SUBSET Below(k)
    <3>1. ~(k <= i) /\ k <= k /\ \A j \in places : j <= i => j <= k
      BY <1>4, <2>1
    <3>2. QED BY <3>1
  <2> HIDE DEF Below
  <2>3. Cardinality(Below(i) \cup {k}) = Cardinality(Below(i)) + 1
    BY <1>3, <2>2, FS_AddElement
  <2>4. Cardinality(Below(i) \cup {k}) <= Cardinality(Below(k))
    BY <1>3, <2>2, FS_Subset
  <2>5. QED BY <1>3, <2>3, <2>4
<1>5. ASSUME NEW i \in places PROVE Rank(places, i) # 0
  <2>1. i \in Below(i)
    <3>1. i <= i
      OBVIOUS
    <3>2. QED BY <3>1
  <2> HIDE DEF Below
  <2>2. QED BY <1>3, <2>1, FS_EmptySet
<1>6. ASSUME NEW i \in places PROVE Rank(places, i) \in 1..Cardinality(places)
  <2>1. Rank(places, i) \in 0..Cardinality(places) /\ Rank(places, i) # 0
    BY <1>3, <1>5
  <2>2. QED BY <1>1, <2>1
<1>7. QED BY <1>1, <1>3, <1>4, <1>6

\* Every place is the n-th lowest for one n.
LEMMA NthFacts ==
    ASSUME NEW m \in Nat, NEW places \in SUBSET (1..m)
    PROVE  /\ \A n \in 1..Cardinality(places) :
                 Nth(places, n) \in places /\ Rank(places, Nth(places, n)) = n
           /\ \A i \in places : Nth(places, Rank(places, i)) = i
<1>1. /\ IsFiniteSet(places) /\ Cardinality(places) \in Nat
      /\ \A k \in Int : Rank(places, k) \in 0..Cardinality(places)
      /\ \A i \in places : Rank(places, i) \in 1..Cardinality(places)
      /\ \A i, k \in places : i < k => Rank(places, i) < Rank(places, k)
  BY RankFacts
<1>a. \A j \in places : j \in Int /\ 1 <= j /\ j <= m
  OBVIOUS
<1>2. ASSUME NEW n \in 1..Cardinality(places)
      PROVE  \E i \in places : Rank(places, i) = n
  <2> DEFINE Enough == {k \in Nat : Rank(places, k) >= n}
             Below(k) == {j \in places : j <= k}
  <2>1. m \in Enough
    <3>1. Below(m) = places
      BY <1>a
    <3>2. QED BY <1>1, <3>1 DEF Rank
  <2>2. PICK k \in Enough : \A l \in Enough : k <= l
    <3>1. Enough \in SUBSET Nat /\ Enough # {}
      BY <2>1
    <3> HIDE DEF Enough
    <3>2. QED BY <3>1, LeastNatural
  <2>3. k \in Nat /\ Rank(places, k) >= n /\ Rank(places, k) \in Nat
    BY <1>1
  <2>4. k # 0
    <3>1. Below(0) = {}
      <4>1. \A j \in places : ~(j <= 0)
        BY <1>a
      <4>2. QED BY <4>1
    <3>2. Rank(places, 0) = 0
      BY <3>1, FS_EmptySet DEF Rank
    <3>3. QED BY <2>3, <3>2
  <2>5. Rank(places, k - 1) < n /\ Rank(places, k - 1) \in Nat
    <3>1. k - 1 \in Nat /\ ~(k <= k - 1)
      BY <2>3, <2>4
    <3>2. k - 1 \notin Enough
      BY <2>2, <3>1
    <3>3. QED BY <1>1, <3>1, <3>2
  <2>6. Below(k) = IF k \in places THEN Below(k - 1) \cup {k} ELSE Below(k - 1)
    <3>1. \A j \in places : j <= k <=> j <= k - 1 \/ j = k
      BY <1>a, <2>3
    <3>2. QED BY <3>1
  <2>7. k \notin Below(k - 1) /\ Below(k - 1) \in SUBSET places
    BY <2>3
  <2>8. Rank(places, k) = Cardinality(Below(k)) /\ Rank(places, k - 1) = Cardinality(Below(k - 1))
    BY DEF Rank
  <2> HIDE DEF Below, Enough
  <2>9. k \in places
    BY <2>3, <2>5, <2>6, <2>8
  <2>10. IsFiniteSet(Below(k - 1))
    BY <1>1, <2>7, FS_Subset
  <2>11. Rank(places, k) = Rank(places, k - 1) + 1
    <3>1. Cardinality(Below(k - 1) \cup {k}) = Cardinality(Below(k - 1)) + 1
      BY <2>7, <2>10, FS_AddElement
    <3>2. Below(k) = Below(k - 1) \cup {k}
      BY <2>6, <2>9
    <3>3. QED BY <2>8, <3>1, <3>2
  <2>12. QED BY <2>3, <2>5, <2>9, <2>11
<1>3. \A i, k \in places : Rank(places, i) = Rank(places, k) => i = k
  <2> SUFFICES ASSUME NEW i \in places, NEW k \in places, i # k
               PROVE  Rank(places, i) # Rank(places, k)
    OBVIOUS
  <2>1. i < k \/ k < i
    BY <1>a
  <2>2. Rank(places, i) \in Int /\ Rank(places, k) \in Int
    BY <1>1
  <2>3. QED BY <1>1, <2>1, <2>2
<1>4. \A n : Nth(places, n) = CHOOSE i \in places : Rank(places, i) = n
  BY DEF Nth, Rank
<1>5. ASSUME NEW i \in places PROVE Nth(places, Rank(places, i)) = i
  BY <1>3, <1>4
<1>6. QED BY <1>2, <1>4, <1>5

\* At has what is at the places, each once, and nothing else.
LEMMA AtFacts ==
    ASSUME NEW S, NEW list \in Seq(S), NEW places \in SUBSET DOMAIN list
    PROVE  /\ At(list, places) \in Seq(S)
           /\ DOMAIN At(list, places) = 1..Cardinality(places) /\ Cardinality(places) \in Nat
           /\ \A n \in DOMAIN At(list, places) :
                 Nth(places, n) \in places /\ At(list, places)[n] = list[Nth(places, n)]
           /\ \A i \in places : \E n \in DOMAIN At(list, places) : Nth(places, n) = i
           /\ \A n, k \in DOMAIN At(list, places) : Nth(places, n) = Nth(places, k) => n = k
<1>1. Len(list) \in Nat /\ DOMAIN list = 1..Len(list)
  OBVIOUS
<1>2. places \in SUBSET (1..Len(list))
  BY <1>1
<1>3. /\ \A n \in 1..Cardinality(places) :
            Nth(places, n) \in places /\ Rank(places, Nth(places, n)) = n
      /\ \A i \in places : Nth(places, Rank(places, i)) = i
  BY <1>1, <1>2, NthFacts
<1>4. /\ Cardinality(places) \in Nat
      /\ \A i \in places : Rank(places, i) \in 1..Cardinality(places)
  BY <1>1, <1>2, RankFacts
<1>5. At(list, places) = [n \in 1..Cardinality(places) |-> list[Nth(places, n)]]
  BY DEF At
<1>6. \A n \in 1..Cardinality(places) : list[Nth(places, n)] \in S
  BY <1>3
<1>7. At(list, places) \in Seq(S)
  BY <1>4, <1>5, <1>6
<1>8. QED BY <1>3, <1>4, <1>5, <1>7

\* What Min takes of two numbers.
LEMMA MinFacts ==
    ASSUME NEW a \in Int, NEW b \in Int
    PROVE  /\ Min({a, b}) \in {a, b} /\ Min({a, b}) <= a /\ Min({a, b}) <= b
<1>1. \E x \in {a, b} : \A y \in {a, b} : x <= y
  <2>1. a <= b \/ b <= a
    OBVIOUS
  <2>2. a <= a /\ b <= b
    OBVIOUS
  <2>3. QED BY <2>1, <2>2
<1>2. QED BY <1>1 DEF Min


\* What Max takes of two numbers.
LEMMA MaxFacts ==
    ASSUME NEW a \in Int, NEW b \in Int
    PROVE  /\ Max({a, b}) \in {a, b} /\ Max({a, b}) >= a /\ Max({a, b}) >= b
<1>1. \E x \in {a, b} : \A y \in {a, b} : x >= y
  <2>1. a >= b \/ b >= a
    OBVIOUS
  <2>2. a >= a /\ b >= b
    OBVIOUS
  <2>3. QED BY <2>1, <2>2
<1>2. QED BY <1>1 DEF Max

LEMMA OfTwo ==
    ASSUME NEW a \in Nat, NEW b \in Nat
    PROVE  /\ Min({a, b}) \in Nat /\ Min({a, b}) <= a /\ Min({a, b}) <= b
           /\ Max({a, b}) \in Nat /\ Max({a, b}) >= a /\ Max({a, b}) >= b
           /\ a <= b => Max({a, b}) = b
<1>1. a \in Int /\ b \in Int
  OBVIOUS
<1>2. /\ Min({a, b}) \in {a, b} /\ Min({a, b}) <= a /\ Min({a, b}) <= b
      /\ Max({a, b}) \in {a, b} /\ Max({a, b}) >= a /\ Max({a, b}) >= b
  BY <1>1, MinFacts, MaxFacts, Zenon
<1>3. QED BY <1>2

\* The first n of a list, or all of it.
LEMMA AtMostFacts ==
    ASSUME NEW S, NEW list \in Seq(S), NEW n \in Nat
    PROVE  /\ AtMost(list, n) \in Seq(S)
           /\ Len(AtMost(list, n)) = Min({n, Len(list)})
           /\ Len(AtMost(list, n)) \in Nat
           /\ Len(AtMost(list, n)) <= n /\ Len(AtMost(list, n)) <= Len(list)
           /\ \A i \in 1..Len(AtMost(list, n)) : AtMost(list, n)[i] = list[i]
           /\ Len(list) <= n => AtMost(list, n) = list
<1> DEFINE m == Min({n, Len(list)})
<1>1. Len(list) \in Nat
  OBVIOUS
<1>2. m \in Nat /\ m <= n /\ m <= Len(list) /\ (Len(list) <= n => m = Len(list))
  <2>1. m \in {n, Len(list)} /\ m <= n /\ m <= Len(list)
    <3>1. n \in Int /\ Len(list) \in Int
      BY <1>1
    <3>2. QED BY <3>1, MinFacts, Zenon
  <2> HIDE DEF m
  <2>2. QED BY <1>1, <2>1
<1>3. AtMost(list, n) = SubSeq(list, 1, m)
  BY DEF AtMost
<1> HIDE DEF m
<1>4. /\ SubSeq(list, 1, m) \in Seq(S) /\ Len(SubSeq(list, 1, m)) = m
      /\ \A i \in 1..m : SubSeq(list, 1, m)[i] = list[i]
  <2>1. \A i \in 1..m : list[i] \in S
    BY <1>1, <1>2
  <2>2. QED BY <1>1, <1>2, <2>1, SubSeqProperties
<1>5. Len(list) <= n => SubSeq(list, 1, m) = list
  BY <1>1, <1>2, <1>4
<1>6. QED BY <1>2, <1>3, <1>4, <1>5 DEF m

\* Distinct has every element of a list, and is no longer.
LEMMA DistinctFacts ==
    ASSUME NEW S, NEW list \in Seq(S)
    PROVE  /\ Distinct(list) \in Seq(S)
           /\ Len(Distinct(list)) <= Len(list)
           /\ \A i \in DOMAIN list : \E n \in DOMAIN Distinct(list) : Distinct(list)[n] = list[i]
<1> DEFINE firsts == {i \in DOMAIN list : \A j \in 1..(i - 1) : list[j] # list[i]}
           result == At(list, firsts)
<1>1. Len(list) \in Nat /\ DOMAIN list = 1..Len(list)
  OBVIOUS
<1>2. firsts \in SUBSET DOMAIN list
  OBVIOUS
<1>3. Distinct(list) = result
  BY DEF Distinct, FirstOfEach
<1>4. /\ result \in Seq(S) /\ DOMAIN result = 1..Cardinality(firsts)
      /\ \A n \in DOMAIN result : Nth(firsts, n) \in firsts /\ result[n] = list[Nth(firsts, n)]
      /\ \A i \in firsts : \E n \in DOMAIN result : Nth(firsts, n) = i
  <2> HIDE DEF firsts
  <2>1. QED BY <1>2, AtFacts
<1>5. Cardinality(firsts) \in Nat /\ Cardinality(firsts) <= Len(list)
  <2>1. firsts \in SUBSET (1..Len(list))
    BY <1>1, <1>2
  <2> HIDE DEF firsts
  <2>2. IsFiniteSet(1..Len(list)) /\ Cardinality(1..Len(list)) = Len(list)
    BY <1>1, IntervalFacts
  <2>3. IsFiniteSet(firsts) /\ Cardinality(firsts) <= Len(list)
    BY <2>1, <2>2, FS_Subset
  <2>4. QED BY <2>3, FS_CardinalityType
<1>6. ASSUME NEW i \in DOMAIN list
      PROVE  \E j \in firsts : list[j] = list[i]
  <2> DEFINE same == {j \in DOMAIN list : list[j] = list[i]}
  <2>1. same \in SUBSET Nat /\ same # {}
    BY <1>1
  <2>2. PICK j \in same : \A k \in same : j <= k
    <3> HIDE DEF same
    <3>1. QED BY <2>1, LeastNatural
  <2>3. j \in firsts
    BY <1>1, <2>2
  <2>4. QED BY <2>3
<1> HIDE DEF firsts, result
<1>7. Len(result) = Cardinality(firsts)
  BY <1>4, <1>5
<1>8. \A i \in DOMAIN list : \E n \in DOMAIN result : result[n] = list[i]
  BY <1>2, <1>4, <1>6
<1>9. QED BY <1>3, <1>4, <1>5, <1>7, <1>8
-----------------------------------------------------------------------------
(***************************************************************************)
(* What merging makes of a document: how long its text is, and which       *)
(* chunks are in it.                                                       *)
(***************************************************************************)
\* Sections of which none is longer than the room fit into as many times that room.
LEMMA CharactersFacts ==
    ASSUME NEW list \in Seq(Section), NEW room \in Nat, \A i \in DOMAIN list : list[i].length <= room
    PROVE  Cardinality(Characters(list)) \in Nat /\ Cardinality(Characters(list)) <= Len(list) * room
<1>1. Len(list) \in Nat /\ DOMAIN list = 1..Len(list)
  OBVIOUS
<1>2. Characters(list) \in SUBSET ((1..Len(list)) \X (1..room))
  <2>1. \A i \in DOMAIN list : list[i] \in Section /\ list[i].length \in Nat
    <3>1. \A i \in DOMAIN list : list[i] \in Section
      OBVIOUS
    <3>2. QED BY <3>1 DEF Section
  <2>2. QED BY <1>1, <2>1 DEF Characters
<1>3. /\ IsFiniteSet((1..Len(list)) \X (1..room))
      /\ Cardinality((1..Len(list)) \X (1..room)) = Len(list) * room
  <2>1. /\ IsFiniteSet(1..Len(list)) /\ Cardinality(1..Len(list)) = Len(list)
        /\ IsFiniteSet(1..room) /\ Cardinality(1..room) = room
    BY <1>1, IntervalFacts
  <2>2. QED BY <2>1, FS_Product
<1>4. QED BY <1>2, <1>3, FS_Subset, FS_CardinalityType

LEMMA Division ==
    ASSUME NEW a \in Nat, NEW b \in Nat \ {0}, a >= b
    PROVE  a \div b \in Nat \ {0} /\ b * (a \div b) <= a
OBVIOUS

LEMMA MoreSeparators ==
    ASSUME NEW a \in Nat, NEW b \in Nat, a <= b, NEW s \in Nat
    PROVE  s * a \in Nat /\ s * b \in Nat /\ s * a <= s * b
OBVIOUS

\* merge_chat_sources: what is merged fits into a snippet, and while there is room for all the
\* sections, every chunk of both is in it.
LEMMA MergeSourcesFacts ==
    ASSUME NEW one \in Hits, NEW hit \in Hits
    PROVE  LET both == MergeSources(one, hit) IN
           /\ both \in Hits /\ both.resource = one.resource
           /\ Len(both.sections) <= Len(one.sections) + Len(hit.sections)
           /\ SumOfLengths(both.sections) <= MaxSnippet
           /\ Len(one.sections) + Len(hit.sections) <= MaxSections =>
                 /\ \A i \in DOMAIN one.sections : \E t \in DOMAIN both.sections :
                       both.sections[t].chunk = one.sections[i].chunk
                 /\ \A i \in DOMAIN hit.sections : \E t \in DOMAIN both.sections :
                       both.sections[t].chunk = hit.sections[i].chunk
<1> DEFINE a == one.sections
           b == hit.sections
           all == Distinct(a \o b)
           count == Min({MaxSections, Len(all)})
           room == (MaxSnippet - SeparatorLength * (count - 1)) \div count
           Cut(section) == [section EXCEPT !.length = Min({@, Max({1, room})})]
           cut == [i \in DOMAIN all |-> Cut(all[i])]
           both == MergeSources(one, hit)
<1>1. a \in Seq(Section) /\ b \in Seq(Section) /\ one.score \in Nat /\ hit.score \in Nat
      /\ one.resource \in Resources
  BY DEF Hits
<1>2. both = [one EXCEPT !.sections = AtMost(cut, MaxSections), !.score = Max({@, hit.score})]
  BY DEF MergeSources
<1> HIDE DEF a, b
<1>3. /\ a \o b \in Seq(Section) /\ Len(a \o b) = Len(a) + Len(b)
      /\ \A i \in DOMAIN a : i \in DOMAIN (a \o b) /\ (a \o b)[i] = a[i]
      /\ \A i \in DOMAIN b : Len(a) + i \in DOMAIN (a \o b) /\ (a \o b)[Len(a) + i] = b[i]
  BY <1>1
<1>4. /\ all \in Seq(Section)
      /\ Len(all) \in Nat /\ DOMAIN all = 1..Len(all) /\ Len(all) <= Len(a) + Len(b)
      /\ \A i \in DOMAIN (a \o b) : \E n \in DOMAIN all : all[n] = (a \o b)[i]
  <2> DEFINE list == a \o b
  <2>1. list \in Seq(Section) /\ Len(list) = Len(a) + Len(b)
    BY <1>3
  <2> HIDE DEF list
  <2>2. /\ Distinct(list) \in Seq(Section) /\ Len(Distinct(list)) <= Len(list)
        /\ \A i \in DOMAIN list : \E n \in DOMAIN Distinct(list) : Distinct(list)[n] = list[i]
    BY <2>1, DistinctFacts
  <2>3. all = Distinct(list)
    BY DEF list
  <2>4. QED BY <2>1, <2>2, <2>3 DEF list
<1> HIDE DEF all
<1>5. count \in Nat /\ count <= MaxSections /\ count <= Len(all)
      /\ (Len(all) # 0 => count # 0)
  <2>1. MaxSections \in Int /\ Len(all) \in Int /\ MaxSections \in Nat \ {0}
    BY <1>4, SnippetAssumption
  <2>2. count \in {MaxSections, Len(all)} /\ count <= MaxSections /\ count <= Len(all)
    BY <2>1, MinFacts, Zenon
  <2> HIDE DEF count
  <2>3. QED BY <1>4, <2>1, <2>2
<1> HIDE DEF count
<1>6. Len(all) # 0 =>
         /\ count \in Nat \ {0} /\ room \in Nat \ {0}
         /\ count * room + SeparatorLength * (count - 1) <= MaxSnippet
  <2> SUFFICES ASSUME Len(all) # 0
               PROVE  /\ count \in Nat \ {0} /\ room \in Nat \ {0}
                      /\ count * room + SeparatorLength * (count - 1) <= MaxSnippet
    OBVIOUS
  <2> DEFINE used == SeparatorLength * (count - 1)
             most == SeparatorLength * (MaxSections - 1)
  <2>1. used \in Nat /\ most \in Nat /\ used <= most
    <3>1. count - 1 \in Nat /\ MaxSections - 1 \in Nat /\ count - 1 <= MaxSections - 1
          /\ SeparatorLength \in Nat
      BY <1>5, SnippetAssumption
    <3>2. QED BY <3>1, MoreSeparators
  <2>2. MaxSnippet >= MaxSections + most /\ MaxSnippet \in Nat /\ MaxSections \in Nat
    BY SnippetAssumption
  <2>3. room = (MaxSnippet - used) \div count
    OBVIOUS
  <2> HIDE DEF room, used, most
  <2>4. MaxSnippet - used \in Nat /\ count \in Nat \ {0} /\ MaxSnippet - used >= count
    BY <1>5, <2>1, <2>2
  <2>5. room \in Nat \ {0} /\ count * room <= MaxSnippet - used
    BY <2>3, <2>4, Division
  <2>6. count * room \in Nat
    BY <2>4, <2>5
  <2>7. QED BY <2>1, <2>2, <2>4, <2>5, <2>6 DEF used
<1> HIDE DEF room
<1>7. ASSUME NEW i \in DOMAIN all
      PROVE  /\ Cut(all[i]) \in Section /\ Cut(all[i]).chunk = all[i].chunk
             /\ Cut(all[i]).length <= room
  <2>1. all[i] \in Section /\ all[i].length \in Nat /\ all[i].chunk \in Nat
    <3>1. all[i] \in Section
      BY <1>4
    <3>2. QED BY <3>1 DEF Section
  <2>2. room \in Nat \ {0}
    BY <1>4, <1>6
  <2>3. Max({1, room}) = room
    <3>1. 1 \in Nat /\ room \in Nat /\ 1 <= room
      BY <2>2
    <3>2. QED BY <3>1, OfTwo
  <2>4. Min({all[i].length, room}) \in Nat /\ Min({all[i].length, room}) <= room
    BY <2>1, <2>2, OfTwo
  <2>5. Cut(all[i]) = [all[i] EXCEPT !.length = Min({all[i].length, room})]
    BY <2>3
  <2> HIDE DEF Cut
  <2>6. QED BY <2>1, <2>4, <2>5 DEF Section
<1> HIDE DEF Cut
<1>8. cut \in Seq(Section) /\ Len(cut) = Len(all) /\ DOMAIN cut = DOMAIN all
      /\ \A i \in DOMAIN cut : cut[i] = Cut(all[i])
  BY <1>4, <1>7
<1> HIDE DEF cut
<1> DEFINE short == AtMost(cut, MaxSections)
<1>9. /\ short \in Seq(Section) /\ Len(short) = count
      /\ \A i \in 1..count : i \in DOMAIN cut /\ short[i] = cut[i]
      /\ Len(all) <= MaxSections => short = cut
  <2>1. MaxSections \in Nat
    BY SnippetAssumption
  <2>2. /\ AtMost(cut, MaxSections) \in Seq(Section)
        /\ Len(AtMost(cut, MaxSections)) = Min({MaxSections, Len(cut)})
        /\ \A i \in 1..Len(AtMost(cut, MaxSections)) : AtMost(cut, MaxSections)[i] = cut[i]
        /\ Len(cut) <= MaxSections => AtMost(cut, MaxSections) = cut
    BY <1>8, <2>1, AtMostFacts
  <2>3. Len(short) = count
    BY <1>8, <2>2 DEF count
  <2>4. \A i \in 1..count : i \in DOMAIN cut
    BY <1>4, <1>5, <1>8
  <2>5. QED BY <1>8, <2>2, <2>3, <2>4
<1> HIDE DEF short
<1>10. SumOfLengths(short) <= MaxSnippet
  <2>1. CASE Len(all) = 0
    <3>1. count = 0 /\ Len(short) = 0 /\ DOMAIN short = {}
      BY <1>5, <1>9, <2>1
    <3>2. Characters(short) = {}
      BY <3>1 DEF Characters
    <3>3. SumOfLengths(short) = 0 + SeparatorLength * (0 - 1)
      BY <3>1, <3>2, FS_EmptySet DEF SumOfLengths
    <3>4. QED BY <3>3, SnippetAssumption
  <2>2. CASE Len(all) # 0
    <3>1. \A i \in DOMAIN short : short[i].length <= room
      BY <1>7, <1>8, <1>9
    <3>2. room \in Nat /\ count \in Nat /\ count * room \in Nat
      BY <1>6, <2>2
    <3>3. Cardinality(Characters(short)) \in Nat /\ Cardinality(Characters(short)) <= count * room
      BY <1>9, <3>1, <3>2, CharactersFacts
    <3>4. SeparatorLength * (count - 1) \in Int
      BY <3>2, SnippetAssumption
    <3>5. SumOfLengths(short) = Cardinality(Characters(short)) + SeparatorLength * (count - 1)
      BY <1>9 DEF SumOfLengths
    <3>6. MaxSnippet \in Nat /\ count * room + SeparatorLength * (count - 1) <= MaxSnippet
      BY <1>6, <2>2, SnippetAssumption
    <3>7. QED BY <3>2, <3>3, <3>4, <3>5, <3>6
  <2>3. QED BY <2>1, <2>2
<1>11. /\ both \in Hits /\ both.sections = short /\ both.resource = one.resource
  <2>1. Max({one.score, hit.score}) \in Nat
    BY <1>1, OfTwo
  <2>2. both = [one EXCEPT !.sections = short, !.score = Max({one.score, hit.score})]
    BY <1>2 DEF short
  <2> HIDE DEF both
  <2>3. QED BY <1>1, <1>9, <2>1, <2>2 DEF Hits
<1> HIDE DEF both
<1>12. ASSUME Len(a) + Len(b) <= MaxSections, NEW i \in DOMAIN (a \o b)
       PROVE  \E t \in DOMAIN short : short[t].chunk = (a \o b)[i].chunk
  <2>1. short = cut
    BY <1>3, <1>4, <1>9, <1>12, SnippetAssumption
  <2>2. PICK n \in DOMAIN all : all[n] = (a \o b)[i]
    BY <1>4
  <2>3. QED BY <1>7, <1>8, <2>1, <2>2
<1>13. Len(short) <= Len(a) + Len(b)
  BY <1>1, <1>4, <1>5, <1>9
<1>14. QED
  <2>1. Len(a) + Len(b) <= MaxSections =>
           /\ \A i \in DOMAIN a : \E t \in DOMAIN short : short[t].chunk = a[i].chunk
           /\ \A i \in DOMAIN b : \E t \in DOMAIN short : short[t].chunk = b[i].chunk
    BY <1>3, <1>12
  <2>2. QED BY <1>10, <1>11, <1>13, <2>1 DEF a, b, both

\* FiniteSetsExt defines Min by a choice, which a set of one element leaves none.
LEMMA MinOfOne == ASSUME NEW i \in Nat PROVE Min({i}) = i
BY DEF Min

\* What the loop body does with a hit: it joins the document that is there, becomes one, or finds
\* the list full.
Joins(list, hit, all) ==
    \E i \in DOMAIN list :
        /\ list[i].resource = hit.resource
        /\ Len(all) = Len(list) /\ DOMAIN all = DOMAIN list
        /\ all[i] = MergeSources(list[i], hit)
        /\ \A j \in DOMAIN list : j # i => all[j] = list[j]
IsAdded(list, hit, all, room) ==
    /\ hit.resource \notin ResourcesOf(list)
    /\ Len(list) < room /\ DOMAIN all = 1..(Len(list) + 1)
    /\ all[Len(list) + 1] = hit
    /\ \A j \in DOMAIN list : all[j] = list[j]
IsLeftOut(list, hit, all, room) ==
    hit.resource \notin ResourcesOf(list) /\ Len(list) = room /\ all = list

LEMMA MergeIntoFacts ==
    ASSUME NEW list \in Seq(Hits), NoRepetition(list), NEW hit \in Hits,
           NEW room \in Nat, Len(list) <= room
    PROVE  LET all == MergeInto(list, hit, room) IN
           /\ all \in Seq(Hits) /\ NoRepetition(all) /\ Len(all) <= room
           /\ Joins(list, hit, all) \/ IsAdded(list, hit, all, room) \/ IsLeftOut(list, hit, all, room)
<1> DEFINE same == {i \in DOMAIN list : list[i].resource = hit.resource}
           all == MergeInto(list, hit, room)
<1>0. Len(list) \in Nat /\ DOMAIN list = 1..Len(list) /\ room \in Nat
  OBVIOUS
<1>1. CASE same # {}
  <2>1. PICK i \in DOMAIN list : same = {i} /\ list[i].resource = hit.resource
    BY <1>1 DEF NoRepetition
  <2>2. i \in Nat /\ Min(same) = i
    BY <1>0, <2>1, MinOfOne
  <2> DEFINE one == MergeSources(list[i], hit)
  <2>3. one \in Hits /\ one.resource = list[i].resource
    <3>1. list[i] \in Hits
      OBVIOUS
    <3>2. QED BY <3>1, MergeSourcesFacts
  <2>4. all = [list EXCEPT ![i] = one]
    BY <1>1, <2>2 DEF MergeInto
  <2> HIDE DEF one, all
  <2>5. all \in Seq(Hits) /\ Len(all) = Len(list) /\ DOMAIN all = DOMAIN list
        /\ \A j \in DOMAIN list : all[j] = IF j = i THEN one ELSE list[j]
    BY <2>3, <2>4
  <2>6. NoRepetition(all)
    BY <2>3, <2>5 DEF NoRepetition
  <2>7. Joins(list, hit, all)
    BY <2>1, <2>5 DEF Joins, one
  <2>8. QED BY <1>0, <2>5, <2>6, <2>7 DEF all
<1>2. CASE same = {} /\ Len(list) < room
  <2>1. all = Append(list, hit)
    BY <1>2 DEF MergeInto
  <2>2. all \in Seq(Hits) /\ Len(all) = Len(list) + 1 /\ DOMAIN all = 1..(Len(list) + 1)
        /\ (\A j \in DOMAIN list : all[j] = list[j]) /\ all[Len(list) + 1] = hit
    BY <2>1
  <2>3. hit.resource \notin ResourcesOf(list)
    BY <1>2 DEF ResourcesOf
  <2> HIDE DEF all
  <2>4. \A j \in DOMAIN all : j \in DOMAIN list \/ j = Len(list) + 1
    BY <1>0, <2>2
  <2>5. NoRepetition(all)
    BY <2>2, <2>3, <2>4 DEF NoRepetition, ResourcesOf
  <2>6. IsAdded(list, hit, all, room)
    BY <1>2, <2>2, <2>3 DEF IsAdded
  <2>7. Len(all) <= room
    BY <1>0, <1>2, <2>2
  <2>8. QED BY <2>2, <2>5, <2>6, <2>7 DEF all
<1>3. CASE same = {} /\ ~(Len(list) < room)
  <2>1. all = list /\ Len(list) = room
    BY <1>0, <1>3 DEF MergeInto
  <2>2. hit.resource \notin ResourcesOf(list)
    BY <1>3 DEF ResourcesOf
  <2>3. QED BY <1>0, <2>1, <2>2 DEF IsLeftOut
<1>4. QED BY <1>1, <1>2, <1>3
-----------------------------------------------------------------------------
(***************************************************************************)
(* The reranker: its list is one of documents, each once, whose snippets   *)
(* fit, and no longer than top_n.                                          *)
(***************************************************************************)
Fits(list) == \A i \in DOMAIN list : SumOfLengths(list[i].sections) <= MaxSnippet
IsRanking(list) == list \in Seq(Hits) /\ NoRepetition(list) /\ Len(list) <= TopN /\ Fits(list)

\* Sorting loses nothing: at each place is a hit that has as many before it.
LEMMA BestFirstFacts ==
    ASSUME NEW list \in Seq(Hits)
    PROVE  /\ BestFirst(list) \in Seq(Hits) /\ Len(BestFirst(list)) = Len(list)
           /\ \A k \in DOMAIN BestFirst(list) : \E i \in DOMAIN list : BestFirst(list)[k] = list[i]
<1> DEFINE D == DOMAIN list
           Earlier(i, j) == \/ list[i].score > list[j].score
                            \/ list[i].score = list[j].score /\ i < j
           R == {p \in D \X D : Earlier(p[1], p[2])}
           Best(k) == CHOOSE i \in D : Cardinality({j \in D : Earlier(j, i)}) = k - 1
<1>1. BestFirst(list) = [k \in D |-> list[Best(k)]]
  BY DEF BestFirst
<1>2. Len(list) \in Nat /\ D = 1..Len(list) /\ IsFiniteSet(D) /\ Cardinality(D) = Len(list)
  BY IntervalFacts
<1>3. \A i \in D : list[i] \in Hits /\ list[i].score \in Int /\ i \in Int
  <2>1. \A i \in D : list[i] \in Hits
    OBVIOUS
  <2>2. QED BY <1>2, <2>1 DEF Hits
<1>4. \A i, j \in D : <<i, j>> \in R <=> Earlier(i, j)
  OBVIOUS
<1> HIDE DEF D
<1>5. /\ \A i \in D : ~Earlier(i, i)
      /\ \A i, j \in D : i # j => Earlier(i, j) \/ Earlier(j, i)
      /\ \A i, j, k \in D : Earlier(i, j) /\ Earlier(j, k) => Earlier(i, k)
  BY <1>3
<1> HIDE DEF R, Earlier
<1>6. IsStrictOrder(D, R)
  <2>1. \A i \in D : <<i, i>> \notin R
    BY <1>4, <1>5
  <2>2. \A i, j \in D : i # j => <<i, j>> \in R \/ <<j, i>> \in R
    BY <1>4, <1>5
  <2>3. \A i, j, k \in D : <<i, j>> \in R /\ <<j, k>> \in R => <<i, k>> \in R
    BY <1>4, <1>5
  <2>4. QED BY <2>1, <2>2, <2>3 DEF IsStrictOrder
<1>7. \A k \in 0..(Len(list) - 1) : \E i \in D : Cardinality(Preceding(D, R, i)) = k
  <2> DEFINE n == Len(list)
  <2>1. n \in Nat /\ IsFiniteSet(D) /\ Cardinality(D) = n
    BY <1>2
  <2> HIDE DEF n
  <2>2. \A k \in 0..(n - 1) : \E i \in D : Cardinality(Preceding(D, R, i)) = k
    BY <1>6, <2>1, RanksAreAll
  <2>3. QED BY <2>2 DEF n
<1>8. ASSUME NEW k \in D PROVE Best(k) \in D
  <2>1. k - 1 \in 0..(Len(list) - 1)
    BY <1>2
  <2>2. PICK i \in D : Cardinality(Preceding(D, R, i)) = k - 1
    BY <1>7, <2>1
  <2>3. Preceding(D, R, i) = {j \in D : Earlier(j, i)}
    BY <1>4 DEF Preceding
  <2>4. QED BY <2>2, <2>3
<1> HIDE DEF Best
<1>9. BestFirst(list) \in [1..Len(list) -> Hits]
  BY <1>1, <1>2, <1>3, <1>8
<1>10. BestFirst(list) \in Seq(Hits) /\ Len(BestFirst(list)) = Len(list)
  BY <1>2, <1>9
<1>11. QED BY <1>1, <1>8, <1>10 DEF D

\* MergeAll is the last of its rounds.
LEMMA MergeAllFacts ==
    ASSUME NEW hits, NEW room, Len(hits) \in Nat
    PROVE  \E documents :
              /\ documents[0] = <<>>
              /\ \A n \in 1..Len(hits) : documents[n] = MergeInto(documents[n - 1], hits[n], room)
              /\ MergeAll(hits, room) = documents[Len(hits)]
<1> DEFINE Loop(f, k) == f = [n \in 0..k |-> IF n = 0 THEN <<>> ELSE MergeInto(f[n - 1], hits[n], room)]
           P == {k \in 0..Len(hits) : \E f : Loop(f, k)}
<1>1. 0 \in P
  <2>1. Loop([n \in 0..0 |-> <<>>], 0)
    OBVIOUS
  <2> HIDE DEF Loop
  <2>2. QED BY <2>1
<1>2. ASSUME NEW k \in 0..(Len(hits) - 1), k \in P PROVE k + 1 \in P
  <2>1. PICK f : Loop(f, k)
    BY <1>2
  <2> DEFINE g == [n \in 0..(k + 1) |-> IF n = k + 1 THEN MergeInto(f[k], hits[k + 1], room) ELSE f[n]]
  <2>2. Loop(g, k + 1)
    <3>1. \A n \in 0..(k + 1) : n # 0 => g[n - 1] = f[n - 1]
      OBVIOUS
    <3>2. ASSUME NEW n \in 0..(k + 1)
          PROVE  g[n] = IF n = 0 THEN <<>> ELSE MergeInto(g[n - 1], hits[n], room)
      <4>1. CASE n = k + 1
        BY <3>1, <4>1
      <4>2. CASE n # k + 1
        <5>1. n \in 0..k /\ g[n] = f[n]
          BY <4>2
        <5>2. f[n] = IF n = 0 THEN <<>> ELSE MergeInto(f[n - 1], hits[n], room)
          BY <2>1, <5>1
        <5>3. QED BY <3>1, <5>1, <5>2
      <4>3. QED BY <4>1, <4>2
    <3>3. QED BY <3>2
  <2>3. k + 1 \in 0..Len(hits)
    OBVIOUS
  <2> HIDE DEF Loop, g
  <2>4. QED BY <2>2, <2>3
<1>3. \A t \in 0..Len(hits) : t \in P
  <2> HIDE DEF P
  <2>1. QED BY <1>1, <1>2, UpTo
<1> DEFINE documents == CHOOSE f : Loop(f, Len(hits))
<1>4. Loop(documents, Len(hits))
  <2>1. \E f : Loop(f, Len(hits))
    BY <1>3
  <2> HIDE DEF Loop
  <2>2. QED BY <2>1
<1>5. MergeAll(hits, room) = documents[Len(hits)]
  BY DEF MergeAll
<1>6. QED
  <2> HIDE DEF documents
  <2>1. documents[0] = <<>>
    BY <1>4
  <2>2. ASSUME NEW n \in 1..Len(hits)
        PROVE  documents[n] = MergeInto(documents[n - 1], hits[n], room)
    BY <1>4
  <2>3. QED BY <1>5, <2>1, <2>2

\* Every round keeps a list of documents, each once, that fit.
LEMMA MergeAllKeeps ==
    ASSUME NEW hits \in Seq(Hits), Fits(hits), NEW room \in Nat
    PROVE  LET all == MergeAll(hits, room) IN
           all \in Seq(Hits) /\ NoRepetition(all) /\ Fits(all)
<1>1. Len(hits) \in Nat /\ DOMAIN hits = 1..Len(hits)
  OBVIOUS
<1>2. PICK documents :
         /\ documents[0] = <<>>
         /\ \A n \in 1..Len(hits) : documents[n] = MergeInto(documents[n - 1], hits[n], room)
         /\ MergeAll(hits, room) = documents[Len(hits)]
  BY <1>1, MergeAllFacts
<1> DEFINE Good(list) == list \in Seq(Hits) /\ NoRepetition(list) /\ Fits(list) /\ Len(list) <= room
           P == {n \in Nat : Good(documents[n])}
<1>3. 0 \in P
  <2>1. <<>> \in Seq(Hits) /\ Len(<<>>) = 0 /\ DOMAIN <<>> = {}
    OBVIOUS
  <2>2. NoRepetition(<<>>) /\ Fits(<<>>)
    BY DEF NoRepetition, Fits
  <2>3. Good(<<>>)
    BY <2>1, <2>2
  <2> HIDE DEF Good
  <2>4. QED BY <1>2, <2>3
<1>4. ASSUME NEW t \in 0..(Len(hits) - 1), t \in P PROVE t + 1 \in P
  <2> DEFINE list == documents[t]
             hit == hits[t + 1]
             all == documents[t + 1]
  <2>1. Good(list)
    BY <1>4
  <2>2. t + 1 \in 1..Len(hits) /\ (t + 1) - 1 = t
    BY <1>1
  <2>3. all = MergeInto(list, hit, room)
    BY <1>2, <2>2
  <2>4. hit \in Hits /\ SumOfLengths(hit.sections) <= MaxSnippet
    BY <1>1, <2>2 DEF Fits
  <2> HIDE DEF list, hit, all
  <2>5. /\ all \in Seq(Hits) /\ NoRepetition(all) /\ Len(all) <= room
        /\ Joins(list, hit, all) \/ IsAdded(list, hit, all, room) \/ IsLeftOut(list, hit, all, room)
    BY <2>1, <2>3, <2>4, MergeIntoFacts
  <2>6. \A i \in DOMAIN list : list[i] \in Hits /\ SumOfLengths(list[i].sections) <= MaxSnippet
    BY <2>1 DEF Fits
  <2>7. Fits(all)
    <3>1. CASE Joins(list, hit, all)
      <4>1. PICK i \in DOMAIN list : /\ DOMAIN all = DOMAIN list
                                     /\ all[i] = MergeSources(list[i], hit)
                                     /\ \A j \in DOMAIN list : j # i => all[j] = list[j]
        BY <3>1 DEF Joins
      <4>2. SumOfLengths(all[i].sections) <= MaxSnippet
        BY <2>4, <2>6, <4>1, MergeSourcesFacts
      <4>3. QED BY <2>6, <4>1, <4>2 DEF Fits
    <3>2. CASE IsAdded(list, hit, all, room)
      <4>1. \A j \in DOMAIN all : j \in DOMAIN list \/ j = Len(list) + 1
        BY <2>1, <3>2 DEF IsAdded
      <4>2. QED BY <2>4, <2>6, <3>2, <4>1 DEF IsAdded, Fits
    <3>3. CASE IsLeftOut(list, hit, all, room)
      BY <2>1, <3>3 DEF IsLeftOut
    <3>4. QED BY <2>5, <3>1, <3>2, <3>3
  <2>8. Good(all)
    BY <2>5, <2>7
  <2>9. QED BY <2>8 DEF all
<1>5. Len(hits) \in P
  <2> HIDE DEF P
  <2>1. \A t \in 0..Len(hits) : t \in P
    BY <1>1, <1>3, <1>4, UpTo
  <2>2. QED BY <1>1, <2>1
<1>6. QED BY <1>2, <1>5

\* VectorScoreReranker.rerank
LEMMA RerankFacts ==
    ASSUME NEW hits \in Seq(Hits), Fits(hits), NEW threshold
    PROVE  IsRanking(Rerank(hits, threshold, TopN))
<1> DEFINE best == BestFirst(hits)
           places == {i \in DOMAIN best : best[i].score >= threshold}
           kept == At(best, places)
           all == MergeAll(kept, Len(hits))
<1>1. /\ best \in Seq(Hits) /\ \A k \in DOMAIN best : \E i \in DOMAIN hits : best[k] = hits[i]
      /\ Len(hits) \in Nat /\ TopN \in Nat
  BY BestFirstFacts, ConstantsAssumption
<1>2. Fits(best)
  BY <1>1 DEF Fits
<1>3. places \in SUBSET DOMAIN best
  OBVIOUS
<1>4. Rerank(hits, threshold, TopN) = AtMost(all, TopN)
  BY DEF Rerank
<1> HIDE DEF best, places
<1>5. /\ kept \in Seq(Hits)
      /\ \A n \in DOMAIN kept : Nth(places, n) \in places /\ kept[n] = best[Nth(places, n)]
  BY <1>1, <1>3, AtFacts
<1>6. Fits(kept)
  BY <1>2, <1>3, <1>5 DEF Fits
<1> HIDE DEF kept
<1>7. all \in Seq(Hits) /\ NoRepetition(all) /\ Fits(all)
  BY <1>1, <1>5, <1>6, MergeAllKeeps
<1> HIDE DEF all
<1> DEFINE short == AtMost(all, TopN)
<1>8. /\ short \in Seq(Hits) /\ Len(short) \in Nat /\ Len(short) <= TopN /\ Len(short) <= Len(all)
      /\ \A i \in 1..Len(short) : short[i] = all[i]
  BY <1>1, <1>7, AtMostFacts
<1> HIDE DEF short
<1>9. \A i \in DOMAIN short : i \in DOMAIN all /\ short[i] = all[i]
  BY <1>7, <1>8
<1>10. NoRepetition(short) /\ Fits(short)
  BY <1>7, <1>9 DEF NoRepetition, Fits
<1>11. QED BY <1>4, <1>8, <1>10 DEF IsRanking, short

\* What the searches of the single pass return.
LEMMA RankingFacts ==
    ASSUME NEW ranking \in Rankings
    PROVE  IsRanking(ranking)
<1>1. PICK hits \in HitLists : ranking = Rerank(hits, ScoreThreshold, TopN)
  BY ConstantsAssumption DEF SearchRankings
<1>2. hits \in Seq(Hits) /\ Fits(hits)
  BY HitsAssumption DEF Fits
<1>3. QED BY <1>1, <1>2, RerankFacts
-----------------------------------------------------------------------------
(***************************************************************************)
(* The merging loop, at any of its turns: ranked are the rankings, list    *)
(* what is merged so far, done the places the loop has been at.            *)
(***************************************************************************)
HitAt(ranked, f) == ranked[f[1]][f[2]]
DoneOf(ranked, done, resource) == {f \in done : HitAt(ranked, f).resource = resource}
Found(ranked, places) == UNION {{f} \X DOMAIN HitAt(ranked, f).sections : f \in places}

\* A document that is left out came when the list was full, after all that is in it.
FairSoFar(ranked, list, done) ==
    /\ \A i \in DOMAIN list : DoneOf(ranked, done, list[i].resource) # {}
    /\ \A f \in done : HitAt(ranked, f).resource \notin ResourcesOf(list) =>
          /\ Len(list) = TopN
          /\ \A taken \in ResourcesOf(list) :
                \E g \in DoneOf(ranked, done, taken) : Before(g, f)

\* The sections of a document are those that were found, while there is room for all of them.
Covers(ranked, document, found) ==
    /\ SumOfLengths(document.sections) <= MaxSnippet
    /\ IsFiniteSet(found) /\ Len(document.sections) <= Cardinality(found)
    /\ Cardinality(found) <= MaxSections =>
          \A p \in found : \E t \in DOMAIN document.sections :
              document.sections[t].chunk = HitAt(ranked, p[1]).sections[p[2]].chunk

MergedSoFar(ranked, list, done) ==
    /\ list \in Seq(Hits) /\ NoRepetition(list) /\ Len(list) <= TopN
    /\ FairSoFar(ranked, list, done)
    /\ \A i \in DOMAIN list :
          Covers(ranked, list[i], Found(ranked, DoneOf(ranked, done, list[i].resource)))

\* The sections at one place.
LEMMA PlaceFacts ==
    ASSUME NEW ranked, NEW f, HitAt(ranked, f) \in Hits
    PROVE  /\ IsFiniteSet({f} \X DOMAIN HitAt(ranked, f).sections)
           /\ Cardinality({f} \X DOMAIN HitAt(ranked, f).sections) = Len(HitAt(ranked, f).sections)
<1> DEFINE sections == HitAt(ranked, f).sections
<1>1. sections \in Seq(Section)
  BY DEF Hits
<1> HIDE DEF sections
<1>2. Len(sections) \in Nat /\ DOMAIN sections = 1..Len(sections)
  BY <1>1
<1>3. IsFiniteSet(1..Len(sections)) /\ Cardinality(1..Len(sections)) = Len(sections)
  BY <1>2, IntervalFacts
<1>4. IsFiniteSet({f}) /\ Cardinality({f}) = 1
  BY FS_Singleton, Zenon
<1>5. /\ IsFiniteSet({f} \X (1..Len(sections)))
      /\ Cardinality({f} \X (1..Len(sections))) = 1 * Len(sections)
  BY <1>3, <1>4, FS_Product
<1>6. QED BY <1>2, <1>5 DEF sections

\* A document that is new is as it was found.
LEMMA CoversFirst ==
    ASSUME NEW ranked, NEW f, HitAt(ranked, f) \in Hits,
           SumOfLengths(HitAt(ranked, f).sections) <= MaxSnippet
    PROVE  Covers(ranked, HitAt(ranked, f), Found(ranked, {f}))
<1>1. Found(ranked, {f}) = {f} \X DOMAIN HitAt(ranked, f).sections
  BY DEF Found
<1>2. \A p \in Found(ranked, {f}) : p[1] = f /\ p[2] \in DOMAIN HitAt(ranked, f).sections
  BY <1>1
<1>3. /\ IsFiniteSet(Found(ranked, {f}))
      /\ Cardinality(Found(ranked, {f})) = Len(HitAt(ranked, f).sections)
      /\ Len(HitAt(ranked, f).sections) \in Nat
  <2>1. HitAt(ranked, f).sections \in Seq(Section)
    BY DEF Hits
  <2>2. Len(HitAt(ranked, f).sections) \in Nat
    BY <2>1
  <2>3. /\ IsFiniteSet({f} \X DOMAIN HitAt(ranked, f).sections)
        /\ Cardinality({f} \X DOMAIN HitAt(ranked, f).sections) = Len(HitAt(ranked, f).sections)
    BY PlaceFacts
  <2>4. QED BY <1>1, <2>2, <2>3, Zenon
<1>4. Len(HitAt(ranked, f).sections) <= Cardinality(Found(ranked, {f}))
  BY <1>3
<1>5. \A p \in Found(ranked, {f}) : \E t \in DOMAIN HitAt(ranked, f).sections :
         HitAt(ranked, f).sections[t].chunk = HitAt(ranked, p[1]).sections[p[2]].chunk
  BY <1>2
<1>6. QED BY <1>3, <1>4, <1>5 DEF Covers

\* One that takes a hit up has what it had and what was found there.
LEMMA CoversMore ==
    ASSUME NEW ranked, NEW one \in Hits, NEW places, Covers(ranked, one, Found(ranked, places)),
           NEW f, f \notin places, HitAt(ranked, f) \in Hits
    PROVE  Covers(ranked, MergeSources(one, HitAt(ranked, f)), Found(ranked, places \cup {f}))
<1> DEFINE hit == HitAt(ranked, f)
           here == {f} \X DOMAIN hit.sections
           found == Found(ranked, places)
           all == Found(ranked, places \cup {f})
           both == MergeSources(one, hit)
<1>1. all = found \cup here /\ found \cap here = {}
  BY DEF Found
<1>2. IsFiniteSet(here) /\ Cardinality(here) = Len(hit.sections)
  BY PlaceFacts
<1>3. IsFiniteSet(found) /\ Cardinality(found) \in Nat /\ Len(one.sections) <= Cardinality(found)
  BY FS_CardinalityType DEF Covers
<1>4. \A p \in here : p[1] = f /\ p[2] \in DOMAIN hit.sections
  OBVIOUS
<1>5. /\ both \in Hits
      /\ Len(both.sections) <= Len(one.sections) + Len(hit.sections)
      /\ SumOfLengths(both.sections) <= MaxSnippet
      /\ Len(one.sections) + Len(hit.sections) <= MaxSections =>
            /\ \A i \in DOMAIN one.sections : \E t \in DOMAIN both.sections :
                  both.sections[t].chunk = one.sections[i].chunk
            /\ \A i \in DOMAIN hit.sections : \E t \in DOMAIN both.sections :
                  both.sections[t].chunk = hit.sections[i].chunk
  BY MergeSourcesFacts
<1> DEFINE before == Len(one.sections)
           more == Len(hit.sections)
           after == Len(both.sections)
<1>6. before \in Nat /\ more \in Nat /\ after \in Nat /\ MaxSections \in Nat
  BY <1>5, SnippetAssumption DEF Hits
<1> HIDE DEF here, found, all, both, before, more, after
<1>a. before <= Cardinality(found) /\ after <= before + more /\ Cardinality(here) = more
  BY <1>2, <1>3, <1>5 DEF before, more, after
<1>7. IsFiniteSet(all) /\ Cardinality(all) = Cardinality(found) + more
  <2>1. IsFiniteSet(found \cup here)
        /\ Cardinality(found \cup here) = Cardinality(found) + Cardinality(here) - Cardinality(found \cap here)
    BY <1>2, <1>3, FS_Union
  <2>2. Cardinality(found \cap here) = 0
    BY <1>1, FS_EmptySet
  <2>3. QED BY <1>1, <1>3, <1>6, <1>a, <2>1, <2>2
<1>8. ASSUME Cardinality(all) <= MaxSections, NEW p \in all
      PROVE  \E t \in DOMAIN both.sections :
                 both.sections[t].chunk = HitAt(ranked, p[1]).sections[p[2]].chunk
  <2>1. Cardinality(found) <= MaxSections /\ before + more <= MaxSections
    BY <1>3, <1>6, <1>7, <1>8, <1>a
  <2>2. CASE p \in found
    <3>1. PICK i \in DOMAIN one.sections :
             one.sections[i].chunk = HitAt(ranked, p[1]).sections[p[2]].chunk
      BY <2>1, <2>2 DEF Covers, found
    <3>2. QED BY <1>5, <2>1, <3>1 DEF before, more
  <2>3. CASE p \in here
    BY <1>4, <1>5, <2>1, <2>3 DEF before, more, here
  <2>4. QED BY <1>1, <2>2, <2>3
<1>9. after <= Cardinality(all)
  BY <1>3, <1>6, <1>7, <1>a
<1>10. Covers(ranked, both, all)
  BY <1>5, <1>7, <1>8, <1>9 DEF Covers, after
<1>11. QED BY <1>10 DEF both, all

\* A turn at a place it has not been at keeps the promises of the loop.
LEMMA MergingStep ==
    ASSUME NEW ranked, NEW list, NEW done, MergedSoFar(ranked, list, done),
           NEW here, here \notin done, \A f \in done : Before(f, here),
           HitAt(ranked, here) \in Hits, SumOfLengths(HitAt(ranked, here).sections) <= MaxSnippet
    PROVE  MergedSoFar(ranked, MergeInto(list, HitAt(ranked, here), TopN), done \cup {here})
<1> DEFINE hit == HitAt(ranked, here)
           all == MergeInto(list, hit, TopN)
           after == done \cup {here}
<1>1. /\ list \in Seq(Hits) /\ NoRepetition(list) /\ Len(list) <= TopN
      /\ FairSoFar(ranked, list, done)
      /\ \A i \in DOMAIN list :
            Covers(ranked, list[i], Found(ranked, DoneOf(ranked, done, list[i].resource)))
  BY DEF MergedSoFar
<1>2. /\ all \in Seq(Hits) /\ NoRepetition(all) /\ Len(all) <= TopN
      /\ Joins(list, hit, all) \/ IsAdded(list, hit, all, TopN) \/ IsLeftOut(list, hit, all, TopN)
  BY <1>1, MergeIntoFacts, ConstantsAssumption
<1>3. \A resource : DoneOf(ranked, after, resource) =
         IF resource = hit.resource THEN DoneOf(ranked, done, resource) \cup {here}
         ELSE DoneOf(ranked, done, resource)
  BY DEF DoneOf
<1>4. DOMAIN list = 1..Len(list) /\ Len(list) \in Nat
  BY <1>1
<1>5. \A i \in DOMAIN list : list[i] \in Hits
  BY <1>1
<1>6. \A resource : here \notin DoneOf(ranked, done, resource)
  BY DEF DoneOf
<1> HIDE DEF hit, all, after
<1>7. CASE Joins(list, hit, all)
  <2>1. PICK i \in DOMAIN list : /\ list[i].resource = hit.resource
                                 /\ Len(all) = Len(list) /\ DOMAIN all = DOMAIN list
                                 /\ all[i] = MergeSources(list[i], hit)
                                 /\ \A j \in DOMAIN list : j # i => all[j] = list[j]
    BY <1>7 DEF Joins
  <2>2. all[i].resource = list[i].resource
    <3>1. list[i] \in Hits /\ hit \in Hits
      BY <1>5 DEF hit
    <3>2. MergeSources(list[i], hit).resource = list[i].resource
      BY <3>1, MergeSourcesFacts
    <3>3. QED BY <2>1, <3>2
  <2>3. \A j \in DOMAIN list : all[j].resource = list[j].resource
    BY <2>1, <2>2
  <2>4. ResourcesOf(all) = ResourcesOf(list) /\ hit.resource \in ResourcesOf(list)
    BY <2>1, <2>3 DEF ResourcesOf
  <2>5. FairSoFar(ranked, all, after)
    BY <1>1, <1>3, <2>1, <2>3, <2>4 DEF FairSoFar, hit, after
  <2>6. ASSUME NEW j \in DOMAIN all
        PROVE  Covers(ranked, all[j], Found(ranked, DoneOf(ranked, after, all[j].resource)))
    <3>1. CASE j = i
      <4>1. Covers(ranked, list[i], Found(ranked, DoneOf(ranked, done, list[i].resource)))
        BY <1>1
      <4>2. Covers(ranked, MergeSources(list[i], hit),
                   Found(ranked, DoneOf(ranked, done, list[i].resource) \cup {here}))
        BY <1>5, <1>6, <4>1, CoversMore DEF hit
      <4>3. QED BY <1>3, <2>1, <2>2, <3>1, <4>2
    <3>2. CASE j # i
      <4>1. all[j] = list[j] /\ list[j].resource # hit.resource
        BY <1>1, <2>1, <3>2 DEF NoRepetition
      <4>2. QED BY <1>1, <1>3, <2>1, <4>1
    <3>3. QED BY <3>1, <3>2
  <2>7. QED BY <1>2, <2>5, <2>6 DEF MergedSoFar, hit, all, after
<1>8. CASE IsAdded(list, hit, all, TopN)
  <2>1. /\ hit.resource \notin ResourcesOf(list)
        /\ Len(list) < TopN /\ DOMAIN all = 1..(Len(list) + 1)
        /\ all[Len(list) + 1] = hit
        /\ \A j \in DOMAIN list : all[j] = list[j]
    BY <1>8 DEF IsAdded
  <2>2. \A j \in DOMAIN all : j \in DOMAIN list \/ j = Len(list) + 1
    BY <1>4, <2>1
  <2>3. \A f \in done : HitAt(ranked, f).resource \in ResourcesOf(list)
    <3>1. Len(list) # TopN
      BY <1>4, <2>1, ConstantsAssumption
    <3>2. QED BY <1>1, <3>1 DEF FairSoFar
  <2>4. DoneOf(ranked, after, hit.resource) = {here}
    <3>1. DoneOf(ranked, done, hit.resource) = {}
      BY <2>1, <2>3 DEF DoneOf
    <3>2. QED BY <1>3, <3>1
  <2>5. ResourcesOf(all) = ResourcesOf(list) \cup {hit.resource}
    <3>1. Len(list) + 1 \in DOMAIN all /\ \A j \in DOMAIN list : j \in DOMAIN all
      BY <1>4, <2>1
    <3>2. QED BY <2>1, <2>2, <3>1 DEF ResourcesOf
  <2>6. FairSoFar(ranked, all, after)
    <3>1. \A f \in after : HitAt(ranked, f).resource \in ResourcesOf(all)
      BY <2>3, <2>5 DEF after, hit
    <3>2. ASSUME NEW i \in DOMAIN all PROVE DoneOf(ranked, after, all[i].resource) # {}
      <4>1. CASE i \in DOMAIN list
        BY <1>1, <1>3, <2>1, <4>1 DEF FairSoFar
      <4>2. CASE i = Len(list) + 1
        BY <2>1, <2>4, <4>2
      <4>3. QED BY <2>2, <4>1, <4>2
    <3>3. QED BY <3>1, <3>2 DEF FairSoFar
  <2>7. ASSUME NEW j \in DOMAIN all
        PROVE  Covers(ranked, all[j], Found(ranked, DoneOf(ranked, after, all[j].resource)))
    <3>1. CASE j \in DOMAIN list
      <4>1. all[j] = list[j] /\ list[j].resource # hit.resource
        BY <2>1, <3>1 DEF ResourcesOf
      <4>2. QED BY <1>1, <1>3, <3>1, <4>1
    <3>2. CASE j = Len(list) + 1
      <4>1. Covers(ranked, hit, Found(ranked, {here}))
        BY CoversFirst DEF hit
      <4>2. QED BY <2>1, <2>4, <3>2, <4>1
    <3>3. QED BY <2>2, <3>1, <3>2
  <2>8. QED BY <1>2, <2>6, <2>7 DEF MergedSoFar, hit, all, after
<1>9. CASE IsLeftOut(list, hit, all, TopN)
  <2>1. hit.resource \notin ResourcesOf(list) /\ Len(list) = TopN /\ all = list
    BY <1>9 DEF IsLeftOut
  <2>2. \A j \in DOMAIN list : list[j].resource # hit.resource
    BY <2>1 DEF ResourcesOf
  <2>3. \A j \in DOMAIN list :
           DoneOf(ranked, after, list[j].resource) = DoneOf(ranked, done, list[j].resource)
    BY <1>3, <2>2
  <2>4. \A taken \in ResourcesOf(list) :
           /\ DoneOf(ranked, after, taken) = DoneOf(ranked, done, taken)
           /\ \E g \in DoneOf(ranked, done, taken) : Before(g, here)
    <3>1. ASSUME NEW j \in DOMAIN list
          PROVE  \E g \in DoneOf(ranked, done, list[j].resource) : Before(g, here)
      <4>1. PICK g \in DoneOf(ranked, done, list[j].resource) : TRUE
        BY <1>1 DEF FairSoFar
      <4>2. Before(g, here)
        BY DEF DoneOf
      <4>3. QED BY <4>2
    <3>2. QED BY <2>3, <3>1 DEF ResourcesOf
  <2>5. FairSoFar(ranked, list, after)
    <3>1. \A f \in done : HitAt(ranked, f).resource \notin ResourcesOf(list) =>
             \A taken \in ResourcesOf(list) :
                \E g \in DoneOf(ranked, done, taken) : Before(g, f)
      BY <1>1 DEF FairSoFar
    <3>2. \A f \in after : HitAt(ranked, f).resource \notin ResourcesOf(list) =>
             \A taken \in ResourcesOf(list) :
                \E g \in DoneOf(ranked, after, taken) : Before(g, f)
      BY <2>4, <3>1 DEF after
    <3>3. \A i \in DOMAIN list : DoneOf(ranked, after, list[i].resource) # {}
      BY <1>1, <2>3 DEF FairSoFar
    <3>4. QED BY <2>1, <3>2, <3>3 DEF FairSoFar
  <2>6. QED BY <1>1, <2>1, <2>3, <2>5 DEF MergedSoFar, hit, all, after
<1>10. QED BY <1>2, <1>7, <1>8, <1>9 DEF hit, all, after

\* The turns of the loop count the places: rank by rank, query by query.
LEMMA Quotient ==
    ASSUME NEW n \in Nat \ {0}, NEW q \in Nat, NEW r \in 0..(n - 1)
    PROVE  (n * q + r) \div n = q /\ (n * q + r) % n = r
OBVIOUS

LEMMA NextPlace ==
    ASSUME NEW n \in Nat \ {0}, NEW t \in Nat
    PROVE  /\ t % n \in 0..(n - 1) /\ t \div n \in Nat
           /\ (t % n) + 1 < n => (t + 1) % n = (t % n) + 1 /\ (t + 1) \div n = t \div n
           /\ ~((t % n) + 1 < n) => (t + 1) % n = 0 /\ (t + 1) \div n = (t \div n) + 1
<1> DEFINE q == t \div n
           r == t % n
<1>1. r \in 0..(n - 1) /\ q \in Nat /\ t = n * q + r
  OBVIOUS
<1> HIDE DEF q, r
<1>2. CASE r + 1 < n
  <2>1. t + 1 = n * q + (r + 1) /\ r + 1 \in 0..(n - 1)
    BY <1>1, <1>2
  <2>2. (n * q + (r + 1)) \div n = q /\ (n * q + (r + 1)) % n = r + 1
    BY <1>1, <2>1, Quotient, Zenon
  <2>3. (t + 1) \div n = q /\ (t + 1) % n = r + 1
    BY <2>1, <2>2, Zenon
  <2>4. QED BY <1>1, <1>2, <2>3 DEF q, r
<1>3. CASE ~(r + 1 < n)
  <2>1. t + 1 = n * (q + 1) + 0 /\ q + 1 \in Nat /\ 0 \in 0..(n - 1)
    BY <1>1, <1>3
  <2>2. (n * (q + 1) + 0) \div n = q + 1 /\ (n * (q + 1) + 0) % n = 0
    BY <2>1, Quotient, Zenon
  <2>3. (t + 1) \div n = q + 1 /\ (t + 1) % n = 0
    BY <2>1, <2>2, Zenon
  <2>4. QED BY <1>1, <1>3, <2>3 DEF q, r
<1>4. QED BY <1>2, <1>3

LEMMA LastPlace ==
    ASSUME NEW n \in Nat \ {0}, NEW k \in Nat
    PROVE  (k * n) % n = 0 /\ (k * n) \div n = k
OBVIOUS

PlaceAt(t, n) == <<(t % n) + 1, (t \div n) + 1>>

LEMMA BeforeNext ==
    ASSUME NEW n \in Nat \ {0}, NEW t \in Nat, NEW f \in (1..n) \X Nat
    PROVE  /\ Before(f, PlaceAt(t + 1, n)) <=> Before(f, PlaceAt(t, n)) \/ f = PlaceAt(t, n)
           /\ ~Before(PlaceAt(t, n), PlaceAt(t, n))
<1> DEFINE q == t % n
           r == t \div n
<1>1. q \in 0..(n - 1) /\ r \in Nat
  BY NextPlace
<1>2. PICK p \in 1..n, i \in Nat : f = <<p, i>>
  OBVIOUS
<1>3. PlaceAt(t, n) = <<q + 1, r + 1>>
  BY DEF PlaceAt
<1>4. PlaceAt(t + 1, n) = IF q + 1 < n THEN <<q + 2, r + 1>> ELSE <<1, r + 2>>
  <2>1. /\ q + 1 < n => (t + 1) % n = q + 1 /\ (t + 1) \div n = r
        /\ ~(q + 1 < n) => (t + 1) % n = 0 /\ (t + 1) \div n = r + 1
    BY NextPlace
  <2> HIDE DEF q, r
  <2>2. QED BY <1>1, <2>1 DEF PlaceAt
<1> HIDE DEF q, r
<1>5. QED BY <1>1, <1>2, <1>3, <1>4 DEF Before
-----------------------------------------------------------------------------
(***************************************************************************)
(* The loop over rankings: the places it has been at before a turn, what   *)
(* a turn does, and what is left when it is over.                          *)
(***************************************************************************)
PlacesIn(ranked) == UNION {{q} \X DOMAIN ranked[q] : q \in DOMAIN ranked}
PlacesUpTo(ranked, turns, n) == {f \in PlacesIn(ranked) : Before(f, PlaceAt(turns, n))}

\* The places of rankings.
LEMMA PlacesFacts ==
    ASSUME NEW n \in Nat, NEW ranked, DOMAIN ranked \subseteq 1..n,
           \A q \in DOMAIN ranked : IsRanking(ranked[q])
    PROVE  \A f \in PlacesIn(ranked) :
              /\ f \in (1..n) \X (1..TopN) /\ f = <<f[1], f[2]>>
              /\ HitAt(ranked, f) \in Hits
              /\ SumOfLengths(HitAt(ranked, f).sections) <= MaxSnippet
<1> SUFFICES ASSUME NEW q \in DOMAIN ranked, NEW i \in DOMAIN ranked[q]
             PROVE  /\ q \in 1..n /\ i \in 1..TopN
                    /\ ranked[q][i] \in Hits /\ SumOfLengths(ranked[q][i].sections) <= MaxSnippet
  BY DEF PlacesIn, HitAt
<1>1. ranked[q] \in Seq(Hits) /\ Len(ranked[q]) <= TopN
      /\ SumOfLengths(ranked[q][i].sections) <= MaxSnippet
  BY DEF IsRanking, Fits
<1>2. DOMAIN ranked[q] = 1..Len(ranked[q]) /\ Len(ranked[q]) \in Nat /\ TopN \in Nat
  BY <1>1, ConstantsAssumption
<1>3. QED BY <1>1, <1>2

\* Before the first turn it has been nowhere.
LEMMA NowhereYet ==
    ASSUME NEW n \in Nat \ {0}, NEW ranked, DOMAIN ranked \subseteq 1..n,
           \A q \in DOMAIN ranked : IsRanking(ranked[q])
    PROVE  PlacesUpTo(ranked, 0, n) = {}
<1>1. PlaceAt(0, n) = <<1, 1>>
  BY DEF PlaceAt
<1>2. \A f \in PlacesIn(ranked) : f \in (1..n) \X (1..TopN)
  BY PlacesFacts
<1>3. \A f \in PlacesIn(ranked) : f[1] \in Nat /\ f[2] \in Nat /\ f[1] >= 1 /\ f[2] >= 1
  BY <1>2, ConstantsAssumption
<1>4. \A f \in PlacesIn(ranked) : ~Before(f, <<1, 1>>)
  BY <1>3 DEF Before
<1>5. QED BY <1>1, <1>4 DEF PlacesUpTo

\* After the last one it has been everywhere.
LEMMA EverywhereThen ==
    ASSUME NEW n \in Nat \ {0}, NEW ranked, DOMAIN ranked \subseteq 1..n,
           \A q \in DOMAIN ranked : IsRanking(ranked[q])
    PROVE  PlacesUpTo(ranked, TopN * n, n) = PlacesIn(ranked)
<1>1. PlaceAt(TopN * n, n) = <<1, TopN + 1>>
  <2>1. TopN \in Nat
    BY ConstantsAssumption
  <2>2. (TopN * n) % n = 0 /\ (TopN * n) \div n = TopN
    BY <2>1, LastPlace
  <2>3. QED BY <2>2 DEF PlaceAt
<1>2. \A f \in PlacesIn(ranked) : f \in (1..n) \X (1..TopN)
  BY PlacesFacts
<1>3. \A f \in PlacesIn(ranked) : f[2] \in Nat /\ f[2] < TopN + 1
  BY <1>2, ConstantsAssumption
<1>4. \A f \in PlacesIn(ranked) : Before(f, <<1, TopN + 1>>)
  BY <1>3 DEF Before
<1>5. QED BY <1>1, <1>4 DEF PlacesUpTo

\* Nothing is promised of a list without an element and places without one.
LEMMA MergedNothing ==
    ASSUME NEW ranked
    PROVE  MergedSoFar(ranked, <<>>, {})
BY ConstantsAssumption DEF MergedSoFar, FairSoFar, NoRepetition

\* One more turn.
LEMMA TakeTurnKeeps ==
    ASSUME NEW n \in Nat \ {0}, NEW ranked, DOMAIN ranked = 1..n, Len(ranked) = n,
           \A q \in DOMAIN ranked : IsRanking(ranked[q]),
           NEW t \in Nat, NEW list, MergedSoFar(ranked, list, PlacesUpTo(ranked, t, n))
    PROVE  MergedSoFar(ranked, TakeTurn(list, ranked, t, TopN), PlacesUpTo(ranked, t + 1, n))
<1> DEFINE here == PlaceAt(t, n)
           ranking == ranked[here[1]]
           after == TakeTurn(list, ranked, t, TopN)
           places == PlacesIn(ranked)
<1>1. here = <<(t % n) + 1, (t \div n) + 1>> /\ here \in (1..n) \X (Nat \ {0})
  <2>1. t % n \in 0..(n - 1) /\ t \div n \in Nat
    BY NextPlace
  <2>2. (t % n) + 1 \in 1..n /\ (t \div n) + 1 \in Nat \ {0}
    BY <2>1
  <2>3. QED BY <2>2 DEF PlaceAt
<1>2. after = IF here[2] > Len(ranking) THEN list
              ELSE MergeInto(list, HitAt(ranked, here), TopN)
  BY <1>1 DEF TakeTurn, HitAt
<1>3. ranking \in Seq(Hits)
  BY <1>1 DEF IsRanking
<1>4. here \in places <=> ~(here[2] > Len(ranking))
  <2>1. here = <<here[1], here[2]>> /\ here[1] \in DOMAIN ranked /\ here[2] \in Nat \ {0}
    BY <1>1
  <2>2. DOMAIN ranking = 1..Len(ranking) /\ Len(ranking) \in Nat
    BY <1>3
  <2> HIDE DEF here
  <2>3. here \in places <=> here[2] \in DOMAIN ranking
    BY <2>1 DEF PlacesIn
  <2>4. QED BY <2>1, <2>2, <2>3
<1>5. /\ \A f \in places : /\ f \in (1..n) \X (1..TopN) /\ HitAt(ranked, f) \in Hits
                           /\ SumOfLengths(HitAt(ranked, f).sections) <= MaxSnippet
  BY PlacesFacts
<1>6. \A f \in places : f \in (1..n) \X Nat
  BY <1>5, ConstantsAssumption
<1>7. /\ \A f \in places : Before(f, PlaceAt(t + 1, n)) <=> Before(f, here) \/ f = here
      /\ ~Before(here, here)
  <2>1. \A f \in places : Before(f, PlaceAt(t + 1, n)) <=> Before(f, here) \/ f = here
    BY <1>6, BeforeNext
  <2>2. ~Before(here, here)
    <3>1. here \in (1..n) \X Nat
      BY <1>1
    <3>2. QED BY <3>1, BeforeNext
  <2>3. QED BY <2>1, <2>2
<1> HIDE DEF here, after, places
<1> DEFINE done == PlacesUpTo(ranked, t, n)
           then == PlacesUpTo(ranked, t + 1, n)
<1>8. then = {f \in places : Before(f, here) \/ f = here} /\ done = {f \in places : Before(f, here)}
  BY <1>7 DEF PlacesUpTo, here, places
<1> HIDE DEF done, then
<1>9. MergedSoFar(ranked, list, done)
  BY DEF done
<1>10. CASE here[2] > Len(ranking)
  <2>1. after = list /\ here \notin places
    BY <1>2, <1>4, <1>10
  <2>2. then = done
    BY <1>8, <2>1
  <2>3. QED BY <1>9, <2>1, <2>2 DEF after, then
<1>11. CASE ~(here[2] > Len(ranking))
  <2>1. after = MergeInto(list, HitAt(ranked, here), TopN) /\ here \in places
    BY <1>2, <1>4, <1>11
  <2>2. then = done \cup {here}
    BY <1>8, <2>1
  <2>3. here \notin done /\ \A f \in done : Before(f, here)
    BY <1>7, <1>8
  <2>4. HitAt(ranked, here) \in Hits /\ SumOfLengths(HitAt(ranked, here).sections) <= MaxSnippet
    BY <1>5, <2>1
  <2>5. MergedSoFar(ranked, MergeInto(list, HitAt(ranked, here), TopN), done \cup {here})
    BY <1>9, <2>3, <2>4, MergingStep
  <2>6. QED BY <2>1, <2>2, <2>5 DEF after, then
<1>12. QED BY <1>10, <1>11

\* RoundRobin is the last of its turns.
LEMMA RoundRobinTurns ==
    ASSUME NEW ranked, NEW turns \in Nat, turns = TopN * Len(ranked)
    PROVE  \E list :
              /\ list[0] = <<>>
              /\ \A t \in 1..turns : list[t] = TakeTurn(list[t - 1], ranked, t - 1, TopN)
              /\ RoundRobin(ranked, TopN) = list[turns]
<1> DEFINE Loop(f, k) == f = [t \in 0..k |-> IF t = 0 THEN <<>>
                                             ELSE TakeTurn(f[t - 1], ranked, t - 1, TopN)]
           P == {k \in 0..turns : \E f : Loop(f, k)}
<1>1. 0 \in P
  <2>1. Loop([n \in 0..0 |-> <<>>], 0)
    OBVIOUS
  <2> HIDE DEF Loop
  <2>2. QED BY <2>1
<1>2. ASSUME NEW k \in 0..(turns - 1), k \in P PROVE k + 1 \in P
  <2>1. PICK f : Loop(f, k)
    BY <1>2
  <2> DEFINE g == [n \in 0..(k + 1) |-> IF n = k + 1 THEN TakeTurn(f[k], ranked, k, TopN) ELSE f[n]]
  <2>2. Loop(g, k + 1)
    <3>1. \A n \in 0..(k + 1) : n # 0 => g[n - 1] = f[n - 1]
      OBVIOUS
    <3>2. ASSUME NEW n \in 0..(k + 1)
          PROVE  g[n] = IF n = 0 THEN <<>> ELSE TakeTurn(g[n - 1], ranked, n - 1, TopN)
      <4>1. CASE n = k + 1
        BY <3>1, <4>1
      <4>2. CASE n # k + 1
        <5>1. n \in 0..k /\ g[n] = f[n]
          BY <4>2
        <5>2. f[n] = IF n = 0 THEN <<>> ELSE TakeTurn(f[n - 1], ranked, n - 1, TopN)
          BY <2>1, <5>1
        <5>3. QED BY <3>1, <5>1, <5>2
      <4>3. QED BY <4>1, <4>2
    <3>3. QED BY <3>2
  <2>3. k + 1 \in 0..turns
    OBVIOUS
  <2> HIDE DEF Loop, g
  <2>4. QED BY <2>2, <2>3
<1>3. \A t \in 0..turns : t \in P
  <2> HIDE DEF P
  <2>1. QED BY <1>1, <1>2, UpTo
<1> DEFINE list == CHOOSE f : Loop(f, turns)
<1>4. Loop(list, turns)
  <2>1. \E f : Loop(f, turns)
    BY <1>3
  <2> HIDE DEF Loop
  <2>2. QED BY <2>1
<1>5. RoundRobin(ranked, TopN) = list[turns]
  BY DEF RoundRobin
<1>6. QED
  <2> HIDE DEF list
  <2>1. list[0] = <<>>
    BY <1>4
  <2>2. ASSUME NEW t \in 1..turns
        PROVE  list[t] = TakeTurn(list[t - 1], ranked, t - 1, TopN)
    BY <1>4
  <2>3. QED BY <1>5, <2>1, <2>2

\* search_queries_in_parallel, for any rankings the reranker can return: a document that is left
\* out found the list full of documents with better places, and a document that is taken in has
\* every chunk found for it unless there are too many.  This is what the agent's search returns.
THEOREM RoundRobinIsFair ==
    ASSUME NEW n \in Nat \ {0}, NEW ranked \in [1..n -> Rankings]
    PROVE  MergedSoFar(ranked, RoundRobin(ranked, TopN), PlacesIn(ranked))
<1> DEFINE turns == TopN * n
<1>1. DOMAIN ranked = 1..n /\ Len(ranked) = n /\ turns \in Nat
  BY ConstantsAssumption
<1>2. \A q \in DOMAIN ranked : IsRanking(ranked[q])
  BY RankingFacts
<1> HIDE DEF turns
<1>3. turns = TopN * Len(ranked)
  BY <1>1 DEF turns
<1>4. PICK list : /\ list[0] = <<>>
                  /\ \A t \in 1..turns : list[t] = TakeTurn(list[t - 1], ranked, t - 1, TopN)
                  /\ RoundRobin(ranked, TopN) = list[turns]
  BY <1>1, <1>3, RoundRobinTurns
<1> DEFINE P == {t \in Nat : MergedSoFar(ranked, list[t], PlacesUpTo(ranked, t, n))}
<1>5. 0 \in P
  <2>1. PlacesUpTo(ranked, 0, n) = {}
    BY <1>1, <1>2, NowhereYet
  <2>2. QED BY <1>4, <2>1, MergedNothing
<1>6. ASSUME NEW t \in 0..(turns - 1), t \in P PROVE t + 1 \in P
  <2>1. t \in Nat /\ t + 1 \in 1..turns /\ (t + 1) - 1 = t
    BY <1>1
  <2>2. MergedSoFar(ranked, list[t], PlacesUpTo(ranked, t, n))
    BY <1>6
  <2>3. MergedSoFar(ranked, TakeTurn(list[t], ranked, t, TopN), PlacesUpTo(ranked, t + 1, n))
    BY <1>1, <1>2, <2>1, <2>2, TakeTurnKeeps
  <2>4. list[t + 1] = TakeTurn(list[t], ranked, t, TopN)
    BY <1>4, <2>1
  <2>5. QED BY <2>1, <2>3, <2>4
<1>7. MergedSoFar(ranked, list[turns], PlacesUpTo(ranked, turns, n))
  <2> HIDE DEF P
  <2>1. \A t \in 0..turns : t \in P
    BY <1>1, <1>5, <1>6, UpTo
  <2>2. turns \in P
    BY <1>1, <2>1
  <2>3. QED BY <2>2 DEF P
<1>8. PlacesUpTo(ranked, turns, n) = PlacesIn(ranked)
  BY <1>1, <1>2, EverywhereThen DEF turns
<1>9. QED BY <1>4, <1>7, <1>8

\* _payload_to_source; top_n documents are all there are.
LEMMA AsSourcesFacts ==
    ASSUME NEW documents \in Seq(Hits), NoRepetition(documents)
    PROVE  /\ AsSources(documents) \in Seq(Sources) /\ NoRepetition(AsSources(documents))
           /\ Len(documents) <= TopN => Len(AsSources(documents)) = Len(documents)
           /\ \A i \in DOMAIN AsSources(documents) :
                 /\ i \in DOMAIN documents
                 /\ AsSources(documents)[i] =
                       [resource |-> documents[i].resource, text |-> documents[i].sections]
<1> DEFINE full == [i \in DOMAIN documents |-> [resource |-> documents[i].resource,
                                                text |-> documents[i].sections]]
           found == AsSources(documents)
<1>1. Len(documents) \in Nat /\ DOMAIN documents = 1..Len(documents) /\ TopN \in Nat
  BY ConstantsAssumption
<1>2. \A i \in DOMAIN documents :
         documents[i].resource \in Resources /\ documents[i].sections \in Seq(Section)
  <2>1. \A i \in DOMAIN documents : documents[i] \in Hits
    OBVIOUS
  <2>2. QED BY <2>1 DEF Hits
<1>3. full \in Seq(Sources) /\ Len(full) = Len(documents) /\ DOMAIN full = DOMAIN documents
  BY <1>1, <1>2 DEF Sources, Texts
<1>4. found = AtMost(full, TopN)
  BY DEF AsSources
<1>5. \A i \in DOMAIN documents :
         /\ full[i] = [resource |-> documents[i].resource, text |-> documents[i].sections]
         /\ full[i].resource = documents[i].resource
  OBVIOUS
<1> HIDE DEF full, found
<1>6. /\ found \in Seq(Sources) /\ Len(found) \in Nat /\ Len(found) <= Len(documents)
      /\ \A i \in 1..Len(found) : found[i] = full[i]
      /\ Len(documents) <= TopN => Len(found) = Len(documents)
  BY <1>1, <1>3, <1>4, AtMostFacts
<1>7. \A i \in DOMAIN found : i \in DOMAIN documents /\ found[i] = full[i]
  BY <1>1, <1>6
<1>8. NoRepetition(found)
  <2>1. \A i \in DOMAIN found : i \in DOMAIN documents /\ found[i].resource = documents[i].resource
    BY <1>5, <1>7
  <2>2. QED BY <2>1 DEF NoRepetition
<1>9. QED BY <1>5, <1>6, <1>7, <1>8 DEF found

\* Whatever a tool finds, each of its documents is there once.
LEMMA FindingsFacts ==
    ASSUME NEW tool \in FindTools, NEW found \in Findings[tool]
    PROVE  found \in Seq(Sources) /\ NoRepetition(found)
<1>1. CASE tool = "search"
  <2>1. PICK n \in 1..MaxSearches : \E lists \in [1..n -> Rankings] :
           found = AsSources(RoundRobin(lists, TopN))
    BY <1>1, ConstantsAssumption DEF SearchResults
  <2>2. n \in Nat \ {0}
    BY ConstantsAssumption
  <2>a. PICK ranked \in [1..n -> Rankings] : found = AsSources(RoundRobin(ranked, TopN))
    BY <2>1
  <2> DEFINE documents == RoundRobin(ranked, TopN)
  <2>3. MergedSoFar(ranked, documents, PlacesIn(ranked))
    BY <2>2, RoundRobinIsFair
  <2> HIDE DEF documents
  <2>4. documents \in Seq(Hits) /\ NoRepetition(documents)
    BY <2>3 DEF MergedSoFar
  <2>5. AsSources(documents) \in Seq(Sources) /\ NoRepetition(AsSources(documents))
    BY <2>4, AsSourcesFacts
  <2>6. QED BY <2>a, <2>5 DEF documents
<1>2. CASE tool = "list"
  BY <1>2, ListingsAssumption DEF NoRepetition
<1>3. QED BY <1>1, <1>2 DEF FindTools

\* A question is searched for at least once, and never more often than is allowed.
LEMMA PlanFacts ==
    ASSUME NEW plan \in Plans
    PROVE  DOMAIN plan = 1..Len(plan) /\ Len(plan) \in 1..MaxSearches
<1>1. PICK expansion \in Expansions :
         plan = SearchQueries(ComputeQueries(Question, Glossary, expansion))
  BY ConstantsAssumption DEF SearchPlans
<1> DEFINE original == Query(Question, Distinct(Glossary \o (IF expansion.ok THEN expansion.aliases
                                                             ELSE <<>>)))
           others == IF expansion.ok THEN expansion.translation \o AtMost(expansion.facets, 3)
                     ELSE <<>>
           more == [i \in DOMAIN others |-> Query(others[i], <<>>)]
           all == <<original>> \o more
           S == {original} \cup {more[i] : i \in DOMAIN more}
           queried == AtMost(Distinct(all), MaxQueries)
<1>2. others \in Seq(STRING)
  <2>1. expansion.translation \in Seq(STRING) /\ expansion.facets \in Seq(STRING)
    BY ExpansionsAssumption
  <2>2. AtMost(expansion.facets, 3) \in Seq(STRING)
    <3> DEFINE words == STRING
               facets == expansion.facets
               most == 3
    <3>1. facets \in Seq(words) /\ most \in Nat
      BY <2>1
    <3> HIDE DEF words, facets, most
    <3>2. AtMost(facets, most) \in Seq(words)
      BY <3>1, AtMostFacts
    <3>3. QED BY <3>2 DEF words, facets, most
  <2>3. expansion.translation \o AtMost(expansion.facets, 3) \in Seq(STRING)
    BY <2>1, <2>2, ConcatProperties, Zenon
  <2>4. <<>> \in Seq(STRING)
    OBVIOUS
  <2>5. QED BY <2>3, <2>4, Zenon
<1>3. ComputeQueries(Question, Glossary, expansion) = queried
  BY DEF ComputeQueries
<1> HIDE DEF original, others
<1>4. more \in Seq(S) /\ original \in S
  BY <1>2
<1> HIDE DEF more, S
<1>5. all \in Seq(S) /\ 1 \in DOMAIN all
  BY <1>4
<1> HIDE DEF all
<1>6. Distinct(all) \in Seq(S) /\ Distinct(all) # <<>>
  <2>1. Distinct(all) \in Seq(S)
        /\ \A i \in DOMAIN all : \E k \in DOMAIN Distinct(all) : Distinct(all)[k] = all[i]
    BY <1>5, DistinctFacts
  <2>2. QED BY <1>5, <2>1
<1>7. queried \in Seq(S) /\ Len(queried) \in Nat
  BY <1>6, AtMostFacts, ConstantsAssumption
<1> HIDE DEF queried
<1>8. CASE Len(queried) <= 2
  <2>1. plan = <<queried>>
    BY <1>1, <1>3, <1>8 DEF SearchQueries
  <2>2. QED BY <2>1, ConstantsAssumption
<1>9. CASE ~(Len(queried) <= 2)
  <2> DEFINE rest == [i \in 1..(Len(queried) - 2) |-> <<queried[i + 2]>>]
             two == SubSeq(queried, 1, 2)
             T == {two} \cup {rest[i] : i \in DOMAIN rest}
             searches == <<two>> \o rest
  <2>1. plan = AtMost(searches, MaxSearches)
    BY <1>1, <1>3, <1>9 DEF SearchQueries
  <2>2. rest \in Seq(T)
    <3>1. Len(queried) - 2 \in Nat
      BY <1>7, <1>9
    <3>2. DOMAIN rest = 1..(Len(queried) - 2) /\ \A i \in DOMAIN rest : rest[i] \in T
      OBVIOUS
    <3>3. rest = [i \in 1..(Len(queried) - 2) |-> rest[i]]
      BY <3>2
    <3> HIDE DEF rest, T
    <3>4. rest \in [1..(Len(queried) - 2) -> T]
      BY <3>2, <3>3
    <3>5. QED BY <3>1, <3>4, SeqDef
  <2> HIDE DEF rest, two
  <2>3. searches \in Seq(T) /\ Len(searches) \in Nat \ {0}
    BY <2>2
  <2> HIDE DEF searches, T
  <2>4. /\ plan \in Seq(T) /\ Len(plan) = Min({MaxSearches, Len(searches)})
        /\ Len(plan) <= MaxSearches
    BY <2>1, <2>3, AtMostFacts, ConstantsAssumption
  <2>5. Min({MaxSearches, Len(searches)}) \in {MaxSearches, Len(searches)}
    <3>1. MaxSearches \in Int /\ Len(searches) \in Int
      BY <2>3, ConstantsAssumption
    <3>2. QED BY <3>1, MinFacts, Zenon
  <2>6. Len(plan) # 0
    BY <2>3, <2>4, <2>5, ConstantsAssumption
  <2>7. QED BY <2>4, <2>6
<1>10. QED BY <1>8, <1>9
-----------------------------------------------------------------------------
(***************************************************************************)
(* Citation numbers.  Every source of the list was shown under its number, *)
(* the list only grows while an attempt lasts, and what is added to it is  *)
(* of documents that are not in it.                                        *)
(***************************************************************************)
NumbersInv ==
    /\ IsList(retrieved)
    /\ OneNumberEach
    /\ CitationsStable
    /\ \A n \in DOMAIN retrieved : [number |-> n, source |-> retrieved[n]] \in shown

\* What a tool, or the search of the single pass, adds.
LEMMA FindKeepsNumbers ==
    ASSUME NumbersInv, NEW found, IsList(found), NoRepetition(found), Find(found)
    PROVE  /\ NumbersInv'
           /\ shown \subseteq shown'
           /\ \A n \in DOMAIN retrieved : n \in DOMAIN retrieved' /\ retrieved'[n] = retrieved[n]
<1>1. PICK more \in NewParts(found) : /\ IsNewPart(more, found, retrieved)
                                      /\ retrieved' = Accumulate(retrieved, more)
                                      /\ shown' = shown \cup Lines(retrieved', found)
  BY DEF Find
<1>2. IsList(more)
  <2>1. PICK n \in Nat : more \in [1..n -> {found[i] : i \in DOMAIN found}]
    BY <1>1 DEF NewParts, IsList
  <2>2. more \in Seq({found[i] : i \in DOMAIN found})
    BY <2>1, SeqDef
  <2>3. QED BY <2>2, ListOfSequence
<1>3. /\ IsList(retrieved')
      /\ DOMAIN retrieved' = 1..(Len(retrieved) + Len(more))
      /\ \A n \in DOMAIN retrieved : n \in DOMAIN retrieved' /\ retrieved'[n] = retrieved[n]
      /\ \A n \in DOMAIN retrieved' \ DOMAIN retrieved :
            n - Len(retrieved) \in DOMAIN more /\ retrieved'[n] = more[n - Len(retrieved)]
  BY <1>1, <1>2, AccumulateAppends DEF NumbersInv
<1>4. \A i \in DOMAIN more : \E j \in DOMAIN found :
         more[i] = found[j] /\ found[j].resource \notin ResourcesOf(retrieved)
  BY <1>1 DEF IsNewPart
<1>5. NoRepetition(more)
  <2> SUFFICES ASSUME NEW i \in DOMAIN more, NEW j \in DOMAIN more, i < j
               PROVE  more[i].resource # more[j].resource
    BY <1>2 DEF NoRepetition, IsList
  <2>1. PICK k \in DOMAIN found, l \in DOMAIN found :
           k < l /\ found[k] = more[i] /\ found[l] = more[j]
    BY <1>1 DEF IsNewPart
  <2>2. QED BY <2>1 DEF NoRepetition, IsList
<1>6. OneNumberEach'
  <2> SUFFICES ASSUME NEW i \in DOMAIN retrieved', NEW j \in DOMAIN retrieved',
                      retrieved'[i].resource = retrieved'[j].resource
               PROVE  i = j
    BY DEF OneNumberEach
  <2>1. CASE i \in DOMAIN retrieved /\ j \in DOMAIN retrieved
    BY <1>3, <2>1 DEF NumbersInv, OneNumberEach
  <2>2. \A m \in DOMAIN retrieved' \ DOMAIN retrieved, n \in DOMAIN retrieved :
           retrieved'[m].resource # retrieved'[n].resource
    BY <1>3, <1>4 DEF ResourcesOf
  <2>3. CASE i \notin DOMAIN retrieved /\ j \notin DOMAIN retrieved
    <3>1. i - Len(retrieved) = j - Len(retrieved)
      BY <1>3, <1>5, <2>3 DEF NoRepetition
    <3>2. QED BY <1>3, <3>1 DEF NumbersInv, IsList
  <2>4. QED BY <2>1, <2>2, <2>3
<1>7. ASSUME NEW line \in Lines(retrieved', found)
      PROVE  /\ line.number \in DOMAIN retrieved'
             /\ retrieved'[line.number].resource = line.source.resource
  BY <1>7 DEF Lines
<1>8. CitationsStable'
  BY <1>1, <1>3, <1>7 DEF NumbersInv, CitationsStable
<1>9. ASSUME NEW n \in DOMAIN retrieved'
      PROVE  [number |-> n, source |-> retrieved'[n]] \in shown'
  <2>1. CASE n \in DOMAIN retrieved
    BY <1>1, <1>3, <2>1 DEF NumbersInv
  <2>2. CASE n \notin DOMAIN retrieved
    <3>1. PICK j \in DOMAIN found : retrieved'[n] = found[j]
      BY <1>3, <1>4, <2>2
    <3>2. <<n, j>> \in {p \in (DOMAIN retrieved') \X (DOMAIN found) :
                           retrieved'[p[1]].resource = found[p[2]].resource}
      BY <3>1
    <3>3. [number |-> n, source |-> found[j]] \in Lines(retrieved', found)
      BY <3>2 DEF Lines
    <3>4. QED BY <1>1, <3>1, <3>3
  <2>3. QED BY <2>1, <2>2
<1>10. QED BY <1>1, <1>3, <1>6, <1>8, <1>9 DEF NumbersInv
-----------------------------------------------------------------------------
(***************************************************************************)
(* The searches of the single pass.  The places the loop has been at are   *)
(* those before the one its turn is at.                                    *)
(***************************************************************************)
DonePlaces == PlacesUpTo(rankings, turn, Len(queries))

SearchInv ==
    /\ turn \in Nat
    /\ DOMAIN queries = 1..Len(queries) /\ Len(queries) \in 0..MaxSearches
    /\ DOMAIN rankings \subseteq DOMAIN queries
    /\ \A q \in DOMAIN rankings : rankings[q] \in Rankings
    /\ merged \in Seq(Hits) /\ NoRepetition(merged)
    /\ phase \in {"routing", "expanding", "searching"} => retrieved = <<>>
    /\ phase \in {"routing", "expanding"} => turn = 0 /\ rankings = <<>> /\ merged = <<>>
    /\ phase = "searching" =>
          /\ Len(queries) # 0
          /\ DOMAIN rankings # DOMAIN queries => turn = 0
          /\ MergedSoFar(rankings, merged, DonePlaces)
    /\ MergedFairly /\ EvidenceKept

\* Before the first turn nothing is merged.
LEMMA NothingDone ==
    ASSUME SearchInv, phase = "searching", turn = 0
    PROVE  merged = <<>>
<1>1. Len(queries) \in Nat \ {0} /\ DOMAIN rankings \subseteq 1..Len(queries)
      /\ \A q \in DOMAIN rankings : IsRanking(rankings[q])
  BY RankingFacts DEF SearchInv
<1>2. DonePlaces = {}
  BY <1>1, NowhereYet DEF DonePlaces
<1>3. merged \in Seq(Hits) /\ \A i \in DOMAIN merged : FALSE
  BY <1>2 DEF SearchInv, MergedSoFar, FairSoFar, DoneOf
<1>4. Len(merged) = 0
  <2>1. Len(merged) \in Nat /\ DOMAIN merged = 1..Len(merged)
    BY <1>3
  <2>2. 1 \notin DOMAIN merged
    BY <1>3
  <2>3. QED BY <2>1, <2>2
<1>5. QED BY <1>3, <1>4

\* A search that returns changes the rankings, and there is nothing done yet.
LEMMA SearchReturnsKeeps ==
    ASSUME SearchInv, NEW q \in DOMAIN queries, NEW ranking \in Rankings, SearchReturns(q, ranking)
    PROVE  SearchInv'
<1>1. phase = "searching" /\ phase' = "searching" /\ turn = 0 /\ q \notin DOMAIN rankings
      /\ rankings' = [p \in DOMAIN rankings \cup {q} |-> IF p = q THEN ranking ELSE rankings[p]]
      /\ UNCHANGED <<queries, turn, merged, retrieved>>
  BY DEF SearchReturns, SearchInv
<1>2. merged = <<>>
  BY <1>1, NothingDone
<1>3. DOMAIN rankings' \subseteq DOMAIN queries' /\ \A p \in DOMAIN rankings' : rankings'[p] \in Rankings
  BY <1>1 DEF SearchInv
<1>4. DonePlaces' = {}
  <2>1. /\ Len(queries) \in Nat \ {0} /\ DOMAIN rankings' \subseteq 1..Len(queries)
        /\ \A p \in DOMAIN rankings' : IsRanking(rankings'[p])
    BY <1>1, <1>3, RankingFacts DEF SearchInv
  <2>2. PlacesUpTo(rankings', 0, Len(queries)) = {}
    BY <2>1, NowhereYet
  <2>3. DonePlaces' = PlacesUpTo(rankings', 0, Len(queries))
    BY <1>1 DEF DonePlaces
  <2>4. QED BY <2>2, <2>3
<1>5. MergedSoFar(rankings', merged', DonePlaces')
  BY <1>1, <1>2, <1>4, MergedNothing
<1>6. MergedFairly' /\ EvidenceKept'
  BY <1>1 DEF MergedFairly, EvidenceKept
<1>7. QED BY <1>1, <1>3, <1>5, <1>6 DEF SearchInv

\* One more turn of the merging loop.
LEMMA TurnKeeps ==
    ASSUME SearchInv, Turn
    PROVE  SearchInv'
<1> DEFINE n == Len(queries)
<1>1. phase = "searching" /\ phase' = "searching" /\ DOMAIN rankings = DOMAIN queries
      /\ turn' = turn + 1 /\ UNCHANGED <<queries, rankings, retrieved>>
      /\ merged' = TakeTurn(merged, rankings, turn, TopN)
  BY DEF Turn
<1>2. /\ n \in Nat \ {0} /\ DOMAIN rankings = 1..n /\ Len(rankings) = n /\ turn \in Nat
      /\ \A q \in DOMAIN rankings : IsRanking(rankings[q])
  BY <1>1, RankingFacts DEF SearchInv
<1>3. MergedSoFar(rankings, merged, PlacesUpTo(rankings, turn, n))
  BY <1>1 DEF SearchInv, DonePlaces
<1>4. MergedSoFar(rankings, TakeTurn(merged, rankings, turn, TopN), PlacesUpTo(rankings, turn + 1, n))
  <2> HIDE DEF n
  <2>1. QED BY <1>2, <1>3, TakeTurnKeeps
<1>5. DonePlaces' = PlacesUpTo(rankings, turn + 1, n)
  BY <1>1 DEF DonePlaces
<1>6. MergedSoFar(rankings', merged', DonePlaces')
  BY <1>1, <1>4, <1>5
<1>7. merged' \in Seq(Hits) /\ NoRepetition(merged')
  BY <1>6 DEF MergedSoFar
<1>8. MergedFairly' /\ EvidenceKept'
  BY <1>1 DEF MergedFairly, EvidenceKept
<1>9. QED BY <1>1, <1>2, <1>6, <1>7, <1>8 DEF SearchInv

\* Sets with a bijection between them count the same.
LEMMA SameCardinality ==
    ASSUME NEW S, IsFiniteSet(S), NEW T, NEW f \in [S -> T],
           \A a, b \in S : f[a] = f[b] => a = b, \A t \in T : \E a \in S : f[a] = t
    PROVE  Cardinality(T) = Cardinality(S)
<1>1. f \in Bijection(S, T)
  BY Fun_IsBij
<1>2. ExistsBijection(S, T)
  BY <1>1, Fun_ExistsBij
<1>3. QED BY <1>2, FS_Bijection

\* A list without a repetition has as many elements as it is long.
LEMMA ElementsCounted ==
    ASSUME NEW list, IsList(list), NoRepetition(list)
    PROVE  Cardinality({list[i] : i \in DOMAIN list}) = Len(list)
<1> DEFINE S == {list[i] : i \in DOMAIN list}
<1>1. list \in [DOMAIN list -> S] /\ Len(list) \in Nat /\ DOMAIN list = 1..Len(list)
  BY DEF IsList
<1>2. \A i, j \in DOMAIN list : list[i] = list[j] => i = j
  BY DEF NoRepetition
<1>3. \A s \in S : \E i \in DOMAIN list : list[i] = s
  OBVIOUS
<1>4. IsFiniteSet(DOMAIN list) /\ Cardinality(DOMAIN list) = Len(list)
  BY <1>1, IntervalFacts
<1> HIDE DEF S
<1>5. Cardinality(S) = Cardinality(DOMAIN list)
  BY <1>1, <1>2, <1>3, <1>4, SameCardinality
<1>6. QED BY <1>4, <1>5 DEF S

\* What is found when there is nothing yet is all there is.
LEMMA FindFirst ==
    ASSUME retrieved = <<>>, NEW found, IsList(found), NoRepetition(found), Find(found),
           NoRepetition(retrieved')
    PROVE  /\ Len(retrieved') = Len(found)
           /\ \A n \in DOMAIN retrieved' : \E i \in DOMAIN found : retrieved'[n] = found[i]
           /\ \A i \in DOMAIN found : \E n \in DOMAIN retrieved' : retrieved'[n] = found[i]
<1>1. PICK more \in NewParts(found) : /\ IsNewPart(more, found, retrieved)
                                      /\ retrieved' = Accumulate(retrieved, more)
  BY DEF Find
<1>2. PICK n \in Nat : more \in [1..n -> {found[i] : i \in DOMAIN found}]
  BY <1>1 DEF NewParts, IsList
<1>3. more \in Seq({found[i] : i \in DOMAIN found})
  BY <1>2, SeqDef
<1>4. retrieved' = more
  BY <1>1, <1>3 DEF Accumulate
<1>5. IsList(more)
  BY <1>3, ListOfSequence
<1>6. ResourcesOf(retrieved) = {}
  BY DEF ResourcesOf
<1>7. {more[i] : i \in DOMAIN more} = {found[i] : i \in DOMAIN found}
  <2>1. {k \in DOMAIN found : found[k].resource \notin ResourcesOf(retrieved)} = DOMAIN found
    BY <1>6
  <2>2. QED BY <1>1, <2>1 DEF IsNewPart
<1>8. Len(more) = Len(found)
  BY <1>4, <1>5, <1>7, ElementsCounted
<1>9. \A i \in DOMAIN more : more[i] \in {found[j] : j \in DOMAIN found}
  BY <1>7
<1>10. \A j \in DOMAIN found : found[j] \in {more[i] : i \in DOMAIN more}
  BY <1>7
<1>11. QED BY <1>4, <1>8, <1>9, <1>10

\* When the loop is over it has been everywhere: the promises of its turns are those of the
\* search.
LEMMA MergedKeeps ==
    ASSUME SearchInv, NumbersInv', Merged, merged # <<>>
    PROVE  SearchInv'
<1> DEFINE n == Len(queries)
           found == AsSources(merged)
<1>1. phase = "searching" /\ DOMAIN rankings = DOMAIN queries /\ turn = TopN * Len(rankings)
      /\ Find(found) /\ phase' = "generating" /\ UNCHANGED <<queries, rankings, turn, merged>>
  BY DEF Merged, searchVars
<1>2. n \in Nat \ {0} /\ Len(rankings) = n /\ retrieved = <<>> /\ TopN \in Nat
  BY <1>1, ConstantsAssumption DEF SearchInv
<1>3. MergedSoFar(rankings, merged, Places)
  <2>1. DOMAIN rankings = 1..n /\ \A q \in DOMAIN rankings : IsRanking(rankings[q])
    BY <1>1, RankingFacts DEF SearchInv
  <2>2. PlacesUpTo(rankings, TopN * n, n) = PlacesIn(rankings)
    <3> HIDE DEF n
    <3>1. QED BY <1>2, <2>1, EverywhereThen
  <2>3. DonePlaces = Places
    BY <1>1, <1>2, <2>2 DEF DonePlaces, PlacesIn, Places
  <2>4. QED BY <1>1, <2>3 DEF SearchInv
<1>4. /\ found \in Seq(Sources) /\ NoRepetition(found) /\ Len(found) = Len(merged)
      /\ DOMAIN found = DOMAIN merged
      /\ \A i \in DOMAIN merged :
            found[i] = [resource |-> merged[i].resource, text |-> merged[i].sections]
  <2>1. Len(merged) <= TopN /\ merged \in Seq(Hits) /\ NoRepetition(merged)
    BY <1>3 DEF MergedSoFar
  <2>2. /\ found \in Seq(Sources) /\ NoRepetition(found) /\ Len(found) = Len(merged)
        /\ \A i \in DOMAIN found :
              found[i] = [resource |-> merged[i].resource, text |-> merged[i].sections]
    BY <2>1, AsSourcesFacts
  <2> HIDE DEF found
  <2>3. DOMAIN found = DOMAIN merged
    BY <2>1, <2>2
  <2>4. QED BY <2>2, <2>3
<1> HIDE DEF found
<1>5. /\ Len(retrieved') = Len(found)
      /\ \A k \in DOMAIN retrieved' : \E i \in DOMAIN found : retrieved'[k] = found[i]
      /\ \A i \in DOMAIN found : \E k \in DOMAIN retrieved' : retrieved'[k] = found[i]
  <2>1. IsList(found)
    BY <1>4, ListOfSequence
  <2>2. NoRepetition(retrieved')
    BY DEF NumbersInv, OneNumberEach, NoRepetition
  <2>3. QED BY <1>1, <1>2, <1>4, <2>1, <2>2, FindFirst
<1>6. ResourcesOf(retrieved') = ResourcesOf(merged)
  <2>1. \A k \in DOMAIN retrieved' : \E i \in DOMAIN merged : retrieved'[k].resource = merged[i].resource
    BY <1>4, <1>5
  <2>2. \A i \in DOMAIN merged : \E k \in DOMAIN retrieved' : retrieved'[k].resource = merged[i].resource
    BY <1>4, <1>5
  <2>3. QED BY <2>1, <2>2 DEF ResourcesOf
<1>7. /\ Places' = Places
      /\ \A f : Document(f)' = HitAt(rankings, f)
      /\ \A r : PlacesOf(r)' = DoneOf(rankings, Places, r)
      /\ \A P : SectionsAt(P)' = Found(rankings, P)
  BY <1>1 DEF Places, Document, HitAt, PlacesOf, DoneOf, SectionsAt, Found
<1>8. MergedFairly'
  <2>1. \A f \in Places : HitAt(rankings, f).resource \notin ResourcesOf(merged) =>
           /\ Len(merged) = TopN
           /\ \A taken \in ResourcesOf(merged) : \E g \in DoneOf(rankings, Places, taken) : Before(g, f)
    BY <1>3 DEF MergedSoFar, FairSoFar
  <2>2. Len(retrieved') = Len(merged)
    BY <1>4, <1>5
  <2>3. QED BY <1>6, <1>7, <2>1, <2>2 DEF MergedFairly
<1>9. EvidenceKept'
  <2>1. ASSUME NEW k \in DOMAIN retrieved'
        PROVE  Covers(rankings, [sections |-> retrieved'[k].text],
                      Found(rankings, DoneOf(rankings, Places, retrieved'[k].resource)))
    <3>1. PICK i \in DOMAIN merged : /\ retrieved'[k].resource = merged[i].resource
                                     /\ retrieved'[k].text = merged[i].sections
      BY <1>4, <1>5
    <3>2. Covers(rankings, merged[i], Found(rankings, DoneOf(rankings, Places, merged[i].resource)))
      BY <1>3 DEF MergedSoFar
    <3>3. QED BY <3>1, <3>2 DEF Covers
  <2>2. QED BY <1>7, <2>1 DEF EvidenceKept, Covers
<1>10. QED BY <1>1, <1>8, <1>9 DEF SearchInv
-----------------------------------------------------------------------------
(***************************************************************************)
(* The whole invariant.  A get_document call keeps the document its number *)
(* had when it started; sources are given only with the outcome.           *)
(***************************************************************************)
CallsInv == /\ DOMAIN calls = Slots
            /\ phase # "tools" => calls = AllIdle
            /\ \A s \in Slots : calls[s].resource # NoResource =>
                  /\ calls[s].number \in DOMAIN retrieved
                  /\ retrieved[calls[s].number].resource = calls[s].resource

OutcomeInv == /\ (status = "none") <=> (phase # "done")
              /\ status = "none" => sources = {}

ChatInv == NumbersInv /\ SearchInv /\ CallsInv /\ OutcomeInv

LEMMA EmptyList == IsList(<<>>) /\ NoRepetition(<<>>)
BY DEF IsList, NoRepetition

\* Before the question is sent anywhere nothing has been searched for.
LEMMA SearchInitially == Init => SearchInv
BY ConstantsAssumption, EmptyList DEF Init, SearchInv, MergedFairly, EvidenceKept

\* What the searches found stays as it is when they are over.
LEMMA SearchKept ==
    ASSUME SearchInv, UNCHANGED searchVars,
           phase' \notin {"routing", "expanding", "searching", "generating"}
    PROVE  SearchInv'
BY DEF SearchInv, searchVars, MergedFairly, EvidenceKept

LEMMA SearchUnchanged ==
    ASSUME SearchInv, UNCHANGED <<searchVars, phase, retrieved>>
    PROVE  SearchInv'
<1>1. UNCHANGED <<queries, rankings, turn, merged, phase, retrieved>>
  BY DEF searchVars
<1>2. /\ Places' = Places
      /\ \A f : Document(f)' = Document(f)
      /\ \A r : PlacesOf(r)' = PlacesOf(r)
      /\ \A P : SectionsAt(P)' = SectionsAt(P)
  BY <1>1 DEF Places, Document, PlacesOf, SectionsAt
<1>3. DonePlaces' = DonePlaces
  BY <1>1 DEF DonePlaces
<1>4. MergedFairly'
  BY <1>1, <1>2 DEF SearchInv, MergedFairly
<1>5. EvidenceKept'
  BY <1>1, <1>2 DEF SearchInv, EvidenceKept
<1>6. QED BY <1>1, <1>3, <1>4, <1>5 DEF SearchInv

LEMMA RouteKeeps ==
    ASSUME SearchInv, NEW matches, Route(matches)
    PROVE  SearchInv'
BY DEF SearchInv, Route, searchVars, MergedFairly, EvidenceKept

LEMMA ExpandKeeps ==
    ASSUME SearchInv, NEW plan \in Plans, Expand(plan)
    PROVE  SearchInv'
<1>1. /\ phase' = "searching" /\ queries' = plan /\ UNCHANGED <<rankings, turn, merged, retrieved>>
      /\ rankings = <<>> /\ turn = 0 /\ merged = <<>> /\ retrieved = <<>>
  BY DEF Expand, SearchInv
<1>2. DOMAIN queries' = 1..Len(queries') /\ Len(queries') \in 1..MaxSearches
  BY <1>1, PlanFacts
<1>3. PlacesIn(rankings') = {}
  BY <1>1 DEF PlacesIn
<1>4. DonePlaces' = {}
  BY <1>3 DEF DonePlaces, PlacesUpTo
<1>5. MergedSoFar(rankings', merged', DonePlaces')
  BY <1>1, <1>4, MergedNothing
<1>6. Len(queries') # 0 /\ Len(queries') \in 0..MaxSearches
  BY <1>2, ConstantsAssumption
<1>7. MergedFairly' /\ EvidenceKept'
  BY <1>1 DEF MergedFairly, EvidenceKept
<1>8. QED BY <1>1, <1>2, <1>5, <1>6, <1>7 DEF SearchInv

\* A question that ends leaves everything but its outcome as it is.
LEMMA FinishKeeps ==
    ASSUME ChatInv, NEW outcome, outcome # "none", Finish(outcome)
    PROVE  ChatInv'
<1>1. UNCHANGED <<retrieved, shown, searchVars>> /\ phase' = "done"
      /\ calls' = AllIdle /\ status' = outcome
  BY DEF Finish
<1>2. NumbersInv'
  BY <1>1 DEF ChatInv, NumbersInv, OneNumberEach, CitationsStable
<1>3. SearchInv'
  BY <1>1, SearchKept DEF ChatInv
<1>4. CallsInv'
  BY <1>1 DEF CallsInv, AllIdle, Idle
<1>5. OutcomeInv'
  BY <1>1 DEF OutcomeInv
<1>6. QED BY <1>2, <1>3, <1>4, <1>5 DEF ChatInv

LEMMA ChatInvariant == Spec => []ChatInv
<1>1. Init => ChatInv
  <2> SUFFICES ASSUME Init PROVE ChatInv
    OBVIOUS
  <2>1. NumbersInv /\ SearchInv
    BY EmptyList, SearchInitially DEF Init, NumbersInv, OneNumberEach, CitationsStable
  <2>2. CallsInv /\ OutcomeInv
    BY DEF Init, CallsInv, OutcomeInv, AllIdle, Idle
  <2>3. QED BY <2>1, <2>2 DEF ChatInv
<1>2. ChatInv /\ [Next]_vars => ChatInv'
  <2> SUFFICES ASSUME ChatInv, [Next]_vars PROVE ChatInv'
    OBVIOUS
  <2> USE DEF ChatInv
  <2>1. ASSUME UNCHANGED <<retrieved, shown>> PROVE NumbersInv'
    BY <2>1 DEF NumbersInv, OneNumberEach, CitationsStable
  <2>2. ASSUME UNCHANGED <<retrieved, calls>>, phase' # "tools" \/ phase = "tools",
               phase = "tools" => phase' = "tools"
        PROVE  CallsInv'
    BY <2>2 DEF CallsInv
  <2>3. ASSUME UNCHANGED <<status, sources>>, phase # "done", phase' # "done" PROVE OutcomeInv'
    BY <2>3 DEF OutcomeInv
  <2>4. ASSUME UNCHANGED searchVars, phase' \in {"model", "tools", "backoff", "done"}
        PROVE  SearchInv'
    BY <2>4, SearchKept
  <2>5. ASSUME NEW matches, Route(matches) PROVE ChatInv'
    <3>1. phase = "routing" /\ phase' \in {"expanding", "model"}
          /\ UNCHANGED <<searchVars, retrieved, shown, calls, status, sources>>
      BY <2>5 DEF Route
    <3>2. QED BY <2>5, <3>1, <2>1, <2>2, <2>3, RouteKeeps
  <2>6. ASSUME NEW plan \in Plans, Expand(plan) PROVE ChatInv'
    <3>1. SearchInv'
      BY <2>6, ExpandKeeps
    <3>2. QED BY <2>6, <3>1, <2>1, <2>2, <2>3 DEF Expand
  <2>7. ASSUME NEW q \in DOMAIN queries, NEW ranking \in Rankings, SearchReturns(q, ranking)
        PROVE  ChatInv'
    <3>1. SearchInv'
      BY <2>7, SearchReturnsKeeps
    <3>2. QED BY <2>7, <3>1, <2>1, <2>2, <2>3 DEF SearchReturns
  <2>8. ASSUME Turn PROVE ChatInv'
    <3>1. SearchInv'
      BY <2>8, TurnKeeps
    <3>2. QED BY <2>8, <3>1, <2>1, <2>2, <2>3 DEF Turn
  <2>9. ASSUME Merged PROVE ChatInv'
    <3>1. CASE merged = <<>>
      BY <2>9, <3>1, FinishKeeps DEF Merged
    <3>2. CASE merged # <<>>
      <4>1. Find(AsSources(merged)) /\ phase = "searching" /\ phase' = "generating"
            /\ UNCHANGED <<searchVars, calls, status, sources>>
        BY <2>9, <3>2 DEF Merged
      <4>2. NumbersInv'
        <5>1. IsList(AsSources(merged)) /\ NoRepetition(AsSources(merged))
          BY AsSourcesFacts, ListOfSequence DEF SearchInv
        <5>2. QED BY <4>1, <5>1, FindKeepsNumbers
      <4>3. SearchInv' /\ OutcomeInv'
        BY <2>9, <3>2, <4>1, <4>2, <2>3, MergedKeeps
      <4>4. CallsInv'
        BY <4>1 DEF CallsInv, AllIdle, Idle
      <4>5. QED BY <4>2, <4>3, <4>4
    <3>3. QED BY <3>1, <3>2
  <2>10. ASSUME NEW cited, NEW lines, Answer(cited, lines) PROVE ChatInv'
    BY <2>10, FinishKeeps DEF Answer
  <2>11. ASSUME NEW outcome, outcome # "none", Fail(outcome) PROVE ChatInv'
    BY <2>11, FinishKeeps DEF Fail
  <2>12. ASSUME NEW primary \in {"ok", "unavailable", "error"},
                NEW fallback \in {"ok", "unavailable", "error"},
                NEW cited, NEW lines, SinglePassGenerate(primary, fallback, cited, lines)
         PROVE  ChatInv'
    BY <2>12, <2>10, <2>11 DEF SinglePassGenerate, Generated
  <2>13. ASSUME SearchFails \/ RequestLimitReached PROVE ChatInv'
    BY <2>13, <2>11 DEF SearchFails, RequestLimitReached
  <2>14. ASSUME NEW started \in [Slots -> StartedCalls], ModelCallsTools(started)
         PROVE  ChatInv'
    <3>1. CallsInv'
      <4>1. \A s \in Slots : started[s].resource # NoResource =>
               /\ started[s].number \in DOMAIN retrieved
               /\ retrieved[started[s].number].resource = started[s].resource
        BY DEF StartedCalls, Idle
      <4>2. QED BY <2>14, <4>1 DEF ModelCallsTools, CallsInv
    <3>2. QED BY <2>14, <3>1, <2>1, <2>3, <2>4 DEF ModelCallsTools, AsksModel
  <2>15. ASSUME NEW cited, NEW lines, ModelAnswers(cited, lines) PROVE ChatInv'
    BY <2>15, <2>10 DEF ModelAnswers
  <2>16. ASSUME NEW causes, ModelFails(causes) PROVE ChatInv'
    <3>1. CASE Fail("error") \/ Fail("unavailable")
      BY <3>1, <2>11
    <3>2. CASE phase = "model" /\ phase' = "backoff"
               /\ UNCHANGED <<searchVars, retrieved, shown, calls, status, sources>>
      BY <3>2, <2>1, <2>2, <2>3, <2>4
    <3>3. QED BY <2>16, <3>1, <3>2 DEF ModelFails, AsksModel
  <2>17. ASSUME Retry PROVE ChatInv'
    <3>1. NumbersInv'
      BY <2>17, EmptyList DEF Retry, NumbersInv, OneNumberEach, CitationsStable
    <3>2. CallsInv'
      BY <2>17 DEF Retry, CallsInv, AllIdle, Idle
    <3>3. QED BY <2>17, <3>1, <3>2, <2>3, <2>4 DEF Retry
  <2>18. ASSUME NEW s \in Slots, EndCall(s), phase = "tools",
                \A n \in DOMAIN retrieved : n \in DOMAIN retrieved' /\ retrieved'[n] = retrieved[n]
         PROVE  CallsInv' /\ SearchInv' /\ OutcomeInv'
    <3>1. calls' = [calls EXCEPT ![s] = Idle] /\ phase' \in {"model", "tools"}
          /\ (phase' # "tools" => calls' = AllIdle) /\ UNCHANGED <<searchVars, status, sources>>
      BY <2>18 DEF EndCall
    <3>2. CallsInv'
      BY <2>18, <3>1 DEF CallsInv, Idle
    <3>3. QED BY <2>18, <3>1, <3>2, <2>3, <2>4
  <2>19. ASSUME NEW s \in Slots, NEW found, FindReturns(s, found) PROVE ChatInv'
    <3>1. IsList(found) /\ NoRepetition(found)
      BY <2>19, FindingsFacts, ListOfSequence DEF FindReturns
    <3>2. NumbersInv'
          /\ \A n \in DOMAIN retrieved : n \in DOMAIN retrieved' /\ retrieved'[n] = retrieved[n]
      BY <2>19, <3>1, FindKeepsNumbers DEF FindReturns
    <3>3. QED BY <2>18, <2>19, <3>2 DEF FindReturns
  <2>20. ASSUME NEW s \in Slots, CountReturns(s) PROVE ChatInv'
    BY <2>1, <2>18, <2>20 DEF CountReturns
  <2>21. ASSUME NEW s \in Slots, NEW stored, GetReturns(s, stored) PROVE ChatInv'
    <3>1. UNCHANGED retrieved /\ phase = "tools" /\ EndCall(s)
      BY <2>21 DEF GetReturns
    <3>2. \A line \in shown' : line \in shown
             \/ /\ calls[s].resource # NoResource
                /\ line.number = calls[s].number /\ line.source.resource = calls[s].resource
      BY <2>21 DEF GetReturns
    <3>3. shown \subseteq shown'
      BY <2>21 DEF GetReturns
    <3>4. CitationsStable'
      BY <3>1, <3>2 DEF NumbersInv, CitationsStable, CallsInv
    <3>5. NumbersInv'
      BY <3>1, <3>3, <3>4 DEF NumbersInv, OneNumberEach
    <3>6. QED BY <2>18, <3>1, <3>5
  <2>22. ASSUME NEW s \in Slots, ToolFails(s) PROVE ChatInv'
    BY <2>11, <2>22 DEF ToolFails
  <2>23. ASSUME UNCHANGED vars PROVE ChatInv'
    <3>1. SearchInv'
      BY <2>23, SearchUnchanged DEF vars
    <3>2. QED BY <2>23, <2>1, <3>1 DEF vars, searchVars, CallsInv, OutcomeInv
  <2>24. QED
    BY <2>5, <2>6, <2>7, <2>8, <2>9, <2>12, <2>13, <2>14, <2>15, <2>16, <2>17, <2>19, <2>20,
       <2>21, <2>22, <2>23 DEF Next
<1>3. QED BY <1>1, <1>2, PTL DEF Spec

-----------------------------------------------------------------------------
(***************************************************************************)
(* Types.  Requests and retries are counted up to their limits.            *)
(***************************************************************************)
ControlOK ==
    /\ phase \in {"routing", "expanding", "searching", "generating", "model", "tools",
                  "backoff", "done"}
    /\ attempt \in 0..MaxRetries /\ requests \in 0..RequestLimit
    /\ phase = "backoff" => attempt # MaxRetries
    /\ status \in {"none", "answered", "invalid", "unavailable", "error"}

ShownOK ==
    /\ retrieved \in Seq(Sources)
    /\ shown \in SUBSET [number : Nat, source : Sources]
    /\ calls \in [Slots -> Call]
    /\ sources \in SUBSET Sources

TypeInv == ControlOK /\ ShownOK

LEMMA TypesFollow == ChatInv /\ TypeInv => TypeOK
BY ConstantsAssumption DEF ChatInv, SearchInv, TypeInv, ControlOK, ShownOK, TypeOK

\* What is found has the types of a source, and so has what is shown of it.
LEMMA FindTyped ==
    ASSUME NEW found \in Seq(Sources), Find(found), ShownOK
    PROVE  retrieved' \in Seq(Sources) /\ shown' \in SUBSET [number : Nat, source : Sources]
<1>1. PICK more \in NewParts(found) : /\ retrieved' = Accumulate(retrieved, more)
                                      /\ shown' = shown \cup Lines(retrieved', found)
  BY DEF Find
<1>2. \A i \in DOMAIN found : found[i] \in Sources
  OBVIOUS
<1>3. more \in Seq(Sources)
  <2>1. PICK n \in Nat : more \in [1..n -> {found[i] : i \in DOMAIN found}]
    <3>1. Len(found) \in Nat
      OBVIOUS
    <3>2. QED BY <1>1, <3>1 DEF NewParts
  <2>2. more \in [1..n -> Sources]
    BY <1>2, <2>1
  <2>3. QED BY <2>2, SeqDef
<1>4. retrieved' \in Seq(Sources)
  BY <1>1, <1>3 DEF Accumulate, ShownOK
<1>5. Lines(retrieved', found) \in SUBSET [number : Nat, source : Sources]
  <2>1. \A n \in DOMAIN retrieved' : n \in Nat
    BY <1>4
  <2>2. QED BY <1>2, <2>1 DEF Lines
<1>6. QED BY <1>1, <1>4, <1>5 DEF ShownOK

\* An answer cites sources of the list.
LEMMA AnswerTyped ==
    ASSUME ShownOK, NEW cited, NEW lines, Answer(cited, lines)
    PROVE  sources' \in SUBSET Sources
<1>1. \A n \in DOMAIN retrieved : retrieved[n] \in Sources
  BY DEF ShownOK
<1>2. SelectCited(retrieved, cited) \in SUBSET Sources
  BY <1>1 DEF SelectCited
<1>3. QED BY <1>2 DEF Answer

LEMMA IdleCalls == Idle \in Call /\ AllIdle \in [Slots -> Call]
BY DEF Idle, Call, AllIdle

LEMMA TypeInvariant == Spec => []TypeInv
<1>1. Init => TypeInv
  BY IdleCalls, ConstantsAssumption DEF Init, TypeInv, ControlOK, ShownOK
<1>2. ChatInv /\ TypeInv /\ [Next]_vars => TypeInv'
  <2> SUFFICES ASSUME ChatInv, TypeInv, [Next]_vars PROVE TypeInv'
    OBVIOUS
  <2> USE DEF TypeInv
  <2>1. ASSUME NEW outcome \in {"answered", "invalid", "unavailable", "error"}, Finish(outcome),
               sources' \in SUBSET Sources
        PROVE  TypeInv'
    BY <2>1, IdleCalls DEF Finish, ControlOK, ShownOK
  <2>2. ASSUME NEW outcome \in {"unavailable", "error"}, Fail(outcome) PROVE TypeInv'
    BY <2>1, <2>2 DEF Fail, ShownOK
  <2>3. ASSUME NEW cited, NEW lines, Answer(cited, lines) PROVE TypeInv'
    <3>1. PICK outcome \in {"answered", "invalid"} : Finish(outcome)
      BY <2>3 DEF Answer
    <3>2. QED BY <2>1, <2>3, <3>1, AnswerTyped
  <2>4. ASSUME \/ \E matches \in SUBSET Patterns : Route(matches)
               \/ \E plan \in Plans : Expand(plan)
               \/ \E q \in DOMAIN queries, ranking \in Rankings : SearchReturns(q, ranking)
               \/ Turn
        PROVE  TypeInv'
    BY <2>4 DEF Route, Expand, SearchReturns, Turn, ControlOK, ShownOK
  <2>5. ASSUME Merged PROVE TypeInv'
    <3>1. CASE merged = <<>>
      BY <2>1, <2>5, <3>1 DEF Merged
    <3>2. CASE merged # <<>>
      <4>1. AsSources(merged) \in Seq(Sources)
        BY AsSourcesFacts DEF ChatInv, SearchInv
      <4>2. Find(AsSources(merged)) /\ phase' = "generating"
            /\ UNCHANGED <<attempt, requests, calls, status, sources>>
        BY <2>5, <3>2 DEF Merged
      <4>3. retrieved' \in Seq(Sources) /\ shown' \in SUBSET [number : Nat, source : Sources]
        BY <4>1, <4>2, FindTyped
      <4>4. QED BY <4>2, <4>3 DEF ControlOK, ShownOK
    <3>3. QED BY <3>1, <3>2
  <2>6. ASSUME NEW primary \in {"ok", "unavailable", "error"},
               NEW fallback \in {"ok", "unavailable", "error"},
               NEW cited, NEW lines, SinglePassGenerate(primary, fallback, cited, lines)
        PROVE  TypeInv'
    BY <2>2, <2>3, <2>6 DEF SinglePassGenerate, Generated
  <2>7. ASSUME SearchFails \/ RequestLimitReached \/ \E s \in Slots : ToolFails(s)
        PROVE  TypeInv'
    BY <2>2, <2>7 DEF SearchFails, RequestLimitReached, ToolFails
  <2>8. ASSUME NEW started \in [Slots -> StartedCalls], ModelCallsTools(started)
        PROVE  TypeInv'
    <3>1. StartedCalls \in SUBSET Call
      <4>1. \A n \in DOMAIN retrieved : retrieved[n].resource \in Resources
        <5>1. \A n \in DOMAIN retrieved : retrieved[n] \in Sources
          BY DEF ShownOK
        <5>2. QED BY <5>1 DEF Sources
      <4>2. Numbers \in SUBSET Nat
        <5>1. Len(retrieved) \in Nat
          BY DEF ShownOK
        <5>2. QED BY <5>1 DEF Numbers
      <4>3. QED BY <4>1, <4>2, IdleCalls DEF StartedCalls, Call, FindTools
    <3>2. calls' \in [Slots -> Call]
      BY <2>8, <3>1 DEF ModelCallsTools
    <3>3. requests' \in 0..RequestLimit
      BY <2>8, ConstantsAssumption DEF ModelCallsTools, AsksModel, ControlOK
    <3>4. QED BY <2>8, <3>2, <3>3 DEF ModelCallsTools, AsksModel, ControlOK, ShownOK
  <2>9. ASSUME NEW cited, NEW lines, ModelAnswers(cited, lines) PROVE TypeInv'
    BY <2>3, <2>9 DEF ModelAnswers
  <2>10. ASSUME NEW causes, ModelFails(causes) PROVE TypeInv'
    <3>1. CASE Fail("error") \/ Fail("unavailable")
      BY <2>2, <3>1
    <3>2. CASE attempt # MaxRetries /\ phase' = "backoff"
               /\ UNCHANGED <<attempt, requests, searchVars, retrieved, shown, calls, status, sources>>
      BY <3>2 DEF ControlOK, ShownOK
    <3>3. QED BY <2>10, <3>1, <3>2 DEF ModelFails
  <2>11. ASSUME Retry PROVE TypeInv'
    <3>1. attempt' \in 0..MaxRetries /\ requests' \in 0..RequestLimit
      BY <2>11, ConstantsAssumption DEF Retry, ControlOK
    <3>2. QED BY <2>11, <3>1 DEF Retry, ControlOK, ShownOK
  <2>12. ASSUME NEW s \in Slots, EndCall(s),
                retrieved' \in Seq(Sources), shown' \in SUBSET [number : Nat, source : Sources]
         PROVE  TypeInv'
    BY <2>12, IdleCalls DEF EndCall, ControlOK, ShownOK
  <2>13. ASSUME NEW s \in Slots, NEW found, FindReturns(s, found) PROVE TypeInv'
    <3>1. found \in Seq(Sources)
      BY <2>13, FindingsFacts DEF FindReturns
    <3>2. QED BY <2>12, <2>13, <3>1, FindTyped DEF FindReturns
  <2>14. ASSUME NEW s \in Slots, CountReturns(s) PROVE TypeInv'
    BY <2>12, <2>14 DEF CountReturns, ShownOK
  <2>15. ASSUME NEW s \in Slots, NEW stored, GetReturns(s, stored) PROVE TypeInv'
    <3>1. calls[s] \in Call
      BY DEF ShownOK
    <3>2. calls[s].resource # NoResource =>
             [number |-> calls[s].number,
              source |-> [resource |-> calls[s].resource, text |-> FullText]]
                \in [number : Nat, source : Sources]
      BY <3>1 DEF Call, Sources, Texts
    <3>3. shown' \in SUBSET [number : Nat, source : Sources]
      BY <2>15, <3>2 DEF GetReturns, ShownOK
    <3>4. QED BY <2>12, <2>15, <3>3 DEF GetReturns, ShownOK
  <2>16. ASSUME UNCHANGED vars PROVE TypeInv'
    BY <2>16 DEF vars, ControlOK, ShownOK
  <2>17. QED
    BY <2>4, <2>5, <2>6, <2>7, <2>8, <2>9, <2>10, <2>11, <2>13, <2>14, <2>15, <2>16 DEF Next
<1>3. QED BY <1>1, <1>2, ChatInvariant, PTL DEF Spec

\* The state keeps its types: an attempt makes at most request_limit requests, there are at most
\* max_retries retries, and every source that is listed, shown or cited is one of a document.
THEOREM TypeCorrect == Spec => []TypeOK
BY TypesFollow, ChatInvariant, TypeInvariant, PTL

\* Round-robin (search_queries_in_parallel): a document is left out of the single pass only when
\* the list is full and every document in it has a better place in some ranking, or the same
\* in an earlier one: for any number of searches and any rankings.
THEOREM NoTopicCrowdsOut == Spec => []MergedFairly
<1>1. ChatInv => MergedFairly
  BY DEF ChatInv, SearchInv
<1>2. QED BY <1>1, ChatInvariant, PTL

\* What the model reads of a document fits into a ChatSource and, unless more was found than a
\* snippet has sections for, has every chunk that any of the searches found
\* (merge_chat_sources), whatever the lengths: for any number of searches and any rankings.
THEOREM EvidenceIsKept == Spec => []EvidenceKept
<1>1. ChatInv => EvidenceKept
  BY DEF ChatInv, SearchInv
<1>2. QED BY <1>1, ChatInvariant, PTL

\* A number that was shown to the model keeps its document, whatever tools run beside.
THEOREM CitationsKeepTheirMeaning == Spec => []CitationsStable
<1>1. ChatInv => CitationsStable
  BY DEF ChatInv, NumbersInv
<1>2. QED BY <1>1, ChatInvariant, PTL

\* No document is in the list of sources under two numbers.
THEOREM DocumentsHaveOneNumber == Spec => []OneNumberEach
<1>1. ChatInv => OneNumberEach
  BY DEF ChatInv, NumbersInv
<1>2. QED BY <1>1, ChatInvariant, PTL
-----------------------------------------------------------------------------
(***************************************************************************)
(* The chat implements GroundedAnswer.                                     *)
(***************************************************************************)
Evidence == {line.source : line \in shown}
Outcome == IF status = "none" THEN "none"
           ELSE IF status = "answered" THEN "answered" ELSE "failed"

\* A step that gives no outcome gathers evidence.
LEMMA GatherStep ==
    ASSUME OutcomeInv, phase # "done", UNCHANGED <<status, sources>>,
           shown \subseteq shown' \/ shown' = {}
    PROVE  Ground!Gather
<1>1. Evidence \subseteq Evidence' \/ Evidence' = {}
  BY DEF Evidence
<1>2. QED BY <1>1 DEF Ground!Gather, Evidence, OutcomeInv

\* One that gives an outcome cites what was shown, or nothing.
LEMMA SettleStep ==
    ASSUME OutcomeInv, phase # "done", UNCHANGED shown, NEW outcome, outcome # "none",
           status' = outcome, sources' \in SUBSET Evidence, outcome # "answered" => sources' = {}
    PROVE  Ground!Settle
BY DEF Ground!Settle, Evidence, OutcomeInv

LEMMA CitedIsEvidence ==
    ASSUME NumbersInv, NEW cited
    PROVE  SelectCited(retrieved, cited) \in SUBSET Evidence
<1> SUFFICES ASSUME NEW n \in DOMAIN retrieved PROVE retrieved[n] \in Evidence
  BY DEF SelectCited
<1>1. [number |-> n, source |-> retrieved[n]] \in shown
  BY DEF NumbersInv
<1>2. QED BY <1>1 DEF Evidence

\* An answer rests on what the attempt that gave it was shown.
THEOREM AnswersAreGrounded == Spec => Grounded
<1>1. Init => Ground!GroundInit
  BY DEF Init, Ground!GroundInit
<1>2. ChatInv /\ [Next]_vars => [Ground!Gather \/ Ground!Settle]_(Ground!groundVars)
  <2> SUFFICES ASSUME ChatInv, [Next]_vars
               PROVE  Ground!Gather \/ Ground!Settle \/ UNCHANGED Ground!groundVars
    OBVIOUS
  <2> USE DEF ChatInv
  <2>1. ASSUME NEW outcome \in {"unavailable", "error"}, phase # "done", Fail(outcome)
        PROVE  Ground!Settle
    BY <2>1, SettleStep DEF Fail, Finish, OutcomeInv
  <2>2. ASSUME NEW cited, NEW lines, phase # "done", Answer(cited, lines)
        PROVE  Ground!Settle
    <3>1. PICK valid \in BOOLEAN :
             /\ Finish(IF valid THEN "answered" ELSE "invalid")
             /\ sources' = IF valid THEN SelectCited(retrieved, cited) ELSE {}
      BY <2>2 DEF Answer
    <3>2. QED BY <2>2, <3>1, CitedIsEvidence, SettleStep DEF Finish
  <2>3. ASSUME \/ \E matches \in SUBSET Patterns : Route(matches)
               \/ \E plan \in Plans : Expand(plan)
               \/ \E q \in DOMAIN queries, ranking \in Rankings : SearchReturns(q, ranking)
               \/ Turn \/ Retry
               \/ \E started \in [Slots -> StartedCalls] : ModelCallsTools(started)
        PROVE  Ground!Gather
    BY <2>3, GatherStep DEF Route, Expand, SearchReturns, Turn, Retry, ModelCallsTools, AsksModel
  <2>4. ASSUME Merged PROVE Ground!Gather \/ Ground!Settle
    <3>1. CASE merged = <<>>
      BY <2>4, <3>1, SettleStep DEF Merged, Finish
    <3>2. CASE merged # <<>>
      <4>1. IsList(AsSources(merged)) /\ NoRepetition(AsSources(merged))
        BY AsSourcesFacts, ListOfSequence DEF ChatInv, SearchInv
      <4>2. QED BY <2>4, <3>2, <4>1, FindKeepsNumbers, GatherStep DEF Merged
    <3>3. QED BY <3>1, <3>2
  <2>5. ASSUME NEW primary \in {"ok", "unavailable", "error"},
               NEW fallback \in {"ok", "unavailable", "error"},
               NEW cited, NEW lines, SinglePassGenerate(primary, fallback, cited, lines)
        PROVE  Ground!Settle
    BY <2>1, <2>2, <2>5 DEF SinglePassGenerate, Generated
  <2>6. ASSUME SearchFails \/ RequestLimitReached \/ \E s \in Slots : ToolFails(s)
        PROVE  Ground!Settle
    BY <2>1, <2>6 DEF SearchFails, RequestLimitReached, ToolFails
  <2>7. ASSUME NEW cited, NEW lines, ModelAnswers(cited, lines) PROVE Ground!Settle
    BY <2>2, <2>7 DEF ModelAnswers, AsksModel
  <2>8. ASSUME NEW causes, ModelFails(causes) PROVE Ground!Gather \/ Ground!Settle
    <3>1. CASE Fail("error") \/ Fail("unavailable")
      BY <2>1, <2>8, <3>1 DEF ModelFails, AsksModel
    <3>2. CASE UNCHANGED <<shown, status, sources>>
      BY <2>8, <3>2, GatherStep DEF ModelFails, AsksModel
    <3>3. QED BY <2>8, <3>1, <3>2 DEF ModelFails
  <2>9. ASSUME NEW s \in Slots, NEW found, FindReturns(s, found) PROVE Ground!Gather
    <3>1. IsList(found) /\ NoRepetition(found)
      BY <2>9, FindingsFacts, ListOfSequence DEF FindReturns
    <3>2. QED BY <2>9, <3>1, FindKeepsNumbers, GatherStep DEF FindReturns, EndCall
  <2>10. ASSUME NEW s \in Slots, NEW stored, CountReturns(s) \/ GetReturns(s, stored)
         PROVE  Ground!Gather
    BY <2>10, GatherStep DEF CountReturns, GetReturns, EndCall
  <2>11. ASSUME UNCHANGED vars PROVE UNCHANGED Ground!groundVars
    BY <2>11 DEF vars, Ground!groundVars
  <2>12. QED
    BY <2>3, <2>4, <2>5, <2>6, <2>7, <2>8, <2>9, <2>10, <2>11 DEF Next
<1>3. QED BY <1>1, <1>2, ChatInvariant, PTL DEF Spec, Grounded, Ground!GroundSpec
=============================================================================
