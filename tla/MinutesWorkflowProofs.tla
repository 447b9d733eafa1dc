----------------------- MODULE MinutesWorkflowProofs -----------------------
(***************************************************************************)
(* Proofs about the minutes workflow, for any meetings, any evidence the   *)
(* models may find and any number of attempts.                             *)
(*                                                                         *)
(* The lists of the pipelines are what is at some places of others         *)
(* (Selection): the first lemmas say what such a list has.  WorkflowInv is *)
(* inductive; it makes the minutes a function of the evidence and of the   *)
(* marked segments, and what that function promises is proved step by step *)
(* along the pipelines: refine, draft, finalize, show.                     *)
(***************************************************************************)
EXTENDS MinutesWorkflow, FiniteSetTheorems, FunctionTheorems, TLAPS

\* A set of natural numbers with an element has a least one.
LEMMA LeastNatural ==
    ASSUME NEW S \in SUBSET Nat, S # {}
    PROVE  \E m \in S : \A k \in S : m <= k
<1>1. PICK m \in S : \A k \in S : ~(<<k, m>> \in OpToRel(<, Nat))
  BY NatLessThanWellFounded, WFMin, Zenon
<1>2. \A k \in S : ~(k < m)
  BY <1>1, Zenon DEF OpToRel
<1>3. QED BY <1>2

\* The interval from 1 to n counts n.
LEMMA IntervalFacts ==
    ASSUME NEW n \in Nat
    PROVE  IsFiniteSet(1..n) /\ Cardinality(1..n) = n
<1>1. 1 \in Int /\ n \in Int
  OBVIOUS
<1>2. /\ IsFiniteSet(1..n)
      /\ Cardinality(1..n) = IF 1 > n THEN 0 ELSE n - 1 + 1
  BY <1>1, FS_Interval, Zenon
<1>3. QED BY <1>2

\* How many of some places are not above k.
Rank(places, k) == Cardinality({j \in places : j <= k})

\* The places are finitely many, and a higher one has a higher rank.
LEMMA RankFacts ==
    ASSUME NEW m \in Nat, NEW places \in SUBSET (1..m)
    PROVE  /\ IsFiniteSet(places) /\ Cardinality(places) \in Nat
           /\ \A k \in Int : Rank(places, k) \in 0..Cardinality(places)
           /\ \A i \in places : Rank(places, i) \in 1..Cardinality(places)
           /\ \A i, k \in places : i < k => Rank(places, i) < Rank(places, k)
<1> DEFINE Below(k) == {j \in places : j <= k}
<1>1. IsFiniteSet(places) /\ Cardinality(places) \in Nat
  BY IntervalFacts, FS_Subset, FS_CardinalityType
<1>2. ASSUME NEW k PROVE Below(k) \in SUBSET places
  OBVIOUS
<1>3. ASSUME NEW k
      PROVE  IsFiniteSet(Below(k)) /\ Rank(places, k) = Cardinality(Below(k))
             /\ Rank(places, k) \in 0..Cardinality(places)
  <2>1. Rank(places, k) = Cardinality(Below(k))
    BY DEF Rank
  <2> HIDE DEF Below
  <2>2. IsFiniteSet(Below(k)) /\ Cardinality(Below(k)) <= Cardinality(places)
    BY <1>1, <1>2, FS_Subset
  <2>3. Cardinality(Below(k)) \in Nat
    BY <2>2, FS_CardinalityType
  <2>4. QED BY <1>1, <2>1, <2>2, <2>3
<1>4. ASSUME NEW i \in places, NEW k \in places, i < k
      PROVE  Rank(places, i) < Rank(places, k)
  <2>1. \A j \in places : j \in Int
    OBVIOUS
  <2>2. k \notin Below(i) /\ Below(i) \cup {k} \in SUBSET Below(k)
    <3>1. ~(k <= i) /\ k <= k /\ \A j \in places : j <= i => j <= k
      BY <1>4, <2>1
    <3>2. QED BY <3>1
  <2> HIDE DEF Below
  <2>3. Cardinality(Below(i) \cup {k}) = Cardinality(Below(i)) + 1
    BY <1>3, <2>2, FS_AddElement
  <2>4. Cardinality(Below(i) \cup {k}) <= Cardinality(Below(k))
    BY <1>3, <2>2, FS_Subset
  <2>5. QED BY <1>3, <2>3, <2>4
<1>5. ASSUME NEW i \in places PROVE Rank(places, i) # 0
  <2>1. i \in Below(i)
    <3>1. i <= i
      OBVIOUS
    <3>2. QED BY <3>1
  <2> HIDE DEF Below
  <2>2. QED BY <1>3, <2>1, FS_EmptySet
<1>6. ASSUME NEW i \in places PROVE Rank(places, i) \in 1..Cardinality(places)
  <2>1. Rank(places, i) \in 0..Cardinality(places) /\ Rank(places, i) # 0
    BY <1>3, <1>5
  <2>2. QED BY <1>1, <2>1
<1>7. QED BY <1>1, <1>3, <1>4, <1>6

\* Every place is the n-th lowest for one n.
LEMMA NthFacts ==
    ASSUME NEW m \in Nat, NEW places \in SUBSET (1..m)
    PROVE  /\ \A n \in 1..Cardinality(places) :
                 Nth(places, n) \in places /\ Rank(places, Nth(places, n)) = n
           /\ \A i \in places : Nth(places, Rank(places, i)) = i
<1>1. /\ IsFiniteSet(places) /\ Cardinality(places) \in Nat
      /\ \A k \in Int : Rank(places, k) \in 0..Cardinality(places)
      /\ \A i \in places : Rank(places, i) \in 1..Cardinality(places)
      /\ \A i, k \in places : i < k => Rank(places, i) < Rank(places, k)
  BY RankFacts
<1>a. \A j \in places : j \in Int /\ 1 <= j /\ j <= m
  OBVIOUS
<1>2. ASSUME NEW n \in 1..Cardinality(places)
      PROVE  \E i \in places : Rank(places, i) = n
  <2> DEFINE Enough == {k \in Nat : Rank(places, k) >= n}
             Below(k) == {j \in places : j <= k}
  <2>1. m \in Enough
    <3>1. Below(m) = places
      BY <1>a
    <3>2. QED BY <1>1, <3>1 DEF Rank
  <2>2. PICK k \in Enough : \A l \in Enough : k <= l
    <3>1. Enough \in SUBSET Nat /\ Enough # {}
      BY <2>1
    <3> HIDE DEF Enough
    <3>2. QED BY <3>1, LeastNatural
  <2>3. k \in Nat /\ Rank(places, k) >= n /\ Rank(places, k) \in Nat
    BY <1>1
  <2>4. k # 0
    <3>1. Below(0) = {}
      <4>1. \A j \in places : ~(j <= 0)
        BY <1>a
      <4>2. QED BY <4>1
    <3>2. Rank(places, 0) = 0
      BY <3>1, FS_EmptySet DEF Rank
    <3>3. QED BY <2>3, <3>2
  <2>5. Rank(places, k - 1) < n /\ Rank(places, k - 1) \in Nat
    <3>1. k - 1 \in Nat /\ ~(k <= k - 1)
      BY <2>3, <2>4
    <3>2. k - 1 \notin Enough
      BY <2>2, <3>1
    <3>3. QED BY <1>1, <3>1, <3>2
  <2>6. Below(k) = IF k \in places THEN Below(k - 1) \cup {k} ELSE Below(k - 1)
    <3>1. \A j \in places : j <= k <=> j <= k - 1 \/ j = k
      BY <1>a, <2>3
    <3>2. QED BY <3>1
  <2>7. k \notin Below(k - 1) /\ Below(k - 1) \in SUBSET places
    BY <2>3
  <2>8. Rank(places, k) = Cardinality(Below(k)) /\ Rank(places, k - 1) = Cardinality(Below(k - 1))
    BY DEF Rank
  <2> HIDE DEF Below, Enough
  <2>9. k \in places
    BY <2>3, <2>5, <2>6, <2>8
  <2>10. IsFiniteSet(Below(k - 1))
    BY <1>1, <2>7, FS_Subset
  <2>11. Rank(places, k) = Rank(places, k - 1) + 1
    <3>1. Cardinality(Below(k - 1) \cup {k}) = Cardinality(Below(k - 1)) + 1
      BY <2>7, <2>10, FS_AddElement
    <3>2. Below(k) = Below(k - 1) \cup {k}
      BY <2>6, <2>9
    <3>3. QED BY <2>8, <3>1, <3>2
  <2>12. QED BY <2>3, <2>5, <2>9, <2>11
<1>3. \A i, k \in places : Rank(places, i) = Rank(places, k) => i = k
  <2> SUFFICES ASSUME NEW i \in places, NEW k \in places, i # k
               PROVE  Rank(places, i) # Rank(places, k)
    OBVIOUS
  <2>1. i < k \/ k < i
    BY <1>a
  <2>2. Rank(places, i) \in Int /\ Rank(places, k) \in Int
    BY <1>1
  <2>3. QED BY <1>1, <2>1, <2>2
<1>4. \A n : Nth(places, n) = CHOOSE i \in places : Rank(places, i) = n
  BY DEF Nth, Rank
<1>5. ASSUME NEW i \in places PROVE Nth(places, Rank(places, i)) = i
  BY <1>3, <1>4
<1>6. QED BY <1>2, <1>4, <1>5

\* At has what is at the places, each once, and nothing else.
LEMMA AtFacts ==
    ASSUME NEW S, NEW list \in Seq(S), NEW places \in SUBSET DOMAIN list
    PROVE  /\ At(list, places) \in Seq(S)
           /\ DOMAIN At(list, places) = 1..Cardinality(places) /\ Cardinality(places) \in Nat
           /\ \A n \in DOMAIN At(list, places) :
                 Nth(places, n) \in places /\ At(list, places)[n] = list[Nth(places, n)]
           /\ \A i \in places : \E n \in DOMAIN At(list, places) : Nth(places, n) = i
           /\ \A n, k \in DOMAIN At(list, places) : Nth(places, n) = Nth(places, k) => n = k
<1>1. Len(list) \in Nat /\ DOMAIN list = 1..Len(list)
  OBVIOUS
<1>2. places \in SUBSET (1..Len(list))
  BY <1>1
<1>3. /\ \A n \in 1..Cardinality(places) :
            Nth(places, n) \in places /\ Rank(places, Nth(places, n)) = n
      /\ \A i \in places : Nth(places, Rank(places, i)) = i
  BY <1>1, <1>2, NthFacts
<1>4. /\ Cardinality(places) \in Nat
      /\ \A i \in places : Rank(places, i) \in 1..Cardinality(places)
  BY <1>1, <1>2, RankFacts
<1>5. At(list, places) = [n \in 1..Cardinality(places) |-> list[Nth(places, n)]]
  BY DEF At
<1>6. \A n \in 1..Cardinality(places) : list[Nth(places, n)] \in S
  BY <1>3
<1>7. At(list, places) \in Seq(S)
  BY <1>4, <1>5, <1>6
<1>8. QED BY <1>3, <1>4, <1>5, <1>7

\* FirstOfEach has one element for each key.
LEMMA FirstOfEachFacts ==
    ASSUME NEW S, NEW list \in Seq(S), NEW keys
    PROVE  /\ FirstOfEach(list, keys) \in Seq(S)
           /\ \A n \in DOMAIN FirstOfEach(list, keys) :
                 \E i \in DOMAIN list : FirstOfEach(list, keys)[n] = list[i]
           /\ \A i \in DOMAIN list : \E n \in DOMAIN FirstOfEach(list, keys) :
                 \E j \in DOMAIN list : FirstOfEach(list, keys)[n] = list[j] /\ keys[j] = keys[i]
           /\ \A n, k \in DOMAIN FirstOfEach(list, keys) : n # k =>
                 \E i, j \in DOMAIN list : /\ FirstOfEach(list, keys)[n] = list[i]
                                           /\ FirstOfEach(list, keys)[k] = list[j]
                                           /\ keys[i] # keys[j]
<1> DEFINE firsts == {i \in DOMAIN list : \A j \in 1..(i - 1) : keys[j] # keys[i]}
           result == At(list, firsts)
<1>1. Len(list) \in Nat /\ DOMAIN list = 1..Len(list)
  OBVIOUS
<1>2. firsts \in SUBSET DOMAIN list
  OBVIOUS
<1>3. FirstOfEach(list, keys) = result
  BY DEF FirstOfEach
<1>4. /\ result \in Seq(S)
      /\ \A n \in DOMAIN result : Nth(firsts, n) \in firsts /\ result[n] = list[Nth(firsts, n)]
      /\ \A i \in firsts : \E n \in DOMAIN result : Nth(firsts, n) = i
      /\ \A n, k \in DOMAIN result : Nth(firsts, n) = Nth(firsts, k) => n = k
  <2> HIDE DEF firsts
  <2>1. QED BY <1>2, AtFacts
<1>5. ASSUME NEW i \in DOMAIN list
      PROVE  \E j \in firsts : keys[j] = keys[i]
  <2> DEFINE same == {j \in DOMAIN list : keys[j] = keys[i]}
  <2>1. same \in SUBSET Nat /\ same # {}
    BY <1>1
  <2>2. PICK j \in same : \A k \in same : j <= k
    <3> HIDE DEF same
    <3>1. QED BY <2>1, LeastNatural
  <2>3. j \in firsts
    BY <1>1, <2>2
  <2>4. QED BY <2>3
<1>6. ASSUME NEW i \in firsts, NEW j \in firsts, i # j
      PROVE  keys[i] # keys[j]
  BY <1>1, <1>6
<1> HIDE DEF result
<1>7. \A i \in DOMAIN list : \E n \in DOMAIN result :
         \E j \in DOMAIN list : result[n] = list[j] /\ keys[j] = keys[i]
  <2> SUFFICES ASSUME NEW i \in DOMAIN list
               PROVE  \E n \in DOMAIN result :
                         \E j \in DOMAIN list : result[n] = list[j] /\ keys[j] = keys[i]
    OBVIOUS
  <2>1. PICK j \in firsts : keys[j] = keys[i]
    BY <1>5
  <2>2. PICK n \in DOMAIN result : Nth(firsts, n) = j
    BY <1>4
  <2>3. QED BY <1>2, <1>4, <2>1, <2>2
<1>8. \A n, k \in DOMAIN result : n # k =>
         \E i, j \in DOMAIN list : result[n] = list[i] /\ result[k] = list[j] /\ keys[i] # keys[j]
  <2> HIDE DEF firsts
  <2>1. QED BY <1>2, <1>4, <1>6
<1>9. \A n \in DOMAIN result : \E i \in DOMAIN list : result[n] = list[i]
  <2> HIDE DEF firsts
  <2>1. QED BY <1>2, <1>4
<1>10. result \in Seq(S)
  BY <1>4
<1> HIDE DEF firsts
<1>11. QED BY <1>3, <1>7, <1>8, <1>9, <1>10
-----------------------------------------------------------------------------
\* What Min takes of two numbers.
LEMMA MinFacts ==
    ASSUME NEW a \in Int, NEW b \in Int
    PROVE  /\ Min({a, b}) \in {a, b} /\ Min({a, b}) <= a /\ Min({a, b}) <= b
<1>1. \E x \in {a, b} : \A y \in {a, b} : x <= y
  <2>1. a <= b \/ b <= a
    OBVIOUS
  <2>2. a <= a /\ b <= b
    OBVIOUS
  <2>3. QED BY <2>1, <2>2
<1>2. QED BY <1>1 DEF Min

\* normalize_raw_transcript keeps what was spoken, and all of it.
LEMMA NormalizeFacts ==
    ASSUME NEW lines \in Seq(Line)
    PROVE  /\ Normalize(lines) \in Seq(Line)
           /\ \A n \in DOMAIN Normalize(lines) : Normalize(lines)[n].kind = "speech"
           /\ (\E i \in DOMAIN lines : lines[i].kind = "speech") => Normalize(lines) # <<>>
<1> DEFINE places == {i \in DOMAIN lines : lines[i].kind = "speech"}
<1>1. places \in SUBSET DOMAIN lines /\ Normalize(lines) = At(lines, places)
  BY DEF Normalize
<1>2. /\ At(lines, places) \in Seq(Line)
      /\ \A n \in DOMAIN At(lines, places) :
            Nth(places, n) \in places /\ At(lines, places)[n] = lines[Nth(places, n)]
      /\ \A i \in places : \E n \in DOMAIN At(lines, places) : Nth(places, n) = i
  <2> HIDE DEF places
  <2>1. QED BY <1>1, AtFacts
<1>3. \A n \in DOMAIN At(lines, places) : At(lines, places)[n].kind = "speech"
  BY <1>2
<1>4. places # {} => At(lines, places) # <<>>
  <2> HIDE DEF places
  <2>1. QED BY <1>2
<1>5. QED BY <1>1, <1>2, <1>3, <1>4

\* transcript_to_segments makes a segment of every line that was spoken.
LEMMA TranscriptToSegmentsFacts ==
    ASSUME NEW lines \in Seq(Line)
    PROVE  /\ TranscriptToSegments(lines) \in Seq(Segment)
           /\ LinesOf(TranscriptToSegments(lines)) = Normalize(lines)
           /\ Normalize(lines) # <<>> => TranscriptToSegments(lines) # <<>>
<1> DEFINE said == Normalize(lines)
<1>1. said \in Seq(Line)
  BY NormalizeFacts
<1>2. TranscriptToSegments(lines) =
         [i \in 1..Len(said) |-> [sequence |-> i, line |-> said[i], suspicious |-> FALSE]]
  BY <1>1 DEF TranscriptToSegments
<1> HIDE DEF said
<1>3. \A i \in 1..Len(said) : [sequence |-> i, line |-> said[i], suspicious |-> FALSE] \in Segment
  BY <1>1 DEF Segment
<1>4. Len(said) \in Nat /\ said = [i \in 1..Len(said) |-> said[i]]
  BY <1>1
<1>5. TranscriptToSegments(lines) \in Seq(Segment)
  BY <1>2, <1>3, <1>4
<1>6. LinesOf(TranscriptToSegments(lines)) = said
  BY <1>2, <1>4 DEF LinesOf
<1>7. said # <<>> => TranscriptToSegments(lines) # <<>>
  <2> SUFFICES ASSUME said # <<>> PROVE TranscriptToSegments(lines) # <<>>
    OBVIOUS
  <2>1. 1 \in 1..Len(said)
    BY <1>1
  <2>2. DOMAIN TranscriptToSegments(lines) # {}
    BY <1>2, <2>1
  <2>3. QED BY <2>2
<1>8. QED BY <1>5, <1>6, <1>7 DEF said

\* The lines of the segments of a context.
LEMMA LinesOfFacts ==
    ASSUME NEW list \in Seq(Segment)
    PROVE  LinesOf(list) \in Seq(Line) /\ Len(LinesOf(list)) = Len(list)
           /\ DOMAIN LinesOf(list) = DOMAIN list
           /\ \A i \in DOMAIN list : LinesOf(list)[i] = list[i].line /\ list[i].line \in Line
<1>1. \A i \in DOMAIN list : list[i] \in Segment
  OBVIOUS
<1>2. \A i \in DOMAIN list : list[i].line \in Line
  BY <1>1 DEF Segment
<1>3. LinesOf(list) = [i \in 1..Len(list) |-> list[i].line]
  BY DEF LinesOf
<1>4. QED BY <1>2, <1>3

\* What mark_suspicious_segments says of a segment is true of the marked list, too.
Marked == \A i \in DOMAIN segments : segments[i].suspicious = IsSuspiciousOutlier(segments, i)

\* Marking a segment as suspicious changes nothing that marking looks at.
LEMMA MarkFacts ==
    ASSUME NEW list \in Seq(Segment)
    PROVE  /\ MarkSuspicious(list) \in Seq(Segment) /\ DOMAIN MarkSuspicious(list) = DOMAIN list
           /\ \A i \in DOMAIN list : MarkSuspicious(list)[i].suspicious =
                                        IsSuspiciousOutlier(MarkSuspicious(list), i)
<1> DEFINE marked == MarkSuspicious(list)
<1>1. \A i \in DOMAIN list : list[i] \in Segment
  OBVIOUS
<1>2. DOMAIN marked = DOMAIN list /\ DOMAIN list = 1..Len(list)
  BY DEF MarkSuspicious
<1>3. \A i \in DOMAIN list : IsSuspiciousOutlier(list, i) \in BOOLEAN
  BY DEF IsSuspiciousOutlier
<1>4. ASSUME NEW i \in DOMAIN list
      PROVE  /\ marked[i] \in Segment /\ marked[i].line = list[i].line
             /\ marked[i].suspicious = IsSuspiciousOutlier(list, i)
  <2>1. marked[i] = [list[i] EXCEPT !.suspicious = IsSuspiciousOutlier(list, i)]
    BY DEF MarkSuspicious
  <2> HIDE DEF marked
  <2>2. QED BY <1>1, <1>3, <2>1 DEF Segment
<1> HIDE DEF marked
<1>5. \A i \in DOMAIN list : IsSuspiciousOutlier(marked, i) = IsSuspiciousOutlier(list, i)
  BY <1>2, <1>4 DEF IsSuspiciousOutlier
<1>6. marked \in Seq(Segment)
  <2>1. marked = [i \in 1..Len(list) |-> marked[i]]
    BY <1>2 DEF marked, MarkSuspicious
  <2>2. QED BY <1>2, <1>4, <2>1
<1>7. QED BY <1>2, <1>4, <1>5, <1>6 DEF marked

\* A suspicious segment has a neighbour that is not.
LEMMA TrustedNeighbour ==
    ASSUME Marked, NEW i \in DOMAIN segments, segments[i].suspicious
    PROVE  \E j \in DOMAIN segments \cap ((i - 2)..(i + 2)) : ~segments[j].suspicious
<1>1. IsSuspiciousOutlier(segments, i)
  BY DEF Marked
<1>2. PICK j \in (DOMAIN segments \cap ((i - 2)..(i + 2))) \ {i} :
           DominantScript(segments[j].line) \in Mainstream
  BY <1>1, Zenon DEF IsSuspiciousOutlier
<1>3. ~IsSuspiciousOutlier(segments, j)
  BY <1>2, Zenon DEF IsSuspiciousOutlier
<1>4. QED BY <1>2, <1>3 DEF Marked

\* Of five marked segments in a row one is trusted, and so is one of a short transcript.
LEMMA NearbyTrusted ==
    ASSUME Marked, segments \in Seq(Segment), NEW first \in DOMAIN segments,
           first = 1 \/ first + 4 <= Len(segments)
    PROVE  \E i \in first..Min({first + 4, Len(segments)}) : ~segments[i].suspicious
<1>1. /\ Len(segments) \in Nat
      /\ first \in Nat /\ 1 <= first /\ first <= Len(segments)
  OBVIOUS
<1>0. PICK last : last = Min({first + 4, Len(segments)})
  OBVIOUS
<1>2. last \in Int /\ (last = first + 4 \/ last = Len(segments))
      /\ last <= first + 4 /\ last <= Len(segments)
  <2>1. first + 4 \in Int /\ Len(segments) \in Int
    BY <1>1
  <2>2. /\ last \in {first + 4, Len(segments)}
        /\ last <= first + 4 /\ last <= Len(segments)
    BY <1>0, <2>1, MinFacts, Zenon
  <2>3. QED BY <2>1, <2>2
<1>3. CASE first + 4 <= Len(segments)
  <2>1. first + 2 \in DOMAIN segments /\ last = first + 4
    BY <1>1, <1>2, <1>3
  <2>2. CASE ~segments[first + 2].suspicious
    BY <1>0, <1>1, <2>1, <2>2
  <2>3. CASE segments[first + 2].suspicious
    <3>1. PICK m \in DOMAIN segments : m = first + 2
      BY <2>1
    <3>2. PICK j \in DOMAIN segments \cap ((m - 2)..(m + 2)) : ~segments[j].suspicious
      BY <2>3, <3>1, TrustedNeighbour
    <3>3. j \in first..last
      BY <1>1, <2>1, <3>1, <3>2
    <3>4. QED BY <1>0, <3>2, <3>3
  <2>4. QED BY <2>2, <2>3
<1>4. CASE first = 1
  <2>1. CASE ~segments[1].suspicious
    <3>1. 1 \in 1..last
      BY <1>1, <1>2
    <3>2. QED BY <1>0, <1>4, <2>1, <3>1
  <2>2. CASE segments[1].suspicious
    <3>1. PICK m \in DOMAIN segments : m = 1
      BY <1>4
    <3>2. PICK j \in DOMAIN segments \cap ((m - 2)..(m + 2)) : ~segments[j].suspicious
      BY <2>2, <3>1, TrustedNeighbour
    <3>3. j \in first..last
      BY <1>1, <1>2, <1>4, <3>1, <3>2
    <3>4. QED BY <1>0, <3>2, <3>3
  <2>3. QED BY <2>1, <2>2
<1>5. QED BY <1>3, <1>4
-----------------------------------------------------------------------------
\* The segments of the context, and what was spoken according to it.
Given == SegmentsFromContext(IF inline THEN TranscriptToSegments(meeting.raw) ELSE meeting.segments)
Spoken == Normalize(IF Given = <<>> THEN meeting.raw ELSE LinesOf(Given))

Made(found) == FinalizeMinutesDraft(EvidenceToMinutesDraft(FinalizeMinutesEvidence(found, segments)))

\* While a model is asked, and in the minutes, the segments are marked and the transcript is
\* what was spoken; and the minutes are made of what the model found.
WorkflowInv ==
    /\ TypeOK /\ meeting \in Meetings
    /\ stage = "generating" \/ verdict = "drafted" => transcript = Spoken /\ Marked
    /\ verdict = "drafted" =>
          /\ evidence \in MinutesEvidence
          /\ document = MinutesDraftToTiptap(Made(evidence))
          /\ IsAcceptableSummary(Made(evidence).summary, transcript)

\* A document that was made is not the one there was at first.
LEMMA DocumentThere ==
    ASSUME NEW made
    PROVE  MinutesDraftToTiptap(made) # NoDocument
<1>1. MinutesDraftToTiptap(made).summary # NoDocument.summary
  BY DEF MinutesDraftToTiptap, NoDocument
<1>2. QED BY <1>1

\* What execute prepares of a context: typed and marked segments, none missing.
LEMMA GivenFacts ==
    ASSUME NEW listed \in Seq(Segment), NEW raw \in Seq(Line)
    PROVE  LET given == SegmentsFromContext(listed)
               spoken == Normalize(IF given = <<>> THEN raw ELSE LinesOf(given))
               marked == MarkSuspicious(IF given = <<>> THEN TranscriptToSegments(spoken)
                                        ELSE given)
           IN /\ given \in Seq(Segment) /\ spoken \in Seq(Line)
              /\ marked \in Seq(Segment)
              /\ spoken # <<>> => marked # <<>>
              /\ \A i \in DOMAIN marked : marked[i].suspicious = IsSuspiciousOutlier(marked, i)
<1> DEFINE given == SegmentsFromContext(listed)
           lines == IF given = <<>> THEN raw ELSE LinesOf(given)
           spoken == Normalize(lines)
           list == IF given = <<>> THEN TranscriptToSegments(spoken) ELSE given
           marked == MarkSuspicious(list)
<1>1. given \in Seq(Segment)
  <2> DEFINE places == {i \in DOMAIN listed : listed[i].line.kind # "blank"}
  <2>1. places \in SUBSET DOMAIN listed /\ given = At(listed, places)
    BY DEF SegmentsFromContext
  <2> HIDE DEF places, given
  <2>2. QED BY <2>1, AtFacts
<1> HIDE DEF given
<1>2. lines \in Seq(Line)
  BY <1>1, LinesOfFacts
<1> HIDE DEF lines
<1>3. spoken \in Seq(Line) /\ \A n \in DOMAIN spoken : spoken[n].kind = "speech"
  BY <1>2, NormalizeFacts
<1> HIDE DEF spoken
<1>4. spoken # <<>> => Normalize(spoken) # <<>>
  <2> SUFFICES ASSUME spoken # <<>> PROVE Normalize(spoken) # <<>>
    OBVIOUS
  <2>1. 1 \in DOMAIN spoken
    BY <1>3
  <2>2. QED BY <1>3, <2>1, NormalizeFacts
<1>5. list \in Seq(Segment) /\ (spoken # <<>> => list # <<>>)
  BY <1>1, <1>3, <1>4, TranscriptToSegmentsFacts
<1> HIDE DEF list
<1>6. /\ marked \in Seq(Segment) /\ DOMAIN marked = DOMAIN list
      /\ \A i \in DOMAIN marked : marked[i].suspicious = IsSuspiciousOutlier(marked, i)
  BY <1>5, MarkFacts
<1> HIDE DEF marked
<1>7. list # <<>> => marked # <<>>
  BY <1>5, <1>6
<1>8. QED BY <1>1, <1>3, <1>5, <1>6, <1>7 DEF given, lines, spoken, list, marked
-----------------------------------------------------------------------------
\* WorkflowInv holds at first.
LEMMA WorkflowInitially == Init => WorkflowInv
<1> SUFFICES ASSUME Init PROVE WorkflowInv
  OBVIOUS
<1>1. 0 \in 0..(MaxAttempts - 1)
  BY AttemptsAssumption
<1>2. <<>> \in Seq(Line) /\ <<>> \in Seq(Segment)
  OBVIOUS
<1>3. QED BY <1>1, <1>2 DEF Init, WorkflowInv, TypeOK

\* Ending without minutes.
LEMMA EndKeeps ==
    ASSUME WorkflowInv, verdict # "drafted", NEW outcome \in {"retryable", "permanent"}, End(outcome)
    PROVE  WorkflowInv'
<1>1. <<>> \in Seq(Line) /\ <<>> \in Seq(Segment)
  OBVIOUS
<1>2. QED BY <1>1 DEF End, WorkflowInv, TypeOK

\* From the context to the request to the model.
LEMMA PrepareKeeps ==
    ASSUME WorkflowInv, stage = "waiting", NEW listed \in Seq(Segment),
           listed = IF inline THEN TranscriptToSegments(meeting.raw) ELSE meeting.segments,
           Prepare(listed, meeting.raw)
    PROVE  WorkflowInv'
<1> DEFINE given == SegmentsFromContext(listed)
           spoken == Normalize(IF given = <<>> THEN meeting.raw ELSE LinesOf(given))
           marked == MarkSuspicious(IF given = <<>> THEN TranscriptToSegments(spoken) ELSE given)
<1>1. verdict # "drafted"
  BY DEF WorkflowInv, TypeOK
<1>2. CASE spoken = <<>>
  <2>1. End("retryable")
    BY <1>2 DEF Prepare
  <2>2. QED BY <1>1, <2>1, EndKeeps
<1>3. CASE spoken # <<>>
  <2>1. /\ transcript' = spoken /\ segments' = marked /\ stage' = "generating"
        /\ UNCHANGED <<meeting, inline, saved, attempt, evidence, verdict, draft, document>>
    BY <1>3 DEF Prepare
  <2>2. meeting.raw \in Seq(Line)
    BY MeetingsAssumption DEF WorkflowInv
  <2>3. /\ spoken \in Seq(Line) /\ marked \in Seq(Segment) /\ marked # <<>>
        /\ \A i \in DOMAIN marked : marked[i].suspicious = IsSuspiciousOutlier(marked, i)
    BY <1>3, <2>2, GivenFacts
  <2>4. spoken = Spoken /\ Spoken' = Spoken
    BY <2>1 DEF Spoken, Given
  <2> HIDE DEF given, spoken, marked
  <2>5. Marked'
    BY <2>1, <2>3 DEF Marked, IsSuspiciousOutlier
  <2>6. TypeOK'
    BY <1>1, <1>3, <2>1, <2>3 DEF WorkflowInv, TypeOK
  <2>7. QED BY <1>1, <2>1, <2>4, <2>5, <2>6 DEF WorkflowInv
<1>4. QED BY <1>2, <1>3

\* No step breaks WorkflowInv.
LEMMA WorkflowStep == WorkflowInv /\ [Next]_vars => WorkflowInv'
<1> SUFFICES ASSUME WorkflowInv, [Next]_vars PROVE WorkflowInv'
  OBVIOUS
<1>1. ASSUME UNCHANGED <<meeting, inline, stage, attempt, segments, transcript, evidence, verdict,
                         draft, document>>, saved' \in BOOLEAN
      PROVE  WorkflowInv'
  <2>1. TypeOK'
    BY <1>1 DEF WorkflowInv, TypeOK
  <2>2. Spoken' = Spoken /\ Made(evidence)' = Made(evidence) /\ (Marked => Marked')
    BY <1>1 DEF Spoken, Given, Made, Marked
  <2>3. QED BY <1>1, <2>1, <2>2 DEF WorkflowInv
<1>2. CASE Save
  BY <1>1, <1>2 DEF Save
<1>3. CASE LoadInline
  <2>1. meeting.raw \in Seq(Line)
    BY MeetingsAssumption DEF WorkflowInv
  <2>2. TranscriptToSegments(meeting.raw) \in Seq(Segment)
    BY <2>1, TranscriptToSegmentsFacts
  <2>3. QED BY <1>3, <2>2, PrepareKeeps DEF LoadInline
<1>4. ASSUME NEW answer \in Answers, Load(answer) PROVE WorkflowInv'
  <2>1. ~inline /\ stage = "waiting" /\ verdict # "drafted"
    BY <1>4 DEF Load, WorkflowInv, TypeOK
  <2>2. CASE LoadFailure(answer) # "none"
    <3>1. LoadFailure(answer) \in {"retryable", "permanent"}
      BY <2>2 DEF LoadFailure
    <3>2. QED BY <1>4, <2>1, <2>2, <3>1, EndKeeps DEF Load
  <2>3. CASE LoadFailure(answer) = "none"
    <3>1. meeting.segments \in Seq(Segment)
      BY MeetingsAssumption DEF WorkflowInv
    <3>2. QED BY <1>4, <2>1, <2>3, <3>1, PrepareKeeps DEF Load
  <2>4. QED BY <2>2, <2>3
<1>5. ASSUME NEW primary \in Primaries, NEW fallback \in Fallbacks,
             NEW output \in Outputs[meeting.topic], Generate(primary, fallback, output)
      PROVE  WorkflowInv'
  <2> DEFINE result == Generated(primary, fallback)
             made == Made(output)
             shown == MinutesDraftToTiptap(made)
             good == IsAcceptableSummary(made.summary, transcript)
  <2>1. /\ stage = "generating"
        /\ CASE result = "unavailable" -> End("retryable")
             [] result \in {"empty", "invalid"} -> End("permanent")
             [] result = "ok" /\ ~good -> End("permanent")
             [] OTHER -> /\ stage' = "ended" /\ verdict' = "drafted"
                         /\ evidence' = output
                         /\ draft' = made
                         /\ document' = shown
                         /\ UNCHANGED <<meeting, inline, saved, attempt, segments, transcript>>
    BY <1>5, Zenon DEF Generate, Made
  <2>2. verdict # "drafted"
    BY <2>1 DEF WorkflowInv, TypeOK
  <2>3. result \in {"ok", "unavailable", "empty", "invalid"}
    BY DEF Generated, Primaries, Fallbacks
  <2>4. shown # NoDocument
    BY DocumentThere
  <2>5. output \in MinutesEvidence
    BY MeetingsAssumption DEF WorkflowInv
  <2> HIDE DEF result, shown, good, made
  <2>6. CASE End("retryable") \/ End("permanent")
    BY <2>2, <2>6, EndKeeps
  <2>7. CASE /\ result = "ok" /\ good /\ stage' = "ended" /\ verdict' = "drafted"
             /\ evidence' = output /\ draft' = made /\ document' = shown
             /\ UNCHANGED <<meeting, inline, saved, attempt, segments, transcript>>
    <3>1. TypeOK'
      BY <2>4, <2>7 DEF WorkflowInv, TypeOK
    <3>2. Spoken' = Spoken /\ Made(evidence)' = made /\ (Marked => Marked')
      BY <2>7 DEF Spoken, Given, made, Made, Marked
    <3>3. document' = MinutesDraftToTiptap(Made(evidence))'
          /\ IsAcceptableSummary(Made(evidence).summary, transcript)'
      BY <2>7, <3>2 DEF shown, good, IsAcceptableSummary, MinutesDraftToTiptap
    <3>4. QED BY <2>1, <2>5, <2>7, <3>1, <3>2, <3>3 DEF WorkflowInv
  <2>8. QED BY <2>1, <2>3, <2>6, <2>7
<1>6. CASE TryAgain
  <2>1. attempt + 1 \in 0..(MaxAttempts - 1)
    BY <1>6, AttemptsAssumption DEF TryAgain, WorkflowInv, TypeOK
  <2>2. QED BY <1>6, <2>1 DEF TryAgain, WorkflowInv, TypeOK
<1>7. CASE UNCHANGED vars
  BY <1>1, <1>7 DEF vars, WorkflowInv, TypeOK
<1>8. QED BY <1>2, <1>3, <1>4, <1>5, <1>6, <1>7 DEF Next

\* WorkflowInv holds all along.
LEMMA WorkflowInvariant == Spec => []WorkflowInv
<1>1. QED BY WorkflowInitially, WorkflowStep, PTL DEF Spec

\* The types of TypeOK: a model is asked only with a transcript and segments, an attempt has an
\* outcome exactly when it has ended, and there is a document exactly when minutes were drafted
\* (MinutesGenerationWorkflow.execute).
THEOREM TypeCorrect == Spec => []TypeOK
BY WorkflowInvariant, PTL DEF WorkflowInv

\* mark_suspicious_segments never leaves five segments in a row, or a whole transcript, without
\* one that is trusted, whatever languages are spoken in which order: what makes a segment
\* suspicious is a neighbour in a mainstream script, which is not suspicious itself.
THEOREM SuspicionSparesNeighbours == Spec => []TrustedNearby
<1>1. WorkflowInv => TrustedNearby
  <2> SUFFICES ASSUME WorkflowInv, stage = "generating", NEW first \in DOMAIN segments,
                      first = 1 \/ first + 4 <= Len(segments)
               PROVE  \E i \in first..Min({first + 4, Len(segments)}) : ~segments[i].suspicious
    BY DEF TrustedNearby
  <2>1. QED BY NearbyTrusted DEF WorkflowInv, TypeOK
<1>2. QED BY WorkflowInvariant, <1>1, PTL
-----------------------------------------------------------------------------
\* Cleaning and folding keep the letters of a text, and what makes it meaningful.
LEMMA TextFacts ==
    ASSUME NEW t \in Text
    PROVE  /\ CleanText(t) \in Text /\ CleanText(t).letters = t.letters
           /\ CleanText(t).spaces = "single"
           /\ IsMeaningfulText(CleanText(t)) = IsMeaningfulText(t)
           /\ CleanText(t).hangul = t.hangul /\ CleanText(t).latin = t.latin
           /\ Strip(t) \in Text /\ Strip(t).letters = t.letters
           /\ IsMeaningfulText(Strip(t)) = IsMeaningfulText(t)
           /\ IsMeaningfulText(t) => ~IsBlank(t)
BY DEF Text, CleanText, Strip, IsMeaningfulText, LooksLikeFragment, IsBlank

\* Texts fold alike if they have the same letters and the same spaces.
LEMMA FoldFacts ==
    ASSUME NEW s \in Text, NEW t \in Text
    PROVE  CaseFold(s) = CaseFold(t) <=> s.letters = t.letters /\ s.spaces = t.spaces
BY DEF CaseFold

\* An item that its sources carry rests on a trusted segment, and the other way round.
LEMMA SupportFacts ==
    ASSUME NEW item
    PROVE  IsSupported(item, segments) <=> Rests(item)
BY DEF IsSupported, RealSources, SequencesOf, SuspiciousOf, Rests, Trusted

\* Refining an item changes the spaces of its content and its sources, nothing else.
LEMMA RefineItemFacts ==
    ASSUME NEW item \in EvidenceDecision \cup EvidenceActionItem
    PROVE  /\ item.content \in Text
           /\ RefineItem(item, segments).content = Strip(item.content)
           /\ item \in EvidenceActionItem =>
                 /\ RefineItem(item, segments).assignee = item.assignee
                 /\ RefineItem(item, segments).due = item.due
BY DEF EvidenceDecision, EvidenceActionItem, RefineItem

\* _refine_evidence_decision and _refine_evidence_action_item take what is not blank and rests.
LEMMA RefineItemsFacts ==
    ASSUME NEW S, S = EvidenceDecision \/ S = EvidenceActionItem, NEW items \in Seq(S)
    PROVE  LET refined == RefineItems(items, segments)
           IN /\ refined \in Seq({RefineItem(item, segments) : item \in S})
              /\ \A n \in DOMAIN refined : \E i \in DOMAIN items :
                    Rests(items[i]) /\ refined[n] = RefineItem(items[i], segments)
              /\ \A i \in DOMAIN items :
                    ~IsBlank(items[i].content) /\ Rests(items[i]) =>
                       \E n \in DOMAIN refined : refined[n] = RefineItem(items[i], segments)
<1> DEFINE places == {i \in DOMAIN items : KeepsItem(items[i], segments)}
           kept == At(items, places)
           refined == RefineItems(items, segments)
           T == {RefineItem(item, segments) : item \in S}
<1>1. /\ kept \in Seq(S)
      /\ \A n \in DOMAIN kept : Nth(places, n) \in places /\ kept[n] = items[Nth(places, n)]
      /\ \A i \in places : \E n \in DOMAIN kept : Nth(places, n) = i
  <2>1. places \in SUBSET DOMAIN items
    OBVIOUS
  <2> HIDE DEF places
  <2>2. QED BY <2>1, AtFacts
<1>2. \A i \in DOMAIN items : i \in places <=> ~IsBlank(items[i].content) /\ Rests(items[i])
  BY SupportFacts DEF KeepsItem
<1>3. places \subseteq DOMAIN items
  OBVIOUS
<1>4. refined = [n \in DOMAIN kept |-> RefineItem(kept[n], segments)]
  BY DEF RefineItems
<1> HIDE DEF places, kept, refined
<1>5. refined \in Seq(T)
  <2>1. Len(kept) \in Nat /\ DOMAIN kept = 1..Len(kept) /\ \A n \in DOMAIN kept : kept[n] \in S
    BY <1>1
  <2>2. \A n \in 1..Len(kept) : RefineItem(kept[n], segments) \in T
    BY <2>1
  <2> HIDE DEF T
  <2>3. refined = [n \in 1..Len(kept) |-> RefineItem(kept[n], segments)]
    BY <1>4, <2>1
  <2>4. QED BY <2>1, <2>2, <2>3
<1>6. ASSUME NEW n \in DOMAIN refined
      PROVE  \E i \in DOMAIN items : Rests(items[i]) /\ refined[n] = RefineItem(items[i], segments)
  BY <1>1, <1>2, <1>3, <1>4
<1>7. ASSUME NEW i \in DOMAIN items, ~IsBlank(items[i].content), Rests(items[i])
      PROVE  \E n \in DOMAIN refined : refined[n] = RefineItem(items[i], segments)
  <2>1. PICK n \in DOMAIN kept : Nth(places, n) = i
    BY <1>1, <1>2, <1>7
  <2>2. QED BY <1>1, <1>4, <2>1
<1>8. QED BY <1>5, <1>6, <1>7 DEF refined, T

\* _unique_preserve_order keeps every text once, up to its spelling.
LEMMA UniqueFacts ==
    ASSUME NEW texts \in Seq(Text)
    PROVE  /\ Unique(texts) \in Seq(Text)
           /\ \A n \in DOMAIN Unique(texts) : \E i \in DOMAIN texts : Unique(texts)[n] = texts[i]
           /\ \A i \in DOMAIN texts : \E n \in DOMAIN Unique(texts) :
                 Unique(texts)[n].letters = texts[i].letters
           /\ \A n, k \in DOMAIN Unique(texts) :
                 n # k => CaseFold(Unique(texts)[n]) # CaseFold(Unique(texts)[k])
<1> DEFINE keys == [i \in DOMAIN texts |-> CaseFold(texts[i])]
<1>1. Unique(texts) = FirstOfEach(texts, keys)
  BY DEF Unique
<1>2. \A i \in DOMAIN texts : keys[i] = CaseFold(texts[i]) /\ texts[i] \in Text
  OBVIOUS
<1> HIDE DEF keys
<1>3. /\ Unique(texts) \in Seq(Text)
      /\ \A n \in DOMAIN Unique(texts) : \E i \in DOMAIN texts : Unique(texts)[n] = texts[i]
      /\ \A i \in DOMAIN texts : \E n \in DOMAIN Unique(texts) :
            \E j \in DOMAIN texts : Unique(texts)[n] = texts[j] /\ keys[j] = keys[i]
      /\ \A n, k \in DOMAIN Unique(texts) : n # k =>
            \E i, j \in DOMAIN texts : /\ Unique(texts)[n] = texts[i] /\ Unique(texts)[k] = texts[j]
                                       /\ keys[i] # keys[j]
  BY <1>1, FirstOfEachFacts
<1>4. \A i, j \in DOMAIN texts : keys[i] = keys[j] => texts[i].letters = texts[j].letters
  BY <1>2, FoldFacts
<1>5. ASSUME NEW i \in DOMAIN texts
      PROVE  \E n \in DOMAIN Unique(texts) : Unique(texts)[n].letters = texts[i].letters
  <2>1. PICK n \in DOMAIN Unique(texts) :
           \E j \in DOMAIN texts : Unique(texts)[n] = texts[j] /\ keys[j] = keys[i]
    BY <1>3
  <2>2. QED BY <1>4, <2>1
<1>6. ASSUME NEW n \in DOMAIN Unique(texts), NEW k \in DOMAIN Unique(texts), n # k
      PROVE  CaseFold(Unique(texts)[n]) # CaseFold(Unique(texts)[k])
  <2>1. PICK i \in DOMAIN texts : \E j \in DOMAIN texts :
           /\ Unique(texts)[n] = texts[i] /\ Unique(texts)[k] = texts[j]
           /\ keys[i] # keys[j]
    BY <1>3, <1>6
  <2>2. QED BY <1>2, <2>1
<1>7. QED BY <1>3, <1>5, <1>6

\* Cleaning a list cleans each of its texts.
LEMMA CleanedFacts ==
    ASSUME NEW texts \in Seq(Text)
    PROVE  /\ Cleaned(texts) \in Seq(Text) /\ DOMAIN Cleaned(texts) = DOMAIN texts
           /\ \A i \in DOMAIN texts : Cleaned(texts)[i] = CleanText(texts[i])
<1>1. Cleaned(texts) = [i \in 1..Len(texts) |-> CleanText(texts[i])]
  BY DEF Cleaned
<1>2. \A i \in 1..Len(texts) : CleanText(texts[i]) \in Text
  BY TextFacts
<1>3. QED BY <1>1, <1>2

\* Of a list, the texts that say something are kept.
LEMMA MeaningfulFacts ==
    ASSUME NEW texts \in Seq(Text)
    PROVE  /\ Meaningful(texts) \in Seq(Text)
           /\ \A n \in DOMAIN Meaningful(texts) : \E i \in DOMAIN texts : Meaningful(texts)[n] = texts[i]
           /\ \A i \in DOMAIN texts : IsMeaningfulText(texts[i]) =>
                 \E n \in DOMAIN Meaningful(texts) : Meaningful(texts)[n] = texts[i]
<1> DEFINE places == {i \in DOMAIN texts : IsMeaningfulText(texts[i])}
<1>1. places \in SUBSET DOMAIN texts /\ Meaningful(texts) = At(texts, places)
      /\ \A i \in DOMAIN texts : IsMeaningfulText(texts[i]) => i \in places
  BY DEF Meaningful
<1> HIDE DEF places
<1>2. QED BY <1>1, AtFacts

\* What finalize_minutes_draft makes of the decisions: they are cleaned, none is lost that says
\* anything, and none is there twice.
LEMMA RefineDecisionsFacts ==
    ASSUME NEW texts \in Seq(Text)
    PROVE  LET refined == RefineDecisions(texts)
           IN /\ refined \in Seq(Text)
              /\ \A n \in DOMAIN refined : \E i \in DOMAIN texts :
                    refined[n].letters = texts[i].letters
              /\ \A i \in DOMAIN texts : IsMeaningfulText(texts[i]) =>
                    \E n \in DOMAIN refined : refined[n].letters = texts[i].letters
              /\ \A n, k \in DOMAIN refined : n # k => refined[n].letters # refined[k].letters
<1> DEFINE cleaned == Cleaned(texts)
           said == Meaningful(cleaned)
           refined == Unique(said)
<1>1. /\ cleaned \in Seq(Text) /\ DOMAIN cleaned = DOMAIN texts
      /\ \A i \in DOMAIN texts : /\ cleaned[i] = CleanText(texts[i])
                                 /\ cleaned[i].letters = texts[i].letters
                                 /\ cleaned[i].spaces = "single"
                                 /\ IsMeaningfulText(cleaned[i]) = IsMeaningfulText(texts[i])
  <2>1. /\ cleaned \in Seq(Text) /\ DOMAIN cleaned = DOMAIN texts
        /\ \A i \in DOMAIN texts : cleaned[i] = CleanText(texts[i])
    BY CleanedFacts
  <2> HIDE DEF cleaned
  <2>2. ASSUME NEW i \in DOMAIN texts
        PROVE  /\ cleaned[i].letters = texts[i].letters
               /\ cleaned[i].spaces = "single"
               /\ IsMeaningfulText(cleaned[i]) = IsMeaningfulText(texts[i])
    <3>1. texts[i] \in Text /\ cleaned[i] = CleanText(texts[i])
      BY <2>1
    <3>2. QED BY <3>1, TextFacts
  <2>3. QED BY <2>1, <2>2
<1>2. RefineDecisions(texts) = refined
  BY DEF RefineDecisions
<1> HIDE DEF cleaned
<1>3. /\ said \in Seq(Text)
      /\ \A n \in DOMAIN said : \E i \in DOMAIN cleaned : said[n] = cleaned[i]
      /\ \A i \in DOMAIN cleaned : IsMeaningfulText(cleaned[i]) =>
            \E n \in DOMAIN said : said[n] = cleaned[i]
  BY <1>1, MeaningfulFacts
<1> HIDE DEF said
<1>4. /\ refined \in Seq(Text)
      /\ \A n \in DOMAIN refined : \E i \in DOMAIN said : refined[n] = said[i]
      /\ \A i \in DOMAIN said : \E n \in DOMAIN refined : refined[n].letters = said[i].letters
      /\ \A n, k \in DOMAIN refined : n # k => CaseFold(refined[n]) # CaseFold(refined[k])
  BY <1>3, UniqueFacts
<1> HIDE DEF refined
<1>5. ASSUME NEW n \in DOMAIN refined
      PROVE  /\ refined[n] \in Text /\ refined[n].spaces = "single"
             /\ \E i \in DOMAIN texts : refined[n].letters = texts[i].letters
  <2>1. PICK m \in DOMAIN said : refined[n] = said[m]
    BY <1>4
  <2>2. PICK i \in DOMAIN cleaned : said[m] = cleaned[i]
    BY <1>3
  <2>3. refined[n] \in Text
    BY <1>4
  <2>4. QED BY <1>1, <2>1, <2>2, <2>3
<1>6. ASSUME NEW i \in DOMAIN texts, IsMeaningfulText(texts[i])
      PROVE  \E n \in DOMAIN refined : refined[n].letters = texts[i].letters
  <2>1. PICK m \in DOMAIN said : said[m] = cleaned[i]
    BY <1>1, <1>3, <1>6
  <2>2. PICK n \in DOMAIN refined : refined[n].letters = said[m].letters
    BY <1>4
  <2>3. QED BY <1>1, <2>1, <2>2
<1>7. ASSUME NEW n \in DOMAIN refined, NEW k \in DOMAIN refined, n # k
      PROVE  refined[n].letters # refined[k].letters
  <2>1. CaseFold(refined[n]) # CaseFold(refined[k])
    BY <1>4, <1>7
  <2>2. /\ refined[n] \in Text /\ refined[k] \in Text
        /\ refined[n].spaces = refined[k].spaces
    BY <1>5
  <2>3. QED BY <2>1, <2>2, FoldFacts
<1>8. QED BY <1>2, <1>4, <1>5, <1>6, <1>7

\* One element of a list, and no other, has what is looked for.
LEMMA Once ==
    ASSUME NEW D, NEW P, P \in SUBSET D, P # {}, \A n, k \in P : n = k
    PROVE  Cardinality(P) = 1
<1>1. PICK n \in P : P = {n}
  OBVIOUS
<1>2. QED BY <1>1, FS_Singleton
-----------------------------------------------------------------------------
\* The decisions of the minutes.
DecisionsShown(items, shown) ==
    /\ \A n \in DOMAIN shown : \E i \in DOMAIN items :
          SameText(items[i].content, shown[n]) /\ Rests(items[i])
    /\ \A i \in DOMAIN items : Says(items, i) =>
          Cardinality({n \in DOMAIN shown : SameText(shown[n], items[i].content)}) = 1

\* From the decisions a model gave to those of the minutes.
LEMMA DecisionsKept ==
    ASSUME NEW found \in MinutesEvidence
    PROVE  DecisionsShown(found.decisions, MinutesDraftToTiptap(Made(found)).decisions)
<1> DEFINE items == found.decisions
           refined == RefineItems(items, segments)
           contents == [n \in DOMAIN refined |-> refined[n].content]
           drafted == Unique(contents)
           shown == RefineDecisions(drafted)
<1>1. items \in Seq(EvidenceDecision) /\ \A i \in DOMAIN items : items[i] \in EvidenceDecision
  BY DEF MinutesEvidence
<1>2. MinutesDraftToTiptap(Made(found)).decisions = shown
  BY DEF MinutesDraftToTiptap, Made, FinalizeMinutesDraft, EvidenceToMinutesDraft,
         FinalizeMinutesEvidence
<1> HIDE DEF items
<1>3. /\ refined \in Seq({RefineItem(item, segments) : item \in EvidenceDecision})
      /\ \A n \in DOMAIN refined : \E i \in DOMAIN items :
            Rests(items[i]) /\ refined[n] = RefineItem(items[i], segments)
      /\ \A i \in DOMAIN items : ~IsBlank(items[i].content) /\ Rests(items[i]) =>
            \E n \in DOMAIN refined : refined[n] = RefineItem(items[i], segments)
  BY <1>1, RefineItemsFacts
<1> HIDE DEF refined
<1>4. \A i \in DOMAIN items :
         /\ items[i].content \in Text
         /\ RefineItem(items[i], segments).content = Strip(items[i].content)
         /\ Strip(items[i].content) \in Text
         /\ Strip(items[i].content).letters = items[i].content.letters
         /\ IsMeaningfulText(Strip(items[i].content)) = IsMeaningfulText(items[i].content)
         /\ IsMeaningfulText(items[i].content) => ~IsBlank(items[i].content)
  BY <1>1, RefineItemFacts, TextFacts
<1>5. /\ DOMAIN contents = DOMAIN refined /\ contents \in Seq(Text)
      /\ \A n \in DOMAIN contents : \E i \in DOMAIN items :
            Rests(items[i]) /\ contents[n] = Strip(items[i].content)
      /\ \A i \in DOMAIN items : IsMeaningfulText(items[i].content) /\ Rests(items[i]) =>
            \E n \in DOMAIN contents : contents[n] = Strip(items[i].content)
  <2>1. \A n \in DOMAIN contents : \E i \in DOMAIN items :
            Rests(items[i]) /\ contents[n] = Strip(items[i].content)
    BY <1>3, <1>4
  <2>2. \A n \in DOMAIN contents : contents[n] \in Text
    BY <1>4, <2>1
  <2>3. contents = [n \in 1..Len(refined) |-> contents[n]] /\ Len(refined) \in Nat
    BY <1>3
  <2>4. contents \in Seq(Text)
    <3> HIDE DEF contents
    <3>1. QED BY <1>3, <2>2, <2>3
  <2>5. QED BY <1>3, <1>4, <2>1, <2>4
<1> HIDE DEF contents
<1>6. /\ drafted \in Seq(Text)
      /\ \A n \in DOMAIN drafted : \E i \in DOMAIN contents : drafted[n] = contents[i]
      /\ \A i \in DOMAIN contents : \E n \in DOMAIN drafted : drafted[n].letters = contents[i].letters
  BY <1>5, UniqueFacts
<1> HIDE DEF drafted
<1>7. /\ shown \in Seq(Text)
      /\ \A n \in DOMAIN shown : \E i \in DOMAIN drafted : shown[n].letters = drafted[i].letters
      /\ \A i \in DOMAIN drafted : IsMeaningfulText(drafted[i]) =>
            \E n \in DOMAIN shown : shown[n].letters = drafted[i].letters
      /\ \A n, k \in DOMAIN shown : n # k => shown[n].letters # shown[k].letters
  BY <1>6, RefineDecisionsFacts
<1> HIDE DEF shown
<1>8. ASSUME NEW n \in DOMAIN shown
      PROVE  \E i \in DOMAIN items : SameText(items[i].content, shown[n]) /\ Rests(items[i])
  <2>1. PICK m \in DOMAIN drafted : shown[n].letters = drafted[m].letters
    BY <1>7
  <2>2. PICK k \in DOMAIN contents : drafted[m] = contents[k]
    BY <1>6
  <2>3. PICK i \in DOMAIN items : Rests(items[i]) /\ contents[k] = Strip(items[i].content)
    BY <1>5
  <2>4. QED BY <1>4, <2>1, <2>2, <2>3 DEF SameText
<1>9. ASSUME NEW i \in DOMAIN items, Says(items, i)
      PROVE  Cardinality({n \in DOMAIN shown : SameText(shown[n], items[i].content)}) = 1
  <2>1. Rests(items[i]) /\ IsMeaningfulText(items[i].content)
    BY <1>9 DEF Says, SameText
  <2>2. PICK k \in DOMAIN contents : contents[k] = Strip(items[i].content)
    BY <1>5, <2>1
  <2>3. PICK m \in DOMAIN drafted : drafted[m].letters = contents[k].letters
    BY <1>6
  <2>4. IsMeaningfulText(drafted[m])
    <3>1. PICK l \in DOMAIN contents : drafted[m] = contents[l]
      BY <1>6
    <3>2. PICK j \in DOMAIN items : Rests(items[j]) /\ contents[l] = Strip(items[j].content)
      BY <1>5
    <3>3. SameText(items[j].content, items[i].content)
      BY <1>4, <2>2, <2>3, <3>1, <3>2 DEF SameText
    <3>4. IsMeaningfulText(items[j].content)
      BY <1>9, <3>2, <3>3 DEF Says
    <3>5. QED BY <1>4, <3>1, <3>2, <3>4
  <2>5. PICK n \in DOMAIN shown : shown[n].letters = drafted[m].letters
    BY <1>7, <2>4
  <2> DEFINE copies == {c \in DOMAIN shown : SameText(shown[c], items[i].content)}
  <2>6. n \in copies
    BY <1>4, <2>2, <2>3, <2>5 DEF SameText
  <2>7. \A a, b \in copies : a = b
    BY <1>7 DEF SameText
  <2> HIDE DEF copies
  <2>8. copies # {}
    BY <2>6
  <2>9. Cardinality(copies) = 1
    BY <2>7, <2>8, Once
  <2>10. QED BY <2>9 DEF copies
<1>10. DecisionsShown(items, shown)
  BY <1>8, <1>9 DEF DecisionsShown
<1>11. QED BY <1>2, <1>10 DEF items
-----------------------------------------------------------------------------
\* A follow-up of a draft.
DraftAction == [content : Text, assignee : Name, due : Name]

\* The types of a follow-up; follow-ups with one key have the same letters.
LEMMA ActionFacts ==
    ASSUME NEW item \in EvidenceActionItem, NEW other \in EvidenceActionItem
    PROVE  /\ RefineItem(item, segments) \in EvidenceActionItem
           /\ ActionItem(item) \in DraftAction
           /\ ActionItem(item).content = item.content
           /\ ActionItem(item).assignee = item.assignee
           /\ ActionItem(item).due = item.due
           /\ ActionKey(item) = ActionKey(other) => item.content.letters = other.content.letters
<1>1. item.content \in Text /\ other.content \in Text
  BY DEF EvidenceActionItem
<1>2. Strip(item.content) \in Text
  BY <1>1, TextFacts
<1>3. RefineItem(item, segments) \in EvidenceActionItem
  BY <1>2 DEF RefineItem, EvidenceActionItem, RealSources
<1>4. ActionKey(item) = ActionKey(other) => CaseFold(item.content) = CaseFold(other.content)
  BY DEF ActionKey
<1>5. QED BY <1>1, <1>3, <1>4, FoldFacts DEF EvidenceActionItem, ActionItem, DraftAction

\* _action_items drops what is said twice of the same person and date, and nothing else.
LEMMA ActionItemsFacts ==
    ASSUME NEW items \in Seq(EvidenceActionItem)
    PROVE  /\ ActionItems(items) \in Seq(DraftAction)
           /\ \A n \in DOMAIN ActionItems(items) : \E i \in DOMAIN items :
                 ActionItems(items)[n] = ActionItem(items[i])
           /\ \A i \in DOMAIN items : \E n \in DOMAIN ActionItems(items) :
                 ActionItems(items)[n].content.letters = items[i].content.letters
<1> DEFINE keys == [i \in DOMAIN items |-> ActionKey(items[i])]
           first == FirstOfEach(items, keys)
           result == ActionItems(items)
<1>1. \A i \in DOMAIN items : items[i] \in EvidenceActionItem /\ keys[i] = ActionKey(items[i])
  OBVIOUS
<1>2. result = [n \in DOMAIN first |-> ActionItem(first[n])]
  BY DEF ActionItems
<1> HIDE DEF keys, result
<1>3. /\ first \in Seq(EvidenceActionItem)
      /\ \A n \in DOMAIN first : \E i \in DOMAIN items : first[n] = items[i]
      /\ \A i \in DOMAIN items : \E n \in DOMAIN first : \E j \in DOMAIN items :
            first[n] = items[j] /\ keys[j] = keys[i]
  <2>2. /\ FirstOfEach(items, keys) \in Seq(EvidenceActionItem)
        /\ \A n \in DOMAIN FirstOfEach(items, keys) :
              \E i \in DOMAIN items : FirstOfEach(items, keys)[n] = items[i]
        /\ \A i \in DOMAIN items : \E n \in DOMAIN FirstOfEach(items, keys) :
              \E j \in DOMAIN items : FirstOfEach(items, keys)[n] = items[j] /\ keys[j] = keys[i]
        /\ \A n, k \in DOMAIN FirstOfEach(items, keys) : n # k =>
              \E i, j \in DOMAIN items : /\ FirstOfEach(items, keys)[n] = items[i]
                                        /\ FirstOfEach(items, keys)[k] = items[j]
                                        /\ keys[i] # keys[j]
    BY FirstOfEachFacts
  <2>3. QED BY <2>2
<1> HIDE DEF first
<1>4. result \in Seq(DraftAction)
  <2>1. \A n \in 1..Len(first) : ActionItem(first[n]) \in DraftAction
    <3>1. \A n \in 1..Len(first) : first[n] \in EvidenceActionItem
      BY <1>3
    <3>2. QED BY <3>1, ActionFacts
  <2>2. result = [n \in 1..Len(first) |-> ActionItem(first[n])] /\ Len(first) \in Nat
    BY <1>2, <1>3
  <2>3. QED BY <2>1, <2>2
<1>5. ASSUME NEW i \in DOMAIN items
      PROVE  \E n \in DOMAIN result : result[n].content.letters = items[i].content.letters
  <2>1. PICK n \in DOMAIN first : \E j \in DOMAIN items : first[n] = items[j] /\ keys[j] = keys[i]
    BY <1>3
  <2>2. PICK j \in DOMAIN items : first[n] = items[j] /\ keys[j] = keys[i]
    BY <2>1
  <2>3. ActionKey(items[j]) = ActionKey(items[i])
    BY <1>1, <2>2
  <2>4. items[j].content.letters = items[i].content.letters
    BY <1>1, <2>3, ActionFacts
  <2>5. result[n] = ActionItem(items[j]) /\ n \in DOMAIN result
    BY <1>2, <2>2
  <2>6. QED BY <1>1, <2>4, <2>5, ActionFacts
<1>6. \A n \in DOMAIN result : \E i \in DOMAIN items : result[n] = ActionItem(items[i])
  BY <1>2, <1>3
<1>7. QED BY <1>4, <1>5, <1>6 DEF result

\* What finalize_minutes_draft makes of the follow-ups.
LEMMA RefineActionItemsFacts ==
    ASSUME NEW items \in Seq(DraftAction)
    PROVE  /\ \A n \in DOMAIN RefineActionItems(items) : \E i \in DOMAIN items :
                 /\ RefineActionItems(items)[n].content.letters = items[i].content.letters
                 /\ RefineActionItems(items)[n].assignee = items[i].assignee
                 /\ RefineActionItems(items)[n].due = items[i].due
           /\ \A i \in DOMAIN items : IsMeaningfulText(items[i].content) =>
                 \E n \in DOMAIN RefineActionItems(items) :
                    RefineActionItems(items)[n].content.letters = items[i].content.letters
           /\ \A n, k \in DOMAIN RefineActionItems(items) : n # k =>
                 RefineActionItems(items)[n].content.letters
                    # RefineActionItems(items)[k].content.letters
<1> DEFINE cleaned == [i \in DOMAIN items |-> [items[i] EXCEPT !.content = CleanText(@)]]
           places == {i \in DOMAIN cleaned : IsMeaningfulText(cleaned[i].content)}
           kept == At(cleaned, places)
           keys == [i \in DOMAIN kept |-> CaseFold(kept[i].content)]
           result == FirstOfEach(kept, keys)
<1>1. RefineActionItems(items) = result
  BY DEF RefineActionItems
<1>2. ASSUME NEW i \in DOMAIN items
      PROVE  /\ cleaned[i] \in DraftAction
             /\ cleaned[i].content.letters = items[i].content.letters
             /\ cleaned[i].assignee = items[i].assignee
             /\ cleaned[i].due = items[i].due
             /\ cleaned[i].content.spaces = "single"
             /\ IsMeaningfulText(cleaned[i].content) = IsMeaningfulText(items[i].content)
  <2>1. items[i] \in DraftAction
    OBVIOUS
  <2>2. cleaned[i] = [items[i] EXCEPT !.content = CleanText(@)]
    OBVIOUS
  <2> HIDE DEF cleaned
  <2>3. items[i].content \in Text
    BY <2>1 DEF DraftAction
  <2>4. CleanText(items[i].content) \in Text
    BY <2>3, TextFacts
  <2>5. /\ cleaned[i] \in DraftAction /\ cleaned[i].content = CleanText(items[i].content)
        /\ cleaned[i].assignee = items[i].assignee /\ cleaned[i].due = items[i].due
    BY <2>1, <2>2, <2>4 DEF DraftAction
  <2>6. QED BY <2>3, <2>5, TextFacts
<1>3. cleaned \in Seq(DraftAction) /\ DOMAIN cleaned = DOMAIN items
  <2>1. cleaned = [i \in 1..Len(items) |-> cleaned[i]] /\ Len(items) \in Nat
    OBVIOUS
  <2>2. \A i \in 1..Len(items) : cleaned[i] \in DraftAction
    <3>1. DOMAIN items = 1..Len(items)
      OBVIOUS
    <3> HIDE DEF cleaned
    <3>2. QED BY <1>2, <3>1
  <2>3. DOMAIN cleaned = DOMAIN items
    OBVIOUS
  <2> HIDE DEF cleaned
  <2>4. QED BY <2>1, <2>2, <2>3
<1> HIDE DEF cleaned
<1>4. /\ kept \in Seq(DraftAction)
      /\ \A n \in DOMAIN kept : Nth(places, n) \in places /\ kept[n] = cleaned[Nth(places, n)]
      /\ \A i \in places : \E n \in DOMAIN kept : Nth(places, n) = i
  <2>1. places \in SUBSET DOMAIN cleaned
    OBVIOUS
  <2> HIDE DEF places
  <2>2. QED BY <1>3, <2>1, AtFacts
<1>5. \A n \in DOMAIN kept : \E i \in DOMAIN items : kept[n] = cleaned[i]
  BY <1>3, <1>4
<1>6. \A i \in DOMAIN items : IsMeaningfulText(items[i].content) =>
         \E n \in DOMAIN kept : kept[n] = cleaned[i]
  <2>1. \A i \in DOMAIN items : IsMeaningfulText(items[i].content) => i \in places
    BY <1>2, <1>3
  <2>2. QED BY <1>4, <2>1
<1> HIDE DEF places, kept
<1>7. \A n \in DOMAIN kept : keys[n] = CaseFold(kept[n].content) /\ kept[n] \in DraftAction
                             /\ kept[n].content \in Text /\ kept[n].content.spaces = "single"
  BY <1>2, <1>4, <1>5 DEF DraftAction
<1> HIDE DEF keys
<1>8. /\ \A n \in DOMAIN result : \E m \in DOMAIN kept : result[n] = kept[m]
      /\ \A m \in DOMAIN kept : \E n \in DOMAIN result : \E l \in DOMAIN kept :
            result[n] = kept[l] /\ keys[l] = keys[m]
      /\ \A n, k \in DOMAIN result : n # k =>
            \E m, l \in DOMAIN kept : /\ result[n] = kept[m] /\ result[k] = kept[l]
                                      /\ keys[m] # keys[l]
  <2>1. kept \in Seq(DraftAction)
    BY <1>4
  <2>2. /\ FirstOfEach(kept, keys) \in Seq(DraftAction)
        /\ \A n \in DOMAIN FirstOfEach(kept, keys) :
              \E i \in DOMAIN kept : FirstOfEach(kept, keys)[n] = kept[i]
        /\ \A i \in DOMAIN kept : \E n \in DOMAIN FirstOfEach(kept, keys) :
              \E j \in DOMAIN kept : FirstOfEach(kept, keys)[n] = kept[j] /\ keys[j] = keys[i]
        /\ \A n, k \in DOMAIN FirstOfEach(kept, keys) : n # k =>
              \E i, j \in DOMAIN kept : /\ FirstOfEach(kept, keys)[n] = kept[i]
                                        /\ FirstOfEach(kept, keys)[k] = kept[j]
                                        /\ keys[i] # keys[j]
    BY <2>1, FirstOfEachFacts
  <2>3. QED BY <2>2
<1> HIDE DEF result
<1>9. ASSUME NEW n \in DOMAIN result
      PROVE  \E i \in DOMAIN items : /\ result[n].content.letters = items[i].content.letters
                                     /\ result[n].assignee = items[i].assignee
                                     /\ result[n].due = items[i].due
  <2>1. PICK m \in DOMAIN kept : result[n] = kept[m]
    BY <1>8
  <2>2. PICK i \in DOMAIN items : kept[m] = cleaned[i]
    BY <1>5
  <2>3. QED BY <1>2, <2>1, <2>2
<1>10. ASSUME NEW i \in DOMAIN items, IsMeaningfulText(items[i].content)
       PROVE  \E n \in DOMAIN result : result[n].content.letters = items[i].content.letters
  <2>1. PICK m \in DOMAIN kept : kept[m] = cleaned[i]
    BY <1>6, <1>10
  <2>2. PICK n \in DOMAIN result : \E l \in DOMAIN kept : result[n] = kept[l] /\ keys[l] = keys[m]
    BY <1>8
  <2>3. PICK l \in DOMAIN kept : result[n] = kept[l] /\ keys[l] = keys[m]
    BY <2>2
  <2>4. CaseFold(kept[l].content) = CaseFold(kept[m].content)
    BY <1>7, <2>3
  <2>5. kept[l].content.letters = kept[m].content.letters
    BY <1>7, <2>4, FoldFacts
  <2>6. QED BY <1>2, <2>1, <2>3, <2>5
<1>11. ASSUME NEW n \in DOMAIN result, NEW k \in DOMAIN result, n # k
       PROVE  result[n].content.letters # result[k].content.letters
  <2>1. PICK m \in DOMAIN kept : \E l \in DOMAIN kept :
           result[n] = kept[m] /\ result[k] = kept[l] /\ keys[m] # keys[l]
    BY <1>8, <1>11
  <2>2. PICK l \in DOMAIN kept : result[n] = kept[m] /\ result[k] = kept[l] /\ keys[m] # keys[l]
    BY <2>1
  <2>3. CaseFold(kept[m].content) # CaseFold(kept[l].content)
    BY <1>7, <2>2
  <2>4. kept[m].content.letters # kept[l].content.letters
    BY <1>7, <2>3, FoldFacts
  <2>5. QED BY <2>2, <2>4
<1>12. QED BY <1>1, <1>9, <1>10, <1>11
-----------------------------------------------------------------------------
\* The follow-ups of the minutes.
ActionsShown(items, shown) ==
    /\ \A n \in DOMAIN shown : \E i \in DOMAIN items :
          /\ SameText(items[i].content, shown[n].content) /\ Rests(items[i])
          /\ shown[n].details = Details(items[i])
    /\ \A i \in DOMAIN items : Says(items, i) =>
          Cardinality({n \in DOMAIN shown : SameText(shown[n].content, items[i].content)}) = 1

\* From the follow-ups a model gave to those of the minutes.
LEMMA ActionsKept ==
    ASSUME NEW found \in MinutesEvidence
    PROVE  ActionsShown(found.actions, MinutesDraftToTiptap(Made(found)).actions)
<1> DEFINE items == found.actions
           refined == RefineItems(items, segments)
           drafted == ActionItems(refined)
           final == RefineActionItems(drafted)
           shown == [n \in DOMAIN final |-> FormatActionItem(final[n])]
<1>1. items \in Seq(EvidenceActionItem) /\ \A i \in DOMAIN items : items[i] \in EvidenceActionItem
  BY DEF MinutesEvidence
<1>2. MinutesDraftToTiptap(Made(found)).actions = shown
  BY DEF MinutesDraftToTiptap, Made, FinalizeMinutesDraft, EvidenceToMinutesDraft,
         FinalizeMinutesEvidence
<1> HIDE DEF items
<1>3. /\ refined \in Seq({RefineItem(item, segments) : item \in EvidenceActionItem})
      /\ \A n \in DOMAIN refined : \E i \in DOMAIN items :
            Rests(items[i]) /\ refined[n] = RefineItem(items[i], segments)
      /\ \A i \in DOMAIN items : ~IsBlank(items[i].content) /\ Rests(items[i]) =>
            \E n \in DOMAIN refined : refined[n] = RefineItem(items[i], segments)
  BY <1>1, RefineItemsFacts
<1> HIDE DEF refined
<1>4. ASSUME NEW i \in DOMAIN items
      PROVE  /\ items[i].content \in Text
             /\ RefineItem(items[i], segments) \in EvidenceActionItem
             /\ RefineItem(items[i], segments).content.letters = items[i].content.letters
             /\ RefineItem(items[i], segments).assignee = items[i].assignee
             /\ RefineItem(items[i], segments).due = items[i].due
             /\ IsMeaningfulText(RefineItem(items[i], segments).content)
                   = IsMeaningfulText(items[i].content)
             /\ IsMeaningfulText(items[i].content) => ~IsBlank(items[i].content)
  <2>1. items[i] \in EvidenceActionItem
    BY <1>1
  <2>2. /\ items[i].content \in Text
        /\ RefineItem(items[i], segments).content = Strip(items[i].content)
        /\ RefineItem(items[i], segments).assignee = items[i].assignee
        /\ RefineItem(items[i], segments).due = items[i].due
    BY <2>1, RefineItemFacts
  <2>3. QED BY <2>1, <2>2, ActionFacts, TextFacts
<1>5. refined \in Seq(EvidenceActionItem)
  <2>1. \A n \in 1..Len(refined) : refined[n] \in EvidenceActionItem
    BY <1>3, <1>4
  <2>2. refined = [n \in 1..Len(refined) |-> refined[n]] /\ Len(refined) \in Nat
    BY <1>3
  <2>3. QED BY <2>1, <2>2
<1>6. /\ drafted \in Seq(DraftAction)
      /\ \A n \in DOMAIN drafted : \E k \in DOMAIN refined : drafted[n] = ActionItem(refined[k])
      /\ \A k \in DOMAIN refined : \E n \in DOMAIN drafted :
            drafted[n].content.letters = refined[k].content.letters
  BY <1>5, ActionItemsFacts
<1> HIDE DEF drafted
<1>7. ASSUME NEW n \in DOMAIN drafted
      PROVE  \E i \in DOMAIN items :
                /\ Rests(items[i])
                /\ drafted[n].content.letters = items[i].content.letters
                /\ drafted[n].assignee = items[i].assignee /\ drafted[n].due = items[i].due
                /\ IsMeaningfulText(drafted[n].content) = IsMeaningfulText(items[i].content)
  <2>1. PICK k \in DOMAIN refined : drafted[n] = ActionItem(refined[k])
    BY <1>6
  <2>2. PICK i \in DOMAIN items : Rests(items[i]) /\ refined[k] = RefineItem(items[i], segments)
    BY <1>3
  <2>3. /\ drafted[n].content = refined[k].content /\ drafted[n].assignee = refined[k].assignee
        /\ drafted[n].due = refined[k].due
    BY <1>4, <2>1, <2>2, ActionFacts
  <2>4. QED BY <1>4, <2>2, <2>3
<1>8. /\ \A n \in DOMAIN final : \E m \in DOMAIN drafted :
            /\ final[n].content.letters = drafted[m].content.letters
            /\ final[n].assignee = drafted[m].assignee /\ final[n].due = drafted[m].due
      /\ \A m \in DOMAIN drafted : IsMeaningfulText(drafted[m].content) =>
            \E n \in DOMAIN final : final[n].content.letters = drafted[m].content.letters
      /\ \A n, k \in DOMAIN final : n # k =>
            final[n].content.letters # final[k].content.letters
  BY <1>6, RefineActionItemsFacts
<1> HIDE DEF final
<1>9. /\ DOMAIN shown = DOMAIN final
      /\ \A n \in DOMAIN final : /\ shown[n].content = final[n].content
                                 /\ shown[n].details = Details(final[n])
  BY DEF FormatActionItem
<1> HIDE DEF shown
<1>10. ASSUME NEW n \in DOMAIN shown
       PROVE  \E i \in DOMAIN items :
                 /\ SameText(items[i].content, shown[n].content) /\ Rests(items[i])
                 /\ shown[n].details = Details(items[i])
  <2>1. PICK m \in DOMAIN drafted :
           /\ final[n].content.letters = drafted[m].content.letters
           /\ final[n].assignee = drafted[m].assignee /\ final[n].due = drafted[m].due
    BY <1>8, <1>9
  <2>2. PICK i \in DOMAIN items :
           /\ Rests(items[i])
           /\ drafted[m].content.letters = items[i].content.letters
           /\ drafted[m].assignee = items[i].assignee /\ drafted[m].due = items[i].due
    BY <1>7
  <2>3. QED BY <1>9, <2>1, <2>2 DEF SameText, Details
<1>11. ASSUME NEW i \in DOMAIN items, Says(items, i)
       PROVE  Cardinality({n \in DOMAIN shown : SameText(shown[n].content, items[i].content)}) = 1
  <2>1. Rests(items[i]) /\ IsMeaningfulText(items[i].content)
    BY <1>11 DEF Says, SameText
  <2>2. PICK k \in DOMAIN refined : refined[k] = RefineItem(items[i], segments)
    BY <1>3, <1>4, <2>1
  <2>3. PICK m \in DOMAIN drafted : drafted[m].content.letters = refined[k].content.letters
    BY <1>6
  <2>4. drafted[m].content.letters = items[i].content.letters
    BY <1>4, <2>2, <2>3
  <2>5. IsMeaningfulText(drafted[m].content)
    <3>1. PICK j \in DOMAIN items :
             /\ Rests(items[j])
             /\ drafted[m].content.letters = items[j].content.letters
             /\ IsMeaningfulText(drafted[m].content) = IsMeaningfulText(items[j].content)
      BY <1>7
    <3>2. SameText(items[j].content, items[i].content)
      BY <2>4, <3>1 DEF SameText
    <3>3. IsMeaningfulText(items[j].content)
      BY <1>11, <3>1, <3>2 DEF Says
    <3>4. QED BY <3>1, <3>3
  <2>6. PICK n \in DOMAIN final : final[n].content.letters = drafted[m].content.letters
    BY <1>8, <2>5
  <2> DEFINE copies == {c \in DOMAIN shown : SameText(shown[c].content, items[i].content)}
  <2>7. n \in copies
    BY <1>9, <2>4, <2>6 DEF SameText
  <2>8. \A a, b \in copies : a = b
    BY <1>8, <1>9 DEF SameText
  <2> HIDE DEF copies
  <2>9. copies # {}
    BY <2>7
  <2>10. Cardinality(copies) = 1
    BY <2>8, <2>9, Once
  <2>11. QED BY <2>10 DEF copies
<1>12. ActionsShown(items, shown)
  BY <1>10, <1>11 DEF ActionsShown
<1>13. QED BY <1>2, <1>12 DEF items
-----------------------------------------------------------------------------
\* A set that counts as two or more has two elements.
LEMMA TwoOf ==
    ASSUME NEW P, Cardinality(P) >= 2
    PROVE  \E a, b \in P : a # b
<1> SUFFICES ASSUME \A a, b \in P : a = b PROVE FALSE
  OBVIOUS
<1>1. P # {}
  <2>1. SUFFICES ASSUME P = {} PROVE FALSE
    OBVIOUS
  <2>2. Cardinality(P) = 0
    BY <2>1, FS_EmptySet
  <2>3. QED BY <2>2
<1>2. Cardinality(P) = 1
  BY <1>1, Once
<1>3. QED BY <1>2

\* The points on the agenda of the minutes.
AgendaShown(items, shown) ==
    \A n \in DOMAIN shown : \E i \in DOMAIN items :
       /\ SameText(items[i].title, shown[n].title) /\ Rests(items[i])
       /\ \/ items[i].decision # NoText
          \/ \E a, b \in items[i].sources \cap SequencesOf(segments) : a # b

\* From the agenda a model gave to that of the minutes.
LEMMA AgendaKept ==
    ASSUME NEW found \in MinutesEvidence
    PROVE  AgendaShown(found.agenda, MinutesDraftToTiptap(Made(found)).agenda)
<1> DEFINE items == found.agenda
           places == {i \in DOMAIN items : KeepsAgendaItem(items[i], segments)}
           kept == At(items, places)
           refined == [i \in DOMAIN kept |-> RefineAgendaItem(kept[i], segments)]
           drafted == [i \in DOMAIN refined |-> AgendaItem(refined[i])]
           shown == RefineAgendaItems(drafted)
<1>1. items \in Seq(EvidenceAgendaItem)
  BY DEF MinutesEvidence
<1>2. MinutesDraftToTiptap(Made(found)).agenda = shown
  BY DEF MinutesDraftToTiptap, Made, FinalizeMinutesDraft, EvidenceToMinutesDraft,
         FinalizeMinutesEvidence
<1> HIDE DEF items
<1>3. /\ kept \in Seq(EvidenceAgendaItem)
      /\ \A n \in DOMAIN kept : Nth(places, n) \in places /\ kept[n] = items[Nth(places, n)]
  <2>1. places \in SUBSET DOMAIN items
    OBVIOUS
  <2> HIDE DEF places
  <2>2. QED BY <1>1, <2>1, AtFacts
<1>4. \A n \in DOMAIN kept : \E i \in DOMAIN items :
         KeepsAgendaItem(items[i], segments) /\ kept[n] = items[i]
  BY <1>3
<1> HIDE DEF places, kept
<1>5. /\ DOMAIN drafted = DOMAIN kept
      /\ \A n \in DOMAIN kept : drafted[n].title = Strip(kept[n].title)
  BY DEF RefineAgendaItem, AgendaItem
<1>6. drafted \in Seq({drafted[n] : n \in DOMAIN drafted})
  <2>1. drafted = [n \in 1..Len(kept) |-> drafted[n]] /\ Len(kept) \in Nat
    BY <1>3
  <2> HIDE DEF drafted
  <2>2. QED BY <2>1
<1> HIDE DEF drafted
<1>7. ASSUME NEW n \in DOMAIN shown
      PROVE  \E m \in DOMAIN drafted : shown[n].title = CleanText(drafted[m].title)
  <2> DEFINE long == {m \in DOMAIN drafted : DiscussionLength(drafted[m].discussion) >= MinDiscussion}
             rest == At(drafted, long)
  <2>1. /\ DOMAIN shown = DOMAIN rest
        /\ \A m \in DOMAIN rest : shown[m].title = CleanText(rest[m].title)
    BY DEF RefineAgendaItems
  <2>2. \A m \in DOMAIN rest : Nth(long, m) \in long /\ rest[m] = drafted[Nth(long, m)]
    <3>1. long \in SUBSET DOMAIN drafted
      OBVIOUS
    <3> HIDE DEF long, shown
    <3>2. QED BY <1>6, <3>1, AtFacts
  <2>3. long \subseteq DOMAIN drafted
    OBVIOUS
  <2> HIDE DEF long, rest, shown
  <2>4. QED BY <2>1, <2>2, <2>3
<1> HIDE DEF shown
<1>8. ASSUME NEW n \in DOMAIN shown
      PROVE  \E i \in DOMAIN items :
                /\ SameText(items[i].title, shown[n].title) /\ Rests(items[i])
                /\ \/ items[i].decision # NoText
                   \/ \E a, b \in items[i].sources \cap SequencesOf(segments) : a # b
  <2>1. PICK m \in DOMAIN drafted : shown[n].title = CleanText(drafted[m].title)
    BY <1>7
  <2>2. PICK i \in DOMAIN items : KeepsAgendaItem(items[i], segments) /\ kept[m] = items[i]
    BY <1>4, <1>5
  <2>3. items[i].title \in Text
    <3>1. items[i] \in EvidenceAgendaItem
      BY <1>1
    <3>2. QED BY <3>1 DEF EvidenceAgendaItem
  <2>4. shown[n].title.letters = items[i].title.letters
    <3>1. drafted[m].title = Strip(items[i].title)
      BY <1>5, <2>2
    <3>2. Strip(items[i].title) \in Text /\ Strip(items[i].title).letters = items[i].title.letters
      BY <2>3, TextFacts
    <3>3. CleanText(drafted[m].title).letters = drafted[m].title.letters
      BY <3>1, <3>2, TextFacts
    <3>4. QED BY <2>1, <3>1, <3>2, <3>3
  <2>5. Rests(items[i])
    BY <2>2, SupportFacts DEF KeepsAgendaItem
  <2>6. ASSUME items[i].decision = NoText
        PROVE  \E a, b \in items[i].sources \cap SequencesOf(segments) : a # b
    <3>1. Cardinality(RealSources(items[i], segments)) >= 2
      BY <2>2, <2>6 DEF KeepsAgendaItem
    <3>2. Cardinality(items[i].sources \cap SequencesOf(segments)) >= 2
      BY <3>1 DEF RealSources
    <3>3. QED BY <3>2, TwoOf
  <2>7. QED BY <2>4, <2>5, <2>6 DEF SameText
<1>9. AgendaShown(items, shown)
  BY <1>8 DEF AgendaShown
<1>10. QED BY <1>2, <1>9 DEF items
-----------------------------------------------------------------------------
\* Every decision, follow-up and agenda item of the minutes is one the model gave, with a source
\* that exists and is trusted (finalize_minutes_evidence, finalize_minutes_draft), whatever the
\* model answers.
THEOREM NothingIsInvented == Spec => []GroundedOnly
<1>1. WorkflowInv => GroundedOnly
  <2> SUFFICES ASSUME WorkflowInv, verdict = "drafted" PROVE GroundedOnly
    BY DEF GroundedOnly
  <2>1. evidence \in MinutesEvidence /\ document = MinutesDraftToTiptap(Made(evidence))
    BY DEF WorkflowInv
  <2>2. /\ DecisionsShown(evidence.decisions, document.decisions)
        /\ ActionsShown(evidence.actions, document.actions)
        /\ AgendaShown(evidence.agenda, document.agenda)
    BY <2>1, DecisionsKept, ActionsKept, AgendaKept
  <2>3. \A n \in DOMAIN document.decisions : \E i \in DOMAIN evidence.decisions :
           SameText(evidence.decisions[i].content, document.decisions[n])
           /\ Rests(evidence.decisions[i])
    BY <2>2 DEF DecisionsShown
  <2>4. \A n \in DOMAIN document.actions : \E i \in DOMAIN evidence.actions :
           /\ SameText(evidence.actions[i].content, document.actions[n].content)
           /\ Rests(evidence.actions[i])
           /\ document.actions[n].details = Details(evidence.actions[i])
    BY <2>2 DEF ActionsShown
  <2>5. \A n \in DOMAIN document.agenda : \E i \in DOMAIN evidence.agenda :
           /\ SameText(evidence.agenda[i].title, document.agenda[n].title)
           /\ Rests(evidence.agenda[i])
           /\ \/ evidence.agenda[i].decision # NoText
              \/ \E a, b \in evidence.agenda[i].sources \cap SequencesOf(segments) : a # b
    BY <2>2 DEF AgendaShown
  <2>6. QED BY <2>3, <2>4, <2>5 DEF GroundedOnly
<1>2. QED BY <1>1, WorkflowInvariant, PTL

\* No decision or follow-up that rests on a trusted segment and says something gets lost on the
\* way to the editor, and none is shown twice, however the model spells and repeats it
\* (_unique_preserve_order, _action_items, _dedupe_texts, _refine_action_items).
THEOREM NothingIsLost == Spec => []KeptOnce
<1>1. WorkflowInv => KeptOnce
  <2> SUFFICES ASSUME WorkflowInv, verdict = "drafted" PROVE KeptOnce
    BY DEF KeptOnce
  <2>1. evidence \in MinutesEvidence /\ document = MinutesDraftToTiptap(Made(evidence))
    BY DEF WorkflowInv
  <2>2. /\ DecisionsShown(evidence.decisions, document.decisions)
        /\ ActionsShown(evidence.actions, document.actions)
    BY <2>1, DecisionsKept, ActionsKept
  <2>3. QED BY <2>2 DEF KeptOnce, DecisionsShown, ActionsShown
<1>2. QED BY <1>1, WorkflowInvariant, PTL
-----------------------------------------------------------------------------
\* The letters of a script in some lines of a list, told apart by line and number.
LettersAt(lines, places, script) ==
    UNION {{i} \X (1..lines[i].count[script]) : i \in places}
Moved(places, chosen) == {Nth(places, n) : n \in chosen}
SpeechOf(lines) == {i \in DOMAIN lines : lines[i].kind = "speech"}

\* What is counted of a line; of a blank one, nothing.
LEMMA CountFacts ==
    ASSUME NEW lines \in Seq(Line), NEW i \in DOMAIN lines, NEW script \in ToSet(Scripts)
    PROVE  /\ lines[i].count[script] \in Nat
           /\ lines[i].kind \in {"speech", "link", "blank"}
           /\ lines[i].kind = "blank" => lines[i].count[script] = 0
<1>1. lines[i] \in Line
  OBVIOUS
<1>2. QED BY <1>1 DEF Line

\* There are finitely many letters.
LEMMA LettersAtFinite ==
    ASSUME NEW lines \in Seq(Line), NEW places \in SUBSET DOMAIN lines, NEW script \in ToSet(Scripts)
    PROVE  IsFiniteSet(LettersAt(lines, places, script))
<1> DEFINE Block(i) == {i} \X (1..lines[i].count[script])
           blocks == {Block(i) : i \in places}
           block == [i \in places |-> Block(i)]
<1>1. IsFiniteSet(places)
  <2>1. Len(lines) \in Nat /\ places \in SUBSET (1..Len(lines))
    OBVIOUS
  <2>2. QED BY <2>1, RankFacts
<1>2. \A i \in places : IsFiniteSet(Block(i))
  <2> SUFFICES ASSUME NEW i \in places PROVE IsFiniteSet(Block(i))
    OBVIOUS
  <2>1. lines[i].count[script] \in Nat
    BY CountFacts
  <2>2. IsFiniteSet({i}) /\ IsFiniteSet(1..lines[i].count[script])
    BY <2>1, IntervalFacts, FS_Singleton
  <2>3. QED BY <2>2, FS_Product
<1>3. block \in [places -> blocks] /\ \A b \in blocks : \E i \in places : block[i] = b
  <2> HIDE DEF Block
  <2>1. QED OBVIOUS
<1>4. \A b \in blocks : IsFiniteSet(b)
  <2> HIDE DEF Block
  <2>1. QED BY <1>2
<1>5. LettersAt(lines, places, script) = UNION blocks
  BY DEF LettersAt
<1> HIDE DEF blocks, block
<1>6. block \in Surjection(places, blocks)
  BY <1>3, Fun_IsSurj
<1>7. IsFiniteSet(blocks)
  BY <1>1, <1>6, FS_Surjection
<1>8. QED BY <1>4, <1>5, <1>7, FS_UNION

\* Sets with a bijection between them count the same.
LEMMA SameCardinality ==
    ASSUME NEW S, IsFiniteSet(S), NEW T, NEW f \in [S -> T],
           \A a, b \in S : f[a] = f[b] => a = b, \A t \in T : \E a \in S : f[a] = t
    PROVE  Cardinality(T) = Cardinality(S)
<1>1. f \in Bijection(S, T)
  BY Fun_IsBij
<1>2. ExistsBijection(S, T)
  BY <1>1, Fun_ExistsBij
<1>3. QED BY <1>2, FS_Bijection

\* To take some lines of a list leaves their letters as many as they are.
LEMMA LettersMoved ==
    ASSUME NEW lines \in Seq(Line), NEW places \in SUBSET DOMAIN lines,
           NEW chosen \in SUBSET DOMAIN At(lines, places), NEW script \in ToSet(Scripts)
    PROVE  Cardinality(LettersAt(At(lines, places), chosen, script))
              = Cardinality(LettersAt(lines, Moved(places, chosen), script))
<1> DEFINE taken == At(lines, places)
           S == LettersAt(taken, chosen, script)
           T == LettersAt(lines, Moved(places, chosen), script)
           f == [x \in S |-> <<Nth(places, x[1]), x[2]>>]
<1>1. /\ taken \in Seq(Line)
      /\ \A n \in DOMAIN taken : Nth(places, n) \in places /\ taken[n] = lines[Nth(places, n)]
      /\ \A n, k \in DOMAIN taken : Nth(places, n) = Nth(places, k) => n = k
  BY AtFacts
<1>2. chosen \in SUBSET DOMAIN taken
  OBVIOUS
<1> HIDE DEF taken
<1>3. \A x \in S : \E n \in chosen : \E c \in 1..taken[n].count[script] : x = <<n, c>>
  BY DEF LettersAt
<1>4. \A n \in chosen : \A c \in 1..taken[n].count[script] : <<n, c>> \in S
  BY DEF LettersAt
<1>5. \A y \in T : \E n \in chosen : \E c \in 1..lines[Nth(places, n)].count[script] :
         y = <<Nth(places, n), c>>
  BY DEF LettersAt, Moved
<1>6. \A n \in chosen : \A c \in 1..lines[Nth(places, n)].count[script] : <<Nth(places, n), c>> \in T
  BY DEF LettersAt, Moved
<1> HIDE DEF S, T
<1>7. f \in [S -> T]
  <2>1. ASSUME NEW x \in S PROVE <<Nth(places, x[1]), x[2]>> \in T
    <3>1. PICK n \in chosen : \E c \in 1..taken[n].count[script] : x = <<n, c>>
      BY <1>3
    <3>2. PICK c \in 1..taken[n].count[script] : x = <<n, c>>
      BY <3>1
    <3>3. taken[n] = lines[Nth(places, n)]
      BY <1>1, <1>2
    <3>4. <<Nth(places, n), c>> \in T
      BY <1>6, <3>3
    <3>5. QED BY <3>2, <3>4
  <2>2. QED BY <2>1
<1>8. ASSUME NEW x \in S, NEW y \in S, f[x] = f[y] PROVE x = y
  <2>1. PICK n \in chosen : \E c \in 1..taken[n].count[script] : x = <<n, c>>
    BY <1>3
  <2>2. PICK c \in 1..taken[n].count[script] : x = <<n, c>>
    BY <2>1
  <2>3. PICK k \in chosen : \E d \in 1..taken[k].count[script] : y = <<k, d>>
    BY <1>3
  <2>4. PICK d \in 1..taken[k].count[script] : y = <<k, d>>
    BY <2>3
  <2>5. <<Nth(places, n), c>> = <<Nth(places, k), d>>
    BY <1>8, <2>2, <2>4
  <2>6. n = k /\ c = d
    BY <1>1, <1>2, <2>5
  <2>7. QED BY <2>2, <2>4, <2>6
<1>9. ASSUME NEW y \in T PROVE \E x \in S : f[x] = y
  <2>1. PICK n \in chosen : \E c \in 1..lines[Nth(places, n)].count[script] :
           y = <<Nth(places, n), c>>
    BY <1>5
  <2>2. PICK c \in 1..lines[Nth(places, n)].count[script] : y = <<Nth(places, n), c>>
    BY <2>1
  <2>3. taken[n] = lines[Nth(places, n)]
    BY <1>1, <1>2
  <2>4. <<n, c>> \in S
    BY <1>4, <2>2, <2>3
  <2>5. f[<<n, c>>] = y
    BY <2>2, <2>4
  <2>6. QED BY <2>4, <2>5
<1>10. IsFiniteSet(S)
  BY <1>1, <1>2, LettersAtFinite DEF S
<1> HIDE DEF f
<1>11. Cardinality(T) = Cardinality(S)
  BY <1>7, <1>8, <1>9, <1>10, SameCardinality
<1>12. QED BY <1>11 DEF S, T, taken

\* How many letters were spoken.
SpokenCount(lines, script) == Cardinality(LettersAt(lines, SpeechOf(lines), script))

\* Lines that are left out do not change that, if nothing was spoken in them.
LEMMA SpokenCountKept ==
    ASSUME NEW lines \in Seq(Line), NEW places \in SUBSET DOMAIN lines,
           SpeechOf(lines) \subseteq places, NEW script \in ToSet(Scripts)
    PROVE  SpokenCount(At(lines, places), script) = SpokenCount(lines, script)
<1> DEFINE taken == At(lines, places)
           chosen == SpeechOf(taken)
<1>1. /\ \A n \in DOMAIN taken : Nth(places, n) \in places /\ taken[n] = lines[Nth(places, n)]
      /\ \A i \in places : \E n \in DOMAIN taken : Nth(places, n) = i
  BY AtFacts
<1> HIDE DEF taken
<1>2. Moved(places, chosen) = SpeechOf(lines)
  BY <1>1 DEF Moved, SpeechOf
<1>3. chosen \in SUBSET DOMAIN taken
  BY DEF SpeechOf
<1> HIDE DEF chosen
<1>4. Cardinality(LettersAt(taken, chosen, script))
         = Cardinality(LettersAt(lines, Moved(places, chosen), script))
  BY <1>3, LettersMoved DEF taken
<1>5. QED BY <1>2, <1>4 DEF SpokenCount, chosen, taken

\* Letters counts the lines of a list, blank ones included, for nothing.
LEMMA LettersOfAt ==
    ASSUME NEW lines \in Seq(Line), NEW places \in SUBSET DOMAIN lines, NEW script \in ToSet(Scripts),
           SpeechOf(lines) \subseteq places, \A i \in places : lines[i].kind # "link"
    PROVE  Cardinality(Letters(At(lines, places), script)) = SpokenCount(lines, script)
<1> DEFINE taken == At(lines, places)
           every == DOMAIN taken
<1>1. /\ \A n \in DOMAIN taken : Nth(places, n) \in places
      /\ \A i \in places : \E n \in DOMAIN taken : Nth(places, n) = i
  BY AtFacts
<1>2. Letters(taken, script) = LettersAt(taken, every, script)
  BY DEF Letters, LettersAt
<1>3. every \in SUBSET DOMAIN taken
  OBVIOUS
<1>4. Cardinality(LettersAt(taken, every, script))
         = Cardinality(LettersAt(lines, Moved(places, every), script))
  <2> HIDE DEF every
  <2>1. QED BY <1>3, LettersMoved
<1> HIDE DEF taken
<1>5. Moved(places, every) = places
  BY <1>1 DEF Moved
<1> HIDE DEF every
<1>6. LettersAt(lines, places, script) = LettersAt(lines, SpeechOf(lines), script)
  <2>1. \A i \in places \ SpeechOf(lines) : (1..lines[i].count[script]) = {}
    <3> SUFFICES ASSUME NEW i \in places, i \notin SpeechOf(lines)
                 PROVE  (1..lines[i].count[script]) = {}
      OBVIOUS
    <3>1. lines[i].kind = "blank"
      BY CountFacts DEF SpeechOf
    <3>2. lines[i].count[script] = 0
      BY <3>1, CountFacts
    <3>3. QED BY <3>2
  <2>2. QED BY <2>1 DEF LettersAt
<1>7. QED BY <1>2, <1>4, <1>5, <1>6 DEF SpokenCount, taken
-----------------------------------------------------------------------------
\* What was spoken is Korean.
SpokenKorean(lines) == IsKoreanCount(SpokenCount(lines, "hangul"), SpokenCount(lines, "latin"))

\* Hangul and Latin letters are counted.
LEMMA ScriptNames == "hangul" \in ToSet(Scripts) /\ "latin" \in ToSet(Scripts)
<1>1. ToSet(Scripts) = {Scripts[i] : i \in DOMAIN Scripts}
  BY DEF ToSet
<1>2. 1 \in DOMAIN Scripts /\ 2 \in DOMAIN Scripts /\ Scripts[1] = "hangul" /\ Scripts[2] = "latin"
  BY DEF Scripts
<1>3. QED BY <1>1, <1>2

\* Whether lines are Korean is a matter of what was spoken in them.
LEMMA KoreanFacts ==
    ASSUME NEW lines \in Seq(Line)
    PROVE  /\ IsKoreanDominant(Normalize(lines)) = SpokenKorean(lines)
           /\ IsKoreanDominant(At(lines, {i \in DOMAIN lines : lines[i].kind # "link"}))
                 = SpokenKorean(lines)
<1> DEFINE said == SpeechOf(lines)
           shown == {i \in DOMAIN lines : lines[i].kind # "link"}
<1>1. /\ said \in SUBSET DOMAIN lines /\ shown \in SUBSET DOMAIN lines
      /\ SpeechOf(lines) \subseteq said /\ SpeechOf(lines) \subseteq shown
      /\ \A i \in said : lines[i].kind # "link"
      /\ \A i \in shown : lines[i].kind # "link"
  BY DEF SpeechOf
<1>2. Normalize(lines) = At(lines, said)
  BY DEF Normalize, SpeechOf
<1> HIDE DEF said, shown
<1>3. ASSUME NEW script \in ToSet(Scripts)
      PROVE  /\ Cardinality(Letters(At(lines, said), script)) = SpokenCount(lines, script)
             /\ Cardinality(Letters(At(lines, shown), script)) = SpokenCount(lines, script)
  BY <1>1, LettersOfAt
<1>4. QED BY <1>2, <1>3, ScriptNames DEF IsKoreanDominant, SpokenKorean, shown

\* The segments of a context with a text are those that say what was spoken.
LEMMA ContextFacts ==
    ASSUME NEW list \in Seq(Segment)
    PROVE  /\ SegmentsFromContext(list) \in Seq(Segment)
           /\ SpokenKorean(LinesOf(SegmentsFromContext(list))) = SpokenKorean(LinesOf(list))
           /\ SegmentsFromContext(list) = <<>> => ~SpokenKorean(LinesOf(list))
<1> DEFINE lines == LinesOf(list)
           places == {i \in DOMAIN list : list[i].line.kind # "blank"}
           given == SegmentsFromContext(list)
<1>1. given = At(list, places) /\ places \in SUBSET DOMAIN list
  BY DEF SegmentsFromContext
<1>2. /\ lines \in Seq(Line) /\ DOMAIN lines = DOMAIN list
      /\ \A i \in DOMAIN list : lines[i] = list[i].line
  BY LinesOfFacts
<1>3. SpeechOf(lines) \subseteq places /\ places \in SUBSET DOMAIN lines
  BY <1>2 DEF SpeechOf
<1> HIDE DEF given, places, lines
<1>4. /\ given \in Seq(Segment)
      /\ DOMAIN given = 1..Cardinality(places)
      /\ \A n \in DOMAIN given : Nth(places, n) \in places /\ given[n] = list[Nth(places, n)]
      /\ \A i \in places : \E n \in DOMAIN given : Nth(places, n) = i
  BY <1>1, AtFacts
<1>5. LinesOf(given) = At(lines, places)
  <2>1. LinesOf(given) = [n \in 1..Cardinality(places) |-> given[n].line]
    BY <1>4 DEF LinesOf
  <2>2. At(lines, places) = [n \in 1..Cardinality(places) |-> lines[Nth(places, n)]]
    BY DEF At
  <2>3. \A n \in 1..Cardinality(places) : given[n].line = lines[Nth(places, n)]
    BY <1>1, <1>2, <1>4
  <2>4. QED BY <2>1, <2>2, <2>3
<1>6. SpokenKorean(LinesOf(given)) = SpokenKorean(lines)
  BY <1>2, <1>3, <1>5, SpokenCountKept, ScriptNames DEF SpokenKorean
<1>7. ASSUME given = <<>> PROVE ~SpokenKorean(lines)
  <2>1. SpeechOf(lines) = {}
    BY <1>3, <1>4, <1>7
  <2>2. SpokenCount(lines, "hangul") = 0
    BY <2>1, FS_EmptySet DEF SpokenCount, LettersAt
  <2>3. QED BY <2>2 DEF SpokenKorean, IsKoreanCount
<1>8. QED BY <1>4, <1>6, <1>7 DEF given, lines

\* What execute takes for the transcript is as Korean as what the backend holds.
LEMMA SpokenFacts ==
    ASSUME WorkflowInv
    PROVE  LET lines == IF inline \/ meeting.segments = <<>> THEN meeting.raw
                        ELSE LinesOf(meeting.segments)
           IN lines \in Seq(Line) /\ (SpokenKorean(lines) => IsKoreanDominant(Spoken))
<1> DEFINE raw == meeting.raw
           listed == IF inline THEN TranscriptToSegments(raw) ELSE meeting.segments
<1>1. raw \in Seq(Line) /\ meeting.segments \in Seq(Segment)
  BY MeetingsAssumption DEF WorkflowInv
<1>2. /\ TranscriptToSegments(raw) \in Seq(Segment)
      /\ LinesOf(TranscriptToSegments(raw)) = Normalize(raw)
  BY <1>1, TranscriptToSegmentsFacts
<1>3. listed \in Seq(Segment) /\ Given = SegmentsFromContext(listed)
  BY <1>1, <1>2 DEF Given
<1>4. /\ Given \in Seq(Segment)
      /\ SpokenKorean(LinesOf(Given)) = SpokenKorean(LinesOf(listed))
      /\ Given = <<>> => ~SpokenKorean(LinesOf(listed))
  <2> HIDE DEF listed
  <2>1. QED BY <1>3, ContextFacts
<1>5. IsKoreanDominant(Spoken)
         = IF Given = <<>> THEN SpokenKorean(raw) ELSE SpokenKorean(LinesOf(Given))
  <2>1. LinesOf(Given) \in Seq(Line)
    BY <1>4, LinesOfFacts
  <2>2. CASE Given = <<>>
    <3>1. Spoken = Normalize(raw)
      BY <2>2 DEF Spoken
    <3>2. QED BY <1>1, <2>2, <3>1, KoreanFacts
  <2>3. CASE Given # <<>>
    <3>1. Spoken = Normalize(LinesOf(Given))
      BY <2>3 DEF Spoken
    <3>2. QED BY <2>1, <2>3, <3>1, KoreanFacts
  <2>4. QED BY <2>2, <2>3
<1>6. CASE inline
  <2>1. LinesOf(listed) = Normalize(raw)
    BY <1>2, <1>6
  <2>2. SpokenKorean(Normalize(raw)) = SpokenKorean(raw)
    <3>1. Normalize(raw) = At(raw, SpeechOf(raw)) /\ SpeechOf(raw) \in SUBSET DOMAIN raw
      BY DEF Normalize, SpeechOf
    <3>2. QED BY <1>1, <3>1, SpokenCountKept, ScriptNames DEF SpokenKorean
  <2>3. QED BY <1>1, <1>4, <1>5, <1>6, <2>1, <2>2
<1>7. CASE ~inline /\ meeting.segments = <<>>
  <2>1. Given = <<>>
    <3>1. listed = <<>>
      BY <1>7
    <3>2. DOMAIN listed = {}
      BY <3>1
    <3> HIDE DEF listed
    <3>3. {i \in DOMAIN listed : listed[i].line.kind # "blank"} = {}
      BY <3>2
    <3>4. Given = At(listed, {})
      BY <1>3, <3>3 DEF SegmentsFromContext
    <3>5. Cardinality({}) = 0
      BY FS_EmptySet
    <3>6. QED BY <3>4, <3>5 DEF At
  <2>2. QED BY <1>1, <1>5, <1>7, <2>1
<1>8. CASE ~inline /\ meeting.segments # <<>>
  <2>1. listed = meeting.segments
    BY <1>8
  <2>2. LinesOf(meeting.segments) \in Seq(Line)
    BY <1>1, LinesOfFacts
  <2>3. QED BY <1>4, <1>5, <1>8, <2>1, <2>2
<1>9. QED BY <1>6, <1>7, <1>8

\* The minutes of a meeting held in Korean have a Korean summary: links do not count as speech,
\* wherever the transcript comes from (normalize_raw_transcript, _validate_summary_quality).
THEOREM SummariesStayKorean == Spec => []KoreanStaysKorean
<1>1. WorkflowInv => KoreanStaysKorean
  <2> DEFINE lines == IF inline \/ meeting.segments = <<>> THEN meeting.raw
                      ELSE LinesOf(meeting.segments)
             summary == Made(evidence).summary
  <2> SUFFICES ASSUME WorkflowInv, verdict = "drafted",
                      IsKoreanDominant(At(lines, {i \in DOMAIN lines : lines[i].kind # "link"}))
               PROVE  \E n \in DOMAIN document.summary :
                         LET text == document.summary[n]
                         IN text.hangul > 0 /\ text.hangul >= text.latin
    BY DEF KoreanStaysKorean
  <2>1. lines \in Seq(Line) /\ (SpokenKorean(lines) => IsKoreanDominant(Spoken))
    BY SpokenFacts
  <2>2. /\ document.summary = <<summary>> /\ transcript = Spoken
        /\ IsAcceptableSummary(summary, transcript)
    BY DEF WorkflowInv, MinutesDraftToTiptap
  <2> HIDE DEF lines, summary
  <2>3. SpokenKorean(lines)
    BY <2>1, KoreanFacts
  <2>4. summary.hangul > 0 /\ summary.hangul >= summary.latin
    BY <2>1, <2>2, <2>3 DEF IsAcceptableSummary, IsKoreanCount
  <2>5. QED BY <2>2, <2>4
<1>2. QED BY <1>1, WorkflowInvariant, PTL
-----------------------------------------------------------------------------
\* The backend decides about a context that is as it should be only in ways that may pass.
LEMMA PermanentLoads ==
    ASSUME NEW answer \in Answers, LoadFailure(answer) = "permanent"
    PROVE  meeting.context # "fine"
<1> SUFFICES ASSUME meeting.context = "fine" PROVE FALSE
  OBVIOUS
<1>1. answer \in {"lost", "failed", "unknown", "context", "pending"}
  BY DEF Answers
<1>2. QED BY <1>1 DEF LoadFailure

\* Preparing the prompt can only fail in a way that may pass.
LEMMA PrepareVerdict ==
    ASSUME NEW listed, NEW raw, Prepare(listed, raw)
    PROVE  verdict' \in {verdict, "retryable"} /\ UNCHANGED <<meeting, inline>>
BY DEF Prepare, End

\* A request is given up for good only after the backend refused or garbled its context or a
\* model answered: a transcript that is late and services that are out leave it to be retried.
THEOREM GivenUpOnlyForReason == Spec => []GivenUpForReason
<1>1. Init => GivenUpForReason
  BY DEF Init, GivenUpForReason
<1>2. GivenUpForReason /\ [Next]_vars => GivenUpForReason'
  <2> SUFFICES ASSUME GivenUpForReason, [Next]_vars PROVE GivenUpForReason'
    OBVIOUS
  <2> USE DEF GivenUpForReason
  <2>1. CASE Save
    BY <2>1 DEF Save
  <2>2. CASE LoadInline
    <3>1. verdict' \in {verdict, "retryable"} /\ UNCHANGED <<meeting, inline, answered>>
      BY <2>2, PrepareVerdict DEF LoadInline
    <3>2. QED BY <3>1
  <2>3. ASSUME NEW answer \in Answers, Load(answer) PROVE GivenUpForReason'
    <3>1. ~inline /\ UNCHANGED answered
      BY <2>3 DEF Load
    <3>2. CASE LoadFailure(answer) = "none"
      <4>1. verdict' \in {verdict, "retryable"} /\ UNCHANGED <<meeting, inline>>
        BY <2>3, <3>2, PrepareVerdict DEF Load
      <4>2. QED BY <3>1, <4>1
    <3>3. CASE LoadFailure(answer) # "none"
      <4>1. verdict' = LoadFailure(answer) /\ UNCHANGED <<meeting, inline>>
        BY <2>3, <3>3 DEF Load, End
      <4>2. QED BY <3>1, <4>1, PermanentLoads
    <3>4. QED BY <3>2, <3>3
  <2>4. ASSUME NEW primary \in Primaries, NEW fallback \in Fallbacks,
               NEW output \in Outputs[meeting.topic], Generate(primary, fallback, output)
        PROVE  GivenUpForReason'
    <3> DEFINE made == FinalizeMinutesDraft(EvidenceToMinutesDraft(
                           FinalizeMinutesEvidence(output, segments)))
               result == Generated(primary, fallback)
               blocks == MinutesDraftToTiptap(made)
               good == IsAcceptableSummary(made.summary, transcript)
    <3>1. /\ answered' = (answered \/ result # "unavailable")
          /\ CASE result = "unavailable" -> End("retryable")
               [] result \in {"empty", "invalid"} -> End("permanent")
               [] result = "ok" /\ ~good -> End("permanent")
               [] OTHER -> /\ stage' = "ended" /\ verdict' = "drafted"
                           /\ evidence' = output
                           /\ draft' = made
                           /\ document' = blocks
                           /\ UNCHANGED <<meeting, inline, saved, attempt, segments, transcript>>
      BY <2>4, Zenon DEF Generate
    <3> HIDE DEF made, blocks, good, result
    <3>4. UNCHANGED <<meeting, inline>>
      BY <3>1 DEF End
    <3>2. CASE result = "unavailable"
      <4>1. verdict' = "retryable"
        BY <3>1, <3>2 DEF End
      <4>2. QED BY <3>1, <4>1
    <3>3. CASE result # "unavailable"
      BY <3>1, <3>3
    <3>5. QED BY <3>2, <3>3
  <2>5. CASE TryAgain
    BY <2>5 DEF TryAgain
  <2>6. CASE UNCHANGED vars
    BY <2>6 DEF vars
  <2>7. QED BY <2>1, <2>2, <2>3, <2>4, <2>5, <2>6 DEF Next
<1>3. QED BY <1>1, <1>2, PTL DEF Spec
=============================================================================
