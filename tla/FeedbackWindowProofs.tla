------------------------ MODULE FeedbackWindowProofs ------------------------
(***************************************************************************)
(* Proofs about FeedbackWindow for any sessions, segments and settings,    *)
(* any clock bound and any number of faults.                               *)
(***************************************************************************)
EXTENDS FeedbackWindow, SequenceTheorems, WellFoundedInduction, TLAPS

(* Segments in line: what _append_segment and _trim_expired_segments keep. *)

\* x holds at most max_segments segments of session s in order, and ids names them.
Line(s, x, ids) ==
    /\ Len(x) <= MaxSegments
    /\ \A i \in 1..Len(x) : SessionOf[x[i]] = s
    /\ \A i, j \in 1..Len(x) : i < j => /\ Number[x[i]] < Number[x[j]]
                                         /\ IdOf[x[i]] # IdOf[x[j]]
    /\ ids = {IdOf[x[i]] : i \in 1..Len(x)}

\* Dropping the first k - 1 segments and their ids.
LEMMA DropFront ==
    ASSUME NEW s \in Sessions, NEW x \in Seq(Segments), NEW ids, Line(s, x, ids),
           NEW k \in 1..(Len(x) + 1)
    PROVE  /\ SubSeq(x, k, Len(x)) \in Seq(Segments)
           /\ Len(SubSeq(x, k, Len(x))) = Len(x) - k + 1
           /\ \A i \in 1..(Len(x) - k + 1) : SubSeq(x, k, Len(x))[i] = x[k + i - 1]
           /\ Line(s, SubSeq(x, k, Len(x)), ids \ {IdOf[x[i]] : i \in 1..(k - 1)})
<1> DEFINE y == SubSeq(x, k, Len(x))
           n == Len(x)
<1>1. n \in Nat /\ k \in Int /\ \A i \in 1..n : x[i] \in Segments
  OBVIOUS
<1>2. /\ y \in Seq(Segments)
      /\ Len(y) = n - k + 1
      /\ \A i \in 1..(n - k + 1) : y[i] = x[k + i - 1]
  <2>1. \A i \in k..n : x[i] \in Segments BY <1>1
  <2>2. /\ y \in Seq(Segments)
        /\ Len(y) = IF k <= n THEN n - k + 1 ELSE 0
        /\ \A i \in 1..(n - k + 1) : y[i] = x[k + i - 1]
    BY <1>1, <2>1, SubSeqProperties
  <2> QED BY <1>1, <2>2
<1> HIDE DEF y, n
<1>3. \A i \in 1..(n - k + 1) : k + i - 1 \in 1..n
  BY <1>1
<1>4. MaxSegments \in Nat BY ConstantsAssumption
<1>5. Len(y) <= MaxSegments
  BY <1>1, <1>2, <1>4 DEF Line, n
<1>6. \A i \in 1..Len(y) : SessionOf[y[i]] = s
  BY <1>2, <1>3 DEF Line, n
<1>7. \A i, j \in 1..Len(y) : i < j => Number[y[i]] < Number[y[j]] /\ IdOf[y[i]] # IdOf[y[j]]
  <2>1. SUFFICES ASSUME NEW i \in 1..Len(y), NEW j \in 1..Len(y), i < j
                 PROVE  Number[y[i]] < Number[y[j]] /\ IdOf[y[i]] # IdOf[y[j]]
    OBVIOUS
  <2>2. k + i - 1 < k + j - 1 BY <1>1, <1>2, <2>1
  <2>3. y[i] = x[k + i - 1] /\ y[j] = x[k + j - 1] BY <1>2
  <2> QED BY <1>2, <1>3, <2>2, <2>3 DEF Line, n
<1>8. ids \ {IdOf[x[i]] : i \in 1..(k - 1)} = {IdOf[y[i]] : i \in 1..Len(y)}
  <2>1. ASSUME NEW i \in 1..Len(y)
        PROVE  IdOf[y[i]] \in ids \ {IdOf[x[j]] : j \in 1..(k - 1)}
    <3>1. y[i] = x[k + i - 1] /\ k + i - 1 \in 1..n BY <1>2, <1>3
    <3>2. IdOf[y[i]] \in ids BY <3>1 DEF Line, n
    <3>3. \A j \in 1..(k - 1) : j \in 1..n /\ j < k + i - 1
      BY <1>1, <1>2 DEF n
    <3>4. \A j \in 1..(k - 1) : IdOf[x[j]] # IdOf[y[i]]
      BY <3>1, <3>3 DEF Line, n
    <3> QED BY <3>2, <3>4
  <2>2. ASSUME NEW d \in ids \ {IdOf[x[j]] : j \in 1..(k - 1)}
        PROVE  \E i \in 1..Len(y) : d = IdOf[y[i]]
    <3>1. PICK j \in 1..n : d = IdOf[x[j]] BY DEF Line, n
    <3>2. j \notin 1..(k - 1) BY <3>1
    <3>3. j - k + 1 \in 1..Len(y) /\ k + (j - k + 1) - 1 = j
      BY <1>1, <1>2, <3>2
    <3>4. y[j - k + 1] = x[j] BY <1>2, <3>3
    <3> QED BY <3>1, <3>3, <3>4
  <2> QED BY <2>1, <2>2
<1> QED BY <1>2, <1>5, <1>6, <1>7, <1>8 DEF Line, y, n

\* Appending a segment that is new to the line and comes after it.
LEMMA OneMore ==
    ASSUME NEW s \in Sessions, NEW x \in Seq(Segments), NEW ids, Line(s, x, ids),
           NEW g \in Segments, SessionOf[g] = s, IdOf[g] \notin ids,
           \A i \in 1..Len(x) : Number[x[i]] < Number[g],
           Len(x) < MaxSegments
    PROVE  /\ Append(x, g) \in Seq(Segments)
           /\ Len(Append(x, g)) = Len(x) + 1
           /\ Append(x, g)[Len(x) + 1] = g
           /\ Line(s, Append(x, g), ids \cup {IdOf[g]})
<1> DEFINE y == Append(x, g)
           n == Len(x)
<1>1. n \in Nat /\ MaxSegments \in Nat BY ConstantsAssumption
<1>2. /\ y \in Seq(Segments) /\ Len(y) = n + 1
      /\ \A i \in 1..n : y[i] = x[i]
      /\ y[n + 1] = g
  BY AppendProperties
<1> HIDE DEF y, n
<1>3. 1..Len(y) = 1..n \cup {n + 1} BY <1>1, <1>2
<1>4. Len(y) <= MaxSegments BY <1>1, <1>2 DEF n
<1>5. \A i \in 1..Len(y) : SessionOf[y[i]] = s BY <1>2, <1>3 DEF Line, n
<1>6. \A i, j \in 1..Len(y) : i < j => Number[y[i]] < Number[y[j]] /\ IdOf[y[i]] # IdOf[y[j]]
  <2>1. SUFFICES ASSUME NEW i \in 1..Len(y), NEW j \in 1..Len(y), i < j
                 PROVE  Number[y[i]] < Number[y[j]] /\ IdOf[y[i]] # IdOf[y[j]]
    OBVIOUS
  <2>2. i \in 1..n BY <1>1, <1>2, <2>1
  <2>3. IdOf[x[i]] \in ids BY <2>2 DEF Line, n
  <2>4. CASE j \in 1..n BY <1>2, <2>1, <2>2, <2>4 DEF Line, n
  <2>5. CASE j = n + 1 BY <1>2, <2>2, <2>3, <2>5 DEF n
  <2> QED BY <1>3, <2>4, <2>5
<1>7. ids \cup {IdOf[g]} = {IdOf[y[i]] : i \in 1..Len(y)}
  BY <1>2, <1>3 DEF Line, n
<1> QED BY <1>2, <1>4, <1>5, <1>6, <1>7 DEF Line, y, n

\* A set of natural numbers with an element has a least one.
LEMMA LeastNatural ==
    ASSUME NEW S \in SUBSET Nat, S # {}
    PROVE  \E m \in S : \A k \in S : m <= k
<1>1. PICK m \in S : \A k \in S : ~(<<k, m>> \in OpToRel(<, Nat))
  BY NatLessThanWellFounded, WFMin, Zenon
<1>2. \A k \in S : ~(k < m)
  BY <1>1, Zenon DEF OpToRel
<1> QED BY <1>2

\* The front that _trim_expired_segments pops ends before the newest segment.
LEMMA FirstRecentExists ==
    ASSUME NEW x \in Seq(Segments), x # <<>>, NEW g \in Segments, x[Len(x)] = g
    PROVE  /\ FirstRecent(x, g) \in 1..Len(x)
           /\ EndedAt[x[FirstRecent(x, g)]] >= EndedAt[g] - Span
<1> DEFINE Recent == {i \in 1..Len(x) : EndedAt[x[i]] >= EndedAt[g] - Span}
           IsFirst(i) == /\ EndedAt[x[i]] >= EndedAt[g] - Span
                         /\ \A j \in 1..(i - 1) : EndedAt[x[j]] < EndedAt[g] - Span
<1>1. Len(x) \in Nat \ {0} /\ \A i \in 1..Len(x) : EndedAt[x[i]] \in Nat
  BY ConstantsAssumption
<1>2. EndedAt[g] \in Nat /\ Span \in Nat
  BY ConstantsAssumption
<1>3. Len(x) \in Recent
  BY <1>1, <1>2
<1>4. PICK m \in Recent : \A k \in Recent : m <= k
  <2>1. Recent \in SUBSET Nat /\ Recent # {} BY <1>3
  <2> HIDE DEF Recent
  <2> QED BY <2>1, LeastNatural
<1>5. m \in 1..Len(x) /\ IsFirst(m)
  <2>1. \A j \in 1..(m - 1) : j \in 1..Len(x) /\ j \notin Recent
    BY <1>1, <1>4
  <2>2. \A j \in 1..(m - 1) : EndedAt[x[j]] < EndedAt[g] - Span
    BY <1>1, <1>2, <2>1
  <2> QED BY <1>4, <2>2
<1>6. DOMAIN x = 1..Len(x)
  OBVIOUS
<1>7. FirstRecent(x, g) = CHOOSE i \in 1..Len(x) : IsFirst(i)
  BY <1>6 DEF FirstRecent
<1>8. FirstRecent(x, g) \in 1..Len(x) /\ IsFirst(FirstRecent(x, g))
  <2> HIDE DEF IsFirst
  <2> QED BY <1>5, <1>7
<1> QED BY <1>8
-----------------------------------------------------------------------------
(* One window *)

\* What WindowSound says of one window.
Sound(s, w) ==
    /\ Line(s, w.segments, w.ids)
    /\ Len(w.segments) \in 1..MaxSegments
    /\ w.last = Number[Newest(w.segments)]
    /\ EndedAt[Head(w.segments)] >= EndedAt[Newest(w.segments)] - Span

\* A window as process_raw opens it.
Fresh(w) == w.segments = <<>> /\ w.ids = {} /\ w.last = Never /\ w.queried = Never

LEMMA OpenedIsFresh ==
    ASSUME now \in Times
    PROVE  Opened \in Windows /\ Opened # NoWindow /\ Fresh(Opened)
<1>1. Opened \in Windows
  <2>1. <<>> \in Seq(Segments) OBVIOUS
  <2> QED BY <2>1 DEF Opened, Windows
<1> QED BY <1>1, NoWindowAssumption DEF Opened, Fresh

LEMMA WindowSoundIsSound ==
    ASSUME windows \in [Sessions -> Windows \cup {NoWindow}]
    PROVE  WindowSound <=> \A s \in Sessions : windows[s] # NoWindow => Sound(s, windows[s])
<1>1. \A s \in Sessions : windows[s] # NoWindow => windows[s].segments \in Seq(Segments)
  BY DEF Windows
<1>2. \A s \in Sessions : windows[s] # NoWindow =>
         DOMAIN windows[s].segments = 1..Len(windows[s].segments)
  BY <1>1
<1>3. MaxSegments \in Nat BY ConstantsAssumption
<1> QED BY <1>2, <1>3 DEF WindowSound, Sound, Line

\* _append_segment and _trim_expired_segments on a segment the window did not know.
LEMMA TakenIsSound ==
    ASSUME now \in Times, NEW s \in Sessions, NEW g \in Segments, SessionOf[g] = s,
           NEW w \in Windows, Sound(s, w) \/ Fresh(w), ~Known(w, g)
    PROVE  /\ Taken(w, g) \in Windows
           /\ Sound(s, Taken(w, g))
           /\ Newest(Taken(w, g).segments) = g
           /\ Taken(w, g).last = Number[g]
           /\ Taken(w, g).queried = w.queried
           /\ Taken(w, g).print = w.print
<1> DEFINE x == w.segments
           full == Len(x) >= MaxSegments
           x1 == IF full THEN Tail(x) ELSE x
           ids1 == IF full THEN w.ids \ {IdOf[Head(x)]} ELSE w.ids
           x2 == Append(x1, g)
           ids2 == ids1 \cup {IdOf[g]}
           first == FirstRecent(x2, g)
           x3 == SubSeq(x2, first, Len(x2))
           ids3 == ids2 \ {IdOf[x2[i]] : i \in 1..(first - 1)}
<1>1. /\ x \in Seq(Segments) /\ Len(x) \in Nat /\ w.ids \in SUBSET Ids
      /\ w.queried \in Nat \cup {Never} /\ w.print \in Seq(Segments)
      /\ \A i \in 1..Len(x) : x[i] \in Segments
  BY DEF Windows
<1>2. /\ MaxSegments \in Nat \ {0} /\ Number[g] \in Nat /\ IdOf[g] \in Ids
      /\ \A h \in Segments : Number[h] \in Nat /\ EndedAt[h] \in Nat
  BY ConstantsAssumption DEF Ids
<1>3. Line(s, x, w.ids)
  BY <1>1, <1>2 DEF Sound, Fresh, Line
<1>4. IdOf[g] \notin w.ids /\ \A i \in 1..Len(x) : Number[x[i]] < Number[g]
  <2>1. IdOf[g] \notin w.ids /\ ~(w.last # Never /\ Number[g] <= w.last)
    BY DEF Known
  <2>2. CASE Fresh(w)
    <3>1. Len(x) = 0 BY <2>2 DEF Fresh
    <3> QED BY <2>1, <3>1
  <2>3. CASE Sound(s, w)
    <3>1. Len(x) \in 1..Len(x) /\ w.last = Number[x[Len(x)]]
      BY <2>3, <1>1, <1>2 DEF Sound, Newest
    <3>2. w.last \in Nat /\ w.last < Number[g]
      BY <1>1, <1>2, <2>1, <3>1 DEF Never
    <3>3. \A i \in 1..Len(x) : Number[x[i]] <= w.last
      <4>1. TAKE i \in 1..Len(x)
      <4>2. CASE i = Len(x) BY <3>1, <3>2, <4>2
      <4>3. CASE i < Len(x)
        <5>1. Number[x[i]] < Number[x[Len(x)]] BY <1>3, <3>1, <4>3 DEF Line
        <5> QED BY <1>1, <1>2, <3>1, <5>1
      <4> QED BY <1>1, <4>2, <4>3
    <3> QED BY <1>1, <1>2, <2>1, <3>2, <3>3
  <2> QED BY <2>2, <2>3
<1>5. /\ x1 \in Seq(Segments) /\ Line(s, x1, ids1) /\ Len(x1) < MaxSegments
      /\ ids1 \subseteq w.ids
      /\ \A i \in 1..Len(x1) : Number[x1[i]] < Number[g]
  <2>1. CASE ~full
    BY <1>1, <1>2, <1>3, <1>4, <2>1
  <2>2. CASE full
    <3>1. x # <<>> /\ Len(x) >= 1 /\ 2 \in 1..(Len(x) + 1)
      BY <1>1, <1>2, <2>2
    <3>2. Tail(x) = SubSeq(x, 2, Len(x)) /\ Head(x) = x[1]
      BY <1>1, <3>1, TailIsSubSeq
    <3>3. {IdOf[x[i]] : i \in 1..(2 - 1)} = {IdOf[Head(x)]}
      BY <3>2
    <3> DEFINE t == SubSeq(x, 2, Len(x))
    <3>4. /\ t \in Seq(Segments) /\ Len(t) = Len(x) - 2 + 1
          /\ \A i \in 1..(Len(x) - 2 + 1) : t[i] = x[2 + i - 1]
          /\ Line(s, t, w.ids \ {IdOf[x[i]] : i \in 1..(2 - 1)})
      BY <1>1, <1>3, <3>1, DropFront
    <3> HIDE DEF t
    <3>5. x1 = t /\ ids1 = w.ids \ {IdOf[Head(x)]}
      BY <2>2, <3>2 DEF t
    <3> HIDE DEF x1, ids1
    <3>6. Len(t) < MaxSegments
      BY <1>1, <1>2, <1>3, <3>4 DEF Line
    <3>7. \A i \in 1..Len(t) : Number[t[i]] < Number[g]
      <4>1. \A i \in 1..Len(t) : 2 + i - 1 \in 1..Len(x) /\ t[i] = x[2 + i - 1]
        BY <1>1, <3>4
      <4> QED BY <1>4, <4>1
    <3> QED BY <3>3, <3>4, <3>5, <3>6, <3>7
  <2> QED BY <2>1, <2>2
<1>6. w.ids \in SUBSET Ids /\ ids3 \in SUBSET Ids
  BY <1>1, <1>2, <1>5
<1> HIDE DEF x, full, x1, ids1
<1>7. /\ x2 \in Seq(Segments) /\ Len(x2) = Len(x1) + 1 /\ x2[Len(x1) + 1] = g
      /\ Line(s, x2, ids2)
  <2>1. IdOf[g] \notin ids1 BY <1>4, <1>5
  <2> QED BY <1>5, <2>1, OneMore
<1> HIDE DEF x2, ids2
<1>8. /\ first \in 1..Len(x2) /\ EndedAt[x2[first]] >= EndedAt[g] - Span
      /\ Len(x2) \in Nat \ {0} /\ x2[Len(x2)] = g
  <2>1. Len(x1) \in Nat BY <1>5
  <2>2. x2 # <<>> /\ x2[Len(x2)] = g /\ Len(x2) \in Nat \ {0} BY <1>7, <2>1
  <2> QED BY <1>7, <2>2, FirstRecentExists
<1> HIDE DEF first
<1>9. /\ x3 \in Seq(Segments) /\ Len(x3) = Len(x2) - first + 1
      /\ \A i \in 1..(Len(x2) - first + 1) : x3[i] = x2[first + i - 1]
      /\ Line(s, x3, ids3)
  <2>1. first \in 1..(Len(x2) + 1) BY <1>8
  <2> QED BY <1>7, <2>1, DropFront
<1>10. Taken(w, g) = [w EXCEPT !.segments = x3, !.ids = ids3, !.last = Number[g],
                               !.active = now]
  <2>1. Appended(w, g) = [w EXCEPT !.segments = x2, !.ids = ids2]
    BY DEF Appended, x, full, x1, ids1, x2, ids2, Windows
  <2> DEFINE v == [[w EXCEPT !.segments = x2, !.ids = ids2]
                      EXCEPT !.last = Number[g], !.active = now]
  <2>2. Taken(w, g) = Trimmed(v, g)
    BY <2>1 DEF Taken
  <2>3. v.segments = x2 /\ v.ids = ids2
    BY DEF Windows
  <2>4. Trimmed(v, g) = [v EXCEPT !.segments = x3, !.ids = ids3]
    BY <2>3 DEF Trimmed, first, Windows
  <2> QED BY <2>2, <2>4 DEF Windows
<1> HIDE DEF x3, ids3
<1>11. Len(x3) \in 1..MaxSegments /\ x3[Len(x3)] = g /\ Head(x3) = x2[first]
  <2>1. Len(x3) \in Nat \ {0} /\ 1 \in 1..Len(x3) /\ Len(x3) \in 1..Len(x3)
    BY <1>8, <1>9
  <2>2. first + Len(x3) - 1 = Len(x2) /\ first + 1 - 1 = first BY <1>8, <1>9
  <2>3. x3[Len(x3)] = x2[Len(x2)] /\ x3[1] = x2[first] BY <1>9, <2>1, <2>2
  <2> QED BY <1>2, <1>8, <1>9, <2>1, <2>3 DEF Line
<1>12. /\ Taken(w, g).segments = x3 /\ Taken(w, g).ids = ids3 /\ Taken(w, g).last = Number[g]
       /\ Taken(w, g).queried = w.queried /\ Taken(w, g).print = w.print
  BY <1>10 DEF Windows
<1>13. Taken(w, g) \in Windows
  BY <1>1, <1>2, <1>6, <1>9, <1>10 DEF Windows
<1> QED BY <1>8, <1>9, <1>11, <1>12, <1>13 DEF Sound, Newest
-----------------------------------------------------------------------------
(* Types and windows *)

\* The windows are typed and sound, and a search or a publication has its window.
WindowInv == TypeOK /\ WindowSound

LEMMA InitWindow == ASSUME Init PROVE WindowInv
<1>1. asked \in Segments /\ result \in Topics \X Times
  BY ConstantsAssumption DEF Init, Times
<1> QED BY <1>1, ConstantsAssumption
        DEF Init, WindowInv, TypeOK, WindowSound, Times

\* Cleaning up keeps every window as it is or forgets it.
LEMMA SweptProperties ==
    ASSUME WindowInv
    PROVE  /\ Swept \in [Sessions -> Windows \cup {NoWindow}]
           /\ \A s \in Sessions : Swept[s] # NoWindow =>
                 Swept[s] = windows[s] /\ windows[s] # NoWindow /\ Sound(s, windows[s])
           /\ Remembered \in [Keys -> Times \cup {Never}]
<1>1. \A s \in Sessions : Swept[s] = IF KeepsWindow(windows[s]) THEN windows[s] ELSE NoWindow
  BY DEF Swept
<1>2. Swept \in [Sessions -> Windows \cup {NoWindow}]
  BY DEF Swept, WindowInv, TypeOK
<1>3. \A s \in Sessions : windows[s] # NoWindow => Sound(s, windows[s])
  BY WindowSoundIsSound DEF WindowInv, TypeOK
<1>4. Remembered \in [Keys -> Times \cup {Never}]
  BY DEF Remembered, WindowInv, TypeOK
<1> QED BY <1>1, <1>2, <1>3, <1>4

\* What process_raw leaves as the window of the session of g.
LEMMA ArriveWindow ==
    ASSUME WindowInv, NEW g \in Segments, Arrive(g)
    PROVE  LET s == SessionOf[g]
               w == IF Swept[s] = NoWindow THEN Opened ELSE Swept[s]
           IN  /\ s \in Sessions /\ w \in Windows /\ (Sound(s, w) \/ Fresh(w))
               /\ windows' = [Swept EXCEPT ![s] = windows'[s]]
               /\ windows'[s] \in Windows /\ windows'[s] # NoWindow
               /\ Sound(s, windows'[s])
               /\ windows'[s].queried = w.queried /\ windows'[s].print = w.print
               /\ \/ windows'[s] = w /\ UNCHANGED call
                  \/ /\ ~Known(w, g)
                     /\ windows'[s].last = Number[g]
                     /\ Newest(windows'[s].segments) = g
                     /\ \/ UNCHANGED call
                        \/ /\ Triggers(windows'[s], g)
                           /\ pc' = "search" /\ asked' = g /\ UNCHANGED result
<1> DEFINE s == SessionOf[g]
           w == IF Swept[s] = NoWindow THEN Opened ELSE Swept[s]
<1>1. s \in Sessions /\ now \in Times
  BY ConstantsAssumption DEF WindowInv, TypeOK
<1>2. w \in Windows /\ w # NoWindow /\ (Sound(s, w) \/ Fresh(w))
  BY <1>1, SweptProperties, OpenedIsFresh
<1> HIDE DEF w
<1>3. ~Known(w, g) => /\ Taken(w, g) \in Windows /\ Sound(s, Taken(w, g))
                      /\ Newest(Taken(w, g).segments) = g /\ Taken(w, g).last = Number[g]
                      /\ Taken(w, g).queried = w.queried /\ Taken(w, g).print = w.print
  BY <1>1, <1>2, TakenIsSound
<1>4. Swept \in [Sessions -> Windows \cup {NoWindow}]
  BY SweptProperties
<1>5. \/ Known(w, g) /\ windows' = [Swept EXCEPT ![s] = w] /\ UNCHANGED call
      \/ /\ ~Known(w, g)
         /\ windows' = [Swept EXCEPT ![s] = Taken(w, g)]
         /\ \/ UNCHANGED call
            \/ /\ Triggers(Taken(w, g), g)
               /\ pc' = "search" /\ asked' = g /\ UNCHANGED result
  BY DEF Arrive, w
<1>6. CASE Known(w, g) /\ windows' = [Swept EXCEPT ![s] = w] /\ UNCHANGED call
  <2>1. windows'[s] = w BY <1>1, <1>4, <1>6
  <2>2. windows' = [Swept EXCEPT ![s] = windows'[s]] BY <1>6, <2>1
  <2>3. Sound(s, w) BY <1>2, <1>6 DEF Known, Fresh
  <2> QED BY <1>1, <1>2, <1>6, <2>1, <2>2, <2>3 DEF w
<1>7. CASE /\ ~Known(w, g)
           /\ windows' = [Swept EXCEPT ![s] = Taken(w, g)]
           /\ \/ UNCHANGED call
              \/ /\ Triggers(Taken(w, g), g)
                 /\ pc' = "search" /\ asked' = g /\ UNCHANGED result
  <2>1. windows'[s] = Taken(w, g) BY <1>1, <1>4, <1>7
  <2>2. windows' = [Swept EXCEPT ![s] = windows'[s]] BY <1>7, <2>1
  <2>3. windows'[s] # NoWindow BY <1>3, <1>7, <2>1, NoWindowAssumption
  <2> QED BY <1>1, <1>2, <1>3, <1>7, <2>1, <2>2, <2>3 DEF w
<1> QED BY <1>5, <1>6, <1>7

\* An answer of the search changes no more than queried and print of its window.
LEMMA QueriedWindow ==
    ASSUME WindowInv, pc = "search", Queried
    PROVE  LET s == SessionOf[asked] IN
           /\ s \in Sessions /\ windows[s] \in Windows /\ windows[s] # NoWindow
           /\ windows' = [windows EXCEPT ![s] = windows'[s]]
           /\ windows'[s] = [windows[s] EXCEPT !.queried = EndedAt[asked],
                                               !.print = windows[s].segments]
           /\ windows'[s] \in Windows /\ windows'[s] # NoWindow
<1> DEFINE s == SessionOf[asked]
           v == [windows[s] EXCEPT !.queried = EndedAt[asked], !.print = windows[s].segments]
<1>1. asked \in Segments /\ s \in Sessions /\ EndedAt[asked] \in Nat
  BY ConstantsAssumption DEF WindowInv, TypeOK
<1>2. windows \in [Sessions -> Windows \cup {NoWindow}] /\ windows[s] # NoWindow
  BY DEF WindowInv, TypeOK
<1>3. windows[s] \in Windows BY <1>1, <1>2
<1>4. windows' = [windows EXCEPT ![s] = v]
  BY <1>1, <1>2 DEF Queried
<1>5. v \in Windows BY <1>1, <1>3 DEF Windows
<1> HIDE DEF v
<1>6. windows'[s] = v BY <1>1, <1>2, <1>4
<1>7. v # NoWindow BY <1>5, NoWindowAssumption
<1> QED BY <1>1, <1>2, <1>3, <1>4, <1>5, <1>6, <1>7 DEF v

LEMMA QueriedSound ==
    ASSUME WindowInv, pc = "search", Queried
    PROVE  /\ windows' \in [Sessions -> Windows \cup {NoWindow}]
           /\ \A s \in Sessions : windows'[s] # NoWindow => Sound(s, windows'[s])
<1>1. \A s \in Sessions : windows[s] # NoWindow => Sound(s, windows[s])
  BY WindowSoundIsSound DEF WindowInv, TypeOK
<1>2. windows \in [Sessions -> Windows \cup {NoWindow}] BY DEF WindowInv, TypeOK
<1> DEFINE s == SessionOf[asked]
           v == windows'[s]
<1>3. /\ s \in Sessions /\ windows[s] \in Windows /\ windows[s] # NoWindow
      /\ windows' = [windows EXCEPT ![s] = v]
      /\ v = [windows[s] EXCEPT !.queried = EndedAt[asked], !.print = windows[s].segments]
      /\ v \in Windows
  BY QueriedWindow
<1>4. v.segments = windows[s].segments /\ v.ids = windows[s].ids /\ v.last = windows[s].last
  BY <1>3 DEF Windows
<1>5. Sound(s, v) BY <1>1, <1>3, <1>4 DEF Sound
<1> HIDE DEF v
<1> QED BY <1>1, <1>2, <1>3, <1>5

LEMMA StepWindow == ASSUME WindowInv, [Next]_vars PROVE WindowInv'
<1> USE DEF WindowInv
<1> DEFINE Sounds == \A s \in Sessions : windows[s] # NoWindow => Sound(s, windows[s])
<1>0. Sounds BY WindowSoundIsSound DEF TypeOK
<1>s. ASSUME TypeOK', Sounds' PROVE WindowInv'
  <2>1. windows' \in [Sessions -> Windows \cup {NoWindow}] BY <1>s DEF TypeOK
  <2>2. WindowSound'
    <3>1. \A s \in Sessions : windows'[s] # NoWindow =>
             DOMAIN windows'[s].segments = 1..Len(windows'[s].segments)
      <4>1. \A s \in Sessions : windows'[s] # NoWindow => windows'[s].segments \in Seq(Segments)
        BY <2>1 DEF Windows
      <4> QED BY <4>1
    <3>2. MaxSegments \in Nat BY ConstantsAssumption
    <3> QED BY <1>s, <3>1, <3>2 DEF WindowSound, Sound, Line
  <2> QED BY <1>s, <2>2
<1>1. ASSUME NEW g \in Segments, Arrive(g) PROVE WindowInv'
  <2> DEFINE s == SessionOf[g]
  <2>1. /\ s \in Sessions
        /\ windows' = [Swept EXCEPT ![s] = windows'[s]]
        /\ windows'[s] \in Windows /\ windows'[s] # NoWindow
        /\ Sound(s, windows'[s])
        /\ \/ UNCHANGED call
           \/ pc' = "search" /\ asked' = g /\ UNCHANGED result
    BY <1>1, ArriveWindow
  <2>2. /\ Swept \in [Sessions -> Windows \cup {NoWindow}]
        /\ \A r \in Sessions : Swept[r] # NoWindow => Sound(r, Swept[r])
        /\ Remembered \in [Keys -> Times \cup {Never}]
    BY SweptProperties
  <2>3. windows' \in [Sessions -> Windows \cup {NoWindow}] BY <2>1, <2>2
  <2>4. pc = "idle" /\ UNCHANGED <<now, sent, faults>> /\ published' = Remembered
    BY <1>1 DEF Arrive
  <2>5. TypeOK' BY <2>1, <2>2, <2>3, <2>4 DEF TypeOK, call
  <2>6. Sounds' BY <2>1, <2>2
  <2> QED BY <1>s, <2>5, <2>6
<1>2. CASE Cleanup
  <2>1. /\ windows' = Swept /\ published' = Remembered /\ pc = "idle"
        /\ UNCHANGED <<now, call, sent, faults>>
    BY <1>2 DEF Cleanup
  <2>2. /\ Swept \in [Sessions -> Windows \cup {NoWindow}]
        /\ \A r \in Sessions : Swept[r] # NoWindow => Sound(r, Swept[r])
        /\ Remembered \in [Keys -> Times \cup {Never}]
    BY SweptProperties
  <2>3. TypeOK' BY <2>1, <2>2 DEF TypeOK, call
  <2>4. Sounds' BY <2>1, <2>2
  <2> QED BY <1>s, <2>3, <2>4
<1>3. CASE SearchFails
  BY <1>3, <1>0, <1>s DEF SearchFails, TypeOK, memory
<1>4. CASE SearchFindsNothing
  <2>1. /\ windows' \in [Sessions -> Windows \cup {NoWindow}] /\ Sounds'
    BY <1>4, QueriedSound DEF SearchFindsNothing
  <2>2. TypeOK' BY <1>4, <2>1 DEF SearchFindsNothing, TypeOK
  <2> QED BY <1>s, <2>1, <2>2
<1>5. ASSUME NEW t \in Topics, SearchFinds(t) PROVE WindowInv'
  <2>1. /\ windows' \in [Sessions -> Windows \cup {NoWindow}] /\ Sounds'
        /\ windows'[SessionOf[asked]] # NoWindow
    BY <1>5, QueriedSound, QueriedWindow DEF SearchFinds
  <2>2. /\ UNCHANGED <<now, published, asked, sent, faults>>
        /\ \/ pc' = "idle" /\ UNCHANGED result
           \/ pc' = "publish" /\ result' = <<t, now>>
    BY <1>5 DEF SearchFinds
  <2>3. TypeOK' BY <2>1, <2>2 DEF TypeOK
  <2> QED BY <1>s, <2>1, <2>3
<1>6. CASE PublishReturns
  <2>1. <<SessionOf[asked], result[1]>> \in Keys /\ result[2] \in Times
    BY ConstantsAssumption DEF TypeOK, Keys
  <2>2. TypeOK' BY <1>6, <2>1 DEF PublishReturns, Published, TypeOK
  <2> QED BY <1>6, <1>0, <1>s, <2>2 DEF PublishReturns
<1>7. CASE PublishFails
  BY <1>7, <1>0, <1>s DEF PublishFails, TypeOK, memory
<1>8. CASE Restart
  BY <1>8, <1>0, <1>s DEF Restart, TypeOK
<1>9. CASE Tick
  <2>1. now' \in Times BY <1>9, ConstantsAssumption DEF Tick, TypeOK, Times
  <2> QED BY <1>9, <1>0, <1>s, <2>1 DEF Tick, TypeOK, memory, call
<1>10. CASE UNCHANGED vars
  BY <1>10, <1>0, <1>s DEF vars, TypeOK
<1> QED BY <1>1, <1>2, <1>3, <1>4, <1>5, <1>6, <1>7, <1>8, <1>9, <1>10 DEF Next

LEMMA WindowInvHolds == Spec => []WindowInv
<1>1. Init => WindowInv BY InitWindow
<1>2. WindowInv /\ [Next]_vars => WindowInv' BY StepWindow
<1> QED BY <1>1, <1>2, PTL DEF Spec

\* The processor's state keeps its types, and a window is there while its search or the
\* publication of its feedback is awaited (redis_feedback.py:139-186).
THEOREM TypeCorrect == Spec => []TypeOK
<1>1. WindowInv => TypeOK BY DEF WindowInv
<1> QED BY <1>1, WindowInvHolds, PTL

\* Windows stay ordered, bounded and within their span, and segment_ids names just the
\* segments in the deque (redis_feedback.py:109-126 and 338-356).
THEOREM WindowsAreSound == Spec => []WindowSound
<1>1. WindowInv => WindowSound BY DEF WindowInv
<1> QED BY <1>1, WindowInvHolds, PTL
-----------------------------------------------------------------------------
(* Searches *)

\* What a window remembers of its last search is older than its newest segment is, and a
\* search that is awaited has passed the interval.
Remembers(s, w, step, g) ==
    /\ w.queried # Never => w.print # <<>> /\ Number[Newest(w.print)] <= w.last
    /\ step = "search" /\ s = SessionOf[g] =>
          /\ w.last = Number[g]
          /\ w.queried # Never => /\ EndedAt[g] - w.queried >= Interval
                                  /\ Number[Newest(w.print)] < Number[g]

QueryInv == \A s \in Sessions :
    windows[s] # NoWindow => Remembers(s, windows[s], pc, asked)

LEMMA NewestIsASegment ==
    ASSUME NEW x \in Seq(Segments), x # <<>>
    PROVE  Newest(x) \in Segments /\ Number[Newest(x)] \in Nat
<1>1. Len(x) \in 1..Len(x) OBVIOUS
<1> QED BY <1>1, ConstantsAssumption DEF Newest

\* The step of process_raw: the session's window got a newer segment, or is as it was.
LEMMA ArriveQuery ==
    ASSUME WindowInv, QueryInv, NEW g \in Segments, Arrive(g)
    PROVE  /\ QueryInv'
           /\ \A s \in Sessions : windows[s] # NoWindow /\ windows'[s] # NoWindow
                 => windows'[s].queried = Never \/ windows'[s].print = windows[s].print
<1> DEFINE s == SessionOf[g]
           w == IF Swept[s] = NoWindow THEN Opened ELSE Swept[s]
           v == windows'[s]
<1>1. /\ s \in Sessions /\ w \in Windows /\ (Sound(s, w) \/ Fresh(w))
      /\ windows' = [Swept EXCEPT ![s] = v]
      /\ v \in Windows /\ v # NoWindow /\ Sound(s, v)
      /\ v.queried = w.queried /\ v.print = w.print
      /\ \/ v = w /\ UNCHANGED call
         \/ /\ ~Known(w, g)
            /\ v.last = Number[g]
            /\ Newest(v.segments) = g
            /\ \/ UNCHANGED call
               \/ /\ Triggers(v, g)
                  /\ pc' = "search" /\ asked' = g /\ UNCHANGED result
  <2> HIDE DEF s, w, v
  <2> QED BY ArriveWindow DEF s, w, v
<1>2. /\ Swept \in [Sessions -> Windows \cup {NoWindow}]
      /\ \A r \in Sessions : Swept[r] # NoWindow =>
            Swept[r] = windows[r] /\ windows[r] # NoWindow
  BY SweptProperties
<1>3. pc = "idle" BY DEF Arrive
<1>4. Fresh(w) \/ (w = windows[s] /\ windows[s] # NoWindow /\ Sound(s, w) /\ Remembers(s, w, pc, asked))
  <2>1. CASE Swept[s] = NoWindow
    BY <2>1, OpenedIsFresh DEF WindowInv, TypeOK
  <2>2. CASE Swept[s] # NoWindow
    <3>1. Swept[s] = windows[s] /\ windows[s] # NoWindow /\ Sound(s, windows[s])
      BY <1>1, <2>2, SweptProperties
    <3> QED BY <1>1, <2>2, <3>1 DEF QueryInv
  <2> QED BY <2>1, <2>2
<1>5. \A r \in Sessions : r # s => windows'[r] = Swept[r]
  BY <1>1, <1>2
<1> HIDE DEF w, v
<1>6. Number[g] \in Nat BY ConstantsAssumption
<1>7. w.queried # Never =>
         /\ w.print # <<>> /\ Number[Newest(w.print)] <= w.last
         /\ Number[Newest(w.print)] \in Nat
         /\ w.last \in Nat
         /\ ~Known(w, g) => w.last < Number[g]
  <2>1. SUFFICES ASSUME w.queried # Never
                 PROVE  /\ w.print # <<>> /\ Number[Newest(w.print)] <= w.last
                        /\ Number[Newest(w.print)] \in Nat
                        /\ w.last \in Nat
                        /\ ~Known(w, g) => w.last < Number[g]
    OBVIOUS
  <2>2. Sound(s, w) /\ Remembers(s, w, pc, asked) BY <1>4, <2>1 DEF Fresh
  <2>3. w.segments \in Seq(Segments) /\ w.segments # <<>> /\ w.print \in Seq(Segments)
    BY <1>1, <2>2 DEF Sound, Windows
  <2>4. w.last \in Nat BY <2>2, <2>3, NewestIsASegment DEF Sound
  <2>5. w.print # <<>> /\ Number[Newest(w.print)] <= w.last BY <2>1, <2>2 DEF Remembers
  <2>6. Number[Newest(w.print)] \in Nat BY <2>3, <2>5, NewestIsASegment
  <2>7. ~Known(w, g) => w.last < Number[g] BY <1>6, <2>4 DEF Known, Never
  <2> QED BY <2>4, <2>5, <2>6, <2>7
<1>8. v.queried # Never => v.print # <<>> /\ Number[Newest(v.print)] <= v.last
  <2>1. CASE v = w BY <1>7, <2>1
  <2>2. CASE ~Known(w, g) /\ v.last = Number[g]
    BY <1>1, <1>6, <1>7, <2>2
  <2> QED BY <1>1, <2>1, <2>2
<1>9. pc' = "search" =>
         /\ asked' = g /\ v.last = Number[g]
         /\ v.queried # Never => /\ EndedAt[g] - v.queried >= Interval
                                 /\ Number[Newest(v.print)] < Number[g]
  <2>1. SUFFICES ASSUME pc' = "search"
                 PROVE  /\ asked' = g /\ v.last = Number[g]
                        /\ v.queried # Never => /\ EndedAt[g] - v.queried >= Interval
                                                /\ Number[Newest(v.print)] < Number[g]
    OBVIOUS
  <2>2. ~Known(w, g) /\ v.last = Number[g] /\ Triggers(v, g) /\ asked' = g
    BY <1>1, <1>3, <2>1 DEF call
  <2>3. v.queried # Never => EndedAt[g] - v.queried >= Interval
    BY <2>2 DEF Triggers
  <2>4. v.queried # Never => Number[Newest(v.print)] < Number[g]
    BY <1>1, <1>6, <1>7, <2>2
  <2> QED BY <2>2, <2>3, <2>4
<1>10. QueryInv'
  <2>1. SUFFICES ASSUME NEW r \in Sessions, windows'[r] # NoWindow
                 PROVE  Remembers(r, windows'[r], pc', asked')
    BY DEF QueryInv
  <2>2. CASE r = s
    BY <1>8, <1>9, <2>1, <2>2 DEF Remembers, v
  <2>3. CASE r # s
    <3>1. windows'[r] = windows[r] /\ windows[r] # NoWindow
      BY <1>2, <1>5, <2>1, <2>3
    <3>2. Remembers(r, windows[r], pc, asked) BY <3>1 DEF QueryInv
    <3>3. ~(pc' = "search" /\ r = SessionOf[asked'])
      BY <1>9, <2>3
    <3> QED BY <3>1, <3>2, <3>3 DEF Remembers
  <2> QED BY <2>2, <2>3
<1>11. ASSUME NEW r \in Sessions, windows[r] # NoWindow, windows'[r] # NoWindow
       PROVE  windows'[r].queried = Never \/ windows'[r].print = windows[r].print
  <2>1. CASE r = s
    BY <1>1, <1>4, <2>1 DEF Fresh, v
  <2>2. CASE r # s
    BY <1>2, <1>5, <1>11, <2>2
  <2> QED BY <2>1, <2>2
<1> QED BY <1>10, <1>11

\* An answer of the search: the window remembers the segment that was asked about.
LEMMA QueriedQuery ==
    ASSUME WindowInv, QueryInv, pc = "search", Queried, pc' # "search"
    PROVE  /\ QueryInv'
           /\ \A s \in Sessions : windows[s] # NoWindow /\ windows[s].queried # Never
                 => \/ windows'[s] = windows[s]
                    \/ /\ windows'[s].queried - windows[s].queried >= Interval
                       /\ Number[Newest(windows'[s].print)] > Number[Newest(windows[s].print)]
<1> DEFINE a == SessionOf[asked]
           w == windows[a]
           v == windows'[a]
<1>1. /\ a \in Sessions /\ w \in Windows /\ w # NoWindow
      /\ windows' = [windows EXCEPT ![a] = v]
      /\ v = [w EXCEPT !.queried = EndedAt[asked], !.print = w.segments]
  <2> HIDE DEF a, w, v
  <2> QED BY QueriedWindow DEF a, w, v
<1>2. v.queried = EndedAt[asked] /\ v.print = w.segments /\ v.last = w.last
  BY <1>1 DEF Windows
<1>3. Sound(a, w) /\ Remembers(a, w, pc, asked)
  BY <1>1, WindowSoundIsSound DEF WindowInv, TypeOK, QueryInv
<1>4. w.segments \in Seq(Segments) /\ w.segments # <<>> /\ w.print \in Seq(Segments)
  BY <1>1, <1>3 DEF Sound, Windows
<1>5. Number[Newest(w.segments)] \in Nat BY <1>4, NewestIsASegment
<1>6. w.last = Number[asked] /\ Number[Newest(w.segments)] = Number[asked]
  BY <1>3 DEF Sound, Remembers
<1>7. \A r \in Sessions : r # a => windows'[r] = windows[r]
  <2> HIDE DEF v
  <2> QED BY <1>1 DEF WindowInv, TypeOK
<1>8. QueryInv'
  <2>1. SUFFICES ASSUME NEW r \in Sessions, windows'[r] # NoWindow
                 PROVE  Remembers(r, windows'[r], pc', asked')
    BY DEF QueryInv
  <2>2. CASE r = a
    <3>1. v.print # <<>> /\ Number[Newest(v.print)] <= v.last
      BY <1>2, <1>4, <1>5, <1>6
    <3> QED BY <2>2, <3>1 DEF Remembers
  <2>3. CASE r # a
    <3>1. Remembers(r, windows[r], pc, asked) /\ windows'[r] = windows[r]
      BY <1>7, <2>1, <2>3 DEF QueryInv
    <3> QED BY <3>1 DEF Remembers
  <2> QED BY <2>2, <2>3
<1>9. w.queried # Never => /\ v.queried - w.queried >= Interval
                           /\ Number[Newest(v.print)] > Number[Newest(w.print)]
  <2>1. SUFFICES ASSUME w.queried # Never
                 PROVE  /\ v.queried - w.queried >= Interval
                        /\ Number[Newest(v.print)] > Number[Newest(w.print)]
    OBVIOUS
  <2>2. /\ EndedAt[asked] - w.queried >= Interval
        /\ Number[Newest(w.print)] < Number[asked] /\ w.print # <<>>
    BY <1>3, <2>1 DEF Remembers
  <2>3. Number[Newest(w.print)] \in Nat BY <1>4, <2>2, NewestIsASegment
  <2> QED BY <1>2, <1>5, <1>6, <2>2, <2>3
<1> QED BY <1>7, <1>8, <1>9

\* Two searches of one window that returned are an interval apart, and the later one is
\* about a newer segment (redis_feedback.py:131-154).
QueryStep == \A s \in Sessions :
    /\ windows[s] # NoWindow /\ windows'[s] # NoWindow
    /\ windows[s].queried # Never /\ windows'[s].print # windows[s].print
    /\ windows'[s].queried # Never
    => /\ windows'[s].queried - windows[s].queried >= Interval
       /\ Number[Newest(windows'[s].print)] > Number[Newest(windows[s].print)]

LEMMA StepQuery == ASSUME WindowInv, QueryInv, [Next]_vars PROVE QueryInv' /\ QueryStep
<1>1. ASSUME NEW g \in Segments, Arrive(g) PROVE QueryInv' /\ QueryStep
  BY <1>1, ArriveQuery DEF QueryStep
<1>2. ASSUME pc' # "search",
             \A s \in Sessions : windows'[s] # NoWindow =>
                windows'[s] = windows[s] /\ windows[s] # NoWindow
      PROVE  QueryInv' /\ QueryStep
  BY <1>2 DEF QueryInv, Remembers, QueryStep
<1>3. CASE Cleanup
  <2>1. /\ windows' = Swept /\ pc' = "idle"
        /\ \A s \in Sessions : Swept[s] # NoWindow =>
              Swept[s] = windows[s] /\ windows[s] # NoWindow
    BY <1>3, SweptProperties DEF Cleanup, call
  <2> QED BY <1>2, <2>1
<1>4. CASE SearchFails BY <1>2, <1>4 DEF SearchFails, memory
<1>5. CASE SearchFindsNothing
  BY <1>5, QueriedQuery DEF SearchFindsNothing, QueryStep
<1>6. ASSUME NEW t \in Topics, SearchFinds(t) PROVE QueryInv' /\ QueryStep
  <2>1. pc = "search" /\ Queried /\ pc' # "search" BY <1>6 DEF SearchFinds
  <2> QED BY <2>1, QueriedQuery DEF QueryStep
<1>7. CASE PublishReturns BY <1>2, <1>7 DEF PublishReturns
<1>8. CASE PublishFails BY <1>2, <1>8 DEF PublishFails, memory
<1>9. CASE Restart
  <2>1. \A s \in Sessions : windows'[s] = NoWindow BY <1>9 DEF Restart
  <2> QED BY <2>1 DEF QueryInv, QueryStep
<1>10. CASE windows' = windows /\ UNCHANGED call
  BY <1>10 DEF QueryInv, Remembers, QueryStep, call
<1> QED BY <1>1, <1>3, <1>4, <1>5, <1>6, <1>7, <1>8, <1>9, <1>10
        DEF Next, Tick, memory, vars, call

\* The trigger interval, for any segments, clock and settings.
THEOREM SearchesMoveOn == Spec => QueriesMoveOn
<1>1. Init => QueryInv BY DEF Init, QueryInv
<1>2. WindowInv /\ QueryInv /\ [Next]_vars => QueryInv' BY StepQuery
<1>3. WindowInv /\ QueryInv /\ [Next]_vars => [QueryStep]_vars
  BY StepQuery
<1> QED BY <1>1, <1>2, <1>3, WindowInvHolds, PTL DEF Spec, QueriesMoveOn, QueryStep
-----------------------------------------------------------------------------
(* The cooldown *)

\* The key of the result that is being published.
Key == <<SessionOf[asked], result[1]>>

\* A topic that was published is remembered until its cooldown is over, and what is being
\* published was found after it.
CooldownInv == \A k \in Keys : sent[k] # Never =>
    /\ \/ published[k] = sent[k]
       \/ published[k] = Never /\ now - sent[k] > Cooldown
    /\ pc = "publish" /\ k = Key => result[2] - sent[k] >= Cooldown

CooldownStep == \A k \in Keys :
    sent[k] # Never /\ sent'[k] # sent[k] /\ sent'[k] # Never
        => sent'[k] - sent[k] >= Cooldown

\* The cleanup forgets only cooldowns that are over.
LEMMA RememberedCoolsDown ==
    ASSUME TypeOK, CooldownInv, published' = Remembered, UNCHANGED <<now, sent>>
    PROVE  \A k \in Keys : sent[k] # Never =>
              \/ published'[k] = sent[k]
              \/ published'[k] = Never /\ now - sent[k] > Cooldown
<1>1. SUFFICES ASSUME NEW k \in Keys, sent[k] # Never
               PROVE  \/ published'[k] = sent[k]
                      \/ published'[k] = Never /\ now - sent[k] > Cooldown
  OBVIOUS
<1>2. sent[k] \in Nat /\ now \in Nat
  BY <1>1 DEF TypeOK, Times
<1>3. published'[k] = IF published[k] < Cutoff THEN Never ELSE published[k]
  BY <1>1 DEF Remembered
<1>4. CASE published[k] = sent[k]
  BY <1>2, <1>3, <1>4, ConstantsAssumption DEF Cutoff, Larger
<1>5. CASE published[k] = Never /\ now - sent[k] > Cooldown
  BY <1>3, <1>5
<1> QED BY <1>1, <1>4, <1>5 DEF CooldownInv

LEMMA StepCooldown ==
    ASSUME TypeOK, CooldownInv, [Next]_vars
    PROVE  CooldownInv' /\ CooldownStep
<1> DEFINE Goal == CooldownInv' /\ CooldownStep
<1>0. /\ sent \in [Keys -> Times \cup {Never}] /\ published \in [Keys -> Times \cup {Never}]
      /\ now \in Nat /\ Cooldown \in Nat /\ Key \in Keys /\ result[2] \in Times
      /\ Times \subseteq Nat /\ Never \notin Times /\ Never \in Int
  BY ConstantsAssumption DEF TypeOK, Key, Keys, Times, Never
<1>1. ASSUME published' = Remembered, UNCHANGED <<now, sent>>, pc' # "publish" PROVE Goal
  BY <1>1, RememberedCoolsDown DEF CooldownInv, CooldownStep
<1>2. ASSUME UNCHANGED <<now, published, sent>>, pc' # "publish" PROVE Goal
  BY <1>2 DEF CooldownInv, CooldownStep
<1>3. ASSUME NEW g \in Segments, Arrive(g) PROVE Goal
  BY <1>1, <1>3 DEF Arrive, call
<1>4. CASE Cleanup BY <1>1, <1>4 DEF Cleanup, call
<1>5. CASE SearchFails BY <1>2, <1>5 DEF SearchFails, memory
<1>6. CASE SearchFindsNothing BY <1>2, <1>6 DEF SearchFindsNothing
<1>7. ASSUME NEW t \in Topics, SearchFinds(t) PROVE Goal
  <2>1. UNCHANGED <<now, published, asked, sent>> BY <1>7 DEF SearchFinds
  <2>2. CASE pc' # "publish" BY <1>2, <2>1, <2>2
  <2>3. CASE pc' = "publish"
    <3>1. ~CoolsDown(<<SessionOf[asked], t>>) /\ result' = <<t, now>>
      BY <1>7, <2>3 DEF SearchFinds
    <3>2. Key' = <<SessionOf[asked], t>> /\ result'[2] = now
      BY <2>1, <3>1 DEF Key
    <3>3. \A k \in Keys : sent[k] # Never /\ k = Key' => now - sent[k] >= Cooldown
      <4>1. SUFFICES ASSUME NEW k \in Keys, sent[k] # Never, k = Key'
                     PROVE  now - sent[k] >= Cooldown
        OBVIOUS
      <4>2. sent[k] \in Nat BY <1>0, <4>1
      <4>3. published[k] = Never \/ now - published[k] >= Cooldown
        <5>1. CASE published[k] = Never BY <5>1
        <5>2. CASE published[k] # Never
          <6>1. published[k] \in Nat BY <1>0, <5>2
          <6>2. ~(now - published[k] < Cooldown) BY <3>1, <3>2, <4>1, <5>2 DEF CoolsDown
          <6> QED BY <1>0, <6>1, <6>2
        <5> QED BY <5>1, <5>2
      <4> QED BY <1>0, <4>1, <4>2, <4>3 DEF CooldownInv
    <3> QED BY <2>1, <3>2, <3>3 DEF CooldownInv, CooldownStep
  <2> QED BY <2>2, <2>3
<1>8. CASE PublishReturns
  <2>1. /\ published' = [published EXCEPT ![Key] = result[2]]
        /\ sent' = [sent EXCEPT ![Key] = result[2]]
        /\ pc = "publish" /\ pc' # "publish" /\ now' = now
    BY <1>8 DEF PublishReturns, Published, Key
  <2>2. ASSUME NEW k \in Keys, sent'[k] # Never
        PROVE  \/ published'[k] = sent'[k]
               \/ published'[k] = Never /\ now' - sent'[k] > Cooldown
    BY <1>0, <2>1, <2>2 DEF CooldownInv
  <2>3. CooldownStep BY <1>0, <2>1 DEF CooldownInv, CooldownStep
  <2> QED BY <2>1, <2>2, <2>3 DEF CooldownInv
<1>9. CASE PublishFails BY <1>2, <1>9 DEF PublishFails, memory
<1>10. CASE Restart
  <2>1. \A k \in Keys : sent'[k] = Never BY <1>10 DEF Restart
  <2> QED BY <2>1 DEF CooldownInv, CooldownStep
<1>11. CASE Tick
  <2>1. now' = now + 1 /\ UNCHANGED <<published, sent, pc, asked, result>>
    BY <1>11 DEF Tick, memory, call
  <2>2. ASSUME NEW k \in Keys, sent[k] # Never, now - sent[k] > Cooldown
        PROVE  now' - sent[k] > Cooldown
    <3>1. sent[k] \in Times \cup {Never} BY <1>0
    <3>2. sent[k] \in Int BY <1>0, <3>1 DEF Times, Never
    <3> QED BY <1>0, <2>1, <2>2, <3>1, <3>2
  <2> QED BY <2>1, <2>2 DEF CooldownInv, CooldownStep, Key
<1>12. CASE UNCHANGED vars
  BY <1>12 DEF vars, CooldownInv, CooldownStep, Key
<1> QED BY <1>3, <1>4, <1>5, <1>6, <1>7, <1>8, <1>9, <1>10, <1>11, <1>12 DEF Next

\* A session hears of one topic at most once in a cooldown, whatever the cleanup forgets
\* meanwhile (redis_feedback.py:163-205).
THEOREM CooldownIsKept == Spec => CooldownKept
<1>1. Init => CooldownInv BY DEF Init, CooldownInv
<1>2. TypeOK /\ CooldownInv /\ [Next]_vars => CooldownInv' BY StepCooldown
<1>3. TypeOK /\ CooldownInv /\ [Next]_vars => [CooldownStep]_vars BY StepCooldown
<1> QED BY <1>1, <1>2, <1>3, TypeCorrect, PTL DEF Spec, CooldownKept, CooldownStep
=============================================================================
