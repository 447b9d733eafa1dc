----------------------- MODULE FeedbackStreamsProofs -----------------------
(***************************************************************************)
(* Proofs about FeedbackStreams: types, the positions of the groups, and   *)
(* that nothing leaves a pending entries list unprocessed.                 *)
(***************************************************************************)
EXTENDS FeedbackStreams, FiniteSetTheorems, TLAPS

LoopTypeOK ==
    /\ known \subseteq Streams /\ todo \subseteq Streams /\ found \subseteq Streams
    /\ pc \in {"discover", "ensure", "read"} \cup InHand
    /\ cur \in Streams
    /\ batch \subseteq Entries
    /\ batch # {} <=> pc \in InHand

RedisTypeOK ==
    /\ group \subseteq exists /\ exists \subseteq Streams
    /\ added \in [Streams -> 0..MaxEntries]
    /\ gone \in [Streams -> 0..MaxEntries]
    /\ read \in [Streams -> 0..MaxEntries]
    /\ pending \in [Streams -> SUBSET Entries]

Parts == /\ RedisTypeOK /\ LoopTypeOK
         /\ handled \in [Streams -> SUBSET Entries]
         /\ faults \in [FaultKinds -> Nat]

\* What the commands do to Redis keeps its types.
LEMMA CreateGroupType ==
    ASSUME RedisTypeOK, NEW s \in Streams, CreateGroup(s)
    PROVE  RedisTypeOK'
BY DEF RedisTypeOK, CreateGroup

LEMMA DeliverType ==
    ASSUME RedisTypeOK, NEW s \in Streams, Deliver(s)
    PROVE  RedisTypeOK'
<1>1. read'[s] \in 0..MaxEntries
  BY ConstantsAssumption DEF RedisTypeOK, Deliver
<1>2. read' \in [Streams -> 0..MaxEntries]
  BY <1>1 DEF RedisTypeOK, Deliver
<1>3. pending' \in [Streams -> SUBSET Entries]
  BY DEF RedisTypeOK, Deliver, NewEntries
<1>. QED BY <1>2, <1>3 DEF RedisTypeOK, Deliver

LEMMA AcknowledgeType ==
    ASSUME RedisTypeOK, NEW s \in Streams, NEW n \in Entries, Acknowledge(s, n)
    PROVE  RedisTypeOK'
BY DEF RedisTypeOK, Acknowledge

LEMMA RedisUnchanged == ASSUME RedisTypeOK, UNCHANGED redis PROVE RedisTypeOK'
BY DEF RedisTypeOK, redis

\* How the loop goes on keeps its types.
LEMMA EndRoundType == ASSUME LoopTypeOK, EndRound PROVE LoopTypeOK'
BY DEF LoopTypeOK, EndRound, InHand

LEMMA ReadOnType ==
    ASSUME LoopTypeOK, NEW left \in SUBSET Streams, ReadOn(left)
    PROVE  LoopTypeOK'
BY EndRoundType DEF LoopTypeOK, ReadOn, InHand

LEMMA StartReadingType ==
    ASSUME LoopTypeOK, pc \notin InHand, NEW streams \in SUBSET Streams,
           StartReading(streams)
    PROVE  LoopTypeOK'
BY DEF LoopTypeOK, StartReading, InHand

\* Counting a fault keeps the types.
LEMMA SpendType ==
    ASSUME faults \in [FaultKinds -> Nat], NEW k \in FaultKinds, Spend(k)
    PROVE  faults' \in [FaultKinds -> Nat]
BY DEF Spend

LEMMA TypeInit == ASSUME Init PROVE TypeOK
BY ConstantsAssumption DEF Init, TypeOK, InHand, FaultKinds

LEMMA PartsStep == ASSUME Parts, [Next]_vars PROVE Parts'
<1>. USE DEF Parts
<1>. FaultKinds = {"redis", "publish", "restart", "expiry"}
  BY DEF FaultKinds
<1>1. CASE Discover
  <2>1. RedisTypeOK' BY <1>1, RedisUnchanged DEF Discover
  <2>2. CASE exists \ known = {}
    <3>1. StartReading(exists) /\ exists \in SUBSET Streams /\ pc \notin InHand
      BY <1>1, <2>2 DEF Discover, RedisTypeOK, InHand
    <3>2. LoopTypeOK' BY <3>1, StartReadingType
    <3>. QED BY <1>1, <2>1, <3>2 DEF Discover
  <2>3. CASE exists \ known # {}
    <3>1. LoopTypeOK' BY <1>1, <2>3 DEF Discover, LoopTypeOK, RedisTypeOK, InHand
    <3>. QED BY <1>1, <2>1, <3>1 DEF Discover
  <2>. QED BY <2>2, <2>3
<1>2. ASSUME NEW s \in Streams, EnsureGroup(s) PROVE Parts'
  <2>1. RedisTypeOK' BY <1>2, CreateGroupType DEF EnsureGroup
  <2>2. CASE todo = {s}
    <3>1. StartReading(found) /\ found \in SUBSET Streams /\ pc \notin InHand
      BY <1>2, <2>2 DEF EnsureGroup, LoopTypeOK, InHand
    <3>2. LoopTypeOK' BY <3>1, StartReadingType
    <3>. QED BY <1>2, <2>1, <3>2 DEF EnsureGroup
  <2>3. CASE todo # {s}
    <3>1. LoopTypeOK' BY <1>2, <2>3 DEF EnsureGroup, LoopTypeOK
    <3>. QED BY <1>2, <2>1, <3>1 DEF EnsureGroup
  <2>. QED BY <2>2, <2>3
<1>3. ASSUME NEW s \in Streams, Read(s) PROVE Parts'
  <2>1. CASE s \notin group /\ EndRound /\ UNCHANGED redis
    BY <1>3, <2>1, EndRoundType, RedisUnchanged DEF Read
  <2>2. CASE ReadOn(todo \ {s}) /\ UNCHANGED redis
    <3>1. todo \ {s} \in SUBSET Streams BY DEF LoopTypeOK
    <3>. QED BY <1>3, <2>2, <3>1, ReadOnType, RedisUnchanged DEF Read
  <2>3. CASE /\ NewEntries(s) # {} /\ Deliver(s)
             /\ pc' = "process" /\ cur' = s /\ batch' = NewEntries(s) /\ todo' = todo \ {s}
             /\ UNCHANGED <<known, found>>
    <3>1. LoopTypeOK' BY <2>3 DEF LoopTypeOK, NewEntries, InHand
    <3>. QED BY <1>3, <2>3, <3>1, DeliverType DEF Read
  <2>. QED BY <1>3, <2>1, <2>2, <2>3 DEF Read
<1>4. ASSUME NEW n \in Entries, ProcessReturns(n) PROVE Parts'
  <2>1. RedisTypeOK' BY <1>4, RedisUnchanged DEF ProcessReturns
  <2>2. LoopTypeOK' BY <1>4 DEF ProcessReturns, LoopTypeOK, InHand
  <2>3. handled' \in [Streams -> SUBSET Entries] BY <1>4 DEF ProcessReturns
  <2>. QED BY <1>4, <2>1, <2>2, <2>3 DEF ProcessReturns
<1>5. ASSUME NEW n \in Entries, Ack(n) PROVE Parts'
  <2>1. RedisTypeOK' BY <1>5, AcknowledgeType DEF Ack, LoopTypeOK
  <2>2. CASE batch = {n}
    <3>1. ReadOn(todo) /\ todo \in SUBSET Streams BY <1>5, <2>2 DEF Ack, LoopTypeOK
    <3>2. LoopTypeOK' BY <3>1, ReadOnType
    <3>. QED BY <1>5, <2>1, <3>2 DEF Ack
  <2>3. CASE batch # {n}
    <3>1. LoopTypeOK' BY <1>5, <2>3 DEF Ack, LoopTypeOK, InHand, IsLeast
    <3>. QED BY <1>5, <2>1, <3>1 DEF Ack
  <2>. QED BY <2>2, <2>3
<1>6. CASE ProcessRaises
  BY <1>6, EndRoundType, RedisUnchanged, SpendType DEF ProcessRaises
<1>7. CASE RedisFault
  <2>1. RedisTypeOK'
    <3>1. CASE UNCHANGED redis BY <3>1, RedisUnchanged
    <3>2. CASE \E s \in todo : CreateGroup(s)
      BY <3>2, CreateGroupType DEF LoopTypeOK
    <3>3. CASE \E s \in todo \cap group : IsLeast(s, todo) /\ Deliver(s)
      BY <3>3, DeliverType DEF LoopTypeOK
    <3>4. CASE \E n \in batch : IsLeast(n, batch) /\ Acknowledge(cur, n)
      BY <3>4, AcknowledgeType DEF LoopTypeOK
    <3>. QED BY <1>7, <3>1, <3>2, <3>3, <3>4 DEF RedisFault
  <2>. QED BY <1>7, <2>1, EndRoundType, SpendType DEF RedisFault
<1>8. CASE Restart
  <2>1. LoopTypeOK' BY <1>8 DEF Restart, LoopTypeOK, InHand
  <2>. QED BY <1>8, <2>1, RedisUnchanged, SpendType DEF Restart
<1>9. ASSUME NEW s \in Streams, Add(s) PROVE Parts'
  <2>1. RedisTypeOK' BY <1>9, ConstantsAssumption DEF Add, RedisTypeOK
  <2>2. LoopTypeOK' BY <1>9 DEF Add, LoopTypeOK, loop
  <2>. QED BY <1>9, <2>1, <2>2 DEF Add
<1>10. ASSUME NEW s \in Streams, Expire(s) PROVE Parts'
  <2>1. RedisTypeOK' BY <1>10 DEF Expire, RedisTypeOK
  <2>2. LoopTypeOK' BY <1>10 DEF Expire, LoopTypeOK, loop
  <2>. QED BY <1>10, <2>1, <2>2, SpendType DEF Expire
<1>11. CASE UNCHANGED vars
  BY <1>11 DEF vars, RedisTypeOK, LoopTypeOK
<1>. QED BY <1>1, <1>2, <1>3, <1>4, <1>5, <1>6, <1>7, <1>8, <1>9, <1>10, <1>11
         DEF Next, Loop

LEMMA TypeStep == ASSUME TypeOK, [Next]_vars PROVE TypeOK'
<1>1. Parts BY DEF TypeOK, Parts, RedisTypeOK, LoopTypeOK
<1>2. Parts' BY <1>1, PartsStep
<1>. QED BY <1>2 DEF TypeOK, Parts, RedisTypeOK, LoopTypeOK

\* The state of Redis and of the loop keeps its types, and the loop holds a batch just
\* while it processes and acknowledges (redis_feedback.py:268-335).
THEOREM TypeCorrect == Spec => []TypeOK
<1>1. Init => TypeOK BY TypeInit
<1>2. TypeOK /\ [Next]_vars => TypeOK' BY TypeStep
<1>. QED BY <1>1, <1>2, PTL DEF Spec
-----------------------------------------------------------------------------
(* Positions of the groups *)

\* A group's position is that of an entry; a stream without a group has no entry left
\* that its last group was given.
Positions ==
    \A s \in Streams : /\ read[s] <= added[s] /\ gone[s] <= added[s]
                       /\ s \notin group => read[s] <= gone[s]

Forward == \A s \in Streams : read'[s] >= read[s]

\* What a step does to Redis.
RedisSteps ==
    \/ UNCHANGED redis
    \/ \E s \in Streams : \/ CreateGroup(s)
                          \/ s \in group /\ Deliver(s)
                          \/ \E n \in Entries : Acknowledge(s, n)
                          \/ Add(s) \/ Expire(s)

LEMMA StepOfRedis == ASSUME TypeOK, [Next]_vars PROVE RedisSteps
<1>1. CASE UNCHANGED vars BY <1>1 DEF vars, redis, RedisSteps
<1>2. CASE Loop
  BY <1>2 DEF Loop, Discover, EnsureGroup, Read, ProcessReturns, Ack, RedisSteps, TypeOK
<1>3. CASE RedisFault
  BY <1>3 DEF RedisFault, RedisSteps, TypeOK
<1>4. CASE ProcessRaises \/ Restart
  BY <1>4 DEF ProcessRaises, Restart, RedisSteps
<1>5. CASE \E s \in Streams : Add(s) \/ Expire(s)
  BY <1>5 DEF RedisSteps
<1>. QED BY <1>1, <1>2, <1>3, <1>4, <1>5 DEF Next

LEMMA PositionsStep ==
    ASSUME TypeOK, Positions, RedisSteps
    PROVE  Positions' /\ Forward
<1>. USE DEF TypeOK, Positions, Forward
<1>1. CASE UNCHANGED redis BY <1>1 DEF redis
<1>2. ASSUME NEW s \in Streams, CreateGroup(s) PROVE Positions' /\ Forward
  BY <1>2 DEF CreateGroup
<1>3. ASSUME NEW s \in Streams, s \in group, Deliver(s) PROVE Positions' /\ Forward
  <2>1. read'[s] >= read[s] /\ read'[s] <= added[s]
    BY <1>3, ConstantsAssumption DEF Deliver
  <2>2. \A t \in Streams \ {s} : read'[t] = read[t] BY <1>3 DEF Deliver
  <2>. QED BY <1>3, <2>1, <2>2 DEF Deliver
<1>4. ASSUME NEW s \in Streams, NEW n \in Entries, Acknowledge(s, n)
      PROVE Positions' /\ Forward
  BY <1>4 DEF Acknowledge
<1>5. ASSUME NEW s \in Streams, Add(s) PROVE Positions' /\ Forward
  BY <1>5, ConstantsAssumption DEF Add
<1>6. ASSUME NEW s \in Streams, Expire(s) PROVE Positions' /\ Forward
  BY <1>6 DEF Expire
<1>. QED BY <1>1, <1>2, <1>3, <1>4, <1>5, <1>6 DEF RedisSteps

LEMMA PositionsInit == ASSUME Init PROVE Positions
BY DEF Init, Positions

\* No position goes back, so no entry of a meeting is read twice: over restarts, which
\* create the groups again, and over the expiry of streams (redis_feedback.py:305-326).
THEOREM EntriesAreReadOnce == Spec => ReadsForward
<1>1. Init => TypeOK /\ Positions BY TypeInit, PositionsInit
<1>2. TypeOK /\ Positions /\ [Next]_vars => (TypeOK /\ Positions)'
  BY TypeStep, StepOfRedis, PositionsStep
<1>3. TypeOK /\ Positions /\ [Next]_vars => [Forward]_vars
  BY StepOfRedis, PositionsStep
<1>. QED BY <1>1, <1>2, <1>3, PTL DEF Spec, ReadsForward, Forward
-----------------------------------------------------------------------------
(* Acknowledged entries were processed *)

\* The entry that is about to be acknowledged is the one the processor returned from.
AckFollows == pc = "ack" => \A n \in batch : IsLeast(n, batch) => n \in handled[cur]

ProcessedInv == AckedWasProcessed /\ AckFollows

LEMMA AckFollowsStep ==
    ASSUME TypeOK, AckFollows, [Next]_vars
    PROVE  AckFollows'
<1>. USE DEF AckFollows, InHand
<1>1. CASE UNCHANGED vars BY <1>1 DEF vars, IsLeast
<1>2. CASE Discover BY <1>2 DEF Discover, StartReading
<1>3. ASSUME NEW s \in Streams, EnsureGroup(s) PROVE AckFollows'
  BY <1>3 DEF EnsureGroup, StartReading
<1>4. ASSUME NEW s \in Streams, Read(s) PROVE AckFollows'
  BY <1>4 DEF Read, ReadOn, EndRound
<1>5. ASSUME NEW n \in Entries, ProcessReturns(n) PROVE AckFollows'
  <2>1. \A m \in batch : IsLeast(m, batch) => m = n
    BY <1>5 DEF ProcessReturns, IsLeast, TypeOK, Entries
  <2>2. n \in handled'[cur'] BY <1>5 DEF ProcessReturns, TypeOK
  <2>. QED BY <1>5, <2>1, <2>2 DEF ProcessReturns, IsLeast
<1>6. ASSUME NEW n \in Entries, Ack(n) PROVE AckFollows'
  BY <1>6 DEF Ack, ReadOn, EndRound
<1>7. CASE ProcessRaises \/ RedisFault
  BY <1>7 DEF ProcessRaises, RedisFault, EndRound
<1>8. CASE Restart BY <1>8 DEF Restart
<1>9. ASSUME NEW s \in Streams, Add(s) \/ Expire(s) PROVE AckFollows'
  BY <1>9 DEF Add, Expire, loop, IsLeast
<1>. QED BY <1>1, <1>2, <1>3, <1>4, <1>5, <1>6, <1>7, <1>8, <1>9 DEF Next, Loop

\* What entries the processor returned from is never forgotten.
LEMMA HandledGrows ==
    ASSUME TypeOK, [Next]_vars
    PROVE  \A s \in Streams : handled[s] \subseteq handled'[s]
BY DEF TypeOK, Next, Loop, vars, Discover, EnsureGroup, Read, ProcessReturns, Ack,
       ProcessRaises, RedisFault, Restart, Add, Expire

\* An acknowledgement is of an entry the processor returned from.
LEMMA AckOfHandled ==
    ASSUME TypeOK, AckFollows, [Next]_vars
    PROVE  \/ UNCHANGED redis
           \/ \E s \in Streams : \/ CreateGroup(s)
                                 \/ s \in group /\ Deliver(s)
                                 \/ Add(s) \/ Expire(s)
           \/ \E n \in handled[cur] : Acknowledge(cur, n)
<1>1. CASE UNCHANGED vars BY <1>1 DEF vars, redis
<1>2. CASE Discover \/ ProcessRaises \/ Restart
  BY <1>2 DEF Discover, ProcessRaises, Restart
<1>3. CASE \E s \in Streams : EnsureGroup(s) \/ Read(s)
  BY <1>3 DEF EnsureGroup, Read
<1>4. CASE \E n \in Entries : ProcessReturns(n) \/ Ack(n)
  BY <1>4 DEF ProcessReturns, Ack, AckFollows, IsLeast
<1>5. CASE RedisFault
  BY <1>5 DEF RedisFault, AckFollows, IsLeast, TypeOK
<1>6. CASE \E s \in Streams : Add(s) \/ Expire(s)
  BY <1>6
<1>. QED BY <1>1, <1>2, <1>3, <1>4, <1>5, <1>6 DEF Next, Loop

LEMMA AckedStep ==
    ASSUME TypeOK, Positions, ProcessedInv, [Next]_vars
    PROVE  AckedWasProcessed'
<1>. USE DEF TypeOK, AckedWasProcessed, ProcessedInv
<1>. \A s \in Streams : handled[s] \subseteq handled'[s] BY HandledGrows
<1>1. CASE UNCHANGED redis BY <1>1 DEF redis
<1>2. ASSUME NEW s \in Streams, CreateGroup(s) PROVE AckedWasProcessed'
  <2>1. \A t \in group : read'[t] = read[t] BY <1>2 DEF CreateGroup
  <2>2. \A t \in group' \ group : read'[t] = gone'[t] BY <1>2 DEF CreateGroup
  <2>3. \A t \in group' \ group, n \in Entries : ~(gone'[t] < n /\ n <= read'[t])
    BY <1>2, <2>2 DEF CreateGroup, Entries
  <2>. QED BY <1>2, <2>1, <2>3 DEF CreateGroup
<1>3. ASSUME NEW s \in Streams, s \in group, Deliver(s) PROVE AckedWasProcessed'
  <2>1. \A n \in Entries : n <= read'[s] /\ ~(n <= read[s]) => n \in NewEntries(s)
    BY <1>3, ConstantsAssumption DEF Deliver, NewEntries, Entries
  <2>2. pending[s] \subseteq pending'[s] /\ NewEntries(s) \subseteq pending'[s]
    BY <1>3 DEF Deliver
  <2>3. \A t \in Streams \ {s} : read'[t] = read[t] /\ pending'[t] = pending[t]
    BY <1>3 DEF Deliver
  <2>. QED BY <1>3, <2>1, <2>2, <2>3 DEF Deliver
<1>4. ASSUME NEW n \in handled[cur], Acknowledge(cur, n) PROVE AckedWasProcessed'
  BY <1>4 DEF Acknowledge
<1>5. ASSUME NEW s \in Streams, Add(s) PROVE AckedWasProcessed'
  BY <1>5 DEF Add
<1>6. ASSUME NEW s \in Streams, Expire(s) PROVE AckedWasProcessed'
  BY <1>6 DEF Expire
<1>. QED BY <1>1, <1>2, <1>3, <1>4, <1>5, <1>6, AckOfHandled

LEMMA ProcessedInit == ASSUME Init PROVE ProcessedInv
BY DEF Init, ProcessedInv, AckedWasProcessed, AckFollows

\* Nothing leaves the pending entries list before the processor returned from it
\* (redis_feedback.py:327-334).
THEOREM AckedEntriesWereProcessed == Spec => []AckedWasProcessed
<1>1. Init => TypeOK /\ Positions /\ ProcessedInv
  BY TypeInit, PositionsInit, ProcessedInit
<1>2. TypeOK /\ Positions /\ ProcessedInv /\ [Next]_vars
          => (TypeOK /\ Positions /\ ProcessedInv)'
  BY TypeStep, StepOfRedis, PositionsStep, AckedStep, AckFollowsStep DEF ProcessedInv
<1>3. ProcessedInv => AckedWasProcessed BY DEF ProcessedInv
<1>. QED BY <1>1, <1>2, <1>3, PTL DEF Spec
-----------------------------------------------------------------------------
(***************************************************************************)
(* What a failure loses.  The entries in hand lie in one window of Count   *)
(* entries; only a failure takes them out of hand without acknowledging    *)
(* them, and it does so once.                                              *)
(***************************************************************************)
Window(low) == (low + 1)..(low + Count)

\* What is in hand came from one read.
InWindow == \E low \in Nat : batch \subseteq Window(low)

Lost == UNION {{s} \X Stranded(s) : s \in Streams}
Failures == faults["redis"] + faults["publish"] + faults["restart"]

LostBounded == IsFiniteSet(Lost) /\ Cardinality(Lost) <= Count * Failures
LossInv == InWindow /\ LostBounded

LEMMA LostMembers ==
    \A x : x \in Lost <=> \E s \in Streams : \E n \in pending[s] :
                             x = <<s, n>> /\ ~(s = cur /\ n \in batch)
BY DEF Lost, Stranded

LEMMA LostMembersNext ==
    \A x : x \in Lost' <=> \E s \in Streams : \E n \in pending'[s] :
                              x = <<s, n>> /\ ~(s = cur' /\ n \in batch')
BY DEF Lost, Stranded

LEMMA FailuresType ==
    ASSUME faults \in [FaultKinds -> Nat]
    PROVE  /\ Failures \in Nat
           /\ faults["redis"] \in Nat /\ faults["publish"] \in Nat /\ faults["restart"] \in Nat
BY DEF Failures, FaultKinds

LEMMA WindowSize ==
    ASSUME NEW s, NEW low \in Nat
    PROVE  IsFiniteSet({s} \X Window(low)) /\ Cardinality({s} \X Window(low)) = Count
<1> DEFINE a == low + 1
           b == low + Count
<1>1. a \in Int /\ b \in Int /\ a <= b /\ b - a + 1 = Count /\ Count \in Nat
  BY ConstantsAssumption
<1>2. Window(low) = a..b
  BY DEF Window
<1> HIDE DEF a, b
<1>3. IsFiniteSet(a..b) /\ Cardinality(a..b) = IF a > b THEN 0 ELSE b - a + 1
  BY <1>1, FS_Interval
<1>4. IsFiniteSet(Window(low)) /\ Cardinality(Window(low)) = Count
  BY <1>1, <1>2, <1>3
<1>5. IsFiniteSet({s}) /\ Cardinality({s}) = 1
  BY FS_Singleton
<1>6. /\ IsFiniteSet({s} \X Window(low))
      /\ Cardinality({s} \X Window(low)) = Cardinality({s}) * Cardinality(Window(low))
  BY <1>4, <1>5, FS_Product
<1>7. QED BY <1>1, <1>4, <1>5, <1>6

\* A step that loses nothing keeps the bound; so does a failure that loses one window.
LEMMA NothingMoreLost ==
    ASSUME TypeOK, TypeOK', LostBounded, Lost' \subseteq Lost, Failures' >= Failures
    PROVE  LostBounded'
<1>1. Failures \in Nat /\ Failures' \in Nat
  BY FailuresType DEF TypeOK, Failures, FaultKinds
<1>2. /\ IsFiniteSet(Lost') /\ Cardinality(Lost') <= Cardinality(Lost)
      /\ Cardinality(Lost') \in Nat /\ Cardinality(Lost) \in Nat
  <2>1. IsFiniteSet(Lost)
    BY DEF LostBounded
  <2>2. IsFiniteSet(Lost') /\ Cardinality(Lost') <= Cardinality(Lost)
    BY <2>1, FS_Subset
  <2>3. QED BY <2>1, <2>2, FS_CardinalityType
<1>3. Count * Failures \in Nat /\ Count * Failures' \in Nat /\ Count * Failures <= Count * Failures'
  <2> DEFINE f == Failures
             g == Failures'
  <2>1. f \in Nat /\ g \in Nat /\ f <= g /\ Count \in Nat
    BY <1>1, ConstantsAssumption
  <2> HIDE DEF f, g
  <2>2. Count * f \in Nat /\ Count * g \in Nat /\ Count * f <= Count * g
    BY <2>1
  <2>3. QED BY <2>2 DEF f, g
<1>4. Cardinality(Lost) <= Count * Failures
  BY DEF LostBounded
<1>5. QED BY <1>2, <1>3, <1>4 DEF LostBounded

LEMMA OneWindowLost ==
    ASSUME TypeOK, TypeOK', LostBounded, NEW s \in Streams, NEW low \in Nat,
           Lost' \subseteq Lost \cup ({s} \X Window(low)), Failures' = Failures + 1
    PROVE  LostBounded'
<1> DEFINE piece == {s} \X Window(low)
<1>1. Failures \in Nat
  BY FailuresType DEF TypeOK
<1>2. IsFiniteSet(piece) /\ Cardinality(piece) = Count /\ Count \in Nat
  BY WindowSize, ConstantsAssumption
<1>3. IsFiniteSet(Lost) /\ Cardinality(Lost) \in Nat /\ Cardinality(Lost) <= Count * Failures
  BY FS_CardinalityType DEF LostBounded
<1> HIDE DEF piece
<1>4. /\ IsFiniteSet(Lost \cup piece)
      /\ Cardinality(Lost \cup piece) <= Cardinality(Lost) + Count
  <2>1. /\ IsFiniteSet(Lost \cup piece)
        /\ Cardinality(Lost \cup piece)
             = Cardinality(Lost) + Cardinality(piece) - Cardinality(Lost \cap piece)
    BY <1>2, <1>3, FS_Union
  <2>2. Cardinality(Lost \cap piece) \in Nat
    <3>1. IsFiniteSet(Lost \cap piece)
      BY <1>3, FS_Intersection
    <3>2. QED BY <3>1, FS_CardinalityType
  <2>3. QED BY <1>2, <1>3, <2>1, <2>2
<1>5. /\ IsFiniteSet(Lost') /\ Cardinality(Lost') <= Cardinality(Lost \cup piece)
      /\ Cardinality(Lost') \in Nat /\ Cardinality(Lost \cup piece) \in Nat
  <2>1. Lost' \subseteq Lost \cup piece
    BY DEF piece
  <2>2. IsFiniteSet(Lost') /\ Cardinality(Lost') <= Cardinality(Lost \cup piece)
    BY <1>4, <2>1, FS_Subset
  <2>3. QED BY <1>4, <2>2, FS_CardinalityType
<1>6. Count * (Failures + 1) = Count * Failures + Count /\ Count * Failures \in Nat
  <2> DEFINE f == Failures
  <2>1. f \in Nat /\ Count \in Nat
    BY <1>1, <1>2
  <2> HIDE DEF f
  <2>2. Count * (f + 1) = Count * f + Count /\ Count * f \in Nat
    BY <2>1
  <2>3. QED BY <2>2 DEF f
<1>7. Cardinality(Lost') <= Count * (Failures + 1)
  BY <1>2, <1>3, <1>4, <1>5, <1>6
<1>8. QED BY <1>5, <1>7 DEF LostBounded

\* Between two reads there is nothing in hand.
LEMMA NoHands == ASSUME TypeOK, pc \in {"discover", "ensure", "read"} PROVE batch = {}
BY DEF TypeOK, InHand

\* What a step does to what is lost, and why.
LEMMA LossStep ==
    ASSUME TypeOK, TypeOK', InWindow, [Next]_vars
    PROVE  \/ Lost' \subseteq Lost /\ Failures' >= Failures
           \/ /\ Failures' = Failures + 1
              /\ \E s \in Streams, low \in Nat : Lost' \subseteq Lost \cup ({s} \X Window(low))
<1> DEFINE Kept == Lost' \subseteq Lost /\ Failures' >= Failures
           OneMore == /\ Failures' = Failures + 1
                      /\ \E s \in Streams, low \in Nat :
                            Lost' \subseteq Lost \cup ({s} \X Window(low))
<1>1. /\ Failures \in Nat /\ batch \subseteq Entries /\ cur \in Streams
      /\ pending \in [Streams -> SUBSET Entries]
      /\ faults \in [FaultKinds -> Nat] /\ read \in [Streams -> 0..MaxEntries]
  BY FailuresType DEF TypeOK
<1>2. faults' = faults => Failures' >= Failures
  BY <1>1 DEF Failures
<1>3. /\ \A k \in {"redis", "publish", "restart"} : Spend(k) => Failures' = Failures + 1
      /\ Spend("expiry") => Failures' = Failures
  BY <1>1 DEF Spend, Failures, FaultKinds
<1>4. ASSUME batch = {}, faults' = faults,
             \A s \in Streams : pending'[s] \subseteq
                                   pending[s] \cup (IF s = cur' THEN batch' ELSE {})
      PROVE  Kept
  <2>1. \A x : x \in Lost' => x \in Lost
    BY <1>4, LostMembers, LostMembersNext
  <2>2. QED BY <1>2, <1>4, <2>1
<1>5. ASSUME cur' = cur, Failures' >= Failures,
             \A s \in Streams : pending'[s] \subseteq pending[s],
             \A n \in batch : n \in pending'[cur] => n \in batch'
      PROVE  Kept
  <2>1. \A x : x \in Lost' => x \in Lost
    BY <1>5, LostMembers, LostMembersNext
  <2>2. QED BY <1>5, <2>1
<1>6. ASSUME Failures' = Failures + 1, NEW s \in Streams, NEW low \in Nat,
             \A t \in Streams : \A n \in pending'[t] :
                \/ n \in pending[t] /\ ~(t = cur /\ n \in batch)
                \/ t = s /\ n \in Window(low)
      PROVE  OneMore
  <2>1. \A x : x \in Lost' => x \in Lost \/ x \in {s} \X Window(low)
    BY <1>6, LostMembers, LostMembersNext
  <2>2. QED BY <1>6, <2>1
<1>7. PICK low \in Nat : batch \subseteq Window(low)
  BY DEF InWindow
\* A failure that leaves the pending lists as they are.
<1>8. ASSUME Failures' = Failures + 1,
             \A t \in Streams : pending'[t] \subseteq pending[t]
      PROVE  OneMore
  BY <1>1, <1>6, <1>7, <1>8
<1> HIDE DEF Kept, OneMore
<1>9. CASE Discover
  <2>1. batch = {} /\ pending' = pending /\ faults' = faults
    BY <1>9, NoHands DEF Discover, redis
  <2>2. QED BY <1>4, <2>1 DEF Kept, OneMore
<1>10. ASSUME NEW s \in Streams, EnsureGroup(s) PROVE Kept
  <2>1. batch = {} /\ pending' = pending /\ faults' = faults
    BY <1>10, NoHands DEF EnsureGroup, CreateGroup
  <2>2. QED BY <1>4, <2>1
<1>11. ASSUME NEW s \in Streams, Read(s) PROVE Kept
  <2>1. batch = {} /\ faults' = faults
    BY <1>11, NoHands DEF Read
  <2>2. CASE UNCHANGED redis
    BY <1>4, <2>1, <2>2 DEF redis
  <2>3. CASE Deliver(s) /\ cur' = s /\ batch' = NewEntries(s)
    BY <1>1, <1>4, <2>1, <2>3 DEF Deliver
  <2>4. QED BY <1>11, <2>2, <2>3 DEF Read
<1>12. ASSUME NEW n \in Entries, ProcessReturns(n) PROVE Kept
  BY <1>2, <1>5, <1>12 DEF ProcessReturns, redis
<1>13. ASSUME NEW n \in Entries, Ack(n) PROVE Kept
  <2>1. /\ faults' = faults /\ cur' = cur
        /\ pending' = [pending EXCEPT ![cur] = @ \ {n}]
        /\ \A m \in batch : m # n => m \in batch'
    BY <1>13 DEF Ack, Acknowledge, ReadOn, EndRound
  <2>2. \A t \in Streams : pending'[t] \subseteq pending[t]
    BY <1>1, <2>1
  <2>3. n \notin pending'[cur]
    BY <1>1, <2>1
  <2>4. QED BY <1>2, <1>5, <2>1, <2>2, <2>3
<1>14. CASE ProcessRaises
  BY <1>3, <1>8, <1>14 DEF ProcessRaises, redis, OneMore
<1>15. CASE Restart
  BY <1>3, <1>8, <1>15 DEF Restart, redis, OneMore
<1>16. CASE RedisFault
  <2>1. Failures' = Failures + 1
    BY <1>3, <1>16 DEF RedisFault
  <2>2. CASE UNCHANGED redis
    BY <1>8, <2>1, <2>2 DEF redis, OneMore
  <2>3. CASE \E s \in todo : CreateGroup(s)
    BY <1>8, <2>1, <2>3 DEF CreateGroup, OneMore
  <2>4. CASE pc = "read" /\ \E s \in todo \cap group : IsLeast(s, todo) /\ Deliver(s)
    <3>1. PICK s \in Streams : Deliver(s)
      BY <2>4 DEF TypeOK
    <3>2. batch = {}
      BY <2>4, NoHands
    <3>3. read[s] \in Nat
      BY <1>1
    <3>4. NewEntries(s) \subseteq Window(read[s])
      BY <3>3, ConstantsAssumption DEF NewEntries, Window, Entries
    <3>5. pending' = [pending EXCEPT ![s] = @ \cup NewEntries(s)]
      BY <3>1 DEF Deliver
    <3>6. \A t \in Streams : \A n \in pending'[t] :
             \/ n \in pending[t] /\ ~(t = cur /\ n \in batch)
             \/ t = s /\ n \in Window(read[s])
      BY <1>1, <3>2, <3>4, <3>5
    <3>7. QED BY <1>6, <2>1, <3>3, <3>6 DEF OneMore
  <2>5. CASE \E n \in batch : IsLeast(n, batch) /\ Acknowledge(cur, n)
    <3>1. \A t \in Streams : pending'[t] \subseteq pending[t]
      BY <1>1, <2>5 DEF Acknowledge
    <3>2. QED BY <1>8, <2>1, <3>1 DEF OneMore
  <2>6. QED BY <1>16, <2>2, <2>3, <2>4, <2>5 DEF RedisFault
<1>17. ASSUME NEW s \in Streams, Add(s) PROVE Kept
  BY <1>2, <1>5, <1>17 DEF Add, loop
<1>18. ASSUME NEW s \in Streams, Expire(s) PROVE Kept
  <2>1. Failures' >= Failures
    BY <1>1, <1>3, <1>18 DEF Expire
  <2>2. \A t \in Streams : pending'[t] \subseteq pending[t]
    BY <1>1, <1>18 DEF Expire
  <2>3. QED BY <1>5, <1>18, <2>1, <2>2 DEF Expire, loop
<1>19. CASE UNCHANGED vars
  BY <1>2, <1>5, <1>19 DEF vars, Kept
<1>20. QED
  BY <1>9, <1>10, <1>11, <1>12, <1>13, <1>14, <1>15, <1>16, <1>17, <1>18, <1>19
     DEF Next, Loop, Kept, OneMore

LEMMA InWindowStep ==
    ASSUME TypeOK, InWindow, [Next]_vars
    PROVE  InWindow'
<1>1. batch' \subseteq batch \/ \E s \in Streams : batch' = NewEntries(s)
  BY DEF Next, Loop, vars, loop, Discover, StartReading, EnsureGroup, Read, ReadOn, EndRound,
         ProcessReturns, Ack, ProcessRaises, RedisFault, Restart, Add, Expire
<1>2. CASE batch' \subseteq batch
  BY <1>2 DEF InWindow, Window
<1>3. ASSUME NEW s \in Streams, batch' = NewEntries(s) PROVE InWindow'
  <2>1. read[s] \in Nat
    BY DEF TypeOK
  <2>2. batch' \subseteq Window(read[s])
    BY <1>3, <2>1, ConstantsAssumption DEF NewEntries, Window, Entries
  <2>3. QED BY <2>1, <2>2 DEF InWindow, Window
<1>4. QED BY <1>1, <1>2, <1>3

LEMMA LossInit == ASSUME Init PROVE LossInv
<1>1. InWindow
  BY DEF Init, InWindow
<1>2. Lost = {}
  BY DEF Init, Lost, Stranded
<1>3. Failures = 0
  BY DEF Init, Failures, FaultKinds
<1>4. IsFiniteSet(Lost) /\ Cardinality(Lost) = 0
  BY <1>2, FS_EmptySet
<1>5. QED BY <1>1, <1>3, <1>4, ConstantsAssumption DEF LossInv, LostBounded

\* Every failure of Redis, of a publication or of the process loses at most the entries of
\* one read, and nothing else loses any (redis_feedback.py:305-335).
THEOREM LossesAreBounded == Spec => []LossBounded
<1>1. Init => TypeOK /\ LossInv
  BY TypeInit, LossInit
<1>2. TypeOK /\ LossInv /\ [Next]_vars => (TypeOK /\ LossInv)'
  <2> SUFFICES ASSUME TypeOK, LossInv, [Next]_vars PROVE (TypeOK /\ LossInv)'
    OBVIOUS
  <2>1. TypeOK' /\ InWindow'
    BY TypeStep, InWindowStep DEF LossInv
  <2>2. LostBounded'
    BY <2>1, LossStep, NothingMoreLost, OneWindowLost DEF LossInv
  <2>3. QED BY <2>1, <2>2 DEF LossInv
<1>3. LossInv => LossBounded
  BY DEF LossInv, LostBounded, Lost, Failures, LossBounded
<1>4. QED BY <1>1, <1>2, <1>3, PTL DEF Spec
=============================================================================
