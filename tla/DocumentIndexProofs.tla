------------------------ MODULE DocumentIndexProofs ------------------------
(***************************************************************************)
(* Proofs about the index consumers and the store they share, for any      *)
(* documents, events, messages, tasks, limits and numbers of faults.       *)
(***************************************************************************)
EXTENDS DocumentIndex, TLAPS

USE ConstantsAssumption DEF FaultKinds, Kinds

LEMMA BusyTask ==
    ASSUME TypeOK, NEW t \in Tasks, pc[t] # "idle"
    PROVE  job[t] \in Messages /\ Event(t) \in Events /\ Doc(t) \in Docs
BY DEF TypeOK, Event, Doc

\* What the store holds is always a function from chunk positions.
LEMMA StoredShapes ==
    /\ Empty \in [Positions -> Events \cup {Nothing}]
    /\ \A d \in Docs : points \in [Docs -> [Positions -> Events \cup {Nothing}]]
          => Cleared(d) \in [Docs -> [Positions -> Events \cup {Nothing}]]
    /\ \A e \in Events : points \in [Docs -> [Positions -> Events \cup {Nothing}]]
          => Written(e) \in [Docs -> [Positions -> Events \cup {Nothing}]]
<1> DEFINE Slots == Events \cup {Nothing}
<1>1. Empty \in [Positions -> Slots]
  BY DEF Empty
<1>2. ASSUME NEW d \in Docs, points \in [Docs -> [Positions -> Slots]]
      PROVE  Cleared(d) \in [Docs -> [Positions -> Slots]]
  BY <1>1, <1>2 DEF Cleared
<1>3. ASSUME NEW e \in Events, points \in [Docs -> [Positions -> Slots]]
      PROVE  Written(e) \in [Docs -> [Positions -> Slots]]
  <2> DEFINE text == [i \in Positions |-> IF i \in Chunks(e) THEN e ELSE points[DocOf[e]][i]]
  <2>1. DocOf[e] \in Docs
    OBVIOUS
  <2>2. text \in [Positions -> Slots]
    BY <1>3, <2>1
  <2>3. Written(e) = [points EXCEPT ![DocOf[e]] = text]
    BY DEF Written
  <2> HIDE DEF text
  <2>4. QED BY <1>3, <2>1, <2>2, <2>3
<1>4. QED BY <1>1, <1>2, <1>3

\* What a handler does to its own state and the trackers.
TasksTyped ==
    /\ pc \in [Tasks -> Steps]
    /\ job \in [Tasks -> Messages \cup {Nothing}]
    /\ live \in [Tasks -> BOOLEAN]
    /\ why \in [Tasks -> Causes]
    /\ completed \in SUBSET Events
    /\ retry \in [Events -> Nat]
    /\ \A t \in Tasks : (pc[t] = "idle") <=> (job[t] = Nothing)

Moves(t) == \/ \E s \in Steps \ {"idle"} : Goto(t, s) /\ UNCHANGED tracker
            \/ Retry(t)
            \/ \E reason \in Causes : Reject(t, reason)
            \/ MarkCompleted(t)

LEMMA MovesKeepTypes ==
    ASSUME TypeOK, NEW t \in Tasks, pc[t] # "idle", Moves(t)
    PROVE  TasksTyped'
<1>1. job[t] \in Messages /\ Event(t) \in Events /\ Nothing \notin Messages
  BY BusyTask
<1>2. "requeue" \in Steps \ {"idle"} /\ "deadletter" \in Steps \ {"idle"}
      /\ "ack" \in Steps \ {"idle"} /\ "none" \in Causes /\ "exhausted" \in Causes
  BY DEF Steps, Causes
<1>3. CASE \E s \in Steps \ {"idle"} : Goto(t, s) /\ UNCHANGED tracker
  BY <1>1, <1>3 DEF TypeOK, TasksTyped, Goto, tracker
<1>4. CASE Retry(t)
  <2>1. PICK s \in {"requeue", "deadletter"}, reason \in Causes :
           pc' = [pc EXCEPT ![t] = s] /\ why' = [why EXCEPT ![t] = reason]
    BY <1>2, <1>4 DEF Retry
  <2>2. /\ retry' = [retry EXCEPT ![Event(t)] = retry[Event(t)] + 1]
        /\ UNCHANGED <<job, live, completed>>
    BY <1>4 DEF Retry
  <2>3. retry' \in [Events -> Nat]
    BY <1>1, <2>2 DEF TypeOK
  <2>4. QED BY <1>1, <1>2, <2>1, <2>2, <2>3 DEF TypeOK, TasksTyped
<1>5. CASE \E reason \in Causes : Reject(t, reason)
  BY <1>1, <1>2, <1>5 DEF TypeOK, TasksTyped, Reject, tracker
<1>6. CASE MarkCompleted(t)
  BY <1>1, <1>2, <1>6 DEF TypeOK, TasksTyped, MarkCompleted, Goto
<1>7. QED BY <1>3, <1>4, <1>5, <1>6 DEF Moves

\* The variables keep their types.
THEOREM TypeCorrect == Spec => []TypeOK
<1>1. Init => TypeOK
  <2> SUFFICES ASSUME Init PROVE TypeOK
    OBVIOUS
  <2>1. points \in [Docs -> [Positions -> Events \cup {Nothing}]]
    BY StoredShapes DEF Init
  <2>2. TasksTyped
    BY DEF Init, TasksTyped, Steps, Causes
  <2>3. QED
    BY <2>1, <2>2 DEF Init, TypeOK, TasksTyped, Locations, Causes
<1>2. TypeOK /\ [Next]_vars => TypeOK'
  <2> SUFFICES ASSUME TypeOK, [Next]_vars PROVE TypeOK'
    OBVIOUS
  <2> USE DEF TypeOK, Locations, Steps, IndexSteps, Causes, broker, handler, tracker, qdrant,
              Goto, Finish, Spend, Retry, Reject, MarkCompleted, QdrantFails
  <2>1. ASSUME NEW m \in Messages, Enqueue(m) PROVE TypeOK'
    BY <2>1 DEF Enqueue
  <2>2. ASSUME NEW m \in Messages, NEW t \in Tasks, Deliver(m, t) PROVE TypeOK'
    BY <2>2 DEF Deliver, FirstStep
  <2> HIDE DEF Goto, Retry, Reject, MarkCompleted, TypeOK, Steps, Causes
  <2>3. ASSUME NEW t \in Tasks, Prepare(t) PROVE TypeOK'
    <3>1. pc[t] # "idle" /\ Moves(t)
      BY <2>3 DEF Prepare, Moves, Steps, Causes
    <3>2. TasksTyped'
      BY <3>1, MovesKeepTypes
    <3>3. Event(t) \in Events /\ Doc(t) \in Docs
      BY <3>1, BusyTask
    <3>4. QED BY <2>3, <3>2, <3>3, StoredShapes DEF Prepare, TypeOK, TasksTyped
  <2>4. ASSUME NEW t \in Tasks, FindCollection(t) PROVE TypeOK'
    <3>1. pc[t] # "idle" /\ Moves(t)
      BY <2>4 DEF FindCollection, Moves, Steps, Causes
    <3>2. TasksTyped'
      BY <3>1, MovesKeepTypes
    <3>3. Event(t) \in Events /\ Doc(t) \in Docs
      BY <3>1, BusyTask
    <3>4. QED BY <2>4, <3>2, <3>3, StoredShapes DEF FindCollection, TypeOK, TasksTyped
  <2>5. ASSUME NEW t \in Tasks, CreateCollection(t) PROVE TypeOK'
    <3>1. pc[t] # "idle" /\ Moves(t)
      BY <2>5 DEF CreateCollection, Moves, Steps, Causes
    <3>2. TasksTyped'
      BY <3>1, MovesKeepTypes
    <3>3. Event(t) \in Events /\ Doc(t) \in Docs
      BY <3>1, BusyTask
    <3>4. QED BY <2>5, <3>2, <3>3, StoredShapes DEF CreateCollection, TypeOK, TasksTyped
  <2>6. ASSUME NEW t \in Tasks, EnsurePayloadIndexes(t) PROVE TypeOK'
    <3>1. pc[t] # "idle" /\ Moves(t)
      BY <2>6 DEF EnsurePayloadIndexes, Moves, Steps, Causes
    <3>2. TasksTyped'
      BY <3>1, MovesKeepTypes
    <3>3. Event(t) \in Events /\ Doc(t) \in Docs
      BY <3>1, BusyTask
    <3>4. QED BY <2>6, <3>2, <3>3, StoredShapes DEF EnsurePayloadIndexes, TypeOK, TasksTyped
  <2>7. ASSUME NEW t \in Tasks, DeletePoints(t) PROVE TypeOK'
    <3>1. pc[t] # "idle" /\ Moves(t)
      BY <2>7 DEF DeletePoints, Moves, Steps, Causes
    <3>2. TasksTyped'
      BY <3>1, MovesKeepTypes
    <3>3. Event(t) \in Events /\ Doc(t) \in Docs
      BY <3>1, BusyTask
    <3>4. QED BY <2>7, <3>2, <3>3, StoredShapes DEF DeletePoints, TypeOK, TasksTyped
  <2>8. ASSUME NEW t \in Tasks, UpsertPoints(t) PROVE TypeOK'
    <3>1. pc[t] # "idle" /\ Moves(t)
      BY <2>8 DEF UpsertPoints, Moves, Steps, Causes
    <3>2. TasksTyped'
      BY <3>1, MovesKeepTypes
    <3>3. Event(t) \in Events /\ Doc(t) \in Docs
      BY <3>1, BusyTask
    <3>4. QED BY <2>8, <3>2, <3>3, StoredShapes DEF UpsertPoints, TypeOK, TasksTyped
  <2>9. ASSUME NEW t \in Tasks, RemoveDocument(t) PROVE TypeOK'
    <3>1. pc[t] # "idle" /\ Moves(t)
      BY <2>9 DEF RemoveDocument, Moves, Steps, Causes
    <3>2. TasksTyped'
      BY <3>1, MovesKeepTypes
    <3>3. Event(t) \in Events /\ Doc(t) \in Docs
      BY <3>1, BusyTask
    <3>4. points' \in [Docs -> [Positions -> Events \cup {Nothing}]]
      <4>1. points' = points \/ points' = Cleared(Doc(t))
        BY <2>9 DEF RemoveDocument
      <4>2. QED BY <3>3, <4>1, StoredShapes DEF TypeOK
    <3>5. applied' \in SUBSET Events
      BY <2>9, <3>3 DEF RemoveDocument, TypeOK
    <3>6. UNCHANGED <<broker, collection, ensured, overlapped, faults>>
      BY <2>9 DEF RemoveDocument
    <3>7. QED BY <3>2, <3>4, <3>5, <3>6 DEF TypeOK, TasksTyped
  <2> USE DEF TypeOK, Steps, Causes
  <2>10. ASSUME NEW t \in Tasks, Ack(t) PROVE TypeOK'
    BY <2>10, BusyTask DEF Ack, Settle
  <2>11. ASSUME NEW t \in Tasks, Requeue(t) PROVE TypeOK'
    BY <2>11, BusyTask DEF Requeue, Settle
  <2>12. ASSUME NEW t \in Tasks, DeadLetter(t) PROVE TypeOK'
    BY <2>12, BusyTask DEF DeadLetter, Settle
  <2>13. ASSUME ChannelLoss PROVE TypeOK'
    BY <2>13 DEF ChannelLoss, TakenBack
  <2>14. ASSUME Restart PROVE TypeOK'
    <3>1. TasksTyped'
      BY <2>14 DEF Restart, TasksTyped
    <3>2. loc' \in [Messages -> Locations] /\ faults' \in [FaultKinds -> Nat]
      BY <2>14 DEF Restart, TakenBack
    <3>3. QED BY <2>14, <3>1, <3>2 DEF Restart, TasksTyped
  <2>15. ASSUME DropCollection PROVE TypeOK'
    <3>1. points' \in [Docs -> [Positions -> Events \cup {Nothing}]]
      BY <2>15, StoredShapes DEF DropCollection
    <3>2. faults' \in [FaultKinds -> Nat]
      BY <2>15 DEF DropCollection
    <3>3. QED BY <2>15, <3>1, <3>2 DEF DropCollection
  <2>16. ASSUME UNCHANGED vars PROVE TypeOK'
    BY <2>16 DEF vars
  <2>17. QED
    BY <2>1, <2>2, <2>3, <2>4, <2>5, <2>6, <2>7, <2>8, <2>9, <2>10, <2>11, <2>12, <2>13,
       <2>14, <2>15, <2>16 DEF Next, Handle
<1>3. QED BY <1>1, <1>2, PTL DEF Spec
-----------------------------------------------------------------------------
(***************************************************************************)
(* What the steps of a handler have in common: a step that calls the       *)
(* embedding or Qdrant changes only its own task, and reaches "ack" only   *)
(* with its event applied; a step that settles ends its task.              *)
(***************************************************************************)
Work(t) == \/ Prepare(t) \/ FindCollection(t) \/ CreateCollection(t) \/ EnsurePayloadIndexes(t)
           \/ DeletePoints(t) \/ UpsertPoints(t) \/ RemoveDocument(t)

WorkEffect(t) ==
    /\ pc[t] \notin {"idle", "ack"}
    /\ \A u \in Tasks : u # t => pc'[u] = pc[u]
    /\ pc'[t] # "idle"
    /\ UNCHANGED <<loc, job, live>>
    /\ pc'[t] = "ack" => Event(t) \in applied'
    /\ completed' \subseteq completed \cup applied'
    /\ applied' = applied \/ applied' = applied \cup {Event(t)}

LEMMA WorkSteps ==
    ASSUME TypeOK, NEW t \in Tasks, Work(t)
    PROVE  WorkEffect(t)
<1> USE DEF TypeOK, WorkEffect, broker, tracker, qdrant, Goto, Retry, Reject, MarkCompleted,
            QdrantFails
<1>1. CASE Prepare(t)
  BY <1>1, BusyTask DEF Prepare
<1>2. CASE FindCollection(t)
  BY <1>2, BusyTask DEF FindCollection
<1>3. CASE CreateCollection(t)
  BY <1>3, BusyTask DEF CreateCollection
<1>4. CASE EnsurePayloadIndexes(t)
  BY <1>4, BusyTask DEF EnsurePayloadIndexes
<1>5. CASE DeletePoints(t)
  BY <1>5, BusyTask DEF DeletePoints
<1>6. CASE UpsertPoints(t)
  BY <1>6, BusyTask DEF UpsertPoints
<1>7. CASE RemoveDocument(t)
  BY <1>7, BusyTask DEF RemoveDocument
<1>8. QED BY <1>1, <1>2, <1>3, <1>4, <1>5, <1>6, <1>7 DEF Work

SettleEffect(t) ==
    \E step \in {"ack", "requeue", "deadletter"} : \E there \in {"acked", "queued", "dlq"} :
        /\ pc[t] = step
        /\ <<step, there>> \in {<<"ack", "acked">>, <<"requeue", "queued">>,
                                <<"deadletter", "dlq">>}
        /\ loc' = IF live[t] THEN [loc EXCEPT ![job[t]] = there] ELSE loc
        /\ pc' = [pc EXCEPT ![t] = "idle"]
        /\ job' = [job EXCEPT ![t] = Nothing]
        /\ live' = [live EXCEPT ![t] = FALSE]
        /\ UNCHANGED <<completed, points, applied>>

LEMMA SettleSteps ==
    ASSUME NEW t \in Tasks, Ack(t) \/ Requeue(t) \/ DeadLetter(t)
    PROVE  SettleEffect(t)
<1> USE DEF Settle, Finish, tracker, qdrant, SettleEffect
<1>1. CASE Ack(t)
  BY <1>1 DEF Ack
<1>2. CASE Requeue(t)
  BY <1>2 DEF Requeue
<1>3. CASE DeadLetter(t)
  BY <1>3 DEF DeadLetter
<1>4. QED BY <1>1, <1>2, <1>3

LEMMA HandleSteps ==
    ASSUME TypeOK, NEW t \in Tasks, Handle(t)
    PROVE  WorkEffect(t) \/ SettleEffect(t)
BY WorkSteps, SettleSteps DEF Handle, Work
-----------------------------------------------------------------------------
(***************************************************************************)
(* Acknowledged requests took effect.  The in-memory tracker only ever     *)
(* names events that were applied, so neither the handler that did the     *)
(* work nor one that finds its event completed can ack too early.          *)
(***************************************************************************)
AppliedInv ==
    /\ completed \subseteq applied
    /\ \A t \in Tasks : pc[t] = "ack" => Event(t) \in applied
    /\ AckedWasApplied

LEMMA AppliedInvariant == Spec => []AppliedInv
<1>1. Init => AppliedInv
  BY DEF Init, AppliedInv, AckedWasApplied
<1>2. TypeOK /\ AppliedInv /\ [Next]_vars => AppliedInv'
  <2> SUFFICES ASSUME TypeOK, AppliedInv, [Next]_vars PROVE AppliedInv'
    OBVIOUS
  <2> USE DEF AppliedInv, AckedWasApplied, TypeOK, Event, broker, handler, tracker, qdrant
  <2>1. ASSUME NEW m \in Messages, Enqueue(m) PROVE AppliedInv'
    BY <2>1 DEF Enqueue
  <2>2. ASSUME NEW m \in Messages, NEW t \in Tasks, Deliver(m, t) PROVE AppliedInv'
    BY <2>2 DEF Deliver, FirstStep
  <2>3. ASSUME NEW t \in Tasks, WorkEffect(t) PROVE AppliedInv'
    BY <2>3 DEF WorkEffect
  <2>4. ASSUME NEW t \in Tasks, SettleEffect(t) PROVE AppliedInv'
    BY <2>4, BusyTask DEF SettleEffect
  <2>5. ASSUME ChannelLoss PROVE AppliedInv'
    BY <2>5 DEF ChannelLoss, TakenBack
  <2>6. ASSUME Restart PROVE AppliedInv'
    BY <2>6 DEF Restart, TakenBack
  <2>7. ASSUME DropCollection PROVE AppliedInv'
    BY <2>7 DEF DropCollection
  <2>8. ASSUME UNCHANGED vars PROVE AppliedInv'
    BY <2>8 DEF vars
  <2>9. QED
    BY <2>1, <2>2, <2>3, <2>4, <2>5, <2>6, <2>7, <2>8, HandleSteps DEF Next
<1>3. QED BY <1>1, <1>2, TypeCorrect, PTL DEF Spec

\* An index request is acknowledged only after its upsert, a removal after its delete.
THEOREM AckedRequestsWereApplied == Spec => []AckedWasApplied
<1>1. AppliedInv => AckedWasApplied
  BY DEF AppliedInv
<1>2. QED BY <1>1, AppliedInvariant, PTL
-----------------------------------------------------------------------------
\* No slot of a prefetch window leaks and no message is settled twice on a channel:
\* every unacknowledged message has exactly one task with an open channel.
THEOREM OneHandlerPerMessage == Spec => []OneHandler
<1>1. Init => OneHandler
  BY DEF Init, OneHandler
<1>2. TypeOK /\ OneHandler /\ [Next]_vars => OneHandler'
  <2> SUFFICES ASSUME TypeOK, OneHandler, [Next]_vars PROVE OneHandler'
    OBVIOUS
  <2> USE DEF OneHandler, TypeOK, broker, handler, tracker, qdrant
  <2>1. ASSUME NEW m \in Messages, Enqueue(m) PROVE OneHandler'
    BY <2>1 DEF Enqueue
  <2>2. ASSUME NEW m \in Messages, NEW t \in Tasks, Deliver(m, t) PROVE OneHandler'
    BY <2>2 DEF Deliver
  <2>3. ASSUME NEW t \in Tasks, WorkEffect(t) PROVE OneHandler'
    BY <2>3 DEF WorkEffect
  <2>4. ASSUME NEW t \in Tasks, SettleEffect(t) PROVE OneHandler'
    <3>1. job[t] \in Messages
      BY <2>4, BusyTask DEF SettleEffect
    <3>2. CASE live[t]
      <4>1. PICK there \in {"acked", "queued", "dlq"} : loc' = [loc EXCEPT ![job[t]] = there]
        BY <2>4, <3>2 DEF SettleEffect
      <4>2. QED BY <2>4, <3>1, <3>2, <4>1 DEF SettleEffect
    <3>3. CASE ~live[t]
      BY <2>4, <3>1, <3>3 DEF SettleEffect
    <3>4. QED BY <3>2, <3>3
  <2>5. ASSUME ChannelLoss PROVE OneHandler'
    BY <2>5 DEF ChannelLoss, TakenBack
  <2>6. ASSUME Restart PROVE OneHandler'
    BY <2>6 DEF Restart, TakenBack
  <2>7. ASSUME DropCollection PROVE OneHandler'
    BY <2>7 DEF DropCollection
  <2>8. ASSUME UNCHANGED vars PROVE OneHandler'
    BY <2>8 DEF vars
  <2>9. QED
    BY <2>1, <2>2, <2>3, <2>4, <2>5, <2>6, <2>7, <2>8, HandleSteps DEF Next
<1>3. QED BY <1>1, <1>2, TypeCorrect, PTL DEF Spec
-----------------------------------------------------------------------------
(***************************************************************************)
(* The consumers implement RequestJob under the mapping StatusOf.          *)
(***************************************************************************)
\* A task's message, even one redelivered since, was submitted by the backend.
SubmittedInv == \A t \in Tasks : pc[t] # "idle" => loc[job[t]] # "absent"

LEMMA SubmittedInvariant == Spec => []SubmittedInv
<1>1. Init => SubmittedInv
  BY DEF Init, SubmittedInv
<1>2. TypeOK /\ SubmittedInv /\ [Next]_vars => SubmittedInv'
  <2> SUFFICES ASSUME TypeOK, SubmittedInv, [Next]_vars PROVE SubmittedInv'
    OBVIOUS
  <2> USE DEF SubmittedInv, TypeOK, broker, handler, tracker, qdrant
  <2>1. ASSUME NEW m \in Messages, Enqueue(m) PROVE SubmittedInv'
    BY <2>1, BusyTask DEF Enqueue
  <2>2. ASSUME NEW m \in Messages, NEW t \in Tasks, Deliver(m, t) PROVE SubmittedInv'
    BY <2>2, BusyTask DEF Deliver
  <2>3. ASSUME NEW t \in Tasks, WorkEffect(t) PROVE SubmittedInv'
    BY <2>3 DEF WorkEffect
  <2>4. ASSUME NEW t \in Tasks, SettleEffect(t) PROVE SubmittedInv'
    BY <2>4, BusyTask DEF SettleEffect
  <2>5. ASSUME ChannelLoss PROVE SubmittedInv'
    BY <2>5, BusyTask DEF ChannelLoss, TakenBack
  <2>6. ASSUME Restart PROVE SubmittedInv'
    BY <2>6 DEF Restart, TakenBack
  <2>7. ASSUME DropCollection PROVE SubmittedInv'
    BY <2>7 DEF DropCollection
  <2>8. ASSUME UNCHANGED vars PROVE SubmittedInv'
    BY <2>8 DEF vars
  <2>9. QED
    BY <2>1, <2>2, <2>3, <2>4, <2>5, <2>6, <2>7, <2>8, HandleSteps DEF Next
<1>3. QED BY <1>1, <1>2, TypeCorrect, PTL DEF Spec

LEMMA StatusValues ==
    /\ StatusOf("absent") = "absent"
    /\ StatusOf("queued") = "pending"
    /\ StatusOf("unacked") = "pending"
    /\ StatusOf("acked") = "done"
    /\ StatusOf("dlq") = "failed"
BY DEF StatusOf

\* A step that leaves every status and the applied events alone is a stutter.
LEMMA Stutter ==
    ASSUME applied' = applied,
           \A m \in Messages :
              loc'[m] = loc[m] \/ {loc[m], loc'[m]} \subseteq {"queued", "unacked"}
    PROVE  UNCHANGED Job!jobVars
<1>1. ASSUME NEW m \in Messages PROVE StatusOf(loc[m]) = StatusOf(loc'[m])
  <2>1. \/ loc'[m] = loc[m]
        \/ loc[m] \in {"queued", "unacked"} /\ loc'[m] \in {"queued", "unacked"}
    OBVIOUS
  <2>2. QED BY <2>1, StatusValues
<1>2. QED BY <1>1 DEF Job!jobVars

\* Every behaviour of the consumers is one the backend was promised.
THEOREM ConsumersKeepPromise == Spec => JobPromise
<1>1. Init => Job!JobInit
  BY StatusValues DEF Init, Job!JobInit
<1>2. TypeOK /\ TypeOK' /\ AppliedInv /\ OneHandler /\ SubmittedInv /\ [Next]_vars
      => [Job!JobNext]_(Job!jobVars)
  <2> SUFFICES ASSUME TypeOK, TypeOK', AppliedInv, OneHandler, SubmittedInv, [Next]_vars
               PROVE  Job!JobNext \/ UNCHANGED Job!jobVars
    OBVIOUS
  <2> USE StatusValues DEF TypeOK, broker, handler, tracker, qdrant
  <2>1. ASSUME NEW m \in Messages, Enqueue(m) PROVE Job!JobNext
    <3>1. Job!Submit(m)
      BY <2>1 DEF Enqueue, Job!Submit
    <3>2. QED BY <3>1 DEF Job!JobNext
  <2>2. ASSUME NEW m \in Messages, NEW t \in Tasks, Deliver(m, t)
        PROVE  UNCHANGED Job!jobVars
    BY <2>2, Stutter DEF Deliver
  <2>3. ASSUME NEW t \in Tasks, WorkEffect(t)
        PROVE  Job!JobNext \/ UNCHANGED Job!jobVars
    <3>1. CASE applied' = applied
      BY <2>3, <3>1, Stutter DEF WorkEffect
    <3>2. CASE applied' = applied \cup {Event(t)}
      <4>1. job[t] \in Messages /\ loc[job[t]] # "absent"
        BY <2>3, BusyTask DEF WorkEffect, SubmittedInv
      <4>2. Job!Produce(job[t])
        BY <2>3, <3>2, <4>1 DEF WorkEffect, Job!Produce, Event, Locations
      <4>3. QED BY <4>1, <4>2 DEF Job!JobNext
    <3>3. QED BY <2>3, <3>1, <3>2 DEF WorkEffect
  <2>4. ASSUME NEW t \in Tasks, SettleEffect(t)
        PROVE  Job!JobNext \/ UNCHANGED Job!jobVars
    <3>1. job[t] \in Messages
      BY <2>4, BusyTask DEF SettleEffect
    <3>2. CASE ~live[t]
      BY <2>4, <3>2, Stutter DEF SettleEffect
    <3>3. CASE live[t] /\ pc[t] = "ack"
      <4>1. loc[job[t]] = "unacked" /\ EventOf[job[t]] \in applied
        BY <3>3 DEF OneHandler, AppliedInv, Event
      <4>2. loc' = [loc EXCEPT ![job[t]] = "acked"] /\ applied' = applied
        BY <2>4, <3>3 DEF SettleEffect
      <4>3. Job!Complete(job[t])
        BY <3>1, <4>1, <4>2 DEF Job!Complete
      <4>4. QED BY <3>1, <4>3 DEF Job!JobNext
    <3>4. CASE live[t] /\ pc[t] = "requeue"
      <4>1. loc[job[t]] = "unacked" /\ loc' = [loc EXCEPT ![job[t]] = "queued"]
            /\ applied' = applied
        BY <2>4, <3>4 DEF OneHandler, SettleEffect
      <4>2. QED BY <3>1, <4>1, Stutter
    <3>5. CASE live[t] /\ pc[t] = "deadletter"
      <4>1. loc[job[t]] = "unacked"
        BY <3>5 DEF OneHandler
      <4>2. loc' = [loc EXCEPT ![job[t]] = "dlq"] /\ applied' = applied
        BY <2>4, <3>5 DEF SettleEffect
      <4>3. Job!GiveUp(job[t])
        BY <3>1, <4>1, <4>2 DEF Job!GiveUp
      <4>4. QED BY <3>1, <4>3 DEF Job!JobNext
    <3>6. QED BY <2>4, <3>2, <3>3, <3>4, <3>5 DEF SettleEffect
  <2>5. ASSUME ChannelLoss \/ Restart \/ DropCollection
        PROVE  UNCHANGED Job!jobVars
    BY <2>5, Stutter DEF ChannelLoss, Restart, DropCollection, TakenBack
  <2>6. ASSUME UNCHANGED vars PROVE UNCHANGED Job!jobVars
    BY <2>6 DEF vars, Job!jobVars
  <2>7. QED BY <2>1, <2>2, <2>3, <2>4, <2>5, <2>6, HandleSteps DEF Next
<1>3. QED
  BY <1>1, <1>2, TypeCorrect, AppliedInvariant, OneHandlerPerMessage, SubmittedInvariant,
     PTL DEF Spec, JobPromise, Job!JobSpec
-----------------------------------------------------------------------------
(***************************************************************************)
(* Dead letters are justified.  Only a removal handler gives up on an      *)
(* outage, and the counter that made an index handler give up only goes    *)
(* down when the event completes or the process restarts.                  *)
(***************************************************************************)
UsedUp(e) == retry[e] > MaxRetries \/ e \in completed \/ faults["restart"] > 0

JustifiedInv ==
    /\ \A t \in Tasks : pc[t] = "remove" => Kind[Event(t)] = "remove"
    /\ \A t \in Tasks : pc[t] # "idle" /\ why[t] = "outage" => Kind[Event(t)] = "remove"
    /\ \A t \in Tasks : pc[t] # "idle" /\ why[t] = "exhausted" => UsedUp(Event(t))
    /\ DeadLetterJustified

WhyEffect(t) ==
    /\ \A u \in Tasks : u # t => pc'[u] = pc[u] /\ why'[u] = why[u]
    /\ pc'[t] # "remove"
    /\ why'[t] = "outage" => why[t] = "outage" \/ pc[t] = "remove"
    /\ why'[t] = "exhausted" => why[t] = "exhausted" \/ UsedUp(Event(t))'
    /\ \A e \in Events : UsedUp(e) => UsedUp(e)'

\* The ways in which a handler goes on.
LEMMA MovesJustified ==
    ASSUME TypeOK, NEW t \in Tasks, pc[t] # "idle", UNCHANGED faults,
           \/ \E s \in Steps \ {"remove"} : Goto(t, s) /\ UNCHANGED tracker
           \/ Retry(t)
           \/ \E reason \in Causes \ {"exhausted"} :
                 Reject(t, reason) /\ (reason = "outage" => pc[t] = "remove")
           \/ MarkCompleted(t)
    PROVE  WhyEffect(t) /\ UNCHANGED job
<1>1. job[t] \in Messages /\ Event(t) \in Events
  BY BusyTask
<1>2. CASE \E s \in Steps \ {"remove"} : Goto(t, s) /\ UNCHANGED tracker
  BY <1>1, <1>2 DEF TypeOK, WhyEffect, UsedUp, Goto, tracker
<1>3. CASE Retry(t)
  <2> DEFINE n == retry[Event(t)] + 1
  <2>1. n \in Nat /\ UNCHANGED <<job, completed>>
        /\ retry' = [retry EXCEPT ![Event(t)] = n]
        /\ pc' = [pc EXCEPT ![t] = IF n <= MaxRetries THEN "requeue" ELSE "deadletter"]
        /\ why' = [why EXCEPT ![t] = IF n <= MaxRetries THEN "none" ELSE "exhausted"]
    BY <1>1, <1>3 DEF TypeOK, Retry
  <2>2. retry'[Event(t)] = n /\ Event(t)' = Event(t)
    BY <1>1, <2>1 DEF TypeOK, Event
  <2>3. \A e \in Events : UsedUp(e) => UsedUp(e)'
    BY <1>1, <2>1, <2>2 DEF TypeOK, UsedUp
  <2>4. why'[t] = "exhausted" => UsedUp(Event(t))'
    BY <1>1, <2>1, <2>2 DEF TypeOK, UsedUp
  <2>5. why'[t] # "outage" /\ pc'[t] # "remove"
        /\ \A u \in Tasks : u # t => pc'[u] = pc[u] /\ why'[u] = why[u]
    BY <2>1 DEF TypeOK
  <2>6. QED BY <2>1, <2>3, <2>4, <2>5 DEF WhyEffect
<1>4. CASE \E reason \in Causes \ {"exhausted"} :
              Reject(t, reason) /\ (reason = "outage" => pc[t] = "remove")
  BY <1>1, <1>4 DEF TypeOK, WhyEffect, UsedUp, Reject, tracker
<1>5. CASE MarkCompleted(t)
  BY <1>1, <1>5 DEF TypeOK, WhyEffect, UsedUp, MarkCompleted, Goto
<1>6. QED BY <1>2, <1>3, <1>4, <1>5

LEMMA WorkJustified ==
    ASSUME TypeOK, NEW t \in Tasks, Work(t)
    PROVE  WhyEffect(t) /\ UNCHANGED <<job, cause, faults>>
<1> USE DEF broker, qdrant, QdrantFails, Steps, IndexSteps, Causes
<1>1. CASE Prepare(t)
  BY <1>1, MovesJustified DEF Prepare
<1>2. CASE FindCollection(t)
  BY <1>2, MovesJustified DEF FindCollection
<1>3. CASE CreateCollection(t)
  <2>1. pc[t] = "create" /\ UNCHANGED <<cause, faults>>
    BY <1>3 DEF CreateCollection
  <2>2. \/ Goto(t, "payload") /\ UNCHANGED tracker
        \/ Retry(t)
        \/ Reject(t, "conflict") \/ Reject(t, "refused")
    BY <1>3 DEF CreateCollection
  <2>3. QED BY <2>1, <2>2, MovesJustified
<1>4. CASE EnsurePayloadIndexes(t)
  BY <1>4, MovesJustified DEF EnsurePayloadIndexes
<1>5. CASE DeletePoints(t)
  BY <1>5, MovesJustified DEF DeletePoints
<1>6. CASE UpsertPoints(t)
  BY <1>6, MovesJustified DEF UpsertPoints
<1>7. CASE RemoveDocument(t)
  <2>1. pc[t] = "remove" /\ UNCHANGED <<cause, faults>>
    BY <1>7 DEF RemoveDocument
  <2>2. \/ MarkCompleted(t) \/ Retry(t)
        \/ \E reason \in Causes \ {"exhausted"} : Reject(t, reason)
    BY <1>7 DEF RemoveDocument
  <2>3. QED BY <2>1, <2>2, MovesJustified
<1>8. QED BY <1>1, <1>2, <1>3, <1>4, <1>5, <1>6, <1>7 DEF Work

\* An index request is given up over a failure worth retrying only when the retries of its
\* event are used up, whatever copies, lost channels and restarts there are.
THEOREM DeadLettersAreJustified == Spec => []DeadLetterJustified
<1>1. Init => JustifiedInv
  BY DEF Init, JustifiedInv, DeadLetterJustified
<1>2. TypeOK /\ JustifiedInv /\ [Next]_vars => JustifiedInv'
  <2> SUFFICES ASSUME TypeOK, JustifiedInv, [Next]_vars PROVE JustifiedInv'
    OBVIOUS
  <2> USE DEF TypeOK, JustifiedInv, DeadLetterJustified, UsedUp, Event, broker, handler,
              tracker, qdrant
  <2>1. ASSUME NEW m \in Messages, Enqueue(m) PROVE JustifiedInv'
    BY <2>1 DEF Enqueue
  <2>2. ASSUME NEW m \in Messages, NEW t \in Tasks, Deliver(m, t) PROVE JustifiedInv'
    BY <2>2 DEF Deliver, FirstStep
  <2>3. ASSUME NEW t \in Tasks, Work(t) PROVE JustifiedInv'
    <3>1. WhyEffect(t) /\ UNCHANGED <<job, cause, faults>> /\ pc[t] # "idle"
      BY <2>3, WorkJustified, WorkSteps DEF WorkEffect
    <3>2. \A u \in Tasks : Event(u)' = Event(u) /\ (pc[u] # "idle" => Event(u) \in Events)
      BY <3>1, BusyTask
    <3> HIDE DEF UsedUp, Event, TypeOK
    <3>3. \A u \in Tasks : pc'[u] = "remove" => Kind[Event(u)'] = "remove"
      BY <3>1, <3>2 DEF WhyEffect
    <3>4. \A u \in Tasks : pc'[u] # "idle" /\ why'[u] = "outage" => Kind[Event(u)'] = "remove"
      BY <3>1, <3>2 DEF WhyEffect
    <3>5. \A u \in Tasks : pc'[u] # "idle" /\ why'[u] = "exhausted" => UsedUp(Event(u))'
      <4> SUFFICES ASSUME NEW u \in Tasks, pc'[u] # "idle", why'[u] = "exhausted"
                   PROVE  UsedUp(Event(u))'
        OBVIOUS
      <4>1. \A e \in Events : UsedUp(e) => UsedUp(e)'
        BY <3>1 DEF WhyEffect
      <4>2. CASE pc[u] # "idle" /\ why[u] = "exhausted"
        <5>1. UsedUp(Event(u)) /\ Event(u) \in Events /\ Event(u)' = Event(u)
          BY <4>2, <3>2
        <5>2. QED BY <4>1, <5>1 DEF UsedUp
      <4>3. CASE u = t
        BY <3>1, <4>2, <4>3 DEF WhyEffect
      <4>4. QED BY <3>1, <4>2, <4>3 DEF WhyEffect
    <3>6. DeadLetterJustified'
      <4>1. \A m \in Messages : UsedUp(EventOf[m]) => UsedUp(EventOf[m])'
        BY <3>1 DEF WhyEffect
      <4>2. QED BY <3>1, <4>1 DEF UsedUp
    <3>7. QED BY <3>3, <3>4, <3>5, <3>6
  <2>4. ASSUME NEW t \in Tasks, Ack(t) \/ Requeue(t) PROVE JustifiedInv'
    <3>1. /\ pc' = [pc EXCEPT ![t] = "idle"] /\ job' = [job EXCEPT ![t] = Nothing]
          /\ why' = [why EXCEPT ![t] = "none"]
          /\ UNCHANGED <<cause, completed, retry, faults>>
      BY <2>4 DEF Ack, Requeue, Settle, Finish
    <3>2. QED BY <3>1
  <2>5. ASSUME NEW t \in Tasks, DeadLetter(t) PROVE JustifiedInv'
    <3>1. job[t] \in Messages /\ pc[t] # "idle"
      BY <2>5, BusyTask DEF DeadLetter, Settle
    <3>2. QED BY <2>5, <3>1 DEF DeadLetter, Settle, Finish
  <2>6. ASSUME ChannelLoss PROVE JustifiedInv'
    BY <2>6 DEF ChannelLoss, Spend
  <2>7. ASSUME Restart PROVE JustifiedInv'
    <3>1. faults'["restart"] > 0
      BY <2>7 DEF Restart, Spend
    <3>2. QED BY <2>7, <3>1 DEF Restart
  <2>8. ASSUME DropCollection PROVE JustifiedInv'
    BY <2>8 DEF DropCollection, Spend
  <2>9. ASSUME UNCHANGED vars PROVE JustifiedInv'
    BY <2>9 DEF vars
  <2>10. QED
    BY <2>1, <2>2, <2>3, <2>4, <2>5, <2>6, <2>7, <2>8, <2>9 DEF Next, Handle, Work
<1>3. JustifiedInv => DeadLetterJustified
  BY DEF JustifiedInv
<1>4. QED BY <1>1, <1>2, <1>3, TypeCorrect, PTL DEF Spec
-----------------------------------------------------------------------------
(***************************************************************************)
(* Documents are stored whole.  As long as no two handlers were between    *)
(* the delete and the upsert of a document at once, the one that is there  *)
(* finds the document empty, whatever other handlers, removals, restarts   *)
(* and dropped collections come between.                                   *)
(***************************************************************************)
\* How a handler's step changes the stored points.
PointsEffect(t) ==
    /\ \/ points' = points /\ pc'[t] # "upsert"
       \/ points' = Cleared(Doc(t))
       \/ pc[t] = "upsert" /\ pc'[t] # "upsert" /\ points' = Written(Event(t))
    /\ overlapped \subseteq overlapped'
    /\ pc'[t] = "upsert" =>
          points' = Cleared(Doc(t)) /\ (Replacing(t) # {} => Doc(t) \in overlapped')

LEMMA PointsSteps ==
    ASSUME TypeOK, NEW t \in Tasks, Work(t)
    PROVE  PointsEffect(t)
<1> USE DEF TypeOK, PointsEffect, qdrant, Goto, Retry, Reject, MarkCompleted, QdrantFails
<1>1. CASE Prepare(t)
  BY <1>1 DEF Prepare
<1>2. CASE FindCollection(t)
  BY <1>2 DEF FindCollection
<1>3. CASE CreateCollection(t)
  BY <1>3 DEF CreateCollection
<1>4. CASE EnsurePayloadIndexes(t)
  BY <1>4 DEF EnsurePayloadIndexes
<1>5. CASE DeletePoints(t)
  BY <1>5 DEF DeletePoints
<1>6. CASE UpsertPoints(t)
  BY <1>6 DEF UpsertPoints
<1>7. CASE RemoveDocument(t)
  BY <1>7 DEF RemoveDocument
<1>8. QED BY <1>1, <1>2, <1>3, <1>4, <1>5, <1>6, <1>7 DEF Work

Whole(d) == points[d] = Empty \/ \E e \in Events : DocOf[e] = d /\ points[d] = FullText(e)

WholeInv ==
    \A d \in Docs \ overlapped :
        /\ Whole(d)
        /\ \A t \in Tasks : pc[t] = "upsert" /\ Doc(t) = d => points[d] = Empty
        /\ \A t, u \in Tasks : pc[t] = "upsert" /\ pc[u] = "upsert" /\ Doc(t) = d /\ Doc(u) = d
                               => t = u

\* A step that starts no replacement and leaves the points alone, or empties them all.
LEMMA WholeKept ==
    ASSUME WholeInv, overlapped' = overlapped,
           \/ points' = points
           \/ \A d \in Docs : points'[d] = Empty,
           \A t \in Tasks : pc'[t] = "upsert" => pc[t] = "upsert" /\ Doc(t)' = Doc(t)
    PROVE  WholeInv'
<1> SUFFICES ASSUME NEW d \in Docs, d \notin overlapped
             PROVE  /\ Whole(d)'
                    /\ \A t \in Tasks : pc'[t] = "upsert" /\ Doc(t)' = d => points'[d] = Empty
                    /\ \A t, u \in Tasks : pc'[t] = "upsert" /\ pc'[u] = "upsert"
                                           /\ Doc(t)' = d /\ Doc(u)' = d => t = u
  BY DEF WholeInv, Empty
<1>1. /\ Whole(d)
      /\ \A t \in Tasks : pc[t] = "upsert" /\ Doc(t) = d => points[d] = Empty
      /\ \A t, u \in Tasks : pc[t] = "upsert" /\ pc[u] = "upsert" /\ Doc(t) = d /\ Doc(u) = d
                             => t = u
  BY DEF WholeInv
<1>2. points'[d] = points[d] \/ points'[d] = Empty
  OBVIOUS
<1>3. Whole(d)'
  BY <1>1, <1>2 DEF Whole, FullText, Empty
<1>4. QED BY <1>1, <1>2, <1>3

LEMMA WholeStep ==
    ASSUME TypeOK, WholeInv, NEW t \in Tasks, Work(t)
    PROVE  WholeInv'
<1>1. PointsEffect(t) /\ WorkEffect(t)
  BY PointsSteps, WorkSteps
<1>2. Event(t) \in Events /\ Doc(t) \in Docs /\ Doc(t) = DocOf[Event(t)]
  BY <1>1, BusyTask DEF WorkEffect, Doc
<1>3. \A u \in Tasks : Doc(u)' = Doc(u) /\ (u # t => pc'[u] = pc[u])
  BY <1>1 DEF WorkEffect, Doc, Event
<1>4. SUFFICES ASSUME NEW d \in Docs, d \notin overlapped'
               PROVE  /\ Whole(d)'
                      /\ \A u \in Tasks : pc'[u] = "upsert" /\ Doc(u) = d => points'[d] = Empty
                      /\ \A u, v \in Tasks : pc'[u] = "upsert" /\ pc'[v] = "upsert"
                                             /\ Doc(u) = d /\ Doc(v) = d => u = v
  BY <1>3 DEF WholeInv
<1>5. d \notin overlapped
  BY <1>1, <1>4 DEF PointsEffect
<1>6. /\ Whole(d)
      /\ \A u \in Tasks : pc[u] = "upsert" /\ Doc(u) = d => points[d] = Empty
      /\ \A u, v \in Tasks : pc[u] = "upsert" /\ pc[v] = "upsert" /\ Doc(u) = d /\ Doc(v) = d
                             => u = v
  BY <1>5 DEF WholeInv
<1>7. \A u, v \in Tasks : pc'[u] = "upsert" /\ pc'[v] = "upsert" /\ Doc(u) = d /\ Doc(v) = d
                          => u = v
  <2>1. \A u \in Tasks : pc'[t] = "upsert" /\ Doc(t) = d /\ u # t /\ Doc(u) = d
                         => pc[u] # "upsert"
    BY <1>1, <1>4 DEF PointsEffect, Replacing
  <2>2. QED BY <1>3, <1>6, <2>1
<1>8. CASE Doc(t) # d
  <2>1. points'[d] = points[d]
    BY <1>1, <1>2, <1>8 DEF PointsEffect, Cleared, Written, TypeOK
  <2>2. QED BY <1>3, <1>6, <1>7, <1>8, <2>1 DEF Whole, FullText, Empty
<1>9. CASE Doc(t) = d /\ points' = points /\ pc'[t] # "upsert"
  BY <1>3, <1>6, <1>7, <1>9 DEF Whole, FullText, Empty
<1>10. CASE Doc(t) = d /\ points' = Cleared(Doc(t))
  <2>1. points'[d] = Empty
    BY <1>2, <1>10 DEF Cleared, TypeOK
  <2>2. QED BY <1>7, <2>1 DEF Whole, Empty
<1>11. CASE Doc(t) = d /\ pc[t] = "upsert" /\ pc'[t] # "upsert" /\ points' = Written(Event(t))
  <2>1. points[d] = Empty
    BY <1>6, <1>11
  <2>2. points'[d] = [i \in Positions |-> IF i \in Chunks(Event(t)) THEN Event(t) ELSE Empty[i]]
    BY <1>2, <1>11, <2>1 DEF Written, TypeOK
  <2>3. points'[d] = FullText(Event(t))
    BY <2>2 DEF FullText, Empty
  <2>4. \A u \in Tasks : ~ (pc'[u] = "upsert" /\ Doc(u) = d)
    BY <1>3, <1>6, <1>11
  <2>5. QED BY <1>2, <1>7, <1>11, <2>3, <2>4 DEF Whole, FullText, Empty
<1>12. QED BY <1>1, <1>8, <1>9, <1>10, <1>11 DEF PointsEffect

\* A document holds nothing or one text in full, unless two handlers replaced it at once.
THEOREM DocumentsStayWhole == Spec => []NoLeftovers
<1>1. Init => WholeInv
  BY DEF Init, WholeInv, Whole
<1>2. TypeOK /\ WholeInv /\ [Next]_vars => WholeInv'
  <2> SUFFICES ASSUME TypeOK, WholeInv, [Next]_vars PROVE WholeInv'
    OBVIOUS
  <2> USE DEF broker, handler, tracker, qdrant
  <2>1. ASSUME NEW m \in Messages, Enqueue(m) PROVE WholeInv'
    BY <2>1, WholeKept DEF Enqueue, Doc, Event
  <2>2. ASSUME NEW m \in Messages, NEW t \in Tasks, Deliver(m, t) PROVE WholeInv'
    <3>1. /\ points' = points /\ overlapped' = overlapped /\ pc'[t] # "upsert"
          /\ \A u \in Tasks : u # t => pc'[u] = pc[u] /\ job'[u] = job[u]
      BY <2>2 DEF Deliver, FirstStep, TypeOK
    <3>2. QED BY <3>1, WholeKept DEF Doc, Event
  <2>3. ASSUME NEW t \in Tasks, Work(t) PROVE WholeInv'
    BY <2>3, WholeStep
  <2>4. ASSUME NEW t \in Tasks, Ack(t) \/ Requeue(t) \/ DeadLetter(t) PROVE WholeInv'
    <3>1. /\ points' = points /\ overlapped' = overlapped /\ pc'[t] # "upsert"
          /\ \A u \in Tasks : u # t => pc'[u] = pc[u] /\ job'[u] = job[u]
      BY <2>4 DEF Ack, Requeue, DeadLetter, Settle, Finish, TypeOK
    <3>2. QED BY <3>1, WholeKept DEF Doc, Event
  <2>5. ASSUME ChannelLoss PROVE WholeInv'
    BY <2>5, WholeKept DEF ChannelLoss, Doc, Event
  <2>6. ASSUME Restart PROVE WholeInv'
    BY <2>6, WholeKept DEF Restart
  <2>7. ASSUME DropCollection PROVE WholeInv'
    BY <2>7, WholeKept DEF DropCollection, Doc, Event
  <2>8. ASSUME UNCHANGED vars PROVE WholeInv'
    BY <2>8, WholeKept DEF vars, Doc, Event
  <2>9. QED
    BY <2>1, <2>2, <2>3, <2>4, <2>5, <2>6, <2>7, <2>8 DEF Next, Handle, Work
<1>3. WholeInv => NoLeftovers
  BY DEF WholeInv, Whole, NoLeftovers
<1>4. QED BY <1>1, <1>2, <1>3, TypeCorrect, PTL DEF Spec
-----------------------------------------------------------------------------
(***************************************************************************)
(* The store holds what the last acknowledged request asked for, for every *)
(* document whose requests did not cross.  RequestInv says what the        *)
(* requests and tasks are, AloneInv that one task at most works on such a  *)
(* document and its message is not settled by another, CurrentInv that     *)
(* nothing older is pending once the newest request has been taken up, and *)
(* that what it asked for is there once it took effect.                    *)
(***************************************************************************)
WorkPlaces == IndexSteps \cup {"remove"}

RequestInv ==
    /\ \A d \in Docs : newest[d] # Nothing =>
          newest[d] \in WellFormed /\ DocOf[EventOf[newest[d]]] = d
    /\ \A t \in Tasks : pc[t] \notin {"idle", "deadletter"} => job[t] \in WellFormed
    /\ \A t \in Tasks : pc[t] = "ack" => Event(t) \in completed
    /\ \A e \in completed : \E m \in WellFormed : EventOf[m] = e /\ loc[m] # "absent"
    /\ \A t \in Tasks : /\ pc[t] \in IndexSteps => Kind[Event(t)] = "index"
                        /\ pc[t] = "remove" => Kind[Event(t)] = "remove"

AloneInv ==
    \A t \in Tasks : pc[t] \in WorkPlaces /\ Doc(t) \notin crossed =>
        /\ \A u \in Tasks : pc[u] \in WorkPlaces /\ Doc(u) = Doc(t) => u = t
        /\ \A u \in Tasks : live[u] /\ job[u] = job[t] => u = t
        /\ Pending(job[t])
        /\ Event(t) \notin completed
        /\ pc[t] = "upsert" => points[Doc(t)] = Empty

\* The event has been applied since the last restart, or is being applied.
Started(e) == e \in completed \/ \E t \in Tasks : pc[t] \in WorkPlaces /\ Event(t) = e

\* The message is settled for good, or a handler has it.
Taken(m) == loc[m] = "acked" \/ \E t \in Tasks : job[t] = m

AsAsked(d) == \/ points[d] = Content(EventOf[newest[d]])
              \/ faults["drop"] > 0 /\ points[d] = Empty

Current(d) ==
    LET e == EventOf[newest[d]] IN
    /\ Started(e) => \A n \in About(d) : Pending(n) => EventOf[n] = e
    /\ Taken(newest[d]) => \A n \in About(d) : Pending(n) => n = newest[d]
    /\ e \in completed \/ loc[newest[d]] = "acked" => AsAsked(d)

CurrentInv == \A d \in Docs \ crossed : newest[d] # Nothing => Current(d)

\* Where a step of the work leads, and what it leaves when it is done.
WorkOutcome(t) ==
    /\ pc[t] \in WorkPlaces /\ pc'[t] # "remove"
    /\ pc'[t] \in IndexSteps => pc[t] \in IndexSteps
    /\ UNCHANGED <<newest, crossed, faults>>
    /\ pc'[t] # "ack" => completed' = completed
    /\ pc'[t] = "ack" =>
          /\ completed' = completed \cup {Event(t)}
          /\ \/ pc[t] = "upsert" /\ points' = Written(Event(t))
             \/ pc[t] = "remove" /\ points' = Cleared(Doc(t))

LEMMA WorkOutcomes ==
    ASSUME TypeOK, NEW t \in Tasks, Work(t)
    PROVE  WorkOutcome(t)
<1> USE DEF TypeOK, WorkOutcome, WorkPlaces, IndexSteps, broker, tracker, Goto, Retry, Reject,
            MarkCompleted, QdrantFails
<1>1. CASE Prepare(t)
  BY <1>1 DEF Prepare
<1>2. CASE FindCollection(t)
  BY <1>2 DEF FindCollection
<1>3. CASE CreateCollection(t)
  BY <1>3 DEF CreateCollection
<1>4. CASE EnsurePayloadIndexes(t)
  BY <1>4 DEF EnsurePayloadIndexes
<1>5. CASE DeletePoints(t)
  BY <1>5 DEF DeletePoints
<1>6. CASE UpsertPoints(t)
  BY <1>6 DEF UpsertPoints
<1>7. CASE RemoveDocument(t)
  BY <1>7 DEF RemoveDocument
<1>8. QED BY <1>1, <1>2, <1>3, <1>4, <1>5, <1>6, <1>7 DEF Work

\* What the steps that settle leave alone.
LEMMA SettleLeaves ==
    ASSUME NEW t \in Tasks, Ack(t) \/ Requeue(t) \/ DeadLetter(t)
    PROVE  UNCHANGED <<newest, crossed, faults>>
BY DEF Ack, Requeue, DeadLetter, Settle

\* Where a delivered message starts.
LEMMA FirstSteps ==
    ASSUME NEW m \in Messages
    PROVE  /\ m \in Malformed => FirstStep(m) = "deadletter"
           /\ FirstStep(m) = "ack" => EventOf[m] \in completed
           /\ FirstStep(m) \in WorkPlaces => EventOf[m] \notin completed /\ m \in WellFormed
           /\ FirstStep(m) \in IndexSteps => Kind[EventOf[m]] = "index"
           /\ FirstStep(m) = "remove" => Kind[EventOf[m]] = "remove"
           /\ FirstStep(m) # "upsert"
BY DEF FirstStep, WorkPlaces, IndexSteps, WellFormed

LEMMA RequestStep ==
    ASSUME TypeOK, SubmittedInv, RequestInv, [Next]_vars
    PROVE  RequestInv'
<1> USE DEF TypeOK, RequestInv, broker, handler, tracker, qdrant
<1>1. ASSUME NEW m \in Messages, Enqueue(m) PROVE RequestInv'
  <2>1. /\ loc' = [loc EXCEPT ![m] = "queued"] /\ UNCHANGED <<pc, job, completed>>
        /\ \/ newest' = newest
           \/ m \in WellFormed /\ newest' = [newest EXCEPT ![DocOf[EventOf[m]]] = m]
    BY <1>1 DEF Enqueue, WellFormed
  <2>2. \A d \in Docs : newest'[d] # Nothing =>
            newest'[d] \in WellFormed /\ DocOf[EventOf[newest'[d]]] = d
    BY <2>1
  <2>3. \A n \in WellFormed : loc[n] # "absent" => loc'[n] # "absent"
    BY <2>1 DEF WellFormed
  <2>4. \A t \in Tasks : Event(t)' = Event(t)
    BY <2>1 DEF Event
  <2>5. \A e \in completed' : \E n \in WellFormed : EventOf[n] = e /\ loc'[n] # "absent"
    BY <2>1, <2>3
  <2>6. \A t \in Tasks : /\ pc'[t] \in IndexSteps => Kind[Event(t)'] = "index"
                         /\ pc'[t] = "remove" => Kind[Event(t)'] = "remove"
                         /\ pc'[t] = "ack" => Event(t)' \in completed'
                         /\ pc'[t] \notin {"idle", "deadletter"} => job'[t] \in WellFormed
    BY <2>1, <2>4
  <2> HIDE DEF TypeOK
  <2>7. QED BY <2>2, <2>5, <2>6
<1>2. ASSUME NEW m \in Messages, NEW t \in Tasks, Deliver(m, t) PROVE RequestInv'
  <2>1. /\ loc' = [loc EXCEPT ![m] = "unacked"]
        /\ pc' = [pc EXCEPT ![t] = FirstStep(m)] /\ job' = [job EXCEPT ![t] = m]
        /\ UNCHANGED <<newest, completed>>
    BY <1>2 DEF Deliver
  <2>2. /\ \A u \in Tasks : u # t => pc'[u] = pc[u] /\ job'[u] = job[u] /\ Event(u)' = Event(u)
        /\ pc'[t] = FirstStep(m) /\ job'[t] = m /\ Event(t)' = EventOf[m]
    BY <2>1 DEF Event
  <2>3. \A n \in WellFormed : loc[n] # "absent" => loc'[n] # "absent"
    BY <2>1 DEF WellFormed
  <2>4. m \in Malformed \/ m \in WellFormed
    BY DEF WellFormed
  <2>5. \A e \in completed : \E n \in WellFormed : EventOf[n] = e /\ loc'[n] # "absent"
    BY <2>3
  <2>6. \A u \in Tasks : pc'[u] \notin {"idle", "deadletter"} => job'[u] \in WellFormed
    BY <2>2, <2>4, FirstSteps
  <2>7. \A u \in Tasks : pc'[u] = "ack" => Event(u)' \in completed
    BY <2>2, FirstSteps
  <2>8. \A u \in Tasks : /\ pc'[u] \in IndexSteps => Kind[Event(u)'] = "index"
                         /\ pc'[u] = "remove" => Kind[Event(u)'] = "remove"
    BY <2>2, FirstSteps
  <2>9. QED BY <2>1, <2>5, <2>6, <2>7, <2>8
<1>3. ASSUME NEW t \in Tasks, Work(t) PROVE RequestInv'
  <2>1. WorkOutcome(t) /\ WorkEffect(t)
    BY <1>3, WorkOutcomes, WorkSteps
  <2>2. job[t] \in WellFormed /\ pc[t] # "idle" /\ loc[job[t]] # "absent"
    BY <2>1 DEF WorkOutcome, WorkPlaces, IndexSteps, SubmittedInv
  <2>3. /\ \A u \in Tasks : Event(u)' = Event(u)
        /\ UNCHANGED <<loc, job, newest>>
        /\ \A u \in Tasks : u # t => pc'[u] = pc[u]
    BY <2>1 DEF WorkEffect, WorkOutcome, Event
  <2>4. \A e \in completed' : \E m \in WellFormed : EventOf[m] = e /\ loc'[m] # "absent"
    <3>1. completed' \subseteq completed \cup {Event(t)}
      BY <2>1 DEF WorkOutcome
    <3>2. QED BY <2>2, <2>3, <3>1 DEF Event
  <2>5. \A u \in Tasks : pc'[u] = "ack" => Event(u) \in completed'
    BY <2>1, <2>3 DEF WorkOutcome
  <2>6. \A u \in Tasks : /\ pc'[u] \in IndexSteps => Kind[Event(u)] = "index"
                         /\ pc'[u] = "remove" => Kind[Event(u)] = "remove"
    BY <2>1, <2>3 DEF WorkOutcome
  <2>7. QED BY <2>2, <2>3, <2>4, <2>5, <2>6
<1>4. ASSUME NEW t \in Tasks, Ack(t) \/ Requeue(t) \/ DeadLetter(t) PROVE RequestInv'
  <2>1. SettleEffect(t) /\ newest' = newest
    BY <1>4, SettleSteps, SettleLeaves
  <2>2. job[t] \in Messages
    BY <2>1, BusyTask DEF SettleEffect
  <2>3. \A n \in Messages : loc[n] # "absent" => loc'[n] # "absent"
    BY <2>1, <2>2 DEF SettleEffect
  <2>4. /\ pc'[t] = "idle" /\ completed' = completed
        /\ \A u \in Tasks : u # t => pc'[u] = pc[u] /\ job'[u] = job[u] /\ Event(u)' = Event(u)
    BY <2>1 DEF SettleEffect, Event
  <2>5. "idle" \notin IndexSteps
    BY DEF IndexSteps
  <2>6. \A e \in completed : \E n \in WellFormed : EventOf[n] = e /\ loc'[n] # "absent"
    BY <2>3 DEF WellFormed
  <2>7. \A u \in Tasks : pc'[u] = "ack" => Event(u)' \in completed
    BY <2>4
  <2>8. ASSUME NEW u \in Tasks
        PROVE  /\ pc'[u] \in IndexSteps => Kind[Event(u)'] = "index"
               /\ pc'[u] = "remove" => Kind[Event(u)'] = "remove"
    <3>1. CASE u = t
      BY <2>4, <2>5, <3>1
    <3>2. CASE u # t
      <4>1. pc'[u] = pc[u] /\ Event(u)' = Event(u)
        BY <2>4, <3>2
      <4>2. QED BY <4>1
    <3>3. QED BY <3>1, <3>2
  <2>9. \A u \in Tasks : pc'[u] \notin {"idle", "deadletter"} => job'[u] \in WellFormed
    BY <2>4
  <2>10. \A d \in Docs : newest'[d] # Nothing =>
             newest'[d] \in WellFormed /\ DocOf[EventOf[newest'[d]]] = d
    BY <2>1
  <2>11. \A e \in completed' : \E n \in WellFormed : EventOf[n] = e /\ loc'[n] # "absent"
    BY <2>4, <2>6
  <2> HIDE DEF TypeOK
  <2>12. QED BY <2>4, <2>7, <2>8, <2>9, <2>10, <2>11
<1>5. CASE ChannelLoss
  <2>1. UNCHANGED <<pc, job, newest, completed>> /\ \A u \in Tasks : Event(u)' = Event(u)
    BY <1>5 DEF ChannelLoss, Event
  <2>2. \A n \in Messages : loc[n] # "absent" => loc'[n] # "absent"
    BY <1>5 DEF ChannelLoss, TakenBack
  <2>3. QED BY <2>1, <2>2 DEF WellFormed
<1>6. CASE Restart
  <2>1. newest' = newest /\ completed' = {} /\ \A u \in Tasks : pc'[u] = "idle"
    BY <1>6 DEF Restart
  <2>2. "idle" \notin IndexSteps
    BY DEF IndexSteps
  <2>3. QED BY <2>1, <2>2
<1>7. CASE DropCollection \/ UNCHANGED vars
  <2>1. UNCHANGED <<pc, job, loc, newest, completed>>
    BY <1>7 DEF DropCollection, vars
  <2>2. \A u \in Tasks : Event(u)' = Event(u)
    BY <2>1 DEF Event
  <2>3. QED BY <2>1, <2>2
<1>8. QED BY <1>1, <1>2, <1>3, <1>4, <1>5, <1>6, <1>7 DEF Next, Handle, Work

LEMMA BusyWorker ==
    ASSUME TypeOK, RequestInv, NEW t \in Tasks, pc[t] \in WorkPlaces
    PROVE  /\ job[t] \in WellFormed /\ job[t] \in Messages /\ pc[t] # "idle"
           /\ Event(t) \in Events /\ Doc(t) \in Docs /\ job[t] \in About(Doc(t))
<1>1. pc[t] \notin {"idle", "deadletter"}
  BY DEF WorkPlaces, IndexSteps
<1>2. QED BY <1>1, BusyTask DEF RequestInv, About, Doc, Event

\* A step that starts no work and settles no message that is being worked on.
LEMMA AloneKept ==
    ASSUME TypeOK, RequestInv, AloneInv, crossed \subseteq crossed',
           \A t \in Tasks : pc'[t] \in WorkPlaces => pc'[t] = pc[t] /\ job'[t] = job[t],
           \A t \in Tasks : live'[t] => live[t] /\ (job'[t] # Nothing => job'[t] = job[t]),
           \A t \in Tasks : pc'[t] \in WorkPlaces /\ Doc(t) \notin crossed
                            => loc'[job[t]] \in {"queued", "unacked"},
           completed' \subseteq completed,
           \A d \in Docs : points'[d] = points[d] \/ points'[d] = Empty
    PROVE  AloneInv'
<1> SUFFICES ASSUME NEW t \in Tasks, pc'[t] \in WorkPlaces, Doc(t)' \notin crossed'
             PROVE  /\ \A u \in Tasks : pc'[u] \in WorkPlaces /\ Doc(u)' = Doc(t)' => u = t
                    /\ \A u \in Tasks : live'[u] /\ job'[u] = job'[t] => u = t
                    /\ Pending(job[t])'
                    /\ Event(t)' \notin completed'
                    /\ pc'[t] = "upsert" => points'[Doc(t)'] = Empty
  BY DEF AloneInv, Empty
<1>1. /\ pc[t] \in WorkPlaces /\ pc'[t] = pc[t] /\ job'[t] = job[t]
      /\ Doc(t)' = Doc(t) /\ Event(t)' = Event(t) /\ Doc(t) \notin crossed
  BY DEF Doc, Event
<1>2. job[t] \in Messages /\ Doc(t) \in Docs /\ job[t] # Nothing
  BY <1>1, BusyWorker, ConstantsAssumption
<1>3. /\ \A u \in Tasks : pc[u] \in WorkPlaces /\ Doc(u) = Doc(t) => u = t
      /\ \A u \in Tasks : live[u] /\ job[u] = job[t] => u = t
      /\ Event(t) \notin completed
      /\ pc[t] = "upsert" => points[Doc(t)] = Empty
  BY <1>1 DEF AloneInv
<1>4. \A u \in Tasks : pc'[u] \in WorkPlaces /\ Doc(u)' = Doc(t)' => u = t
  BY <1>1, <1>3 DEF Doc, Event
<1>5. \A u \in Tasks : live'[u] /\ job'[u] = job'[t] => u = t
  BY <1>1, <1>2, <1>3
<1>6. Pending(job[t])'
  BY <1>1 DEF Pending
<1>7. QED BY <1>1, <1>2, <1>3, <1>4, <1>5, <1>6

LEMMA AloneStep ==
    ASSUME TypeOK, OneHandler, RequestInv, AloneInv, [Next]_vars
    PROVE  AloneInv'
<1> USE DEF broker, handler, tracker, qdrant
<1>0. ASSUME NEW t \in Tasks, pc[t] \in WorkPlaces, Doc(t) \notin crossed
      PROVE  /\ job[t] \in Messages /\ loc[job[t]] \in {"queued", "unacked"}
             /\ \A u \in Tasks : live[u] /\ job[u] = job[t] => u = t
  BY <1>0, BusyWorker DEF AloneInv, Pending
<1>1. ASSUME NEW m \in Messages, Enqueue(m) PROVE AloneInv'
  <2>1. \A n \in Messages : loc[n] \in {"queued", "unacked"} => loc'[n] = loc[n]
    BY <1>1 DEF Enqueue, TypeOK
  <2>2. crossed \subseteq crossed' /\ UNCHANGED <<pc, job, live, completed, points>>
    BY <1>1 DEF Enqueue
  <2>3. QED BY <1>0, <2>1, <2>2, AloneKept
<1>2. ASSUME NEW m \in Messages, NEW s \in Tasks, Deliver(m, s) PROVE AloneInv'
  <2>1. /\ loc[m] = "queued" /\ pc[s] = "idle"
        /\ loc' = [loc EXCEPT ![m] = "unacked"] /\ UNCHANGED <<completed, points>>
        /\ pc'[s] = FirstStep(m) /\ job'[s] = m /\ crossed \subseteq crossed'
        /\ \A u \in Tasks : u # s => pc'[u] = pc[u] /\ job'[u] = job[u] /\ live'[u] = live[u]
    BY <1>2 DEF Deliver, TypeOK
  <2>2. m \in WellFormed /\ AtWork(DocOf[EventOf[m]]) => DocOf[EventOf[m]] \in crossed'
    BY <1>2 DEF Deliver, WellFormed
  <2>3. \A u \in Tasks : u # s /\ pc[u] \in WorkPlaces => AtWork(Doc(u))
    BY DEF AtWork, WorkPlaces
  <2>4. /\ Event(s)' = EventOf[m] /\ Doc(s)' = DocOf[EventOf[m]]
        /\ \A u \in Tasks : u # s => Event(u)' = Event(u) /\ Doc(u)' = Doc(u)
    BY <2>1 DEF Event, Doc
  <2>5. SUFFICES ASSUME NEW t \in Tasks, pc'[t] \in WorkPlaces, Doc(t)' \notin crossed'
                 PROVE  /\ \A u \in Tasks : pc'[u] \in WorkPlaces /\ Doc(u)' = Doc(t)' => u = t
                        /\ \A u \in Tasks : live'[u] /\ job'[u] = job'[t] => u = t
                        /\ loc'[job'[t]] \in {"queued", "unacked"}
                        /\ Event(t)' \notin completed
                        /\ pc'[t] = "upsert" => points[Doc(t)'] = Empty
    BY <2>1 DEF AloneInv, Pending, Empty
  <2>6. CASE t = s
    <3>1. m \in WellFormed /\ EventOf[m] \notin completed /\ pc'[t] # "upsert"
      BY <2>1, <2>5, <2>6, FirstSteps
    <3>2. ~ AtWork(DocOf[EventOf[m]])
      BY <2>2, <2>4, <2>5, <2>6, <3>1
    <3>3. \A u \in Tasks : u # s => ~ (live[u] /\ job[u] = m)
      BY <2>1 DEF OneHandler
    <3>4. QED BY <2>1, <2>3, <2>4, <2>6, <3>1, <3>2, <3>3 DEF TypeOK
  <2>7. CASE t # s
    <3>1. pc[t] \in WorkPlaces /\ Doc(t) \notin crossed /\ pc'[t] = pc[t]
      BY <2>1, <2>4, <2>5, <2>7
    <3>2. job[t] \in WellFormed /\ job[t] \in Messages /\ Doc(t) = DocOf[EventOf[job[t]]]
      BY <3>1, BusyWorker DEF Doc, Event
    <3>3. m \in WellFormed => DocOf[EventOf[m]] # Doc(t)
      BY <2>2, <2>3, <2>4, <2>5, <2>7, <3>1
    <3>4. pc'[s] \in WorkPlaces => m \in WellFormed
      BY <2>1, FirstSteps
    <3>5. m # job[t]
      BY <3>2, <3>3
    <3>6. /\ \A u \in Tasks : pc[u] \in WorkPlaces /\ Doc(u) = Doc(t) => u = t
          /\ \A u \in Tasks : live[u] /\ job[u] = job[t] => u = t
          /\ Pending(job[t])
          /\ Event(t) \notin completed
          /\ pc[t] = "upsert" => points[Doc(t)] = Empty
      BY <3>1 DEF AloneInv
    <3>7. \A u \in Tasks : pc'[u] \in WorkPlaces /\ Doc(u)' = Doc(t) => u = t
      BY <2>1, <2>4, <3>3, <3>4, <3>6
    <3>8. \A u \in Tasks : live'[u] /\ job'[u] = job[t] => u = t
      BY <2>1, <3>5, <3>6
    <3>9. loc'[job[t]] \in {"queued", "unacked"}
      BY <2>1, <3>2, <3>5, <3>6 DEF Pending
    <3>10. QED BY <2>1, <2>4, <2>7, <3>1, <3>6, <3>7, <3>8, <3>9
  <2>8. QED BY <2>6, <2>7
<1>3. ASSUME NEW s \in Tasks, Work(s) PROVE AloneInv'
  <2>1. WorkOutcome(s) /\ WorkEffect(s) /\ PointsEffect(s)
    BY <1>3, WorkOutcomes, WorkSteps, PointsSteps
  <2>2. /\ \A u \in Tasks : Event(u)' = Event(u) /\ Doc(u)' = Doc(u)
        /\ UNCHANGED <<loc, job, live, crossed>>
        /\ \A u \in Tasks : u # s => pc'[u] = pc[u]
    BY <2>1 DEF WorkEffect, WorkOutcome, Event, Doc
  <2>3. pc[s] \in WorkPlaces /\ Doc(s) \in Docs /\ Doc(s) = DocOf[Event(s)]
    BY <2>1, BusyWorker DEF WorkOutcome, Doc
  <2>4. completed' \subseteq completed \cup {Event(s)}
    BY <2>1 DEF WorkOutcome
  <2>5. SUFFICES ASSUME NEW t \in Tasks, pc'[t] \in WorkPlaces, Doc(t) \notin crossed
                 PROVE  /\ \A u \in Tasks : pc'[u] \in WorkPlaces /\ Doc(u) = Doc(t) => u = t
                        /\ \A u \in Tasks : live[u] /\ job[u] = job[t] => u = t
                        /\ Pending(job[t])
                        /\ Event(t) \notin completed'
                        /\ pc'[t] = "upsert" => points'[Doc(t)] = Empty
    BY <2>2 DEF AloneInv, Pending, Empty
  <2>6. pc[t] \in WorkPlaces /\ \A u \in Tasks : pc'[u] \in WorkPlaces => pc[u] \in WorkPlaces
    BY <2>2, <2>3, <2>5
  <2>7. /\ \A u \in Tasks : pc[u] \in WorkPlaces /\ Doc(u) = Doc(t) => u = t
        /\ \A u \in Tasks : live[u] /\ job[u] = job[t] => u = t
        /\ Pending(job[t])
        /\ Event(t) \notin completed
        /\ pc[t] = "upsert" => points[Doc(t)] = Empty
    BY <2>5, <2>6 DEF AloneInv
  <2>8. Doc(t) \in Docs
    BY <2>6, BusyWorker
  <2>9. CASE t = s
    <3>1. pc'[s] # "ack"
      BY <2>5, <2>9 DEF WorkPlaces, IndexSteps
    <3>2. completed' = completed
      BY <2>1, <3>1 DEF WorkOutcome
    <3>3. pc'[s] = "upsert" => points'[Doc(s)] = Empty
      BY <2>1, <2>3 DEF PointsEffect, Cleared, TypeOK
    <3>4. QED BY <2>6, <2>7, <2>9, <3>2, <3>3
  <2>10. CASE t # s
    <3>1. Doc(t) # Doc(s) /\ Event(t) # Event(s)
      BY <2>3, <2>7, <2>10 DEF Doc
    <3>2. points'[Doc(t)] = points[Doc(t)]
      BY <2>1, <2>3, <2>8, <3>1 DEF PointsEffect, Cleared, Written, TypeOK
    <3>3. QED BY <2>2, <2>4, <2>6, <2>7, <2>10, <3>1, <3>2
  <2>11. QED BY <2>9, <2>10
<1>4. ASSUME NEW s \in Tasks, Ack(s) \/ Requeue(s) \/ DeadLetter(s) PROVE AloneInv'
  <2>1. SettleEffect(s) /\ crossed' = crossed
    BY <1>4, SettleSteps, SettleLeaves
  <2>2. /\ UNCHANGED <<completed, points>> /\ ~ live'[s] /\ pc'[s] \notin WorkPlaces
        /\ \A u \in Tasks : u # s => pc'[u] = pc[u] /\ job'[u] = job[u] /\ live'[u] = live[u]
        /\ \A n \in Messages : loc'[n] # loc[n] => live[s] /\ n = job[s]
    BY <2>1 DEF SettleEffect, TypeOK, WorkPlaces, IndexSteps
  <2>3. ASSUME NEW t \in Tasks, pc'[t] \in WorkPlaces, Doc(t) \notin crossed
        PROVE  loc'[job[t]] \in {"queued", "unacked"}
    <3>1. t # s /\ pc[t] \in WorkPlaces
      BY <2>2, <2>3
    <3>2. QED BY <1>0, <2>2, <2>3, <3>1
  <2>4. QED BY <2>1, <2>2, <2>3, AloneKept
<1>5. CASE ChannelLoss
  <2>1. \A n \in Messages : loc[n] \in {"queued", "unacked"} => loc'[n] \in {"queued", "unacked"}
    BY <1>5 DEF ChannelLoss, TakenBack
  <2>2. /\ UNCHANGED <<pc, job, completed, points, crossed>>
        /\ \A u \in Tasks : ~ live'[u]
    BY <1>5 DEF ChannelLoss
  <2>3. QED BY <1>0, <2>1, <2>2, AloneKept
<1>6. CASE Restart
  <2>1. \A u \in Tasks : pc'[u] = "idle"
    BY <1>6 DEF Restart
  <2>2. QED BY <2>1 DEF AloneInv, WorkPlaces, IndexSteps
<1>7. CASE DropCollection \/ UNCHANGED vars
  <2>1. /\ UNCHANGED <<pc, job, live, loc, completed, crossed>>
        /\ \A d \in Docs : points'[d] = points[d] \/ points'[d] = Empty
    BY <1>7 DEF DropCollection, vars
  <2>2. QED BY <1>0, <2>1, AloneKept
<1>8. QED BY <1>1, <1>2, <1>3, <1>4, <1>5, <1>6, <1>7 DEF Next, Handle, Work

\* A step that publishes nothing, takes nothing up and changes no document but to empty all.
LEMMA CurrentKept ==
    ASSUME TypeOK, RequestInv, CurrentInv, UNCHANGED <<newest, crossed>>,
           \A m \in WellFormed : Pending(m)' => Pending(m),
           completed' \subseteq completed,
           \A t \in Tasks : pc'[t] \in WorkPlaces => pc[t] \in WorkPlaces /\ Event(t)' = Event(t),
           \A m \in WellFormed : Taken(m)' => Taken(m),
           \A m \in WellFormed : loc'[m] = "acked" => loc[m] = "acked" \/ EventOf[m] \in completed,
           \/ points' = points /\ (faults["drop"] > 0 => faults'["drop"] > 0)
           \/ faults'["drop"] > 0 /\ \A d \in Docs : points'[d] = Empty
    PROVE  CurrentInv'
<1> SUFFICES ASSUME NEW d \in Docs, d \notin crossed, newest[d] # Nothing
             PROVE  Current(d)'
  BY DEF CurrentInv
<1> DEFINE m == newest[d]
           e == EventOf[m]
<1>1. Current(d) /\ m \in WellFormed /\ m' = m
  BY DEF CurrentInv, RequestInv
<1>2. Started(e)' => Started(e)
  BY <1>1 DEF Started
<1>3. \A n \in About(d) : Pending(n)' => Pending(n)
  BY DEF About
<1>4. e \in completed' \/ loc'[m] = "acked" => AsAsked(d)
  BY <1>1 DEF Current
<1>5. AsAsked(d) => AsAsked(d)'
  BY DEF AsAsked, Content, FullText, Empty
<1>6. Started(e)' => \A n \in About(d) : Pending(n)' => EventOf[n] = e
  BY <1>1, <1>2, <1>3 DEF Current
<1>7. Taken(m)' => \A n \in About(d) : Pending(n)' => n = m
  BY <1>1, <1>3 DEF Current
<1>8. QED BY <1>1, <1>4, <1>5, <1>6, <1>7 DEF Current, About

LEMMA CurrentStep ==
    ASSUME TypeOK, OneHandler, SubmittedInv, RequestInv, AloneInv, CurrentInv, [Next]_vars
    PROVE  CurrentInv'
<1> USE DEF broker, handler, tracker, qdrant
<1>0. \A d \in Docs : newest[d] # Nothing =>
          newest[d] \in WellFormed /\ newest[d] \in Messages /\ DocOf[EventOf[newest[d]]] = d
  BY DEF RequestInv, WellFormed
<1>1. ASSUME NEW m \in Messages, Enqueue(m) PROVE CurrentInv'
  <2>1. /\ loc[m] = "absent" /\ loc' = [loc EXCEPT ![m] = "queued"] /\ crossed \subseteq crossed'
        /\ UNCHANGED <<pc, job, completed, points, faults>>
        /\ \A t \in Tasks : Event(t)' = Event(t)
    BY <1>1 DEF Enqueue, Event
  <2>2. \A n \in Messages : n # m => loc'[n] = loc[n]
    BY <2>1 DEF TypeOK
  <2>3. loc'[m] = "queued"
    BY <2>1 DEF TypeOK
  <2>4. CASE m \in Malformed
    <3>1. UNCHANGED <<newest, crossed>>
      BY <1>1, <2>4 DEF Enqueue
    <3>2. \A n \in WellFormed : loc'[n] = loc[n]
      BY <2>2, <2>4 DEF WellFormed
    <3>3. QED BY <2>1, <3>1, <3>2, CurrentKept DEF Pending, Taken
  <2>5. CASE m \notin Malformed
    <3> DEFINE e == EventOf[m]
               dm == DocOf[e]
               last == newest[dm]
    <3>1. m \in WellFormed /\ e \in Events /\ dm \in Docs /\ newest' = [newest EXCEPT ![dm] = m]
      BY <1>1, <2>5 DEF Enqueue, WellFormed
    <3>2. \A t \in Tasks : pc[t] \in WorkPlaces => job[t] \in WellFormed /\ loc[job[t]] # "absent"
      BY BusyWorker DEF SubmittedInv
    <3>3. SUFFICES ASSUME NEW d \in Docs, d \notin crossed', newest'[d] # Nothing
                   PROVE  Current(d)'
      BY DEF CurrentInv
    <3>4. CASE d # dm
      <4>1. newest'[d] = newest[d] /\ newest[d] # Nothing /\ d \notin crossed
        BY <2>1, <3>1, <3>3, <3>4 DEF TypeOK
      <4>2. Current(d) /\ newest[d] # m /\ newest[d] \in Messages
        BY <1>0, <3>4, <4>1 DEF CurrentInv
      <4>3. \A n \in About(d) : Pending(n)' <=> Pending(n)
        BY <2>2, <3>4 DEF About, Pending, WellFormed
      <4>4. Started(EventOf[newest[d]])' <=> Started(EventOf[newest[d]])
        BY <2>1, <4>1 DEF Started
      <4>5. loc'[newest[d]] = loc[newest[d]] /\ (Taken(newest[d])' <=> Taken(newest[d]))
        BY <2>1, <2>2, <4>1, <4>2 DEF Taken
      <4>6. AsAsked(d)' <=> AsAsked(d)
        BY <2>1, <4>1 DEF AsAsked, Content, FullText, Empty
      <4>7. QED BY <2>1, <4>1, <4>2, <4>3, <4>4, <4>5, <4>6 DEF Current, About
    <3>5. CASE d = dm
      <4>1. newest'[d] = m /\ d \notin crossed /\ ~ IsOutdated(m)
        BY <1>1, <2>1, <2>5, <3>1, <3>3, <3>5 DEF Enqueue, TypeOK
      <4>2. ~ Taken(m)'
        <5>1. \A t \in Tasks : job[t] # m
          BY <2>1, ConstantsAssumption DEF SubmittedInv, TypeOK
        <5>2. QED BY <2>1, <2>3, <5>1 DEF Taken
      <4>3. CASE last # Nothing /\ EventOf[last] = e
        <5>1. Current(d) /\ newest[d] = last
          BY <3>5, <4>1, <4>3 DEF CurrentInv
        <5>2. Started(e)' <=> Started(e)
          BY <2>1 DEF Started
        <5>3. \A n \in About(d) : Pending(n)' => n = m \/ Pending(n)
          BY <2>2 DEF About, Pending, WellFormed
        <5>4. AsAsked(d) => AsAsked(d)'
          BY <2>1, <4>1, <4>3, <5>1 DEF AsAsked, Content, FullText, Empty
        <5>5. Started(e)' => \A n \in About(d) : Pending(n)' => EventOf[n] = e
          BY <4>3, <5>1, <5>2, <5>3 DEF Current
        <5>6. e \in completed' => AsAsked(d)'
          BY <2>1, <4>3, <5>1, <5>4 DEF Current
        <5>7. QED BY <2>3, <4>1, <4>2, <5>5, <5>6 DEF Current, About
      <4>4. CASE ~ (last # Nothing /\ EventOf[last] = e)
        <5>1. \A n \in WellFormed : EventOf[n] = e => loc[n] = "absent"
          BY <4>1, <4>4 DEF IsOutdated
        <5>2. e \notin completed
          BY <5>1 DEF RequestInv
        <5>3. \A t \in Tasks : pc[t] \in WorkPlaces => Event(t) # e
          BY <3>2, <5>1 DEF Event
        <5>4. ~ Started(e)'
          BY <2>1, <5>2, <5>3 DEF Started
        <5>5. QED BY <2>1, <2>3, <4>1, <4>2, <5>2, <5>4 DEF Current
      <4>5. QED BY <4>3, <4>4
    <3>6. QED BY <3>4, <3>5
  <2>6. QED BY <2>4, <2>5
<1>2. ASSUME NEW m \in Messages, NEW s \in Tasks, Deliver(m, s) PROVE CurrentInv'
  <2>1. /\ loc[m] = "queued" /\ loc' = [loc EXCEPT ![m] = "unacked"]
        /\ pc'[s] = FirstStep(m) /\ job'[s] = m /\ Event(s)' = EventOf[m]
        /\ \A u \in Tasks : u # s => pc'[u] = pc[u] /\ job'[u] = job[u] /\ Event(u)' = Event(u)
        /\ UNCHANGED <<newest, completed, points, faults>> /\ crossed \subseteq crossed'
    BY <1>2 DEF Deliver, TypeOK, Event
  <2>2. \A n \in Messages : Pending(n)' = Pending(n) /\ (loc'[n] = "acked" <=> loc[n] = "acked")
    BY <2>1 DEF Pending, TypeOK
  <2>3. m \in WellFormed /\ Overtakes(m) => DocOf[EventOf[m]] \in crossed'
    BY <1>2 DEF Deliver, WellFormed
  <2>4. SUFFICES ASSUME NEW d \in Docs, d \notin crossed', newest[d] # Nothing
                 PROVE  Current(d)'
    BY <2>1 DEF CurrentInv
  <2> DEFINE n == newest[d]
             e == EventOf[n]
  <2>5. Current(d) /\ n \in WellFormed /\ n \in Messages /\ DocOf[e] = d
    BY <1>0, <2>1, <2>4 DEF CurrentInv
  <2>6. ASSUME m \in WellFormed, EventOf[m] = e
        PROVE  \A o \in About(d) : Pending(o) => o = m \/ o = n
    <3>1. ~ Overtakes(m)
      BY <2>3, <2>4, <2>5, <2>6
    <3>2. QED BY <2>5, <2>6, <3>1 DEF Overtakes
  <2>7. Started(e)' => \A o \in About(d) : Pending(o) => EventOf[o] = e
    <3>1. CASE Started(e)
      BY <2>5, <3>1 DEF Current
    <3>2. CASE pc'[s] \in WorkPlaces /\ EventOf[m] = e
      BY <2>1, <2>6, <3>2, FirstSteps
    <3>3. Started(e)' => Started(e) \/ (pc'[s] \in WorkPlaces /\ EventOf[m] = e)
      BY <2>1 DEF Started
    <3>4. QED BY <3>1, <3>2, <3>3
  <2>8. Taken(n)' => \A o \in About(d) : Pending(o) => o = n
    <3>1. CASE Taken(n)
      BY <2>5, <3>1 DEF Current
    <3>2. CASE m = n
      BY <2>5, <2>6, <3>2
    <3>3. Taken(n)' => Taken(n) \/ m = n
      BY <2>1, <2>2, <2>5 DEF Taken
    <3>4. QED BY <3>1, <3>2, <3>3
  <2>9. e \in completed \/ loc'[n] = "acked" => AsAsked(d)
    BY <2>2, <2>5 DEF Current
  <2>10. AsAsked(d)' <=> AsAsked(d)
    BY <2>1 DEF AsAsked, Content, FullText, Empty
  <2>11. \A o \in About(d) : Pending(o)' = Pending(o)
    BY <2>2 DEF About, WellFormed
  <2>12. QED BY <2>1, <2>7, <2>8, <2>9, <2>10, <2>11 DEF Current, About
<1>3. ASSUME NEW s \in Tasks, Work(s) PROVE CurrentInv'
  <2>1. WorkOutcome(s) /\ WorkEffect(s) /\ PointsEffect(s)
    BY <1>3, WorkOutcomes, WorkSteps, PointsSteps
  <2>2. /\ UNCHANGED <<loc, job, newest, crossed, faults>>
        /\ \A u \in Tasks : Event(u)' = Event(u) /\ (pc'[u] \in WorkPlaces => pc[u] \in WorkPlaces)
    BY <2>1 DEF WorkEffect, WorkOutcome, Event, WorkPlaces
  <2>3. /\ pc[s] \in WorkPlaces /\ Doc(s) \in Docs /\ Doc(s) = DocOf[Event(s)]
        /\ Event(s) = EventOf[job[s]] /\ Event(s) \in Events /\ job[s] \in About(Doc(s))
    BY <2>1, BusyWorker DEF WorkOutcome, Doc, Event
  <2>4. completed' \subseteq completed \cup {Event(s)}
    BY <2>1 DEF WorkOutcome
  <2>5. SUFFICES ASSUME NEW d \in Docs, d \notin crossed, newest[d] # Nothing
                 PROVE  Current(d)'
    BY <2>2 DEF CurrentInv
  <2> DEFINE n == newest[d]
             e == EventOf[n]
  <2>6. Current(d) /\ DocOf[e] = d
    BY <1>0, <2>5 DEF CurrentInv
  <2>7. Started(e)' => Started(e)
    BY <2>2, <2>3, <2>4 DEF Started
  <2>8. Taken(n)' <=> Taken(n)
    BY <2>2 DEF Taken
  <2>9. e \in completed' \/ loc[n] = "acked" => AsAsked(d)'
    <3>1. CASE d # Doc(s)
      <4>1. points'[d] = points[d]
        BY <2>1, <2>3, <3>1 DEF PointsEffect, Cleared, Written, TypeOK
      <4>2. e \in completed' => e \in completed
        BY <2>3, <2>4, <2>6, <3>1
      <4>3. e \in completed' \/ loc[n] = "acked" => AsAsked(d)
        BY <2>6, <4>2 DEF Current
      <4>4. QED BY <2>2, <4>1, <4>3 DEF AsAsked, Content, FullText, Empty
    <3>2. CASE d = Doc(s)
      <4>1. /\ Pending(job[s]) /\ job[s] \in About(d) /\ Event(s) \notin completed
            /\ pc[s] = "upsert" => points[d] = Empty
        BY <2>3, <2>5, <3>2 DEF AloneInv
      <4>2. loc[n] # "acked"
        <5>1. SUFFICES ASSUME loc[n] = "acked" PROVE FALSE
          OBVIOUS
        <5>2. job[s] = n
          BY <2>6, <4>1, <5>1 DEF Current, Taken
        <5>3. QED BY <4>1, <5>1, <5>2 DEF Pending
      <4>3. e \notin completed
        <5>1. SUFFICES ASSUME e \in completed PROVE FALSE
          OBVIOUS
        <5>2. EventOf[job[s]] = e
          BY <2>6, <4>1, <5>1 DEF Current, Started
        <5>3. QED BY <2>3, <4>1, <5>1, <5>2
      <4>4. ASSUME e \in completed' PROVE points'[d] = Content(e)
        <5>1. e = Event(s) /\ pc'[s] = "ack"
          BY <2>1, <2>4, <4>3, <4>4 DEF WorkOutcome
        <5>2. CASE pc[s] = "upsert" /\ points' = Written(Event(s))
          <6>1. points'[d] = [i \in Positions |-> IF i \in Chunks(e) THEN e ELSE Empty[i]]
            BY <2>3, <3>2, <4>1, <5>1, <5>2 DEF Written, TypeOK
          <6>2. points'[d] = FullText(e)
            BY <6>1 DEF FullText, Empty
          <6>3. Kind[e] = "index"
            BY <5>1, <5>2 DEF RequestInv, IndexSteps
          <6>4. QED BY <6>2, <6>3 DEF Content
        <5>3. CASE pc[s] = "remove" /\ points' = Cleared(Doc(s))
          <6>1. points'[d] = Empty
            BY <2>3, <3>2, <5>3 DEF Cleared, TypeOK
          <6>2. Kind[e] = "remove"
            BY <5>1, <5>3 DEF RequestInv
          <6>3. QED BY <6>1, <6>2 DEF Content
        <5>4. QED BY <2>1, <5>1, <5>2, <5>3 DEF WorkOutcome
      <4>5. QED BY <2>2, <4>2, <4>4 DEF AsAsked, Content, FullText, Empty
    <3>3. QED BY <3>1, <3>2
  <2>10. QED BY <2>2, <2>6, <2>7, <2>8, <2>9 DEF Current, About, Pending
<1>4. ASSUME NEW s \in Tasks, Ack(s) \/ Requeue(s) \/ DeadLetter(s) PROVE CurrentInv'
  <2>1. SettleEffect(s) /\ UNCHANGED <<newest, crossed, faults>>
    BY <1>4, SettleSteps, SettleLeaves
  <2>2. job[s] \in Messages /\ pc[s] # "idle" /\ (live[s] => loc[job[s]] = "unacked")
    BY <2>1, BusyTask DEF SettleEffect, OneHandler
  <2>3. /\ UNCHANGED <<completed, points>> /\ pc'[s] = "idle" /\ job'[s] = Nothing
        /\ \A u \in Tasks : u # s => pc'[u] = pc[u] /\ job'[u] = job[u] /\ Event(u)' = Event(u)
    BY <2>1 DEF SettleEffect, TypeOK, Event
  <2>4. \A n \in Messages : loc'[n] # loc[n] =>
            /\ loc[n] = "unacked" /\ n = job[s]
            /\ loc'[n] = "acked" => Event(s) \in completed
    <3>1. PICK step \in {"ack", "requeue", "deadletter"}, there \in {"acked", "queued", "dlq"} :
             /\ pc[s] = step
             /\ <<step, there>> \in {<<"ack", "acked">>, <<"requeue", "queued">>,
                                     <<"deadletter", "dlq">>}
             /\ loc' = IF live[s] THEN [loc EXCEPT ![job[s]] = there] ELSE loc
      BY <2>1 DEF SettleEffect
    <3>2. there = "acked" => Event(s) \in completed
      BY <3>1 DEF RequestInv
    <3>3. QED BY <2>2, <3>1, <3>2 DEF TypeOK
  <2>5. \A n \in WellFormed : n \in Messages /\ n # Nothing
    BY ConstantsAssumption DEF WellFormed
  <2>6. \A n \in WellFormed : Pending(n)' => Pending(n)
    BY <2>4, <2>5 DEF Pending
  <2>7. \A n \in WellFormed : loc'[n] = "acked" => loc[n] = "acked" \/ EventOf[n] \in completed
    BY <2>4, <2>5 DEF Event
  <2>8. \A n \in WellFormed : Taken(n)' => Taken(n)
    BY <2>3, <2>4, <2>5 DEF Taken
  <2>9. "idle" \notin WorkPlaces
    BY DEF WorkPlaces, IndexSteps
  <2>10. QED BY <2>1, <2>3, <2>6, <2>7, <2>8, <2>9, CurrentKept
<1>5. CASE ChannelLoss \/ Restart
  <2>1. \A n \in Messages : /\ loc'[n] \in {"queued", "unacked"} => loc[n] \in {"queued", "unacked"}
                            /\ loc'[n] = "acked" => loc[n] = "acked"
    BY <1>5 DEF ChannelLoss, Restart, TakenBack
  <2>2. /\ UNCHANGED <<newest, crossed, points>> /\ completed' \subseteq completed
        /\ faults'["drop"] = faults["drop"]
    BY <1>5 DEF ChannelLoss, Restart, Spend, TypeOK
  <2>3. \A t \in Tasks : \/ pc'[t] = pc[t] /\ job'[t] = job[t]
                         \/ pc'[t] = "idle" /\ job'[t] = Nothing
    BY <1>5 DEF ChannelLoss, Restart
  <2>4. \A n \in WellFormed : n \in Messages /\ n # Nothing
    BY ConstantsAssumption DEF WellFormed
  <2>5. "idle" \notin WorkPlaces
    BY DEF WorkPlaces, IndexSteps
  <2>6. \A t \in Tasks : pc'[t] \in WorkPlaces => pc[t] \in WorkPlaces /\ Event(t)' = Event(t)
    BY <2>3, <2>5 DEF Event
  <2>7. \A n \in WellFormed : Taken(n)' => Taken(n)
    BY <2>1, <2>3, <2>4 DEF Taken
  <2>8. QED BY <2>1, <2>2, <2>4, <2>6, <2>7, CurrentKept DEF Pending
<1>6. CASE DropCollection
  <2>1. /\ UNCHANGED <<loc, newest, crossed, pc, job, completed>>
        /\ faults'["drop"] > 0 /\ \A d \in Docs : points'[d] = Empty
    BY <1>6 DEF DropCollection, Spend, TypeOK
  <2>2. QED BY <2>1, CurrentKept DEF Pending, Taken, Event
<1>7. CASE UNCHANGED vars
  BY <1>7, CurrentKept DEF vars, Pending, Taken, Event
<1>8. QED BY <1>1, <1>2, <1>3, <1>4, <1>5, <1>6, <1>7 DEF Next, Handle, Work

\* What the backend was told is indexed is stored, and what it was told is removed is gone,
\* for every document whose requests did not cross, through outages, restarts, lost channels,
\* copies and dead letters; of a dropped collection nothing is left.
THEOREM AckedRequestsAreCurrent == Spec => []AckedIsCurrent
<1>1. Init => RequestInv /\ AloneInv /\ CurrentInv
  BY DEF Init, RequestInv, AloneInv, CurrentInv, WorkPlaces, IndexSteps
<1>2. TypeOK /\ OneHandler /\ SubmittedInv /\ RequestInv /\ AloneInv /\ CurrentInv /\ [Next]_vars
      => RequestInv' /\ AloneInv' /\ CurrentInv'
  BY RequestStep, AloneStep, CurrentStep
<1>3. CurrentInv => AckedIsCurrent
  BY DEF CurrentInv, Current, AsAsked, AckedIsCurrent
<1>4. QED
  BY <1>1, <1>2, <1>3, TypeCorrect, OneHandlerPerMessage, SubmittedInvariant, PTL DEF Spec
=============================================================================
