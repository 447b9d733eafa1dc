----------------------- MODULE MinutesConsumerProofs -----------------------
(***************************************************************************)
(* Proofs about the minutes consumer, for any events, messages, tasks,     *)
(* retry limit, prefetch count and numbers of faults.                      *)
(***************************************************************************)
EXTENDS MinutesConsumer, FiniteSetTheorems, TLAPS

USE ConstantsAssumption DEF FaultKinds

\* A task that is not idle handles a message, whose event is an event.
LEMMA BusyTask ==
    ASSUME TypeOK, NEW t \in Tasks, pc[t] # "idle"
    PROVE  job[t] \in Messages /\ Event(t) \in Events
BY DEF TypeOK, Event

\* The variables keep their types: every counter stays a natural number, and a task
\* has a message exactly while it runs.
THEOREM TypeCorrect == Spec => []TypeOK
<1>1. Init => TypeOK
  BY DEF Init, TypeOK, Locations, Steps, RedisSteps, SettleSteps
<1>2. TypeOK /\ [Next]_vars => TypeOK'
  <2> SUFFICES ASSUME TypeOK, [Next]_vars PROVE TypeOK'
    OBVIOUS
  <2> USE DEF TypeOK, Locations, Steps, RedisSteps, SettleSteps,
              broker, redis, handler, outcome, Goto, Finish, Spend
  <2>1. ASSUME NEW m \in Messages, Enqueue(m) PROVE TypeOK'
    BY <2>1 DEF Enqueue
  <2>2. ASSUME NEW m \in Messages, NEW t \in Tasks, Deliver(m, t) PROVE TypeOK'
    BY <2>2 DEF Deliver
  <2>3. ASSUME NEW t \in Tasks, CheckCompleted(t) PROVE TypeOK'
    BY <2>3 DEF CheckCompleted
  <2>4. ASSUME NEW t \in Tasks, Generate(t) PROVE TypeOK'
    BY <2>4, BusyTask DEF Generate
  <2>5. ASSUME NEW t \in Tasks, Publish(t) PROVE TypeOK'
    BY <2>5, BusyTask DEF Publish
  <2>6. ASSUME NEW t \in Tasks, MarkCompleted(t) PROVE TypeOK'
    BY <2>6, BusyTask DEF MarkCompleted, SetCompleted
  <2>7. ASSUME NEW t \in Tasks, ClearRetry(t) PROVE TypeOK'
    BY <2>7, BusyTask DEF ClearRetry, DeleteRetry
  <2>8. ASSUME NEW t \in Tasks, Ack(t) PROVE TypeOK'
    BY <2>8, BusyTask DEF Ack
  <2>9. ASSUME NEW t \in Tasks, CountRetry(t) PROVE TypeOK'
    BY <2>9, BusyTask DEF CountRetry, IncrRetry, AfterCount
  <2>10. ASSUME NEW t \in Tasks, SetRetryTtl(t) PROVE TypeOK'
    BY <2>10, BusyTask DEF SetRetryTtl, ExpireRetryKey, AfterCount
  <2>11. ASSUME NEW t \in Tasks, Backoff(t) PROVE TypeOK'
    BY <2>11 DEF Backoff
  <2>12. ASSUME NEW t \in Tasks, Requeue(t) PROVE TypeOK'
    BY <2>12, BusyTask DEF Requeue
  <2>13. ASSUME NEW t \in Tasks, DeadLetter(t) PROVE TypeOK'
    BY <2>13, BusyTask DEF DeadLetter
  <2>14. ASSUME NEW t \in Tasks, RedisFault(t) PROVE TypeOK'
    <3>1. job[t] \in Messages /\ Event(t) \in Events
      BY <2>14, BusyTask DEF RedisFault
    <3>2. /\ completed' \in SUBSET Events
          /\ retry' \in [Events -> Nat]
          /\ retryTtl' \in SUBSET Events
      BY <2>14, <3>1 DEF RedisFault, SetCompleted, DeleteRetry, IncrRetry, ExpireRetryKey
    <3>3. QED BY <2>14, <3>2 DEF RedisFault
  <2>15. ASSUME NEW e \in Events, CompletedExpires(e) PROVE TypeOK'
    BY <2>15 DEF CompletedExpires
  <2>16. ASSUME NEW e \in Events, RetryExpires(e) PROVE TypeOK'
    BY <2>16 DEF RetryExpires, DeleteRetry
  <2>17. ASSUME ChannelLoss PROVE TypeOK'
    BY <2>17 DEF ChannelLoss, DropChannel
  <2>21. ASSUME AckTimeout PROVE TypeOK'
    BY <2>21 DEF AckTimeout, DropChannel
  <2>18. ASSUME Restart PROVE TypeOK'
    BY <2>18 DEF Restart
  <2>19. ASSUME UNCHANGED vars PROVE TypeOK'
    BY <2>19 DEF vars
  <2>20. QED
    BY <2>1, <2>2, <2>3, <2>4, <2>5, <2>6, <2>7, <2>8, <2>9, <2>10, <2>11, <2>12,
       <2>13, <2>14, <2>15, <2>16, <2>17, <2>18, <2>19, <2>21 DEF Next, Handle
<1>3. QED BY <1>1, <1>2, PTL DEF Spec
-----------------------------------------------------------------------------
(***************************************************************************)
(* Acknowledged requests have a result.  The argument: the completed mark  *)
(* is only ever set by a task past its publish, so every way to "ack",     *)
(* through the task's own publish or through the mark of an earlier        *)
(* handler, runs through a publish of the same event.                      *)
(***************************************************************************)
ResultInv ==
    /\ completed \subseteq published
    /\ \A t \in Tasks : pc[t] \in {"mark", "clear", "ack"} => Event(t) \in published
    /\ AckedHasResult

LEMMA ResultInvariant == Spec => []ResultInv
<1>1. Init => ResultInv
  BY DEF Init, ResultInv, AckedHasResult
<1>2. TypeOK /\ ResultInv /\ [Next]_vars => ResultInv'
  <2> SUFFICES ASSUME TypeOK, ResultInv, [Next]_vars PROVE ResultInv'
    OBVIOUS
  <2> USE DEF ResultInv, AckedHasResult, TypeOK, Event,
              broker, redis, handler, outcome, Goto, Finish, Spend
  <2>1. ASSUME NEW m \in Messages, Enqueue(m) PROVE ResultInv'
    BY <2>1 DEF Enqueue
  <2>2. ASSUME NEW m \in Messages, NEW t \in Tasks, Deliver(m, t) PROVE ResultInv'
    BY <2>2, BusyTask DEF Deliver
  <2>3. ASSUME NEW t \in Tasks, CheckCompleted(t) PROVE ResultInv'
    BY <2>3, BusyTask DEF CheckCompleted
  <2>4. ASSUME NEW t \in Tasks, Generate(t) PROVE ResultInv'
    BY <2>4, BusyTask DEF Generate
  <2>5. ASSUME NEW t \in Tasks, Publish(t) PROVE ResultInv'
    BY <2>5, BusyTask DEF Publish
  <2>6. ASSUME NEW t \in Tasks, MarkCompleted(t) PROVE ResultInv'
    BY <2>6, BusyTask DEF MarkCompleted, SetCompleted
  <2>7. ASSUME NEW t \in Tasks, ClearRetry(t) PROVE ResultInv'
    BY <2>7, BusyTask DEF ClearRetry, DeleteRetry
  <2>8. ASSUME NEW t \in Tasks, Ack(t) PROVE ResultInv'
    BY <2>8, BusyTask DEF Ack
  <2>9. ASSUME NEW t \in Tasks, CountRetry(t) PROVE ResultInv'
    BY <2>9, BusyTask DEF CountRetry, IncrRetry, AfterCount
  <2>10. ASSUME NEW t \in Tasks, SetRetryTtl(t) PROVE ResultInv'
    BY <2>10, BusyTask DEF SetRetryTtl, ExpireRetryKey, AfterCount
  <2>11. ASSUME NEW t \in Tasks, Backoff(t) PROVE ResultInv'
    BY <2>11, BusyTask DEF Backoff
  <2>12. ASSUME NEW t \in Tasks, Requeue(t) PROVE ResultInv'
    BY <2>12, BusyTask DEF Requeue
  <2>13. ASSUME NEW t \in Tasks, DeadLetter(t) PROVE ResultInv'
    BY <2>13, BusyTask DEF DeadLetter
  <2>14. ASSUME NEW t \in Tasks, RedisFault(t) PROVE ResultInv'
    BY <2>14, BusyTask DEF RedisFault, SetCompleted, DeleteRetry, IncrRetry, ExpireRetryKey
  <2>15. ASSUME NEW e \in Events, CompletedExpires(e) PROVE ResultInv'
    BY <2>15 DEF CompletedExpires
  <2>16. ASSUME NEW e \in Events, RetryExpires(e) PROVE ResultInv'
    BY <2>16 DEF RetryExpires, DeleteRetry
  <2>17. ASSUME ChannelLoss PROVE ResultInv'
    BY <2>17 DEF ChannelLoss, DropChannel
  <2>18. ASSUME AckTimeout PROVE ResultInv'
    BY <2>18 DEF AckTimeout, DropChannel
  <2>19. ASSUME Restart PROVE ResultInv'
    BY <2>19 DEF Restart
  <2>20. ASSUME UNCHANGED vars PROVE ResultInv'
    BY <2>20 DEF vars
  <2>21. QED
    BY <2>1, <2>2, <2>3, <2>4, <2>5, <2>6, <2>7,
       <2>8, <2>9, <2>10, <2>11, <2>12, <2>13, <2>14,
       <2>15, <2>16, <2>17, <2>18, <2>19, <2>20 DEF Next, Handle
<1>3. QED BY <1>1, <1>2, TypeCorrect, PTL DEF Spec

\* No request is acknowledged before its minutes were published, whatever fails.
THEOREM AckedRequestsHaveResults == Spec => []AckedHasResult
<1>1. ResultInv => AckedHasResult
  BY DEF ResultInv
<1>2. QED BY <1>1, ResultInvariant, PTL
-----------------------------------------------------------------------------
\* A channel never sees a message settled twice, and while Redis answers no message is
\* left unacknowledged without a handler: OneHandler is inductive as it stands.
THEOREM OneHandlerPerMessage == Spec => []OneHandler
<1>1. Init => OneHandler
  BY DEF Init, OneHandler, Orphaned
<1>2. TypeOK /\ OneHandler /\ [Next]_vars => OneHandler'
  <2> SUFFICES ASSUME TypeOK, OneHandler, [Next]_vars PROVE OneHandler'
    OBVIOUS
  <2> USE DEF OneHandler, Orphaned, TypeOK, Event,
              broker, redis, handler, outcome, Goto, Finish, Spend
  <2>1. ASSUME NEW m \in Messages, Enqueue(m) PROVE OneHandler'
    BY <2>1 DEF Enqueue
  <2>2. ASSUME NEW m \in Messages, NEW t \in Tasks, Deliver(m, t) PROVE OneHandler'
    BY <2>2, BusyTask DEF Deliver
  <2>3. ASSUME NEW t \in Tasks, CheckCompleted(t) PROVE OneHandler'
    BY <2>3, BusyTask DEF CheckCompleted
  <2>4. ASSUME NEW t \in Tasks, Generate(t) PROVE OneHandler'
    BY <2>4, BusyTask DEF Generate
  <2>5. ASSUME NEW t \in Tasks, Publish(t) PROVE OneHandler'
    BY <2>5, BusyTask DEF Publish
  <2>6. ASSUME NEW t \in Tasks, MarkCompleted(t) PROVE OneHandler'
    BY <2>6, BusyTask DEF MarkCompleted, SetCompleted
  <2>7. ASSUME NEW t \in Tasks, ClearRetry(t) PROVE OneHandler'
    BY <2>7, BusyTask DEF ClearRetry, DeleteRetry
  <2>8. ASSUME NEW t \in Tasks, Ack(t) PROVE OneHandler'
    BY <2>8, BusyTask DEF Ack
  <2>9. ASSUME NEW t \in Tasks, CountRetry(t) PROVE OneHandler'
    BY <2>9, BusyTask DEF CountRetry, IncrRetry, AfterCount
  <2>10. ASSUME NEW t \in Tasks, SetRetryTtl(t) PROVE OneHandler'
    BY <2>10, BusyTask DEF SetRetryTtl, ExpireRetryKey, AfterCount
  <2>11. ASSUME NEW t \in Tasks, Backoff(t) PROVE OneHandler'
    BY <2>11, BusyTask DEF Backoff
  <2>12. ASSUME NEW t \in Tasks, Requeue(t) PROVE OneHandler'
    BY <2>12, BusyTask DEF Requeue
  <2>13. ASSUME NEW t \in Tasks, DeadLetter(t) PROVE OneHandler'
    BY <2>13, BusyTask DEF DeadLetter
  <2>14. ASSUME NEW t \in Tasks, RedisFault(t) PROVE OneHandler'
    BY <2>14, BusyTask DEF RedisFault, SetCompleted, DeleteRetry, IncrRetry, ExpireRetryKey
  <2>15. ASSUME NEW e \in Events, CompletedExpires(e) PROVE OneHandler'
    BY <2>15 DEF CompletedExpires
  <2>16. ASSUME NEW e \in Events, RetryExpires(e) PROVE OneHandler'
    BY <2>16 DEF RetryExpires, DeleteRetry
  <2>17. ASSUME ChannelLoss PROVE OneHandler'
    BY <2>17 DEF ChannelLoss, DropChannel
  <2>18. ASSUME AckTimeout PROVE OneHandler'
    BY <2>18 DEF AckTimeout, DropChannel
  <2>19. ASSUME Restart PROVE OneHandler'
    BY <2>19 DEF Restart
  <2>20. ASSUME UNCHANGED vars PROVE OneHandler'
    BY <2>20 DEF vars
  <2>21. QED
    BY <2>1, <2>2, <2>3, <2>4, <2>5, <2>6, <2>7,
       <2>8, <2>9, <2>10, <2>11, <2>12, <2>13, <2>14,
       <2>15, <2>16, <2>17, <2>18, <2>19, <2>20 DEF Next, Handle
<1>3. QED BY <1>1, <1>2, TypeCorrect, PTL DEF Spec
-----------------------------------------------------------------------------
(***************************************************************************)
(* Dead letters.  A task heads for the DLQ only with a reason, and the     *)
(* reasons last: the retry counter of an event falls only when a copy of   *)
(* it was published or its key expired.                                    *)
(***************************************************************************)
DeadLetterInv ==
    /\ \A t \in Tasks : pc[t] = "deadletter" => GivenUp(job[t])
    /\ \A t \in Tasks : pc[t] = "expire" =>
          retry[Event(t)] > 0 \/ Event(t) \in published \/ faults["expiry"] > 0
    /\ DeadLetterJustified

\* No request goes to the DLQ while it could still be retried.
THEOREM DeadLettersAreJustified == Spec => []DeadLetterJustified
<1>1. Init => DeadLetterInv
  BY DEF Init, DeadLetterInv, DeadLetterJustified
<1>2. TypeOK /\ ResultInv /\ DeadLetterInv /\ [Next]_vars => DeadLetterInv'
  <2> SUFFICES ASSUME TypeOK, ResultInv, DeadLetterInv, [Next]_vars PROVE DeadLetterInv'
    OBVIOUS
  <2> USE DEF DeadLetterInv, DeadLetterJustified, GivenUp, ResultInv, TypeOK, Event,
              broker, redis, handler, outcome, Goto, Finish, Spend
  <2>1. ASSUME NEW m \in Messages, Enqueue(m) PROVE DeadLetterInv'
    BY <2>1 DEF Enqueue
  <2>2. ASSUME NEW m \in Messages, NEW t \in Tasks, Deliver(m, t) PROVE DeadLetterInv'
    BY <2>2, BusyTask DEF Deliver
  <2>3. ASSUME NEW t \in Tasks, CheckCompleted(t) PROVE DeadLetterInv'
    BY <2>3, BusyTask DEF CheckCompleted
  <2>4. ASSUME NEW t \in Tasks, Generate(t) PROVE DeadLetterInv'
    BY <2>4, BusyTask DEF Generate
  <2>5. ASSUME NEW t \in Tasks, Publish(t) PROVE DeadLetterInv'
    BY <2>5, BusyTask DEF Publish
  <2>6. ASSUME NEW t \in Tasks, MarkCompleted(t) PROVE DeadLetterInv'
    BY <2>6, BusyTask DEF MarkCompleted, SetCompleted
  <2>7. ASSUME NEW t \in Tasks, ClearRetry(t) PROVE DeadLetterInv'
    BY <2>7, BusyTask DEF ClearRetry, DeleteRetry
  <2>8. ASSUME NEW t \in Tasks, Ack(t) PROVE DeadLetterInv'
    BY <2>8, BusyTask DEF Ack
  <2>9. ASSUME NEW t \in Tasks, CountRetry(t) PROVE DeadLetterInv'
    BY <2>9, BusyTask DEF CountRetry, IncrRetry, AfterCount
  <2>10. ASSUME NEW t \in Tasks, SetRetryTtl(t) PROVE DeadLetterInv'
    BY <2>10, BusyTask DEF SetRetryTtl, ExpireRetryKey, AfterCount
  <2>11. ASSUME NEW t \in Tasks, Backoff(t) PROVE DeadLetterInv'
    BY <2>11, BusyTask DEF Backoff
  <2>12. ASSUME NEW t \in Tasks, Requeue(t) PROVE DeadLetterInv'
    BY <2>12, BusyTask DEF Requeue
  <2>13. ASSUME NEW t \in Tasks, DeadLetter(t) PROVE DeadLetterInv'
    BY <2>13, BusyTask DEF DeadLetter
  <2>14. ASSUME NEW t \in Tasks, RedisFault(t) PROVE DeadLetterInv'
    BY <2>14, BusyTask DEF RedisFault, SetCompleted, DeleteRetry, IncrRetry, ExpireRetryKey
  <2>15. ASSUME NEW e \in Events, CompletedExpires(e) PROVE DeadLetterInv'
    BY <2>15 DEF CompletedExpires
  <2>16. ASSUME NEW e \in Events, RetryExpires(e) PROVE DeadLetterInv'
    BY <2>16 DEF RetryExpires, DeleteRetry
  <2>17. ASSUME ChannelLoss PROVE DeadLetterInv'
    BY <2>17 DEF ChannelLoss, DropChannel
  <2>18. ASSUME AckTimeout PROVE DeadLetterInv'
    BY <2>18 DEF AckTimeout, DropChannel
  <2>19. ASSUME Restart PROVE DeadLetterInv'
    BY <2>19 DEF Restart
  <2>20. ASSUME UNCHANGED vars PROVE DeadLetterInv'
    BY <2>20 DEF vars
  <2>21. QED
    BY <2>1, <2>2, <2>3, <2>4, <2>5, <2>6, <2>7,
       <2>8, <2>9, <2>10, <2>11, <2>12, <2>13, <2>14,
       <2>15, <2>16, <2>17, <2>18, <2>19, <2>20 DEF Next, Handle
<1>3. DeadLetterInv => DeadLetterJustified
  BY DEF DeadLetterInv
<1>4. QED BY <1>1, <1>2, <1>3, TypeCorrect, ResultInvariant, PTL DEF Spec
-----------------------------------------------------------------------------
(***************************************************************************)
(* The consumer implements RequestJob under the mapping StatusOf.          *)
(***************************************************************************)
\* A task's message, even one redelivered since, was submitted by the backend.
SubmittedInv == \A t \in Tasks : pc[t] # "idle" => loc[job[t]] # "absent"

LEMMA SubmittedInvariant == Spec => []SubmittedInv
<1>1. Init => SubmittedInv
  BY DEF Init, SubmittedInv
<1>2. TypeOK /\ SubmittedInv /\ [Next]_vars => SubmittedInv'
  <2> SUFFICES ASSUME TypeOK, SubmittedInv, [Next]_vars PROVE SubmittedInv'
    OBVIOUS
  <2> USE DEF SubmittedInv, TypeOK, Event,
              broker, redis, handler, outcome, Goto, Finish, Spend
  <2>1. ASSUME NEW m \in Messages, Enqueue(m) PROVE SubmittedInv'
    BY <2>1 DEF Enqueue
  <2>2. ASSUME NEW m \in Messages, NEW t \in Tasks, Deliver(m, t) PROVE SubmittedInv'
    BY <2>2, BusyTask DEF Deliver
  <2>3. ASSUME NEW t \in Tasks, CheckCompleted(t) PROVE SubmittedInv'
    BY <2>3, BusyTask DEF CheckCompleted
  <2>4. ASSUME NEW t \in Tasks, Generate(t) PROVE SubmittedInv'
    BY <2>4, BusyTask DEF Generate
  <2>5. ASSUME NEW t \in Tasks, Publish(t) PROVE SubmittedInv'
    BY <2>5, BusyTask DEF Publish
  <2>6. ASSUME NEW t \in Tasks, MarkCompleted(t) PROVE SubmittedInv'
    BY <2>6, BusyTask DEF MarkCompleted, SetCompleted
  <2>7. ASSUME NEW t \in Tasks, ClearRetry(t) PROVE SubmittedInv'
    BY <2>7, BusyTask DEF ClearRetry, DeleteRetry
  <2>8. ASSUME NEW t \in Tasks, Ack(t) PROVE SubmittedInv'
    BY <2>8, BusyTask DEF Ack
  <2>9. ASSUME NEW t \in Tasks, CountRetry(t) PROVE SubmittedInv'
    BY <2>9, BusyTask DEF CountRetry, IncrRetry, AfterCount
  <2>10. ASSUME NEW t \in Tasks, SetRetryTtl(t) PROVE SubmittedInv'
    BY <2>10, BusyTask DEF SetRetryTtl, ExpireRetryKey, AfterCount
  <2>11. ASSUME NEW t \in Tasks, Backoff(t) PROVE SubmittedInv'
    BY <2>11, BusyTask DEF Backoff
  <2>12. ASSUME NEW t \in Tasks, Requeue(t) PROVE SubmittedInv'
    BY <2>12, BusyTask DEF Requeue
  <2>13. ASSUME NEW t \in Tasks, DeadLetter(t) PROVE SubmittedInv'
    BY <2>13, BusyTask DEF DeadLetter
  <2>14. ASSUME NEW t \in Tasks, RedisFault(t) PROVE SubmittedInv'
    BY <2>14, BusyTask DEF RedisFault, SetCompleted, DeleteRetry, IncrRetry, ExpireRetryKey
  <2>15. ASSUME NEW e \in Events, CompletedExpires(e) PROVE SubmittedInv'
    BY <2>15 DEF CompletedExpires
  <2>16. ASSUME NEW e \in Events, RetryExpires(e) PROVE SubmittedInv'
    BY <2>16 DEF RetryExpires, DeleteRetry
  <2>17. ASSUME ChannelLoss PROVE SubmittedInv'
    BY <2>17 DEF ChannelLoss, DropChannel
  <2>18. ASSUME AckTimeout PROVE SubmittedInv'
    BY <2>18 DEF AckTimeout, DropChannel
  <2>19. ASSUME Restart PROVE SubmittedInv'
    BY <2>19 DEF Restart
  <2>20. ASSUME UNCHANGED vars PROVE SubmittedInv'
    BY <2>20 DEF vars
  <2>21. QED
    BY <2>1, <2>2, <2>3, <2>4, <2>5, <2>6, <2>7,
       <2>8, <2>9, <2>10, <2>11, <2>12, <2>13, <2>14,
       <2>15, <2>16, <2>17, <2>18, <2>19, <2>20 DEF Next, Handle
<1>3. QED BY <1>1, <1>2, TypeCorrect, PTL DEF Spec

LEMMA StatusValues ==
    /\ StatusOf("absent") = "absent"
    /\ StatusOf("queued") = "pending"
    /\ StatusOf("unacked") = "pending"
    /\ StatusOf("acked") = "done"
    /\ StatusOf("dlq") = "failed"
BY DEF StatusOf

\* A step that leaves every status and the results alone is a stutter of the promise.
LEMMA Stutter ==
    ASSUME published' = published,
           \A m \in Messages :
              loc'[m] = loc[m] \/ {loc[m], loc'[m]} \subseteq {"queued", "unacked"}
    PROVE  UNCHANGED Job!jobVars
<1>1. ASSUME NEW m \in Messages PROVE StatusOf(loc[m]) = StatusOf(loc'[m])
  <2>1. loc'[m] = loc[m] \/ (loc[m] \in {"queued", "unacked"} /\ loc'[m] \in {"queued", "unacked"})
    OBVIOUS
  <2>2. QED BY <2>1, StatusValues
<1>2. QED BY <1>1 DEF Job!jobVars

\* Every behaviour of the consumer is one the backend was promised: a verdict on a
\* request is given once, never revoked, and "done" only with a result.
THEOREM ConsumerKeepsPromise == Spec => JobPromise
<1>1. Init => Job!JobInit
  BY StatusValues DEF Init, Job!JobInit
<1>2. TypeOK /\ TypeOK' /\ ResultInv /\ OneHandler /\ SubmittedInv /\ [Next]_vars
      => [Job!JobNext]_(Job!jobVars)
  <2> SUFFICES ASSUME TypeOK, TypeOK', ResultInv, OneHandler, SubmittedInv, [Next]_vars
               PROVE  Job!JobNext \/ UNCHANGED Job!jobVars
    OBVIOUS
  <2> USE StatusValues DEF TypeOK, Event, broker, redis, handler, outcome, Goto, Finish
  <2>1. ASSUME NEW m \in Messages, Enqueue(m) PROVE Job!Submit(m)
    BY <2>1 DEF Enqueue, Job!Submit
  <2>2. ASSUME NEW t \in Tasks, Publish(t)
        PROVE  Job!Produce(job[t]) \/ UNCHANGED Job!jobVars
    BY <2>2, BusyTask DEF Publish, Job!Produce, Job!jobVars, SubmittedInv, Locations
  <2>3. ASSUME NEW t \in Tasks, Ack(t)
        PROVE  Job!Complete(job[t]) \/ UNCHANGED Job!jobVars
    BY <2>3, BusyTask DEF Ack, Job!Complete, Job!jobVars, OneHandler, ResultInv
  <2>4. ASSUME NEW t \in Tasks, DeadLetter(t)
        PROVE  Job!GiveUp(job[t]) \/ UNCHANGED Job!jobVars
    BY <2>4, BusyTask DEF DeadLetter, Job!GiveUp, Job!jobVars, OneHandler
  <2>5. ASSUME NEW t \in Tasks, Requeue(t) PROVE UNCHANGED Job!jobVars
    BY <2>5, BusyTask, Stutter DEF Requeue, OneHandler
  <2>6. ASSUME NEW m \in Messages, NEW t \in Tasks, Deliver(m, t)
        PROVE  UNCHANGED Job!jobVars
    BY <2>6, Stutter DEF Deliver
  <2>7. ASSUME ChannelLoss \/ AckTimeout \/ Restart PROVE UNCHANGED Job!jobVars
    BY <2>7, Stutter DEF ChannelLoss, AckTimeout, Restart, DropChannel
  <2>8. ASSUME NEW t \in Tasks,
               \/ CheckCompleted(t) \/ Generate(t) \/ MarkCompleted(t) \/ ClearRetry(t)
               \/ CountRetry(t) \/ SetRetryTtl(t) \/ Backoff(t) \/ RedisFault(t)
        PROVE  UNCHANGED Job!jobVars
    BY <2>8 DEF CheckCompleted, Generate, MarkCompleted, ClearRetry, CountRetry,
                SetRetryTtl, Backoff, RedisFault, Job!jobVars
  <2>9. ASSUME NEW e \in Events, CompletedExpires(e) \/ RetryExpires(e)
        PROVE  UNCHANGED Job!jobVars
    BY <2>9 DEF CompletedExpires, RetryExpires, Job!jobVars
  <2>10. ASSUME UNCHANGED vars PROVE UNCHANGED Job!jobVars
    BY <2>10 DEF vars, Job!jobVars
  <2>11. \A t \in Tasks : pc[t] # "idle" => job[t] \in Messages
    BY BusyTask
  <2>12. ASSUME NEW t \in Tasks, Handle(t)
         PROVE  Job!JobNext \/ UNCHANGED Job!jobVars
    BY <2>12, <2>2, <2>3, <2>4, <2>5, <2>8, <2>11
       DEF Handle, Job!JobNext, Publish, Ack, DeadLetter
  <2>13. QED
    BY <2>1, <2>6, <2>7, <2>8, <2>9, <2>10, <2>12 DEF Next, Job!JobNext
<1>3. QED
  BY <1>1, <1>2, TypeCorrect, ResultInvariant, OneHandlerPerMessage, SubmittedInvariant,
     PTL DEF Spec, JobPromise, Job!JobSpec
-----------------------------------------------------------------------------
(***************************************************************************)
(* The retry budget.  A requeue is granted by an INCR and used by a later  *)
(* reject; Granted(e) is what is granted and not yet used.  Used and       *)
(* granted requeues together stay below both the counter and max_retries,  *)
(* although the counter is shared by tasks that know nothing of each other.*)
(***************************************************************************)
Granted(e) == {t \in Tasks : /\ \/ pc[t] \in {"backoff", "requeue"}
                                \/ pc[t] = "expire" /\ MaxRetries > 0
                             /\ Event(t) = e}

Counted(e) == e \notin published /\ faults["expiry"] = 0

BudgetInv == \A e \in Events : Counted(e) =>
                /\ requeued[e] + Cardinality(Granted(e)) <= retry[e]
                /\ requeued[e] + Cardinality(Granted(e)) <= MaxRetries

LEMMA GrantedFinite ==
    \A e : IsFiniteSet(Granted(e)) /\ Cardinality(Granted(e)) \in Nat
BY FS_Subset, FS_CardinalityType DEF Granted

\* What a step that grants nothing new and resets no counter leaves true.
LEMMA NothingGranted ==
    ASSUME TypeOK, TypeOK', NEW e \in Events, BudgetInv, Counted(e),
           Granted(e)' \subseteq Granted(e),
           requeued'[e] = requeued[e], retry'[e] >= retry[e]
    PROVE  /\ requeued'[e] + Cardinality(Granted(e)') <= retry'[e]
           /\ requeued'[e] + Cardinality(Granted(e)') <= MaxRetries
<1>1. Cardinality(Granted(e)') <= Cardinality(Granted(e)) /\ Cardinality(Granted(e)') \in Nat
  BY GrantedFinite, FS_Subset, FS_CardinalityType
<1>2. QED BY <1>1, GrantedFinite DEF BudgetInv, TypeOK

\* The copies of an unpublished event never use more than max_retries requeues.
THEOREM RetriesStayInBudget == Spec => []RetryBudget
<1>1. Init => BudgetInv
  <2> SUFFICES ASSUME Init, NEW e \in Events
               PROVE  requeued[e] + Cardinality(Granted(e)) = 0
    BY DEF Init, BudgetInv
  <2>1. Granted(e) = {}
    BY DEF Init, Granted
  <2>2. QED BY <2>1, FS_EmptySet DEF Init
<1>2. TypeOK /\ TypeOK' /\ ResultInv /\ BudgetInv /\ [Next]_vars => BudgetInv'
  <2> SUFFICES ASSUME TypeOK, TypeOK', ResultInv, BudgetInv, [Next]_vars,
                      NEW e \in Events, Counted(e)'
               PROVE  /\ requeued'[e] + Cardinality(Granted(e)') <= retry'[e]
                      /\ requeued'[e] + Cardinality(Granted(e)') <= MaxRetries
    BY DEF BudgetInv
  <2> DEFINE Goal == /\ requeued'[e] + Cardinality(Granted(e)') <= retry'[e]
                     /\ requeued'[e] + Cardinality(Granted(e)') <= MaxRetries
             Quiet == /\ Granted(e)' \subseteq Granted(e)
                      /\ requeued'[e] = requeued[e]
                      /\ retry'[e] >= retry[e]
  <2> USE DEF TypeOK, Counted, broker, redis, handler, outcome, Goto, Finish, Spend, Event
  <2>1. Counted(e) /\ faults'["expiry"] = 0
    <3>1. published \subseteq published' /\ faults["expiry"] <= faults'["expiry"]
      BY DEF Next, vars, Handle, Enqueue, Deliver, ChannelLoss, AckTimeout, DropChannel,
             Restart, CheckCompleted, Generate, Publish, MarkCompleted, ClearRetry, Ack,
             CountRetry, SetRetryTtl, Backoff, Requeue, DeadLetter, RedisFault,
             CompletedExpires, RetryExpires
    <3>2. QED BY <3>1
  <2>2. ASSUME Quiet PROVE Goal
    BY <2>1, <2>2, NothingGranted
  <2>3. ASSUME NEW m \in Messages, Enqueue(m) PROVE Goal
    BY <2>2, <2>3 DEF Enqueue, Granted
  <2>4. ASSUME NEW m \in Messages, NEW t \in Tasks, Deliver(m, t) PROVE Goal
    BY <2>2, <2>4 DEF Deliver, Granted
  <2>5. ASSUME NEW t \in Tasks,
               \/ CheckCompleted(t) \/ Generate(t) \/ Publish(t) \/ Ack(t) \/ DeadLetter(t)
               \/ Backoff(t)
        PROVE  Goal
    BY <2>2, <2>5 DEF CheckCompleted, Generate, Publish, Ack, DeadLetter, Backoff, Granted
  <2>6. ASSUME NEW t \in Tasks, MarkCompleted(t) \/ ClearRetry(t) PROVE Goal
    <3>1. Event(t) \in published
      BY <2>6 DEF ResultInv, MarkCompleted, ClearRetry
    <3>2. Quiet
      BY <2>1, <2>6, <3>1 DEF MarkCompleted, SetCompleted, ClearRetry, DeleteRetry, Granted
    <3>3. QED BY <2>2, <3>2
  <2>7. ASSUME NEW t \in Tasks, CountRetry(t) PROVE Goal
    <3>1. CASE Event(t) # e \/ retry[e] + 1 > MaxRetries
      <4>1. Quiet
        BY <2>7, <3>1, BusyTask DEF CountRetry, IncrRetry, AfterCount, Granted
      <4>2. QED BY <2>2, <4>1
    <3>2. CASE Event(t) = e /\ retry[e] + 1 <= MaxRetries
      <4>1. /\ Granted(e)' = Granted(e) \cup {t}
            /\ t \notin Granted(e)
            /\ requeued'[e] = requeued[e]
            /\ retry'[e] = retry[e] + 1
        BY <2>7, <3>2, BusyTask DEF CountRetry, IncrRetry, AfterCount, Granted
      <4>2. Cardinality(Granted(e)') = Cardinality(Granted(e)) + 1
        <5>1. Cardinality(Granted(e) \cup {t}) = Cardinality(Granted(e)) + 1
          BY <4>1, GrantedFinite, FS_AddElement
        <5>2. QED BY <4>1, <5>1
      <4>3. QED BY <2>1, <3>2, <4>1, <4>2, GrantedFinite DEF BudgetInv
    <3>3. QED BY <3>1, <3>2
  <2>8. ASSUME NEW t \in Tasks, SetRetryTtl(t) PROVE Goal
    BY <2>2, <2>8 DEF SetRetryTtl, ExpireRetryKey, AfterCount, Granted
  <2>9. ASSUME NEW t \in Tasks, Requeue(t) PROVE Goal
    <3>1. CASE Event(t) # e \/ ~live[t]
      <4>1. Quiet
        BY <2>9, <3>1, BusyTask DEF Requeue, Granted
      <4>2. QED BY <2>2, <4>1
    <3>2. CASE Event(t) = e /\ live[t]
      <4>1. /\ Granted(e)' = Granted(e) \ {t}
            /\ t \in Granted(e)
            /\ requeued'[e] = requeued[e] + 1
            /\ retry'[e] = retry[e]
        BY <2>9, <3>2, BusyTask DEF Requeue, Granted
      <4>2. Cardinality(Granted(e)') = Cardinality(Granted(e)) - 1
        <5>1. t \in Granted(e) /\ IsFiniteSet(Granted(e))
          BY <4>1, GrantedFinite
        <5>2. Cardinality(Granted(e) \ {t}) = Cardinality(Granted(e)) - 1
          <6> HIDE DEF Event, TypeOK, Counted
          <6>1. QED BY <5>1, FS_RemoveElement, Zenon
        <5>3. QED BY <4>1, <5>2
      <4>3. QED BY <2>1, <4>1, <4>2, GrantedFinite DEF BudgetInv
    <3>3. QED BY <3>1, <3>2
  <2>10. ASSUME NEW t \in Tasks, RedisFault(t) PROVE Goal
    <3>1. Granted(e)' \subseteq Granted(e) /\ requeued'[e] = requeued[e]
      BY <2>10 DEF RedisFault, Granted
    <3>2. retry'[e] >= retry[e]
      <4>1. pc[t] = "clear" => Event(t) \in published
        BY DEF ResultInv
      <4>2. QED
        BY <2>1, <2>10, <4>1, BusyTask
           DEF RedisFault, SetCompleted, DeleteRetry, IncrRetry, ExpireRetryKey
    <3>3. QED BY <2>2, <3>1, <3>2
  <2>11. ASSUME NEW f \in Events, CompletedExpires(f) \/ RetryExpires(f) PROVE Goal
    BY <2>1, <2>11 DEF CompletedExpires, RetryExpires
  <2>12. ASSUME ChannelLoss \/ AckTimeout PROVE Goal
    BY <2>2, <2>12 DEF ChannelLoss, AckTimeout, DropChannel, Granted
  <2>13. ASSUME Restart PROVE Goal
    BY <2>2, <2>13 DEF Restart, Granted
  <2>14. ASSUME UNCHANGED vars PROVE Goal
    BY <2>2, <2>14 DEF vars, Granted
  <2>15. QED
    BY <2>3, <2>4, <2>5, <2>6, <2>7, <2>8, <2>9, <2>10, <2>11, <2>12, <2>13, <2>14
       DEF Next, Handle
<1>3. TypeOK /\ BudgetInv => RetryBudget
  BY GrantedFinite DEF BudgetInv, Counted, RetryBudget, TypeOK
<1>4. QED BY <1>1, <1>2, <1>3, TypeCorrect, ResultInvariant, PTL DEF Spec
-----------------------------------------------------------------------------
(***************************************************************************)
(* The retry keys.  A key gets its expiry in a second command, sent by the *)
(* task that created it; a key that others delete or count up in between   *)
(* does not need that task any more, or still has it.                      *)
(***************************************************************************)
\* Nothing happens to a retry key, nor to a task that is to set an expiry.
KeysQuiet == /\ UNCHANGED <<retry, retryTtl>>
             /\ \A t \in Tasks : pc[t] = "expire" => pc'[t] = "expire" /\ job'[t] = job[t]

LEMMA QuietSteps ==
    ASSUME TypeOK, [Next]_vars
    PROVE  \/ KeysQuiet
           \/ \E t \in Tasks : ClearRetry(t) \/ CountRetry(t) \/ SetRetryTtl(t) \/ RedisFault(t)
           \/ \E e \in Events : RetryExpires(e)
           \/ Restart
<1> USE DEF KeysQuiet, TypeOK, broker, redis, handler, outcome, Goto, Finish
<1>1. ASSUME NEW m \in Messages, Enqueue(m) PROVE KeysQuiet
  BY <1>1 DEF Enqueue
<1>2. ASSUME NEW m \in Messages, NEW t \in Tasks, Deliver(m, t) PROVE KeysQuiet
  BY <1>2 DEF Deliver
<1>3. ASSUME NEW t \in Tasks, CheckCompleted(t) \/ Generate(t) \/ Publish(t) PROVE KeysQuiet
  BY <1>3 DEF CheckCompleted, Generate, Publish
<1>4. ASSUME NEW t \in Tasks, MarkCompleted(t) \/ Backoff(t) PROVE KeysQuiet
  BY <1>4 DEF MarkCompleted, SetCompleted, Backoff
<1>5. ASSUME NEW t \in Tasks, Ack(t) \/ Requeue(t) \/ DeadLetter(t) PROVE KeysQuiet
  BY <1>5 DEF Ack, Requeue, DeadLetter
<1>6. ASSUME NEW e \in Events, CompletedExpires(e) PROVE KeysQuiet
  BY <1>6 DEF CompletedExpires
<1>7. ASSUME ChannelLoss \/ AckTimeout PROVE KeysQuiet
  BY <1>7 DEF ChannelLoss, AckTimeout, DropChannel
<1>8. ASSUME UNCHANGED vars PROVE KeysQuiet
  BY <1>8 DEF vars
<1>9. QED BY <1>1, <1>2, <1>3, <1>4, <1>5, <1>6, <1>7, <1>8 DEF Next, Handle

\* Only the steps that spend a fault can leave a retry key without anybody to expire it.
THEOREM RetryKeysExpire == Spec => RetryKeyExpires
<1>1. TypeOK /\ [Next]_vars =>
          [\A e \in Events : Leaked(e)' /\ ~ Leaked(e) =>
               /\ faults' # faults
               /\ \E t \in Tasks : pc[t] \in {"count", "expire"} /\ Event(t) = e]_vars
  <2> SUFFICES ASSUME TypeOK, [Next]_vars, NEW e \in Events, Leaked(e)', ~ Leaked(e)
               PROVE  /\ faults' # faults
                      /\ \E t \in Tasks : pc[t] \in {"count", "expire"} /\ Event(t) = e
    OBVIOUS
  <2> DEFINE AtExpire(t) == pc[t] = "expire" /\ Event(t) = e
  <2>1. /\ retry'[e] > 0 /\ e \notin retryTtl' /\ \A t \in Tasks : ~ AtExpire(t)'
        /\ retry[e] > 0 => e \in retryTtl \/ \E t \in Tasks : AtExpire(t)
    BY DEF Leaked
  <2>2. retry[e] \in Nat
    BY DEF TypeOK
  <2>3. CASE KeysQuiet
    BY <2>1, <2>3 DEF KeysQuiet, Event
  <2>4. ASSUME NEW t \in Tasks, ClearRetry(t) PROVE FALSE
    BY <2>1, <2>4, BusyTask DEF ClearRetry, DeleteRetry, Goto, Event, TypeOK
  <2>5. ASSUME NEW t \in Tasks, CountRetry(t) PROVE FALSE
    <3>1. /\ pc[t] = "count" /\ retryTtl' = retryTtl /\ job' = job
          /\ retry' = [retry EXCEPT ![Event(t)] = @ + 1]
          /\ retry[Event(t)] + 1 = 1 => pc'[t] = "expire"
          /\ \A u \in Tasks : u # t => pc'[u] = pc[u]
      BY <2>5 DEF CountRetry, IncrRetry, Goto, TypeOK
    <3>2. CASE Event(t) = e /\ retry[e] = 0
      BY <2>1, <3>1, <3>2 DEF Event
    <3>3. CASE retry[e] > 0
      BY <2>1, <3>1, <3>3 DEF Event
    <3>4. Event(t) # e => retry'[e] = retry[e]
      BY <3>1 DEF TypeOK
    <3>5. QED BY <2>1, <2>2, <3>2, <3>3, <3>4
  <2>6. ASSUME NEW t \in Tasks, SetRetryTtl(t) PROVE FALSE
    <3>1. /\ retry' = retry /\ job' = job
          /\ retryTtl' = IF retry[Event(t)] > 0 THEN retryTtl \cup {Event(t)} ELSE retryTtl
          /\ \A u \in Tasks : u # t => pc'[u] = pc[u]
      BY <2>6 DEF SetRetryTtl, ExpireRetryKey, Goto, TypeOK
    <3>2. QED BY <2>1, <3>1 DEF Event
  <2>7. ASSUME NEW t \in Tasks, RedisFault(t)
        PROVE  faults' # faults /\ pc[t] \in {"count", "expire"} /\ Event(t) = e
    <3>1. Event(t) \in Events /\ pc[t] \in RedisSteps
      BY <2>7, BusyTask DEF RedisFault, RedisSteps
    <3>2. /\ faults' # faults
          /\ \A u \in Tasks : u # t => pc'[u] = pc[u] /\ job'[u] = job[u]
      BY <2>7 DEF RedisFault, Spend, Finish, TypeOK
    <3>3. /\ e # Event(t) \/ pc[t] \notin {"clear", "count"} => retry'[e] = retry[e]
          /\ e # Event(t) \/ pc[t] # "clear" => (e \in retryTtl => e \in retryTtl')
          /\ pc[t] = "clear" => retry'[e] = 0 \/ (retry'[e] = retry[e] /\ retryTtl' = retryTtl)
                                \/ e # Event(t)
      BY <2>7, <3>1 DEF RedisFault, SetCompleted, DeleteRetry, IncrRetry, ExpireRetryKey, redis,
                        TypeOK
    <3>4. CASE e = Event(t) /\ pc[t] \in {"count", "expire"}
      BY <3>2, <3>4
    <3>5. CASE ~ (e = Event(t) /\ pc[t] \in {"count", "expire"})
      <4>1. \A u \in Tasks : AtExpire(u) => AtExpire(u)'
        BY <3>2, <3>5 DEF Event
      <4>2. retry[e] > 0 => e \in retryTtl
        BY <2>1, <4>1
      <4>3. FALSE
        BY <2>1, <2>2, <3>3, <3>5, <4>2
      <4>4. QED BY <4>3
    <3>6. QED BY <3>4, <3>5
  <2>8. ASSUME NEW f \in Events, RetryExpires(f) PROVE FALSE
    BY <2>1, <2>8 DEF RetryExpires, DeleteRetry, handler, Event, TypeOK
  <2>9. ASSUME Restart
        PROVE  faults' # faults /\ \E t \in Tasks : AtExpire(t)
    BY <2>1, <2>9 DEF Restart, Spend, redis, TypeOK
  <2>10. QED BY <2>3, <2>4, <2>5, <2>6, <2>7, <2>8, <2>9, QuietSteps
<1>2. QED BY <1>1, TypeCorrect, PTL DEF Spec, RetryKeyExpires
-----------------------------------------------------------------------------
(***************************************************************************)
(* No rework.  A handler acknowledges only after it has seen, or set, the  *)
(* completed key itself; so the broker never forgets a request of an event *)
(* that the check would still take for new.                                *)
(***************************************************************************)
MarkedInv ==
    faults["expiry"] = 0 =>
        /\ \A t \in Tasks : pc[t] \in {"clear", "ack"} => Event(t) \in completed
        /\ \A m \in Messages : loc[m] = "acked" => EventOf[m] \in completed

\* Faults are counted and never uncounted.
LEMMA FaultsCount ==
    ASSUME TypeOK, [Next]_vars, NEW kind \in FaultKinds, faults'[kind] = 0
    PROVE  faults[kind] = 0
<1> USE DEF TypeOK, broker, redis, handler, outcome
<1>1. faults' = faults \/ \E k \in FaultKinds : Spend(k)
  BY DEF Next, Handle, Enqueue, Deliver, CheckCompleted, Generate, Publish, MarkCompleted,
         ClearRetry, Ack, CountRetry, SetRetryTtl, Backoff, Requeue, DeadLetter, RedisFault,
         CompletedExpires, RetryExpires, ChannelLoss, AckTimeout, Restart, vars
<1>2. QED BY <1>1 DEF Spend

LEMMA MarkedInvariant == Spec => []MarkedInv
<1>1. Init => MarkedInv
  BY DEF Init, MarkedInv
<1>2. TypeOK /\ MarkedInv /\ [Next]_vars => MarkedInv'
  <2> DEFINE Marked == /\ \A t \in Tasks : pc[t] \in {"clear", "ack"} => Event(t) \in completed
                       /\ \A m \in Messages : loc[m] = "acked" => EventOf[m] \in completed
  <2> SUFFICES ASSUME TypeOK, MarkedInv, [Next]_vars, faults'["expiry"] = 0
               PROVE  Marked'
    BY DEF MarkedInv
  <2>0. Marked /\ faults["expiry"] = 0
    BY FaultsCount DEF MarkedInv
  <2> USE DEF TypeOK, Event, broker, redis, handler, outcome, Goto, Finish
  <2>1. ASSUME NEW m \in Messages, Enqueue(m) PROVE Marked'
    BY <2>0, <2>1 DEF Enqueue
  <2>2. ASSUME NEW m \in Messages, NEW t \in Tasks, Deliver(m, t) PROVE Marked'
    BY <2>0, <2>2 DEF Deliver
  <2>3. ASSUME NEW t \in Tasks, CheckCompleted(t) \/ Generate(t) \/ Publish(t) \/ Backoff(t)
        PROVE  Marked'
    BY <2>0, <2>3 DEF CheckCompleted, Generate, Publish, Backoff
  <2>4. ASSUME NEW t \in Tasks, MarkCompleted(t) \/ ClearRetry(t) PROVE Marked'
    BY <2>0, <2>4 DEF MarkCompleted, ClearRetry, SetCompleted, DeleteRetry
  <2>5. ASSUME NEW t \in Tasks, CountRetry(t) \/ SetRetryTtl(t) PROVE Marked'
    BY <2>0, <2>5 DEF CountRetry, SetRetryTtl, IncrRetry, ExpireRetryKey, AfterCount
  <2>6. ASSUME NEW t \in Tasks, Ack(t) \/ Requeue(t) \/ DeadLetter(t) PROVE Marked'
    <3>1. job[t] \in Messages
      BY <2>6, BusyTask DEF Ack, Requeue, DeadLetter
    <3>2. QED BY <2>0, <2>6, <3>1 DEF Ack, Requeue, DeadLetter
  <2>7. ASSUME NEW t \in Tasks, RedisFault(t) PROVE Marked'
    <3>1. completed \subseteq completed' /\ loc' = loc
          /\ \A u \in Tasks : pc'[u] = "idle" \/ (pc'[u] = pc[u] /\ job'[u] = job[u])
      BY <2>7 DEF RedisFault, SetCompleted, DeleteRetry, IncrRetry, ExpireRetryKey
    <3>2. QED BY <2>0, <3>1
  <2>8. ASSUME NEW f \in Events, CompletedExpires(f) \/ RetryExpires(f) PROVE FALSE
    BY <2>8 DEF CompletedExpires, RetryExpires, Spend
  <2>9. ASSUME ChannelLoss \/ AckTimeout \/ Restart PROVE Marked'
    BY <2>0, <2>9 DEF ChannelLoss, AckTimeout, DropChannel, Restart
  <2>10. ASSUME UNCHANGED vars PROVE Marked'
    BY <2>0, <2>10 DEF vars
  <2>11. QED
    BY <2>1, <2>2, <2>3, <2>4, <2>5, <2>6, <2>7, <2>8, <2>9, <2>10 DEF Next, Handle
<1>3. QED BY <1>1, <1>2, TypeCorrect, PTL DEF Spec

\* Once a request of an event was acknowledged, no handler that asks Redis from then on makes
\* the LLM run for it again, whatever copies and redeliveries are about, until the key expires.
THEOREM AcknowledgedIsNotReworked == Spec => NoRework
<1>1. TypeOK /\ MarkedInv /\ [Next]_vars =>
          [\A e \in Events, t \in Tasks :
               Acknowledged(e) /\ faults["expiry"] = 0 /\ ~ WorksOn(t, e) => ~ WorksOn(t, e)']_vars
  <2> SUFFICES ASSUME TypeOK, MarkedInv, Next, NEW e \in Events, NEW t \in Tasks,
                      Acknowledged(e), faults["expiry"] = 0,
                      pc'[t] \in {"generate", "publish"}, Event(t)' = e
               PROVE  WorksOn(t, e)
    BY DEF WorksOn, vars
  <2> USE DEF TypeOK, Event, broker, redis, handler, outcome, Goto, Finish
  <2>1. e \in completed
    BY DEF MarkedInv, Acknowledged
  <2>2. pc[t] \in {"generate", "publish"} /\ job'[t] = job[t] => WorksOn(t, e)
    BY DEF WorksOn
  <2>3. ASSUME NEW u \in Tasks, u = t, CheckCompleted(u) \/ Generate(u) PROVE WorksOn(t, e)
    BY <2>1, <2>3 DEF CheckCompleted, Generate, WorksOn
  <2>4. ASSUME NEW m \in Messages, Enqueue(m) PROVE WorksOn(t, e)
    BY <2>2, <2>4 DEF Enqueue
  <2>5. ASSUME NEW m \in Messages, NEW u \in Tasks, Deliver(m, u) PROVE WorksOn(t, e)
    BY <2>2, <2>5 DEF Deliver
  <2>6. ASSUME NEW u \in Tasks, u # t, CheckCompleted(u) \/ Generate(u) PROVE WorksOn(t, e)
    BY <2>2, <2>6 DEF CheckCompleted, Generate
  <2>7. ASSUME NEW u \in Tasks, Publish(u) \/ MarkCompleted(u) \/ ClearRetry(u) \/ Backoff(u)
        PROVE  WorksOn(t, e)
    BY <2>2, <2>7 DEF Publish, MarkCompleted, ClearRetry, Backoff
  <2>8. ASSUME NEW u \in Tasks, CountRetry(u) \/ SetRetryTtl(u) PROVE WorksOn(t, e)
    BY <2>2, <2>8 DEF CountRetry, SetRetryTtl, AfterCount
  <2>9. ASSUME NEW u \in Tasks, Ack(u) \/ Requeue(u) \/ DeadLetter(u) \/ RedisFault(u)
        PROVE  WorksOn(t, e)
    BY <2>2, <2>9 DEF Ack, Requeue, DeadLetter, RedisFault
  <2>10. ASSUME NEW f \in Events, CompletedExpires(f) \/ RetryExpires(f) PROVE WorksOn(t, e)
    BY <2>2, <2>10 DEF CompletedExpires, RetryExpires
  <2>11. ASSUME ChannelLoss \/ AckTimeout \/ Restart PROVE WorksOn(t, e)
    BY <2>2, <2>11 DEF ChannelLoss, AckTimeout, DropChannel, Restart
  <2>12. QED BY <2>3, <2>4, <2>5, <2>6, <2>7, <2>8, <2>9, <2>10, <2>11 DEF Next, Handle
<1>2. QED BY <1>1, TypeCorrect, MarkedInvariant, PTL DEF Spec, NoRework
=============================================================================
