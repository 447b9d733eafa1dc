-------------------------- MODULE MinutesConsumer --------------------------
(***************************************************************************)
(* The RabbitMQ consumer of minutes requests: MinutesEventProcessor with   *)
(* its Redis-backed idempotency tracker.  Each delivery is handled by its  *)
(* own asyncio task, and the handler is cut at its awaits: one action is   *)
(* the code between two awaits, with the external call that ends it.       *)
(*                                                                         *)
(* A task outlives the channel that delivered its message.  After a        *)
(* reconnection the broker delivers the message again while the old task   *)
(* still runs; `live' tells whether a task's ack or reject still counts.   *)
(***************************************************************************)
EXTENDS Naturals, FiniteSets

CONSTANTS Events,       \* eventIds of the minutes requests
          Messages,     \* request messages; two may carry the same event
          EventOf,      \* the event each message carries
          Malformed,    \* messages whose body is not an event envelope
          Tasks,        \* pool of handler tasks (bounds concurrent handlers)
          NoMessage,    \* the job of an idle task
          MaxRetries,   \* rabbitmq_max_retries
          Prefetch,     \* rabbitmq_prefetch_count
          MaxFaults     \* bound on the faults of each kind

FaultKinds == {"channel", "restart", "redis", "expiry"}

ASSUME ConstantsAssumption ==
    /\ EventOf \in [Messages -> Events]
    /\ Malformed \subseteq Messages
    /\ NoMessage \notin Messages
    /\ IsFiniteSet(Tasks)
    /\ MaxRetries \in Nat
    /\ Prefetch \in Nat \ {0}
    /\ MaxFaults \in [FaultKinds -> Nat]

VARIABLES
    loc,        \* where the broker holds each message
    pc,         \* the await each task stands before
    job,        \* the message each task handles
    live,       \* the task's channel is still open
    completed,  \* Redis: events with a completed key
    retry,      \* Redis: value of each event's retry key (0: no key)
    retryTtl,   \* Redis: retry keys that have an expiry
    published,  \* events whose minutes.generated reached the exchange
    refused,    \* events whose handling failed with a non-retryable error
    requeued,   \* times a message of the event was put back for a retry
    faults      \* faults so far, by kind

broker == <<loc, requeued>>
redis == <<completed, retry, retryTtl>>
handler == <<pc, job, live>>
outcome == <<published, refused>>
vars == <<loc, requeued, pc, job, live, completed, retry, retryTtl,
          published, refused, faults>>

Locations == {"absent", "queued", "unacked", "acked", "dlq"}
RedisSteps == {"check", "mark", "clear", "count", "expire"}
SettleSteps == {"ack", "requeue", "deadletter"}
Steps == {"idle", "generate", "publish", "backoff"} \cup RedisSteps \cup SettleSteps

TypeOK ==
    /\ loc \in [Messages -> Locations]
    /\ pc \in [Tasks -> Steps]
    /\ job \in [Tasks -> Messages \cup {NoMessage}]
    /\ live \in [Tasks -> BOOLEAN]
    /\ completed \in SUBSET Events
    /\ retry \in [Events -> Nat]
    /\ retryTtl \in SUBSET Events
    /\ published \in SUBSET Events
    /\ refused \in SUBSET Events
    /\ requeued \in [Events -> Nat]
    /\ faults \in [FaultKinds -> Nat]
    /\ \A t \in Tasks : (pc[t] = "idle") <=> (job[t] = NoMessage)

Init ==
    /\ loc = [m \in Messages |-> "absent"]
    /\ pc = [t \in Tasks |-> "idle"]
    /\ job = [t \in Tasks |-> NoMessage]
    /\ live = [t \in Tasks |-> FALSE]
    /\ completed = {}
    /\ retry = [e \in Events |-> 0]
    /\ retryTtl = {}
    /\ published = {}
    /\ refused = {}
    /\ requeued = [e \in Events |-> 0]
    /\ faults = [k \in FaultKinds |-> 0]

Unacked == {m \in Messages : loc[m] = "unacked"}
Event(t) == EventOf[job[t]]
Goto(t, step) == pc' = [pc EXCEPT ![t] = step] /\ UNCHANGED <<job, live>>

\* The task ends: the handler returned, or an exception left it.
Finish(t) == /\ pc' = [pc EXCEPT ![t] = "idle"]
             /\ job' = [job EXCEPT ![t] = NoMessage]
             /\ live' = [live EXCEPT ![t] = FALSE]

Spend(kind) == /\ faults[kind] < MaxFaults[kind]
               /\ faults' = [faults EXCEPT ![kind] = @ + 1]
-----------------------------------------------------------------------------
(* Broker and backend *)

\* The backend publishes a request, possibly a copy of an earlier one.
Enqueue(m) ==
    /\ loc[m] = "absent"
    /\ loc' = [loc EXCEPT ![m] = "queued"]
    /\ UNCHANGED <<requeued, handler, redis, outcome, faults>>

\* A delivery starts a task, which parses the envelope before its first await.
Deliver(m, t) ==
    /\ loc[m] = "queued"
    /\ pc[t] = "idle"
    /\ Cardinality(Unacked) < Prefetch
    /\ loc' = [loc EXCEPT ![m] = "unacked"]
    /\ pc' = [pc EXCEPT ![t] = IF m \in Malformed THEN "deadletter" ELSE "check"]
    /\ job' = [job EXCEPT ![t] = m]
    /\ live' = [live EXCEPT ![t] = TRUE]
    /\ UNCHANGED <<requeued, redis, outcome, faults>>

\* The channel closes: the broker takes back what was not settled, the tasks go on.
DropChannel ==
    /\ loc' = [m \in Messages |-> IF loc[m] = "unacked" THEN "queued" ELSE loc[m]]
    /\ live' = [t \in Tasks |-> FALSE]
    /\ UNCHANGED <<requeued, pc, job, redis, outcome>>

ChannelLoss == Spend("channel") /\ DropChannel

\* A message nobody works on any more: its task ended without settling it.
Orphaned(m) == loc[m] = "unacked" /\ ~ \E t \in Tasks : live[t] /\ job[t] = m

\* The broker's delivery acknowledgement timeout closes the channel.
AckTimeout == (\E m \in Messages : Orphaned(m)) /\ DropChannel /\ UNCHANGED faults

Restart ==
    /\ Spend("restart")
    /\ loc' = [m \in Messages |-> IF loc[m] = "unacked" THEN "queued" ELSE loc[m]]
    /\ pc' = [t \in Tasks |-> "idle"]
    /\ job' = [t \in Tasks |-> NoMessage]
    /\ live' = [t \in Tasks |-> FALSE]
    /\ UNCHANGED <<requeued, redis, outcome>>
-----------------------------------------------------------------------------
(* RedisEventTracker: one Redis command each *)

SetCompleted(e) == completed' = completed \cup {e} /\ UNCHANGED <<retry, retryTtl>>

DeleteRetry(e) == /\ retry' = [retry EXCEPT ![e] = 0]
                  /\ retryTtl' = retryTtl \ {e}
                  /\ UNCHANGED completed

IncrRetry(e) == retry' = [retry EXCEPT ![e] = @ + 1] /\ UNCHANGED <<completed, retryTtl>>

\* EXPIRE does nothing when the key is gone by now.
ExpireRetryKey(e) == /\ retryTtl' = IF retry[e] > 0 THEN retryTtl \cup {e} ELSE retryTtl
                     /\ UNCHANGED <<completed, retry>>
-----------------------------------------------------------------------------
(* MinutesEventProcessor.process *)

\* Mutant: an event that is already completed is left without an ack.
SkipCompleted(t) ==
    /\ pc[t] = "check"
    /\ IF Event(t) \in completed THEN Finish(t) ELSE Goto(t, "generate")
    /\ UNCHANGED <<broker, redis, outcome, faults>>

CheckCompleted(t) ==
    /\ pc[t] = "check"
    /\ Goto(t, IF Event(t) \in completed THEN "ack" ELSE "generate")
    /\ UNCHANGED <<broker, redis, outcome, faults>>

\* command_from_event and workflow.execute: a result, a retryable error
\* (AiError.retryable or any other exception), or a permanent one.
Generate(t) ==
    /\ pc[t] = "generate"
    /\ \/ Goto(t, "publish") /\ UNCHANGED refused
       \/ Goto(t, "count") /\ UNCHANGED refused
       \/ Goto(t, "deadletter") /\ refused' = refused \cup {Event(t)}
    /\ UNCHANGED <<broker, redis, published, faults>>

\* With publisher confirms: confirmed; stored but the confirm was lost; not stored.
Publish(t) ==
    /\ pc[t] = "publish"
    /\ \/ Goto(t, "mark") /\ published' = published \cup {Event(t)}
       \/ Goto(t, "count") /\ published' = published \cup {Event(t)}
       \/ Goto(t, "count") /\ UNCHANGED published
    /\ UNCHANGED <<broker, redis, refused, faults>>

\* mark_completed: SET the completed key, then DELETE the retry key.
MarkCompleted(t) == pc[t] = "mark" /\ SetCompleted(Event(t)) /\ Goto(t, "clear")
                    /\ UNCHANGED <<broker, outcome, faults>>

ClearRetry(t) == pc[t] = "clear" /\ DeleteRetry(Event(t)) /\ Goto(t, "ack")
                 /\ UNCHANGED <<broker, outcome, faults>>

Ack(t) ==
    /\ pc[t] = "ack"
    /\ loc' = IF live[t] THEN [loc EXCEPT ![job[t]] = "acked"] ELSE loc
    /\ Finish(t)
    /\ UNCHANGED <<requeued, redis, outcome, faults>>
-----------------------------------------------------------------------------
(* MinutesEventProcessor._handle_failure *)

\* Mutants: the bound is one too low, or one too high.
AfterCountEarly(n) == IF n >= MaxRetries THEN "deadletter" ELSE "backoff"
AfterCountLate(n) == IF n > MaxRetries + 1 THEN "deadletter" ELSE "backoff"

AfterCount(n) == IF n > MaxRetries THEN "deadletter" ELSE "backoff"

\* Mutant: EXPIRE is forgotten.
CountForever(t) ==
    /\ pc[t] = "count"
    /\ IncrRetry(Event(t))
    /\ Goto(t, AfterCount(retry[Event(t)] + 1))
    /\ UNCHANGED <<broker, outcome, faults>>

\* increment_retry: INCR, and EXPIRE when the counter was just created.
CountRetry(t) ==
    LET n == retry[Event(t)] + 1 IN
    /\ pc[t] = "count"
    /\ IncrRetry(Event(t))
    /\ Goto(t, IF n = 1 THEN "expire" ELSE AfterCount(n))
    /\ UNCHANGED <<broker, outcome, faults>>

SetRetryTtl(t) == pc[t] = "expire" /\ ExpireRetryKey(Event(t)) /\ Goto(t, AfterCount(1))
                  /\ UNCHANGED <<broker, outcome, faults>>

\* The length of the sleep is abstracted; the task keeps its prefetch slot.
Backoff(t) ==
    /\ pc[t] = "backoff"
    /\ Goto(t, "requeue")
    /\ UNCHANGED <<broker, redis, outcome, faults>>

\* Mutant: the retry is published anew, whether or not the delivery is still ours.
Republish(t) ==
    /\ pc[t] = "requeue"
    /\ loc' = [loc EXCEPT ![job[t]] = "queued"]
    /\ requeued' = [requeued EXCEPT ![Event(t)] = @ + 1]
    /\ Finish(t)
    /\ UNCHANGED <<redis, outcome, faults>>

Requeue(t) ==
    /\ pc[t] = "requeue"
    /\ IF live[t]
       THEN /\ loc' = [loc EXCEPT ![job[t]] = "queued"]
            /\ requeued' = [requeued EXCEPT ![Event(t)] = @ + 1]
       ELSE UNCHANGED broker
    /\ Finish(t)
    /\ UNCHANGED <<redis, outcome, faults>>

DeadLetter(t) ==
    /\ pc[t] = "deadletter"
    /\ loc' = IF live[t] THEN [loc EXCEPT ![job[t]] = "dlq"] ELSE loc
    /\ Finish(t)
    /\ UNCHANGED <<requeued, redis, outcome, faults>>
-----------------------------------------------------------------------------
(* Faults of Redis, and its expiring keys *)

\* Mutant: a failure to mark the event is passed over, since its minutes are published.
PassOverMark(t) ==
    /\ pc[t] \in RedisSteps
    /\ Spend("redis")
    /\ IF pc[t] = "mark" THEN Goto(t, "ack") ELSE Finish(t)
    /\ UNCHANGED <<broker, redis, outcome>>

\* A Redis call fails, with or without its effect.  None of these calls is inside
\* the handler's try: the exception ends the task and leaves its message unsettled.
RedisFault(t) ==
    /\ pc[t] \in RedisSteps
    /\ Spend("redis")
    /\ \/ UNCHANGED redis
       \/ pc[t] = "mark" /\ SetCompleted(Event(t))
       \/ pc[t] = "clear" /\ DeleteRetry(Event(t))
       \/ pc[t] = "count" /\ IncrRetry(Event(t))
       \/ pc[t] = "expire" /\ ExpireRetryKey(Event(t))
    /\ Finish(t)
    /\ UNCHANGED <<broker, outcome>>

CompletedExpires(e) == e \in completed /\ Spend("expiry")
                       /\ completed' = completed \ {e}
                       /\ UNCHANGED <<broker, handler, retry, retryTtl, outcome>>

RetryExpires(e) == e \in retryTtl /\ Spend("expiry") /\ DeleteRetry(e)
                   /\ UNCHANGED <<broker, handler, outcome>>
-----------------------------------------------------------------------------
Handle(t) ==
    \/ CheckCompleted(t) \/ Generate(t) \/ Publish(t)
    \/ MarkCompleted(t) \/ ClearRetry(t) \/ Ack(t)
    \/ CountRetry(t) \/ SetRetryTtl(t) \/ Backoff(t)
    \/ Requeue(t) \/ DeadLetter(t)

Next ==
    \/ \E m \in Messages : Enqueue(m) \/ \E t \in Tasks : Deliver(m, t)
    \/ \E t \in Tasks : Handle(t) \/ RedisFault(t)
    \/ \E e \in Events : CompletedExpires(e) \/ RetryExpires(e)
    \/ ChannelLoss \/ AckTimeout \/ Restart

Spec == Init /\ [][Next]_vars

\* The event loop runs every ready task, the LLM, Redis and broker calls return,
\* a queued message is delivered when a slot is free, and the broker enforces
\* its acknowledgement timeout.  Requests and faults need not happen.
Fairness ==
    /\ \A t \in Tasks : WF_vars(Handle(t))
    /\ \A m \in Messages : WF_vars(\E t \in Tasks : Deliver(m, t))
    /\ WF_vars(AckTimeout)

FairSpec == Spec /\ Fairness
-----------------------------------------------------------------------------
(* Properties *)

\* An acknowledged request has had its minutes published: the broker forgets a
\* message only then, whatever crashed, was lost or was handled twice (rabbit.py:85-124).
AckedHasResult == \A m \in Messages : loc[m] = "acked" => EventOf[m] \in published

\* A task that can still settle holds an unacknowledged message that no other such
\* task holds, so nothing is settled twice on a channel; and as long as Redis answers,
\* every unacknowledged message has such a task, so no prefetch slot leaks.
OneHandler ==
    /\ \A t \in Tasks : live[t] => job[t] # NoMessage /\ loc[job[t]] = "unacked"
    /\ \A t, u \in Tasks : live[t] /\ live[u] /\ job[t] = job[u] => t = u
    /\ faults["redis"] = 0 => \A m \in Messages : ~Orphaned(m)

\* Why a request may be dead-lettered: it cannot be parsed, its event failed for good,
\* or the failures counted for its event exceed max_retries (unless the counter is gone
\* because a copy succeeded or the key expired).
GivenUp(m) == \/ m \in Malformed
              \/ EventOf[m] \in refused
              \/ retry[EventOf[m]] > MaxRetries
              \/ EventOf[m] \in published
              \/ faults["expiry"] > 0

\* No request is dead-lettered while retries are left (rabbit.py:127-136).
DeadLetterJustified == \A m \in Messages : loc[m] = "dlq" => GivenUp(m)

\* All copies of an event that was never published share one budget of max_retries
\* requeues, across restarts, reconnections and Redis faults.
RetryBudget ==
    \A e \in Events : e \notin published /\ faults["expiry"] = 0 => requeued[e] <= MaxRetries

\* A retry key that will never expire: nobody is about to give it an expiry.
Leaked(e) == /\ retry[e] > 0 /\ e \notin retryTtl
             /\ ~ \E t \in Tasks : pc[t] = "expire" /\ Event(t) = e

\* INCR and EXPIRE are two commands (idempotency.py:39-44), between which other handlers count,
\* delete and expire the same key.  Only a crash or a Redis failure can leave a key behind that
\* never expires, and only of an event whose handler was at one of the two commands.
RetryKeyExpires ==
    [][\A e \in Events : Leaked(e)' /\ ~ Leaked(e) =>
           /\ faults' # faults
           /\ \E t \in Tasks : pc[t] \in {"count", "expire"} /\ Event(t) = e]_vars

Acknowledged(e) == \E m \in Messages : loc[m] = "acked" /\ EventOf[m] = e
WorksOn(t, e) == pc[t] \in {"generate", "publish"} /\ Event(t) = e

\* Copies and redeliveries overlap, so minutes may be generated more than once; but once the
\* broker was told to forget one request of an event, no handler starts to generate it again,
\* not even one that was delivered before, until the completed key expires (rabbit.py:78-80,
\* 124-125).  Handlers that had asked Redis before may finish.
NoRework ==
    [][\A e \in Events, t \in Tasks :
           Acknowledged(e) /\ faults["expiry"] = 0 /\ ~ WorksOn(t, e) => ~ WorksOn(t, e)']_vars

\* The consumer keeps the abstract promise to the backend.
StatusOf(l) == CASE l = "absent" -> "absent"
                 [] l \in {"queued", "unacked"} -> "pending"
                 [] l = "acked" -> "done"
                 [] l = "dlq" -> "failed"
Job == INSTANCE RequestJob WITH status <- [m \in Messages |-> StatusOf(loc[m])],
                                results <- published
JobPromise == Job!JobSpec

\* Every request is eventually acknowledged or dead-lettered, after any number of
\* lost channels, restarts and Redis faults, as long as they stop.
EveryRequestSettled ==
    \A m \in Messages : loc[m] # "absent" ~> loc[m] \in {"acked", "dlq"}
=============================================================================
