--------------------------- MODULE DocumentIndex ---------------------------
(***************************************************************************)
(* The RabbitMQ consumers of document.index.requested and                  *)
(* document.index.removed, the indexing workflow and the Qdrant store they *)
(* write.  The two consumers have queues, prefetch windows and in-memory   *)
(* trackers of their own and share the store.  Handlers are cut at their   *)
(* awaits; every Qdrant request is one action, because other handlers run  *)
(* between a document's delete and its upsert.                             *)
(***************************************************************************)
EXTENDS Naturals, FiniteSets

CONSTANTS Docs,         \* documents (sourceId)
          Events,       \* eventIds of index and removal requests
          Kind,         \* "index" or "remove", for each event
          DocOf,        \* the document each event is about
          Size,         \* chunks of the text an index event carries
          Messages,     \* request messages; two may carry the same event
          EventOf,      \* the event each message carries
          Malformed,    \* messages whose body is not an event envelope
          Tasks,        \* pool of handler tasks (bounds concurrent handlers)
          Nothing,      \* no message, no event, no point
          MaxRetries,   \* rabbitmq_max_retries
          Prefetch,     \* rabbitmq_prefetch_count, per consumer
          MaxFaults     \* bound on the faults of each kind

FaultKinds == {"channel", "restart", "drop"}
Kinds == {"index", "remove"}

ASSUME ConstantsAssumption ==
    /\ Kind \in [Events -> Kinds]
    /\ DocOf \in [Events -> Docs]
    /\ Size \in [Events -> Nat \ {0}]
    /\ EventOf \in [Messages -> Events]
    /\ Malformed \subseteq Messages
    /\ Nothing \notin Messages \cup Events
    /\ IsFiniteSet(Tasks)
    /\ MaxRetries \in Nat
    /\ Prefetch \in Nat \ {0}
    /\ MaxFaults \in [FaultKinds -> Nat]

VARIABLES
    loc,         \* where the broker holds each message
    pc,          \* the await each task stands before
    job,         \* the message each task handles
    live,        \* the task's channel is still open
    completed,   \* trackers: completed events
    retry,       \* trackers: retry count of each event
    collection,  \* Qdrant: the collection exists
    points,      \* Qdrant: points[d][i] is the event whose text chunk i of d holds
    ensured,     \* the store has seen the collection (_ensured_dimensions)
    applied,     \* events whose effect on Qdrant took place at least once
    why,         \* why a task rejects its message for good
    cause,       \* why a message was dead-lettered
    newest,      \* the last request the backend published about each document
    crossed,     \* documents whose requests got in each other's way
    overlapped,  \* documents that two handlers were replacing at once
    faults       \* faults so far, by kind

broker == <<loc, cause, newest, crossed>>
handler == <<pc, job, live, why>>
tracker == <<completed, retry>>
qdrant == <<collection, points>>
vars == <<loc, cause, newest, crossed, pc, job, live, why, completed, retry,
          collection, points, ensured, applied, overlapped, faults>>

Locations == {"absent", "queued", "unacked", "acked", "dlq"}
IndexSteps == {"prepare", "find", "create", "payload", "delete", "upsert"}
Steps == {"idle", "remove", "ack", "requeue", "deadletter"} \cup IndexSteps
Causes == {"none", "refused", "outage", "missing", "conflict", "exhausted"}

Chunks(e) == 1..Size[e]
Positions == UNION {Chunks(e) : e \in Events}
Empty == [i \in Positions |-> Nothing]
WellFormed == Messages \ Malformed

TypeOK ==
    /\ loc \in [Messages -> Locations]
    /\ pc \in [Tasks -> Steps]
    /\ job \in [Tasks -> Messages \cup {Nothing}]
    /\ live \in [Tasks -> BOOLEAN]
    /\ completed \in SUBSET Events
    /\ retry \in [Events -> Nat]
    /\ collection \in BOOLEAN
    /\ points \in [Docs -> [Positions -> Events \cup {Nothing}]]
    /\ ensured \in BOOLEAN
    /\ applied \in SUBSET Events
    /\ why \in [Tasks -> Causes]
    /\ cause \in [Messages -> Causes]
    /\ newest \in [Docs -> Messages \cup {Nothing}]
    /\ crossed \in SUBSET Docs /\ overlapped \in SUBSET Docs
    /\ faults \in [FaultKinds -> Nat]
    /\ \A t \in Tasks : (pc[t] = "idle") <=> (job[t] = Nothing)

Init ==
    /\ loc = [m \in Messages |-> "absent"]
    /\ pc = [t \in Tasks |-> "idle"]
    /\ job = [t \in Tasks |-> Nothing]
    /\ live = [t \in Tasks |-> FALSE]
    /\ completed = {}
    /\ retry = [e \in Events |-> 0]
    /\ collection = FALSE
    /\ points = [d \in Docs |-> Empty]
    /\ ensured = FALSE
    /\ applied = {}
    /\ why = [t \in Tasks |-> "none"]
    /\ cause = [m \in Messages |-> "none"]
    /\ newest = [d \in Docs |-> Nothing]
    /\ crossed = {} /\ overlapped = {}
    /\ faults = [k \in FaultKinds |-> 0]

Event(t) == EventOf[job[t]]
Doc(t) == DocOf[Event(t)]
Unacked(kind) == {m \in Messages : loc[m] = "unacked" /\ Kind[EventOf[m]] = kind}
Goto(t, step) == pc' = [pc EXCEPT ![t] = step] /\ UNCHANGED <<job, live, why>>
Finish(t) == /\ pc' = [pc EXCEPT ![t] = "idle"]
             /\ job' = [job EXCEPT ![t] = Nothing]
             /\ live' = [live EXCEPT ![t] = FALSE]
             /\ why' = [why EXCEPT ![t] = "none"]
Spend(kind) == /\ faults[kind] < MaxFaults[kind]
               /\ faults' = [faults EXCEPT ![kind] = @ + 1]
-----------------------------------------------------------------------------
(* Broker and backend *)

About(doc) == {m \in WellFormed : DocOf[EventOf[m]] = doc}
Pending(m) == loc[m] \in {"queued", "unacked"}

\* The request is a copy of one that has been followed by another.
IsOutdated(m) ==
    LET last == newest[DocOf[EventOf[m]]]
    IN /\ \E n \in WellFormed : EventOf[n] = EventOf[m] /\ loc[n] # "absent"
       /\ last # Nothing => EventOf[last] # EventOf[m]

\* The backend publishes a request, or another copy of one it published before.  It is told
\* of no verdict, so it does not wait for one.
Enqueue(m) ==
    LET doc == DocOf[EventOf[m]] IN
    /\ loc[m] = "absent"
    /\ loc' = [loc EXCEPT ![m] = "queued"]
    /\ newest' = IF m \in Malformed THEN newest ELSE [newest EXCEPT ![doc] = m]
    /\ crossed' = IF m \notin Malformed /\ IsOutdated(m) THEN crossed \cup {doc} ELSE crossed
    /\ UNCHANGED <<cause, handler, tracker, qdrant, ensured, applied, overlapped, faults>>

AtWork(doc) == \E t \in Tasks : pc[t] \in IndexSteps \cup {"remove"} /\ Doc(t) = doc

\* The request is the document's newest, or a copy of it, and an older one is still pending.
Overtakes(m) ==
    LET last == newest[DocOf[EventOf[m]]]
    IN /\ last # Nothing => EventOf[last] = EventOf[m]
       /\ \E n \in About(DocOf[EventOf[m]]) \ {m, last} : Pending(n)

FirstStep(m) == CASE m \in Malformed -> "deadletter"
                  [] m \notin Malformed /\ EventOf[m] \in completed -> "ack"
                  [] OTHER -> IF Kind[EventOf[m]] = "index" THEN "prepare" ELSE "remove"

\* A delivery starts a task, which runs to its first await: it parses the envelope and
\* asks the in-memory tracker.
Deliver(m, t) ==
    /\ loc[m] = "queued"
    /\ pc[t] = "idle"
    /\ Cardinality(Unacked(Kind[EventOf[m]])) < Prefetch
    /\ loc' = [loc EXCEPT ![m] = "unacked"]
    /\ pc' = [pc EXCEPT ![t] = FirstStep(m)]
    /\ why' = [why EXCEPT ![t] = IF m \in Malformed THEN "refused" ELSE "none"]
    /\ job' = [job EXCEPT ![t] = m]
    /\ live' = [live EXCEPT ![t] = TRUE]
    /\ LET doc == DocOf[EventOf[m]]
       IN crossed' = IF m \notin Malformed /\ (AtWork(doc) \/ Overtakes(m))
                     THEN crossed \cup {doc} ELSE crossed
    /\ UNCHANGED <<cause, newest, tracker, qdrant, ensured, applied, overlapped, faults>>

TakenBack == [m \in Messages |-> IF loc[m] = "unacked" THEN "queued" ELSE loc[m]]

\* The channel closes: the broker takes back what was not settled, the tasks go on.
ChannelLoss ==
    /\ Spend("channel")
    /\ loc' = TakenBack
    /\ live' = [t \in Tasks |-> FALSE]
    /\ UNCHANGED <<cause, newest, crossed, pc, job, why, tracker, qdrant, ensured, applied,
                   overlapped>>

\* The process restarts: tasks, trackers and _ensured_dimensions are gone.
Restart ==
    /\ Spend("restart")
    /\ loc' = TakenBack
    /\ pc' = [t \in Tasks |-> "idle"]
    /\ job' = [t \in Tasks |-> Nothing]
    /\ live' = [t \in Tasks |-> FALSE]
    /\ why' = [t \in Tasks |-> "none"]
    /\ completed' = {}
    /\ retry' = [e \in Events |-> 0]
    /\ ensured' = FALSE
    /\ UNCHANGED <<cause, newest, crossed, qdrant, applied, overlapped>>

\* An operator drops the collection (to change the embedding model, say).
DropCollection ==
    /\ collection
    /\ Spend("drop")
    /\ collection' = FALSE
    /\ points' = [d \in Docs |-> Empty]
    /\ UNCHANGED <<broker, handler, tracker, ensured, applied, overlapped>>
-----------------------------------------------------------------------------
(* The end of a handler *)

\* mark_completed runs in the same step as the last Qdrant answer, before the ack.
MarkCompleted(t) == /\ completed' = completed \cup {Event(t)}
                    /\ retry' = [retry EXCEPT ![Event(t)] = 0]
                    /\ Goto(t, "ack")

\* A failure that is not retried.
Reject(t, reason) == /\ pc' = [pc EXCEPT ![t] = "deadletter"]
                     /\ why' = [why EXCEPT ![t] = reason]
                     /\ UNCHANGED <<job, live, tracker>>

\* Mutant: a failure is retried without being counted.
RetryUncounted(t) == Goto(t, "requeue") /\ UNCHANGED tracker

\* Mutant: one retry too few.
RetryEarly(t) ==
    LET n == retry[Event(t)] + 1 IN
    /\ retry' = [retry EXCEPT ![Event(t)] = n]
    /\ pc' = [pc EXCEPT ![t] = IF n < MaxRetries THEN "requeue" ELSE "deadletter"]
    /\ why' = [why EXCEPT ![t] = IF n < MaxRetries THEN "none" ELSE "exhausted"]
    /\ UNCHANGED <<job, live, completed>>

\* A failure that is counted and retried up to max_retries.
Retry(t) ==
    LET n == retry[Event(t)] + 1 IN
    /\ retry' = [retry EXCEPT ![Event(t)] = n]
    /\ pc' = [pc EXCEPT ![t] = IF n <= MaxRetries THEN "requeue" ELSE "deadletter"]
    /\ why' = [why EXCEPT ![t] = IF n <= MaxRetries THEN "none" ELSE "exhausted"]
    /\ UNCHANGED <<job, live, completed>>

\* Mutant: a verdict counts although the broker has taken the message back.
SettleAnyway(t, step, there) ==
    /\ pc[t] = step
    /\ loc' = [loc EXCEPT ![job[t]] = there]
    /\ Finish(t)
    /\ UNCHANGED <<newest, crossed, tracker, qdrant, ensured, applied, overlapped, faults>>

Settle(t, step, there) ==
    /\ pc[t] = step
    /\ loc' = IF live[t] THEN [loc EXCEPT ![job[t]] = there] ELSE loc
    /\ Finish(t)
    /\ UNCHANGED <<newest, crossed, tracker, qdrant, ensured, applied, overlapped, faults>>

Ack(t) == Settle(t, "ack", "acked") /\ UNCHANGED cause
Requeue(t) == Settle(t, "requeue", "queued") /\ UNCHANGED cause
DeadLetter(t) == /\ Settle(t, "deadletter", "dlq")
                 /\ cause' = IF live[t] THEN [cause EXCEPT ![job[t]] = why[t]] ELSE cause
-----------------------------------------------------------------------------
(* DocumentIndexEventProcessor.process: DocumentIndexingWorkflow.execute *)

\* Download, extraction, chunking and embedding: they touch no shared state.  The answer
\* of the embedding runs into replace_document's check of _ensured_dimensions.
Prepare(t) ==
    /\ pc[t] = "prepare"
    /\ \/ Goto(t, IF ensured THEN "delete" ELSE "find") /\ UNCHANGED tracker
       \/ Retry(t)
       \/ Reject(t, "refused")
    /\ UNCHANGED <<broker, qdrant, ensured, applied, overlapped, faults>>

\* How a Qdrant request fails: outage (transport error, 5xx), or a 4xx refusal.
QdrantFails(t) == Retry(t) \/ Reject(t, "refused")

\* _ensure_collection: GET the collection,
FindCollection(t) ==
    /\ pc[t] = "find"
    /\ \/ Goto(t, IF collection THEN "payload" ELSE "create") /\ UNCHANGED tracker
       \/ QdrantFails(t)
    /\ UNCHANGED <<broker, qdrant, ensured, applied, overlapped, faults>>

\* PUT it if it was missing (a 4xx when somebody else created it meanwhile),
CreateCollection(t) ==
    /\ pc[t] = "create"
    /\ \/ ~collection /\ collection' = TRUE /\ Goto(t, "payload") /\ UNCHANGED tracker
       \/ collection /\ UNCHANGED collection /\ Reject(t, "conflict")
       \/ collection' \in {collection, TRUE} /\ Retry(t)
       \/ UNCHANGED collection /\ Reject(t, "refused")
    /\ UNCHANGED <<broker, points, ensured, applied, overlapped, faults>>

\* and PUT the payload indexes (a 404 among their answers is ignored).
EnsurePayloadIndexes(t) ==
    /\ pc[t] = "payload"
    /\ \/ ensured' = TRUE /\ Goto(t, "delete") /\ UNCHANGED tracker
       \/ UNCHANGED ensured /\ QdrantFails(t)
    /\ UNCHANGED <<broker, qdrant, applied, overlapped, faults>>

Cleared(d) == [points EXCEPT ![d] = Empty]
\* Mutant: the delete comes last and takes the new points too.
DeletedLast(e) == Cleared(DocOf[e])

Written(e) == [points EXCEPT ![DocOf[e]] =
                  [i \in Positions |-> IF i \in Chunks(e) THEN e ELSE @[i]]]

\* Mutant: the upsert is trusted to overwrite the earlier text.
SkipDelete(t) ==
    /\ pc[t] = "delete"
    /\ Goto(t, "upsert")
    /\ UNCHANGED <<broker, tracker, qdrant, ensured, applied, overlapped, faults>>

\* The other handlers that are between delete and upsert of the same document.
Replacing(t) == {u \in Tasks \ {t} : pc[u] = "upsert" /\ Doc(u) = Doc(t)}

\* _delete_document_points for replace_document; an outage may hide its effect.
DeletePoints(t) ==
    /\ pc[t] = "delete"
    /\ \/ /\ collection /\ points' = Cleared(Doc(t)) /\ Goto(t, "upsert") /\ UNCHANGED tracker
          /\ overlapped' = IF Replacing(t) = {} THEN overlapped ELSE overlapped \cup {Doc(t)}
       \/ /\ UNCHANGED overlapped
          /\ \/ collection /\ points' = Cleared(Doc(t)) /\ Retry(t)
             \/ UNCHANGED points /\ QdrantFails(t)
    /\ UNCHANGED <<broker, collection, ensured, applied, faults>>

\* Mutant: the collection is taken for granted, a 404 of the upsert passes for success.
UpsertUnchecked(t) ==
    /\ pc[t] = "upsert"
    /\ points' = IF collection THEN Written(Event(t)) ELSE points
    /\ applied' = IF collection THEN applied \cup {Event(t)} ELSE applied
    /\ MarkCompleted(t)
    /\ UNCHANGED <<broker, collection, ensured, overlapped, faults>>

\* _upsert_points: point ids depend on document and chunk index only, so a chunk of an
\* earlier text is overwritten where the new text has one and stays where it has not.
UpsertPoints(t) ==
    /\ pc[t] = "upsert"
    /\ \/ /\ collection
          /\ points' = Written(Event(t))
          /\ applied' = applied \cup {Event(t)}
          /\ MarkCompleted(t) \/ Retry(t)
       \/ UNCHANGED <<points, applied>> /\ QdrantFails(t)
    /\ UNCHANGED <<broker, collection, ensured, overlapped, faults>>
-----------------------------------------------------------------------------
(* DocumentIndexRemovedEventProcessor.process *)

\* Mutant: the filter of the delete matches no point of the document.
RemoveNothing(t) ==
    /\ pc[t] = "remove"
    /\ applied' = applied \cup {Event(t)}
    /\ MarkCompleted(t)
    /\ UNCHANGED <<broker, qdrant, ensured, overlapped, faults>>

\* remove_document deletes the points; there is no _ensure_collection on this path.
\* Every AiError is dead-lettered, a retryable one too; only an exception that is not
\* an AiError is retried.
RemoveDocument(t) ==
    /\ pc[t] = "remove"
    /\ \/ /\ collection
          /\ points' = Cleared(Doc(t))
          /\ applied' = applied \cup {Event(t)}
          /\ MarkCompleted(t) \/ Reject(t, "outage")
       \/ /\ UNCHANGED <<points, applied>>
          /\ \/ ~collection /\ Reject(t, "missing")
             \/ Reject(t, "outage")
             \/ Reject(t, "refused")
             \/ Retry(t)
    /\ UNCHANGED <<broker, collection, ensured, overlapped, faults>>
-----------------------------------------------------------------------------
Handle(t) ==
    \/ Prepare(t) \/ FindCollection(t) \/ CreateCollection(t) \/ EnsurePayloadIndexes(t)
    \/ DeletePoints(t) \/ UpsertPoints(t) \/ RemoveDocument(t)
    \/ Ack(t) \/ Requeue(t) \/ DeadLetter(t)

Next ==
    \/ \E m \in Messages : Enqueue(m) \/ \E t \in Tasks : Deliver(m, t)
    \/ \E t \in Tasks : Handle(t)
    \/ ChannelLoss \/ Restart \/ DropCollection

Spec == Init /\ [][Next]_vars

\* The event loop runs every ready task, every request returns (10 s client timeout),
\* and a queued message is delivered when a slot is free.
Fairness ==
    /\ \A t \in Tasks : WF_vars(Handle(t))
    /\ \A m \in Messages : WF_vars(\E t \in Tasks : Deliver(m, t))

FairSpec == Spec /\ Fairness
-----------------------------------------------------------------------------
(* Properties *)

\* An index request is acknowledged only after a complete upsert of its chunks, a removal
\* only after a complete delete: not before, and not on the word of a handler that failed
\* (rabbit.py:181-204, 272-286).
AckedWasApplied == \A m \in Messages : loc[m] = "acked" => EventOf[m] \in applied

\* No index request is given up on a failure worth retrying before the deliveries and copies
\* of its event have used up its retries together, unless one of them succeeded or a restart
\* forgot them (rabbit.py:217-222); only a removal is dead-lettered on its first outage.
DeadLetterJustified == \A m \in Messages :
    LET e == EventOf[m] IN
    /\ cause[m] = "outage" => Kind[e] = "remove"
    /\ cause[m] = "exhausted" =>
          retry[e] > MaxRetries \/ e \in completed \/ faults["restart"] > 0

\* Every unacknowledged message has exactly one task that can still settle it: the index
\* consumers let no exception escape, so no prefetch slot leaks.
OneHandler ==
    /\ \A t \in Tasks : live[t] => job[t] # Nothing /\ loc[job[t]] = "unacked"
    /\ \A t, u \in Tasks : live[t] /\ live[u] /\ job[t] = job[u] => t = u
    /\ \A m \in Messages : loc[m] = "unacked" => \E t \in Tasks : live[t] /\ job[t] = m

FullText(e) == [i \in Positions |-> IF i \in Chunks(e) THEN e ELSE Nothing]
Content(e) == IF Kind[e] = "index" THEN FullText(e) ELSE Empty

\* Chunks of an earlier text never stay beside those of a later one (qdrant_vector_store.py:37-38),
\* whatever copies, removals and handlers with a lost channel there are, unless two handlers
\* have been between the delete and the upsert of the document at the same time.
NoLeftovers == \A d \in Docs \ overlapped :
    points[d] = Empty \/ \E e \in Events : DocOf[e] = d /\ points[d] = FullText(e)

\* A document of which the last request is acknowledged holds just what that request asked for:
\* an approved text is not lost (rabbit.py:202), a removed one is gone, through outages, restarts
\* and lost channels.  Excepted are documents whose requests crossed: the newest was delivered
\* while an older one was pending, or any while a handler was at work on the document, or a copy
\* of an outdated one was sent; and a collection that was dropped leaves nothing.
AckedIsCurrent == \A d \in Docs \ crossed :
    LET m == newest[d] IN
    m # Nothing => (loc[m] = "acked" => \/ points[d] = Content(EventOf[m])
                                        \/ faults["drop"] > 0 /\ points[d] = Empty)

Working(d) == \E t \in Tasks : pc[t] # "idle" /\ Doc(t) = d

\* Once the last request about a document is acknowledged and no handler works on the
\* document, the store holds just what that request asked for.
LastRequestHolds(kind) == \A d \in Docs :
    LET m == newest[d] IN
    m # Nothing /\ ~Working(d) => (loc[m] = "acked" /\ Kind[EventOf[m]] = kind
                                   => points[d] = Content(EventOf[m]))

\* An acknowledged index request is not lost (rabbit.py:202).
AckedIndexIsStored == LastRequestHolds("index")

\* An acknowledged removal keeps the document out of the search (qdrant_vector_store.py:43).
RemovedStaysRemoved == LastRequestHolds("remove")

\* A message is dead-lettered only once, for good, and acknowledged only with its effect
\* applied: both consumers keep the abstract promise to the backend.
StatusOf(l) == CASE l = "absent" -> "absent"
                 [] l \in {"queued", "unacked"} -> "pending"
                 [] l = "acked" -> "done"
                 [] l = "dlq" -> "failed"
Job == INSTANCE RequestJob WITH status <- [m \in Messages |-> StatusOf(loc[m])],
                                results <- applied
JobPromise == Job!JobSpec

\* Every request is eventually acknowledged or dead-lettered.
EveryRequestSettled ==
    \A m \in Messages : loc[m] # "absent" ~> loc[m] \in {"acked", "dlq"}
=============================================================================
