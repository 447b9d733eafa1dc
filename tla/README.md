# A verification project for the meetbowl AI server

TLA+ models of the FastAPI process in `src/app`, checked with TLC on small
instances and, for the theorems listed below, proved with TLAPS for every value
of the constants.  `PROJECT.json` maps each definition to the lines it models
and lists the runs, the mutants, the findings, the hazards and the theorems.

## The system

One asyncio process.  `main.py` starts it, `container.py` wires it, and these
parts run in it at the same time:

| component | source | state it keeps | operations | models |
|---|---|---|---|---|
| Minutes consumer | `events/rabbit.py` 46-142 | none of its own; the Redis tracker's keys | `process`, `_handle_failure` | `MinutesConsumer` |
| Redis event tracker | `events/idempotency.py` 24-50 | completed and retry keys, with expiry | `is_completed`, `mark_completed`, `increment_retry` | `MinutesConsumer` |
| Index and removal consumers | `events/rabbit.py` 145-286 | two in-memory trackers | `process`, `_handle_failure` | `DocumentIndex` |
| Indexing workflow | `workflows/document_indexing.py` | none | `execute`, `remove_document` | `DocumentLibrary` step by step; `DocumentIndex` with preparation as one step |
| Document chunking | `pipelines/chunking.py` | the variables of its loops | `split_document_into_chunks` | `DocumentChunker` |
| Qdrant store | `rag/qdrant_vector_store.py` | `_ensured_dimensions`; the collection | `replace_document`, `delete_document` | `DocumentIndex` |
| Qdrant readers, access filters | `rag/qdrant_chat.py`, `rag/*access_filter.py` | none | `search`, `list_by_owner`, `count_by_owner`, `get_document` | `DocumentLibrary` |
| Agentic chat | `providers/pydantic_ai_chat.py` | citations of the running answer | tools, `answer`, `_run_with_retry` | `ChatAgent` |
| Single pass chat, routing | `providers/single_pass_chat.py`, `rag/chat_router.py` | none | one search, one generation | `ChatAgent` |
| Query planning, merging, reranking | `rag/query_expansion.py`, `multi_query_search.py`, `source_merge.py`, `providers/vector_score_reranker.py` | none (the expansion is cached) | pure functions around one search | `Retrieval` |
| Query result cache | `core/cache.py` | LRU store, key locks | `get_or_compute` | `AsyncCache` |
| Minutes workflow, context loader | `workflows/minutes_generation.py`, `providers/http_minutes_context_loader.py` | none | one HTTP call, one LLM call | `MinutesWorkflow`; its outcomes in `MinutesConsumer` |
| Transcript, evidence, quality, Tiptap | `pipelines/*` | none | pure functions | `MinutesEditing` |
| Realtime feedback processor | `consumers/redis_feedback.py` 41-205 | a window per session, the time each topic was last published | `process_raw`, `cleanup_expired_state` | `FeedbackWindow` |
| Redis stream runtime | `consumers/redis_feedback.py` 208-335 | known streams; the consumer groups' positions and pending lists in Redis | discover, ensure group, read, ack | `FeedbackStreams` |
| Meeting feedback workflow | `workflows/meeting_feedback.py` | none | search, rerank, one LLM call | its selection in `DocumentLibrary`, its outcomes in `FeedbackWindow` |
| RabbitMQ runtime | `events/rabbit.py` 310-487 | connection, channels | `start`, `stop`, topology | its prefetch windows, redeliveries and DLQ only |
| Providers, file storage, extraction | `providers/*`, `pipelines/file_text_extraction.py` | none | one external call each | how they classify failures, in the models of their callers |
| API routes, schemas, prompts, settings, wiring | the rest | none | adapters and data types | not modelled |

How they interact: the backend sends `minutes.requested`,
`document.index.requested` and `document.index.removed` through RabbitMQ.  Each
delivery starts an asyncio task of its own, up to the consumer's prefetch
count.  The minutes consumer runs the minutes workflow, which asks the backend for
the transcript and a model for the evidence, and publishes `minutes.generated`;
the index consumers share one Qdrant collection, which the chat and the feedback
workflow read.  Chat requests come over HTTP and share the result cache.
Transcript segments come over Redis streams into
the feedback processor, which publishes its results to Redis streams.

What is hard about it:

* handlers interleave at every `await`; the idempotency check and the mark are
  many awaits apart, and so are a document's delete and its upsert;
* a robust connection reconnects by itself: the broker delivers again what was
  not settled while the old handler runs on, and its late `ack` no longer counts;
* Redis commands of one tracker call are not atomic, and their errors are not
  caught by the handler;
* in-memory trackers and `_ensured_dimensions` are forgotten at a restart, or
  remembered when they should not be;
* a key lock of the cache is an object that outlives its place in the table;
* the tool calls of one model response run side by side and number their sources in
  one list, which a retry must forget together with what the model was shown;
* a text passes several loops and filters, each with its own idea of what is blank,
  too short, a repetition or a table, and nothing may be lost between them;
* one list, page or snippet is cut in several places by different limits;
* the end of a meeting may be known before its transcript is saved;
* one loop reads the streams of all meetings: what fails in one of them ends the
  round for all, and entries that were read but not acknowledged stay behind;
* windows and cooldowns are cleaned up by rules and at times of their own.

The correctness statements that follow from this are the properties below;
`PROJECT.json` lists the hazards they are for, each at its line.

## Modules

| module | what it is |
|---|---|
| `RequestJob` | The abstract promise of a RabbitMQ consumer to the backend: a message ends as done or failed, once; done only with a result. At-least-once: results may appear without a verdict. |
| `MinutesConsumer` | The minutes consumer with the Redis tracker. Refines `RequestJob`. |
| `DocumentIndex` | Both index consumers, the workflow's steps and the Qdrant collection. Refines `RequestJob`. |
| `AsyncCache` | `AsyncResultCache.get_or_compute`. |
| `FeedbackStreams` | `RedisFeedbackRuntime`: the loop over the streams, the consumer groups and their pending lists. |
| `FeedbackWindow` | `FeedbackEventProcessor`: windows, the gates before a search, cooldowns, cleanup. |
| `GroundedAnswer` | The abstract promise of the chat to its user: evidence is gathered, perhaps thrown away as a whole, and at most one outcome is given, whose sources are evidence. |
| `Retrieval` | Query planning, reranking, merging of sections and round-robin, as operators. Uses `Selection`. |
| `ChatAgent` | One question, on the single pass or with the agent. Uses `Retrieval`; refines `GroundedAnswer`. |
| `DocumentChunker` | The loops that split a text. |
| `DocumentLibrary` | Extends `DocumentChunker` with the indexing workflow around it, the stored payloads and the readers. |
| `Selection` | The lists that comprehensions and loops with `continue` make, as operators. |
| `MinutesEditing` | Transcript, evidence, quality and Tiptap steps, as operators. Uses `Selection`, as `Retrieval` and `DocumentLibrary` do. |
| `MinutesWorkflow` | Extends `MinutesEditing` with `execute`, the context loader and retries. |
| `MC...` | Instances for TLC: values of the constants, symmetry sets. |
| `...Proofs` | The proofs about the module they are named after; `DocumentLibraryProofs` has those about `DocumentChunker` too. |

Operators introduced by a comment "Mutant:" are plausible bugs of the definition
that follows them.  They are used by no action; each is what a property of a
passing run has been seen to catch.

### MinutesConsumer

A task is one run of `process`.  `pc[t]` names the await it stands before and
an action is the code from there to the next await, with the effect of the
external call: `CheckCompleted` (line 78), `Generate` (83-84 and the two
`except` branches), `Publish` (85), `MarkCompleted` and `ClearRetry` (the two
Redis commands of line 124), `Ack` (125), `CountRetry` and `SetRetryTtl` (131),
`Backoff` (135), `Requeue` (136), `DeadLetter` (75, 129, 133).  `Generate`
chooses between a result, a retryable and a permanent error, which is what the
handler tells apart.  `Publish` has three outcomes, because with publisher
confirms the exchange may store an event whose confirm is lost.

`loc[m]` is where the broker has a message.  `live[t]` is false once the channel
that delivered the task's message is closed; a verdict of such a task is
ignored.  `RedisFault` is a Redis call that fails with or without its effect.
None of these calls is inside the `try`, so the task ends and its message stays
unacknowledged.  `completed`, `retry` and `retryTtl` are the tracker's keys;
`CompletedExpires` and `RetryExpires` are their time to live.  `published`,
`refused`, `requeued` and `faults` only record history for the properties.

Abstractions: the queue is a set of messages (RabbitMQ keeps no order across
requeues); the length of the backoff sleep is left out, the prefetch slot it
holds is not; the tracker's namespace and the payloads are left out.

### DocumentIndex

The same cut.  Preparation (download, extraction, chunking, embedding) touches
no shared state and is one step with its outcomes.  Each Qdrant request is one
step, because other handlers run between them: `FindCollection`,
`CreateCollection`, `EnsurePayloadIndexes` (its idempotent PUTs are one step),
`DeletePoints`, `UpsertPoints`, `RemoveDocument`.  The in-memory tracker is read
and written without an await, inside those steps.  `points[d][i]` is the event
whose text chunk `i` of document `d` holds: point ids depend on the document
and the chunk index only, so an upsert overwrites position by position.
A request that fails may have taken effect or not where Qdrant leaves that open.
Qdrant is assumed to apply requests in the order it receives them.

The backend gets no response to a request about a document and may have any number of them
under way; the module puts no condition on it.  `why` and `cause` record the reason of a dead
letter, `applied` the events that took effect, `newest` the last request published about each
document, `overlapped` the documents that two handlers, orphaned ones included, were replacing at once
(both between delete and upsert), and `crossed` those whose requests got in each other's
way: one was delivered while a handler was at work on the document, the newest while an older one was
pending, or a copy of an older one was sent after a newer.  All of this is history; the properties
about the store except what it names, and nothing else.

### AsyncCache

The code awaits in two places, for a contended key lock and for the
computation, so a call is idle, waiting or computing.  Lock objects are values
of `Locks`; `keyLocks` is the table, `lock[c]` the object a call refers to,
which stays when `_insert` drops it from the table.  An unreferenced object may
be used again.  Waiters are woken in order, and a newcomer queues behind them,
as `asyncio.Lock` does.  `Expire` is the passing of the time to live (with
`ttl_seconds = None` it never happens).

### FeedbackStreams

One task runs `_consume_loop`; `pc` names the await it stands before.
`Discover` is the whole SCAN, as one step: a stream it misses is one that is
added after it.  `EnsureGroup` handles the streams that are not known yet one by one in
any order (the code iterates over a set), `Read` the known ones in sorted
order.  The entries a read returned are the `batch`; each is handed to the
processor (`ProcessReturns`, `ProcessRaises`) and acknowledged (`Ack`) before
the next.  Every exception ends the round (`EndRound`).  `RedisFault` is a
command that fails with or without its effect.

Entries are numbered over all lives of a stream, so that a stream that expires
(`gone`) and is added to again is told apart from its former self; ids of Redis
have that property as long as its clock does not go back.  `handled` is history.
The sleeps are left out: they delay the next round only.  So is XADD's MAXLEN
trimming by the STT server, which removes entries and is outside this
repository; entries without an `event` field are acknowledged like those the
processor ignores.

### FeedbackWindow

`process_raw` up to the search is one action, `Arrive`: it cleans up, opens the
window of the segment's session, ignores a known segment, appends, trims, and
asks the gates.  The search (`SearchFails`, `SearchFindsNothing`, `SearchFinds`)
and the publication (`PublishReturns`, `PublishFails`) are awaited; as one task
calls the processor, nothing but the clock goes on meanwhile, and the runtime's
own `Cleanup` comes between calls.  Events that do not validate, are of another
type or not final change nothing and are left out.

A segment event is a constant with its session, id, number, end and length; it
may arrive any number of times and in any order.  A topic is the part of a result
that the cooldown is about, its type and sources; which topic a search finds
is free.  The fingerprint of a window is taken to be its segments, instead of
their numbers and texts.  The newest segment of a window is always a new one, so this
gate never holds a search back; it is kept because the code has it.
`sent` is history: what was published, never cleaned up, until a restart.
The clock is assumed not to go back.

The two feedback models meet in the calls of `process_raw`: an entry of
`FeedbackStreams` is an `Arrive` of `FeedbackWindow`, and `ProcessRaises` is
`PublishFails`, the only exception that leaves the processor.

### ChatAgent and Retrieval

A step is the code between two awaits: a request to the model, the return of one
tool call.  The searches of the single pass return in any order (`SearchReturns`)
and are merged one turn of the loop at a time (`Turn`); for the agent a search is one
step whose possible results, `Findings`, are what the same operators make of the
hits, which the module's assumptions say.  `retrieved` is
`deps.retrieved_sources`, number `n` its `n`-th element; `shown` records every
numbered text a model was shown in this attempt and is history.  `get_document` binds
its document when it starts, hence `StartedCalls`.  `Retry` comes after the sleep and
clears list and conversation.  A model may cite any numbers, also made up ones
(`Numbers`), write its sources as a footer (`Answers`) and call any tools.

A snippet is the sequence of its sections, a section a chunk and the number of its
characters that are left; scores are numbers.  The wording of prompts, what an
expansion finds and what Qdrant ranks are free choices of the instance.

### DocumentChunker and DocumentLibrary

A step of `DocumentChunker` is one round of one of the three loops: blocks, windows of
a block that is too long, rows of a table.  A text is a sequence of blocks with their
length, blank positions and lines; what a chunk holds is a set of characters (block
and position) and its length with separators, so that "lost", "cut" and "in order" can
be said.  Stripping and the recognition of a table's lines are part of the constant.

`DocumentLibrary` runs it inside `execute`: `Receive` (text from the request or a
file, with `FileTextExtractor`'s branches, and the checks of scope and emptiness),
`SplitOn`, `Embed`, `Delete`, `Upsert`.  What Qdrant answers to the last two is one of
`QdrantAnswers`: success, a failure worth a retry that has taken effect or not, or a refusal.
The removal of a document is one such request as well; one that fails without effect changes nothing.  A payload has a set of values for each key that
a filter may ask about; `AccessFilter`, `DocumentFilter` and `FeedbackFilter` are the
filters as the code builds them, and `Matching` is what Qdrant does with them.  A
reader is one request and leaves its answer in `reply`; it may come between the delete and the
upsert of a replacement.  A scroll returns any `PageLimit` of the matching points
(`Pages`), a search any ranking of readable matching points.  `Feedback` is the
selection of `MeetingFeedbackWorkflow`, with the class of each snippet left open.
`stored` is history: what a document was last stored with.
A bound of a period is a day, an instant with a T, an instant that is written with a space
(`"spaced"`), or nothing that can be read.  Here one request is handled after the other; overlaps are `DocumentIndex`'s business,
in which the whole of `Receive`...`Embed` is the step `Prepare`.

### MinutesWorkflow and MinutesEditing

`MinutesEditing` has the pure steps.  A line of a transcript is what the code counts in
it (letters by script, length) and whether it is a link or blank.  A text is the name of
its letters after `casefold`, how it spells them, where it has white space to spare and what is
counted of it; comparing, cleaning and folding are what they do to these.
`MinutesWorkflow` cuts `execute` at its two awaits: `Load` (the context API, with
`LoadFailure` as the loader classifies answers) or `LoadInline`, and `Generate`, which
is the rest of `execute` on whatever evidence a model gives.  `Save` is the backend saving the
transcript late.  `TryAgain` stands for the retries of `MinutesConsumer`, whose step
`Generate` this whole module refines in the sense that its three outcomes, a draft, a
retryable and a permanent error, are `verdict` here.

## Runs

| run | checks | instance |
|---|---|---|
| `minutes_safety` | `DeadLetterJustified`, `RetryBudget`, `JobPromise`, `NoRework` | two copies of one event, three tasks, a fault of each kind but a restart |
| `minutes_live` | `RetryKeyExpires`, `EveryRequestSettled` | two copies and a malformed message, a lost channel, a restart and a Redis fault, under `FairSpec` |
| `index_overlap` | `NoLeftovers`, `AckedIsCurrent`, `DeadLetterJustified`, `JobPromise` | a longer text, a shorter one and a copy of the first, sent without waiting, two tasks, a lost channel |
| `index_settled` | `AckedIsCurrent`, `JobPromise`, `EveryRequestSettled` | a text, its removal and a malformed message, a restart, a dropped collection, under `FairSpec` |
| `cache` | `NoStampedeUnlessEvicted`, `WaitersQueued`, `WaitersServed` | three calls, two keys, `max_size` 1, under `FairSpec` |
| `feedback_streams` | `AckedWasProcessed`, `LossBounded`, `ReadsForward`, `EntriesAreRead` | two streams of two entries, batches of two, a fault of each kind, under `FairSpec` |
| `feedback_window` | `WindowSound`, `QueriesMoveOn`, `CooldownKept` | two sessions, five segment events, windows of two, a clock of five values, a fault |
| `chat` | `CitationsStable`, `MergedFairly`, `EvidenceKept`, `Grounded`, `QuestionSettled` | three documents, one of them of several passages, up to three searches of two documents, two tool calls side by side, one retry, two model requests of an attempt, under `FairSpec` |
| `library` | `NothingLost`, `PassagesWhole`, `RowsKeepHeader`, `OnlyAskedFor`, `ListingComplete`, `DocumentWhole`, `RequestEnds` | some forty texts against chunks of six characters with an overlap of two; two documents, three users and scopes, three rooms, five periods, pages of three points, under `FairSpec` |
| `minutes_workflow` | `GroundedOnly`, `KeptOnce`, `TrustedNearby`, `KoreanStaysKorean`, `GivenUpForReason` | every transcript of up to six lines of three languages, meetings with links, blanks and no speech, some five hundred pieces of evidence, three attempts |
| `index_lost`, `index_resurrected` | `AckedIndexIsStored`, `RemovedStaysRemoved` | expected violations, see below |

What a theorem settles for every instance and another property of the same run would show
broken as well is left to the proofs: the type invariants of all modules, `AckedHasResult` and `AckedWasApplied`
(what `JobPromise` requires of an ack), `OneHandler` (a message nobody settles breaks
`EveryRequestSettled`), `StoreBounded`, `OneNumberEach` and `ChunksBounded`.

Bounds.  Two copies are what every overlap here needs: a second handler of the same
event, or a zombie beside its successor (three tasks for a zombie beside both);
the index runs have a third message besides, another text of another length (`index_overlap`) or a
malformed one (`index_settled`). The one has copies, orphaned handlers and two texts; the other
removals, restarts and dropped collections; all of them together are left to the
theorems, which hold for any requests, tasks and faults.  `MaxRetries = 1` has both a
retry and an exhausted budget.  `MaxFaults` bounds each kind of fault, in the
guards, so that the state space is finite; the properties that exclude a fault
name it, and the theorems hold for any bound. (`NoRework` excludes expired marks and nothing else.) A restart is left out of
`minutes_safety`: the state in Redis and at the broker is what a lost channel leaves, and its
orphaned tasks need not move; restarts are in `minutes_live` and in the theorems.  The cache needs three calls for a
holder, a waiter and a newcomer, more keys than `max_size` for an eviction, and
one lock object more than two other calls and the other key can refer to.
Two streams are one that fails and one that may starve behind it, and two entries
with batches of two or one (after a fault, or read at different times) are a batch that is cut in
the middle. The segments of `MCFeedbackWindow` are three in order of which the third ends
before the second, one sent again under a later number, and one of another
session; windows hold two, so they overflow, and are trimmed by the span, and
expire after one tick while a cooldown lasts three.

In `chat` a snippet has room for three sections and five characters, so that merging
truncates; two documents of a search are fewer than the three there are, so that fairness
matters; one source is all `ChatResult` takes, so that an answer can be refused for
too many; plans have one, two and three searches, with and without a translation.  In
`library` the paragraphs are just below, at and above the size of a chunk and have blank
stretches of many places and sizes; tables have headers that fit, leave no room and
stand alone, the separator in each of the three places it may have, and rows that fit
and do not; the two versions of a document are dated on the two sides of a Korean
midnight; a page holds fewer points than the longest document has chunks, and a
document that is read is longer than `MaxTextChars` in some states and shorter in others.
In `minutes_workflow` six lines are more than the five that suspicion looks at; the
evidence repeats, spells and spaces one text in every way, with sources that are trusted,
suspicious, made up or missing.

Symmetry (of tasks) is used in safety runs only.  Deadlock is checked where
the system never rests (`cache`, `feedback_streams`, `feedback_window`); in the others a
request may be settled, or a question answered, and nothing is left to do.

Fairness.  `FairSpec` has weak fairness for each task (the event loop runs ready
tasks; LLM, Redis and Qdrant calls return, through client timeouts at the
latest), for the delivery of each queued message while a slot is free, and, in
`MinutesConsumer`, for `AckTimeout`: a message whose handler died on a Redis
error is returned only when RabbitMQ's `consumer_timeout` closes the channel,
and without it that request would never be settled.  Requests, faults and
expiry are never forced.  In the cache a woken waiter runs and a computation
returns or raises. The stream loop is one task with weak fairness as a whole: Redis
answers or fails, and the processor returns or raises; `feedback_window` has no
liveness and needs none.  In `ChatAgent` fairness is that of the whole question, each
request of which has a timeout; `QuestionSettled` rests on the bounds the code itself has,
the retries and the request limit.  In `DocumentLibrary` it is that of `execute` as a whole, whose
loops run on and whose calls return; readers and the backend are never forced, and
`RequestEnds` is that one attempt ends. `MinutesWorkflow` has no fairness: that a request ends is a matter of the
retries around it, which `MinutesConsumer` has.

## Where the code does not do what it says

Two statements of comments about the index consumers are checked as written and fail;
`PROJECT.json` quotes them under `findings`.

| run | statement | what happens |
|---|---|---|
| `index_lost` | an acknowledged index request is not lost (`rabbit.py:202`) | a zombie handler deletes after the ack and then fails |
| `index_resurrected` | a removed document does not come back (`qdrant_vector_store.py:43`) | an index request still under way stores it again |

Others of the same kind are left without a run of their own; the model has each in its actions.

* Chunks of an earlier text remain when two replacements of a document interleave,
  against `qdrant_vector_store.py:37-38`. `NoLeftovers` says that they do in no other case, and is a theorem.
* Only an end bound that is a date should be moved to the next midnight (`qdrant_chat.py:274`), but
  line 282 moves every one without a T, so that a list asked to end at `2026-06-10 12:00`, with a
  space, ends a day later: `InPeriod` says so of such bounds (`"spaced"`).
* A key is computed twice when an eviction drops a lock in use (`cache.py:14`, line 55);
  `NoStampedeUnlessEvicted` is what remains, and is a theorem.
* A removal is said to be requeued on an outage (`rabbit.py:278`), but the outage is an
  `AiError` and is dead-lettered at once; `DeadLetterJustified` says so of removals only.
* A removal that finds no collection should pass quietly (`qdrant_vector_store.py:44`), but
  the 404 is an error on this path (line 111): `RemoveDocument` with reason `"missing"`. The
  collection should be created at first use (line 58), but the loser of a creation race is
  dead-lettered: `CreateCollection` with reason `"conflict"`.
* A retry counter stays above the limit after a dead letter until it expires
  (`idempotency.py:39`), so that a message sent again from the DLQ is given up at its
  first failure; and the in-memory trackers and the lock table only grow
  (`idempotency.py:8`, `cache.py:30`).
* A publication that fails may have taken effect, and is then repeated (`redis_feedback.py:182`).

What `EntriesAreRead` excludes is also worth knowing: a stream that expires while
the loop knows it is never given its group again, each round ends with the error
of reading it (`Blocked`), and the streams after it in the order are not read until
the process restarts.

What the models of this code show further, where a reader may expect something else:

* chat: `ChatResult` takes 20 sources (`schemas/chat.py:59`) while a list shows up to 50; an
  answer that cites more, or of which nothing is left once marks and footer are gone, fails
  validation and is lost (`Answer`, `"invalid"`).
* chat: merging cuts sections to share the room, so a chunk found again at full length counts as
  another section (`source_merge.py` 23-30); a source found again by a later tool keeps its
  first snippet in the citation (`pydantic_ai_chat.py` 432-440).
* chat: without a translation the first facet is joined to the base query, and with one the
  third facet is dropped (`query_expansion.py` 83-85); an expansion that failed is cached for its 300 seconds (94).
* readers: count, list and get read one page of 500 points (`qdrant_chat.py:136`);
  `ListingComplete` and `DocumentWhole` except larger ones. A document is not found between the two
  requests of its replacement.  A document whose title is longer than 255 characters
  is stored but every hit of it is skipped (`schemas/chat.py:52`).  A date bound that cannot be
  read is no bound.  `allowedDepartmentIds` is stored and no reader asks for it; the clause on
  `workspaceId` matches nothing.
* indexing: the header of a table none of whose rows fits below it is dropped, and a row that is
  too long stands without it (`chunking.py` 104-115; `HeaderDropped`); sizes that make no sense
  are refused only when a long block comes (43-48).  A docx that cannot be opened is
  retried although it will never open.
* minutes: action items of equal content are shown once, whoever they are assigned to
  (`minutes_quality.py` 51-63); an agenda item with one source survives through a decision that is
  then dropped as meaningless (`minutes_evidence.py:99`); a meeting of nothing but links is
  retried until it is dead-lettered, while a link may be cited as evidence; what OpenAI returns
  unreadably is retried, what Gemini does is not, and a summary that is too short is given up at once.
* feedback: one set of minutes may be shown twice, once for each of its chunks; minutes that carry no meeting id
  pass the filter that keeps a meeting's own minutes out.

## Proofs

All theorems assume only the named assumptions of the module and what they state.

* `MinutesConsumerProofs`. `AckedHasResult` is not inductive: a task may reach
  the ack through the tracker's mark. `ResultInv` adds that every completed event
  was published and that tasks past `Publish` handle published events.
  `DeadLetterInv` adds that a task heads for the DLQ only with a reason, and
  that reasons last. `RetryBudget` needs a count: the requeues already used and
  those granted to tasks (`Granted`) together stay below both the counter in
  Redis and `max_retries`, `BudgetInv`. `OneHandler` is inductive with the types.
  `RetryKeyExpires` is about the steps that leave a counter without an expiry when nobody is about to set one (`Leaked`):
  they are faults, and hit a handler that stands before INCR or EXPIRE. All steps but those of
  four kinds leave the retry keys alone (`QuietSteps`); of these, a handler that counts goes on to set
  the expiry, and one that clears the counter leaves none.
  `NoRework` needs that the broker forgets no request whose event the check would take for new:
  a handler acknowledges after it has seen or set the mark itself (`MarkedInv`), and no fault but an expiry
  takes a mark away, whatever becomes of the handler, its channel or the process.
  The refinement maps `loc` to a status and `published` to the results; every
  step is a step of `RequestJob` or a stutter (`ConsumerKeepsPromise`).
* `DocumentIndexProofs`. `WorkSteps` and `SettleSteps` say once what all steps
  of a handler have in common, and the invariants argue from these. `AppliedInv`:
  the tracker names only applied events. `JustifiedInv`: only a handler of a removal gives up over an outage, and
  the counter that made one of an index request give up goes down only through completion or a
  restart (`UsedUp`). `DocumentsStayWhole` (`NoLeftovers`) and
  `AckedRequestsAreCurrent` assume nothing of backend, channels or faults. The first rests on `WholeInv`: unless
  two handlers have been there at once, the document is empty while one stands between delete and upsert, and no second
  one does. For the other, `RequestInv` says that what is completed was published and handled as what it
  is; `AloneInv`, that of a document whose requests did not cross one handler is at work, on a message
  that is pending and that no other handler can settle; and `CurrentInv` follows the newest
  request: once it has been taken up or applied nothing older is pending, and what it asked for is there
  from the step that completes it on, unless the collection was dropped. A zombie is a handler
  at work, so that its successor's delivery makes the requests cross (`AtWork`), and the exception is what happened
  and not an assumption on what may.
* `AsyncCacheProofs`. Lemmas about sequences without repetition (taking one
  element out, adding a new one, taking the first off) carry the invariant of
  store and queues. Exclusion follows from two facts (`ExclusionInv`): a lock
  object has one holder, and all calls of a key whose lock was never dropped
  refer to the object in the table.
* `FeedbackStreamsProofs`. The types of Redis and of the loop are proved apart, since a step changes
  one, or both independently. `ReadsForward` rests on
  `Positions`, by which the position of a stream without its group is not ahead of what
  expired with it, where a new group begins. `AckedWasProcessed` needs that the first entry in hand was
  handled when the loop stands before XACK (`AckFollows`). `LossBounded` counts: a batch has at most `Count`
  entries because it is part of a window of that many numbers (`InWindow`), and only a step that
  is counted as a failure lets go of one (`LossInv`).
* `FeedbackWindowProofs`. All properties of the run are proved. A window is a
  `Line` of segments; dropping from its front (`DropFront`) and appending what is new
  (`OneMore`) keep it one, from which `TakenIsSound` follows for `_append_segment` and
  `_trim_expired_segments` together; that the trim stops at the new segment takes the
  least element of a set of numbers (`LeastNatural`). `QueryInv` says what a window
  remembers of its last search and that one that is awaited has passed the interval.
  `CooldownInv` says that a topic is remembered, or forgotten and its cooldown over:
  the cutoff of the cleanup is the longer of the two times.
* `ChatAgentProofs`. `NumbersInv`: the list of sources has no resource twice, and what was
  shown under a number is what the list has there, which appending what is new keeps
  (`FindKeepsNumbers`); a tool call that is running does not matter, because a number is given
  and shown in one step. With the searches of the single pass (`SearchInv`), the calls and
  the outcome it makes `ChatInv`, from which every step is one of `GroundedAnswer`
  or a stutter (`AnswersAreGrounded`).
  `NoTopicCrowdsOut` and `EvidenceIsKept` are about the loop that merges the rankings, and its
  list alone does not say enough: `MergedSoFar` relates it to the places of the rankings the loop
  has been at. A document of one of these is in the list, or the list is full and all in it
  came from earlier places (`FairSoFar`); and a document of the list has the sections
  found at its places as long as a snippet has room for that many (`Covers`). Its sections are counted
  against those found, because only then does cutting the text into sections of equal length keep every one of them.
  `MergingStep` is one turn of the loop, for any rankings, list and places, and `RoundRobinIsFair` the whole
  loop, by an induction on its turns (`UpTo`) which needs that its recursive definition has a
  value (`RoundRobinTurns`); so the agent's search keeps the same promises. That turn `t` is at rank `t div n` of ranking `t mod n`, and that the places before it are those
  of the earlier turns, is `NextPlace` and `BeforeNext`. `MergeSourcesFacts` shows
  that the shared room gives each section a character at least and the snippet never
  more than `MaxSnippet`, by a bijection and a count of `Characters`.
  `FindFirst` says that the first list found is `retrieved` as it is.
  For `TypeCorrect` the invariant is `TypeInv`, types that do not depend on the searches.
* `DocumentLibraryProofs`, first of the chunker. `ChunkInv` is types and sizes, with what each of the
  three loops knows of the chunk it fills. `NothingReadableIsLost` needs to say how far each loop is
  (`KeepInv`): what is before the
  block it is at is in a chunk or about to be (`Behind`), nothing is there of what it has not
  come to (`NotAhead`), the windows hold everything up to where the next one starts
  (`WindowsSoFar`), and the rows everything up to the row it is at, the header included unless
  no row has fitted (`RowsSoFar`).  `RowsKeepTheirHeader` and `PassagesStayWhole` add what
  each loop knows of the chunk it fills and of the window it is about to cut (`HeadersInv`, `PassagesInv`).
  Every step of the indexing workflow is one of the chunker or leaves it alone
  (`SplitsAsChunker`), so that these hold of the documents of `DocumentLibrary` as well.
  `LibraryInv` then says that the collection holds what was last stored of each document, chunk by
  chunk and each chunk with its request's payload, and nothing of one that is being replaced,
  whether a request that failed has taken effect or not (`QdrantOutcomes`).
  The readers' answers follow one by one from it (`Promises`): a filter admits only points whose
  payload has the values asked for (`OnlyTheirsIsRead`); a page that is not full holds every
  matching point, and a list takes one point of each document (`ListsAreComplete`); and the
  chunks of a document, put in order by index, are all its chunks, up to where the reader cuts
  (`DocumentsAreWhole`).
* `MinutesWorkflowProofs`. `WorkflowInv` says that the transcript a model is asked with is what was spoken and its segments
  are marked, and that the document is what the pipeline makes of the evidence. What is left to
  prove is about the pipeline: one lemma for each of its steps says what it keeps and what it adds.
  They rest on two lemmas about `Selection`: `AtFacts`, by which a list taken at some places has
  exactly the elements at these places, in their order, and `FirstOfEachFacts`, by which it
  has one element of each key.
  `NothingIsInvented` follows each item that is shown back to a piece of evidence with a trusted source;
  `NothingIsLost` follows each decision and follow-up forward (`DecisionsKept`, `ActionsKept`).
  `SuspicionSparesNeighbours` needs no more than that what makes a segment suspicious is a neighbour
  that is not (`TrustedNeighbour`). `SummariesStayKorean` compares the letters of a text before
  and after lines are taken out and put together, as sets of places and by a bijection between
  them (`LettersMoved`), since sums over sequences are out of reach. `GivenUpOnlyForReason` is
  inductive; what it takes is that neither a failure to load a sound context nor one to find
  speech in it is permanent (`PermanentLoads`, `PrepareVerdict`).

What the theorems assume of constants are the named assumptions of the modules, which TLC evaluates in every run
that uses the module. Most say what a constant ranges over. `SnippetAssumption` says that a snippet has room
for a character of each section and the separators between them (2000 characters for six sections, in the code);
then the last cut of `merge_chat_sources`, to 2000 characters, never takes anything away, which is why
`MergeSources` has none. Of the chat, `HitsAssumption` says that Qdrant's hits fit into a snippet
(`ChatSource` refuses a longer one and `_payload_to_source` then skips the hit), and
`ListingsAssumption` that a list names no document twice, which `ListsAreComplete` of `DocumentLibrary`
proves of it. What the reranker, the round-robin and the query planning make of such input is proved
(`RerankFacts`, `RoundRobinIsFair`, `PlanFacts`); that the constants `Rankings`, `Plans` and
`Findings["search"]` are these results, written out for TLC, is the rest of `ConstantsAssumption`. `TextsAssumption` says more of a text: a block is stripped, its lines have a
line break between them, and what is not blank is in a line.

Every invariant and every action property of the passing runs is stated by a theorem.
Only model-checked: liveness (`EveryRequestSettled`, `WaitersServed`, `EntriesAreRead`,
`QuestionSettled`, `RequestEnds`) and anything about `ENABLED`, which the prover does not handle. The recursive functions of `Retrieval`
are loops over numbers, whose induction is proved from the least element of a set; induction over an operator given as a parameter
is out of reach. `Retrieval`'s results on the instance are written out in `MCChatAgent` and
compared by TLC too.

## Not modelled, and why

The routes, schemas, prompts, translators and settings hold no state and make no decision
the models do not already treat as an outcome. The declaration of exchanges and queues
happens once at start, and so does the wiring of `container.py`. The sparse encoder hashes tokens into a vector, and the
ranking it takes part in is left free. `GeminiReranker` is wired nowhere, and `chunk_text`
of `rag/chunking.py` is imported by nothing. Parsing PDF and docx is left to the
libraries. Scripts, evaluation and deployment are not part of the server. The HTTP
route that indexes a document directly calls the same workflow without a tracker: to the
store it is one more handler, of which `DocumentIndex` may have any number. What texts, chunks and embeddings
say is abstracted everywhere.

## Plan

Done: the consumers, the store, the cache and the feedback path with their proofs; then the chat, the
library of documents and the minutes workflow with theirs. Next, most important first:

1. Start and stop of the runtimes (`main.py`, `RabbitMqRuntime.start`): what a
   start that fails half-way leaves behind.
2. That the three outcomes of `MinutesWorkflow` are those of `MinutesConsumer`'s step `Generate`, as a
   refinement instead of a remark, and likewise `DocumentLibrary` and `Prepare`.
3. That the reranker keeps every hit above its threshold of the documents it returns, as the merging loop is
   shown to.
