-------------------------- MODULE FeedbackStreams --------------------------
(***************************************************************************)
(* RedisFeedbackRuntime: the single task that looks for the meetings'      *)
(* feedback-source streams, creates its consumer group on each, reads them *)
(* one after the other and hands every entry to the feedback processor.    *)
(* An action is the code between two awaits with the effect of the Redis   *)
(* command awaited.  What the processor does with an entry is the business *)
(* of FeedbackWindow; here it returns or raises.                           *)
(***************************************************************************)
EXTENDS Naturals, FiniteSets

CONSTANTS Streams,      \* stream keys, numbered in the order of sorted()
          Count,        \* entries a read asks for (10)
          MaxEntries,   \* bound on the entries the STT server adds to a stream
          MaxFaults     \* bound on the faults of each kind

FaultKinds == {"redis", "publish", "restart", "expiry"}

ASSUME ConstantsAssumption ==
    /\ Streams \subseteq Nat
    /\ IsFiniteSet(Streams)
    /\ Count \in Nat \ {0}
    /\ MaxEntries \in Nat
    /\ MaxFaults \in [FaultKinds -> Nat]

VARIABLES
    exists,    \* Redis: the streams that exist
    group,     \* Redis: the streams that have the consumer group
    added,     \* number of the last entry added to each stream, over all its lives
    gone,      \* number of the last entry that went with an expired stream
    read,      \* last-delivered-id of each group
    pending,   \* pending entries list of each group
    known,     \* known_streams of the loop
    todo,      \* streams the loop has still to ensure, or to read, in this round
    found,     \* discovered_streams of this round
    pc,        \* the await the loop stands before
    cur,       \* the stream the batch in hand was read from
    batch,     \* entries in hand, not acknowledged yet
    handled,   \* entries the processor returned from
    faults     \* faults so far, by kind

redis == <<exists, group, added, gone, read, pending>>
loop == <<known, todo, found, pc, cur, batch>>
vars == <<exists, group, added, gone, read, pending,
          known, todo, found, pc, cur, batch, handled, faults>>

Entries == 1..MaxEntries
InHand == {"process", "ack"}

TypeOK ==
    /\ group \subseteq exists /\ exists \subseteq Streams
    /\ added \in [Streams -> 0..MaxEntries]
    /\ gone \in [Streams -> 0..MaxEntries]
    /\ read \in [Streams -> 0..MaxEntries]
    /\ pending \in [Streams -> SUBSET Entries]
    /\ known \subseteq Streams /\ todo \subseteq Streams /\ found \subseteq Streams
    /\ pc \in {"discover", "ensure", "read"} \cup InHand
    /\ cur \in Streams
    /\ batch \subseteq Entries
    /\ handled \in [Streams -> SUBSET Entries]
    /\ faults \in [FaultKinds -> Nat]
    /\ batch # {} <=> pc \in InHand

Init ==
    /\ exists = {} /\ group = {}
    /\ added = [s \in Streams |-> 0]
    /\ gone = [s \in Streams |-> 0]
    /\ read = [s \in Streams |-> 0]
    /\ pending = [s \in Streams |-> {}]
    /\ known = {} /\ todo = {} /\ found = {}
    /\ pc = "discover"
    /\ cur \in Streams
    /\ batch = {}
    /\ handled = [s \in Streams |-> {}]
    /\ faults = [k \in FaultKinds |-> 0]

IsLeast(x, S) == x \in S /\ \A y \in S : x <= y
Spend(kind) == /\ faults[kind] < MaxFaults[kind]
               /\ faults' = [faults EXCEPT ![kind] = @ + 1]
-----------------------------------------------------------------------------
(* Redis and the STT server *)

\* XADD creates a stream that does not exist, without a group.
Add(s) ==
    /\ added[s] < MaxEntries
    /\ added' = [added EXCEPT ![s] = @ + 1]
    /\ exists' = exists \cup {s}
    /\ UNCHANGED <<group, gone, read, pending, loop, handled, faults>>

\* A stream expires or is deleted, and its group with it.
Expire(s) ==
    /\ s \in exists
    /\ Spend("expiry")
    /\ exists' = exists \ {s}
    /\ group' = group \ {s}
    /\ gone' = [gone EXCEPT ![s] = added[s]]
    /\ pending' = [pending EXCEPT ![s] = {}]
    /\ UNCHANGED <<added, read, loop, handled>>

\* Mutant: a group that exists is set back to id 0.
RecreateGroup(s) ==
    /\ exists' = exists \cup {s}
    /\ group' = group \cup {s}
    /\ read' = [read EXCEPT ![s] = gone[s]]
    /\ UNCHANGED <<added, gone, pending>>

\* XGROUP CREATE ... MKSTREAM from id 0; BUSYGROUP leaves an existing group as it is.
CreateGroup(s) ==
    /\ exists' = exists \cup {s}
    /\ group' = group \cup {s}
    /\ read' = IF s \in group THEN read ELSE [read EXCEPT ![s] = gone[s]]
    /\ UNCHANGED <<added, gone, pending>>

\* The entries XREADGROUP ">" delivers next.
NewEntries(s) == {n \in Entries : read[s] < n /\ n <= added[s] /\ n <= read[s] + Count}

Deliver(s) ==
    /\ read' = [read EXCEPT ![s] = IF added[s] <= @ + Count THEN added[s] ELSE @ + Count]
    /\ pending' = [pending EXCEPT ![s] = @ \cup NewEntries(s)]
    /\ UNCHANGED <<exists, group, added, gone>>

\* Mutants: the whole list is acknowledged, or nothing.
AcknowledgeAll(s, n) == /\ pending' = [pending EXCEPT ![s] = {}]
                        /\ UNCHANGED <<exists, group, added, gone, read>>
NotAcknowledged(s, n) == UNCHANGED redis

Acknowledge(s, n) == /\ pending' = [pending EXCEPT ![s] = @ \ {n}]
                     /\ UNCHANGED <<exists, group, added, gone, read>>
-----------------------------------------------------------------------------
(* _consume_loop *)

\* The rest of the round is given up: after a failure, or when all streams were read.
\* Then the loop sleeps, or does not, and begins anew.
EndRound == /\ pc' = "discover" /\ todo' = {} /\ found' = {} /\ batch' = {}
            /\ UNCHANGED <<known, cur>>

\* Mutant: a round reads one stream only.
ReadOne(left) == EndRound

\* Go on with the streams left to read.
ReadOn(left) == IF left = {}
                THEN EndRound
                ELSE /\ pc' = "read" /\ todo' = left /\ batch' = {}
                     /\ UNCHANGED <<known, found, cur>>

\* All groups are ensured: known_streams grows, and is read in order.
StartReading(streams) ==
    /\ known' = known \cup streams
    /\ todo' = known'
    /\ found' = {}
    /\ pc' = IF known' = {} THEN "discover" ELSE "read"
    /\ UNCHANGED <<cur, batch>>

\* _discover_streams: SCAN.
Discover ==
    /\ pc = "discover"
    /\ IF exists \ known = {}
       THEN StartReading(exists)
       ELSE /\ pc' = "ensure" /\ todo' = exists \ known /\ found' = exists
            /\ UNCHANGED <<known, cur, batch>>
    /\ UNCHANGED <<redis, handled, faults>>

\* _ensure_group on one of the streams that were not known.
EnsureGroup(s) ==
    /\ pc = "ensure"
    /\ s \in todo
    /\ CreateGroup(s)
    /\ IF todo = {s}
       THEN StartReading(found)
       ELSE /\ todo' = todo \ {s}
            /\ UNCHANGED <<known, found, pc, cur, batch>>
    /\ UNCHANGED <<handled, faults>>

\* _read_stream on the first stream left: NOGROUP is an error, which ends the round.
Read(s) ==
    /\ pc = "read"
    /\ IsLeast(s, todo)
    /\ \/ /\ s \notin group
          /\ EndRound
          /\ UNCHANGED redis
       \/ /\ s \in group
          /\ NewEntries(s) = {}
          /\ ReadOn(todo \ {s})
          /\ UNCHANGED redis
       \/ /\ s \in group
          /\ NewEntries(s) # {}
          /\ Deliver(s)
          /\ pc' = "process" /\ cur' = s /\ batch' = NewEntries(s) /\ todo' = todo \ {s}
          /\ UNCHANGED <<known, found>>
    /\ UNCHANGED <<handled, faults>>

\* process_raw returns: the entry was unusable, added nothing, or had its effect.
ProcessReturns(n) ==
    /\ pc = "process"
    /\ IsLeast(n, batch)
    /\ handled' = [handled EXCEPT ![cur] = @ \cup {n}]
    /\ pc' = "ack"
    /\ UNCHANGED <<redis, known, todo, found, cur, batch, faults>>

\* process_raw raises: publishing the feedback failed.
ProcessRaises ==
    /\ pc = "process"
    /\ Spend("publish")
    /\ EndRound
    /\ UNCHANGED <<redis, handled>>

\* XACK; of a stream that has gone it does nothing.
Ack(n) ==
    /\ pc = "ack"
    /\ IsLeast(n, batch)
    /\ Acknowledge(cur, n)
    /\ IF batch = {n}
       THEN ReadOn(todo)
       ELSE /\ batch' = batch \ {n} /\ pc' = "process"
            /\ UNCHANGED <<known, todo, found, cur>>
    /\ UNCHANGED <<handled, faults>>

\* A Redis command fails, with or without its effect; the round ends.
RedisFault ==
    /\ Spend("redis")
    /\ \/ pc \in {"discover", "ensure", "read", "ack"} /\ UNCHANGED redis
       \/ pc = "ensure" /\ \E s \in todo : CreateGroup(s)
       \/ pc = "read" /\ \E s \in todo \cap group : IsLeast(s, todo) /\ Deliver(s)
       \/ pc = "ack" /\ \E n \in batch : IsLeast(n, batch) /\ Acknowledge(cur, n)
    /\ EndRound
    /\ UNCHANGED handled

\* The process stops or dies and starts again.
Restart ==
    /\ Spend("restart")
    /\ pc' = "discover" /\ known' = {} /\ todo' = {} /\ found' = {} /\ batch' = {}
    /\ UNCHANGED <<redis, cur, handled>>
-----------------------------------------------------------------------------
Loop == \/ Discover
        \/ \E s \in Streams : EnsureGroup(s) \/ Read(s)
        \/ \E n \in Entries : ProcessReturns(n) \/ Ack(n)

Next == \/ Loop \/ ProcessRaises \/ RedisFault \/ Restart
        \/ \E s \in Streams : Add(s) \/ Expire(s)

Spec == Init /\ [][Next]_vars

\* The event loop runs the task; Redis answers and the processor returns.
FairSpec == Spec /\ WF_vars(Loop)
-----------------------------------------------------------------------------
(* Properties *)

\* An entry leaves the pending entries list only after the processor returned from it:
\* neither a failure in the middle of a batch nor a restart acknowledges what was not
\* processed (redis_feedback.py:327-334).
AckedWasProcessed == \A s \in group, n \in Entries :
    gone[s] < n /\ n <= read[s] /\ n \notin pending[s] => n \in handled[s]

\* No entry is read twice, although groups are created again after a restart and streams
\* come back after they expired: the position of a group never goes back.
ReadsForward == [][\A s \in Streams : read'[s] >= read[s]]_vars

\* Entries that were read, not acknowledged, and are in nobody's hands: the loop only
\* reads new entries, so nobody will ever take them up.
Stranded(s) == pending[s] \ (IF s = cur THEN batch ELSE {})

\* Every failure strands at most the one batch in hand, and nothing else strands any.
LossBounded ==
    Cardinality(UNION {{s} \X Stranded(s) : s \in Streams})
        <= Count * (faults["redis"] + faults["publish"] + faults["restart"])

\* A stream the loop knows has lost its group: each round ends when it comes to it.
Blocked(s) == \E t \in known \ group : t <= s

\* Every entry that was added is read, or its stream is gone, or the loop is stopped short
\* of it by a stream that expired: failures of Redis and of the processor, and other
\* streams with or without entries, do not keep it from being read.
EntriesAreRead == \A s \in Streams, n \in Entries :
    n <= added[s] ~> n <= read[s] \/ n <= gone[s] \/ Blocked(s)

=============================================================================
