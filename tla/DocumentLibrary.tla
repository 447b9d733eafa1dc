-------------------------- MODULE DocumentLibrary --------------------------
(***************************************************************************)
(* From a document to what the chat reads of it: DocumentIndexingWorkflow  *)
(* takes the text from the request or a file, DocumentChunker splits it,   *)
(* the chunks are embedded and replace the document's points; readers      *)
(* (QdrantChatRetriever) search, list, count and fetch documents at any    *)
(* time, each through one request with the access filter of its user, and  *)
(* a running meeting is told of earlier minutes (MeetingFeedbackWorkflow). *)
(*                                                                         *)
(* One request is handled after the other here; what overlapping requests, *)
(* redeliveries and crashes do is the business of DocumentIndex.  Times    *)
(* are hours in UTC.                                                       *)
(***************************************************************************)
EXTENDS DocumentChunker, Selection, SequencesExt, FiniteSetsExt

CONSTANTS Backends,        \* sets of index requests (IndexDocumentCommand with its file)
          NoRequest,
          Commands,        \* who asks: user and shared workspaces of a ChatCommand
          SourceTypes,     \* the sets of types a question may be narrowed to
          Rooms,           \* the meetings that run: a MeetingFeedbackCommand
          MaxFeedback,     \* _MAX_FEEDBACK_SOURCES
          Periods,         \* the dates a model may pass: createdAfter, createdBefore
          PageLimit,       \* _SCROLL_FETCH_LIMIT
          ListLimit,       \* limit of list_by_owner
          SearchLimit,     \* limit of search
          MaxTextChars,    \* document_max_chars
          MinPdfText,      \* _MIN_PDF_TEXT_CHARS
          KstOffset        \* hours Korea is ahead of UTC

Requests == UNION Backends
Docs == {r.doc : r \in Requests}

\* Hours are counted from a day long past.
ASSUME RequestsAssumption ==
    \A r \in Requests : /\ r \in [doc : Docs, source : {"content", "pdf", "image", "office",
                                             "unknown", "corrupt"},
                                   text : Texts, type : STRING, owner : {r.owner},
                                   users : SUBSET r.users, departments : SUBSET r.departments,
                                   workspaces : SUBSET r.workspaces, created : Nat,
                                   organization : SUBSET r.organization, meeting : SUBSET r.meeting,
                                   longTitle : BOOLEAN]
                        /\ NoRequest # r

\* A page and the limits are not negative; a bound is a date or an instant, if it is one.
ASSUME ReadersAssumption ==
    /\ ListLimit \in Nat /\ MaxFeedback \in Nat
    /\ KstOffset \in Int /\ MaxTextChars \in Int
    /\ \A period \in Periods : period.after.at \in Int /\ period.before.at \in Int

VARIABLES backend,   \* the requests the backend may send; never changes
          stage,     \* where the workflow is
          request,   \* the request it handles
          result,    \* how it ended: DocumentIndexingResult or the AiError
          points,    \* the payloads in the collection
          stored,    \* history: the request and chunks a document was last stored with
          reply      \* the answer a reader has just been given

libraryVars == <<backend, stage, request, result, points, stored, reply>>
vars == <<chunkVars, libraryVars>>

NoReply == [op |-> "none"]
NotStored == [request |-> NoRequest, chunks |-> <<>>]
Indexed == [ok |-> TRUE, retryable |-> FALSE]
Failed(retryable) == [ok |-> FALSE, retryable |-> retryable]
-----------------------------------------------------------------------------
\* FileTextExtractor.extract: pictures, and PDFs with next to no text, are read by Gemini.
NeedsOcr(r) == \/ r.source = "image"
               \/ /\ r.source = "pdf"
                  /\ r.text = <<>> \/ r.text[1].length < MinPdfText

\* _resolve_content: S3 and Gemini may be out of service, a format may be unknown; a docx
\* that cannot be opened raises an error of python-docx, which the consumer retries.
ResolveFails(r, available) ==
    IF r.source = "content" THEN {}
    ELSE IF ~available.storage THEN {Failed(TRUE)}
    ELSE IF r.source \in {"unknown", "corrupt"} THEN {Failed(r.source = "corrupt")}
    ELSE IF NeedsOcr(r) /\ ~available.ocr THEN {Failed(TRUE)}
    ELSE {}

\* Checks of execute before any chunk is made.
Refused(r) == r.text = <<>> \/ r.users \cup r.departments \cup r.workspaces = {}

\* OpenAIEmbeddingProvider.embed: what n texts and an answer come to.
EmbeddingFails(answer, n) ==
    IF answer.status # "ok" THEN {Failed(answer.status = "unavailable")}
    ELSE IF answer.vectors = 0 THEN {Failed(FALSE)}
    ELSE IF answer.vectors # n THEN {Failed(TRUE)}
    ELSE {}

FeedbackTypes == {"RESOLVED_TOPIC", "DECISION_REMINDER", "DUPLICATE_DISCUSSION"}
ChatSourceType(type) == IF type = "MEETING_MINUTES" THEN "MINUTES" ELSE type

\* The payload of a chunk, as far as readers look at it; absent keys match nothing.
Payload(r, index, chunk) ==
    [sourceId |-> {r.doc}, sourceType |-> {ChatSourceType(r.type)}, ownerUserId |-> {r.owner},
     allowedUserIds |-> r.users, sharedWorkspaceIds |-> r.workspaces,
     organizationId |-> r.organization, meetingId |-> r.meeting,
     createdAt |-> r.created, longTitle |-> r.longTitle, chunkIndex |-> index, content |-> chunk]
-----------------------------------------------------------------------------
LibraryInit ==
    /\ ChunkInit
    /\ backend \in Backends
    /\ stage = "idle" /\ request = NoRequest /\ result = Indexed
    /\ points = {} /\ stored = [d \in Docs |-> NotStored] /\ reply = NoReply

End(outcome) == stage' = "idle" /\ request' = NoRequest /\ result' = outcome

Receive(r, available) ==
    LET unresolved == ResolveFails(r, available)
        failures == IF unresolved = {} /\ Refused(r) THEN {Failed(FALSE)} ELSE unresolved
    IN /\ stage = "idle"
       /\ IF failures # {}
          THEN /\ \E f \in failures : End(f)
               /\ UNCHANGED chunkVars
          ELSE /\ Split(r.text)
               /\ stage' = "splitting" /\ request' = r
               /\ UNCHANGED result
       /\ reply' = NoReply
       /\ UNCHANGED <<backend, points, stored>>

EmbeddingAnswers ==
    [status : {"ok", "refused", "unavailable"}, vectors : 0..(Len(chunks) + 1)]

SplitOn == stage = "splitting" /\ ChunkStep /\ UNCHANGED libraryVars

Embed(answer) ==
    LET failures == EmbeddingFails(answer, Len(chunks))
    IN /\ stage = "splitting" /\ phase = "done"
       /\ IF failures # {} THEN \E f \in failures : End(f)
          ELSE stage' = "deleting" /\ UNCHANGED <<request, result>>
       /\ reply' = NoReply
       /\ UNCHANGED <<chunkVars, backend, points, stored>>

PointsOf(d) == {p \in points : d \in p.sourceId}

\* replace_document is two requests, delete, then upsert, and either may fail: a failure that
\* is worth a retry may have taken effect (an answer that was lost), a refusal has not.
QdrantAnswers == [applied : {TRUE}, outcome : {Indexed, Failed(TRUE)}]
                 \cup [applied : {FALSE}, outcome : {Failed(TRUE), Failed(FALSE)}]

Delete(answer) ==
    /\ stage = "deleting"
    /\ IF answer.outcome.ok THEN stage' = "upserting" /\ UNCHANGED <<request, result>>
       ELSE End(answer.outcome)
    /\ IF answer.applied
       THEN /\ points' = points \ PointsOf(request.doc)
            /\ stored' = [stored EXCEPT ![request.doc] = NotStored]
       ELSE UNCHANGED <<points, stored>>
    /\ reply' = NoReply
    /\ UNCHANGED <<chunkVars, backend>>

\* Mutant: after a failed upsert the document is replaced again at once.
UpsertAgain(answer) ==
    /\ stage = "upserting"
    /\ IF answer.outcome.retryable THEN stage' = "deleting" /\ UNCHANGED <<request, result>>
       ELSE End(answer.outcome)
    /\ IF answer.applied
       THEN /\ points' = points \cup {Payload(request, i, chunks[i]) : i \in DOMAIN chunks}
            /\ stored' = [stored EXCEPT ![request.doc] = [request |-> request, chunks |-> chunks]]
       ELSE UNCHANGED <<points, stored>>
    /\ reply' = NoReply
    /\ UNCHANGED <<chunkVars, backend>>

Upsert(answer) ==
    /\ stage = "upserting" /\ End(answer.outcome)
    /\ IF answer.applied
       THEN /\ points' = points \cup {Payload(request, i, chunks[i]) : i \in DOMAIN chunks}
            /\ stored' = [stored EXCEPT ![request.doc] = [request |-> request, chunks |-> chunks]]
       ELSE UNCHANGED <<points, stored>>
    /\ reply' = NoReply
    /\ UNCHANGED <<chunkVars, backend>>

RemoveDocument(d) ==
    /\ stage = "idle" /\ reply' = NoReply
    /\ points' = points \ PointsOf(d)
    /\ stored' = [stored EXCEPT ![d] = NotStored]
    /\ UNCHANGED <<chunkVars, backend, stage, request, result>>
-----------------------------------------------------------------------------
\* A Qdrant filter: every clause must have a condition the payload meets.
Condition(key, values) == [key |-> key, values |-> values]
Meets(p, condition) == condition.key \in DOMAIN p /\ p[condition.key] \cap condition.values # {}
Matching(filter) == {p \in points : \A clause \in filter : \E c \in clause : Meets(p, c)}

\* Mutant: the type is one more alternative.
FilterEither(command, types) ==
    {{Condition("ownerUserId", {command.user}), Condition("allowedUserIds", {command.user}),
      Condition("sharedWorkspaceIds", command.workspaces), Condition("sourceType", types)}}

\* build_chat_access_filter.  Payloads have no workspaceId of their own.
AccessFilter(command, types) ==
    LET personal == {Condition("ownerUserId", {command.user}),
                     Condition("allowedUserIds", {command.user})}
        shared == {Condition("workspaceId", command.workspaces),
                   Condition("sharedWorkspaceIds", command.workspaces)}
    IN {IF command.workspaces = {} THEN personal ELSE personal \cup shared}
       \cup (IF types = {} THEN {} ELSE {{Condition("sourceType", types)}})

\* The further clause of get_document.
DocumentFilter(command, d) ==
    AccessFilter(command, {}) \cup {{Condition("documentId", {d}), Condition("sourceId", {d})}}

\* One page of a scroll, in an order the random ids of the points give.
Pages(matching) == IF Cardinality(matching) <= PageLimit THEN {matching}
                   ELSE kSubset(PageLimit, matching)

\* _payload_to_source refuses a title that is longer than a ChatSource has room for.
Readable(ps) == {p \in ps : ~p.longTitle}

\* _parse_day_bound: a date is midnight in Korea; an end is moved by a day unless it has a T,
\* so an instant that is written with a space is moved too; a value that is none of these is
\* no bound.
IsBound(bound) == bound.kind \in {"day", "instant", "spaced"}
BoundStart(bound) == IF bound.kind = "day" THEN 24 * bound.at - KstOffset ELSE bound.at
\* Mutant: a last day ends where it begins.
DayBoundExact(bound, end) == BoundStart(bound)
DayBound(bound, end) ==
    BoundStart(bound) + (IF end /\ bound.kind # "instant" THEN 24 ELSE 0)

CreatedWithin(p, period) ==
    /\ IsBound(period.after) => p.createdAt >= DayBound(period.after, FALSE)
    /\ IsBound(period.before) => p.createdAt < DayBound(period.before, TRUE)

\* _recent_documents: documents, each once, by the newest of the rows it has.
IsRecent(list, rows) ==
    LET Newest(d) == CHOOSE h \in {p.createdAt : p \in rows} :
                         /\ \E p \in rows : d \in p.sourceId /\ p.createdAt = h
                         /\ \A p \in rows : d \in p.sourceId => p.createdAt <= h
    IN /\ {list[i] : i \in DOMAIN list} = UNION {p.sourceId : p \in rows}
       /\ \A i, j \in DOMAIN list : i < j => /\ list[i] # list[j]
                                             /\ Newest(list[i]) >= Newest(list[j])

\* A read is one request: nothing changes the collection while it is answered.
CanRead == reply = NoReply /\ stage \in {"idle", "upserting"}
Answer(r) == /\ CanRead
             /\ reply' = r
             /\ UNCHANGED <<chunkVars, backend, stage, request, result, points, stored>>

\* search: how RRF ranks the candidates is left open.
Search(command, types, hits) ==
    /\ \A i \in DOMAIN hits : hits[i] \in Readable(Matching(AccessFilter(command, types)))
    /\ Answer([op |-> "search", command |-> command, types |-> types,
               found |-> [i \in DOMAIN hits |-> CHOOSE d \in Docs : d \in hits[i].sourceId]])

\* list_by_owner, and count_by_owner, which is the length of the list before its end is cut.
List(command, types, period, page, list) ==
    /\ IsRecent(list, {p \in Readable(page) : CreatedWithin(p, period)})
    /\ Answer([op |-> "list", command |-> command, types |-> types, period |-> period,
               capped |-> page # Matching(AccessFilter(command, types)),
               count |-> Len(list),
               found |-> SubSeq(list, 1, Min({ListLimit, Len(list)}))])

\* Mutant: the last chunk first.
ByIndexDescending(page) ==
    [n \in 1..Cardinality(page) |->
        CHOOSE p \in page : Cardinality({q \in page : q.chunkIndex >= p.chunkIndex}) = n]

\* get_document and _join_document_chunks: the chunks by their index, joined by line breaks
\* and cut at MaxTextChars.
ByIndex(page) ==
    [n \in 1..Cardinality(page) |->
        CHOOSE p \in page : Cardinality({q \in page : q.chunkIndex <= p.chunkIndex}) = n]
TextLength(parts) == Cardinality(UNION {{i} \X (0..parts[i].length) : i \in DOMAIN parts}) - 1
Begins(parts, i) == TextLength(SubSeq(parts, 1, i - 1)) + 1
Kept(parts) ==
    SubSeq(parts, 1, Cardinality({i \in DOMAIN parts : Begins(parts, i) < MaxTextChars}))

GetDocument(command, d, page) ==
    LET parts == [i \in 1..Cardinality(page) |-> ByIndex(page)[i].content]
    IN /\ page \in Pages(Matching(DocumentFilter(command, d)))
       /\ Answer([op |-> "get", command |-> command, types |-> {}, doc |-> d,
                  found |-> IF page = {} THEN <<>> ELSE <<d>>,
                  capped |-> page # Matching(DocumentFilter(command, d)),
                  cut |-> TextLength(parts) > MaxTextChars,
                  text |-> Kept(parts)])

\* build_feedback_access_filter; must_not is Elsewhere.
FeedbackFilter(room) ==
    {{Condition("organizationId", {room.organization})},
     {Condition("sourceType", {"MEETING_MINUTES", "MINUTES"})}}
    \cup {{Condition("allowedUserIds", {user})} : user \in room.participants}
Elsewhere(room) == {p \in points : room.meeting \notin p.meetingId}

\* MeetingFeedbackWorkflow.execute: the first hits that score high enough and are classified
\* (their class is not "none"); the best one says what kind of feedback it is.
Feedback(room, hits, classes) ==
    LET qualified == {i \in DOMAIN hits : classes[i] # "none"}
        sources == [n \in 1..Min({MaxFeedback, Cardinality(qualified)}) |-> Nth(qualified, n)]
    IN /\ \A i \in DOMAIN hits :
             hits[i] \in Readable(Matching(FeedbackFilter(room)) \cap Elsewhere(room))
       /\ Answer([op |-> "feedback", room |-> room,
                  class |-> IF sources = <<>> THEN "none" ELSE classes[sources[1]],
                  found |-> [n \in DOMAIN sources |->
                                CHOOSE d \in Docs : d \in hits[sources[n]].sourceId]])

Forget == /\ reply # NoReply
          /\ reply' = NoReply
          /\ UNCHANGED <<chunkVars, backend, stage, request, result, points, stored>>

Next ==
    \/ \E r \in backend, available \in [storage : BOOLEAN, ocr : BOOLEAN] : Receive(r, available)
    \/ SplitOn
    \/ \E answer \in EmbeddingAnswers : Embed(answer)
    \/ \E answer \in QdrantAnswers : Delete(answer) \/ Upsert(answer)
    \/ \E d \in Docs : RemoveDocument(d)
    \/ CanRead /\ \E command \in Commands, types \in SourceTypes :
          \/ \E hits \in SeqOf(points, SearchLimit) : Search(command, types, hits)
          \/ \E page \in Pages(Matching(AccessFilter(command, types))), period \in Periods,
                list \in SeqOf(Docs, Cardinality(Docs)) : List(command, types, period, page, list)
    \/ CanRead /\ \E command \in Commands, d \in Docs :
          \E page \in Pages(Matching(DocumentFilter(command, d))) : GetDocument(command, d, page)
    \/ CanRead /\ \E room \in Rooms, hits \in SeqOf(points, SearchLimit) :
          \E classes \in [DOMAIN hits -> FeedbackTypes \cup {"none"}] : Feedback(room, hits, classes)
    \/ Forget

Spec == LibraryInit /\ [][Next]_vars

\* execute runs on between its awaits, and each of these ends: clients have a timeout.
Work == \/ SplitOn
        \/ \E answer \in EmbeddingAnswers : Embed(answer)
        \/ \E answer \in QdrantAnswers : Delete(answer) \/ Upsert(answer)
FairSpec == Spec /\ WF_vars(Work)
-----------------------------------------------------------------------------
TypeOK ==
    /\ ChunkTypeOK
    /\ backend \in Backends
    /\ stage \in {"idle", "splitting", "deleting", "upserting"}
    /\ request \in Requests \cup {NoRequest}
    /\ stage = "idle" <=> request = NoRequest
    /\ result \in [ok : BOOLEAN, retryable : BOOLEAN]
    /\ \A p \in points : \E r \in Requests : p = Payload(r, p.chunkIndex, p.content)
    /\ stored \in [Docs -> [request : Requests \cup {NoRequest}, chunks : Seq(Chunk)]]

\* Who may see a document, and what a period is, as a user would say it.
MaySee(command, r) == \/ command.user = r.owner
                      \/ command.user \in r.users
                      \/ command.workspaces \cap r.workspaces # {}
KstDay(hour) == (hour + KstOffset) \div 24
\* An end that is written with a space is taken for a day, although it is none: a day more.
InPeriod(hour, period) ==
    /\ period.after.kind = "day" => KstDay(hour) >= period.after.at
    /\ period.before.kind = "day" => KstDay(hour) <= period.before.at
    /\ period.after.kind \in {"instant", "spaced"} => hour >= period.after.at
    /\ period.before.kind = "instant" => hour < period.before.at
    /\ period.before.kind = "spaced" => hour < period.before.at + 24

IsStored(d) == stored[d].request # NoRequest
AskedFor(r) == /\ MaySee(reply.command, r)
               /\ reply.types # {} => ChatSourceType(r.type) \in reply.types
               /\ reply.op = "list" => InPeriod(r.created, reply.period)

\* What may be shown to a whole meeting: minutes of its organisation that every one of its
\* participants is allowed to read, but not its own.
FitsRoom(r, room) == /\ r.type \in {"MEETING_MINUTES", "MINUTES"}
                     /\ room.organization \in r.organization
                     /\ room.participants \subseteq r.users
                     /\ room.meeting \notin r.meeting

\* Whatever is read, found or listed was stored by a request whose scope admits the user,
\* and is of the type and the Korean days that were asked for (build_chat_access_filter,
\* _recent_documents); and what a meeting is shown, all its participants may read
\* (build_feedback_access_filter).
OnlyAskedFor ==
    reply # NoReply =>
        \A i \in DOMAIN reply.found :
            /\ IsStored(reply.found[i])
            /\ LET r == stored[reply.found[i]].request
               IN IF reply.op = "feedback" THEN FitsRoom(r, reply.room) ELSE AskedFor(r)

\* A count is that of all such documents, and a list names every one, once, however many
\* chunks it has, unless more points match than one page holds or its title is too long
\* for a source.
ListingComplete ==
    reply.op = "list" /\ ~reply.capped =>
        LET all == {d \in Docs : /\ IsStored(d) /\ AskedFor(stored[d].request)
                                 /\ ~stored[d].request.longTitle}
        IN /\ reply.count = Cardinality(all)
           /\ reply.count <= ListLimit => all \subseteq {reply.found[i] : i \in DOMAIN reply.found}

\* get_document gives the whole text in its order, or nothing: never a mix of two versions,
\* nor a part, although a replacement takes two requests.
DocumentWhole ==
    reply.op = "get" /\ ~reply.capped /\ ~reply.cut =>
        reply.text = IF IsStored(reply.doc) /\ MaySee(reply.command, stored[reply.doc].request)
                     THEN stored[reply.doc].chunks ELSE <<>>

\* Whatever its text is made of and whichever service fails in whichever way, a request ends
\* (DocumentIndexingWorkflow.execute): all windows and rows get done, and no step waits.
RequestEnds == stage # "idle" ~> stage = "idle"
=============================================================================
