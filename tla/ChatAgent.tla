----------------------------- MODULE ChatAgent -----------------------------
(***************************************************************************)
(* One question to the chat: RoutingChatProvider sends it to the single    *)
(* pass (one search, one generation) or to the agent, whose model calls    *)
(* tools and may be started again when it is overloaded.  Sources get      *)
(* numbers in the order they are found; the model cites numbers, and the   *)
(* answer carries the sources that have them.                              *)
(*                                                                         *)
(* The tool calls of one model response run as concurrent tasks, so a step *)
(* is the code between two awaits: a request to the model, a tool's return.*)
(* The searches of the single pass are steps of their own; what one of the *)
(* agent's tools finds, by the same operators, is one.                     *)
(***************************************************************************)
EXTENDS Retrieval

CONSTANTS Resources,      \* resource ids of documents
          FullText,       \* the whole text of one, as get_document returns it
          NoResource,
          Question,       \* the text of the question
          Glossary,       \* the aliases the glossary has for it
          Expansions,     \* what QueryExpander may be told of it
          Plans,          \* what is searched for then
          HitLists,       \* what Qdrant may find for one query
          Rankings,       \* what is left of it: the documents of one query, best first
          Findings,       \* Findings[tool]: the lists of sources a tool may return
          ScoreThreshold, \* of the reranker
          TopN,           \* top_n
          Slots,          \* the tool calls one model response can hold
          MaxRetries,     \* max_retries
          RequestLimit,   \* request_limit: model requests of one attempt
          MaxSources      \* the sources ChatResult accepts

\* A document as the model is shown it: some of its chunks, or its whole text.
AsSources(documents) ==
    AtMost([i \in DOMAIN documents |-> [resource |-> documents[i].resource,
                                        text |-> documents[i].sections]], TopN)

SearchRankings == {Rerank(hits, ScoreThreshold, TopN) : hits \in HitLists}
SearchResults == {AsSources(RoundRobin(lists, TopN)) :
                      lists \in UNION {[1..n -> Rankings] : n \in 1..MaxSearches}}
SearchPlans == {SearchQueries(ComputeQueries(Question, Glossary, expansion)) :
                    expansion \in Expansions}

FindTools == {"search", "list"}
Texts == Seq(Section) \cup {FullText}
Sources == [resource : Resources, text : Texts]
Hits == [resource : Resources, sections : Seq(Section), score : Nat]

\* The resources of a list of sources.
ResourcesOf(list) == {list[i].resource : i \in DOMAIN list}

ASSUME ConstantsAssumption ==
    /\ MaxRetries \in Nat /\ RequestLimit \in Nat /\ MaxSources \in Nat /\ TopN \in Nat
    /\ MaxQueries \in Nat \ {0} /\ MaxSearches \in Nat \ {0}
    /\ NoResource \notin Resources
    /\ Rankings = SearchRankings /\ Plans = SearchPlans /\ Findings["search"] = SearchResults

\* What comes from outside: the model's expansion of a question, Qdrant's hits (one that does
\* not fit into a ChatSource is skipped by _payload_to_source), and the list of documents, which
\* has none twice.
ASSUME ExpansionsAssumption ==
    /\ Question \in STRING /\ Glossary \in Seq(STRING)
    /\ \A expansion \in Expansions :
          /\ expansion.aliases \in Seq(STRING)
          /\ expansion.translation \in Seq(STRING) /\ expansion.facets \in Seq(STRING)

ASSUME HitsAssumption ==
    \A hits \in HitLists :
        hits \in Seq(Hits) /\ \A i \in DOMAIN hits : SumOfLengths(hits[i].sections) <= MaxSnippet

ASSUME ListingsAssumption ==
    \A found \in Findings["list"] :
        /\ found \in Seq(Sources)
        /\ \A i, j \in DOMAIN found : found[i].resource = found[j].resource => i = j

VARIABLES phase,      \* where the question is
          attempt,    \* retries of the agent so far
          requests,   \* model requests of this attempt
          queries,    \* single pass: what is searched for
          rankings,   \* single pass: the ranking of each query that was answered
          turn,       \* single pass: the turns of the merging loop so far
          merged,     \* single pass: the documents merged so far
          retrieved,  \* deps.retrieved_sources: number n is its n-th source
          shown,      \* the numbered texts shown to the model in this attempt
          calls,      \* the tool call each slot runs
          status,     \* how the question ended
          sources     \* the sources of the answer

searchVars == <<queries, rankings, turn, merged>>
vars == <<phase, attempt, requests, searchVars, retrieved, shown, calls, status, sources>>

Idle == [tool |-> "idle", number |-> 0, resource |-> NoResource]
Call == [tool : FindTools \cup {"idle", "count", "get"}, number : Nat,
         resource : Resources \cup {NoResource}]
AllIdle == [s \in Slots |-> Idle]

TypeOK ==
    /\ phase \in {"routing", "expanding", "searching", "generating", "model", "tools",
                 "backoff", "done"}
    /\ attempt \in 0..MaxRetries
    /\ requests \in 0..RequestLimit
    /\ Len(queries) <= MaxSearches
    /\ DOMAIN rankings \subseteq DOMAIN queries
    /\ \A q \in DOMAIN rankings : rankings[q] \in Rankings
    /\ retrieved \in Seq(Sources)
    /\ shown \in SUBSET [number : Nat, source : Sources]
    /\ calls \in [Slots -> Call]
    /\ status \in {"none", "answered", "invalid", "unavailable", "error"}
    /\ sources \in SUBSET Sources
-----------------------------------------------------------------------------
\* route_chat_mode: the rules in their order, on the patterns the question matches.
Patterns == {"smalltalk", "count", "list", "recency", "create"}
RouteChatMode(matches) ==
    IF "smalltalk" \in matches THEN "no_search"
    ELSE IF matches \cap {"count", "list"} # {} \/ {"recency", "create"} \subseteq matches
    THEN "agentic"
    ELSE "single_pass"

\* more is what found adds to list, in the order it was found.
IsNewPart(more, found, list) ==
    /\ {more[i] : i \in DOMAIN more} =
          {found[j] : j \in {k \in DOMAIN found : found[k].resource \notin ResourcesOf(list)}}
    /\ \A i, j \in DOMAIN more : i < j =>
          \E k, l \in DOMAIN found : k < l /\ found[k] = more[i] /\ found[l] = more[j]

\* Mutant: the latest sources come first.
AccumulateInFront(list, more) == more \o list

\* _accumulate_sources
Accumulate(list, more) == list \o more

\* _format_with_citation_numbers: the found sources under their numbers in the list.
Lines(list, found) ==
    {[number |-> p[1], source |-> found[p[2]]] :
        p \in {q \in (DOMAIN list) \X (DOMAIN found) :
                  list[q[1]].resource = found[q[2]].resource}}

\* The parts a found list can leave to be added.
NewParts(found) == UNION {[1..n -> {found[i] : i \in DOMAIN found}] : n \in 0..Len(found)}

Find(found) ==
    \E more \in NewParts(found) :
        /\ IsNewPart(more, found, retrieved)
        /\ retrieved' = Accumulate(retrieved, more)
        /\ shown' = shown \cup Lines(retrieved', found)

\* _select_cited_sources: numbers that are out of range or repeated count for nothing.
SelectCited(list, cited) == {list[n] : n \in cited \cap DOMAIN list}

Finish(outcome) == /\ phase' = "done"
                   /\ status' = outcome
                   /\ calls' = AllIdle
                   /\ UNCHANGED <<attempt, requests, searchVars, retrieved, shown>>

\* The lines a model may write: text, nothing but citation marks, the heading of a footer.
Answers == {<<"text">>, <<"marks">>, <<"text", "heading">>, <<"heading", "text">>}

\* _normalize_answer_format: the footer and all that follows it goes, and so do the marks.
NormalizeAnswer(lines) ==
    LET footer == {i \in DOMAIN lines : lines[i] = "heading"}
        body == {i \in DOMAIN lines : \A f \in footer : i < f}
    IN {i \in body : lines[i] = "text"}

\* ChatResult refuses an answer of which nothing is left, and more sources than it has
\* room for.
Answer(cited, lines) ==
    LET chosen == SelectCited(retrieved, cited)
        valid == NormalizeAnswer(lines) # {} /\ Cardinality(chosen) <= MaxSources
    IN /\ Finish(IF valid THEN "answered" ELSE "invalid")
       /\ sources' = IF valid THEN chosen ELSE {}

Fail(outcome) == Finish(outcome) /\ UNCHANGED sources

\* The numbers a model may cite or ask for, those it made up included.
Numbers == 0..(Len(retrieved) + 1)
-----------------------------------------------------------------------------
Init == /\ phase = "routing" /\ attempt = 0 /\ requests = 0
        /\ queries = <<>> /\ rankings = <<>> /\ turn = 0 /\ merged = <<>>
        /\ retrieved = <<>> /\ shown = {}
        /\ calls = AllIdle
        /\ status = "none" /\ sources = {}

Route(matches) ==
    /\ phase = "routing"
    /\ phase' = IF RouteChatMode(matches) = "single_pass" THEN "expanding" ELSE "model"
    /\ UNCHANGED <<attempt, requests, searchVars, retrieved, shown, calls, status, sources>>

\* SinglePassChatProvider.answer: the queries, then their searches side by side.
Expand(plan) ==
    /\ phase = "expanding"
    /\ phase' = "searching"
    /\ queries' = plan
    /\ UNCHANGED <<attempt, requests, rankings, turn, merged, retrieved, shown, calls, status,
                   sources>>

SearchReturns(q, ranking) ==
    /\ phase = "searching" /\ q \notin DOMAIN rankings
    /\ rankings' = [p \in DOMAIN rankings \cup {q} |-> IF p = q THEN ranking ELSE rankings[p]]
    /\ UNCHANGED <<phase, attempt, requests, queries, turn, merged, retrieved, shown, calls, status,
                   sources>>

\* asyncio.gather raises what the first failing search raises.
SearchFails == phase = "searching" /\ DOMAIN rankings # DOMAIN queries /\ Fail("unavailable")

\* Mutants: one ranking after the other; what is known already is skipped.
TurnByRanking ==
    LET ranking == rankings[(turn \div TopN) + 1]
        rank == (turn % TopN) + 1
    IN /\ phase = "searching" /\ DOMAIN rankings = DOMAIN queries
       /\ turn < TopN * Len(rankings)
       /\ merged' = IF rank > Len(ranking) THEN merged ELSE MergeInto(merged, ranking[rank], TopN)
       /\ turn' = turn + 1
       /\ UNCHANGED <<phase, attempt, requests, queries, rankings, retrieved, shown, calls, status,
                      sources>>
TurnSkipsKnown ==
    /\ phase = "searching" /\ DOMAIN rankings = DOMAIN queries
    /\ turn < TopN * Len(rankings)
    /\ merged' = LET more == TakeTurn(merged, rankings, turn, TopN)
                 IN IF Len(more) > Len(merged) THEN more ELSE merged
    /\ turn' = turn + 1
    /\ UNCHANGED <<phase, attempt, requests, queries, rankings, retrieved, shown, calls, status,
                   sources>>

\* search_queries_in_parallel, one turn of its loop in a step.
Turn ==
    /\ phase = "searching" /\ DOMAIN rankings = DOMAIN queries
    /\ turn < TopN * Len(rankings)
    /\ merged' = TakeTurn(merged, rankings, turn, TopN)
    /\ turn' = turn + 1
    /\ UNCHANGED <<phase, attempt, requests, queries, rankings, retrieved, shown, calls, status,
                   sources>>

\* Nothing found is an answer.
Merged ==
    /\ phase = "searching" /\ DOMAIN rankings = DOMAIN queries
    /\ turn = TopN * Len(rankings)
    /\ IF merged = <<>>
       THEN /\ Finish("answered")
            /\ sources' = {}
       ELSE /\ \E found \in {AsSources(merged)} : Find(found)
            /\ phase' = "generating"
            /\ UNCHANGED <<attempt, requests, searchVars, calls, status, sources>>

\* FallbackStructuredGenerationProvider: only an unavailable primary hands over.
Generated(primary, fallback) == IF primary = "unavailable" THEN fallback ELSE primary

SinglePassGenerate(primary, fallback, cited, lines) ==
    /\ phase = "generating"
    /\ IF Generated(primary, fallback) = "ok"
       THEN Answer(cited, lines)
       ELSE Fail(Generated(primary, fallback))
-----------------------------------------------------------------------------
\* The agent asks the model, unless its requests are used up (UsageLimitExceeded).
AsksModel == phase = "model" /\ requests < RequestLimit

RequestLimitReached ==
    /\ phase = "model" /\ requests = RequestLimit
    /\ Fail("unavailable")

\* get_document binds its source before it first awaits: a number that is out of range is
\* refused at once, and what other calls add later does not matter.
StartedCalls ==
    {Idle}
    \cup {[tool |-> t, number |-> 0, resource |-> NoResource] : t \in FindTools \cup {"count"}}
    \cup {[tool |-> "get", number |-> n,
           resource |-> IF n \in DOMAIN retrieved THEN retrieved[n].resource ELSE NoResource] :
              n \in Numbers}

\* Mutant: the request is not counted.
CallToolsFreely(started) ==
    /\ AsksModel
    /\ started # AllIdle
    /\ calls' = started
    /\ phase' = "tools"
    /\ UNCHANGED <<attempt, requests, searchVars, retrieved, shown, status, sources>>

ModelCallsTools(started) ==
    /\ AsksModel
    /\ started # AllIdle
    /\ calls' = started
    /\ phase' = "tools"
    /\ requests' = requests + 1
    /\ UNCHANGED <<attempt, searchVars, retrieved, shown, status, sources>>

ModelAnswers(cited, lines) == AsksModel /\ Answer(cited, lines)

\* _is_retryable_overload: every model that was tried must have been overloaded.
IsRetryableOverload(causes) == causes = {"overloaded"}

ModelFails(causes) ==
    /\ AsksModel
    /\ IF ~IsRetryableOverload(causes) THEN Fail("error")
       ELSE IF attempt = MaxRetries THEN Fail("unavailable")
       ELSE /\ phase' = "backoff"
            /\ UNCHANGED <<attempt, requests, searchVars, retrieved, shown, calls, status, sources>>

\* Mutant: the sources of the failed attempt stay.
RetryKeepsSources == /\ phase = "backoff"
                     /\ attempt' = attempt + 1
                     /\ requests' = 0
                     /\ shown' = {}
                     /\ phase' = "model"
                     /\ UNCHANGED <<retrieved, searchVars, calls, status, sources>>

\* The sleep ends: the sources of the failed attempt are forgotten, and the agent starts
\* a conversation in which the model has seen nothing.
Retry == /\ phase = "backoff"
         /\ attempt' = attempt + 1
         /\ requests' = 0
         /\ retrieved' = <<>>
         /\ shown' = {}
         /\ phase' = "model"
         /\ UNCHANGED <<searchVars, calls, status, sources>>

\* A tool call is over; after the last one the model is asked again.
EndCall(s) == /\ calls' = [calls EXCEPT ![s] = Idle]
              /\ phase' = IF calls' = AllIdle THEN "model" ELSE "tools"
              /\ UNCHANGED <<attempt, requests, searchVars, status, sources>>

FindReturns(s, found) ==
    /\ phase = "tools" /\ calls[s].tool \in FindTools
    /\ found \in Findings[calls[s].tool]
    /\ Find(found)
    /\ EndCall(s)

CountReturns(s) ==
    /\ phase = "tools" /\ calls[s].tool = "count"
    /\ EndCall(s)
    /\ UNCHANGED <<retrieved, shown>>

\* A document that was removed, or hidden from the user, meanwhile has no text to show.
GetReturns(s, stored) ==
    /\ phase = "tools" /\ calls[s].tool = "get"
    /\ shown' = IF stored /\ calls[s].resource # NoResource
                THEN shown \cup {[number |-> calls[s].number,
                                  source |-> [resource |-> calls[s].resource,
                                              text |-> FullText]]}
                ELSE shown
    /\ EndCall(s)
    /\ UNCHANGED retrieved

\* Qdrant or the embedding fails: the run is over, the other calls are cancelled.
ToolFails(s) ==
    /\ phase = "tools" /\ calls[s].tool # "idle"
    /\ calls[s].tool = "get" => calls[s].resource # NoResource
    /\ Fail("unavailable")

Next ==
    \/ \E matches \in SUBSET Patterns : Route(matches)
    \/ \E plan \in Plans : Expand(plan)
    \/ \E q \in DOMAIN queries, ranking \in Rankings : SearchReturns(q, ranking)
    \/ SearchFails
    \/ Turn
    \/ Merged
    \/ \E primary, fallback \in {"ok", "unavailable", "error"}, cited \in SUBSET Numbers,
          lines \in Answers : SinglePassGenerate(primary, fallback, cited, lines)
    \/ RequestLimitReached
    \/ \E started \in [Slots -> StartedCalls] : ModelCallsTools(started)
    \/ \E cited \in SUBSET Numbers, lines \in Answers : ModelAnswers(cited, lines)
    \/ \E causes \in SUBSET {"overloaded", "other"} \ {{}} : ModelFails(causes)
    \/ Retry
    \/ \E s \in Slots : \/ \E found \in Findings["search"] \cup Findings["list"] :
                              FindReturns(s, found)
                        \/ CountReturns(s)
                        \/ \E stored \in BOOLEAN : GetReturns(s, stored)
                        \/ ToolFails(s)

Spec == Init /\ [][Next]_vars

\* Every request the code awaits has a timeout (10 s for Qdrant, 20 s for the model), and
\* the sleep between attempts ends.
FairSpec == Spec /\ WF_vars(Next)
-----------------------------------------------------------------------------
\* Whatever tools run side by side and in whatever order they return, a number that was
\* shown to the model keeps meaning the document it was shown with: the answer recovers
\* sources by number (_format_with_citation_numbers, _select_cited_sources).
CitationsStable ==
    \A line \in shown :
        /\ line.number \in DOMAIN retrieved
        /\ retrieved[line.number].resource = line.source.resource

\* A document has one number: none is cited twice under two (_accumulate_sources).
OneNumberEach ==
    \A i, j \in DOMAIN retrieved : retrieved[i].resource = retrieved[j].resource => i = j

\* The places of the rankings, each a query and a rank, what is there, and in which order the
\* loop comes to them.
Places == UNION {{q} \X DOMAIN rankings[q] : q \in DOMAIN rankings}
Document(f) == rankings[f[1]][f[2]]
Before(f, g) == f[2] < g[2] \/ (f[2] = g[2] /\ f[1] < g[1])
PlacesOf(resource) == {f \in Places : Document(f).resource = resource}
SectionsAt(places) == UNION {{f} \X DOMAIN Document(f).sections : f \in places}

\* Round-robin: no topic crowds out another.  A document that is left out is in no ranking
\* above one that is taken in (search_queries_in_parallel).
MergedFairly ==
    phase = "generating" =>
        \A f \in Places : Document(f).resource \notin ResourcesOf(retrieved) =>
            /\ Len(retrieved) = TopN
            /\ \A taken \in ResourcesOf(retrieved) : \E g \in PlacesOf(taken) : Before(g, f)

\* "서로 다른 근거 조각을 모두": every chunk that any of the searches ranked for a document
\* is in what the model reads of it, unless there are more than a snippet has sections for
\* (merge_chat_sources); and what it reads fits into ChatSource.
EvidenceKept ==
    phase = "generating" =>
        \A n \in DOMAIN retrieved :
            LET text == retrieved[n].text
                found == SectionsAt(PlacesOf(retrieved[n].resource))
            IN /\ SumOfLengths(text) <= MaxSnippet
               /\ Cardinality(found) <= MaxSections =>
                      \A p \in found : \E t \in DOMAIN text :
                          text[t].chunk = Document(p[1]).sections[p[2]].chunk

\* An outcome is given once, and an answer cites only what the model was shown in the
\* attempt that produced it, never what an overloaded attempt had found before.
Ground == INSTANCE GroundedAnswer WITH
    evidence <- {line.source : line \in shown},
    outcome <- IF status = "none" THEN "none"
               ELSE IF status = "answered" THEN "answered" ELSE "failed",
    cited <- sources
Grounded == Ground!GroundSpec

\* Every question ends, however often the model calls tools or is overloaded.
QuestionSettled == <>(phase = "done")
=============================================================================
