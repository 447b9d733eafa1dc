----------------------------- MODULE Retrieval -----------------------------
(***************************************************************************)
(* The search of the chat around its two requests (embedding and Qdrant):  *)
(* what is searched for, how the hits of one query are reranked and how    *)
(* the results of the queries become one list of documents.                *)
(*                                                                         *)
(* A snippet is the sequence of its sections, and a section is a chunk of  *)
(* the document with the number of its characters that are left.           *)
(***************************************************************************)
EXTENDS Integers, SequencesExt, FiniteSetsExt, Selection

CONSTANTS MaxSnippet,      \* _MAX_SNIPPET_CHARS
          MaxSections,     \* _MAX_SECTIONS
          SeparatorLength, \* of _SECTION_SEPARATOR
          MaxQueries,      \* _MAX_SEARCH_QUERIES
          MaxSearches      \* _MAX_PARALLEL_SEARCHES

\* A snippet has room for a character of each section, and what separates them.
ASSUME SnippetAssumption ==
    /\ MaxSections \in Nat \ {0} /\ SeparatorLength \in Nat /\ MaxSnippet \in Nat
    /\ MaxSnippet >= MaxSections + SeparatorLength * (MaxSections - 1)

Section == [chunk : Nat, length : Nat]

AtMost(list, n) == SubSeq(list, 1, Min({n, Len(list)}))

\* dict.fromkeys, "not in seen": every element where it first occurs.
Distinct(list) == FirstOfEach(list, list)

\* sorted(..., reverse=True): best score first, equal scores in their order.
BestFirst(list) ==
    LET Before(i, j) == \/ list[i].score > list[j].score
                        \/ list[i].score = list[j].score /\ i < j
        Best(k) == CHOOSE i \in DOMAIN list : Cardinality({j \in DOMAIN list : Before(j, i)}) = k - 1
    IN [k \in DOMAIN list |-> list[Best(k)]]

\* The characters of the sections of a snippet, and its length, separators included.
Characters(sections) == UNION {{s} \X (1..sections[s].length) : s \in DOMAIN sections}
SumOfLengths(sections) ==
    Cardinality(Characters(sections)) + SeparatorLength * (Len(sections) - 1)
-----------------------------------------------------------------------------
\* QueryExpander._compute_queries.  A query is a text with the aliases added to it; the
\* expansion fails (ok is FALSE) into the original with the aliases of the glossary.
Query(text, aliases) == [text |-> text, aliases |-> aliases]
ComputeQueries(query, aliases, expansion) ==
    LET original == Query(query, Distinct(aliases \o (IF expansion.ok THEN expansion.aliases ELSE <<>>)))
        others == IF expansion.ok THEN expansion.translation \o AtMost(expansion.facets, 3) ELSE <<>>
    IN AtMost(Distinct(<<original>> \o [i \in DOMAIN others |-> Query(others[i], <<>>)]), MaxQueries)

\* QueryExpander.search_queries: a search is the sequence of the queries joined for it.
SearchQueries(expanded) ==
    IF Len(expanded) <= 2 THEN <<expanded>>
    ELSE AtMost(<<SubSeq(expanded, 1, 2)>> \o [i \in 1..(Len(expanded) - 2) |-> <<expanded[i + 2]>>],
                MaxSearches)
-----------------------------------------------------------------------------
\* merge_chat_sources: the distinct sections of both, as many as there is room for, and the
\* room shared equally between them.
MergeSources(primary, additional) ==
    LET all == Distinct(primary.sections \o additional.sections)
        count == Min({MaxSections, Len(all)})
        room == (MaxSnippet - SeparatorLength * (count - 1)) \div count
        Cut(section) == [section EXCEPT !.length = Min({@, Max({1, room})})]
    IN [primary EXCEPT !.sections = AtMost([i \in DOMAIN all |-> Cut(all[i])], MaxSections),
                       !.score = Max({@, additional.score})]

\* The loop body that VectorScoreReranker and search_queries_in_parallel share: a document
\* that is there already takes the hit up, a new one needs room.
MergeInto(documents, hit, room) ==
    LET same == {i \in DOMAIN documents : documents[i].resource = hit.resource}
    IN IF same # {} THEN [documents EXCEPT ![Min(same)] = MergeSources(@, hit)]
       ELSE IF Len(documents) < room THEN Append(documents, hit)
       ELSE documents

MergeAll(hits, room) ==
    LET documents[n \in 0..Len(hits)] ==
            IF n = 0 THEN <<>> ELSE MergeInto(documents[n - 1], hits[n], room)
    IN documents[Len(hits)]

\* VectorScoreReranker.rerank
Rerank(hits, threshold, topN) ==
    LET best == BestFirst(hits)
        kept == At(best, {i \in DOMAIN best : best[i].score >= threshold})
    IN AtMost(MergeAll(kept, Len(hits)), topN)

\* search_queries_in_parallel: the first of every ranking, then the second of every one...
\* One turn of its loop, counted from 0, and the loop.
TakeTurn(merged, rankings, turn, topN) ==
    LET ranking == rankings[(turn % Len(rankings)) + 1]
        rank == (turn \div Len(rankings)) + 1
    IN IF rank > Len(ranking) THEN merged ELSE MergeInto(merged, ranking[rank], topN)

RoundRobin(rankings, topN) ==
    LET turns == topN * Len(rankings)
        merged[t \in 0..turns] ==
            IF t = 0 THEN <<>> ELSE TakeTurn(merged[t - 1], rankings, t - 1, topN)
    IN merged[turns]
=============================================================================
