---------------------------- MODULE MCChatAgent ----------------------------
(* An instance of ChatAgent for TLC: three documents, one of them of two passages; a
   question that is expanded into one, two or three searches, or not at all. *)
EXTENDS ChatAgent

CONSTANTS docA, docB, docC

GlossaryTried == <<"alias">>
Expansion(ok, translation, facets) ==
    [ok |-> ok, aliases |-> <<"name">>, translation |-> translation, facets |-> facets]
ExpansionsTried == {Expansion(FALSE, <<>>, <<>>), Expansion(TRUE, <<"english">>, <<>>),
                    Expansion(TRUE, <<>>, <<"question", "facet", "other">>),
                    Expansion(TRUE, <<"english">>, <<"facet", "other", "third">>)}

Hit(d, c, s) == [resource |-> d, sections |-> <<[chunk |-> c, length |-> 3]>>, score |-> s]
HitListsTried == {<<>>,
                  <<Hit(docA, 1, 2), Hit(docA, 2, 3), Hit(docC, 4, 1)>>,
                  <<Hit(docB, 5, 2), Hit(docC, 4, 0), Hit(docA, 3, 1)>>}

\* A listing shows the newest document first, each by one of its chunks.
AsSource(hit) == [resource |-> hit.resource, text |-> hit.sections]
Listings == {<<>>, <<AsSource(Hit(docC, 4, 1)), AsSource(Hit(docA, 1, 1))>>}

\* What Retrieval makes of these, written out; ChatAgent's assumptions compare them.
Text(chunk, length) == [chunk |-> chunk, length |-> length]
A(sections) == [resource |-> docA, text |-> sections]
Third == <<Text(3, 3)>>
Both == <<Text(2, 2), Text(1, 2)>>
Three == <<Text(2, 1), Text(1, 1), Text(3, 1)>>
B == [resource |-> docB, text |-> <<Text(5, 3)>>]
C == [resource |-> docC, text |-> <<Text(4, 3)>>]
RankingsTried == {<<>>, <<[resource |-> docA, sections |-> Both, score |-> 3], Hit(docC, 4, 1)>>,
                  <<Hit(docB, 5, 2), Hit(docA, 3, 1)>>}
SearchesTried == {<<>>, <<A(Both), C>>, <<A(Three), B>>, <<B, A(Third)>>, <<B, A(Three)>>}
FindingsTried == [tool \in FindTools |-> IF tool = "search" THEN SearchesTried ELSE Listings]

Original(aliases) == Query("question", aliases)
PlansTried == {<<<<Original(<<"alias">>)>>>>,
               <<<<Original(<<"alias", "name">>), Query("english", <<>>)>>>>,
               <<<<Original(<<"alias", "name">>), Query("question", <<>>)>>, <<Query("facet", <<>>)>>,
                 <<Query("other", <<>>)>>>>,
               <<<<Original(<<"alias", "name">>), Query("english", <<>>)>>, <<Query("facet", <<>>)>>,
                 <<Query("other", <<>>)>>>>}
=============================================================================
