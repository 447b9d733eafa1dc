--------------------------- MODULE MinutesEditing ---------------------------
(***************************************************************************)
(* The pure steps between a transcript and the minutes that are edited:    *)
(* pipelines/transcript.py, minutes_evidence.py, minutes_quality.py and    *)
(* tiptap.py.                                                              *)
(*                                                                         *)
(* A line of a transcript is what is counted of it.  A text is its letters *)
(* (a name for what casefold makes of them), how it spells them, where it  *)
(* has white space to spare, and what is counted of it; its length is that *)
(* of the cleaned text, 0 if it is blank.  Spellings of the same letters   *)
(* need not be as long: casefold makes "ss" of a sharp s.  Names that      *)
(* differ differ by more than case.                                        *)
(***************************************************************************)
EXTENDS Selection, SequencesExt, FiniteSetsExt

CONSTANTS NoText, NoName   \* None

\* The order in which max meets them: the first of equal counts wins.
Scripts == <<"hangul", "latin", "kana", "han">>

Line == {line \in [kind : {"speech", "link", "blank"}, count : [ToSet(Scripts) -> Nat],
                   letters : Nat, length : Nat] :
            line.kind = "blank" => \A script \in ToSet(Scripts) : line.count[script] = 0}
Segment == [sequence : Int, line : Line, suspicious : BOOLEAN]
Text == [letters : STRING, spelling : STRING, spaces : {"single", "around", "inside"},
         length : Nat, words : Nat, hangul : Nat, latin : Nat]
Name == STRING \cup {NoName}

\* What a model may find in a meeting.
EvidenceDecision == [content : Text, sources : SUBSET Int]
EvidenceActionItem == [content : Text, sources : SUBSET Int, assignee : Name, due : Name]
EvidenceAgendaItem == [title : Text, points : Seq(Text), sources : SUBSET Int,
                       decision : Text \cup {NoText}]
MinutesEvidence == [summary : Text, agenda : Seq(EvidenceAgendaItem),
                    decisions : Seq(EvidenceDecision), actions : Seq(EvidenceActionItem)]

\* Mutant: links stay.
NormalizeBlanks(lines) == At(lines, {i \in DOMAIN lines : lines[i].kind # "blank"})

\* normalize_raw_transcript: blank lines and those of shared links go.
Normalize(lines) == At(lines, {i \in DOMAIN lines : lines[i].kind = "speech"})

\* transcript_to_segments
TranscriptToSegments(lines) ==
    LET said == Normalize(lines)
    IN [i \in DOMAIN said |-> [sequence |-> i, line |-> said[i], suspicious |-> FALSE]]

DominantScript(line) ==
    LET best == CHOOSE i \in DOMAIN Scripts : \A j \in DOMAIN Scripts :
                    \/ line.count[Scripts[i]] > line.count[Scripts[j]]
                    \/ line.count[Scripts[i]] = line.count[Scripts[j]] /\ i <= j
        active == {s \in ToSet(Scripts) : line.count[s] > 0}
    IN IF active = {} THEN "other"
       ELSE IF Cardinality(active) >= 2 /\ line.count["hangul"] > 0 THEN "mixed"
       ELSE Scripts[best]

Mainstream == {"hangul", "latin", "mixed"}
MaxOutlierLength == 24

\* Mutant: whatever stands alone is suspicious.
IsOutlier(segments, i) ==
    /\ DominantScript(segments[i].line) \notin Mainstream \cup {"other"}
    /\ \A j \in (DOMAIN segments \cap ((i - 2)..(i + 2))) \ {i} :
          DominantScript(segments[j].line) # DominantScript(segments[i].line)

IsSuspiciousOutlier(segments, i) ==
    LET Script(j) == DominantScript(segments[j].line)
        neighbours == (DOMAIN segments \cap ((i - 2)..(i + 2))) \ {i}
    IN /\ Script(i) \notin Mainstream \cup {"other"}
       /\ segments[i].line.length <= MaxOutlierLength
       /\ segments[i].line.letters >= 2
       /\ \A j \in neighbours : Script(j) # Script(i)
       /\ \E j \in neighbours : Script(j) \in Mainstream

MarkSuspicious(segments) ==
    [i \in DOMAIN segments |-> [segments[i] EXCEPT !.suspicious = IsSuspiciousOutlier(segments, i)]]
-----------------------------------------------------------------------------
Strip(text) == IF text.spaces = "around" THEN [text EXCEPT !.spaces = "single"] ELSE text
CleanText(text) == [text EXCEPT !.spaces = "single"]
CaseFold(text) == [letters |-> text.letters, spaces |-> text.spaces]
IsBlank(text) == text.length = 0

Cleaned(texts) == [i \in DOMAIN texts |-> CleanText(texts[i])]
\* _unique_preserve_order, _dedupe_texts
Unique(texts) == FirstOfEach(texts, [i \in DOMAIN texts |-> CaseFold(texts[i])])

SequencesOf(segments) == {segments[i].sequence : i \in DOMAIN segments}
SuspiciousOf(segments) == {segments[i].sequence : i \in {j \in DOMAIN segments : segments[j].suspicious}}

\* _sanitize_sequences and _all_suspicious: the real sources of an item, and whether they
\* carry it.  What a model repeats counts once.
RealSources(item, segments) == item.sources \cap SequencesOf(segments)

\* Mutant: suspicious sources carry an item too.
IsNamed(item, segments) == RealSources(item, segments) # {}

IsSupported(item, segments) == ~(RealSources(item, segments) \subseteq SuspiciousOf(segments))

\* _unique_texts
MaxPoints == 3
UniqueTexts(texts) ==
    LET unique == Unique(At(Cleaned(texts), {i \in DOMAIN texts : ~IsBlank(texts[i])}))
    IN SubSeq(unique, 1, Min({MaxPoints, Len(unique)}))

\* _refine_evidence_agenda_item, which asks whether there is a decision before it strips it.
KeepsAgendaItem(item, segments) ==
    /\ ~IsBlank(item.title)
    /\ IsSupported(item, segments)
    /\ Cardinality(RealSources(item, segments)) >= 2 \/ item.decision # NoText
    /\ UniqueTexts(item.points) # <<>>
RefineAgendaItem(item, segments) ==
    [title |-> Strip(item.title), points |-> UniqueTexts(item.points),
     sources |-> RealSources(item, segments),
     decision |-> IF item.decision = NoText THEN NoText ELSE Strip(item.decision)]

\* _refine_evidence_decision, _refine_evidence_action_item
KeepsItem(item, segments) == ~IsBlank(item.content) /\ IsSupported(item, segments)
RefineItem(item, segments) ==
    [item EXCEPT !.content = Strip(@), !.sources = RealSources(item, segments)]

RefineItems(items, segments) ==
    LET kept == At(items, {i \in DOMAIN items : KeepsItem(items[i], segments)})
    IN [i \in DOMAIN kept |-> RefineItem(kept[i], segments)]

FinalizeMinutesEvidence(evidence, segments) ==
    LET agenda == At(evidence.agenda, {i \in DOMAIN evidence.agenda :
                                          KeepsAgendaItem(evidence.agenda[i], segments)})
    IN [summary |-> evidence.summary,
        agenda |-> [i \in DOMAIN agenda |-> RefineAgendaItem(agenda[i], segments)],
        decisions |-> RefineItems(evidence.decisions, segments),
        actions |-> RefineItems(evidence.actions, segments)]

\* _action_items
ActionKey(item) == <<CaseFold(item.content), item.assignee, item.due>>
ActionItem(item) == [content |-> item.content, assignee |-> item.assignee, due |-> item.due]
ActionItems(items) ==
    LET first == FirstOfEach(items, [i \in DOMAIN items |-> ActionKey(items[i])])
    IN [i \in DOMAIN first |-> ActionItem(first[i])]

\* evidence_to_minutes_draft: the points of an item are joined into its discussion.
AgendaItem(item) == [title |-> item.title, discussion |-> item.points, decision |-> item.decision]
EvidenceToMinutesDraft(evidence) ==
    [summary |-> evidence.summary,
     agenda |-> [i \in DOMAIN evidence.agenda |-> AgendaItem(evidence.agenda[i])],
     decisions |-> Unique([i \in DOMAIN evidence.decisions |-> evidence.decisions[i].content]),
     actions |-> ActionItems(evidence.actions)]
-----------------------------------------------------------------------------
\* minutes_quality.py
LooksLikeFragment(text) == text.words <= 1 /\ text.length < 10
IsMeaningfulText(text) == text.length >= 8 /\ ~LooksLikeFragment(text)

MinDiscussion == 20
DiscussionLength(points) ==
    Cardinality(UNION {{i} \X (0..points[i].length) : i \in DOMAIN points}) - 1
RefineAgendaItems(items) ==
    LET kept == At(items, {i \in DOMAIN items :
                              DiscussionLength(items[i].discussion) >= MinDiscussion})
        Decision(text) == IF text = NoText THEN NoText
                          ELSE IF IsMeaningfulText(CleanText(text)) THEN CleanText(text) ELSE NoText
    IN [i \in DOMAIN kept |-> [title |-> CleanText(kept[i].title),
                               discussion |-> kept[i].discussion,
                               decision |-> Decision(kept[i].decision)]]

\* _refine_action_items tells items apart by their content alone.
RefineActionItems(items) ==
    LET cleaned == [i \in DOMAIN items |-> [items[i] EXCEPT !.content = CleanText(@)]]
        kept == At(cleaned, {i \in DOMAIN cleaned : IsMeaningfulText(cleaned[i].content)})
    IN FirstOfEach(kept, [i \in DOMAIN kept |-> CaseFold(kept[i].content)])

Meaningful(texts) == At(texts, {i \in DOMAIN texts : IsMeaningfulText(texts[i])})

\* Mutant: repetitions are looked for before the texts are cleaned.
RefineThenClean(decisions) == Cleaned(Unique(Meaningful(decisions)))

RefineDecisions(decisions) == Unique(Meaningful(Cleaned(decisions)))

IsKoreanCount(hangul, latin) == hangul > 0 /\ hangul >= latin
Letters(lines, script) == UNION {{i} \X (1..lines[i].count[script]) : i \in DOMAIN lines}
IsKoreanDominant(lines) ==
    IsKoreanCount(Cardinality(Letters(lines, "hangul")), Cardinality(Letters(lines, "latin")))

\* _validate_summary_quality
MinSummary == 20
IsAcceptableSummary(summary, lines) ==
    /\ summary.length >= MinSummary
    /\ IsKoreanDominant(lines) => IsKoreanCount(summary.hangul, summary.latin)

FinalizeMinutesDraft(draft) ==
    [summary |-> CleanText(draft.summary), agenda |-> RefineAgendaItems(draft.agenda),
     decisions |-> RefineDecisions(draft.decisions), actions |-> RefineActionItems(draft.actions)]
-----------------------------------------------------------------------------
\* minutes_draft_to_tiptap: what each section of the editor shows; one that shows nothing is
\* not there.
NoDocument == [summary |-> <<>>, agenda |-> <<>>, decisions |-> <<>>, actions |-> <<>>]
Details(item) ==
    {detail \in {<<"assignee", item.assignee>>, <<"due", item.due>>} : detail[2] # NoName}
FormatActionItem(item) == [content |-> item.content, details |-> Details(item)]
MinutesDraftToTiptap(draft) ==
    [summary |-> <<draft.summary>>, agenda |-> draft.agenda, decisions |-> draft.decisions,
     actions |-> [i \in DOMAIN draft.actions |-> FormatActionItem(draft.actions[i])]]
=============================================================================
