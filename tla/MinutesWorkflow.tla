-------------------------- MODULE MinutesWorkflow --------------------------
(***************************************************************************)
(* MinutesGenerationWorkflow.execute, cut at its two awaits (the context   *)
(* API of the backend, the language model), for one request that comes     *)
(* with its transcript (REST) or without (RabbitMQ).  A request whose      *)
(* failure may pass is tried again, as MinutesConsumer does.               *)
(*                                                                         *)
(* The end of a meeting and its last transcript travel separately: the     *)
(* request may be handled before the backend has saved the transcript.     *)
(***************************************************************************)
EXTENDS MinutesEditing

CONSTANTS Meetings,      \* what the backend holds of a meeting, and whether it can be had
          Outputs,       \* the evidence a model may find in a meeting, by its topic
          MaxAttempts    \* how often a request is tried

VARIABLES meeting,       \* the meeting of this request; never changes
          inline,        \* the request carries the context; never changes
          saved,         \* the backend has saved the transcript
          stage,         \* where the request is
          attempt,       \* attempts before this one
          segments,      \* the segments the prompt shows
          transcript,    \* the lines that were spoken
          evidence,      \* history: the evidence the minutes were made of
          answered,      \* history: a model has answered, with whatever
          verdict,       \* how the attempt ended
          draft, document

vars == <<meeting, inline, saved, stage, attempt, segments, transcript, evidence, answered,
          verdict, draft, document>>

NoEvidence == [summary |-> NoText, agenda |-> <<>>, decisions |-> <<>>, actions |-> <<>>]
NoDraft == NoEvidence

ASSUME MeetingsAssumption ==
    \A m \in Meetings : /\ m.raw \in Seq(Line) /\ m.segments \in Seq(Segment)
                        /\ m.context \in {"fine", "refused", "malformed", "mismatched"}
                        /\ \A e \in Outputs[m.topic] : e \in MinutesEvidence
ASSUME AttemptsAssumption == MaxAttempts \in Nat \ {0}

Init == /\ meeting \in Meetings /\ inline \in BOOLEAN /\ saved \in BOOLEAN
        /\ stage = "waiting" /\ attempt = 0
        /\ segments = <<>> /\ transcript = <<>>
        /\ evidence = NoEvidence /\ answered = FALSE
        /\ verdict = "none" /\ draft = NoDraft /\ document = NoDocument

\* The attempt is over: execute raises, and forgets what it had.
End(outcome) ==
    /\ stage' = "ended"
    /\ verdict' = outcome
    /\ segments' = <<>> /\ transcript' = <<>>
    /\ UNCHANGED <<meeting, inline, saved, attempt, evidence, draft, document>>

\* BE: the final transcript is saved.
Save == /\ ~saved
        /\ saved' = TRUE
        /\ UNCHANGED <<meeting, inline, stage, attempt, segments, transcript, evidence,
                       answered, verdict, draft, document>>

\* What the context API may answer.  A meeting that ended just now may not be known yet.
Answers == {"lost", "failed", "unknown"}
           \cup (IF meeting.context # "fine" THEN {meeting.context}
                 ELSE IF saved THEN {"context"} ELSE {"pending"})

\* Mutant: a meeting that is not known yet is given up.
LoadFailureFinal(answer) ==
    CASE answer \in {"lost", "failed", "pending"} -> "retryable"
      [] answer = "context" -> "none"
      [] OTHER -> "permanent"

\* HttpMinutesContextLoader: _request, _parse_response, _ensure_event_matches_context.
LoadFailure(answer) ==
    CASE answer = "lost"       -> "retryable"   \* httpx.RequestError
      [] answer = "unknown"    -> "retryable"   \* 404, ContextNotFoundError
      [] answer = "failed"     -> "retryable"   \* 5xx
      [] answer = "pending"    -> "retryable"   \* MINUTES_TRANSCRIPT_REQUIRED
      [] answer = "refused"    -> "permanent"   \* another 4xx
      [] answer = "malformed"  -> "permanent"
      [] answer = "mismatched" -> "permanent"
      [] OTHER                 -> "none"

\* _segments_from_context: those with a text.
SegmentsFromContext(list) == At(list, {i \in DOMAIN list : list[i].line.kind # "blank"})
LinesOf(list) == [i \in DOMAIN list |-> list[i].line]

\* From the context to the request to the model.
Prepare(listed, raw) ==
    LET given == SegmentsFromContext(listed)
        spoken == Normalize(IF given = <<>> THEN raw ELSE LinesOf(given))
    IN IF spoken = <<>>
       THEN End("retryable")               \* ContextNotFoundError
       ELSE /\ transcript' = spoken
            /\ segments' = MarkSuspicious(IF given = <<>> THEN TranscriptToSegments(spoken)
                                          ELSE given)
            /\ stage' = "generating"
            /\ UNCHANGED <<meeting, inline, saved, attempt, evidence, verdict, draft, document>>

LoadInline ==
    /\ stage = "waiting" /\ inline
    /\ Prepare(TranscriptToSegments(meeting.raw), meeting.raw)
    /\ UNCHANGED answered

Load(answer) ==
    /\ stage = "waiting" /\ ~inline
    /\ IF LoadFailure(answer) # "none" THEN End(LoadFailure(answer))
       ELSE Prepare(meeting.segments, meeting.raw)
    /\ UNCHANGED answered

\* GeminiStructuredGenerationProvider tells an answer that fits no schema from no answer;
\* to OpenAIStructuredGenerationProvider all that parse raises is an unavailable provider.
Primaries == {"ok", "unavailable", "empty", "invalid"}
Fallbacks == {"ok", "unavailable", "empty"}
Generated(primary, fallback) == IF primary = "unavailable" THEN fallback ELSE primary

\* The rest of execute.
Generate(primary, fallback, output) ==
    LET refined == FinalizeMinutesEvidence(output, segments)
        made == FinalizeMinutesDraft(EvidenceToMinutesDraft(refined))
        result == Generated(primary, fallback)
    IN /\ stage = "generating"
       /\ answered' = (answered \/ result # "unavailable")
       /\ CASE result = "unavailable" -> End("retryable")
            [] result \in {"empty", "invalid"} -> End("permanent")
            [] result = "ok" /\ ~IsAcceptableSummary(made.summary, transcript) -> End("permanent")
            [] OTHER -> /\ stage' = "ended" /\ verdict' = "drafted"
                        /\ evidence' = output
                        /\ draft' = made
                        /\ document' = MinutesDraftToTiptap(made)
                        /\ UNCHANGED <<meeting, inline, saved, attempt, segments, transcript>>

\* The retry of MinutesConsumer; a REST caller is told instead.
TryAgain == /\ ~inline /\ stage = "ended" /\ verdict = "retryable"
            /\ attempt + 1 < MaxAttempts
            /\ attempt' = attempt + 1
            /\ stage' = "waiting" /\ verdict' = "none"
            /\ UNCHANGED <<meeting, inline, saved, segments, transcript, evidence, answered, draft,
                           document>>

Next == \/ Save
        \/ LoadInline
        \/ \E answer \in Answers : Load(answer)
        \/ \E primary \in Primaries, fallback \in Fallbacks, output \in Outputs[meeting.topic] :
              Generate(primary, fallback, output)
        \/ TryAgain

Spec == Init /\ [][Next]_vars
-----------------------------------------------------------------------------
TypeOK ==
    /\ inline \in BOOLEAN /\ saved \in BOOLEAN
    /\ stage \in {"waiting", "generating", "ended"}
    /\ attempt \in 0..(MaxAttempts - 1)
    /\ transcript \in Seq(Line) /\ segments \in Seq(Segment)
    /\ stage = "generating" => transcript # <<>> /\ segments # <<>>
    /\ verdict \in {"none", "retryable", "permanent", "drafted"}
    /\ (verdict = "none") = (stage # "ended")
    /\ (verdict = "drafted") = (document # NoDocument)

SameText(a, b) == a.letters = b.letters

\* A number the model gives as a source is that of a segment, and of none that is suspicious.
Trusted(n) == /\ \E i \in DOMAIN segments : segments[i].sequence = n
              /\ \A i \in DOMAIN segments : segments[i].sequence = n => ~segments[i].suspicious
Rests(item) == \E n \in item.sources : Trusted(n)

\* Every decision and follow-up of the minutes is one the model gave sources for, one of
\* them a segment that exists and is not suspected of a recognition error; its assignee and
\* date are those of that very item; an agenda item rests on two segments or was given with
\* a decision (finalize_minutes_evidence, finalize_minutes_draft).
GroundedOnly ==
    verdict = "drafted" =>
        /\ \A n \in DOMAIN document.decisions :
              \E i \in DOMAIN evidence.decisions :
                  LET item == evidence.decisions[i]
                  IN SameText(item.content, document.decisions[n]) /\ Rests(item)
        /\ \A n \in DOMAIN document.actions :
              \E i \in DOMAIN evidence.actions :
                  LET item == evidence.actions[i]
                      entry == document.actions[n]
                  IN /\ SameText(item.content, entry.content) /\ Rests(item)
                     /\ entry.details = Details(item)
        /\ \A n \in DOMAIN document.agenda :
              \E i \in DOMAIN evidence.agenda :
                  LET item == evidence.agenda[i]
                  IN /\ SameText(item.title, document.agenda[n].title) /\ Rests(item)
                     /\ \/ item.decision # NoText
                        \/ \E a, b \in item.sources \cap SequencesOf(segments) : a # b

\* No such item that says anything is lost on the way to the editor, however the model
\* repeats itself, spells or spaces it, or mixes it with items that have no ground; and it
\* is shown once.  (Of two spellings the first is taken, even if it is too short to say
\* anything and the other is not.)
Says(items, i) ==
    /\ Rests(items[i])
    /\ \A j \in DOMAIN items :
          Rests(items[j]) /\ SameText(items[j].content, items[i].content) =>
              IsMeaningfulText(items[j].content)
KeptOnce ==
    verdict = "drafted" =>
        /\ \A i \in DOMAIN evidence.decisions : Says(evidence.decisions, i) =>
              Cardinality({n \in DOMAIN document.decisions :
                  SameText(document.decisions[n], evidence.decisions[i].content)}) = 1
        /\ \A i \in DOMAIN evidence.actions : Says(evidence.actions, i) =>
              Cardinality({n \in DOMAIN document.actions :
                  SameText(document.actions[n].content, evidence.actions[i].content)}) = 1

\* Whatever languages are spoken in which order, suspicion leaves something to rest minutes
\* on: of five segments in a row one is trusted, and so is one of a whole transcript
\* (mark_suspicious_segments).
TrustedNearby ==
    stage = "generating" =>
        \A first \in DOMAIN segments :
            first = 1 \/ first + 4 <= Len(segments) =>
                \E i \in first..Min({first + 4, Len(segments)}) : ~segments[i].suspicious

\* The minutes of a meeting that was held in Korean are summed up in Korean: links that were
\* shared do not count as speech (normalize_raw_transcript, _validate_summary_quality).
KoreanStaysKorean ==
    verdict = "drafted" =>
        LET lines == IF inline \/ meeting.segments = <<>> THEN meeting.raw
                     ELSE LinesOf(meeting.segments)
        IN IsKoreanDominant(At(lines, {i \in DOMAIN lines : lines[i].kind # "link"})) =>
               \E n \in DOMAIN document.summary :
                   LET text == document.summary[n]
                   IN text.hangul > 0 /\ text.hangul >= text.latin

\* A request is given up for good only after the backend refused or garbled the context, or
\* a model answered: while a transcript is late and services are out, it stays to be retried
\* (_parse_response, FallbackStructuredGenerationProvider).
GivenUpForReason ==
    verdict = "permanent" => answered \/ (meeting.context # "fine" /\ ~inline)
=============================================================================
