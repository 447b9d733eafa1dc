--------------------------- MODULE FeedbackWindow ---------------------------
(***************************************************************************)
(* FeedbackEventProcessor: a window of the latest transcript segments for  *)
(* every session, the gates a window passes before past minutes are        *)
(* searched for it, and the cooldown of what was found.  One task calls    *)
(* process_raw, entry after entry; it awaits the search and the publishing *)
(* of a result, and the clock goes on meanwhile.                           *)
(***************************************************************************)
EXTENDS Integers, SequencesExt

CONSTANTS Sessions,     \* (meeting_id, session_id)
          Segments,     \* segment events the STT server may send, any number of times
          SessionOf,    \* the session of each event,
          IdOf,         \* its segment_id,
          Number,       \* its sequence,
          EndedAt,      \* its ended_at_ms
          Chars,        \* and the length of its text
          Topics,       \* what a search may find: feedback type and source minutes
          NoWindow,
          MaxSegments, Span, MinSegments, MinChars, Interval,  \* the window's gates
          Cooldown, StateTtl,
          MaxTime,      \* bound on the clock
          MaxFaults     \* bound on restarts and failed publications

ASSUME ConstantsAssumption ==
    /\ Segments # {} /\ Topics # {}
    /\ SessionOf \in [Segments -> Sessions]
    /\ Number \in [Segments -> Nat] /\ EndedAt \in [Segments -> Nat]
    /\ Chars \in [Segments -> Nat]
    /\ MaxSegments \in Nat \ {0} /\ Span \in Nat /\ MinSegments \in Nat
    /\ MinChars \in Nat /\ Interval \in Nat
    /\ Cooldown \in Nat /\ StateTtl \in Nat
    /\ MaxTime \in Nat /\ MaxFaults \in Nat

VARIABLES now,        \* the clock
          windows,    \* _windows
          published,  \* _last_published_at of each session and topic
          pc,         \* "idle", or awaiting the "search" or the "publish"
          asked,      \* the segment whose arrival started the search
          result,     \* the topic found and when
          sent,       \* when each topic was last published, never cleaned up
          faults

memory == <<windows, published>>
call == <<pc, asked, result>>
vars == <<now, windows, published, pc, asked, result, sent, faults>>

Never == -1                        \* None, for times and sequence numbers
Times == 0..MaxTime
Ids == {IdOf[g] : g \in Segments}
Windows == [segments : Seq(Segments), ids : SUBSET Ids, last : Nat \cup {Never},
            active : Times, queried : Nat \cup {Never}, print : Seq(Segments)]
Keys == Sessions \X Topics

ASSUME NoWindowAssumption == NoWindow \notin Windows

TypeOK ==
    /\ now \in Times
    /\ windows \in [Sessions -> Windows \cup {NoWindow}]
    /\ published \in [Keys -> Times \cup {Never}]
    /\ pc \in {"idle", "search", "publish"}
    /\ asked \in Segments
    /\ result \in Topics \X Times
    /\ sent \in [Keys -> Times \cup {Never}]
    /\ faults \in Nat
    /\ pc # "idle" => windows[SessionOf[asked]] # NoWindow

Init ==
    /\ now = 0
    /\ windows = [s \in Sessions |-> NoWindow]
    /\ published = [k \in Keys |-> Never]
    /\ pc = "idle"
    /\ asked = CHOOSE g \in Segments : TRUE
    /\ result = <<CHOOSE t \in Topics : TRUE, 0>>
    /\ sent = [k \in Keys |-> Never]
    /\ faults = 0

Larger(m, n) == IF m > n THEN m ELSE n
-----------------------------------------------------------------------------
(* The window of a session *)

Opened == [segments |-> <<>>, ids |-> {}, last |-> Never,
           active |-> now, queried |-> Never, print |-> <<>>]

\* Mutant: segment_ids keeps the segments that fell out.
AppendedKeepsIds(w, g) ==
    LET full == Len(w.segments) >= MaxSegments IN
    [w EXCEPT !.segments = Append(IF full THEN Tail(@) ELSE @, g),
              !.ids = @ \cup {IdOf[g]}]

\* _append_segment: a full window loses its oldest segment.
Appended(w, g) ==
    LET full == Len(w.segments) >= MaxSegments IN
    [w EXCEPT !.segments = Append(IF full THEN Tail(@) ELSE @, g),
              !.ids = (IF full THEN @ \ {IdOf[Head(w.segments)]} ELSE @) \cup {IdOf[g]}]

\* The first segment that is recent enough; g, the last one, is.
FirstRecent(segments, g) ==
    CHOOSE i \in DOMAIN segments :
        /\ EndedAt[segments[i]] >= EndedAt[g] - Span
        /\ \A j \in 1..(i - 1) : EndedAt[segments[j]] < EndedAt[g] - Span

\* _trim_expired_segments: from the front up to the first one that is recent enough.
Trimmed(w, g) ==
    LET first == FirstRecent(w.segments, g) IN
    [w EXCEPT !.segments = SubSeq(@, first, Len(@)),
              !.ids = @ \ {IdOf[w.segments[i]] : i \in 1..(first - 1)}]

Known(w, g) == IdOf[g] \in w.ids \/ (w.last # Never /\ Number[g] <= w.last)

Taken(w, g) == Trimmed([Appended(w, g) EXCEPT !.last = Number[g], !.active = now], g)

\* Mutant: the interval counts only for segments that end later.
TriggersEarlier(w, g) ==
    /\ Len(w.segments) >= MinSegments
    /\ FoldSeq(LAMBDA x, sum : Chars[x] + sum, 0, w.segments) >= MinChars
    /\ w.queried # Never /\ EndedAt[g] >= w.queried => EndedAt[g] - w.queried >= Interval
    /\ w.segments # w.print

\* The gates before a search.  The fingerprint is the text of the window's segments.
Triggers(w, g) ==
    /\ Len(w.segments) >= MinSegments
    /\ FoldSeq(LAMBDA x, sum : Chars[x] + sum, 0, w.segments) >= MinChars
    /\ w.queried # Never => EndedAt[g] - w.queried >= Interval
    /\ w.segments # w.print

\* cleanup_expired_state.
KeepsWindow(w) == w # NoWindow /\ now - w.active < StateTtl
Swept == [s \in Sessions |-> IF KeepsWindow(windows[s]) THEN windows[s] ELSE NoWindow]

\* Mutant: cooldowns are cleaned up with the windows.
CutoffTtl == now - StateTtl

Cutoff == now - Larger(StateTtl, Cooldown)
Remembered == [k \in Keys |-> IF published[k] < Cutoff THEN Never ELSE published[k]]
-----------------------------------------------------------------------------
\* process_raw up to the search: clean up, open the window, take the segment, ask.
Arrive(g) ==
    LET s == SessionOf[g]
        w == IF Swept[s] = NoWindow THEN Opened ELSE Swept[s]
        taken == Taken(w, g)
    IN
    /\ pc = "idle"
    /\ published' = Remembered
    /\ \/ /\ Known(w, g)
          /\ windows' = [Swept EXCEPT ![s] = w]
          /\ UNCHANGED call
       \/ /\ ~Known(w, g)
          /\ windows' = [Swept EXCEPT ![s] = taken]
          /\ IF Triggers(taken, g)
             THEN pc' = "search" /\ asked' = g /\ UNCHANGED result
             ELSE UNCHANGED call
    /\ UNCHANGED <<now, sent, faults>>

\* The runtime cleans up at the beginning of each of its rounds.
Cleanup ==
    /\ pc = "idle"
    /\ windows' = Swept
    /\ published' = Remembered
    /\ UNCHANGED <<now, call, sent, faults>>

\* The workflow raises: the window may be asked for again with its next segment.
SearchFails ==
    /\ pc = "search"
    /\ pc' = "idle"
    /\ UNCHANGED <<now, memory, asked, result, sent, faults>>

Queried == LET s == SessionOf[asked] IN
    windows' = [windows EXCEPT ![s].queried = EndedAt[asked],
                               ![s].print = windows[s].segments]

SearchFindsNothing ==
    /\ pc = "search"
    /\ Queried
    /\ pc' = "idle"
    /\ UNCHANGED <<now, published, asked, result, sent, faults>>

CoolsDown(k) == published[k] # Never /\ now - published[k] < Cooldown

\* The workflow finds a topic, generated_at being now; the cooldown may silence it.
SearchFinds(t) ==
    /\ pc = "search"
    /\ Queried
    /\ IF CoolsDown(<<SessionOf[asked], t>>)
       THEN pc' = "idle" /\ UNCHANGED result
       ELSE pc' = "publish" /\ result' = <<t, now>>
    /\ UNCHANGED <<now, published, asked, sent, faults>>

Published == [published EXCEPT ![<<SessionOf[asked], result[1]>>] = result[2]]

PublishReturns ==
    /\ pc = "publish"
    /\ pc' = "idle"
    /\ published' = Published
    /\ sent' = [sent EXCEPT ![<<SessionOf[asked], result[1]>>] = result[2]]
    /\ UNCHANGED <<now, windows, asked, result, faults>>

\* XADD raises; whether it took effect is not known, and the cooldown does not start.
PublishFails ==
    /\ pc = "publish"
    /\ faults < MaxFaults /\ faults' = faults + 1
    /\ pc' = "idle"
    /\ UNCHANGED <<now, memory, asked, result, sent>>

\* The process restarts: windows and cooldowns are forgotten.
Restart ==
    /\ faults < MaxFaults /\ faults' = faults + 1
    /\ windows' = [s \in Sessions |-> NoWindow]
    /\ published' = [k \in Keys |-> Never]
    /\ sent' = [k \in Keys |-> Never]
    /\ pc' = "idle"
    /\ UNCHANGED <<now, asked, result>>

Tick == now < MaxTime /\ now' = now + 1
        /\ UNCHANGED <<memory, call, sent, faults>>
-----------------------------------------------------------------------------
Next == \/ \E g \in Segments : Arrive(g)
        \/ Cleanup \/ SearchFails \/ SearchFindsNothing
        \/ \E t \in Topics : SearchFinds(t)
        \/ PublishReturns \/ PublishFails \/ Restart \/ Tick

Spec == Init /\ [][Next]_vars
-----------------------------------------------------------------------------
(* Properties *)

Newest(segments) == segments[Len(segments)]

\* A window holds at most max_segments segments of its session in the order of their
\* numbers, the last one taken last and the first one within the span of it, and
\* segment_ids names just these: a segment that left the window is forgotten, none twice.
WindowSound == \A s \in Sessions : windows[s] # NoWindow =>
    LET w == windows[s] IN
    /\ Len(w.segments) \in 1..MaxSegments
    /\ \A i \in DOMAIN w.segments : SessionOf[w.segments[i]] = s
    /\ \A i, j \in DOMAIN w.segments : i < j =>
          /\ Number[w.segments[i]] < Number[w.segments[j]]
          /\ IdOf[w.segments[i]] # IdOf[w.segments[j]]
    /\ w.ids = {IdOf[w.segments[i]] : i \in DOMAIN w.segments}
    /\ w.last = Number[Newest(w.segments)]
    /\ EndedAt[Head(w.segments)] >= EndedAt[Newest(w.segments)] - Span

\* Two searches of one window that returned are at least trigger_interval apart in meeting
\* time, and the later one is about a newer segment, also where the interval is 0.
QueriesMoveOn == [][\A s \in Sessions :
    /\ windows[s] # NoWindow /\ windows'[s] # NoWindow
    /\ windows[s].queried # Never /\ windows'[s].print # windows[s].print
    /\ windows'[s].queried # Never
    => /\ windows'[s].queried - windows[s].queried >= Interval
       /\ Number[Newest(windows'[s].print)] > Number[Newest(windows[s].print)]]_vars

\* Feedback of one type and source reaches a session at most once in cooldown_seconds,
\* whatever is cleaned up meanwhile (api-spec.md:212-213), as long as the process runs
\* and as far as it knows what was published.
CooldownKept == [][\A k \in Keys :
    sent[k] # Never /\ sent'[k] # sent[k] /\ sent'[k] # Never
        => sent'[k] - sent[k] >= Cooldown]_vars
=============================================================================
