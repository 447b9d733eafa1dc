------------------------- MODULE MCMinutesWorkflow -------------------------
(* Instances of MinutesWorkflow for TLC: every order of languages in short transcripts, and
   a few meetings of which models make every mistake the code repairs. *)
EXTENDS MinutesWorkflow

L(kind, hangul, latin, kana, han, length) ==
    [kind |-> kind, length |-> length, letters |-> hangul + latin + kana + han,
     count |-> [hangul |-> hangul, latin |-> latin, kana |-> kana, han |-> han]]
Korean == L("speech", 9, 0, 0, 0, 12)
English == L("speech", 0, 10, 0, 0, 12)
Mixed == L("speech", 2, 5, 0, 0, 9)
Japanese == L("speech", 0, 0, 5, 0, 5)
Chinese == L("speech", 0, 0, 0, 2, 2)
Sentence == L("speech", 0, 0, 30, 0, 30)
Digits == L("speech", 0, 0, 0, 0, 3)
Link == L("link", 0, 20, 0, 0, 28)
Blank == L("blank", 0, 0, 0, 0, 0)

\* Segments of the backend are numbered from 0.
Heard(lines) == [i \in DOMAIN lines |-> [sequence |-> i - 1, line |-> lines[i], suspicious |-> FALSE]]

T(letters, spelling, spaces, length, words, hangul, latin) ==
    [letters |-> letters, spelling |-> spelling, spaces |-> spaces, length |-> length,
     words |-> words, hangul |-> hangul, latin |-> latin]
InKorean == T("summary", "a", "single", 30, 6, 20, 2)
InEnglish == T("summary", "a", "inside", 30, 6, 0, 25)
Terse == T("summary", "a", "single", 19, 4, 15, 0)
Ship == T("ship it", "a", "single", 20, 4, 15, 0)
Texts == {Ship, [Ship EXCEPT !.spelling = "b"], [Ship EXCEPT !.spaces = "inside"],
          [Ship EXCEPT !.spaces = "around"], T("wait", "a", "single", 12, 3, 9, 0),
          T("ok", "a", "single", 9, 1, 9, 0), T("", "a", "single", 0, 0, 0, 0)}

\* Sources: one that is trusted, one that is suspicious, one that does not exist.
SourcesTried == {{}, {0}, {1}, {1, 2}, {7}}
Item(content, sources) == [content |-> content, sources |-> sources]
Task(content, sources, assignee) ==
    [content |-> content, sources |-> sources, assignee |-> assignee, due |-> NoName]
Agenda(title, points, sources, decision) ==
    [title |-> title, points |-> points, sources |-> sources, decision |-> decision]

Evidence(summary, agenda, decisions, actions) ==
    [summary |-> summary, agenda |-> agenda, decisions |-> decisions, actions |-> actions]
Plain == {Evidence(summary, <<>>, <<>>, <<>>) : summary \in {InKorean, InEnglish, Terse}}
Decided == {Evidence(InKorean, <<>>, <<Item(Ship, s), Item(t, u)>>, <<>>) :
                s \in SourcesTried, t \in Texts, u \in SourcesTried}
\* Spellings of the same letters, of which only one is long enough.
Short == T("fuss fas", "a", "single", 7, 2, 0, 7)
Long == T("fuss fas", "b", "single", 8, 2, 0, 8)
Spelled == {Evidence(InKorean, <<>>, <<Item(t, {0}), Item(u, {0})>>, <<Task(u, {0}, "ann"), Task(t, {0}, "bob")>>) :
                t \in {Short, Long}, u \in {Short, Long}}
Assigned == {Evidence(InKorean, <<>>, <<>>, <<Task(Ship, s, a), Task(t, {1, 2}, "ann"), Task(Ship, {0}, "bob")>>) :
                 s \in SourcesTried, t \in Texts, a \in {"ann", NoName}}
Discussed == {Evidence(InEnglish, <<Agenda(Ship, points, s, d)>>, <<>>, <<>>) :
                  s \in SourcesTried, d \in {NoText} \cup Texts,
                  points \in {<<>>, <<Ship>>, <<Ship, [Ship EXCEPT !.spaces = "around"]>>,
                              <<T("wait", "a", "single", 12, 3, 9, 0), T("ok", "a", "single", 9, 1, 9, 0)>>}}

OutputsTried == [topic \in {"nothing", "plans", "agenda", "chat"} |->
    CASE topic = "nothing" -> {Evidence(InKorean, <<>>, <<>>, <<>>)}
      [] topic = "plans"   -> Decided \cup Assigned \cup Spelled
      [] topic = "agenda"  -> Discussed
      [] topic = "chat"    -> Plain]

Meeting(listed, raw, context, topic) ==
    [segments |-> listed, raw |-> raw, context |-> context, topic |-> topic]
Orders == UNION {[1..n -> {Korean, Japanese, Chinese}] : n \in 1..6}
MeetingsTried ==
    {Meeting(Heard(lines), <<>>, "fine", "nothing") : lines \in Orders}
    \cup {Meeting(Heard(<<Korean, Japanese, English, Link>>), <<>>, "fine", "plans"),
          Meeting(Heard(<<English, Chinese, Mixed, Blank>>), <<English>>, "fine", "agenda")}
    \cup {Meeting(Heard(lines), raw, context, "chat") :
              lines \in {<<>>, <<Link>>, <<Korean, Link, Link>>, <<Digits, Sentence, Mixed>>},
              raw \in {<<>>, <<Blank, Korean, English, Link>>},
              context \in {"fine", "refused", "malformed", "mismatched"}}
=============================================================================
