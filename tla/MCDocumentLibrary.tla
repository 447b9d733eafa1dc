------------------------- MODULE MCDocumentLibrary -------------------------
(* Instances of DocumentLibrary for TLC: every kind of text for one document, which may be
   replaced by a short text, and a second document. *)
EXTENDS DocumentLibrary

CONSTANTS docA, docB, ann, bob, team, organization

Line(from, to, kind) == [from |-> from, to |-> to, kind |-> kind]
Paragraph(n, blank) == [length |-> n, blank |-> blank, lines |-> <<Line(0, n, "text")>>]

\* A table of lines of the given lengths; line s separates the header.
Starts[lengths \in Seq(Nat), r \in Nat] ==
    IF r <= 1 THEN 0 ELSE Starts[lengths, r - 1] + lengths[r - 1] + 1
Table(lengths, s) ==
    LET at(r) == Starts[lengths, r]
        n == Len(lengths)
    IN [length |-> at(n) + lengths[n],
        blank |-> {at(r) : r \in 2..n},
        lines |-> [r \in 1..n |-> Line(at(r), at(r) + lengths[r],
                                       IF r = s THEN "separator" ELSE "row")]]

\* Against chunks of 6 characters with an overlap of 2: paragraphs that fit, just fit and do
\* not fit, with blank stretches of many places and sizes, and tables with short and long
\* headers and rows, before and after a short paragraph.
BlocksTried == {Paragraph(n, {}) : n \in {6, 7, 11}}
               \cup {Paragraph(12, from..to) : <<from, to>> \in (2..4) \X {4, 7, 9}}
               \cup {Table(<<h, 1>> \o rows, s) : <<h, rows, s>> \in
                        {1, 5} \X (UNION {[1..n -> {2, 8}] : n \in 1..2}) \X {1, 2}}
               \cup {Table(<<1, 1, 1, 8, 2>>, 3), Table(<<9, 1>>, 2), Table(<<1, 9>>, 4)}
TextsTried == {<<>>, <<Paragraph(2, {})>>, <<Paragraph(4, {})>>}
              \cup {<<Paragraph(2, {}), b, Paragraph(2, {})>> : b \in BlocksTried}

\* A document of ann's; a shorter version of it that bob may see, dated on the other side of
\* midnight in Korea; one shared with a team, whose title may be too long; three hopeless ones.
Request(d, source, t, type, users, workspaces, created, longTitle) ==
    [doc |-> d, source |-> source, text |-> t, type |-> type, owner |-> ann, users |-> users,
     departments |-> {}, workspaces |-> workspaces, created |-> created, longTitle |-> longTitle,
     organization |-> IF type = "PERSONAL_MEMO" THEN {} ELSE {organization},
     meeting |-> IF source = "pdf" THEN {1} ELSE {}]
First(t) == Request(docA, "pdf", t, "MEETING_MINUTES", {ann}, {}, 14, FALSE)
Shorter == Request(docA, "image", <<Paragraph(4, {})>>, "MEETING_MINUTES", {ann, bob}, {}, 15, FALSE)
Shared(longTitle) ==
    Request(docB, "content", <<Paragraph(2, {})>>, "PERSONAL_MEMO", {}, {team}, 38, longTitle)
Hopeless == {Request(docA, source, <<Paragraph(2, {})>>, "PERSONAL_MEMO", {}, {}, 14, FALSE) :
                 source \in {"content", "unknown", "corrupt"}}
BackendsTried == {{First(t)} : t \in TextsTried}
                 \cup {{First(<<Paragraph(2, {}), b, Paragraph(2, {})>>), Shorter, Shared(FALSE)} :
                           b \in {Paragraph(7, {}), Table(<<1, 1, 2, 8>>, 2)}}
                 \cup {{First(<<Paragraph(2, {})>>), Shorter, Shared(TRUE)} \cup Hopeless}

CommandsTried == {[user |-> ann, workspaces |-> {}], [user |-> bob, workspaces |-> {}],
                  [user |-> bob, workspaces |-> {team}]}
RoomsTried == {[meeting |-> m, organization |-> organization, participants |-> ps] :
                   <<m, ps>> \in {<<1, {ann}>>, <<2, {ann}>>, <<2, {ann, bob}>>}}
TypesTried == {{}, {"MINUTES"}}
Bound(kind, at) == [kind |-> kind, at |-> at]
PeriodsTried == {[after |-> Bound("none", 0), before |-> Bound("unreadable", 0)],
                 [after |-> Bound("day", 1), before |-> Bound("day", 1)],
                 [after |-> Bound("none", 0), before |-> Bound("day", 0)],
                 [after |-> Bound("instant", 15), before |-> Bound("instant", 38)],
                 [after |-> Bound("spaced", 15), before |-> Bound("spaced", 14)]}
=============================================================================
