-------------------------- MODULE DocumentChunker --------------------------
(***************************************************************************)
(* split_document_into_chunks as the loops it is made of: over the blocks  *)
(* of a text, over the windows of a block that is too long, over the rows  *)
(* of a table.  A step is one round of a loop.                             *)
(*                                                                         *)
(* A character is a block number and a position; what a chunk holds is a   *)
(* set of characters and its length, separators included.                  *)
(***************************************************************************)
EXTENDS Integers, Sequences, FiniteSets

CONSTANTS Texts,       \* the texts to be split, stripped and cut at empty lines
          MaxChars,    \* max_chars
          Overlap      \* overlap_chars

\* text[from:to] of Python, as positions counted from 1.
Slice(from, to) == (from + 1)..to

\* A block with its blank positions and its non-empty lines, stripped.  A line is a row of
\* a table (| ... |), the row of dashes below its header, or anything else.
Lines == [from : Nat, to : Nat, kind : {"text", "row", "separator"}]
Blocks == [length : Nat \ {0}, blank : SUBSET Nat, lines : Seq(Lines)]
LineChars(line) == Slice(line.from, line.to)

\* _split_long_block refuses other sizes.
ASSUME SizesAssumption == MaxChars \in Nat \ {0} /\ Overlap \in 0..(MaxChars - 1)

\* A block is stripped, its lines have a line break between them, and what is not blank is
\* in a line.
ASSUME TextsAssumption ==
    \A t \in Texts :
        /\ t \in Seq(Blocks)
        /\ \A b \in DOMAIN t :
              /\ t[b].lines # <<>> /\ t[b].blank \cap {1, t[b].length} = {}
              /\ \A r, s \in DOMAIN t[b].lines : r < s => t[b].lines[r].to < t[b].lines[s].from
              /\ \A r \in DOMAIN t[b].lines :
                    /\ t[b].lines[r].from < t[b].lines[r].to
                    /\ t[b].lines[r].to <= t[b].length
              /\ \A i \in (1..t[b].length) \ t[b].blank :
                    \E r \in DOMAIN t[b].lines : i \in LineChars(t[b].lines[r])

VARIABLES phase,     \* the loop that is running
          text,      \* the text being split
          block,     \* the block the outer loop is at
          row,       \* the row the table loop is at, 0 outside of tables
          start,     \* where the next window starts
          current,   \* the chunk being filled
          chunks     \* the chunks that are finished

chunkVars == <<phase, text, block, row, start, current, chunks>>

Chunk == [chars : SUBSET (Nat \X Nat), length : Nat]
Nothing == [chars |-> {}, length |-> 0]
-----------------------------------------------------------------------------
Row(b, r) == text[b].lines[r]
RowChars(b, r) == Slice(Row(b, r).from, Row(b, r).to)

\* chunk followed by a piece of block b, with a separator unless it is the first.
Joined(chunk, b, positions, length, separator) ==
    [chars |-> chunk.chars \cup ({b} \X positions),
     length |-> chunk.length + length + (IF chunk = Nothing THEN 0 ELSE separator)]

\* Whole blocks are joined by an empty line, the lines of a table by a line break.
WithBlock(chunk, b) == Joined(chunk, b, 1..text[b].length, text[b].length, 2)
WithRow(chunk, b, r) == Joined(chunk, b, RowChars(b, r), Row(b, r).to - Row(b, r).from, 1)

\* Mutant: the open chunk is forgotten.
Dropped == chunks

\* if current: chunks.append(current)
Flushed == IF current = Nothing THEN chunks ELSE Append(chunks, current)

\* _is_markdown_table: rows only, and a separator among the first three.
IsTable(b) == /\ Len(text[b].lines) >= 2
              /\ \A r \in DOMAIN text[b].lines : Row(b, r).kind # "text"
              /\ \E r \in 1..3 : r \in DOMAIN text[b].lines /\ Row(b, r).kind = "separator"

\* The header: the lines up to the first separator.
HeaderLines(b) == CHOOSE r \in 1..3 : /\ r \in DOMAIN text[b].lines
                                      /\ Row(b, r).kind = "separator"
                                      /\ \A s \in 1..(r - 1) : Row(b, s).kind # "separator"
Header(b) ==
    LET one == WithRow(Nothing, b, 1)
        two == WithRow(one, b, 2)
    IN CASE HeaderLines(b) = 1 -> one
         [] HeaderLines(b) = 2 -> two
         [] OTHER              -> WithRow(two, b, 3)

\* A table whose header leaves no room is split like a paragraph.
SplitsByRows(b) == IsTable(b) /\ Header(b).length < MaxChars
Fits(b, r) == WithRow(Header(b), b, r).length <= MaxChars

\* Mutant: a new chunk starts without the header.
FreshRow(b, r) == WithRow(Nothing, b, r)

\* The chunk a row starts: the header is repeated.
Fresh(b, r) == WithRow(Header(b), b, r)

\* Mutant: windows that only touch.
NoOverlap == 0

\* _split_plain_window is called for a row, or for the whole block, without overlap if the
\* block is a table.
WindowEnd == IF row = 0 THEN text[block].length ELSE Row(block, row).to
WindowOverlap == IF row = 0 /\ ~IsTable(block) THEN Overlap ELSE 0

ThisEnd == IF start + MaxChars < WindowEnd THEN start + MaxChars ELSE WindowEnd

\* text[start:end].strip()
Stripped(from, to) ==
    {i \in Slice(from, to) : /\ \E j \in Slice(from, i) : j \notin text[block].blank
                             /\ \E k \in Slice(i - 1, to) : k \notin text[block].blank}
-----------------------------------------------------------------------------
ChunkInit == /\ phase = "idle" /\ text = <<>> /\ block = 1 /\ row = 0 /\ start = 0
             /\ current = Nothing /\ chunks = <<>>

Split(t) == /\ phase \in {"idle", "done"}
            /\ phase' = "blocks"
            /\ text' = t
            /\ block' = 1 /\ row' = 0 /\ start' = 0
            /\ current' = Nothing /\ chunks' = <<>>

\* The next block joins the chunk, starts one, or must be split itself.
TakeBlock ==
    /\ phase = "blocks" /\ block <= Len(text)
    /\ IF WithBlock(current, block).length <= MaxChars
       THEN /\ current' = WithBlock(current, block)
            /\ block' = block + 1
            /\ UNCHANGED <<phase, row, start, chunks>>
       ELSE /\ chunks' = Flushed
            /\ IF text[block].length <= MaxChars
               THEN /\ current' = WithBlock(Nothing, block)
                    /\ block' = block + 1
                    /\ UNCHANGED <<phase, row, start>>
               ELSE IF SplitsByRows(block)
               THEN /\ phase' = "rows"
                    /\ current' = Header(block)
                    /\ row' = HeaderLines(block) + 1
                    /\ UNCHANGED <<block, start>>
               ELSE /\ phase' = "windows"
                    /\ current' = Nothing
                    /\ start' = 0
                    /\ UNCHANGED <<block, row>>
    /\ UNCHANGED text

\* The windows of a row, or of a block, are done.
LeaveWindows == IF row = 0
                THEN /\ phase' = "blocks" /\ block' = block + 1 /\ UNCHANGED row
                ELSE /\ phase' = "rows" /\ row' = row + 1 /\ UNCHANGED block

TakeWindow ==
    LET end == ThisEnd
        window == Stripped(start, end)
    IN /\ phase = "windows"
       /\ chunks' = IF window = {} THEN chunks
                    ELSE Append(chunks, [chars |-> {block} \X window,
                                         length |-> Cardinality(window)])
       /\ IF end >= WindowEnd
          THEN LeaveWindows /\ UNCHANGED start
          ELSE /\ start' = IF end - WindowOverlap > start + 1 THEN end - WindowOverlap ELSE start + 1
               /\ UNCHANGED <<phase, block, row>>
       /\ UNCHANGED <<text, current>>

\* _split_plain_window(row): the row does not fit below the header.
SplitRow == /\ phase' = "windows"
            /\ start' = Row(block, row).from
            /\ current' = Header(block)
            /\ UNCHANGED row

TakeRow ==
    /\ phase = "rows" /\ row <= Len(text[block].lines)
    /\ IF WithRow(current, block, row).length <= MaxChars
       THEN /\ current' = WithRow(current, block, row)
            /\ row' = row + 1
            /\ UNCHANGED <<phase, start, chunks>>
       ELSE IF current = Header(block)
       THEN SplitRow /\ UNCHANGED chunks
       ELSE /\ chunks' = Append(chunks, current)
            /\ IF Fits(block, row)
               THEN /\ current' = Fresh(block, row)
                    /\ row' = row + 1
                    /\ UNCHANGED <<phase, start>>
               ELSE SplitRow
    /\ UNCHANGED <<text, block>>

\* A header that stands alone is a chunk only if the table gave no other.
EndTable ==
    LET ofTable == {i \in DOMAIN chunks : \E c \in chunks[i].chars : c[1] = block}
    IN /\ phase = "rows" /\ row = Len(text[block].lines) + 1
       /\ chunks' = IF current # Header(block) \/ ofTable = {} THEN Append(chunks, current) ELSE chunks
       /\ phase' = "blocks" /\ block' = block + 1 /\ row' = 0
       /\ current' = Nothing
       /\ UNCHANGED <<text, start>>

EndText == /\ phase = "blocks" /\ block = Len(text) + 1
           /\ phase' = "done"
           /\ chunks' = Flushed
           /\ current' = Nothing
           /\ UNCHANGED <<text, block, row, start>>

ChunkStep == TakeBlock \/ TakeWindow \/ TakeRow \/ EndTable \/ EndText

ChunkNext == (\E t \in Texts : Split(t)) \/ ChunkStep
ChunkSpec == ChunkInit /\ [][ChunkNext]_chunkVars
-----------------------------------------------------------------------------
ChunkTypeOK ==
    /\ phase \in {"idle", "blocks", "windows", "rows", "done"}
    /\ text \in Texts \cup {<<>>}
    /\ block \in 1..(Len(text) + 1)
    /\ row \in Nat /\ start \in Nat
    /\ current \in Chunk
    /\ chunks \in Seq(Chunk)

\* What the embedding is asked to take: no chunk is longer than max_chars, whatever mix of
\* paragraphs, windows and tables it comes from.
ChunksBounded == \A i \in DOMAIN chunks : chunks[i].length <= MaxChars

\* Some chunk holds all of these characters of block b.
InOneChunk(b, positions) == \E i \in DOMAIN chunks : {b} \X positions \subseteq chunks[i].chars

Visible(b) == (1..text[b].length) \ text[b].blank

\* The one exception: the header of a table none of whose rows fits below it is dropped
\* (_split_markdown_table ends with chunks of bare rows and no row in current).
HeaderDropped(b) ==
    /\ SplitsByRows(b)
    /\ HeaderLines(b) < Len(text[b].lines)
    /\ \A r \in (HeaderLines(b) + 1)..Len(text[b].lines) : ~Fits(b, r)

\* Nothing that can be read in a document is missing from the index, wherever blocks,
\* windows and rows were cut.
NothingLost ==
    phase = "done" =>
        \A b \in DOMAIN text : \A i \in Visible(b) :
            \/ InOneChunk(b, {i})
            \/ HeaderDropped(b) /\ <<b, i>> \in Header(b).chars

\* What the overlap is for: a passage of up to overlap_chars + 1 characters of a paragraph
\* is whole in some chunk, although the paragraph was cut into windows.
PassagesWhole ==
    phase = "done" =>
        \A b \in DOMAIN text : \A f \in 0..(text[b].length - 1) :
            ~IsTable(b) => InOneChunk(b, Slice(f, f + Overlap + 1) \cap Visible(b))

\* "각 조각에 헤더를 반복한다": a row that fits below the header of its table is never cut
\* and never stands without that header.
RowsKeepHeader ==
    \A i \in DOMAIN chunks : \A b \in DOMAIN text :
        SplitsByRows(b) /\ text[b].length > MaxChars =>
            \A r \in (HeaderLines(b) + 1)..Len(text[b].lines) :
                Fits(b, r) /\ chunks[i].chars \cap ({b} \X RowChars(b, r)) # {} =>
                    Header(b).chars \cup ({b} \X RowChars(b, r)) \subseteq chunks[i].chars
=============================================================================
