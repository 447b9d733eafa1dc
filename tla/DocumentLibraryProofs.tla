----------------------- MODULE DocumentLibraryProofs -----------------------
(***************************************************************************)
(* Proofs about split_document_into_chunks, for any texts, any size of a   *)
(* chunk and any overlap below it; and about what readers are given of the *)
(* documents that were split so, for any requests, users, rooms and limits.*)
(***************************************************************************)
EXTENDS DocumentLibrary, FiniteSetTheorems, TLAPS

LEMMA BlockFacts ==
    ASSUME text \in Texts \cup {<<>>}, NEW b \in DOMAIN text
    PROVE  /\ text \in Seq(Blocks) /\ b \in 1..Len(text) /\ Len(text) \in Nat
           /\ text[b].length \in Nat \ {0}
           /\ text[b].lines \in Seq(Lines) /\ Len(text[b].lines) \in Nat \ {0}
           /\ \A r \in DOMAIN text[b].lines :
                 /\ Row(b, r).from \in Nat /\ Row(b, r).to \in Nat
                 /\ Row(b, r).from < Row(b, r).to /\ Row(b, r).to <= text[b].length
           /\ \A i \in Visible(b) : \E r \in DOMAIN text[b].lines : i \in RowChars(b, r)
<1>1. text \in Texts
  OBVIOUS
<1>2. text \in Seq(Blocks)
  BY <1>1, TextsAssumption
<1>3. text[b] \in Blocks /\ b \in 1..Len(text) /\ Len(text) \in Nat
  BY <1>2
<1>4. /\ text[b].length \in Nat \ {0} /\ text[b].lines \in Seq(Lines)
      /\ text[b].lines # <<>>
  BY <1>1, <1>3, TextsAssumption DEF Blocks
<1>5. ASSUME NEW r \in DOMAIN text[b].lines
      PROVE  /\ Row(b, r).from \in Nat /\ Row(b, r).to \in Nat
             /\ Row(b, r).from < Row(b, r).to /\ Row(b, r).to <= text[b].length
  <2>1. text[b].lines[r] \in Lines
    BY <1>4
  <2>2. QED BY <1>1, <2>1, TextsAssumption DEF Lines, Row
<1>6. \A i \in Visible(b) : \E r \in DOMAIN text[b].lines : i \in RowChars(b, r)
  BY <1>1, TextsAssumption DEF Visible, RowChars, LineChars, Row
<1>7. Len(text[b].lines) \in Nat \ {0}
  BY <1>4
<1>8. QED BY <1>2, <1>3, <1>4, <1>5, <1>6, <1>7

LEMMA NothingIsChunk == Nothing \in Chunk
BY DEF Nothing, Chunk

\* A piece is added with all its characters, and costs its length and a separator at most.
LEMMA JoinedFacts ==
    ASSUME NEW chunk, chunk \in Chunk, NEW b \in Nat, NEW positions, positions \subseteq Nat,
           NEW length \in Nat, NEW separator \in Nat
    PROVE  LET joined == Joined(chunk, b, positions, length, separator) IN
           /\ joined \in Chunk
           /\ joined.chars = chunk.chars \cup ({b} \X positions)
           /\ joined.length >= chunk.length + length
           /\ chunk = Nothing => joined.length = length
<1> DEFINE joined == Joined(chunk, b, positions, length, separator)
           gap == IF chunk = Nothing THEN 0 ELSE separator
<1>1. joined = [chars |-> chunk.chars \cup ({b} \X positions), length |-> chunk.length + length + gap]
  BY DEF Joined
<1>2. chunk.length \in Nat /\ chunk.chars \in SUBSET (Nat \X Nat) /\ gap \in Nat
  BY DEF Chunk
<1>3. {b} \X positions \in SUBSET (Nat \X Nat)
  OBVIOUS
<1>4. chunk = Nothing => gap = 0 /\ chunk.length = 0
  BY DEF Nothing
<1> HIDE DEF gap
<1>5. chunk.length + length + gap \in Nat
  BY <1>2
<1>6. joined \in Chunk
  BY <1>1, <1>2, <1>3, <1>5 DEF Chunk
<1>7. joined.chars = chunk.chars \cup ({b} \X positions) /\ joined.length = chunk.length + length + gap
  BY <1>1
<1>8. QED BY <1>2, <1>4, <1>6, <1>7

LEMMA WithBlockFacts ==
    ASSUME text \in Texts \cup {<<>>}, NEW b \in DOMAIN text, NEW chunk \in Chunk
    PROVE  /\ WithBlock(chunk, b) \in Chunk
           /\ WithBlock(chunk, b).chars = chunk.chars \cup ({b} \X (1..text[b].length))
           /\ chunk = Nothing => WithBlock(chunk, b).length = text[b].length
<1> DEFINE positions == 1..text[b].length
           length == text[b].length
<1>1. b \in Nat /\ length \in Nat /\ positions \subseteq Nat
  BY BlockFacts
<1>2. WithBlock(chunk, b) = Joined(chunk, b, positions, length, 2)
  BY DEF WithBlock
<1>3. length = text[b].length /\ positions = 1..text[b].length
  OBVIOUS
<1>4. chunk.length \in Nat
  BY DEF Chunk
<1> HIDE DEF positions, length
<1>5. /\ Joined(chunk, b, positions, length, 2) \in Chunk
      /\ Joined(chunk, b, positions, length, 2).chars = chunk.chars \cup ({b} \X positions)
  <2>1. 2 \in Nat
    OBVIOUS
  <2>2. Joined(chunk, b, positions, length, 2) \in Chunk
    BY <1>1, <2>1, JoinedFacts, ZenonT(20)
  <2>3. Joined(chunk, b, positions, length, 2).chars = chunk.chars \cup ({b} \X positions)
    BY DEF Joined
  <2>4. QED BY <2>2, <2>3
<1>6. chunk = Nothing => Joined(chunk, b, positions, length, 2).length = length
  BY <1>1 DEF Joined, Nothing
<1>7. QED BY <1>2, <1>3, <1>5, <1>6

LEMMA WithRowFacts ==
    ASSUME text \in Texts \cup {<<>>}, NEW b \in DOMAIN text, NEW r \in DOMAIN text[b].lines,
           NEW chunk \in Chunk
    PROVE  /\ WithRow(chunk, b, r) \in Chunk
           /\ WithRow(chunk, b, r).chars = chunk.chars \cup ({b} \X RowChars(b, r))
           /\ WithRow(chunk, b, r).length > chunk.length
<1>1. /\ Row(b, r).from \in Nat /\ Row(b, r).to \in Nat /\ Row(b, r).from < Row(b, r).to
      /\ b \in Nat
  BY BlockFacts
<1> DEFINE positions == RowChars(b, r)
           length == Row(b, r).to - Row(b, r).from
<1>2. positions \subseteq Nat /\ length \in Nat /\ length > 0 /\ positions = RowChars(b, r)
  BY <1>1 DEF RowChars, Slice
<1>3. WithRow(chunk, b, r) = Joined(chunk, b, positions, length, 1)
  BY DEF WithRow
<1>4. chunk.length \in Nat
  BY DEF Chunk
<1> HIDE DEF positions, length
<1>5. LET joined == Joined(chunk, b, positions, length, 1) IN
      /\ joined \in Chunk
      /\ joined.chars = chunk.chars \cup ({b} \X positions)
      /\ joined.length >= chunk.length + length
  BY <1>1, <1>2, JoinedFacts
<1>6. WithRow(chunk, b, r).length \in Nat
  BY <1>3, <1>5 DEF Chunk
<1>7. QED BY <1>2, <1>3, <1>4, <1>5, <1>6

LEMMA HeaderFacts ==
    ASSUME text \in Texts \cup {<<>>}, NEW b \in DOMAIN text, IsTable(b)
    PROVE  /\ HeaderLines(b) \in 1..3 /\ HeaderLines(b) \in DOMAIN text[b].lines
           /\ Header(b) \in Chunk
           /\ Header(b).length > 0
           /\ Header(b).chars = UNION {{b} \X RowChars(b, r) : r \in 1..HeaderLines(b)}
<1> DEFINE Ends(r) == /\ r \in DOMAIN text[b].lines
                      /\ Row(b, r).kind = "separator"
                      /\ \A s \in 1..(r - 1) : Row(b, s).kind # "separator"
<1>1. DOMAIN text[b].lines = 1..Len(text[b].lines) /\ Len(text[b].lines) \in Nat
      /\ Len(text[b].lines) >= 2
  BY BlockFacts DEF IsTable
<1>2. \E r \in 1..3 : Ends(r)
  <2>1. PICK r \in 1..3 : r \in DOMAIN text[b].lines /\ Row(b, r).kind = "separator"
    BY DEF IsTable
  <2>2. CASE Row(b, 1).kind = "separator"
    BY <1>1, <2>2
  <2>3. CASE Row(b, 1).kind # "separator" /\ Row(b, 2).kind = "separator"
    <3>1. \A s \in 1..(2 - 1) : s = 1
      OBVIOUS
    <3>2. Ends(2)
      BY <1>1, <2>3, <3>1
    <3>3. QED BY <3>2
  <2>4. CASE Row(b, 1).kind # "separator" /\ Row(b, 2).kind # "separator"
    <3>1. r = 3 /\ \A s \in 1..(3 - 1) : s = 1 \/ s = 2
      BY <2>1, <2>4
    <3>2. Ends(3)
      BY <2>1, <2>4, <3>1
    <3>3. QED BY <3>2
  <2>5. QED BY <2>2, <2>3, <2>4
<1>3. HeaderLines(b) \in 1..3 /\ HeaderLines(b) \in DOMAIN text[b].lines
  BY <1>2 DEF HeaderLines
<1> DEFINE one == WithRow(Nothing, b, 1)
           two == WithRow(one, b, 2)
           three == WithRow(two, b, 3)
<1>4. one \in Chunk /\ one.chars = {b} \X RowChars(b, 1) /\ one.length > 0
  <2>1. 1 \in DOMAIN text[b].lines
    BY <1>1
  <2>2. one \in Chunk /\ one.chars = Nothing.chars \cup ({b} \X RowChars(b, 1))
        /\ one.length > Nothing.length
    BY <2>1, NothingIsChunk, WithRowFacts
  <2>3. QED BY <2>2 DEF Nothing
<1>5. two \in Chunk /\ two.chars = one.chars \cup ({b} \X RowChars(b, 2)) /\ two.length > one.length
  <2> HIDE DEF one
  <2>1. 2 \in DOMAIN text[b].lines
    BY <1>1
  <2>2. QED BY <1>4, <2>1, WithRowFacts
<1>6. 3 \in DOMAIN text[b].lines =>
         /\ three \in Chunk /\ three.chars = two.chars \cup ({b} \X RowChars(b, 3))
         /\ three.length > two.length
  <2> SUFFICES ASSUME 3 \in DOMAIN text[b].lines
               PROVE  /\ three \in Chunk /\ three.chars = two.chars \cup ({b} \X RowChars(b, 3))
                      /\ three.length > two.length
    OBVIOUS
  <2> HIDE DEF two
  <2>1. QED BY <1>5, WithRowFacts
<1>7. Header(b) = CASE HeaderLines(b) = 1 -> one [] HeaderLines(b) = 2 -> two [] OTHER -> three
  BY DEF Header
<1>8. one.length \in Nat /\ two.length \in Nat
  BY <1>4, <1>5 DEF Chunk
<1> HIDE DEF one, two, three
<1>9. CASE HeaderLines(b) = 1
  <2>1. {{b} \X RowChars(b, r) : r \in 1..HeaderLines(b)} = {{b} \X RowChars(b, 1)}
    BY <1>9
  <2>2. QED BY <1>3, <1>4, <1>7, <1>9, <2>1
<1>10. CASE HeaderLines(b) = 2
  <2>1. \A r \in 1..HeaderLines(b) : r = 1 \/ r = 2
    BY <1>10
  <2>2. {{b} \X RowChars(b, r) : r \in 1..HeaderLines(b)}
          = {{b} \X RowChars(b, 1), {b} \X RowChars(b, 2)}
    BY <1>10, <2>1
  <2>3. two.chars = UNION {{b} \X RowChars(b, r) : r \in 1..HeaderLines(b)}
    BY <1>4, <1>5, <2>2
  <2>4. QED BY <1>3, <1>4, <1>5, <1>7, <1>8, <1>10, <2>3
<1>11. CASE HeaderLines(b) = 3
  <2>1. \A r \in 1..HeaderLines(b) : r = 1 \/ r = 2 \/ r = 3
    BY <1>11
  <2>2. {{b} \X RowChars(b, r) : r \in 1..HeaderLines(b)}
          = {{b} \X RowChars(b, 1), {b} \X RowChars(b, 2), {b} \X RowChars(b, 3)}
    BY <1>11, <2>1
  <2>3. three \in Chunk /\ three.chars = two.chars \cup ({b} \X RowChars(b, 3))
        /\ three.length > two.length /\ three.length \in Nat
    BY <1>3, <1>6, <1>11 DEF Chunk
  <2>4. three.chars = UNION {{b} \X RowChars(b, r) : r \in 1..HeaderLines(b)}
    BY <1>4, <1>5, <2>2, <2>3
  <2>5. QED BY <1>3, <1>4, <1>5, <1>7, <1>8, <1>11, <2>3, <2>4
<1>12. QED BY <1>3, <1>9, <1>10, <1>11
-----------------------------------------------------------------------------
LEMMA WindowFacts ==
    ASSUME NEW from \in Nat, NEW to \in Nat, to <= from + MaxChars
    PROVE  /\ Stripped(from, to) \subseteq Slice(from, to)
           /\ Cardinality(Stripped(from, to)) \in 0..MaxChars
<1>1. Stripped(from, to) \subseteq Slice(from, to)
  BY DEF Stripped
<1>2. IsFiniteSet(Slice(from, to)) /\ Cardinality(Slice(from, to)) \in 0..MaxChars
  <2> DEFINE low == from + 1
  <2>1. low \in Int /\ to \in Int
    OBVIOUS
  <2>2. /\ IsFiniteSet(low..to)
        /\ Cardinality(low..to) = IF low > to THEN 0 ELSE to - low + 1
    BY <2>1, FS_Interval, Zenon
  <2>3. QED BY <2>2, SizesAssumption DEF Slice
<1>3. /\ IsFiniteSet(Stripped(from, to))
      /\ Cardinality(Stripped(from, to)) <= Cardinality(Slice(from, to))
  BY <1>1, <1>2, FS_Subset
<1>4. Cardinality(Stripped(from, to)) \in Nat
  BY <1>3, FS_CardinalityType
<1>5. QED BY <1>1, <1>2, <1>3, <1>4, SizesAssumption

\* What the phases mean: a table is at its block and below its header, and carries the
\* header whenever one of its rows is cut.
Progress ==
    /\ phase = "blocks" => row = 0
    /\ phase = "windows" =>
          /\ block \in DOMAIN text
          /\ \/ row = 0 /\ current = Nothing
             \/ /\ SplitsByRows(block) /\ current = Header(block)
                /\ row \in (HeaderLines(block) + 1)..Len(text[block].lines)
    /\ phase = "rows" =>
          /\ block \in DOMAIN text
          /\ SplitsByRows(block)
          /\ row \in (HeaderLines(block) + 1)..(Len(text[block].lines) + 1)

\* The chunk being filled never outgrows the limit either.
Bounded == ChunksBounded /\ current.length <= MaxChars

ChunkInv == ChunkTypeOK /\ Progress /\ Bounded

LEMMA FlushedFacts ==
    ASSUME ChunkTypeOK, Bounded
    PROVE  /\ Flushed \in Seq(Chunk)
           /\ \A i \in DOMAIN Flushed : Flushed[i].length <= MaxChars
BY DEF ChunkTypeOK, Bounded, ChunksBounded, Flushed

LEMMA LimitFacts == MaxChars \in Nat /\ MaxChars > 0 /\ Overlap \in Nat /\ Overlap < MaxChars
BY SizesAssumption

LEMMA InitKeeps == ChunkInit => ChunkInv
<1> SUFFICES ASSUME ChunkInit PROVE ChunkInv
  OBVIOUS
<1>1. ChunkTypeOK
  BY NothingIsChunk DEF ChunkInit, ChunkTypeOK
<1>2. Progress
  BY DEF ChunkInit, Progress
<1>3. Bounded
  BY LimitFacts DEF ChunkInit, Bounded, ChunksBounded, Nothing
<1>4. QED BY <1>1, <1>2, <1>3 DEF ChunkInv

LEMMA SplitKeeps ==
    ASSUME ChunkInv, NEW t \in Texts, Split(t)
    PROVE  ChunkInv'
<1>1. Len(t) \in Nat
  BY TextsAssumption
<1>2. ChunkTypeOK'
  BY <1>1, NothingIsChunk DEF Split, ChunkTypeOK, Chunk
<1>3. Progress'
  BY DEF Split, Progress
<1>4. Bounded'
  BY LimitFacts DEF Split, Bounded, ChunksBounded, Nothing
<1>5. QED BY <1>2, <1>3, <1>4 DEF ChunkInv

LEMMA TakeBlockKeeps ==
    ASSUME ChunkInv, TakeBlock
    PROVE  ChunkInv'
<1>1. /\ phase = "blocks" /\ row = 0 /\ text' = text
      /\ text \in Texts \cup {<<>>} /\ current \in Chunk /\ chunks \in Seq(Chunk)
      /\ start \in Nat /\ Nothing \in Chunk
  BY NothingIsChunk DEF TakeBlock, ChunkInv, ChunkTypeOK, Progress
<1>2. block \in DOMAIN text /\ block \in 1..Len(text) /\ Len(text) \in Nat
  <2>1. Len(text) \in Nat /\ DOMAIN text = 1..Len(text)
    BY <1>1, TextsAssumption
  <2>2. QED BY <2>1 DEF TakeBlock, ChunkInv, ChunkTypeOK
<1>3. /\ WithBlock(current, block) \in Chunk /\ WithBlock(Nothing, block) \in Chunk
      /\ WithBlock(Nothing, block).length = text[block].length
  BY <1>1, <1>2, WithBlockFacts
<1>4. /\ Flushed \in Seq(Chunk)
      /\ \A i \in DOMAIN Flushed : Flushed[i].length <= MaxChars
  BY FlushedFacts DEF ChunkInv
<1>5. CASE /\ current' = WithBlock(current, block) /\ WithBlock(current, block).length <= MaxChars
           /\ block' = block + 1
           /\ UNCHANGED <<phase, row, start, chunks>>
  <2>1. ChunkTypeOK'
    BY <1>1, <1>2, <1>3, <1>5 DEF ChunkInv, ChunkTypeOK
  <2>2. Progress'
    BY <1>1, <1>5 DEF Progress
  <2>3. Bounded'
    BY <1>5 DEF ChunkInv, Bounded, ChunksBounded
  <2>4. QED BY <2>1, <2>2, <2>3 DEF ChunkInv
<1>6. CASE /\ chunks' = Flushed
           /\ text[block].length <= MaxChars
           /\ current' = WithBlock(Nothing, block)
           /\ block' = block + 1
           /\ UNCHANGED <<phase, row, start>>
  <2>1. ChunkTypeOK'
    BY <1>1, <1>2, <1>3, <1>4, <1>6 DEF ChunkInv, ChunkTypeOK
  <2>2. Progress'
    BY <1>1, <1>6 DEF Progress
  <2>3. Bounded'
    BY <1>3, <1>4, <1>6 DEF Bounded, ChunksBounded
  <2>4. QED BY <2>1, <2>2, <2>3 DEF ChunkInv
<1>7. CASE /\ chunks' = Flushed
           /\ SplitsByRows(block)
           /\ phase' = "rows"
           /\ current' = Header(block)
           /\ row' = HeaderLines(block) + 1
           /\ UNCHANGED <<block, start>>
  <2>1. /\ HeaderLines(block) \in 1..3 /\ HeaderLines(block) \in DOMAIN text[block].lines
        /\ Header(block) \in Chunk
    BY <1>1, <1>2, <1>7, HeaderFacts DEF SplitsByRows
  <2>2. DOMAIN text[block].lines = 1..Len(text[block].lines) /\ Len(text[block].lines) \in Nat
    BY <1>1, <1>2, BlockFacts
  <2>3. ChunkTypeOK'
    BY <1>1, <1>2, <1>4, <1>7, <2>1 DEF ChunkInv, ChunkTypeOK
  <2>4. row' \in (HeaderLines(block) + 1)..(Len(text[block].lines) + 1)
    BY <1>7, <2>1, <2>2
  <2>5. SplitsByRows(block)' /\ HeaderLines(block)' = HeaderLines(block)
    BY <1>1, <1>7 DEF SplitsByRows, IsTable, Header, HeaderLines, WithRow, Joined, Row, RowChars, Slice
  <2>6. Progress'
    BY <1>1, <1>2, <1>7, <2>4, <2>5 DEF Progress
  <2>7. Bounded'
    BY <1>4, <1>7, <2>1, LimitFacts DEF Bounded, ChunksBounded, SplitsByRows, Chunk
  <2>8. QED BY <2>3, <2>6, <2>7 DEF ChunkInv
<1>8. CASE /\ chunks' = Flushed
           /\ phase' = "windows"
           /\ current' = Nothing
           /\ start' = 0
           /\ UNCHANGED <<block, row>>
  <2>1. ChunkTypeOK'
    BY <1>1, <1>2, <1>4, <1>8 DEF ChunkInv, ChunkTypeOK
  <2>2. Progress'
    BY <1>1, <1>2, <1>8 DEF Progress
  <2>3. Bounded'
    BY <1>4, <1>8, LimitFacts DEF Bounded, ChunksBounded, Nothing
  <2>4. QED BY <2>1, <2>2, <2>3 DEF ChunkInv
<1>9. QED BY <1>5, <1>6, <1>7, <1>8 DEF TakeBlock

LEMMA TakeWindowKeeps ==
    ASSUME ChunkInv, TakeWindow
    PROVE  ChunkInv'
<1> DEFINE end == ThisEnd
           window == Stripped(start, end)
           piece == [chars |-> {block} \X window, length |-> Cardinality(window)]
<1>1. /\ phase = "windows" /\ text' = text /\ current' = current
      /\ text \in Texts \cup {<<>>} /\ current \in Chunk /\ chunks \in Seq(Chunk)
      /\ start \in Nat /\ row \in Nat /\ block \in DOMAIN text
      /\ block \in 1..Len(text) /\ Len(text) \in Nat
  <2>1. phase = "windows" /\ UNCHANGED <<text, current>>
    BY DEF TakeWindow
  <2>2. /\ text \in Texts \cup {<<>>} /\ current \in Chunk /\ chunks \in Seq(Chunk)
        /\ start \in Nat /\ row \in Nat /\ block \in DOMAIN text
    BY <2>1 DEF ChunkInv, ChunkTypeOK, Progress
  <2>3. QED BY <2>1, <2>2, BlockFacts
<1>2. \/ row = 0 /\ current = Nothing
      \/ /\ SplitsByRows(block) /\ current = Header(block)
         /\ row \in (HeaderLines(block) + 1)..Len(text[block].lines)
  BY <1>1 DEF ChunkInv, Progress
<1>3. row # 0 => row \in DOMAIN text[block].lines /\ HeaderLines(block) \in 1..3
  <2> SUFFICES ASSUME row # 0
               PROVE  row \in DOMAIN text[block].lines /\ HeaderLines(block) \in 1..3
    OBVIOUS
  <2>1. HeaderLines(block) \in 1..3
    BY <1>1, <1>2, HeaderFacts DEF SplitsByRows
  <2>2. DOMAIN text[block].lines = 1..Len(text[block].lines) /\ Len(text[block].lines) \in Nat
    BY <1>1, BlockFacts
  <2>3. QED BY <1>2, <2>1, <2>2
<1>4. WindowEnd \in Nat
  BY <1>1, <1>3, BlockFacts DEF WindowEnd
<1>5. end \in Nat /\ end <= start + MaxChars
  BY <1>1, <1>4, LimitFacts DEF ThisEnd
<1>6. window \subseteq Slice(start, end) /\ Cardinality(window) \in 0..MaxChars
  <2> HIDE DEF end
  <2>1. QED BY <1>1, <1>5, WindowFacts
<1>7. piece \in Chunk /\ piece.length <= MaxChars
  <2>1. window \subseteq Nat /\ block \in Nat
    BY <1>1, <1>5, <1>6 DEF Slice
  <2> HIDE DEF window, end
  <2>2. {block} \X window \in SUBSET (Nat \X Nat)
    BY <2>1
  <2>3. Cardinality(window) \in Nat /\ Cardinality(window) <= MaxChars
    BY <1>6, LimitFacts
  <2>4. QED BY <2>2, <2>3 DEF Chunk
<1>8. chunks' = chunks \/ chunks' = Append(chunks, piece)
  BY DEF TakeWindow
<1> HIDE DEF piece
<1>9. /\ chunks' \in Seq(Chunk)
      /\ \A i \in DOMAIN chunks' : chunks'[i].length <= MaxChars
  BY <1>1, <1>7, <1>8 DEF ChunkInv, Bounded, ChunksBounded
<1>10. Bounded'
  BY <1>1, <1>9 DEF ChunkInv, Bounded, ChunksBounded
<1>11. CASE end >= WindowEnd /\ LeaveWindows /\ UNCHANGED start
  <2>1. ChunkTypeOK'
    BY <1>1, <1>9, <1>11 DEF LeaveWindows, ChunkTypeOK
  <2> HIDE DEF end
  <2>2. ASSUME row = 0 PROVE Progress'
    <3>1. phase' = "blocks" /\ row' = 0
      BY <1>11, <2>2 DEF LeaveWindows
    <3>2. QED BY <3>1 DEF Progress
  <2>3. ASSUME row # 0 PROVE Progress'
    <3>1. /\ phase' = "rows" /\ row' = row + 1 /\ block' = block
          /\ SplitsByRows(block) /\ row \in (HeaderLines(block) + 1)..Len(text[block].lines)
      BY <1>2, <1>11, <2>3 DEF LeaveWindows
    <3>2. SplitsByRows(block)' /\ HeaderLines(block)' = HeaderLines(block)
      BY <1>1, <3>1
         DEF SplitsByRows, IsTable, Header, HeaderLines, WithRow, Joined, Row, RowChars, Slice
    <3>3. row' \in (HeaderLines(block) + 1)..(Len(text[block].lines) + 1)
      BY <1>1, <1>3, <2>3, <3>1, BlockFacts
    <3>4. block' \in DOMAIN text' /\ row' \in ((HeaderLines(block) + 1)..(Len(text[block].lines) + 1))'
      BY <1>1, <3>1, <3>2, <3>3
    <3>5. QED BY <3>1, <3>2, <3>4 DEF Progress
  <2>4. QED BY <1>10, <2>1, <2>2, <2>3 DEF ChunkInv
<1>12. CASE /\ start' = IF end - WindowOverlap > start + 1 THEN end - WindowOverlap ELSE start + 1
            /\ UNCHANGED <<phase, block, row>>
  <2>1. WindowOverlap \in Nat
    BY LimitFacts DEF WindowOverlap
  <2>2. start' \in Nat
    <3> HIDE DEF end
    <3>1. QED BY <1>1, <1>5, <1>12, <2>1
  <2>3. ChunkTypeOK'
    BY <1>1, <1>9, <1>12, <2>2 DEF ChunkInv, ChunkTypeOK
  <2>4. Progress'
    <3>1. /\ SplitsByRows(block)' = SplitsByRows(block)
          /\ HeaderLines(block)' = HeaderLines(block) /\ Header(block)' = Header(block)
      BY <1>1, <1>12
         DEF SplitsByRows, IsTable, Header, HeaderLines, WithRow, Joined, Row, RowChars, Slice
    <3>2. QED BY <1>1, <1>2, <1>12, <3>1 DEF Progress
  <2>5. QED BY <1>10, <2>3, <2>4 DEF ChunkInv
<1>13. QED BY <1>11, <1>12 DEF TakeWindow

LEMMA TakeRowKeeps ==
    ASSUME ChunkInv, TakeRow
    PROVE  ChunkInv'
<1>1. /\ phase = "rows" /\ text' = text /\ block' = block
      /\ text \in Texts \cup {<<>>} /\ current \in Chunk /\ chunks \in Seq(Chunk)
      /\ start \in Nat /\ block \in DOMAIN text /\ block \in 1..(Len(text) + 1)
  BY DEF TakeRow, ChunkInv, ChunkTypeOK, Progress
<1>2. /\ SplitsByRows(block)
      /\ row \in (HeaderLines(block) + 1)..(Len(text[block].lines) + 1)
      /\ row <= Len(text[block].lines)
  BY <1>1 DEF TakeRow, ChunkInv, Progress
<1>3. /\ HeaderLines(block) \in 1..3 /\ Header(block) \in Chunk
      /\ Header(block).length < MaxChars
  BY <1>1, <1>2, HeaderFacts DEF SplitsByRows
<1>4. /\ row \in Nat /\ row \in DOMAIN text[block].lines
      /\ Row(block, row).from \in Nat
  <2>1. /\ DOMAIN text[block].lines = 1..Len(text[block].lines)
        /\ Len(text[block].lines) \in Nat
    BY <1>1, BlockFacts
  <2>2. row \in DOMAIN text[block].lines
    BY <1>2, <1>3, <2>1
  <2>3. QED BY <1>1, <2>1, <2>2, BlockFacts
<1>5. WithRow(current, block, row) \in Chunk /\ Fresh(block, row) \in Chunk
  BY <1>1, <1>3, <1>4, WithRowFacts DEF Fresh
<1>6. /\ SplitsByRows(block)' /\ HeaderLines(block)' = HeaderLines(block)
      /\ Header(block)' = Header(block)
  BY <1>1, <1>2
     DEF SplitsByRows, IsTable, Header, HeaderLines, WithRow, Joined, Row, RowChars, Slice
<1>7. /\ Append(chunks, current) \in Seq(Chunk)
      /\ \A i \in DOMAIN Append(chunks, current) : Append(chunks, current)[i].length <= MaxChars
      /\ \A i \in DOMAIN chunks : chunks[i].length <= MaxChars
      /\ current.length <= MaxChars
  BY <1>1 DEF ChunkInv, Bounded, ChunksBounded
<1>8. ASSUME chunks' \in {chunks, Append(chunks, current)}, current'.length <= MaxChars
      PROVE  Bounded'
  BY <1>7, <1>8 DEF Bounded, ChunksBounded
<1>9. ASSUME NEW chunk \in Chunk, chunk.length <= MaxChars, current' = chunk,
             row' = row + 1, UNCHANGED <<phase, start>>,
             chunks' \in {chunks, Append(chunks, current)}
      PROVE  ChunkInv'
  <2>1. ChunkTypeOK'
    BY <1>1, <1>4, <1>7, <1>9 DEF ChunkInv, ChunkTypeOK
  <2>2. row' \in ((HeaderLines(block) + 1)..(Len(text[block].lines) + 1))'
    BY <1>1, <1>2, <1>3, <1>4, <1>6, <1>9, BlockFacts
  <2>3. Progress'
    BY <1>1, <1>6, <1>9, <2>2 DEF Progress
  <2>4. QED BY <1>8, <1>9, <2>1, <2>3 DEF ChunkInv
<1>10. ASSUME SplitRow, chunks' \in {chunks, Append(chunks, current)}
       PROVE  ChunkInv'
  <2>1. /\ phase' = "windows" /\ start' = Row(block, row).from
        /\ current' = Header(block) /\ row' = row
    BY <1>10 DEF SplitRow
  <2>2. ChunkTypeOK'
    BY <1>1, <1>3, <1>4, <1>7, <1>10, <2>1 DEF ChunkInv, ChunkTypeOK
  <2>3. row' \in ((HeaderLines(block) + 1)..Len(text[block].lines))'
    BY <1>1, <1>2, <1>3, <1>4, <1>6, <2>1, BlockFacts
  <2>4. Progress'
    BY <1>1, <1>6, <2>1, <2>3 DEF Progress
  <2>5. current'.length <= MaxChars
    BY <1>3, <2>1, LimitFacts DEF Chunk
  <2>6. QED BY <1>8, <1>10, <2>2, <2>4, <2>5 DEF ChunkInv
<1>11. CASE /\ WithRow(current, block, row).length <= MaxChars
            /\ current' = WithRow(current, block, row)
            /\ row' = row + 1
            /\ UNCHANGED <<phase, start, chunks>>
  BY <1>5, <1>9, <1>11
<1>12. CASE /\ chunks' = Append(chunks, current)
            /\ Fits(block, row)
            /\ current' = Fresh(block, row)
            /\ row' = row + 1
            /\ UNCHANGED <<phase, start>>
  <2>1. Fresh(block, row).length <= MaxChars
    BY <1>12 DEF Fresh, Fits
  <2>2. QED BY <1>5, <1>9, <1>12, <2>1
<1>13. CASE SplitRow /\ chunks' \in {chunks, Append(chunks, current)}
  BY <1>10, <1>13
<1>14. QED BY <1>11, <1>12, <1>13 DEF TakeRow

LEMMA EndTableKeeps ==
    ASSUME ChunkInv, EndTable
    PROVE  ChunkInv'
<1>1. /\ phase = "rows" /\ phase' = "blocks" /\ block' = block + 1 /\ row' = 0
      /\ current' = Nothing /\ text' = text /\ start' = start
      /\ chunks' \in {chunks, Append(chunks, current)}
  BY DEF EndTable
<1>2. /\ text \in Texts \cup {<<>>} /\ current \in Chunk /\ chunks \in Seq(Chunk)
      /\ start \in Nat /\ block \in DOMAIN text
  BY <1>1 DEF ChunkInv, ChunkTypeOK, Progress
<1>3. block \in 1..Len(text) /\ Len(text) \in Nat
  BY <1>2, BlockFacts
<1>4. ChunkTypeOK'
  <2>1. chunks' \in Seq(Chunk)
    BY <1>1, <1>2
  <2>2. text' \in Texts \cup {<<>>} /\ start' \in Nat /\ row' \in Nat
    BY <1>1, <1>2
  <2>3. block' \in 1..(Len(text') + 1)
    BY <1>1, <1>3
  <2>4. QED BY <1>1, <2>1, <2>2, <2>3, NothingIsChunk DEF ChunkTypeOK
<1>5. Progress'
  BY <1>1 DEF Progress
<1>6. Bounded'
  <2>1. current'.length <= MaxChars
    BY <1>1, LimitFacts DEF Nothing
  <2>2. \A i \in DOMAIN chunks' : chunks'[i].length <= MaxChars
    BY <1>1, <1>2 DEF ChunkInv, Bounded, ChunksBounded
  <2>3. QED BY <2>1, <2>2 DEF Bounded, ChunksBounded
<1>7. QED BY <1>4, <1>5, <1>6 DEF ChunkInv

LEMMA EndTextKeeps ==
    ASSUME ChunkInv, EndText
    PROVE  ChunkInv'
<1>1. /\ Flushed \in Seq(Chunk)
      /\ \A i \in DOMAIN Flushed : Flushed[i].length <= MaxChars
  BY FlushedFacts DEF ChunkInv
<1>2. ChunkTypeOK'
  BY <1>1, NothingIsChunk DEF EndText, ChunkInv, ChunkTypeOK
<1>3. Progress'
  BY DEF EndText, Progress
<1>4. Bounded'
  BY <1>1, LimitFacts DEF EndText, Bounded, ChunksBounded, Nothing
<1>5. QED BY <1>2, <1>3, <1>4 DEF ChunkInv

LEMMA StepKeeps == ChunkInv /\ [ChunkNext]_chunkVars => ChunkInv'
<1> SUFFICES ASSUME ChunkInv, [ChunkNext]_chunkVars PROVE ChunkInv'
  OBVIOUS
<1>1. CASE \E t \in Texts : Split(t)
  BY <1>1, SplitKeeps
<1>2. CASE TakeBlock
  BY <1>2, TakeBlockKeeps
<1>3. CASE TakeWindow
  BY <1>3, TakeWindowKeeps
<1>4. CASE TakeRow
  BY <1>4, TakeRowKeeps
<1>5. CASE EndTable
  BY <1>5, EndTableKeeps
<1>6. CASE EndText
  BY <1>6, EndTextKeeps
<1>7. CASE UNCHANGED chunkVars
  <2>1. UNCHANGED <<phase, text, block, row, start, current, chunks>>
    BY <1>7 DEF chunkVars
  <2>2. ChunkTypeOK'
    BY <2>1 DEF ChunkInv, ChunkTypeOK
  <2>3. Bounded'
    BY <2>1 DEF ChunkInv, Bounded, ChunksBounded
  <2>4. /\ SplitsByRows(block)' = SplitsByRows(block)
        /\ HeaderLines(block)' = HeaderLines(block) /\ Header(block)' = Header(block)
    BY <2>1 DEF SplitsByRows, IsTable, Header, HeaderLines, WithRow, Joined, Row, RowChars, Slice
  <2>5. Progress'
    BY <2>1, <2>4 DEF ChunkInv, Progress
  <2>6. QED BY <2>2, <2>3, <2>5 DEF ChunkInv
<1>8. QED BY <1>1, <1>2, <1>3, <1>4, <1>5, <1>6, <1>7 DEF ChunkNext, ChunkStep

\* The state of the splitter keeps its types, for any texts and sizes.
THEOREM ChunkTypeCorrect == ChunkSpec => []ChunkTypeOK
<1>1. ChunkInv => ChunkTypeOK
  BY DEF ChunkInv
<1>2. QED BY InitKeeps, StepKeeps, <1>1, PTL DEF ChunkSpec

\* split_document_into_chunks never returns a chunk longer than max_chars, whatever
\* paragraphs, tables and single lines the text is made of.
THEOREM ChunksStayBounded == ChunkSpec => []ChunksBounded
<1>1. ChunkInv => ChunksBounded
  BY DEF ChunkInv, Bounded
<1>2. QED BY InitKeeps, StepKeeps, <1>1, PTL DEF ChunkSpec
-----------------------------------------------------------------------------
\* Character x is in a finished chunk.
InChunks(x) == \E k \in DOMAIN chunks : x \in chunks[k].chars

Remains(b, i) ==
    \/ InChunks(<<b, i>>)
    \/ phase = "blocks" /\ <<b, i>> \in current.chars
    \/ HeaderDropped(b) /\ <<b, i>> \in Header(b).chars

\* The blocks behind the loop are kept, and the loop ends behind the last one.
Behind == /\ \A b \in DOMAIN text : \A i \in Visible(b) : b < block => Remains(b, i)
          /\ phase = "done" => block = Len(text) + 1

\* No chunk holds anything of a block the loop has not come to; a table whose rows have not
\* been looked at is in no chunk.
NotAhead ==
    /\ \A x \in Nat \X Nat : InChunks(x) \/ x \in current.chars => x[1] <= block
    /\ \A x \in Nat \X Nat :
          phase = "blocks" /\ (InChunks(x) \/ x \in current.chars) => x[1] < block
    /\ \A x \in Nat \X Nat :
          phase = "rows" /\ row = HeaderLines(block) + 1 /\ InChunks(x) => x[1] < block

\* The windows so far hold what can be read up to where the next one starts.
WindowsSoFar ==
    phase = "windows" =>
        \A i \in Visible(block) :
            i <= start /\ (row = 0 \/ Row(block, row).from < i) => InChunks(<<block, i>>)

\* The rows so far are in a chunk or in the one being filled, which starts with the header;
\* and the header is in a chunk unless every row so far was cut.
RowsSoFar ==
    phase = "rows" \/ (phase = "windows" /\ row # 0) =>
        /\ \A r \in (HeaderLines(block) + 1)..(row - 1) :
              \A i \in Visible(block) \cap RowChars(block, r) :
                 InChunks(<<block, i>>) \/ <<block, i>> \in current.chars
        /\ Header(block).chars \subseteq current.chars
        /\ current # Header(block) => current.length > Header(block).length
        /\ \/ current # Header(block)
           \/ \A x \in Header(block).chars : InChunks(x)
           \/ \A r \in (HeaderLines(block) + 1)..(row - 1) : ~Fits(block, r)
        /\ phase = "windows" => ~Fits(block, row)

KeepInv == ChunkInv /\ Behind /\ NotAhead /\ WindowsSoFar /\ RowsSoFar

\* What a finished chunk holds stays; what is finished is what it adds.
LEMMA GrowthFacts ==
    ASSUME chunks \in Seq(Chunk), NEW chunk \in Chunk,
           chunks' = chunks \/ chunks' = Append(chunks, chunk)
    PROVE  /\ \A x : InChunks(x) => InChunks(x)'
           /\ \A x : InChunks(x)' => InChunks(x) \/ x \in chunk.chars
           /\ chunks' = Append(chunks, chunk) => \A x \in chunk.chars : InChunks(x)'
<1>1. CASE chunks' = chunks
  <2>1. \A x : InChunks(x)' = InChunks(x)
    BY <1>1 DEF InChunks
  <2>2. Append(chunks, chunk) # chunks
    <3>1. Len(Append(chunks, chunk)) = Len(chunks) + 1 /\ Len(chunks) \in Nat
      OBVIOUS
    <3>2. QED BY <3>1
  <2>3. QED BY <1>1, <2>1, <2>2
<1>2. CASE chunks' = Append(chunks, chunk)
  <2>1. /\ Len(chunks) \in Nat /\ DOMAIN chunks = 1..Len(chunks)
        /\ DOMAIN chunks' = 1..(Len(chunks) + 1)
        /\ \A k \in 1..Len(chunks) : chunks'[k] = chunks[k]
        /\ chunks'[Len(chunks) + 1] = chunk
    BY <1>2
  <2>2. \A k \in DOMAIN chunks' : k \in DOMAIN chunks \/ k = Len(chunks) + 1
    BY <2>1
  <2>3. \A k \in DOMAIN chunks : k \in DOMAIN chunks'
    BY <2>1
  <2>4. Len(chunks) + 1 \in DOMAIN chunks'
    BY <2>1
  <2>5. QED BY <2>1, <2>2, <2>3, <2>4 DEF InChunks
<1>3. QED BY <1>1, <1>2

LEMMA SameText ==
    ASSUME text' = text, NEW b
    PROVE  /\ Visible(b)' = Visible(b)
           /\ SplitsByRows(b)' = SplitsByRows(b)
           /\ HeaderLines(b)' = HeaderLines(b)
           /\ Header(b)' = Header(b)
           /\ HeaderDropped(b)' = HeaderDropped(b)
           /\ \A r : /\ Row(b, r)' = Row(b, r) /\ RowChars(b, r)' = RowChars(b, r)
                     /\ Fits(b, r)' = Fits(b, r)
BY DEF Visible, SplitsByRows, IsTable, HeaderLines, Header, HeaderDropped, Row, RowChars, Fits,
       WithRow, Joined, Slice

LEMMA SameBlock ==
    ASSUME text' = text, block' = block
    PROVE  /\ Visible(block)' = Visible(block)
           /\ SplitsByRows(block)' = SplitsByRows(block)
           /\ HeaderLines(block)' = HeaderLines(block)
           /\ Header(block)' = Header(block)
           /\ HeaderDropped(block)' = HeaderDropped(block)
           /\ \A r : /\ Row(block, r)' = Row(block, r) /\ RowChars(block, r)' = RowChars(block, r)
                     /\ Fits(block, r)' = Fits(block, r)
BY DEF Visible, SplitsByRows, IsTable, HeaderLines, Header, HeaderDropped, Row, RowChars, Fits,
       WithRow, Joined, Slice

\* Going to a new phase of the same text keeps what is behind, if the chunk being filled
\* is finished or goes on.
LEMMA BehindFacts ==
    ASSUME text' = text, Behind, NEW b \in DOMAIN text, NEW i \in Visible(b), b < block,
           \A x : InChunks(x) => InChunks(x)',
           phase = "blocks" => \/ \A x \in current.chars : InChunks(x)'
                               \/ phase' = "blocks" /\ current.chars \subseteq current'.chars
    PROVE  Remains(b, i)'
<1>1. Remains(b, i)
  BY DEF Behind
<1>2. CASE InChunks(<<b, i>>)
  <2>1. InChunks(<<b, i>>)'
    BY <1>2
  <2>2. QED BY <2>1 DEF Remains
<1>3. CASE phase = "blocks" /\ <<b, i>> \in current.chars
  <2>1. InChunks(<<b, i>>)' \/ (phase' = "blocks" /\ <<b, i>> \in current'.chars)
    BY <1>3
  <2>2. QED BY <2>1 DEF Remains
<1>4. CASE HeaderDropped(b) /\ <<b, i>> \in Header(b).chars
  BY <1>4, SameText DEF Remains
<1>5. QED BY <1>1, <1>2, <1>3, <1>4 DEF Remains

\* Finishing the chunk being filled.
LEMMA FlushGrowth ==
    ASSUME ChunkTypeOK, chunks' = Flushed
    PROVE  /\ \A x : InChunks(x) => InChunks(x)'
           /\ \A x : InChunks(x)' => InChunks(x) \/ x \in current.chars
           /\ \A x \in current.chars : InChunks(x)'
<1>1. chunks \in Seq(Chunk) /\ current \in Chunk
  BY DEF ChunkTypeOK
<1>2. CASE current = Nothing /\ chunks' = chunks
  <2>1. current.chars = {}
    BY <1>2 DEF Nothing
  <2>2. QED BY <1>1, <1>2, <2>1, GrowthFacts
<1>3. CASE chunks' = Append(chunks, current)
  BY <1>1, <1>3, GrowthFacts
<1>4. QED BY <1>2, <1>3 DEF Flushed

LEMMA BlockOfHeader ==
    ASSUME text \in Texts \cup {<<>>}, NEW b \in DOMAIN text, SplitsByRows(b),
           NEW x \in Header(b).chars
    PROVE  x[1] = b
<1>1. Header(b).chars = UNION {{b} \X RowChars(b, r) : r \in 1..HeaderLines(b)}
  BY HeaderFacts DEF SplitsByRows
<1>2. PICK r \in 1..HeaderLines(b) : x \in {b} \X RowChars(b, r)
  BY <1>1
<1>3. QED BY <1>2

LEMMA TakeBlockRemains ==
    ASSUME KeepInv, TakeBlock, ChunkInv'
    PROVE  KeepInv'
<1>1. /\ phase = "blocks" /\ row = 0 /\ text' = text
      /\ text \in Texts \cup {<<>>} /\ current \in Chunk /\ chunks \in Seq(Chunk)
      /\ ChunkTypeOK /\ block \in 1..(Len(text) + 1)
  BY DEF TakeBlock, KeepInv, ChunkInv, ChunkTypeOK, Progress
<1>2. block \in DOMAIN text /\ block \in 1..Len(text) /\ Len(text) \in Nat
  <2>1. Len(text) \in Nat /\ DOMAIN text = 1..Len(text)
    BY <1>1, TextsAssumption
  <2>2. QED BY <1>1, <2>1 DEF TakeBlock
<1>3. \A b \in DOMAIN text : b \in Nat
  BY <1>1, BlockFacts
<1>4. /\ \A x \in Nat \X Nat : InChunks(x) => x[1] < block
      /\ \A x \in Nat \X Nat : x \in current.chars => x[1] < block
      /\ \A x \in Nat \X Nat : x[1] \in Nat
  BY <1>1 DEF KeepInv, NotAhead
<1>5. ASSUME NEW chunk \in Chunk, chunk = current \/ chunk = Nothing,
             current' = WithBlock(chunk, block),
             block' = block + 1, UNCHANGED <<phase, row, start>>,
             \A x : InChunks(x) => InChunks(x)',
             \A x : InChunks(x)' => InChunks(x) \/ x \in current.chars,
             chunk = Nothing => \A x \in current.chars : InChunks(x)'
      PROVE  KeepInv'
  <2>1. current'.chars = chunk.chars \cup ({block} \X (1..text[block].length))
    BY <1>1, <1>2, <1>5, WithBlockFacts
  <2>2. chunk = Nothing => chunk.chars = {}
    BY DEF Nothing
  <2>3. ASSUME NEW b \in DOMAIN text, NEW i \in Visible(b), b < block'
        PROVE  Remains(b, i)'
    <3>1. CASE b < block
      <4>1. \/ \A x \in current.chars : InChunks(x)'
            \/ phase' = "blocks" /\ current.chars \subseteq current'.chars
        BY <1>1, <1>5, <2>1
      <4>2. QED BY <1>1, <1>5, <3>1, <4>1, BehindFacts DEF KeepInv
    <3>2. CASE b = block
      <4>1. i \in 1..text[block].length
        BY <3>2 DEF Visible
      <4>2. <<b, i>> \in current'.chars /\ phase' = "blocks"
        BY <1>1, <1>5, <2>1, <3>2, <4>1
      <4>3. QED BY <4>2 DEF Remains
    <3>3. QED BY <1>2, <1>3, <1>5, <2>3, <3>1, <3>2
  <2>4. Behind'
    BY <1>1, <1>5, <2>3, SameText DEF Behind
  <2>5. \A x \in Nat \X Nat : InChunks(x)' \/ x \in current'.chars => x[1] < block'
    <3>1. \A x \in Nat \X Nat : x \in current'.chars => x \in chunk.chars \/ x[1] = block
      BY <2>1
    <3>2. \A x \in Nat \X Nat : x \in chunk.chars => x \in current.chars
      BY <1>5, <2>2
    <3> SUFFICES ASSUME NEW x \in Nat \X Nat, InChunks(x)' \/ x \in current'.chars
                 PROVE  x[1] < block + 1
      BY <1>5
    <3>3. x[1] < block \/ x[1] = block
      BY <1>4, <1>5, <3>1, <3>2
    <3>4. QED BY <1>2, <1>4, <3>3
  <2>6. NotAhead'
    <3>1. \A x \in Nat \X Nat : x[1] < block' => x[1] <= block'
      BY <1>2, <1>4, <1>5
    <3>2. phase' # "rows"
      BY <1>1, <1>5
    <3>3. QED BY <2>5, <3>1, <3>2 DEF NotAhead
  <2>7. WindowsSoFar' /\ RowsSoFar'
    BY <1>1, <1>5 DEF WindowsSoFar, RowsSoFar
  <2>8. QED BY <2>4, <2>6, <2>7 DEF KeepInv
<1>6. CASE /\ current' = WithBlock(current, block)
           /\ block' = block + 1
           /\ UNCHANGED <<phase, row, start, chunks>>
  <2>1. \A x : InChunks(x)' = InChunks(x)
    BY <1>6 DEF InChunks
  <2>2. current = Nothing => \A x \in current.chars : InChunks(x)'
    BY DEF Nothing
  <2>3. QED BY <1>1, <1>5, <1>6, <2>1, <2>2
<1>7. CASE /\ chunks' = Flushed
           /\ current' = WithBlock(Nothing, block)
           /\ block' = block + 1
           /\ UNCHANGED <<phase, row, start>>
  BY <1>1, <1>5, <1>7, FlushGrowth, NothingIsChunk
<1>8. ASSUME chunks' = Flushed, block' = block, phase' # "blocks", phase' # "done",
             \A x \in current'.chars : x[1] = block,
             WindowsSoFar', RowsSoFar'
      PROVE  KeepInv'
  <2>1. /\ \A x : InChunks(x) => InChunks(x)'
        /\ \A x : InChunks(x)' => InChunks(x) \/ x \in current.chars
        /\ \A x \in current.chars : InChunks(x)'
    BY <1>1, <1>8, FlushGrowth
  <2>2. ASSUME NEW b \in DOMAIN text, NEW i \in Visible(b), b < block'
        PROVE  Remains(b, i)'
    BY <1>1, <1>8, <2>1, <2>2, BehindFacts DEF KeepInv
  <2>3. Behind'
    BY <1>1, <1>8, <2>2, SameText DEF Behind
  <2>4. \A x \in Nat \X Nat : InChunks(x)' => x[1] < block
    BY <1>4, <2>1
  <2>5. \A x \in Nat \X Nat : x[1] < block \/ x[1] = block => x[1] <= block
    BY <1>2, <1>4
  <2>6. NotAhead'
    BY <1>8, <2>4, <2>5 DEF NotAhead
  <2>7. QED BY <1>8, <2>3, <2>6 DEF KeepInv
<1>9. CASE /\ chunks' = Flushed
           /\ SplitsByRows(block)
           /\ phase' = "rows"
           /\ current' = Header(block)
           /\ row' = HeaderLines(block) + 1
           /\ UNCHANGED <<block, start>>
  <2>1. HeaderLines(block) \in 1..3 /\ row' - 1 = HeaderLines(block)
    BY <1>1, <1>2, <1>9, HeaderFacts DEF SplitsByRows
  <2>2. \A r \in (HeaderLines(block) + 1)..(row' - 1) : FALSE
    BY <2>1
  <2>3. HeaderLines(block)' = HeaderLines(block) /\ Header(block)' = Header(block)
    BY <1>1, <1>9, SameBlock
  <2>4. RowsSoFar'
    BY <1>9, <2>2, <2>3 DEF RowsSoFar
  <2>5. WindowsSoFar'
    BY <1>9 DEF WindowsSoFar
  <2>6. \A x \in current'.chars : x[1] = block
    BY <1>1, <1>2, <1>9, BlockOfHeader
  <2>7. QED BY <1>8, <1>9, <2>4, <2>5, <2>6
<1>10. CASE /\ chunks' = Flushed
            /\ phase' = "windows"
            /\ current' = Nothing
            /\ start' = 0
            /\ UNCHANGED <<block, row>>
  <2>1. \A i \in Visible(block)' : i > 0
    <3>1. Visible(block)' = Visible(block)
      BY <1>1, <1>10, SameBlock
    <3>2. QED BY <1>1, <1>2, <3>1, BlockFacts DEF Visible
  <2>2. WindowsSoFar'
    <3>1. \A i \in Visible(block)' : ~(i <= start')
      <4>1. \A i \in Visible(block)' : i \in Int
        BY <1>1, <1>10, SameBlock DEF Visible
      <4>2. QED BY <1>10, <2>1, <4>1
    <3>2. QED BY <3>1 DEF WindowsSoFar
  <2>3. RowsSoFar'
    BY <1>1, <1>10 DEF RowsSoFar
  <2>4. \A x \in current'.chars : x[1] = block
    BY <1>10 DEF Nothing
  <2>5. QED BY <1>8, <1>10, <2>2, <2>3, <2>4
<1>11. QED BY <1>6, <1>7, <1>9, <1>10 DEF TakeBlock

\* A window: what it holds, what it leaves, and how far the next one goes back.
LEMMA WindowStepFacts ==
    ASSUME ChunkInv, TakeWindow
    PROVE  LET window == Stripped(start, ThisEnd)
               piece == [chars |-> {block} \X window, length |-> Cardinality(window)]
           IN
           /\ phase = "windows" /\ text' = text /\ current' = current
           /\ text \in Texts \cup {<<>>} /\ current \in Chunk /\ chunks \in Seq(Chunk)
           /\ block \in DOMAIN text /\ block \in Nat /\ row \in Nat /\ start \in Nat
           /\ row # 0 => /\ SplitsByRows(block) /\ current = Header(block)
                         /\ row \in (HeaderLines(block) + 1)..Len(text[block].lines)
                         /\ row \in DOMAIN text[block].lines /\ HeaderLines(block) \in 1..3
           /\ row = 0 => current = Nothing
           /\ WindowEnd \in Nat /\ ThisEnd \in Nat
           /\ ThisEnd < WindowEnd => ThisEnd > start
           /\ window \subseteq Slice(start, ThisEnd)
           /\ piece \in Chunk
           /\ chunks' = IF window = {} THEN chunks ELSE Append(chunks, piece)
<1> DEFINE window == Stripped(start, ThisEnd)
           piece == [chars |-> {block} \X window, length |-> Cardinality(window)]
<1>1. /\ phase = "windows" /\ text' = text /\ current' = current
      /\ text \in Texts \cup {<<>>} /\ current \in Chunk /\ chunks \in Seq(Chunk)
      /\ start \in Nat /\ row \in Nat /\ block \in DOMAIN text
      /\ block \in 1..Len(text) /\ Len(text) \in Nat
  <2>1. phase = "windows" /\ UNCHANGED <<text, current>>
    BY DEF TakeWindow
  <2>2. /\ text \in Texts \cup {<<>>} /\ current \in Chunk /\ chunks \in Seq(Chunk)
        /\ start \in Nat /\ row \in Nat /\ block \in DOMAIN text
    BY <2>1 DEF ChunkInv, ChunkTypeOK, Progress
  <2>3. QED BY <2>1, <2>2, BlockFacts
<1>2. \/ row = 0 /\ current = Nothing
      \/ /\ SplitsByRows(block) /\ current = Header(block)
         /\ row \in (HeaderLines(block) + 1)..Len(text[block].lines)
  BY <1>1 DEF ChunkInv, Progress
<1>3. row # 0 => row \in DOMAIN text[block].lines /\ HeaderLines(block) \in 1..3
  <2> SUFFICES ASSUME row # 0
               PROVE  row \in DOMAIN text[block].lines /\ HeaderLines(block) \in 1..3
    OBVIOUS
  <2>1. HeaderLines(block) \in 1..3
    BY <1>1, <1>2, HeaderFacts DEF SplitsByRows
  <2>2. DOMAIN text[block].lines = 1..Len(text[block].lines) /\ Len(text[block].lines) \in Nat
    BY <1>1, BlockFacts
  <2>3. QED BY <1>2, <2>1, <2>2
<1>4. WindowEnd \in Nat
  BY <1>1, <1>3, BlockFacts DEF WindowEnd
<1>5. /\ ThisEnd \in Nat /\ ThisEnd <= start + MaxChars
      /\ ThisEnd < WindowEnd => ThisEnd > start
  BY <1>1, <1>4, LimitFacts DEF ThisEnd
<1>6. window \subseteq Slice(start, ThisEnd) /\ Cardinality(window) \in 0..MaxChars
  BY <1>1, <1>5, WindowFacts
<1>7. piece \in Chunk
  <2>1. window \subseteq Nat /\ block \in Nat
    BY <1>1, <1>5, <1>6 DEF Slice
  <2> HIDE DEF window
  <2>2. {block} \X window \in SUBSET (Nat \X Nat)
    BY <2>1
  <2>3. Cardinality(window) \in Nat
    BY <1>6, LimitFacts
  <2>4. QED BY <2>2, <2>3 DEF Chunk
<1>8. chunks' = IF window = {} THEN chunks ELSE Append(chunks, piece)
  BY DEF TakeWindow
<1>9. row = 0 => current = Nothing
  <2> SUFFICES ASSUME row = 0 PROVE current = Nothing
    OBVIOUS
  <2>1. CASE SplitsByRows(block) /\ row \in (HeaderLines(block) + 1)..Len(text[block].lines)
    <3>1. HeaderLines(block) \in 1..3
      BY <1>1, <2>1, HeaderFacts DEF SplitsByRows
    <3>2. QED BY <2>1, <3>1
  <2>2. QED BY <1>2, <2>1
<1>10. block \in Nat
  BY <1>1
<1> HIDE DEF window, piece
<1>11. QED BY <1>1, <1>2, <1>3, <1>4, <1>5, <1>6, <1>7, <1>8, <1>9, <1>10 DEF window, piece

LEMMA TakeWindowRemains ==
    ASSUME KeepInv, TakeWindow, ChunkInv'
    PROVE  KeepInv'
<1> DEFINE end == ThisEnd
           window == Stripped(start, end)
           piece == [chars |-> {block} \X window, length |-> Cardinality(window)]
<1>1. /\ phase = "windows" /\ text' = text /\ current' = current
      /\ text \in Texts \cup {<<>>} /\ current \in Chunk /\ chunks \in Seq(Chunk)
      /\ block \in DOMAIN text /\ block \in Nat /\ row \in Nat /\ start \in Nat
      /\ row # 0 => /\ SplitsByRows(block) /\ current = Header(block)
                    /\ row \in (HeaderLines(block) + 1)..Len(text[block].lines)
                    /\ row \in DOMAIN text[block].lines /\ HeaderLines(block) \in 1..3
      /\ row = 0 => current = Nothing
      /\ WindowEnd \in Nat /\ end \in Nat
      /\ end < WindowEnd => end > start
      /\ window \subseteq Slice(start, end)
      /\ piece \in Chunk
      /\ chunks' = IF window = {} THEN chunks ELSE Append(chunks, piece)
  BY WindowStepFacts DEF KeepInv
<1>2. \A i \in Visible(block) : i > start /\ i <= end => i \in window
  <2> SUFFICES ASSUME NEW i \in Visible(block), i > start, i <= end PROVE i \in window
    OBVIOUS
  <2>1. i \in Nat /\ i \notin text[block].blank
    BY <1>1, BlockFacts DEF Visible
  <2>2. i \in Slice(start, end) /\ i \in Slice(start, i) /\ i \in Slice(i - 1, end)
    <3> HIDE DEF end
    <3>1. QED BY <1>1, <2>1 DEF Slice
  <2>3. QED BY <2>1, <2>2 DEF Stripped
<1>3. piece.chars = {block} \X window
  OBVIOUS
<1> HIDE DEF window, piece, end
<1>4. /\ \A x : InChunks(x) => InChunks(x)'
      /\ \A x : InChunks(x)' => InChunks(x) \/ x \in {block} \X window
      /\ \A x \in {block} \X window : InChunks(x)'
  <2>1. /\ \A x : InChunks(x) => InChunks(x)'
        /\ \A x : InChunks(x)' => InChunks(x) \/ x \in piece.chars
        /\ chunks' = Append(chunks, piece) => \A x \in piece.chars : InChunks(x)'
    BY <1>1, GrowthFacts
  <2>2. window = {} => {block} \X window = {}
    OBVIOUS
  <2>3. QED BY <1>1, <1>3, <2>1, <2>2
<1>b. PICK b \in DOMAIN text : b = block
  BY <1>1
<1>5. \A i \in Visible(block) :
         i <= end /\ (row = 0 \/ Row(block, row).from < i) => InChunks(<<b, i>>)'
  <2> SUFFICES ASSUME NEW i \in Visible(block), i <= end, row = 0 \/ Row(block, row).from < i
               PROVE  InChunks(<<b, i>>)'
    OBVIOUS
  <2>1. i \in Nat
    BY <1>1, BlockFacts DEF Visible
  <2>2. CASE i <= start
    <3>1. InChunks(<<b, i>>)
      BY <1>1, <1>b, <2>2 DEF KeepInv, WindowsSoFar
    <3>2. QED BY <1>4, <3>1
  <2>3. CASE i > start
    <3>1. <<b, i>> \in {block} \X window
      BY <1>2, <1>b, <2>3
    <3>2. QED BY <1>4, <3>1
  <2>4. QED BY <1>1, <2>1, <2>2, <2>3
<1>6. ASSUME NEW a \in DOMAIN text, NEW i \in Visible(a), a < block
      PROVE  Remains(a, i)'
  BY <1>1, <1>4, <1>6, BehindFacts DEF KeepInv
<1>7. \A x \in Nat \X Nat : x[1] \in Nat /\ (InChunks(x)' \/ x \in current.chars => x[1] <= block)
  <2> SUFFICES ASSUME NEW x \in Nat \X Nat
               PROVE  x[1] \in Nat /\ (InChunks(x)' \/ x \in current.chars => x[1] <= block)
    OBVIOUS
  <2>1. InChunks(x) \/ x \in current.chars => x[1] <= block
    BY DEF KeepInv, NotAhead
  <2>2. x \in {block} \X window => x[1] = block
    OBVIOUS
  <2>3. QED BY <1>1, <1>4, <2>1, <2>2
<1>8. CASE /\ end >= WindowEnd /\ row = 0
           /\ phase' = "blocks" /\ block' = block + 1 /\ row' = row
  <2>1. ASSUME NEW a \in DOMAIN text, NEW i \in Visible(a), a < block'
        PROVE  Remains(a, i)'
    <3>1. CASE a = block
      <4>1. i \in Nat /\ i <= text[block].length
        BY <1>1, <3>1, BlockFacts DEF Visible
      <4>2. WindowEnd = text[block].length
        BY <1>8 DEF WindowEnd
      <4>3. i <= end
        BY <1>1, <1>8, <4>1, <4>2
      <4>4. InChunks(<<a, i>>)'
        BY <1>5, <1>8, <1>b, <3>1, <4>3
      <4>5. QED BY <4>4 DEF Remains
    <3>2. QED BY <1>1, <1>6, <1>8, <2>1, <3>1, BlockFacts
  <2>2. Behind'
    BY <1>1, <1>8, <2>1, SameText DEF Behind
  <2>3. current'.chars = {}
    BY <1>1, <1>8 DEF Nothing
  <2>4. \A x \in Nat \X Nat : InChunks(x)' => x[1] < block' /\ x[1] <= block'
    BY <1>1, <1>7, <1>8
  <2>5. NotAhead'
    BY <1>8, <2>3, <2>4 DEF NotAhead
  <2>6. WindowsSoFar' /\ RowsSoFar'
    BY <1>8 DEF WindowsSoFar, RowsSoFar
  <2>7. QED BY <2>2, <2>5, <2>6 DEF KeepInv
<1>9. ASSUME block' = block, phase' \in {"rows", "windows"},
             phase' = "rows" => row' # HeaderLines(block) + 1,
             WindowsSoFar', RowsSoFar'
      PROVE  KeepInv'
  <2>1. Behind'
    BY <1>1, <1>6, <1>9, SameText DEF Behind
  <2>2. HeaderLines(block)' = HeaderLines(block)
    BY <1>1, <1>9, SameBlock
  <2>3. NotAhead'
    BY <1>1, <1>7, <1>9, <2>2 DEF NotAhead
  <2>4. QED BY <1>9, <2>1, <2>3 DEF KeepInv
<1>10. row # 0 =>
          /\ Header(block).chars \subseteq current.chars /\ current = Header(block)
          /\ ~Fits(block, row)
          /\ \/ \A x \in Header(block).chars : InChunks(x)
             \/ \A r \in (HeaderLines(block) + 1)..(row - 1) : ~Fits(block, r)
          /\ \A r \in (HeaderLines(block) + 1)..(row - 1) :
                \A i \in Visible(block) \cap RowChars(block, r) :
                   InChunks(<<block, i>>) \/ <<block, i>> \in current.chars
  BY <1>1 DEF KeepInv, RowsSoFar
<1>11. CASE /\ end >= WindowEnd /\ row # 0
            /\ phase' = "rows" /\ row' = row + 1 /\ block' = block
  <2>1. /\ Header(block)' = Header(block) /\ HeaderLines(block)' = HeaderLines(block)
        /\ Visible(block)' = Visible(block)
        /\ \A r : RowChars(block, r)' = RowChars(block, r) /\ Fits(block, r)' = Fits(block, r)
    BY <1>1, <1>11, SameBlock
  <2>2. \A r \in (HeaderLines(block) + 1)..(row' - 1) :
           r \in (HeaderLines(block) + 1)..(row - 1) \/ r = row
    BY <1>1, <1>11
  <2>3. ASSUME NEW i \in Visible(block), i \in RowChars(block, row)
        PROVE  InChunks(<<b, i>>)'
    <3>1. /\ Row(block, row).from \in Nat /\ Row(block, row).to \in Nat
          /\ WindowEnd = Row(block, row).to
      BY <1>1, <1>11, BlockFacts DEF WindowEnd
    <3>2. Row(block, row).from < i /\ i <= end
      BY <1>1, <1>11, <2>3, <3>1 DEF RowChars, Slice
    <3>3. QED BY <1>5, <3>2
  <2>4. \A r \in (HeaderLines(block) + 1)..(row' - 1) :
           \A i \in Visible(block) \cap RowChars(block, r) :
              InChunks(<<b, i>>)' \/ <<b, i>> \in current'.chars
    BY <1>1, <1>4, <1>10, <1>11, <1>b, <2>2, <2>3
  <2>5. \/ \A x \in Header(block).chars : InChunks(x)'
        \/ \A r \in (HeaderLines(block) + 1)..(row' - 1) : ~Fits(block, r)
    BY <1>4, <1>10, <1>11, <2>2
  <2>6. RowsSoFar'
    <3>1. \A i : InChunks(<<block, i>>)' = InChunks(<<b, i>>)'
      BY <1>11, <1>b DEF InChunks
    <3>2. QED BY <1>1, <1>10, <1>11, <1>b, <2>1, <2>4, <2>5, <3>1 DEF RowsSoFar
  <2>7. WindowsSoFar'
    BY <1>11 DEF WindowsSoFar
  <2>8. row' # HeaderLines(block) + 1
    BY <1>1, <1>11
  <2>9. QED BY <1>9, <1>11, <2>6, <2>7, <2>8
<1>12. CASE /\ end < WindowEnd
            /\ start' = IF end - WindowOverlap > start + 1 THEN end - WindowOverlap ELSE start + 1
            /\ UNCHANGED <<phase, block, row>>
  <2>1. /\ Header(block)' = Header(block) /\ HeaderLines(block)' = HeaderLines(block)
        /\ Visible(block)' = Visible(block)
        /\ \A r : /\ RowChars(block, r)' = RowChars(block, r) /\ Fits(block, r)' = Fits(block, r)
                  /\ Row(block, r)' = Row(block, r)
    BY <1>1, <1>12, SameBlock
  <2>2. WindowOverlap \in Nat
    BY LimitFacts DEF WindowOverlap
  <2>3. start' <= end /\ start' \in Int
    BY <1>1, <1>12, <2>2
  <2>4. \A i \in Visible(block) : i \in Nat /\ (i <= start' => i <= end)
    BY <1>1, <2>3, BlockFacts DEF Visible
  <2>5. WindowsSoFar'
    <3>1. \A i \in Visible(block) :
             i <= start' /\ (row = 0 \/ Row(block, row).from < i) => InChunks(<<b, i>>)'
      BY <1>5, <2>4
    <3>2. Row(block', row') = Row(block, row) /\ Row(block, row)' = Row(block, row)
      BY <1>1, <1>12 DEF Row
    <3>3. \A i : InChunks(<<block, i>>)' = InChunks(<<b, i>>)'
      BY <1>12, <1>b DEF InChunks
    <3>4. QED BY <1>12, <2>1, <3>1, <3>2, <3>3 DEF WindowsSoFar
  <2>6. RowsSoFar'
    <3> SUFFICES ASSUME row # 0 PROVE RowsSoFar'
      BY <1>1, <1>12 DEF RowsSoFar
    <3>1. /\ \A r \in (HeaderLines(block) + 1)..(row - 1) :
                \A i \in Visible(block) \cap RowChars(block, r) :
                   InChunks(<<b, i>>)' \/ <<b, i>> \in current'.chars
          /\ \/ \A x \in Header(block).chars : InChunks(x)'
             \/ \A r \in (HeaderLines(block) + 1)..(row - 1) : ~Fits(block, r)
      BY <1>1, <1>4, <1>10, <1>b
    <3>2. Fits(block, row)' = Fits(block, row)
      BY <1>1, <1>12 DEF Fits, WithRow, Header, HeaderLines, Joined, Row, RowChars, Slice
    <3>3. \A i : InChunks(<<block, i>>)' = InChunks(<<b, i>>)'
      BY <1>12, <1>b DEF InChunks
    <3>4. QED BY <1>1, <1>10, <1>12, <1>b, <2>1, <3>1, <3>2, <3>3 DEF RowsSoFar
  <2>7. QED BY <1>1, <1>9, <1>12, <2>5, <2>6
<1>13. end >= WindowEnd \/ end < WindowEnd
  BY <1>1
<1>14. CASE end >= WindowEnd
  <2>1. LeaveWindows
    BY <1>14 DEF TakeWindow, end
  <2>2. QED BY <1>8, <1>11, <1>14, <2>1 DEF LeaveWindows
<1>15. CASE end < WindowEnd
  <2>1. ~(end >= WindowEnd)
    BY <1>1, <1>15
  <2>2. QED BY <1>12, <1>15, <2>1 DEF TakeWindow, end
<1>16. QED BY <1>13, <1>14, <1>15

LEMMA TakeRowRemains ==
    ASSUME KeepInv, TakeRow, ChunkInv'
    PROVE  KeepInv'
<1>1. /\ phase = "rows" /\ text' = text /\ block' = block
      /\ text \in Texts \cup {<<>>} /\ current \in Chunk /\ chunks \in Seq(Chunk)
      /\ block \in DOMAIN text /\ SplitsByRows(block)
      /\ row \in (HeaderLines(block) + 1)..(Len(text[block].lines) + 1)
      /\ row <= Len(text[block].lines)
  BY DEF TakeRow, KeepInv, ChunkInv, ChunkTypeOK, Progress
<1>2. /\ HeaderLines(block) \in 1..3 /\ Header(block) \in Chunk
      /\ Len(text[block].lines) \in Nat /\ block \in Nat
      /\ DOMAIN text[block].lines = 1..Len(text[block].lines)
  BY <1>1, HeaderFacts, BlockFacts DEF SplitsByRows
<1>3. row \in Nat /\ row \in DOMAIN text[block].lines
  BY <1>1, <1>2
<1>b. PICK b \in DOMAIN text : b = block
  BY <1>1
<1>4. /\ \A r \in (HeaderLines(block) + 1)..(row - 1) :
            \A i \in Visible(block) \cap RowChars(block, r) :
               InChunks(<<b, i>>) \/ <<b, i>> \in current.chars
      /\ Header(block).chars \subseteq current.chars
      /\ current # Header(block) => current.length > Header(block).length
      /\ \/ current # Header(block)
         \/ \A x \in Header(block).chars : InChunks(x)
         \/ \A r \in (HeaderLines(block) + 1)..(row - 1) : ~Fits(block, r)
  BY <1>1, <1>b DEF KeepInv, RowsSoFar
<1>5. /\ Visible(block)' = Visible(block) /\ HeaderLines(block)' = HeaderLines(block)
      /\ Header(block)' = Header(block)
      /\ \A r : RowChars(block, r)' = RowChars(block, r) /\ Fits(block, r)' = Fits(block, r)
  BY <1>1, SameBlock
<1>6. \A i : InChunks(<<block, i>>)' = InChunks(<<b, i>>)'
  BY <1>1, <1>b DEF InChunks
<1>7. \A x \in Nat \X Nat : x[1] \in Nat /\ (InChunks(x) \/ x \in current.chars => x[1] <= block)
  BY DEF KeepInv, NotAhead
<1>8. \A x \in Nat \X Nat : x \in Header(block).chars \/ x \in {block} \X RowChars(block, row)
                               => x[1] <= block
  <2>1. \A x \in Header(block).chars : x[1] = block
    BY <1>1, BlockOfHeader
  <2>2. \A x \in {block} \X RowChars(block, row) : x[1] = block
    OBVIOUS
  <2>3. QED BY <1>2, <2>1, <2>2
<1>9. ASSUME chunks' = chunks \/ chunks' = Append(chunks, current)
      PROVE  /\ \A x : InChunks(x) => InChunks(x)'
             /\ \A x : InChunks(x)' => InChunks(x) \/ x \in current.chars
             /\ chunks' = Append(chunks, current) => \A x \in current.chars : InChunks(x)'
  BY <1>1, <1>9, GrowthFacts
\* What is left to show of each branch.
<1>10. ASSUME chunks' = chunks \/ chunks' = Append(chunks, current),
              phase' # "blocks", phase' # "done",
              \A x \in Nat \X Nat : x \in current'.chars => x[1] <= block,
              phase' = "rows" => row' # HeaderLines(block) + 1,
              WindowsSoFar', RowsSoFar'
       PROVE  KeepInv'
  <2>1. ASSUME NEW a \in DOMAIN text, NEW i \in Visible(a), a < block
        PROVE  Remains(a, i)'
    BY <1>1, <1>9, <1>10, <2>1, BehindFacts DEF KeepInv
  <2>2. Behind'
    BY <1>1, <1>10, <2>1, SameText DEF Behind
  <2>3. NotAhead'
    BY <1>1, <1>5, <1>7, <1>9, <1>10 DEF NotAhead
  <2>4. QED BY <1>10, <2>2, <2>3 DEF KeepInv
\* The row joins a chunk that starts with the header.
<1>11. ASSUME NEW chunk \in Chunk, current' = WithRow(chunk, block, row),
              Header(block).chars \subseteq chunk.chars, chunk.length >= Header(block).length,
              chunks' = chunks \/ chunks' = Append(chunks, current),
              chunk = current \/ (chunk = Header(block) /\ chunks' = Append(chunks, current)),
              row' = row + 1, phase' = "rows"
       PROVE  KeepInv'
  <2>1. /\ current'.chars = chunk.chars \cup ({block} \X RowChars(block, row))
        /\ current'.length > chunk.length
        /\ current' \in Chunk
    BY <1>1, <1>3, <1>11, WithRowFacts
  <2>2. current'.length > Header(block).length
    BY <1>2, <1>11, <2>1 DEF Chunk
  <2>3. current' # Header(block)
    BY <1>2, <2>2 DEF Chunk
  <2>4. \A r \in (HeaderLines(block) + 1)..(row' - 1) :
           r \in (HeaderLines(block) + 1)..(row - 1) \/ r = row
    BY <1>2, <1>3, <1>11
  <2>5. \A r \in (HeaderLines(block) + 1)..(row' - 1) :
           \A i \in Visible(block) \cap RowChars(block, r) :
              InChunks(<<b, i>>)' \/ <<b, i>> \in current'.chars
    <3> SUFFICES ASSUME NEW r \in (HeaderLines(block) + 1)..(row' - 1),
                        NEW i \in Visible(block) \cap RowChars(block, r)
                 PROVE  InChunks(<<b, i>>)' \/ <<b, i>> \in current'.chars
      OBVIOUS
    <3>1. CASE r = row
      BY <1>b, <2>1, <3>1
    <3>2. CASE r \in (HeaderLines(block) + 1)..(row - 1)
      <4>1. InChunks(<<b, i>>) \/ <<b, i>> \in current.chars
        BY <1>4, <3>2
      <4>2. QED BY <1>9, <1>11, <2>1, <4>1
    <3>3. QED BY <2>4, <3>1, <3>2
  <2>6. RowsSoFar'
    BY <1>1, <1>5, <1>6, <1>b, <1>11, <2>1, <2>2, <2>3, <2>5 DEF RowsSoFar
  <2>7. WindowsSoFar'
    BY <1>11 DEF WindowsSoFar
  <2>8. \A x \in Nat \X Nat : x \in current'.chars => x[1] <= block
    BY <1>7, <1>8, <1>11, <2>1
  <2>9. row' # HeaderLines(block) + 1
    BY <1>1, <1>2, <1>11
  <2>10. QED BY <1>10, <1>11, <2>6, <2>7, <2>8, <2>9
\* The row is cut.
<1>12. ASSUME SplitRow, ~Fits(block, row),
              \/ chunks' = chunks /\ current = Header(block)
              \/ chunks' = Append(chunks, current) /\ current # Header(block)
       PROVE  KeepInv'
  <2>1. /\ phase' = "windows" /\ start' = Row(block, row).from
        /\ current' = Header(block) /\ row' = row
    BY <1>12 DEF SplitRow
  <2>2. Row(block, row).from \in Nat /\ Row(block, row)' = Row(block, row)
        /\ Row(block, row') = Row(block, row)
    BY <1>1, <1>3, <2>1, BlockFacts DEF Row
  <2>3. WindowsSoFar'
    <3>1. \A i \in Visible(block) : i \in Nat
      BY <1>1, BlockFacts DEF Visible
    <3>2. \A i \in Visible(block) : ~(i <= Row(block, row).from /\ Row(block, row).from < i)
      BY <2>2, <3>1
    <3>3. row # 0
      BY <1>1, <1>2
    <3>4. QED BY <1>1, <1>5, <2>1, <2>2, <3>2, <3>3 DEF WindowsSoFar
  <2>4. \A r \in (HeaderLines(block) + 1)..(row - 1) :
           \A i \in Visible(block) \cap RowChars(block, r) :
              InChunks(<<b, i>>)' \/ <<b, i>> \in current'.chars
    <3> SUFFICES ASSUME NEW r \in (HeaderLines(block) + 1)..(row - 1),
                        NEW i \in Visible(block) \cap RowChars(block, r)
                 PROVE  InChunks(<<b, i>>)' \/ <<b, i>> \in current'.chars
      OBVIOUS
    <3>1. InChunks(<<b, i>>) \/ <<b, i>> \in current.chars
      BY <1>4
    <3>2. QED BY <1>9, <1>12, <2>1, <3>1
  <2>5. \/ \A x \in Header(block).chars : InChunks(x)'
        \/ \A r \in (HeaderLines(block) + 1)..(row - 1) : ~Fits(block, r)
    BY <1>4, <1>9, <1>12
  <2>6. Fits(block, row)' = Fits(block, row)
    BY <1>1, <2>1 DEF Fits, WithRow, Header, HeaderLines, Joined, Row, RowChars, Slice
  <2>7. RowsSoFar'
    BY <1>1, <1>5, <1>6, <1>b, <1>12, <2>1, <2>4, <2>5, <2>6 DEF RowsSoFar
  <2>8. QED BY <1>8, <1>10, <1>12, <2>1, <2>3, <2>7
<1>13. CASE WithRow(current, block, row).length <= MaxChars
  <2>1. current.length >= Header(block).length
    BY <1>1, <1>2, <1>4 DEF Chunk
  <2>2. QED BY <1>1, <1>4, <1>11, <1>13, <2>1 DEF TakeRow
<1>14. CASE ~(WithRow(current, block, row).length <= MaxChars) /\ current = Header(block)
  <2>1. ~Fits(block, row) /\ SplitRow /\ chunks' = chunks
    BY <1>14 DEF TakeRow, Fits
  <2>2. QED BY <1>12, <1>14, <2>1
<1>15. CASE ~(WithRow(current, block, row).length <= MaxChars) /\ current # Header(block)
  <2>1. CASE Fits(block, row)
    <3>1. Header(block).length >= Header(block).length
      BY <1>2 DEF Chunk
    <3>2. QED BY <1>1, <1>2, <1>11, <1>15, <2>1, <3>1 DEF TakeRow, Fresh
  <2>2. CASE ~Fits(block, row)
    BY <1>12, <1>15, <2>2 DEF TakeRow
  <2>3. QED BY <2>1, <2>2
<1>16. QED BY <1>13, <1>14, <1>15

LEMMA EndTableRemains ==
    ASSUME KeepInv, EndTable, ChunkInv'
    PROVE  KeepInv'
<1> DEFINE ofTable == {k \in DOMAIN chunks : \E c \in chunks[k].chars : c[1] = block}
<1>1. /\ phase = "rows" /\ phase' = "blocks" /\ block' = block + 1 /\ row' = 0
      /\ current' = Nothing /\ text' = text
      /\ row = Len(text[block].lines) + 1
      /\ chunks' = IF current # Header(block) \/ ofTable = {} THEN Append(chunks, current) ELSE chunks
  BY DEF EndTable
<1>2. /\ text \in Texts \cup {<<>>} /\ current \in Chunk /\ chunks \in Seq(Chunk)
      /\ block \in DOMAIN text /\ SplitsByRows(block)
  BY <1>1 DEF KeepInv, ChunkInv, ChunkTypeOK, Progress
<1>3. /\ HeaderLines(block) \in 1..3
      /\ HeaderLines(block) \in DOMAIN text[block].lines
      /\ Header(block).chars = UNION {{block} \X RowChars(block, r) : r \in 1..HeaderLines(block)}
      /\ Len(text[block].lines) \in Nat /\ block \in Nat
      /\ DOMAIN text[block].lines = 1..Len(text[block].lines)
  BY <1>2, HeaderFacts, BlockFacts DEF SplitsByRows
<1>4. /\ \A x : InChunks(x) => InChunks(x)'
      /\ \A x : InChunks(x)' => InChunks(x) \/ x \in current.chars
      /\ chunks' = Append(chunks, current) => \A x \in current.chars : InChunks(x)'
  <2> HIDE DEF ofTable
  <2>1. chunks' = chunks \/ chunks' = Append(chunks, current)
    BY <1>1
  <2>2. QED BY <1>2, <2>1, GrowthFacts
<1>5. ASSUME NEW b \in DOMAIN text, b = block, NEW i \in Visible(b)
      PROVE  Remains(b, i)'
  <2>1. InChunks(<<b, i>>) \/ <<b, i>> \in current.chars
    <3>1. PICK r \in DOMAIN text[b].lines : i \in RowChars(b, r)
      BY <1>2, <1>5, BlockFacts
    <3>2. CASE r <= HeaderLines(block)
      <4>1. r \in 1..HeaderLines(block)
        BY <1>3, <1>5, <3>2
      <4>2. <<b, i>> \in Header(block).chars
        BY <1>3, <1>5, <3>1, <4>1
      <4>3. QED BY <1>1, <4>2 DEF KeepInv, RowsSoFar
    <3>3. CASE r > HeaderLines(block)
      <4>1. r \in (HeaderLines(block) + 1)..(row - 1)
        BY <1>1, <1>3, <1>5, <3>3
      <4>2. i \in Visible(block) \cap RowChars(block, r)
        BY <1>5, <3>1
      <4>3. InChunks(<<block, i>>) \/ <<block, i>> \in current.chars
        BY <1>1, <4>1, <4>2 DEF KeepInv, RowsSoFar
      <4>4. QED BY <1>5, <4>3
    <3>4. QED BY <1>3, <1>5, <3>1, <3>2, <3>3
  <2>2. CASE InChunks(<<b, i>>)
    BY <1>4, <2>2 DEF Remains
  <2>3. CASE <<b, i>> \in current.chars /\ chunks' = Append(chunks, current)
    BY <1>4, <2>3 DEF Remains
  <2>4. CASE /\ <<b, i>> \in current.chars /\ ~InChunks(<<b, i>>)
             /\ current = Header(block) /\ ofTable # {}
    <3>1. row # HeaderLines(block) + 1
      <4>1. PICK k \in DOMAIN chunks : \E c \in chunks[k].chars : c[1] = block
        BY <2>4
      <4>2. PICK c \in chunks[k].chars : c[1] = block
        BY <4>1
      <4>3. c \in Nat \X Nat
        <5>1. chunks[k] \in Chunk
          BY <1>2
        <5>2. QED BY <4>2, <5>1 DEF Chunk
      <4>4. InChunks(c)
        BY <4>1, <4>2 DEF InChunks
      <4>5. ~(c[1] < block)
        BY <1>3, <4>2
      <4>6. QED BY <1>1, <4>3, <4>4, <4>5 DEF KeepInv, NotAhead
    <3>2. HeaderLines(block) < Len(text[block].lines)
      BY <1>1, <1>3, <3>1
    <3>3. \A r \in (HeaderLines(block) + 1)..Len(text[block].lines) : ~Fits(block, r)
      <4>1. <<b, i>> \in Header(block).chars
        BY <2>4
      <4>2. \A r \in (HeaderLines(block) + 1)..(row - 1) : ~Fits(block, r)
        BY <1>1, <2>4, <4>1 DEF KeepInv, RowsSoFar
      <4>3. row - 1 = Len(text[block].lines)
        BY <1>1, <1>3
      <4>4. QED BY <4>2, <4>3
    <3>4. HeaderDropped(b) /\ <<b, i>> \in Header(b).chars
      BY <1>2, <1>5, <2>4, <3>2, <3>3 DEF HeaderDropped
    <3>5. QED BY <1>1, <3>4, SameText DEF Remains
  <2>5. QED BY <1>1, <2>1, <2>2, <2>3, <2>4
<1> HIDE DEF ofTable
<1>6. ASSUME NEW b \in DOMAIN text, NEW i \in Visible(b), b < block'
      PROVE  Remains(b, i)'
  <2>1. CASE b = block
    BY <1>5, <2>1
  <2>2. CASE b < block
    BY <1>1, <1>4, <2>2, BehindFacts DEF KeepInv
  <2>3. b \in Nat
    BY <1>2, BlockFacts
  <2>4. QED BY <1>1, <1>3, <1>6, <2>1, <2>2, <2>3
<1>7. Behind'
  BY <1>1, <1>6, SameText DEF Behind
<1>8. NotAhead'
  <2>1. current'.chars = {}
    BY <1>1 DEF Nothing
  <2>2. \A x \in Nat \X Nat : InChunks(x)' => x[1] <= block
    BY <1>4 DEF KeepInv, NotAhead
  <2>3. \A x \in Nat \X Nat : x[1] <= block => x[1] < block' /\ x[1] <= block'
    BY <1>1, <1>3
  <2>4. QED BY <1>1, <2>1, <2>2, <2>3 DEF NotAhead
<1>9. WindowsSoFar' /\ RowsSoFar'
  BY <1>1 DEF WindowsSoFar, RowsSoFar
<1>10. QED BY <1>7, <1>8, <1>9 DEF KeepInv

LEMMA EndTextRemains ==
    ASSUME KeepInv, EndText, ChunkInv'
    PROVE  KeepInv'
<1>1. /\ phase = "blocks" /\ phase' = "done" /\ block = Len(text) + 1
      /\ block' = block /\ text' = text /\ current' = Nothing /\ chunks' = Flushed
      /\ ChunkTypeOK
  BY DEF EndText, KeepInv, ChunkInv
<1>2. /\ \A x : InChunks(x) => InChunks(x)'
      /\ \A x : InChunks(x)' => InChunks(x) \/ x \in current.chars
      /\ \A x \in current.chars : InChunks(x)'
  BY <1>1, FlushGrowth
<1>3. ASSUME NEW b \in DOMAIN text, NEW i \in Visible(b), b < block
      PROVE  Remains(b, i)'
  BY <1>1, <1>2, <1>3, BehindFacts DEF KeepInv
<1>4. Behind'
  BY <1>1, <1>3, SameText DEF Behind
<1>5. NotAhead'
  <2>1. current'.chars = {}
    BY <1>1 DEF Nothing
  <2>2. QED BY <1>1, <1>2, <2>1 DEF KeepInv, NotAhead
<1>6. WindowsSoFar' /\ RowsSoFar'
  BY <1>1 DEF WindowsSoFar, RowsSoFar
<1>7. QED BY <1>4, <1>5, <1>6 DEF KeepInv

\* A text before its first block.
LEMMA AtStart ==
    ASSUME ChunkInv, phase \in {"idle", "blocks"}, text \in Texts \cup {<<>>},
           block = 1, current = Nothing, chunks = <<>>
    PROVE  KeepInv
<1>1. \A x : ~InChunks(x) /\ x \notin current.chars
  BY DEF InChunks, Nothing
<1>2. Behind
  <2>1. \A b \in DOMAIN text : ~(b < block)
    BY BlockFacts
  <2>2. QED BY <2>1 DEF Behind
<1>3. NotAhead /\ WindowsSoFar /\ RowsSoFar
  BY <1>1 DEF NotAhead, WindowsSoFar, RowsSoFar
<1>4. QED BY <1>2, <1>3 DEF KeepInv

LEMMA RemainsInit == ChunkInit => KeepInv
<1> SUFFICES ASSUME ChunkInit PROVE KeepInv
  OBVIOUS
<1>1. ChunkInv
  BY InitKeeps
<1>2. QED BY <1>1, AtStart DEF ChunkInit

LEMMA RemainsStep == KeepInv /\ [ChunkNext]_chunkVars => KeepInv'
<1> SUFFICES ASSUME KeepInv, [ChunkNext]_chunkVars PROVE KeepInv'
  OBVIOUS
<1>1. ChunkInv'
  BY StepKeeps DEF KeepInv
<1>2. CASE \E t \in Texts : Split(t)
  <2>1. PICK t \in Texts : Split(t)
    BY <1>2
  <2>2. /\ phase' = "blocks" /\ text' \in Texts \cup {<<>>} /\ block' = 1
        /\ current' = Nothing /\ chunks' = <<>>
    BY <2>1 DEF Split
  <2>3. \A x : ~InChunks(x)' /\ x \notin current'.chars
    BY <2>2 DEF InChunks, Nothing
  <2>4. Behind'
    <3>1. \A b \in DOMAIN text' : ~(b < block')
      <4>1. text' \in Seq(Blocks)
        BY <2>1, TextsAssumption DEF Split
      <4>2. QED BY <2>2, <4>1
    <3>2. QED BY <2>2, <3>1 DEF Behind
  <2>5. NotAhead' /\ WindowsSoFar' /\ RowsSoFar'
    BY <2>2, <2>3 DEF NotAhead, WindowsSoFar, RowsSoFar
  <2>6. QED BY <1>1, <2>4, <2>5 DEF KeepInv
<1>3. CASE TakeBlock
  BY <1>1, <1>3, TakeBlockRemains
<1>4. CASE TakeWindow
  BY <1>1, <1>4, TakeWindowRemains
<1>5. CASE TakeRow
  BY <1>1, <1>5, TakeRowRemains
<1>6. CASE EndTable
  BY <1>1, <1>6, EndTableRemains
<1>7. CASE EndText
  BY <1>1, <1>7, EndTextRemains
<1>8. CASE UNCHANGED chunkVars
  <2>1. UNCHANGED <<phase, text, block, row, start, current, chunks>>
    BY <1>8 DEF chunkVars
  <2>2. \A x : InChunks(x)' = InChunks(x)
    BY <2>1 DEF InChunks
  <2>3. Behind'
    <3>1. ASSUME NEW b \in DOMAIN text, NEW i \in Visible(b), b < block
          PROVE  Remains(b, i)'
      BY <2>1, <2>2, <3>1, BehindFacts DEF KeepInv
    <3>2. QED BY <2>1, <3>1, SameText DEF KeepInv, Behind
  <2>4. NotAhead'
    <3>1. HeaderLines(block)' = HeaderLines(block)
      BY <2>1, SameBlock
    <3>2. QED BY <2>1, <2>2, <3>1 DEF KeepInv, NotAhead
  <2>5. \A i : InChunks(<<block, i>>)' = InChunks(<<block, i>>)
    BY <2>1 DEF InChunks
  <2>6. WindowsSoFar'
    <3>1. Visible(block)' = Visible(block) /\ Row(block, row)' = Row(block, row)
      BY <2>1 DEF Visible, Row
    <3>2. QED BY <2>1, <2>5, <3>1 DEF KeepInv, WindowsSoFar
  <2>7. RowsSoFar'
    <3>1. Fits(block, row)' = Fits(block, row)
      BY <2>1 DEF Fits, WithRow, Header, HeaderLines, Joined, Row, RowChars, Slice
    <3>2. QED BY <2>1, <2>2, <2>5, <3>1, SameBlock DEF KeepInv, RowsSoFar
  <2>8. QED BY <1>1, <2>3, <2>4, <2>6, <2>7 DEF KeepInv
<1>9. QED BY <1>2, <1>3, <1>4, <1>5, <1>6, <1>7, <1>8 DEF ChunkNext, ChunkStep

\* Everything that can be read in a document is in some chunk when it has been split,
\* except the header of a table none of whose rows fits below it: for any texts, sizes and
\* overlaps.
THEOREM NothingReadableIsLost == ChunkSpec => []NothingLost
<1>1. KeepInv => NothingLost
  <2> SUFFICES ASSUME KeepInv, phase = "done",
                      NEW b \in DOMAIN text, NEW i \in Visible(b)
               PROVE  \/ InOneChunk(b, {i})
                      \/ HeaderDropped(b) /\ <<b, i>> \in Header(b).chars
    BY DEF NothingLost
  <2>1. b < block
    <3>1. b \in 1..Len(text) /\ Len(text) \in Nat
      BY BlockFacts DEF KeepInv, ChunkInv, ChunkTypeOK
    <3>2. QED BY <3>1 DEF KeepInv, Behind
  <2>2. InChunks(<<b, i>>) \/ (HeaderDropped(b) /\ <<b, i>> \in Header(b).chars)
    BY <2>1 DEF KeepInv, Behind, Remains
  <2>3. InChunks(<<b, i>>) => InOneChunk(b, {i})
    BY DEF InChunks, InOneChunk
  <2>4. QED BY <2>2, <2>3
<1>2. QED BY RemainsInit, RemainsStep, <1>1, PTL DEF ChunkSpec
-----------------------------------------------------------------------------
\* The rows of a table below its header; a table that is longer than a chunk.
BodyRows(b) == (HeaderLines(b) + 1)..Len(text[b].lines)
LongTable(b) == SplitsByRows(b) /\ text[b].length > MaxChars

RowKept(b, r, chars) ==
    Fits(b, r) /\ chars \cap ({b} \X RowChars(b, r)) # {} =>
        Header(b).chars \cup ({b} \X RowChars(b, r)) \subseteq chars
KeepsHeaders(chars) ==
    \A b \in DOMAIN text : LongTable(b) => \A r \in BodyRows(b) : RowKept(b, r, chars)

ChunksKeep == \A k \in DOMAIN chunks : KeepsHeaders(chunks[k].chars)

\* The chunks, and the one being filled, keep the headers of the rows they hold; only what
\* is no such table is cut into windows, or a single row of one, from where it begins.
HeadersInv ==
    /\ ChunksKeep
    /\ KeepsHeaders(current.chars)
    /\ phase = "windows" /\ row = 0 => ~SplitsByRows(block)
    /\ phase = "windows" /\ row # 0 => Row(block, row).from <= start

LEMMA RowsApart ==
    ASSUME text \in Texts \cup {<<>>}, NEW b \in DOMAIN text,
           NEW r \in DOMAIN text[b].lines, NEW s \in DOMAIN text[b].lines, r # s
    PROVE  RowChars(b, r) \cap RowChars(b, s) = {}
<1>1. text \in Texts
  OBVIOUS
<1>2. \A p, q \in DOMAIN text[b].lines : p < q => Row(b, p).to < Row(b, q).from
  BY <1>1, TextsAssumption DEF Row
<1>3. /\ Row(b, r).from \in Nat /\ Row(b, r).to \in Nat
      /\ Row(b, s).from \in Nat /\ Row(b, s).to \in Nat
      /\ text[b].lines \in Seq(Lines)
  BY BlockFacts
<1>4. r \in Nat /\ s \in Nat
  BY <1>3
<1>5. r < s \/ s < r
  BY <1>4
<1>6. Row(b, r).to < Row(b, s).from \/ Row(b, s).to < Row(b, r).from
  BY <1>2, <1>5
<1>7. QED BY <1>3, <1>6 DEF RowChars, Slice

\* Characters of other rows do no harm.
LEMMA RowKeptGrows ==
    ASSUME NEW b, NEW r, NEW old, NEW added, RowKept(b, r, old),
           added \cap ({b} \X RowChars(b, r)) = {}
    PROVE  RowKept(b, r, old \cup added)
BY DEF RowKept

LEMMA RowKeptNone ==
    ASSUME NEW b, NEW r, NEW chars, chars \cap ({b} \X RowChars(b, r)) = {}
    PROVE  RowKept(b, r, chars)
BY DEF RowKept

LEMMA BodyFacts ==
    ASSUME text \in Texts \cup {<<>>}, NEW b \in DOMAIN text, SplitsByRows(b),
           NEW r \in BodyRows(b)
    PROVE  /\ r \in DOMAIN text[b].lines /\ r > HeaderLines(b)
           /\ Header(b).chars \cap ({b} \X RowChars(b, r)) = {}
<1>1. /\ HeaderLines(b) \in 1..3 /\ HeaderLines(b) \in DOMAIN text[b].lines
      /\ Header(b).chars = UNION {{b} \X RowChars(b, s) : s \in 1..HeaderLines(b)}
      /\ DOMAIN text[b].lines = 1..Len(text[b].lines) /\ Len(text[b].lines) \in Nat
  BY HeaderFacts, BlockFacts DEF SplitsByRows
<1>2. r \in DOMAIN text[b].lines /\ r > HeaderLines(b)
  BY <1>1 DEF BodyRows
<1>3. ASSUME NEW x \in Header(b).chars, x \in {b} \X RowChars(b, r)
      PROVE  FALSE
  <2>1. PICK s \in 1..HeaderLines(b) : x \in {b} \X RowChars(b, s)
    BY <1>1
  <2>2. s \in DOMAIN text[b].lines /\ s # r
    BY <1>1, <1>2
  <2>3. RowChars(b, r) \cap RowChars(b, s) = {}
    BY <1>2, <2>2, RowsApart
  <2>4. QED BY <1>3, <2>1, <2>3
<1>4. QED BY <1>2, <1>3

LEMMA HeaderKeeps ==
    ASSUME text \in Texts \cup {<<>>}, NEW b \in DOMAIN text, SplitsByRows(b)
    PROVE  KeepsHeaders(Header(b).chars)
<1> SUFFICES ASSUME NEW a \in DOMAIN text, LongTable(a), NEW r \in BodyRows(a)
             PROVE  RowKept(a, r, Header(b).chars)
  BY DEF KeepsHeaders
<1>1. CASE a = b
  BY <1>1, BodyFacts, RowKeptNone DEF LongTable
<1>2. CASE a # b
  <2>1. Header(b).chars \cap ({a} \X RowChars(a, r)) = {}
    BY <1>2, BlockOfHeader
  <2>2. QED BY <2>1, RowKeptNone
<1>3. QED BY <1>1, <1>2

\* A row joins a chunk that has the header already.
LEMMA RowJoins ==
    ASSUME text \in Texts \cup {<<>>}, NEW b \in DOMAIN text, SplitsByRows(b),
           NEW r \in BodyRows(b), NEW chunk \in Chunk, KeepsHeaders(chunk.chars),
           Header(b).chars \subseteq chunk.chars
    PROVE  KeepsHeaders(WithRow(chunk, b, r).chars)
<1>1. r \in DOMAIN text[b].lines
  BY BodyFacts
<1>2. WithRow(chunk, b, r).chars = chunk.chars \cup ({b} \X RowChars(b, r))
  BY <1>1, WithRowFacts
<1> SUFFICES ASSUME NEW a \in DOMAIN text, LongTable(a), NEW s \in BodyRows(a)
             PROVE  RowKept(a, s, chunk.chars \cup ({b} \X RowChars(b, r)))
  BY <1>2 DEF KeepsHeaders
<1>3. RowKept(a, s, chunk.chars)
  BY DEF KeepsHeaders
<1>4. CASE a = b /\ s = r
  BY <1>4 DEF RowKept
<1>5. CASE ~(a = b /\ s = r)
  <2>1. ({b} \X RowChars(b, r)) \cap ({a} \X RowChars(a, s)) = {}
    <3>1. CASE a # b
      BY <3>1
    <3>2. CASE a = b
      <4>1. s # r /\ s \in DOMAIN text[b].lines
        BY <1>5, <3>2, BodyFacts
      <4>2. RowChars(b, r) \cap RowChars(b, s) = {}
        BY <1>1, <4>1, RowsApart
      <4>3. QED BY <3>2, <4>2
    <3>3. QED BY <3>1, <3>2
  <2>2. QED BY <1>3, <2>1, RowKeptGrows
<1>6. QED BY <1>4, <1>5

LEMMA NothingKeeps == KeepsHeaders({})
BY DEF KeepsHeaders, RowKept

LEMMA SameKeeps ==
    ASSUME text' = text, NEW chars, KeepsHeaders(chars)
    PROVE  KeepsHeaders(chars)'
<1> SUFFICES ASSUME NEW b \in DOMAIN text, LongTable(b)', NEW r \in BodyRows(b)'
             PROVE  RowKept(b, r, chars)'
  BY DEF KeepsHeaders
<1>1. LongTable(b) /\ r \in BodyRows(b)
  BY SameText DEF LongTable, BodyRows
<1>2. RowKept(b, r, chars)
  BY <1>1 DEF KeepsHeaders
<1>3. QED BY <1>2, SameText DEF RowKept

LEMMA AppendKeeps ==
    ASSUME chunks \in Seq(Chunk), text' = text, NEW chunk \in Chunk, KeepsHeaders(chunk.chars),
           ChunksKeep, chunks' = chunks \/ chunks' = Append(chunks, chunk)
    PROVE  ChunksKeep'
<1>1. ASSUME NEW k \in DOMAIN chunks', NEW chars, chars = chunks'[k].chars
      PROVE  KeepsHeaders(chars)'
  <2>1. (k \in DOMAIN chunks /\ chunks'[k] = chunks[k]) \/ chunks'[k] = chunk
    OBVIOUS
  <2>2. KeepsHeaders(chars)
    BY <1>1, <2>1 DEF ChunksKeep
  <2>3. QED BY <2>2, SameKeeps
<1>2. QED BY <1>1 DEF ChunksKeep, KeepsHeaders, RowKept

LEMMA CurrentKeeps ==
    ASSUME text' = text, NEW chars, KeepsHeaders(chars), current'.chars = chars
    PROVE  KeepsHeaders(current.chars)'
<1>1. KeepsHeaders(chars)'
  BY SameKeeps
<1>2. QED BY <1>1 DEF KeepsHeaders, RowKept

LEMMA TakeBlockHeaders ==
    ASSUME KeepInv, HeadersInv, TakeBlock
    PROVE  HeadersInv'
<1>1. /\ phase = "blocks" /\ row = 0 /\ text' = text
      /\ text \in Texts \cup {<<>>} /\ current \in Chunk /\ chunks \in Seq(Chunk)
      /\ block \in 1..(Len(text) + 1)
  BY DEF TakeBlock, KeepInv, ChunkInv, ChunkTypeOK, Progress
<1>2. block \in DOMAIN text
  <2>1. Len(text) \in Nat /\ DOMAIN text = 1..Len(text)
    BY <1>1, TextsAssumption
  <2>2. QED BY <1>1, <2>1 DEF TakeBlock
<1>3. ChunksKeep /\ KeepsHeaders(current.chars)
  BY DEF HeadersInv
<1>4. ASSUME chunks' = chunks \/ chunks' = Flushed PROVE ChunksKeep'
  BY <1>1, <1>3, <1>4, AppendKeeps DEF Flushed
<1>5. ASSUME NEW chunk \in Chunk, KeepsHeaders(chunk.chars),
             current' = WithBlock(chunk, block), text[block].length <= MaxChars,
             chunks' = chunks \/ chunks' = Flushed, phase' = phase
      PROVE  HeadersInv'
  <2> DEFINE chars == WithBlock(chunk, block).chars
  <2>1. chars = chunk.chars \cup ({block} \X (1..text[block].length))
    BY <1>1, <1>2, WithBlockFacts
  <2>2. text[block].length \in Nat /\ MaxChars \in Nat
    BY <1>1, <1>2, BlockFacts, LimitFacts
  <2>3. ASSUME NEW a \in DOMAIN text, LongTable(a), NEW r \in BodyRows(a)
        PROVE  RowKept(a, r, chars)
    <3>1. a # block
      BY <1>5, <2>2, <2>3 DEF LongTable
    <3>2. ({block} \X (1..text[block].length)) \cap ({a} \X RowChars(a, r)) = {}
      BY <3>1
    <3>3. RowKept(a, r, chunk.chars)
      BY <1>5, <2>3 DEF KeepsHeaders
    <3> HIDE DEF chars
    <3>4. QED BY <2>1, <3>2, <3>3, RowKeptGrows
  <2>4. KeepsHeaders(chars)
    BY <2>3 DEF KeepsHeaders
  <2>5. KeepsHeaders(current.chars)'
    BY <1>1, <1>5, <2>4, CurrentKeeps
  <2>6. QED BY <1>1, <1>4, <1>5, <2>5 DEF HeadersInv
<1>6. CASE /\ WithBlock(current, block).length <= MaxChars
           /\ current' = WithBlock(current, block)
           /\ UNCHANGED <<phase, row, start, chunks>>
  <2>1. text[block].length <= MaxChars
    <3>1. /\ text[block].length \in Nat \ {0} /\ MaxChars \in Nat /\ block \in Nat
          /\ current.length \in Nat
      BY <1>1, <1>2, BlockFacts, LimitFacts DEF Chunk
    <3>2. WithBlock(current, block).length >= text[block].length
      BY <3>1 DEF WithBlock, Joined
    <3>3. WithBlock(current, block).length \in Nat
      BY <1>1, <1>2, WithBlockFacts DEF Chunk
    <3>4. QED BY <1>6, <3>1, <3>2, <3>3
  <2>2. QED BY <1>1, <1>3, <1>5, <1>6, <2>1
<1>7. CASE /\ chunks' = Flushed /\ text[block].length <= MaxChars
           /\ current' = WithBlock(Nothing, block)
           /\ UNCHANGED <<phase, row, start>>
  <2>1. KeepsHeaders(Nothing.chars)
    BY NothingKeeps DEF Nothing
  <2>2. QED BY <1>5, <1>7, <2>1, NothingIsChunk
<1>8. CASE /\ chunks' = Flushed /\ SplitsByRows(block)
           /\ phase' = "rows" /\ current' = Header(block)
  <2>1. KeepsHeaders(Header(block).chars)
    BY <1>1, <1>2, <1>8, HeaderKeeps
  <2>2. KeepsHeaders(current.chars)'
    BY <1>1, <1>8, <2>1, CurrentKeeps
  <2>3. QED BY <1>4, <1>8, <2>2 DEF HeadersInv
<1>9. CASE /\ chunks' = Flushed /\ ~SplitsByRows(block)
           /\ phase' = "windows" /\ current' = Nothing /\ start' = 0
           /\ UNCHANGED <<block, row>>
  <2>1. KeepsHeaders(Nothing.chars)
    BY NothingKeeps DEF Nothing
  <2>2. KeepsHeaders(current.chars)'
    BY <1>1, <1>9, <2>1, CurrentKeeps
  <2>3. ~SplitsByRows(block)'
    BY <1>1, <1>9, SameBlock
  <2>4. QED BY <1>1, <1>4, <1>9, <2>2, <2>3 DEF HeadersInv
<1>10. QED BY <1>6, <1>7, <1>8, <1>9 DEF TakeBlock

LEMMA TakeWindowHeaders ==
    ASSUME KeepInv, HeadersInv, TakeWindow
    PROVE  HeadersInv'
<1> DEFINE window == Stripped(start, ThisEnd)
           piece == [chars |-> {block} \X window, length |-> Cardinality(window)]
<1>1. /\ phase = "windows" /\ text' = text /\ current' = current
      /\ text \in Texts \cup {<<>>} /\ current \in Chunk /\ chunks \in Seq(Chunk)
      /\ block \in DOMAIN text /\ row \in Nat /\ start \in Nat
      /\ row # 0 => /\ SplitsByRows(block)
                    /\ row \in (HeaderLines(block) + 1)..Len(text[block].lines)
                    /\ row \in DOMAIN text[block].lines
      /\ WindowEnd \in Nat /\ ThisEnd \in Nat
      /\ ThisEnd < WindowEnd => ThisEnd > start
      /\ window \subseteq Slice(start, ThisEnd)
      /\ piece \in Chunk
      /\ chunks' = IF window = {} THEN chunks ELSE Append(chunks, piece)
  BY WindowStepFacts DEF KeepInv
<1>2. piece.chars = {block} \X window
  OBVIOUS
<1> HIDE DEF window, piece
<1>3. ChunksKeep /\ KeepsHeaders(current.chars)
  BY DEF HeadersInv
<1>4. ThisEnd <= WindowEnd
  BY <1>1, LimitFacts DEF ThisEnd
<1>5. ASSUME NEW a \in DOMAIN text, LongTable(a), NEW r \in BodyRows(a)
      PROVE  RowKept(a, r, {block} \X window)
  <2>1. CASE a # block
    BY <2>1, RowKeptNone
  <2>2. CASE a = block
    <3>1. SplitsByRows(block) /\ row # 0
      BY <1>1, <1>5, <2>2 DEF LongTable, HeadersInv
    <3>2. CASE r = row
      BY <1>1, <2>2, <3>1, <3>2 DEF KeepInv, RowsSoFar, RowKept
    <3>3. CASE r # row
      <4>1. r \in DOMAIN text[block].lines
        BY <1>1, <1>5, <2>2, <3>1, BodyFacts
      <4>2. RowChars(block, r) \cap RowChars(block, row) = {}
        BY <1>1, <3>1, <3>3, <4>1, RowsApart
      <4>3. window \subseteq RowChars(block, row)
        <5>1. Row(block, row).from \in Nat /\ Row(block, row).to \in Nat
          BY <1>1, <3>1, BlockFacts
        <5>2. Row(block, row).from <= start
          BY <1>1, <3>1 DEF HeadersInv
        <5>3. WindowEnd = Row(block, row).to
          BY <3>1 DEF WindowEnd
        <5>4. Slice(start, ThisEnd) \subseteq Slice(Row(block, row).from, Row(block, row).to)
          BY <1>1, <1>4, <5>1, <5>2, <5>3 DEF Slice
        <5>5. QED BY <1>1, <5>4 DEF RowChars
      <4>4. ({block} \X window) \cap ({a} \X RowChars(a, r)) = {}
        BY <2>2, <4>2, <4>3
      <4>5. QED BY <4>4, RowKeptNone
    <3>4. QED BY <3>2, <3>3
  <2>3. QED BY <2>1, <2>2
<1>6. KeepsHeaders(piece.chars)
  BY <1>2, <1>5 DEF KeepsHeaders
<1>7. ChunksKeep'
  BY <1>1, <1>3, <1>6, AppendKeeps
<1>8. KeepsHeaders(current.chars)'
  BY <1>1, <1>3, CurrentKeeps
<1>9. CASE LeaveWindows
  <2>1. phase' # "windows"
    BY <1>9 DEF LeaveWindows
  <2>2. QED BY <1>7, <1>8, <2>1 DEF HeadersInv
<1>10. CASE /\ ThisEnd < WindowEnd /\ UNCHANGED <<phase, block, row>>
            /\ start' = IF ThisEnd - WindowOverlap > start + 1 THEN ThisEnd - WindowOverlap
                        ELSE start + 1
  <2>1. row = 0 => ~SplitsByRows(block)'
    BY <1>1, <1>10, SameBlock DEF HeadersInv
  <2>2. start' >= start
    BY <1>1, <1>10, LimitFacts DEF WindowOverlap
  <2>3. row # 0 => Row(block, row)' = Row(block, row) /\ Row(block, row).from \in Nat
    BY <1>1, <1>10, BlockFacts DEF Row
  <2>4. row # 0 => Row(block, row).from <= start
    BY <1>1 DEF HeadersInv
  <2>5. start' \in Int
    BY <1>1, <1>10, LimitFacts DEF WindowOverlap
  <2>6. row # 0 => Row(block, row).from <= start'
    BY <1>1, <2>2, <2>3, <2>4, <2>5
  <2>7. QED BY <1>7, <1>8, <1>10, <2>1, <2>3, <2>6 DEF HeadersInv
<1>11. QED BY <1>1, <1>9, <1>10 DEF TakeWindow

LEMMA TakeRowHeaders ==
    ASSUME KeepInv, HeadersInv, TakeRow
    PROVE  HeadersInv'
<1>1. /\ phase = "rows" /\ text' = text /\ block' = block
      /\ text \in Texts \cup {<<>>} /\ current \in Chunk /\ chunks \in Seq(Chunk)
      /\ block \in DOMAIN text /\ SplitsByRows(block)
      /\ row \in (HeaderLines(block) + 1)..(Len(text[block].lines) + 1)
      /\ row <= Len(text[block].lines)
      /\ Header(block).chars \subseteq current.chars
  BY DEF TakeRow, KeepInv, ChunkInv, ChunkTypeOK, Progress, RowsSoFar
<1>2. /\ HeaderLines(block) \in 1..3 /\ Header(block) \in Chunk
      /\ Len(text[block].lines) \in Nat
  BY <1>1, HeaderFacts, BlockFacts DEF SplitsByRows
<1>3. row \in BodyRows(block) /\ row # 0
  BY <1>1, <1>2 DEF BodyRows
<1>4. ChunksKeep /\ KeepsHeaders(current.chars) /\ KeepsHeaders(Header(block).chars)
  BY <1>1, HeaderKeeps DEF HeadersInv
<1>5. ASSUME chunks' = chunks \/ chunks' = Append(chunks, current) PROVE ChunksKeep'
  BY <1>1, <1>4, <1>5, AppendKeeps
<1>6. ASSUME NEW chunk \in Chunk, KeepsHeaders(chunk.chars), Header(block).chars \subseteq chunk.chars,
             current' = WithRow(chunk, block, row), phase' = phase,
             chunks' = chunks \/ chunks' = Append(chunks, current)
      PROVE  HeadersInv'
  <2>1. KeepsHeaders(WithRow(chunk, block, row).chars)
    BY <1>1, <1>3, <1>6, RowJoins
  <2>2. KeepsHeaders(current.chars)'
    BY <1>1, <1>6, <2>1, CurrentKeeps
  <2>3. QED BY <1>1, <1>5, <1>6, <2>2 DEF HeadersInv
<1>7. ASSUME SplitRow, chunks' = chunks \/ chunks' = Append(chunks, current)
      PROVE  HeadersInv'
  <2>1. row' = row /\ current' = Header(block) /\ start' = Row(block, row).from
    BY <1>7 DEF SplitRow
  <2>2. KeepsHeaders(current.chars)'
    BY <1>1, <1>4, <2>1, CurrentKeeps
  <2>3. Row(block, row)' = Row(block, row) /\ Row(block, row).from \in Nat
    <3>1. row \in DOMAIN text[block].lines
      BY <1>1, <1>3, BodyFacts
    <3>2. QED BY <1>1, <2>1, <3>1, BlockFacts DEF Row
  <2>4. Row(block, row).from <= Row(block, row).from
    BY <2>3
  <2>5. QED BY <1>3, <1>5, <1>7, <2>1, <2>2, <2>3, <2>4 DEF HeadersInv
<1>8. CASE WithRow(current, block, row).length <= MaxChars
  BY <1>1, <1>4, <1>6, <1>8 DEF TakeRow
<1>9. CASE ~(WithRow(current, block, row).length <= MaxChars)
  <2>1. CASE SplitRow
    BY <1>7, <1>9, <2>1 DEF TakeRow
  <2>2. CASE current' = Fresh(block, row) /\ chunks' = Append(chunks, current) /\ phase' = phase
    BY <1>2, <1>4, <1>6, <2>2 DEF Fresh
  <2>3. QED BY <1>9, <2>1, <2>2 DEF TakeRow
<1>10. QED BY <1>8, <1>9

\* The steps that only close the chunk being filled.
LEMMA CloseHeaders ==
    ASSUME KeepInv, HeadersInv, EndTable \/ EndText
    PROVE  HeadersInv'
<1>1. /\ text' = text /\ current' = Nothing /\ phase' # "windows"
      /\ chunks' = chunks \/ chunks' = Append(chunks, current)
  BY DEF EndTable, EndText, Flushed
<1>2. current \in Chunk /\ chunks \in Seq(Chunk)
  BY DEF KeepInv, ChunkInv, ChunkTypeOK
<1>3. ChunksKeep'
  BY <1>1, <1>2, AppendKeeps DEF HeadersInv
<1>4. KeepsHeaders(Nothing.chars)
  BY NothingKeeps DEF Nothing
<1>5. KeepsHeaders(current.chars)'
  BY <1>1, <1>4, CurrentKeeps
<1>6. QED BY <1>1, <1>3, <1>5 DEF HeadersInv

LEMMA FreshHeaders ==
    ASSUME chunks = <<>>, current = Nothing, phase # "windows"
    PROVE  HeadersInv
<1>1. ChunksKeep
  BY DEF ChunksKeep
<1>2. KeepsHeaders(current.chars)
  BY NothingKeeps DEF Nothing
<1>3. QED BY <1>1, <1>2 DEF HeadersInv

LEMMA HeadersInit == ChunkInit => HeadersInv
BY FreshHeaders DEF ChunkInit

LEMMA HeadersStep == KeepInv /\ HeadersInv /\ [ChunkNext]_chunkVars => HeadersInv'
<1> SUFFICES ASSUME KeepInv, HeadersInv, [ChunkNext]_chunkVars PROVE HeadersInv'
  OBVIOUS
<1>1. CASE \E t \in Texts : Split(t)
  <2>1. chunks' = <<>> /\ current' = Nothing /\ phase' # "windows"
    BY <1>1 DEF Split
  <2>2. ChunksKeep'
    BY <2>1 DEF ChunksKeep
  <2>3. KeepsHeaders(current.chars)'
    BY <2>1 DEF Nothing, KeepsHeaders, RowKept
  <2>4. QED BY <2>1, <2>2, <2>3 DEF HeadersInv
<1>2. CASE UNCHANGED chunkVars
  <2>1. UNCHANGED <<phase, text, block, row, start, current, chunks>>
    BY <1>2 DEF chunkVars
  <2>2. ChunksKeep'
    BY <2>1, AppendKeeps DEF HeadersInv, KeepInv, ChunkInv, ChunkTypeOK
  <2>3. KeepsHeaders(current.chars)'
    BY <2>1, CurrentKeeps DEF HeadersInv
  <2>4. SplitsByRows(block)' = SplitsByRows(block)
    BY <2>1, SameBlock
  <2>5. Row(block, row)' = Row(block, row)
    BY <2>1 DEF Row
  <2>6. QED BY <2>1, <2>2, <2>3, <2>4, <2>5 DEF HeadersInv
<1>3. QED BY <1>1, <1>2, TakeBlockHeaders, TakeWindowHeaders, TakeRowHeaders, CloseHeaders
          DEF ChunkNext, ChunkStep

\* A row that fits below the header of its table is never cut and never stands without that
\* header, in any chunk at any time: for any texts, sizes and overlaps.
THEOREM RowsKeepTheirHeader == ChunkSpec => []RowsKeepHeader
<1>1. HeadersInv => RowsKeepHeader
  BY DEF HeadersInv, ChunksKeep, KeepsHeaders, LongTable, BodyRows, RowKept, RowsKeepHeader
<1>2. KeepInv /\ HeadersInv /\ [ChunkNext]_chunkVars => (KeepInv /\ HeadersInv)'
  BY RemainsStep, HeadersStep
<1>3. QED BY RemainsInit, HeadersInit, <1>1, <1>2, PTL DEF ChunkSpec
-----------------------------------------------------------------------------
Passage(b, f) == Slice(f, f + Overlap + 1) \cap Visible(b)
HoldsPassage(chars, b, f) == {b} \X Passage(b, f) \subseteq chars
InChunk(b, f) == \E k \in DOMAIN chunks : HoldsPassage(chunks[k].chars, b, f)
IsPassage(b, f) == ~IsTable(b) /\ f \in 0..(text[b].length - 1) /\ Passage(b, f) # {}

\* The passages of the blocks behind the loop are whole in a chunk or in the one being
\* filled; those of a paragraph that is cut, up to where the next window starts.
PassagesInv ==
    /\ \A b \in DOMAIN text : \A f : b < block /\ IsPassage(b, f) =>
          InChunk(b, f) \/ (phase = "blocks" /\ HoldsPassage(current.chars, b, f))
    /\ phase = "windows" /\ ~IsTable(block) =>
          /\ row = 0
          /\ \A f : IsPassage(block, f) /\ f < start => InChunk(block, f)

LEMMA SamePassages ==
    ASSUME text' = text, NEW b, NEW f
    PROVE  /\ Passage(b, f)' = Passage(b, f) /\ IsTable(b)' = IsTable(b)
           /\ IsPassage(b, f)' = IsPassage(b, f)
BY DEF Passage, IsPassage, IsTable, Visible, Row

LEMMA PassagesGrow ==
    ASSUME chunks \in Seq(Chunk), text' = text, NEW chunk \in Chunk, NEW b, NEW f,
           chunks' = chunks \/ chunks' = Append(chunks, chunk)
    PROVE  /\ InChunk(b, f) => InChunk(b, f)'
           /\ chunks' = Append(chunks, chunk) /\ HoldsPassage(chunk.chars, b, f) => InChunk(b, f)'
<1>1. /\ \A k \in DOMAIN chunks : k \in DOMAIN chunks' /\ chunks'[k] = chunks[k]
      /\ chunks' = Append(chunks, chunk) =>
            Len(chunks) + 1 \in DOMAIN chunks' /\ chunks'[Len(chunks) + 1] = chunk
  OBVIOUS
<1>2. Passage(b, f)' = Passage(b, f)
  BY SamePassages
<1>3. QED BY <1>1, <1>2 DEF InChunk, HoldsPassage

\* A step that leaves the loop where it is or closes its chunk keeps what is behind.
LEMMA PassagesStay ==
    ASSUME ChunkTypeOK, PassagesInv, text' = text,
           chunks' = chunks \/ chunks' = Append(chunks, current), NEW b \in DOMAIN text, NEW f,
           b < block, IsPassage(b, f),
           phase = "blocks" => \/ chunks' = Flushed
                               \/ phase' = "blocks" /\ current.chars \subseteq current'.chars
    PROVE  InChunk(b, f)' \/ (phase' = "blocks" /\ HoldsPassage(current.chars, b, f)')
<1>1. chunks \in Seq(Chunk) /\ current \in Chunk
  BY DEF ChunkTypeOK
<1>2. CASE InChunk(b, f)
  BY <1>1, <1>2, PassagesGrow
<1>3. CASE phase = "blocks" /\ HoldsPassage(current.chars, b, f)
  <2>1. CASE chunks' = Append(chunks, current)
    BY <1>1, <1>3, <2>1, PassagesGrow
  <2>2. CASE phase' = "blocks" /\ current.chars \subseteq current'.chars
    BY <1>3, <2>2, SamePassages DEF HoldsPassage
  <2>3. current # Nothing
    <3>1. PICK i : i \in Passage(b, f)
      BY DEF IsPassage
    <3>2. <<b, i>> \in current.chars
      BY <1>3, <3>1 DEF HoldsPassage
    <3>3. QED BY <3>2 DEF Nothing
  <2>4. QED BY <1>3, <2>1, <2>2, <2>3 DEF Flushed
<1>4. QED BY <1>2, <1>3 DEF PassagesInv

LEMMA TakeBlockPassages ==
    ASSUME KeepInv, PassagesInv, TakeBlock
    PROVE  PassagesInv'
<1>1. /\ phase = "blocks" /\ row = 0 /\ text' = text /\ ChunkTypeOK
      /\ text \in Texts \cup {<<>>} /\ current \in Chunk /\ chunks \in Seq(Chunk)
      /\ block \in 1..(Len(text) + 1)
  BY DEF TakeBlock, KeepInv, ChunkInv, ChunkTypeOK, Progress
<1>2. block \in DOMAIN text /\ block \in Nat /\ \A b \in DOMAIN text : b \in Nat
  <2>1. Len(text) \in Nat /\ DOMAIN text = 1..Len(text)
    BY <1>1, TextsAssumption
  <2>2. QED BY <1>1, <2>1 DEF TakeBlock
<1>3. ASSUME NEW chunk \in Chunk, current' = WithBlock(chunk, block),
             block' = block + 1, phase' = phase,
             \/ chunk = current /\ chunks' = chunks
             \/ chunk = Nothing /\ chunks' = Flushed
      PROVE  PassagesInv'
  <2>1. current'.chars = chunk.chars \cup ({block} \X (1..text[block].length))
    BY <1>1, <1>2, <1>3, WithBlockFacts
  <2>2. ASSUME NEW b \in DOMAIN text, NEW f, b < block', IsPassage(b, f)
        PROVE  InChunk(b, f)' \/ (phase' = "blocks" /\ HoldsPassage(current.chars, b, f)')
    <3>1. CASE b = block
      <4>1. Passage(b, f) \subseteq 1..text[block].length
        BY <3>1 DEF Passage, Visible
      <4>2. Passage(b, f)' = Passage(b, f)
        BY <1>1, SamePassages
      <4>3. HoldsPassage(current.chars, b, f)'
        BY <2>1, <3>1, <4>1, <4>2 DEF HoldsPassage
      <4>4. QED BY <1>1, <1>3, <4>3
    <3>2. CASE b < block
      BY <1>1, <1>3, <2>1, <2>2, <3>2, PassagesStay DEF Flushed
    <3>3. QED BY <1>2, <1>3, <2>2, <3>1, <3>2
  <2>3. QED BY <1>1, <1>3, <2>2, SamePassages DEF PassagesInv
<1>4. ASSUME chunks' = Flushed, block' = block, phase' = "rows" \/ phase' = "windows",
             phase' = "rows" \/ (start' = 0 /\ row' = row)
      PROVE  PassagesInv'
  <2>1. ASSUME NEW b \in DOMAIN text, NEW f, b < block, IsPassage(b, f)
        PROVE  InChunk(b, f)' \/ (phase' = "blocks" /\ HoldsPassage(current.chars, b, f)')
    BY <1>1, <1>4, <2>1, PassagesStay DEF Flushed
  <2>2. \A f : IsPassage(block, f)' => ~(f < 0)
    BY <1>1, <1>4, SamePassages DEF IsPassage
  <2>3. QED BY <1>1, <1>4, <2>1, <2>2, SamePassages DEF PassagesInv
<1>5. QED BY <1>1, <1>3, <1>4, NothingIsChunk DEF TakeBlock

LEMMA TakeWindowPassages ==
    ASSUME KeepInv, PassagesInv, TakeWindow
    PROVE  PassagesInv'
<1> DEFINE window == Stripped(start, ThisEnd)
           piece == [chars |-> {block} \X window, length |-> Cardinality(window)]
<1>1. /\ phase = "windows" /\ text' = text /\ current' = current
      /\ text \in Texts \cup {<<>>} /\ current \in Chunk /\ chunks \in Seq(Chunk)
      /\ block \in DOMAIN text /\ block \in Nat /\ row \in Nat /\ start \in Nat
      /\ row # 0 => SplitsByRows(block)
      /\ WindowEnd \in Nat /\ ThisEnd \in Nat
      /\ ThisEnd < WindowEnd => ThisEnd > start
      /\ piece \in Chunk
      /\ chunks' = IF window = {} THEN chunks ELSE Append(chunks, piece)
  BY WindowStepFacts DEF KeepInv
<1>2. \A i \in Visible(block) : i > start /\ i <= ThisEnd => i \in window
  <2> SUFFICES ASSUME NEW i \in Visible(block), i > start, i <= ThisEnd PROVE i \in window
    OBVIOUS
  <2>1. i \in Nat /\ i \notin text[block].blank
    BY <1>1, BlockFacts DEF Visible
  <2>2. i \in Slice(start, ThisEnd) /\ i \in Slice(start, i) /\ i \in Slice(i - 1, ThisEnd)
    BY <1>1, <2>1 DEF Slice
  <2>3. QED BY <2>1, <2>2 DEF Stripped
<1>3. piece.chars = {block} \X window
  OBVIOUS
<1> HIDE DEF window, piece
<1>4. \A b, f : InChunk(b, f) => InChunk(b, f)'
  BY <1>1, PassagesGrow
<1>b. PICK b \in DOMAIN text : b = block
  BY <1>1
\* The passages from where the window starts that end in it.
<1>5. ASSUME NEW f \in Nat, f >= start, IsPassage(b, f),
             f + Overlap + 1 <= ThisEnd \/ text[block].length <= ThisEnd
      PROVE  InChunk(b, f)'
  <2>1. Passage(b, f) \subseteq window
    <3> SUFFICES ASSUME NEW i \in Passage(b, f) PROVE i \in window
      OBVIOUS
    <3>1. /\ i \in Visible(block) /\ i \in Nat /\ i > f /\ i <= f + Overlap + 1
          /\ i <= text[block].length /\ text[block].length \in Nat
      BY <1>1, <1>b, LimitFacts, BlockFacts DEF Passage, Visible, Slice
    <3>2. i > start /\ i <= ThisEnd
      BY <1>1, <1>5, <3>1, LimitFacts
    <3>3. QED BY <1>2, <3>1, <3>2
  <2>2. window # {} /\ HoldsPassage(piece.chars, b, f)
    BY <1>3, <1>5, <1>b, <2>1 DEF IsPassage, HoldsPassage
  <2>3. chunks' = Append(chunks, piece)
    BY <1>1, <2>2
  <2>4. QED BY <1>1, <2>2, <2>3, PassagesGrow
<1>6. \A f : IsPassage(b, f) => f \in Nat /\ row = 0 /\ (f < start => InChunk(b, f))
  <2>1. text[b].length \in Nat
    BY <1>1, BlockFacts
  <2>2. QED BY <1>1, <1>b, <2>1 DEF IsPassage, PassagesInv
<1>7. ASSUME NEW a \in DOMAIN text, NEW f, a < block, IsPassage(a, f) PROVE InChunk(a, f)'
  BY <1>1, <1>4, <1>7 DEF PassagesInv
<1>8. CASE ThisEnd >= WindowEnd /\ LeaveWindows
  <2>1. CASE row = 0 /\ phase' = "blocks" /\ block' = block + 1
    <3>1. \A f : IsPassage(b, f) => InChunk(b, f)'
      <4> SUFFICES ASSUME NEW f, IsPassage(b, f) PROVE InChunk(b, f)'
        OBVIOUS
      <4>1. CASE f < start
        BY <1>4, <1>6, <4>1
      <4>2. CASE f >= start
        <5>1. text[block].length <= ThisEnd /\ f \in Nat
          BY <1>1, <1>6, <1>8, <2>1, BlockFacts DEF WindowEnd
        <5>2. QED BY <1>5, <4>2, <5>1
      <4>3. QED BY <1>1, <1>6, <4>1, <4>2
    <3>2. \A a \in DOMAIN text : a < block' => a < block \/ a = b
      BY <1>1, <1>b, <2>1, BlockFacts
    <3>3. QED BY <1>1, <1>7, <2>1, <3>1, <3>2, SamePassages DEF PassagesInv
  <2>2. CASE phase' = "rows" /\ block' = block
    BY <1>1, <1>7, <2>2, SamePassages DEF PassagesInv
  <2>3. QED BY <1>8, <2>1, <2>2 DEF LeaveWindows
<1>9. CASE /\ ThisEnd < WindowEnd /\ UNCHANGED <<phase, block, row>>
           /\ start' = IF ThisEnd - WindowOverlap > start + 1 THEN ThisEnd - WindowOverlap
                       ELSE start + 1
  <2>1. ThisEnd = start + MaxChars
    BY <1>1, <1>9, LimitFacts DEF ThisEnd
  <2>2. ASSUME NEW f, IsPassage(b, f), f < start' PROVE InChunk(b, f)'
    <3>1. f \in Nat /\ row = 0
      BY <1>6, <2>2
    <3>2. WindowOverlap = Overlap
      BY <1>b, <2>2, <3>1 DEF WindowOverlap, IsPassage
    <3>3. CASE f < start
      BY <1>4, <1>6, <2>2, <3>3
    <3>4. CASE f >= start
      <4>1. f + Overlap + 1 <= ThisEnd
        BY <1>1, <1>9, <2>1, <2>2, <3>1, <3>2, <3>4, LimitFacts
      <4>2. QED BY <1>5, <2>2, <3>1, <3>4, <4>1
    <3>5. QED BY <1>1, <3>1, <3>3, <3>4
  <2>3. IsTable(b)' = IsTable(b) /\ IsTable(block)' = IsTable(b)
    BY <1>1, <1>b, <1>9 DEF IsTable, Row
  <2>4. \A f : IsPassage(block, f)' = IsPassage(b, f) /\ InChunk(block, f)' = InChunk(b, f)'
    BY <1>1, <1>b, <1>9 DEF IsPassage, IsTable, Passage, Visible, Row, InChunk, HoldsPassage
  <2>5. ~IsTable(b) => row' = 0
    BY <1>1, <1>b, <1>9 DEF PassagesInv
  <2>6. QED BY <1>1, <1>7, <1>9, <2>2, <2>3, <2>4, <2>5, SamePassages DEF PassagesInv
<1>10. QED BY <1>1, <1>8, <1>9 DEF TakeWindow

\* The steps of a table and the last one: they close the chunk being filled, at most.
LEMMA TablePassages ==
    ASSUME KeepInv, PassagesInv, TakeRow \/ EndTable \/ EndText
    PROVE  PassagesInv'
<1>1. /\ text' = text /\ ChunkTypeOK /\ text \in Texts \cup {<<>>} /\ block \in Nat
      /\ chunks' = chunks \/ chunks' = Append(chunks, current)
      /\ phase = "blocks" => chunks' = Flushed
      /\ phase' = "windows" => block' = block /\ phase = "rows"
      /\ block' = block \/ (block' = block + 1 /\ phase = "rows")
      /\ phase' # "blocks" \/ phase = "rows"
      /\ phase = "rows" => block \in DOMAIN text /\ SplitsByRows(block)
  <2>1. ChunkTypeOK /\ text \in Texts \cup {<<>>} /\ block \in Nat
    BY DEF KeepInv, ChunkInv, ChunkTypeOK
  <2>2. phase = "rows" => block \in DOMAIN text /\ SplitsByRows(block)
    BY DEF KeepInv, ChunkInv, Progress
  <2>3. CASE TakeRow
    BY <2>1, <2>2, <2>3 DEF TakeRow, SplitRow
  <2>4. CASE EndTable
    BY <2>1, <2>2, <2>4 DEF EndTable
  <2>5. CASE EndText
    BY <2>1, <2>2, <2>5 DEF EndText, Flushed
  <2>6. QED BY <2>3, <2>4, <2>5
<1>2. ASSUME NEW b \in DOMAIN text, NEW f, b < block', IsPassage(b, f)
      PROVE  InChunk(b, f)' \/ (phase' = "blocks" /\ HoldsPassage(current.chars, b, f)')
  <2>1. b \in Nat
    BY <1>1, BlockFacts
  <2>2. b # block \/ phase # "rows"
    BY <1>1, <1>2 DEF IsPassage, SplitsByRows
  <2>3. b < block
    BY <1>1, <1>2, <2>1, <2>2
  <2>4. QED BY <1>1, <1>2, <2>3, PassagesStay
<1>3. phase' = "windows" => IsTable(block)'
  BY <1>1 DEF SplitsByRows, IsTable, Row
<1>4. QED BY <1>1, <1>2, <1>3, SamePassages DEF PassagesInv

LEMMA PassagesInit == ChunkInit => PassagesInv
<1> SUFFICES ASSUME ChunkInit PROVE PassagesInv
  OBVIOUS
<1>1. DOMAIN text = {} /\ phase # "windows"
  BY DEF ChunkInit
<1>2. QED BY <1>1 DEF PassagesInv

LEMMA PassagesStep == KeepInv /\ PassagesInv /\ [ChunkNext]_chunkVars => PassagesInv'
<1> SUFFICES ASSUME KeepInv, PassagesInv, [ChunkNext]_chunkVars PROVE PassagesInv'
  OBVIOUS
<1>1. CASE \E t \in Texts : Split(t)
  <2>1. PICK t \in Texts : Split(t)
    BY <1>1
  <2>2. phase' = "blocks" /\ block' = 1 /\ DOMAIN text' = 1..Len(text')
    BY <2>1, TextsAssumption DEF Split
  <2>3. \A b \in DOMAIN text' : ~(b < block')
    BY <2>2
  <2>4. QED BY <2>2, <2>3 DEF PassagesInv
<1>2. CASE UNCHANGED chunkVars
  <2>1. UNCHANGED <<phase, text, block, row, start, current, chunks>>
    BY <1>2 DEF chunkVars
  <2>2. QED BY <2>1 DEF PassagesInv, IsPassage, IsTable, Passage, Visible, Row, InChunk, HoldsPassage
<1>3. QED BY <1>1, <1>2, TakeBlockPassages, TakeWindowPassages, TablePassages
          DEF ChunkNext, ChunkStep

\* What the overlap is for: any passage of up to overlap_chars + 1 characters of a paragraph
\* is whole in some chunk, for any texts, sizes and overlaps below the size.
THEOREM PassagesStayWhole == ChunkSpec => []PassagesWhole
<1>1. KeepInv /\ PassagesInv => PassagesWhole
  <2> SUFFICES ASSUME KeepInv, PassagesInv, phase = "done", NEW b \in DOMAIN text,
                      NEW f \in 0..(text[b].length - 1), ~IsTable(b)
               PROVE  InOneChunk(b, Passage(b, f))
    BY DEF PassagesWhole, Passage
  <2>1. text \in Texts \cup {<<>>} /\ b < block
    <3>1. text \in Texts \cup {<<>>}
      BY DEF KeepInv, ChunkInv, ChunkTypeOK
    <3>2. b \in 1..Len(text) /\ Len(text) \in Nat
      BY <3>1, BlockFacts
    <3>3. QED BY <3>1, <3>2 DEF KeepInv, Behind
  <2>2. CASE Passage(b, f) # {}
    BY <2>1, <2>2 DEF PassagesInv, IsPassage, InChunk, HoldsPassage, InOneChunk
  <2>3. CASE Passage(b, f) = {}
    <3>1. 1 \in Visible(b)
      <4>1. text \in Texts
        BY <2>1
      <4>2. 1 \notin text[b].blank
        BY <4>1, TextsAssumption
      <4>3. QED BY <2>1, <4>2, BlockFacts DEF Visible
    <3>2. InChunks(<<b, 1>>)
      BY <2>1, <3>1 DEF KeepInv, Behind, Remains, HeaderDropped, SplitsByRows
    <3>3. QED BY <2>3, <3>2 DEF InChunks, InOneChunk
  <2>4. QED BY <2>2, <2>3
<1>2. KeepInv /\ PassagesInv /\ [ChunkNext]_chunkVars => (KeepInv /\ PassagesInv)'
  BY RemainsStep, PassagesStep
<1>3. QED BY RemainsInit, PassagesInit, <1>1, <1>2, PTL DEF ChunkSpec
-----------------------------------------------------------------------------
\* No chunk is empty, nor is the one being filled once something was put in it.
Filled == /\ \A k \in DOMAIN chunks : chunks[k].length > 0
          /\ current # Nothing \/ phase = "rows" => current.length > 0

LEMMA FilledAppend ==
    ASSUME chunks \in Seq(Chunk), NEW chunk \in Chunk, Filled, chunk.length > 0,
           chunks' = chunks \/ chunks' = Append(chunks, chunk)
    PROVE  \A k \in DOMAIN chunks' : chunks'[k].length > 0
BY DEF Filled

LEMMA FilledInit == ChunkInit => Filled
BY DEF ChunkInit, Filled

LEMMA FilledStep == ChunkInv /\ Filled /\ [ChunkNext]_chunkVars => Filled'
<1> SUFFICES ASSUME ChunkInv, Filled, [ChunkNext]_chunkVars PROVE Filled'
  OBVIOUS
<1>1. /\ text \in Texts \cup {<<>>} /\ current \in Chunk /\ chunks \in Seq(Chunk)
      /\ block \in 1..(Len(text) + 1)
  BY DEF ChunkInv, ChunkTypeOK
<1>2. ASSUME chunks' = Flushed \/ chunks' = chunks
      PROVE  \A k \in DOMAIN chunks' : chunks'[k].length > 0
  BY <1>1, <1>2, FilledAppend DEF Flushed, Filled
<1>3. CASE \E t \in Texts : Split(t)
  BY <1>3 DEF Split, Filled
<1>4. CASE TakeBlock
  <2>1. block \in DOMAIN text /\ phase = "blocks"
    <3>1. Len(text) \in Nat /\ DOMAIN text = 1..Len(text)
      BY <1>1, TextsAssumption
    <3>2. QED BY <1>1, <1>4, <3>1 DEF TakeBlock
  <2>2. \A chunk \in Chunk : WithBlock(chunk, block).length > 0
    <3> SUFFICES ASSUME NEW chunk \in Chunk PROVE WithBlock(chunk, block).length > 0
      OBVIOUS
    <3>1. text[block].length \in Nat \ {0} /\ chunk.length \in Nat
      BY <1>1, <2>1, BlockFacts DEF Chunk
    <3>2. QED BY <3>1 DEF WithBlock, Joined
  <2>3. SplitsByRows(block) => Header(block).length > 0
    BY <1>1, <2>1, HeaderFacts DEF SplitsByRows
  <2>4. chunks' = Flushed \/ chunks' = chunks
    BY <1>4 DEF TakeBlock
  <2>5. \/ \E chunk \in {current, Nothing} : current' = WithBlock(chunk, block)
        \/ current' = Header(block) /\ SplitsByRows(block)
        \/ current' = Nothing /\ phase' # "rows"
    BY <1>4 DEF TakeBlock
  <2>6. QED BY <1>1, <1>2, <2>2, <2>3, <2>4, <2>5, NothingIsChunk DEF Filled
<1>5. CASE TakeWindow
  <2> DEFINE window == Stripped(start, ThisEnd)
             piece == [chars |-> {block} \X window, length |-> Cardinality(window)]
  <2>1. /\ phase = "windows" /\ current' = current
        /\ block \in DOMAIN text
        /\ row # 0 => SplitsByRows(block) /\ current = Header(block)
        /\ window \subseteq Slice(start, ThisEnd) /\ start \in Nat /\ ThisEnd \in Nat
        /\ piece \in Chunk
        /\ chunks' = IF window = {} THEN chunks ELSE Append(chunks, piece)
    BY <1>5, WindowStepFacts
  <2>2. window # {} => piece.length > 0
    <3>1. IsFiniteSet(Slice(start, ThisEnd))
      <4>1. start + 1 \in Int /\ ThisEnd \in Int
        BY <2>1
      <4>2. QED BY <4>1, FS_Interval, Zenon DEF Slice
    <3> HIDE DEF window
    <3>2. IsFiniteSet(window)
      BY <2>1, <3>1, FS_Subset
    <3>3. Cardinality(window) \in Nat /\ (Cardinality(window) = 0 <=> window = {})
      BY <3>2, FS_CardinalityType, FS_EmptySet
    <3>4. QED BY <3>3
  <2> HIDE DEF window, piece
  <2>3. \A k \in DOMAIN chunks' : chunks'[k].length > 0
    <3>1. CASE window = {}
      BY <1>2, <2>1, <3>1
    <3>2. CASE window # {}
      BY <1>1, <2>1, <2>2, <3>2, FilledAppend
    <3>3. QED BY <3>1, <3>2
  <2>4. phase' = "rows" => row # 0
    BY <1>5, <2>1 DEF TakeWindow, LeaveWindows
  <2>5. row # 0 => Header(block).length > 0
    BY <1>1, <2>1, HeaderFacts DEF SplitsByRows
  <2>6. QED BY <2>1, <2>3, <2>4, <2>5 DEF Filled
<1>6. CASE TakeRow
  <2>1. /\ phase = "rows" /\ block \in DOMAIN text /\ SplitsByRows(block)
        /\ row \in (HeaderLines(block) + 1)..(Len(text[block].lines) + 1)
        /\ row <= Len(text[block].lines)
    BY <1>6 DEF TakeRow, ChunkInv, Progress
  <2>2. /\ HeaderLines(block) \in 1..3 /\ Header(block) \in Chunk /\ Header(block).length > 0
        /\ Len(text[block].lines) \in Nat /\ DOMAIN text[block].lines = 1..Len(text[block].lines)
    BY <1>1, <2>1, HeaderFacts, BlockFacts DEF SplitsByRows
  <2>3. row \in DOMAIN text[block].lines
    BY <2>1, <2>2
  <2>4. ASSUME NEW chunk \in Chunk, chunk.length > 0 PROVE WithRow(chunk, block, row).length > 0
    <3>1. WithRow(chunk, block, row) \in Chunk /\ WithRow(chunk, block, row).length > chunk.length
      BY <1>1, <2>1, <2>3, WithRowFacts
    <3>2. QED BY <2>4, <3>1 DEF Chunk
  <2>5. current.length > 0
    BY <2>1 DEF Filled
  <2>6. \/ current' = WithRow(current, block, row)
        \/ current' = Header(block)
        \/ current' = WithRow(Header(block), block, row)
    BY <1>6 DEF TakeRow, SplitRow, Fresh
  <2>7. current'.length > 0
    BY <1>1, <2>2, <2>4, <2>5, <2>6
  <2>8. chunks' = chunks \/ chunks' = Append(chunks, current)
    BY <1>6 DEF TakeRow
  <2>9. QED BY <1>1, <2>5, <2>7, <2>8, FilledAppend DEF Filled
<1>7. CASE EndTable
  <2>1. current.length > 0
    BY <1>7 DEF EndTable, Filled
  <2>2. current' = Nothing /\ phase' = "blocks"
        /\ (chunks' = chunks \/ chunks' = Append(chunks, current))
    BY <1>7 DEF EndTable
  <2>3. QED BY <1>1, <2>1, <2>2, FilledAppend DEF Filled
<1>8. CASE EndText
  BY <1>2, <1>8 DEF EndText, Filled
<1>9. CASE UNCHANGED chunkVars
  BY <1>9 DEF chunkVars, Filled
<1>10. QED BY <1>3, <1>4, <1>5, <1>6, <1>7, <1>8, <1>9 DEF ChunkNext, ChunkStep
-----------------------------------------------------------------------------
LEMMA RequestFacts ==
    ASSUME NEW r \in Requests
    PROVE  /\ r.doc \in Docs /\ r.text \in Texts /\ r.created \in Nat
           /\ r.longTitle \in BOOLEAN /\ r # NoRequest
<1>1. r.doc \in Docs
  BY DEF Docs
<1>2. QED BY <1>1, RequestsAssumption

LEMMA PayloadFacts ==
    ASSUME NEW r, NEW i, NEW c
    PROVE  /\ Payload(r, i, c).sourceId = {r.doc}
           /\ Payload(r, i, c).sourceType = {ChatSourceType(r.type)}
           /\ Payload(r, i, c).ownerUserId = {r.owner}
           /\ Payload(r, i, c).allowedUserIds = r.users
           /\ Payload(r, i, c).sharedWorkspaceIds = r.workspaces
           /\ Payload(r, i, c).organizationId = r.organization
           /\ Payload(r, i, c).meetingId = r.meeting
           /\ Payload(r, i, c).createdAt = r.created
           /\ Payload(r, i, c).longTitle = r.longTitle
           /\ Payload(r, i, c).chunkIndex = i
           /\ Payload(r, i, c).content = c
           /\ DOMAIN Payload(r, i, c) =
                 {"sourceId", "sourceType", "ownerUserId", "allowedUserIds",
                  "sharedWorkspaceIds", "organizationId", "meetingId", "createdAt",
                  "longTitle", "chunkIndex", "content"}
BY DEF Payload

\* The points a document ought to have.
Holds(d) == {Payload(stored[d].request, i, stored[d].chunks[i]) : i \in DOMAIN stored[d].chunks}

StoredWell(d) ==
    \/ stored[d] = NotStored
    \/ /\ stored[d].request \in Requests /\ stored[d].request.doc = d
       /\ stored[d].chunks \in Seq(Chunk) /\ stored[d].chunks # <<>>
       /\ \A i \in DOMAIN stored[d].chunks : stored[d].chunks[i].length > 0

WorkflowOK ==
    /\ backend \in Backends
    /\ stage \in {"idle", "splitting", "deleting", "upserting"}
    /\ request \in Requests \cup {NoRequest}
    /\ stage = "idle" <=> request = NoRequest
    /\ result \in [ok : BOOLEAN, retryable : BOOLEAN]
    /\ stored \in [Docs -> [request : Requests \cup {NoRequest}, chunks : Seq(Chunk)]]

\* The collection holds what was last stored of each document, and nothing of a document
\* that is being replaced.
LibraryInv ==
    /\ WorkflowOK
    /\ \A d \in Docs : StoredWell(d)
    /\ points = UNION {Holds(d) : d \in Docs}
    /\ stage \in {"deleting", "upserting"} => chunks # <<>>
    /\ stage = "upserting" => stored[request.doc] = NotStored

LEMMA BackendKept == backend \in Backends /\ [Next]_vars => backend' = backend
BY DEF Next, vars, libraryVars, Receive, SplitOn, Embed, Delete, Upsert, RemoveDocument,
       Search, List, GetDocument, Feedback, Answer, Forget

LEMMA SplittingStep == backend \in Backends /\ [Next]_vars => [ChunkNext]_chunkVars
<1> SUFFICES ASSUME backend \in Backends, [Next]_vars PROVE [ChunkNext]_chunkVars
  OBVIOUS
<1>1. ASSUME NEW r \in backend, NEW available, Receive(r, available)
      PROVE  [ChunkNext]_chunkVars
  <2>1. r.text \in Texts
    <3>1. r \in Requests
      BY DEF Requests
    <3>2. QED BY <3>1, RequestFacts
  <2>2. UNCHANGED chunkVars \/ Split(r.text)
    BY <1>1 DEF Receive
  <2>3. QED BY <2>1, <2>2 DEF ChunkNext
<1>2. CASE SplitOn
  BY <1>2 DEF SplitOn, ChunkNext
<1>3. QED
  BY <1>1, <1>2 DEF Next, vars, Embed, Delete, Upsert, RemoveDocument,
       Search, List, GetDocument, Feedback, Answer, Forget

\* The library splits its texts as the chunker does: what is proved of the chunker holds here.
THEOREM SplitsAsChunker == Spec => ChunkSpec
<1>1. LibraryInit => ChunkInit /\ backend \in Backends
  BY DEF LibraryInit
<1>2. backend \in Backends /\ [Next]_vars => (backend \in Backends)'
  BY BackendKept
<1>3. QED BY <1>1, <1>2, SplittingStep, PTL DEF Spec, ChunkSpec
-----------------------------------------------------------------------------
LEMMA HoldsFacts ==
    ASSUME NEW d \in Docs, StoredWell(d), NEW p \in Holds(d)
    PROVE  /\ p.sourceId = {d}
           /\ stored[d].request \in Requests /\ stored[d].request.doc = d
           /\ \E i \in DOMAIN stored[d].chunks :
                 p = Payload(stored[d].request, i, stored[d].chunks[i])
<1>1. PICK i \in DOMAIN stored[d].chunks : p = Payload(stored[d].request, i, stored[d].chunks[i])
  BY DEF Holds
<1>2. stored[d] # NotStored
  BY <1>1 DEF NotStored
<1>3. QED BY <1>1, <1>2, PayloadFacts DEF StoredWell

LEMMA HoldsNothing ==
    ASSUME NEW d \in Docs, stored[d] = NotStored
    PROVE  Holds(d) = {} /\ StoredWell(d) /\ ~IsStored(d)
BY DEF Holds, NotStored, StoredWell, IsStored

\* Deleting takes all that a document has, and nothing else.
LEMMA Removing ==
    ASSUME LibraryInv, NEW d \in Docs, points' = points \ PointsOf(d),
           stored' = [stored EXCEPT ![d] = NotStored]
    PROVE  /\ stored' \in [Docs -> [request : Requests \cup {NoRequest}, chunks : Seq(Chunk)]]
           /\ (\A e \in Docs : StoredWell(e))'
           /\ (points = UNION {Holds(e) : e \in Docs})'
           /\ stored'[d] = NotStored
<1>1. stored \in [Docs -> [request : Requests \cup {NoRequest}, chunks : Seq(Chunk)]]
  BY DEF LibraryInv, WorkflowOK
<1>2. stored'[d] = NotStored /\ \A e \in Docs : e # d => stored'[e] = stored[e]
  BY <1>1
<1>3. NotStored \in [request : Requests \cup {NoRequest}, chunks : Seq(Chunk)]
  BY DEF NotStored
<1>4. stored' \in [Docs -> [request : Requests \cup {NoRequest}, chunks : Seq(Chunk)]]
  BY <1>1, <1>3
<1>5. Holds(d)' = {} /\ StoredWell(d)'
  BY <1>2 DEF Holds, StoredWell, NotStored
<1>6. ASSUME NEW e \in Docs, e # d
      PROVE  Holds(e)' = Holds(e) /\ (StoredWell(e) => StoredWell(e)')
  BY <1>2, <1>6 DEF Holds, StoredWell, NotStored
<1>7. \A e \in Docs : \A p \in Holds(e) : p.sourceId = {e}
  BY HoldsFacts DEF LibraryInv
<1>8. points' = UNION {Holds(e)' : e \in Docs}
  <2>1. \A p : p \in points' <=> \E e \in Docs : e # d /\ p \in Holds(e)
    BY <1>7 DEF LibraryInv, PointsOf
  <2>2. \A p : p \in UNION {Holds(e)' : e \in Docs} <=> \E e \in Docs : e # d /\ p \in Holds(e)
    BY <1>5, <1>6
  <2>3. QED BY <2>1, <2>2
<1>9. QED BY <1>2, <1>4, <1>5, <1>6, <1>8 DEF LibraryInv

LEMMA Storing ==
    ASSUME LibraryInv, Filled, chunks \in Seq(Chunk), chunks # <<>>, request \in Requests,
           stored[request.doc] = NotStored,
           points' = points \cup {Payload(request, i, chunks[i]) : i \in DOMAIN chunks},
           stored' = [stored EXCEPT ![request.doc] = [request |-> request, chunks |-> chunks]]
    PROVE  /\ stored' \in [Docs -> [request : Requests \cup {NoRequest}, chunks : Seq(Chunk)]]
           /\ (\A e \in Docs : StoredWell(e))'
           /\ (points = UNION {Holds(e) : e \in Docs})'
<1>1. stored \in [Docs -> [request : Requests \cup {NoRequest}, chunks : Seq(Chunk)]]
  BY DEF LibraryInv, WorkflowOK
<1>2. request.doc \in Docs
  BY RequestFacts
<1>3. PICK d \in Docs : d = request.doc
  BY <1>2
<1>4. /\ stored'[d] = [request |-> request, chunks |-> chunks]
      /\ \A e \in Docs : e # d => stored'[e] = stored[e]
  BY <1>1, <1>3
<1>5. stored' \in [Docs -> [request : Requests \cup {NoRequest}, chunks : Seq(Chunk)]]
  BY <1>1, <1>3
<1>6. /\ Holds(d)' = {Payload(request, i, chunks[i]) : i \in DOMAIN chunks}
      /\ Holds(d) = {} /\ StoredWell(d)'
  <2>1. stored'[d].request = request /\ stored'[d].chunks = chunks
    BY <1>4
  <2>2. StoredWell(d)'
    BY <1>3, <2>1 DEF StoredWell, Filled
  <2>3. Holds(d) = {}
    BY <1>3, HoldsNothing
  <2>4. Holds(d)' = {Payload(request, i, chunks[i]) : i \in DOMAIN chunks}
    BY <2>1 DEF Holds, Payload
  <2>5. QED BY <2>2, <2>3, <2>4
<1>7. ASSUME NEW e \in Docs, e # d
      PROVE  Holds(e)' = Holds(e) /\ (StoredWell(e) => StoredWell(e)')
  BY <1>4, <1>7 DEF Holds, StoredWell, NotStored
<1>8. points' = UNION {Holds(e)' : e \in Docs}
  <2>1. \A p : p \in points' <=> p \in Holds(d)' \/ \E e \in Docs : e # d /\ p \in Holds(e)
    BY <1>6 DEF LibraryInv
  <2>2. \A p : p \in UNION {Holds(e)' : e \in Docs}
                 <=> p \in Holds(d)' \/ \E e \in Docs : e # d /\ p \in Holds(e)
    BY <1>7
  <2>3. QED BY <2>1, <2>2
<1>9. QED BY <1>5, <1>6, <1>7, <1>8 DEF LibraryInv

LEMMA LibraryInitially == LibraryInit => LibraryInv
<1> SUFFICES ASSUME LibraryInit PROVE LibraryInv
  OBVIOUS
<1>1. \A d \in Docs : Holds(d) = {} /\ StoredWell(d)
  BY HoldsNothing DEF LibraryInit
<1>2. points = UNION {Holds(d) : d \in Docs}
  BY <1>1 DEF LibraryInit
<1>3. WorkflowOK
  BY DEF LibraryInit, WorkflowOK, Indexed, NotStored
<1>4. QED BY <1>1, <1>2, <1>3 DEF LibraryInit, LibraryInv

\* Steps that leave the documents alone.
LEMMA DocumentsStay ==
    ASSUME LibraryInv, UNCHANGED <<points, stored>>
    PROVE  (\A d \in Docs : StoredWell(d))' /\ (points = UNION {Holds(d) : d \in Docs})'
<1>1. \A d \in Docs : Holds(d)' = Holds(d) /\ StoredWell(d)' = StoredWell(d)
  BY DEF Holds, StoredWell
<1>2. QED BY <1>1 DEF LibraryInv

LEMMA Outcomes ==
    /\ Indexed \in [ok : BOOLEAN, retryable : BOOLEAN]
    /\ \A retryable \in BOOLEAN : Failed(retryable) \in [ok : BOOLEAN, retryable : BOOLEAN]
BY DEF Indexed, Failed

\* What Qdrant answers: only what it has applied can be a success.
LEMMA QdrantOutcomes ==
    ASSUME NEW answer \in QdrantAnswers
    PROVE  /\ answer.outcome \in [ok : BOOLEAN, retryable : BOOLEAN]
           /\ ~answer.applied => ~answer.outcome.ok
<1>1. /\ Indexed \in [ok : BOOLEAN, retryable : BOOLEAN]
      /\ \A retryable \in BOOLEAN : /\ Failed(retryable) \in [ok : BOOLEAN, retryable : BOOLEAN]
                                    /\ ~Failed(retryable).ok
  BY DEF Indexed, Failed
<1>2. CASE answer.applied /\ answer.outcome \in {Indexed, Failed(TRUE)}
  BY <1>1, <1>2
<1>3. CASE ~answer.applied /\ answer.outcome \in {Failed(TRUE), Failed(FALSE)}
  BY <1>1, <1>3
<1>4. QED BY <1>2, <1>3 DEF QdrantAnswers

LEMMA LibraryStep == LibraryInv /\ ChunkInv /\ Filled /\ [Next]_vars => LibraryInv'
<1> SUFFICES ASSUME LibraryInv, ChunkInv, Filled, [Next]_vars PROVE LibraryInv'
  OBVIOUS
<1>1. WorkflowOK /\ backend' = backend
  BY BackendKept DEF LibraryInv, WorkflowOK
<1>2. ASSUME NEW f, f \in [ok : BOOLEAN, retryable : BOOLEAN], End(f), UNCHANGED <<points, stored>>
      PROVE  LibraryInv'
  BY <1>1, <1>2, DocumentsStay DEF LibraryInv, WorkflowOK, End
<1>3. ASSUME NEW r \in backend, NEW available, Receive(r, available)
      PROVE  LibraryInv'
  <2>1. r \in Requests /\ r # NoRequest
    BY <1>1, RequestFacts DEF WorkflowOK, Requests
  <2>2. \A f \in ResolveFails(r, available) : f \in [ok : BOOLEAN, retryable : BOOLEAN]
    BY Outcomes DEF ResolveFails
  <2>3. CASE \E f \in [ok : BOOLEAN, retryable : BOOLEAN] : End(f)
    BY <1>2, <1>3, <2>3 DEF Receive
  <2>4. CASE stage' = "splitting" /\ request' = r /\ UNCHANGED <<result, points, stored>>
    BY <1>1, <2>1, <2>4, DocumentsStay DEF LibraryInv, WorkflowOK
  <2>5. UNCHANGED <<points, stored>>
    BY <1>3 DEF Receive
  <2>6. QED BY <1>3, <2>2, <2>3, <2>4, <2>5, Outcomes DEF Receive
<1>4. CASE SplitOn
  <2>1. UNCHANGED <<backend, stage, request, result, points, stored>> /\ stage = "splitting"
    BY <1>4 DEF SplitOn, libraryVars
  <2>2. QED BY <1>1, <2>1, DocumentsStay DEF LibraryInv, WorkflowOK
<1>5. ASSUME NEW answer, Embed(answer)
      PROVE  LibraryInv'
  <2>1. UNCHANGED <<points, stored, chunks>> /\ stage = "splitting"
    BY <1>5 DEF Embed, chunkVars
  <2>2. CASE EmbeddingFails(answer, Len(chunks)) # {}
    <3>1. \A f \in EmbeddingFails(answer, Len(chunks)) : f \in [ok : BOOLEAN, retryable : BOOLEAN]
      BY Outcomes DEF EmbeddingFails
    <3>2. QED BY <1>2, <1>5, <2>1, <2>2, <3>1 DEF Embed
  <2>3. CASE EmbeddingFails(answer, Len(chunks)) = {}
    <3>1. stage' = "deleting" /\ UNCHANGED <<request, result>>
      BY <1>5, <2>3 DEF Embed
    <3>2. chunks # <<>>
      <4>1. Len(chunks) # 0
        BY <2>3 DEF EmbeddingFails
      <4>2. QED BY <4>1
    <3>3. QED BY <1>1, <2>1, <3>1, <3>2, DocumentsStay DEF LibraryInv, WorkflowOK
  <2>4. QED BY <2>2, <2>3
<1>6. ASSUME NEW answer \in QdrantAnswers, Delete(answer)
      PROVE  LibraryInv'
  <2>1. /\ stage = "deleting" /\ UNCHANGED chunks
        /\ \/ stage' = "upserting" /\ UNCHANGED <<request, result>>
           \/ End(answer.outcome)
    BY <1>6 DEF Delete, chunkVars
  <2>2. request \in Requests /\ request.doc \in Docs
    BY <1>1, <2>1, RequestFacts DEF WorkflowOK
  <2>3. answer.outcome \in [ok : BOOLEAN, retryable : BOOLEAN]
    BY <1>6, QdrantOutcomes
  <2>4. CASE answer.applied
    <3>1. /\ points' = points \ PointsOf(request.doc)
          /\ stored' = [stored EXCEPT ![request.doc] = NotStored]
      BY <1>6, <2>4 DEF Delete
    <3>2. /\ stored' \in [Docs -> [request : Requests \cup {NoRequest}, chunks : Seq(Chunk)]]
          /\ (\A e \in Docs : StoredWell(e))'
          /\ (points = UNION {Holds(e) : e \in Docs})'
          /\ stored'[request.doc] = NotStored
      BY <2>2, <3>1, Removing
    <3>3. QED BY <1>1, <2>1, <2>3, <3>2 DEF LibraryInv, WorkflowOK, End
  <2>5. CASE ~answer.applied
    <3>1. UNCHANGED <<points, stored>> /\ ~answer.outcome.ok
      BY <1>6, <2>5, QdrantOutcomes DEF Delete
    <3>2. End(answer.outcome)
      BY <1>6, <3>1 DEF Delete
    <3>3. QED BY <1>2, <2>3, <3>1, <3>2
  <2>6. QED BY <2>4, <2>5
<1>7. ASSUME NEW answer \in QdrantAnswers, Upsert(answer)
      PROVE  LibraryInv'
  <2>1. stage = "upserting" /\ End(answer.outcome)
    BY <1>7 DEF Upsert
  <2>2. answer.outcome \in [ok : BOOLEAN, retryable : BOOLEAN]
    BY <1>7, QdrantOutcomes
  <2>3. CASE answer.applied
    <3>1. /\ points' = points \cup {Payload(request, i, chunks[i]) : i \in DOMAIN chunks}
          /\ stored' = [stored EXCEPT ![request.doc] = [request |-> request, chunks |-> chunks]]
      BY <1>7, <2>3 DEF Upsert
    <3>2. /\ request \in Requests /\ chunks # <<>> /\ stored[request.doc] = NotStored
          /\ chunks \in Seq(Chunk)
      BY <1>1, <2>1 DEF LibraryInv, WorkflowOK, ChunkInv, ChunkTypeOK
    <3>3. QED BY <1>1, <2>1, <2>2, <3>1, <3>2, Storing DEF LibraryInv, WorkflowOK, End
  <2>4. CASE ~answer.applied
    <3>1. UNCHANGED <<points, stored>>
      BY <1>7, <2>4 DEF Upsert
    <3>2. QED BY <1>2, <2>1, <2>2, <3>1
  <2>5. QED BY <2>3, <2>4
<1>8. ASSUME NEW d \in Docs, RemoveDocument(d)
      PROVE  LibraryInv'
  <2>1. /\ stage = "idle" /\ UNCHANGED <<stage, request, result>>
        /\ points' = points \ PointsOf(d) /\ stored' = [stored EXCEPT ![d] = NotStored]
    BY <1>8 DEF RemoveDocument
  <2>2. QED BY <1>1, <2>1, Removing DEF LibraryInv, WorkflowOK
\* Readers and standing still.
<1>9. ASSUME UNCHANGED <<chunkVars, backend, stage, request, result, points, stored>>
      PROVE  LibraryInv'
  BY <1>1, <1>9, DocumentsStay DEF LibraryInv, WorkflowOK, chunkVars
<1>10. QED BY <1>3, <1>4, <1>5, <1>6, <1>7, <1>8, <1>9
           DEF Next, vars, libraryVars, Search, List, GetDocument, Feedback, Answer, Forget

LEMMA LibraryInvariant == Spec => [](LibraryInv /\ ChunkInv /\ KeepInv /\ Filled)
<1>1. LibraryInit => LibraryInv /\ ChunkInv /\ KeepInv /\ Filled
  BY LibraryInitially, RemainsInit, FilledInit, InitKeeps DEF LibraryInit
<1>2. LibraryInv /\ ChunkInv /\ KeepInv /\ Filled /\ [Next]_vars
         => (LibraryInv /\ ChunkInv /\ KeepInv /\ Filled)'
  <2> SUFFICES ASSUME LibraryInv, ChunkInv, KeepInv, Filled, [Next]_vars
               PROVE  (LibraryInv /\ ChunkInv /\ KeepInv /\ Filled)'
    OBVIOUS
  <2>1. [ChunkNext]_chunkVars
    BY SplittingStep DEF LibraryInv, WorkflowOK
  <2>2. QED BY <2>1, LibraryStep, StepKeeps, RemainsStep, FilledStep
<1>3. QED BY <1>1, <1>2, PTL DEF Spec

\* The state of the workflow, the collection and the history keeps its types, and every point
\* is the payload of some request.
THEOREM TypeCorrect == Spec => []TypeOK
<1>1. LibraryInv /\ ChunkInv => TypeOK
  <2> SUFFICES ASSUME LibraryInv, ChunkInv,
                      NEW p \in points
               PROVE  \E r \in Requests : p = Payload(r, p.chunkIndex, p.content)
    BY DEF LibraryInv, WorkflowOK, ChunkInv, TypeOK
  <2>1. PICK d \in Docs : p \in Holds(d)
    BY DEF LibraryInv
  <2>2. PICK i \in DOMAIN stored[d].chunks : p = Payload(stored[d].request, i, stored[d].chunks[i])
    BY <2>1, HoldsFacts DEF LibraryInv
  <2>3. stored[d].request \in Requests
    BY <2>1, HoldsFacts DEF LibraryInv
  <2>4. p.chunkIndex = i /\ p.content = stored[d].chunks[i]
    BY <2>2, PayloadFacts
  <2>5. QED BY <2>2, <2>3, <2>4
<1>2. QED BY LibraryInvariant, <1>1, PTL
-----------------------------------------------------------------------------
\* What a point says of its document.
LEMMA PointFacts ==
    ASSUME LibraryInv, NEW p \in points
    PROVE  \E d \in Docs : \E i \in DOMAIN stored[d].chunks :
              /\ p = Payload(stored[d].request, i, stored[d].chunks[i])
              /\ p.sourceId = {d} /\ IsStored(d)
              /\ stored[d].request \in Requests /\ stored[d].request.doc = d
<1>1. PICK d \in Docs : p \in Holds(d)
  BY DEF LibraryInv
<1>2. /\ p.sourceId = {d}
      /\ stored[d].request \in Requests /\ stored[d].request.doc = d
      /\ \E i \in DOMAIN stored[d].chunks :
            p = Payload(stored[d].request, i, stored[d].chunks[i])
  BY <1>1, HoldsFacts DEF LibraryInv
<1>3. IsStored(d)
  BY <1>2, RequestFacts DEF IsStored
<1>4. QED BY <1>2, <1>3

\* A stored document has a point, which says where it belongs.
LEMMA DocumentFacts ==
    ASSUME LibraryInv, NEW d \in Docs, IsStored(d)
    PROVE  /\ stored[d].request \in Requests /\ stored[d].request.doc = d
           /\ stored[d].chunks \in Seq(Chunk) /\ stored[d].chunks # <<>>
           /\ \A i \in DOMAIN stored[d].chunks : stored[d].chunks[i].length > 0
           /\ Holds(d) \subseteq points /\ Holds(d) # {}
<1>1. stored[d] # NotStored
  BY DEF IsStored, NotStored
<1>2. /\ stored[d].request \in Requests /\ stored[d].request.doc = d
      /\ stored[d].chunks \in Seq(Chunk) /\ stored[d].chunks # <<>>
      /\ \A i \in DOMAIN stored[d].chunks : stored[d].chunks[i].length > 0
  BY <1>1 DEF LibraryInv, StoredWell
<1>3. 1 \in DOMAIN stored[d].chunks
  BY <1>2
<1>4. Holds(d) # {}
  BY <1>3 DEF Holds
<1>5. QED BY <1>2, <1>4 DEF LibraryInv

\* build_chat_access_filter admits the points of what the user may see, of the types asked for.
LEMMA AccessFilterFacts ==
    ASSUME NEW command, NEW types, NEW r, NEW i, NEW c
    PROVE  LET p == Payload(r, i, c) IN
           (\A clause \in AccessFilter(command, types) : \E cond \in clause : Meets(p, cond))
              <=> /\ MaySee(command, r)
                  /\ types # {} => ChatSourceType(r.type) \in types
<1> DEFINE p == Payload(r, i, c)
           personal == {Condition("ownerUserId", {command.user}),
                        Condition("allowedUserIds", {command.user})}
           shared == {Condition("workspaceId", command.workspaces),
                      Condition("sharedWorkspaceIds", command.workspaces)}
           who == IF command.workspaces = {} THEN personal ELSE personal \cup shared
           what == {Condition("sourceType", types)}
<1>1. /\ Meets(p, Condition("ownerUserId", {command.user})) <=> command.user = r.owner
      /\ Meets(p, Condition("allowedUserIds", {command.user})) <=> command.user \in r.users
      /\ ~Meets(p, Condition("workspaceId", command.workspaces))
      /\ Meets(p, Condition("sharedWorkspaceIds", command.workspaces))
            <=> command.workspaces \cap r.workspaces # {}
      /\ Meets(p, Condition("sourceType", types)) <=> ChatSourceType(r.type) \in types
  BY DEF Meets, Condition, Payload
<1> HIDE DEF p
<1>2. (\E cond \in who : Meets(p, cond)) <=> MaySee(command, r)
  BY <1>1 DEF MaySee
<1>3. (\E cond \in what : Meets(p, cond)) <=> ChatSourceType(r.type) \in types
  BY <1>1
<1>4. AccessFilter(command, types) = {who} \cup (IF types = {} THEN {} ELSE {what})
  BY DEF AccessFilter
<1> HIDE DEF who, what
<1>5. QED BY <1>2, <1>3, <1>4 DEF p

LEMMA MatchingFacts ==
    ASSUME LibraryInv, NEW command, NEW types, NEW p
    PROVE  p \in Matching(AccessFilter(command, types)) <=>
              \E d \in Docs : \E i \in DOMAIN stored[d].chunks :
                 /\ p = Payload(stored[d].request, i, stored[d].chunks[i])
                 /\ IsStored(d) /\ p.sourceId = {d}
                 /\ MaySee(command, stored[d].request)
                 /\ types # {} => ChatSourceType(stored[d].request.type) \in types
<1>1. ASSUME p \in Matching(AccessFilter(command, types))
      PROVE  \E d \in Docs : \E i \in DOMAIN stored[d].chunks :
                 /\ p = Payload(stored[d].request, i, stored[d].chunks[i])
                 /\ IsStored(d) /\ p.sourceId = {d}
                 /\ MaySee(command, stored[d].request)
                 /\ types # {} => ChatSourceType(stored[d].request.type) \in types
  <2>1. p \in points
    BY <1>1 DEF Matching
  <2>2. PICK d \in Docs : \E i \in DOMAIN stored[d].chunks :
              /\ p = Payload(stored[d].request, i, stored[d].chunks[i])
              /\ p.sourceId = {d} /\ IsStored(d)
    BY <2>1, PointFacts
  <2>3. PICK i \in DOMAIN stored[d].chunks : p = Payload(stored[d].request, i, stored[d].chunks[i])
    BY <2>2
  <2>4. QED BY <1>1, <2>2, <2>3, AccessFilterFacts DEF Matching
<1>2. ASSUME NEW d \in Docs, NEW i \in DOMAIN stored[d].chunks,
             p = Payload(stored[d].request, i, stored[d].chunks[i]),
             IsStored(d), MaySee(command, stored[d].request),
             types # {} => ChatSourceType(stored[d].request.type) \in types
      PROVE  p \in Matching(AccessFilter(command, types))
  <2>1. p \in points
    BY <1>2, DocumentFacts DEF Holds
  <2>2. QED BY <1>2, <2>1, AccessFilterFacts DEF Matching
<1>3. QED BY <1>1, <1>2

\* The document of a point is found again by its id.
LEMMA ChosenDocument ==
    ASSUME NEW d \in Docs, NEW p, p.sourceId = {d}
    PROVE  (CHOOSE e \in Docs : e \in p.sourceId) = d
BY Zenon

LEMMA SearchFinds ==
    ASSUME LibraryInv, NEW command, NEW types, NEW hits, Search(command, types, hits)
    PROVE  OnlyAskedFor'
<1> DEFINE found == [i \in DOMAIN hits |-> CHOOSE d \in Docs : d \in hits[i].sourceId]
<1>1. /\ reply' = [op |-> "search", command |-> command, types |-> types, found |-> found]
      /\ stored' = stored
      /\ \A i \in DOMAIN hits : hits[i] \in Matching(AccessFilter(command, types))
  BY DEF Search, Answer, Readable
<1>2. ASSUME NEW i \in DOMAIN found
      PROVE  /\ IsStored(found[i]) /\ MaySee(command, stored[found[i]].request)
             /\ types # {} => ChatSourceType(stored[found[i]].request.type) \in types
  <2>1. PICK d \in Docs : /\ IsStored(d) /\ hits[i].sourceId = {d}
                          /\ MaySee(command, stored[d].request)
                          /\ types # {} => ChatSourceType(stored[d].request.type) \in types
    BY <1>1, <1>2, MatchingFacts
  <2>2. found[i] = d
    BY <1>2, <2>1, ChosenDocument
  <2>3. QED BY <2>1, <2>2
<1> HIDE DEF found
<1>3. /\ reply'.op = "search" /\ reply'.command = command /\ reply'.types = types
      /\ reply'.found = found
  BY <1>1
<1>4. QED BY <1>1, <1>2, <1>3 DEF OnlyAskedFor, AskedFor, IsStored
-----------------------------------------------------------------------------
LEMMA IntervalFacts ==
    ASSUME NEW n \in Nat
    PROVE  IsFiniteSet(1..n) /\ Cardinality(1..n) = n
<1>1. 1 \in Int /\ n \in Int
  OBVIOUS
<1>2. /\ IsFiniteSet(1..n)
      /\ Cardinality(1..n) = IF 1 > n THEN 0 ELSE n - 1 + 1
  BY <1>1, FS_Interval, Zenon
<1>3. QED BY <1>2

LEMMA MinFacts ==
    ASSUME NEW a \in Int, NEW b \in Int
    PROVE  /\ Min({a, b}) \in {a, b} /\ Min({a, b}) <= a /\ Min({a, b}) <= b
<1>1. \E x \in {a, b} : \A y \in {a, b} : x <= y
  <2>1. a <= b \/ b <= a
    OBVIOUS
  <2>2. a <= a /\ b <= b
    OBVIOUS
  <2>3. QED BY <2>1, <2>2
<1>2. QED BY <1>1 DEF Min

LEMMA PrefixFacts ==
    ASSUME NEW S, NEW list \in Seq(S), NEW n \in 0..Len(list)
    PROVE  /\ SubSeq(list, 1, n) \in Seq(S) /\ Len(SubSeq(list, 1, n)) = n
           /\ \A i \in DOMAIN SubSeq(list, 1, n) :
                 i \in DOMAIN list /\ SubSeq(list, 1, n)[i] = list[i]
           /\ n = Len(list) => SubSeq(list, 1, n) = list
OBVIOUS

LEMMA PageFacts ==
    ASSUME NEW matching, NEW page \in Pages(matching)
    PROVE  page \subseteq matching
BY DEF Pages, kSubset

\* The bounds of _parse_day_bound are those of the days in Korea.
LEMMA PeriodFacts ==
    ASSUME NEW period \in Periods, NEW p, NEW hour \in Nat, p.createdAt = hour
    PROVE  CreatedWithin(p, period) <=> InPeriod(hour, period)
<1>1. period.after.at \in Int /\ period.before.at \in Int /\ KstOffset \in Int
  BY ReadersAssumption
<1> DEFINE a == period.after.at
           b == period.before.at
<1>2. hour >= 24 * (a + 0) - KstOffset <=> (hour + KstOffset) \div 24 >= a
  BY <1>1
<1>3. hour < 24 * (b + 1) - KstOffset <=> (hour + KstOffset) \div 24 <= b
  BY <1>1
<1>4. IsBound(period.after) =>
         (p.createdAt >= DayBound(period.after, FALSE) <=>
            /\ period.after.kind = "day" => KstDay(hour) >= period.after.at
            /\ period.after.kind \in {"instant", "spaced"} => hour >= period.after.at)
  BY <1>1, <1>2 DEF IsBound, DayBound, BoundStart, KstDay
<1>5. IsBound(period.before) =>
         (p.createdAt < DayBound(period.before, TRUE) <=>
            /\ period.before.kind = "day" => KstDay(hour) <= period.before.at
            /\ period.before.kind = "instant" => hour < period.before.at
            /\ period.before.kind = "spaced" => hour < period.before.at + 24)
  BY <1>1, <1>3 DEF IsBound, DayBound, BoundStart, KstDay
<1>6. QED BY <1>4, <1>5 DEF CreatedWithin, InPeriod, IsBound

\* The documents of the rows are those that were asked for.
LEMMA RowsFacts ==
    ASSUME LibraryInv, NEW command, NEW types, NEW period \in Periods,
           NEW page, page \subseteq Matching(AccessFilter(command, types)), NEW d,
           \E p \in Readable(page) : CreatedWithin(p, period) /\ d \in p.sourceId
    PROVE  /\ d \in Docs /\ IsStored(d) /\ MaySee(command, stored[d].request)
           /\ types # {} => ChatSourceType(stored[d].request.type) \in types
           /\ InPeriod(stored[d].request.created, period) /\ ~stored[d].request.longTitle
<1>1. PICK p \in page : CreatedWithin(p, period) /\ d \in p.sourceId /\ ~p.longTitle
  BY DEF Readable
<1>2. PICK e \in Docs : \E i \in DOMAIN stored[e].chunks :
                 /\ p = Payload(stored[e].request, i, stored[e].chunks[i])
                 /\ IsStored(e) /\ p.sourceId = {e}
                 /\ MaySee(command, stored[e].request)
                 /\ types # {} => ChatSourceType(stored[e].request.type) \in types
  BY <1>1, MatchingFacts
<1>3. e = d
  BY <1>1, <1>2
<1>4. p.createdAt = stored[d].request.created /\ p.longTitle = stored[d].request.longTitle
  BY <1>2, <1>3, PayloadFacts
<1>5. stored[d].request.created \in Nat
  BY <1>2, <1>3, DocumentFacts, RequestFacts
<1>6. InPeriod(stored[d].request.created, period)
  BY <1>1, <1>4, <1>5, PeriodFacts
<1>7. QED BY <1>1, <1>2, <1>3, <1>4, <1>6

LEMMA RowsComplete ==
    ASSUME LibraryInv, NEW command, NEW types, NEW period \in Periods,
           NEW d \in Docs, IsStored(d), MaySee(command, stored[d].request),
           types # {} => ChatSourceType(stored[d].request.type) \in types,
           InPeriod(stored[d].request.created, period), ~stored[d].request.longTitle
    PROVE  \E p \in Readable(Matching(AccessFilter(command, types))) :
              CreatedWithin(p, period) /\ d \in p.sourceId
<1>1. stored[d].request \in Requests /\ stored[d].chunks \in Seq(Chunk) /\ stored[d].chunks # <<>>
      /\ stored[d].request.doc = d
  BY DocumentFacts
<1>2. 1 \in DOMAIN stored[d].chunks
  BY <1>1
<1> DEFINE p == Payload(stored[d].request, 1, stored[d].chunks[1])
<1>3. /\ p.createdAt = stored[d].request.created /\ p.longTitle = stored[d].request.longTitle
      /\ p.sourceId = {d}
  BY <1>1, PayloadFacts
<1> HIDE DEF p
<1>4. p \in Matching(AccessFilter(command, types))
  BY <1>2, <1>3, MatchingFacts DEF p
<1>5. CreatedWithin(p, period)
  BY <1>1, <1>3, PeriodFacts, RequestFacts
<1>6. QED BY <1>3, <1>4, <1>5 DEF Readable

\* A list without repetitions is as long as the set of what is on it.
LEMMA ListLength ==
    ASSUME NEW S, NEW list \in Seq(S),
           \A i, j \in DOMAIN list : i < j => list[i] # list[j]
    PROVE  Cardinality({list[i] : i \in DOMAIN list}) = Len(list)
<1> DEFINE T == {list[i] : i \in DOMAIN list}
<1>1. DOMAIN list = 1..Len(list) /\ Len(list) \in Nat
  OBVIOUS
<1>2. IsFiniteSet(1..Len(list)) /\ Cardinality(1..Len(list)) = Len(list)
  BY <1>1, IntervalFacts
<1>3. list \in Surjection(1..Len(list), T)
  BY <1>1 DEF Surjection
<1>4. list \in Injection(1..Len(list), T)
  <2>1. \A i, j \in DOMAIN list : list[i] = list[j] => i = j
    BY <1>1
  <2>2. QED BY <1>1, <2>1 DEF Injection, IsInjective
<1> HIDE DEF T
<1>5. Cardinality(T) = Cardinality(1..Len(list))
  BY <1>2, <1>3, <1>4, FS_Surjection
<1>6. QED BY <1>2, <1>5 DEF T

LEMMA ListFinds ==
    ASSUME LibraryInv, NEW command, NEW types, NEW period \in Periods,
           NEW page \in Pages(Matching(AccessFilter(command, types))),
           NEW list \in SeqOf(Docs, Cardinality(Docs)), List(command, types, period, page, list)
    PROVE  OnlyAskedFor' /\ ListingComplete'
<1> DEFINE found == SubSeq(list, 1, Min({ListLimit, Len(list)}))
           rows == {p \in Readable(page) : CreatedWithin(p, period)}
           matching == Matching(AccessFilter(command, types))
           Wanted(d) == /\ IsStored(d) /\ MaySee(command, stored[d].request)
                        /\ types # {} => ChatSourceType(stored[d].request.type) \in types
                        /\ InPeriod(stored[d].request.created, period)
<1>1. /\ reply' = [op |-> "list", command |-> command, types |-> types, period |-> period,
                   capped |-> page # matching, count |-> Len(list), found |-> found]
      /\ stored' = stored /\ IsRecent(list, rows)
  BY DEF List, Answer
<1>2. list \in Seq(Docs)
  BY DEF SeqOf
<1>3. /\ {list[i] : i \in DOMAIN list} = UNION {p.sourceId : p \in rows}
      /\ \A i, j \in DOMAIN list : i < j => list[i] # list[j]
  BY <1>1 DEF IsRecent
<1>4. page \subseteq matching
  BY PageFacts
<1>5. ASSUME NEW d \in UNION {p.sourceId : p \in rows}
      PROVE  d \in Docs /\ Wanted(d) /\ ~stored[d].request.longTitle
  <2>1. \E p \in Readable(page) : CreatedWithin(p, period) /\ d \in p.sourceId
    BY <1>5
  <2>2. QED BY <1>4, <2>1, RowsFacts
<1>6. ASSUME page = matching, NEW d \in Docs, Wanted(d), ~stored[d].request.longTitle
      PROVE  d \in UNION {p.sourceId : p \in rows}
  BY <1>6, RowsComplete
<1>7. /\ \A i \in DOMAIN found : i \in DOMAIN list /\ found[i] = list[i]
      /\ Len(list) <= ListLimit => found = list
  <2>1. ListLimit \in Nat /\ Len(list) \in Nat
    BY <1>2, ReadersAssumption
  <2>2. PICK n : n = Min({ListLimit, Len(list)})
    OBVIOUS
  <2>3. n \in {ListLimit, Len(list)} /\ n <= ListLimit /\ n <= Len(list)
    <3>1. ListLimit \in Int /\ Len(list) \in Int
      BY <2>1
    <3>2. QED BY <2>2, <3>1, MinFacts, Zenon
  <2>4. n \in 0..Len(list) /\ (Len(list) <= ListLimit => n = Len(list))
    BY <2>1, <2>3
  <2>5. found = SubSeq(list, 1, n)
    BY <2>2
  <2> HIDE DEF found
  <2>6. /\ \A i \in DOMAIN SubSeq(list, 1, n) :
              i \in DOMAIN list /\ SubSeq(list, 1, n)[i] = list[i]
        /\ n = Len(list) => SubSeq(list, 1, n) = list
    BY <1>2, <2>4, PrefixFacts
  <2>7. QED BY <2>4, <2>5, <2>6
<1> HIDE DEF found, rows, matching
<1>8. /\ reply'.op = "list" /\ reply'.command = command /\ reply'.types = types
      /\ reply'.period = period /\ reply'.capped = (page # matching)
      /\ reply'.count = Len(list) /\ reply'.found = found
  BY <1>1
<1>9. \A d : AskedFor(stored[d].request)' /\ IsStored(d)' <=> Wanted(d)
  BY <1>1, <1>8 DEF AskedFor, IsStored
<1>10. OnlyAskedFor'
  <2>1. \A i \in DOMAIN found : Wanted(found[i])
    BY <1>3, <1>5, <1>7
  <2> HIDE DEF Wanted
  <2>2. \A i \in DOMAIN found : IsStored(found[i])' /\ AskedFor(stored[found[i]].request)'
    BY <1>9, <2>1
  <2>3. QED BY <1>8, <2>2 DEF OnlyAskedFor
<1>11. ListingComplete'
  <2> DEFINE all == {d \in Docs : Wanted(d) /\ ~stored[d].request.longTitle}
  <2>1. ASSUME page = matching
        PROVE  /\ Len(list) = Cardinality(all)
               /\ Len(list) <= ListLimit => all \subseteq {found[i] : i \in DOMAIN found}
    <3>1. all = {list[i] : i \in DOMAIN list}
      BY <1>3, <1>5, <1>6, <2>1
    <3> HIDE DEF all
    <3>2. QED BY <1>2, <1>3, <1>7, <3>1, ListLength
  <2>2. all = {d \in Docs : /\ IsStored(d)' /\ AskedFor(stored[d].request)'
                            /\ ~stored'[d].request.longTitle}
    BY <1>1, <1>9
  <2> HIDE DEF all, Wanted
  <2>3. QED BY <1>8, <2>1, <2>2 DEF ListingComplete
<1>12. QED BY <1>10, <1>11
-----------------------------------------------------------------------------
\* A set of natural numbers with an element has a least one.
LEMMA LeastNatural ==
    ASSUME NEW S \in SUBSET Nat, S # {}
    PROVE  \E m \in S : \A k \in S : m <= k
<1>1. PICK m \in S : \A k \in S : ~(<<k, m>> \in OpToRel(<, Nat))
  BY NatLessThanWellFounded, WFMin, Zenon
<1>2. \A k \in S : ~(k < m)
  BY <1>1, Zenon DEF OpToRel
<1>3. QED BY <1>2

\* The n-th lowest of some places is one of them.
LEMMA NthFacts ==
    ASSUME NEW m \in Nat, NEW places \in SUBSET (1..m), NEW n \in 1..Cardinality(places)
    PROVE  Nth(places, n) \in places
<1> DEFINE Below(k) == {j \in places : j <= k}
           Enough == {k \in Nat : Cardinality(Below(k)) >= n}
<1>a. \A j \in places : j \in Nat /\ 1 <= j /\ j <= m
  OBVIOUS
<1>1. IsFiniteSet(places)
  BY IntervalFacts, FS_Subset
<1>2. \A k : IsFiniteSet(Below(k)) /\ Cardinality(Below(k)) \in Nat
  <2> SUFFICES ASSUME NEW k PROVE IsFiniteSet(Below(k)) /\ Cardinality(Below(k)) \in Nat
    OBVIOUS
  <2>1. Below(k) \in SUBSET places
    OBVIOUS
  <2> HIDE DEF Below
  <2>2. QED BY <1>1, <2>1, FS_Subset, FS_CardinalityType
<1>3. m \in Enough
  <2>1. Below(m) = places
    BY <1>a
  <2>2. Cardinality(places) \in Nat
    BY <1>1, FS_CardinalityType
  <2>3. QED BY <2>1, <2>2
<1>4. PICK k \in Enough : \A l \in Enough : k <= l
  <2>1. Enough \in SUBSET Nat /\ Enough # {}
    BY <1>3
  <2> HIDE DEF Enough
  <2>2. QED BY <2>1, LeastNatural
<1>5. k \in Nat /\ Cardinality(Below(k)) >= n /\ n \in Nat /\ n >= 1
  BY <1>4
<1>6. k # 0
  <2>1. \A j \in places : ~(j <= 0)
    BY <1>a
  <2>2. Below(0) = {}
    BY <2>1
  <2> HIDE DEF Below
  <2>3. QED BY <1>5, <2>2, FS_EmptySet
<1>7. k - 1 \in Nat /\ k - 1 \notin Enough
  <2>1. k - 1 \in Nat /\ ~(k <= k - 1)
    BY <1>5, <1>6
  <2> HIDE DEF Enough
  <2>2. QED BY <1>4, <2>1
<1>8. Cardinality(Below(k - 1)) < n
  <2>1. ~(Cardinality(Below(k - 1)) >= n) /\ Cardinality(Below(k - 1)) \in Nat
    BY <1>2, <1>7
  <2> HIDE DEF Below, Enough
  <2>2. QED BY <1>5, <2>1
<1>9. Below(k) = IF k \in places THEN Below(k - 1) \cup {k} ELSE Below(k - 1)
  <2>1. \A j \in places : j <= k <=> j <= k - 1 \/ j = k
    BY <1>a, <1>5
  <2>2. QED BY <2>1
<1>10. k \notin Below(k - 1)
  BY <1>5
<1> HIDE DEF Below
<1>11. k \in places /\ Cardinality(Below(k)) = n
  <2>1. k \in places
    BY <1>2, <1>5, <1>8, <1>9
  <2>2. Cardinality(Below(k)) = Cardinality(Below(k - 1)) + 1
    BY <1>2, <1>9, <1>10, <2>1, FS_AddElement
  <2>3. QED BY <1>2, <1>5, <1>8, <2>1, <2>2
<1>12. \E i \in places : Cardinality({j \in places : j <= i}) = n
  BY <1>11 DEF Below
<1>13. QED BY <1>12 DEF Nth

\* What build_feedback_access_filter admits and must_not leaves fits the room.
LEMMA FeedbackFilterFacts ==
    ASSUME LibraryInv, NEW room, NEW p \in Matching(FeedbackFilter(room)) \cap Elsewhere(room)
    PROVE  \E d \in Docs : /\ p.sourceId = {d} /\ IsStored(d)
                           /\ FitsRoom(stored[d].request, room)
<1>1. p \in points /\ room.meeting \notin p.meetingId
      /\ \A clause \in FeedbackFilter(room) : \E cond \in clause : Meets(p, cond)
  BY DEF Matching, Elsewhere
<1>2. PICK d \in Docs : \E i \in DOMAIN stored[d].chunks :
              /\ p = Payload(stored[d].request, i, stored[d].chunks[i])
              /\ p.sourceId = {d} /\ IsStored(d)
  BY <1>1, PointFacts
<1> DEFINE r == stored[d].request
<1>3. /\ p.organizationId = r.organization /\ p.allowedUserIds = r.users
      /\ p.sourceType = {ChatSourceType(r.type)} /\ p.meetingId = r.meeting
  BY <1>2, PayloadFacts
<1> HIDE DEF r
<1>4. Meets(p, Condition("organizationId", {room.organization}))
  <2>1. {Condition("organizationId", {room.organization})} \in FeedbackFilter(room)
    BY DEF FeedbackFilter
  <2>2. QED BY <1>1, <2>1
<1>5. Meets(p, Condition("sourceType", {"MEETING_MINUTES", "MINUTES"}))
  <2>1. {Condition("sourceType", {"MEETING_MINUTES", "MINUTES"})} \in FeedbackFilter(room)
    BY DEF FeedbackFilter
  <2>2. QED BY <1>1, <2>1
<1>6. \A user \in room.participants : Meets(p, Condition("allowedUserIds", {user}))
  <2> SUFFICES ASSUME NEW user \in room.participants
               PROVE  Meets(p, Condition("allowedUserIds", {user}))
    OBVIOUS
  <2>1. {Condition("allowedUserIds", {user})} \in FeedbackFilter(room)
    BY DEF FeedbackFilter
  <2>2. QED BY <1>1, <2>1
<1>7. room.organization \in r.organization /\ room.meeting \notin r.meeting
  BY <1>1, <1>3, <1>4 DEF Meets, Condition
<1>8. r.type \in {"MEETING_MINUTES", "MINUTES"}
  BY <1>3, <1>5 DEF Meets, Condition, ChatSourceType
<1>9. room.participants \subseteq r.users
  BY <1>3, <1>6 DEF Meets, Condition
<1>10. QED BY <1>2, <1>7, <1>8, <1>9 DEF FitsRoom, r

LEMMA FeedbackFinds ==
    ASSUME LibraryInv, NEW room, NEW hits \in SeqOf(points, SearchLimit), NEW classes,
           Feedback(room, hits, classes)
    PROVE  OnlyAskedFor'
<1> DEFINE qualified == {i \in DOMAIN hits : classes[i] # "none"}
           count == Min({MaxFeedback, Cardinality(qualified)})
           sources == [n \in 1..count |-> Nth(qualified, n)]
           found == [n \in DOMAIN sources |-> CHOOSE d \in Docs : d \in hits[sources[n]].sourceId]
           class == IF sources = <<>> THEN "none" ELSE classes[sources[1]]
<1>1. /\ reply' = [op |-> "feedback", room |-> room, class |-> class, found |-> found]
      /\ stored' = stored
      /\ \A i \in DOMAIN hits : hits[i] \in Matching(FeedbackFilter(room)) \cap Elsewhere(room)
  BY DEF Feedback, Answer, Readable
<1>2. \E m \in Nat : DOMAIN hits = 1..m
  BY DEF SeqOf
<1>3. \A n \in 1..count : Nth(qualified, n) \in DOMAIN hits
  <2>1. PICK m \in Nat : DOMAIN hits = 1..m
    BY <1>2
  <2>2. qualified \in SUBSET (1..m)
    BY <2>1
  <2>3. Cardinality(qualified) \in Nat
    <3> HIDE DEF qualified
    <3>1. QED BY <2>2, IntervalFacts, FS_Subset, FS_CardinalityType
  <2> HIDE DEF qualified
  <2>4. count <= Cardinality(qualified) /\ count \in Int
    <3>1. MaxFeedback \in Int /\ Cardinality(qualified) \in Int
      BY <2>3, ReadersAssumption
    <3>2. /\ count \in {MaxFeedback, Cardinality(qualified)}
          /\ count <= Cardinality(qualified)
      BY <3>1, MinFacts, Zenon
    <3> HIDE DEF count
    <3>3. QED BY <3>1, <3>2
  <2>5. ASSUME NEW n \in 1..count PROVE Nth(qualified, n) \in qualified
    <3>1. n \in 1..Cardinality(qualified)
      BY <2>3, <2>4
    <3>2. QED BY <2>2, <3>1, NthFacts
  <2>6. qualified \subseteq DOMAIN hits
    BY DEF qualified
  <2>7. QED BY <2>5, <2>6
<1> HIDE DEF qualified, count
<1>4. ASSUME NEW n \in DOMAIN found
      PROVE  IsStored(found[n]) /\ FitsRoom(stored[found[n]].request, room)
  <2>1. PICK h : h = hits[sources[n]]
    OBVIOUS
  <2>2. h \in Matching(FeedbackFilter(room)) \cap Elsewhere(room)
    BY <1>1, <1>3, <1>4, <2>1
  <2>3. PICK d \in Docs : /\ h.sourceId = {d} /\ IsStored(d)
                          /\ FitsRoom(stored[d].request, room)
    BY <2>2, FeedbackFilterFacts
  <2>4. found[n] = d
    BY <1>4, <2>1, <2>3, ChosenDocument
  <2>5. QED BY <2>3, <2>4
<1> HIDE DEF found, class
<1>5. reply'.op = "feedback" /\ reply'.room = room /\ reply'.found = found
  BY <1>1
<1>6. QED BY <1>1, <1>4, <1>5 DEF OnlyAskedFor, IsStored
-----------------------------------------------------------------------------
\* The characters of some parts and of the line breaks between them.
Places(parts) == UNION {{i} \X (0..parts[i].length) : i \in DOMAIN parts}

LEMMA PlacesFinite ==
    ASSUME NEW parts \in Seq(Chunk)
    PROVE  IsFiniteSet(Places(parts))
<1> DEFINE Part(i) == {i} \X (0..parts[i].length)
           T == {Part(i) : i \in DOMAIN parts}
           f == [i \in DOMAIN parts |-> Part(i)]
<1>1. DOMAIN parts = 1..Len(parts) /\ Len(parts) \in Nat
  OBVIOUS
<1>2. f \in Surjection(DOMAIN parts, T)
  BY DEF Surjection
<1>3. \A t \in T : IsFiniteSet(t)
  <2> SUFFICES ASSUME NEW i \in DOMAIN parts PROVE IsFiniteSet({i} \X (0..parts[i].length))
    OBVIOUS
  <2>1. 0 \in Int /\ parts[i].length \in Int
    <3>1. parts[i] \in Chunk
      OBVIOUS
    <3>2. QED BY <3>1 DEF Chunk
  <2>2. IsFiniteSet(0..parts[i].length)
    BY <2>1, FS_Interval, Zenon
  <2>3. IsFiniteSet({i})
    BY FS_Singleton, Zenon
  <2>4. QED BY <2>2, <2>3, FS_Product
<1>4. IsFiniteSet(DOMAIN parts)
  BY <1>1, IntervalFacts
<1> HIDE DEF T, f
<1>5. IsFiniteSet(T)
  BY <1>2, <1>4, FS_Surjection
<1>6. IsFiniteSet(UNION T)
  BY <1>3, <1>5, FS_UNION
<1>7. QED BY <1>6 DEF Places, T

\* A text within the limit is kept whole.
LEMMA KeptWhole ==
    ASSUME NEW parts \in Seq(Chunk), \A i \in DOMAIN parts : parts[i].length > 0,
           ~(TextLength(parts) > MaxTextChars)
    PROVE  Kept(parts) = parts
<1>1. DOMAIN parts = 1..Len(parts) /\ Len(parts) \in Nat
  OBVIOUS
<1>2. ASSUME NEW i \in DOMAIN parts PROVE Begins(parts, i) < MaxTextChars
  <2> DEFINE before == SubSeq(parts, 1, i - 1)
  <2>1. before \in Seq(Chunk)
        /\ \A j \in DOMAIN before : j \in DOMAIN parts /\ before[j] = parts[j] /\ j # i
    <3>1. i - 1 \in 0..Len(parts) /\ i \in Nat
      BY <1>1
    <3>2. Len(before) = i - 1 /\ before \in Seq(Chunk)
          /\ \A j \in DOMAIN before : j \in DOMAIN parts /\ before[j] = parts[j]
      BY <3>1, PrefixFacts
    <3> HIDE DEF before
    <3>3. QED BY <3>1, <3>2
  <2>2. IsFiniteSet(Places(parts)) /\ IsFiniteSet(Places(before))
    <3> HIDE DEF before
    <3>1. QED BY <2>1, PlacesFinite
  <2>3. parts[i].length \in Nat /\ parts[i].length >= 1
    <3>1. parts[i] \in Chunk
      OBVIOUS
    <3>2. QED BY <3>1 DEF Chunk
  <2>4. <<i, 0>> \in Places(parts) /\ <<i, 1>> \in Places(parts)
    <3>1. 0 \in 0..parts[i].length /\ 1 \in 0..parts[i].length
      BY <2>3
    <3>2. QED BY <3>1 DEF Places
  <2> HIDE DEF before
  <2>5. <<i, 0>> \notin Places(before) /\ <<i, 1>> \notin Places(before)
    BY <2>1 DEF Places
  <2>6. Places(before) \subseteq Places(parts)
    BY <2>1 DEF Places
  <2> DEFINE one == Places(before) \cup {<<i, 0>>}
             two == one \cup {<<i, 1>>}
  <2>7. IsFiniteSet(one) /\ Cardinality(one) = Cardinality(Places(before)) + 1
    BY <2>2, <2>5, FS_AddElement
  <2>8. <<i, 1>> \notin one
    BY <2>5
  <2>9. two \in SUBSET Places(parts)
    BY <2>4, <2>6
  <2> HIDE DEF one
  <2>10. IsFiniteSet(two) /\ Cardinality(two) = Cardinality(one) + 1
    BY <2>7, <2>8, FS_AddElement
  <2> HIDE DEF two
  <2>11. Cardinality(two) <= Cardinality(Places(parts))
    BY <2>2, <2>9, FS_Subset
  <2>12. /\ Cardinality(Places(before)) \in Nat /\ Cardinality(Places(parts)) \in Nat
    BY <2>2, FS_CardinalityType
  <2>13. /\ TextLength(parts) = Cardinality(Places(parts)) - 1
         /\ Begins(parts, i) = Cardinality(Places(before)) - 1 + 1
    BY DEF TextLength, Begins, Places, before
  <2>14. QED BY <2>7, <2>10, <2>11, <2>12, <2>13, ReadersAssumption
<1>3. {i \in DOMAIN parts : Begins(parts, i) < MaxTextChars} = 1..Len(parts)
  BY <1>1, <1>2
<1>4. Kept(parts) = SubSeq(parts, 1, Len(parts))
  BY <1>1, <1>3, IntervalFacts DEF Kept
<1>5. Len(parts) \in 0..Len(parts)
  BY <1>1
<1>6. QED BY <1>4, <1>5, PrefixFacts
-----------------------------------------------------------------------------
\* The further clause of get_document leaves only the points of the document.
LEMMA DocumentMatching ==
    ASSUME LibraryInv, NEW command, NEW d \in Docs
    PROVE  Matching(DocumentFilter(command, d)) =
              IF IsStored(d) /\ MaySee(command, stored[d].request) THEN Holds(d) ELSE {}
<1> DEFINE further == {Condition("documentId", {d}), Condition("sourceId", {d})}
<1>1. DocumentFilter(command, d) = AccessFilter(command, {}) \cup {further}
  BY DEF DocumentFilter
<1>2. ASSUME NEW p \in points
      PROVE  (\E cond \in further : Meets(p, cond)) <=> d \in p.sourceId
  <2>1. \E r, i, c : p = Payload(r, i, c)
    BY PointFacts
  <2>2. PICK r, i, c : p = Payload(r, i, c)
    BY <2>1
  <2>3. DOMAIN p = {"sourceId", "sourceType", "ownerUserId", "allowedUserIds",
                    "sharedWorkspaceIds", "organizationId", "meetingId", "createdAt",
                    "longTitle", "chunkIndex", "content"}
    BY <2>2, PayloadFacts
  <2>4. ~Meets(p, Condition("documentId", {d}))
    BY <2>3 DEF Meets, Condition
  <2>5. Meets(p, Condition("sourceId", {d})) <=> d \in p.sourceId
    <3>1. "sourceId" \in DOMAIN p
      BY <2>3
    <3>2. QED BY <3>1 DEF Meets, Condition
  <2>6. QED BY <2>4, <2>5
<1> HIDE DEF further
<1>3. \A p : p \in Matching(DocumentFilter(command, d))
              <=> p \in Matching(AccessFilter(command, {})) /\ d \in p.sourceId
  BY <1>1, <1>2 DEF Matching
<1>4. ASSUME NEW p
      PROVE  p \in Matching(AccessFilter(command, {})) /\ d \in p.sourceId
              <=> IsStored(d) /\ MaySee(command, stored[d].request) /\ p \in Holds(d)
  <2>1. ASSUME p \in Matching(AccessFilter(command, {})), d \in p.sourceId
        PROVE  IsStored(d) /\ MaySee(command, stored[d].request) /\ p \in Holds(d)
    <3>1. PICK e \in Docs : \E i \in DOMAIN stored[e].chunks :
                 /\ p = Payload(stored[e].request, i, stored[e].chunks[i])
                 /\ IsStored(e) /\ p.sourceId = {e}
                 /\ MaySee(command, stored[e].request)
      BY <2>1, MatchingFacts
    <3>2. e = d
      BY <2>1, <3>1
    <3>3. QED BY <3>1, <3>2 DEF Holds
  <2>2. ASSUME IsStored(d), MaySee(command, stored[d].request), p \in Holds(d)
        PROVE  p \in Matching(AccessFilter(command, {})) /\ d \in p.sourceId
    <3>1. PICK i \in DOMAIN stored[d].chunks :
               p = Payload(stored[d].request, i, stored[d].chunks[i])
      BY <2>2 DEF Holds
    <3>2. p.sourceId = {d}
      BY <2>2, <3>1, DocumentFacts, PayloadFacts
    <3>3. QED BY <2>2, <3>1, <3>2, MatchingFacts
  <2>3. QED BY <2>1, <2>2
<1>5. QED BY <1>3, <1>4

PayloadsOf(r, cs) == {Payload(r, i, cs[i]) : i \in DOMAIN cs}

\* By their index the points of a document are its chunks in their order.
LEMMA InOrder ==
    ASSUME NEW r, NEW cs \in Seq(Chunk), NEW page,
           page = PayloadsOf(r, cs)
    PROVE  /\ Cardinality(page) = Len(cs)
           /\ \A n \in 1..Len(cs) : ByIndex(page)[n].content = cs[n]
<1> DEFINE point(i) == Payload(r, i, cs[i])
           lowest(k) == [i \in 1..k |-> point(i)]
<1>1. DOMAIN cs = 1..Len(cs) /\ Len(cs) \in Nat
  OBVIOUS
<1>2. \A i : point(i).chunkIndex = i /\ point(i).content = cs[i]
  BY PayloadFacts
<1>3. page = {point(i) : i \in 1..Len(cs)}
  BY <1>1 DEF PayloadsOf
<1> HIDE DEF point
<1>4. ASSUME NEW k \in 0..Len(cs)
      PROVE  Cardinality({point(i) : i \in 1..k}) = k
  <2>1. lowest(k) \in Seq({point(i) : i \in 1..k}) /\ Len(lowest(k)) = k
        /\ DOMAIN lowest(k) = 1..k
    BY <1>1
  <2>2. \A i, j \in DOMAIN lowest(k) : i < j => lowest(k)[i] # lowest(k)[j]
    BY <1>1, <1>2
  <2>3. {lowest(k)[i] : i \in DOMAIN lowest(k)} = {point(i) : i \in 1..k}
    OBVIOUS
  <2> HIDE DEF lowest
  <2>4. QED BY <2>1, <2>2, <2>3, ListLength
<1>5. ASSUME NEW k \in 0..Len(cs)
      PROVE  Cardinality({q \in page : q.chunkIndex <= k}) = k
  <2>1. {q \in page : q.chunkIndex <= k} = {point(i) : i \in 1..k}
    <3>1. \A i \in 1..Len(cs) : point(i).chunkIndex <= k <=> i \in 1..k
      BY <1>1, <1>2
    <3>2. 1..k \subseteq 1..Len(cs)
      BY <1>1
    <3>3. QED BY <1>3, <3>1, <3>2
  <2>2. QED BY <1>4, <2>1
<1>6. Cardinality(page) = Len(cs)
  <2>1. Len(cs) \in 0..Len(cs)
    BY <1>1
  <2>2. QED BY <1>3, <1>4, <2>1
<1>7. ASSUME NEW n \in 1..Len(cs) PROVE ByIndex(page)[n] = point(n)
  <2>1. \A i \in 1..Len(cs) :
           Cardinality({q \in page : q.chunkIndex <= point(i).chunkIndex}) = i
    <3> SUFFICES ASSUME NEW i \in 1..Len(cs)
                 PROVE  Cardinality({q \in page : q.chunkIndex <= point(i).chunkIndex}) = i
      OBVIOUS
    <3>1. i \in 0..Len(cs) /\ point(i).chunkIndex = i
      BY <1>1, <1>2
    <3>2. QED BY <1>5, <3>1
  <2> DEFINE Rank(p) == Cardinality({q \in page : q.chunkIndex <= p.chunkIndex})
  <2>2. \A i \in 1..Len(cs) : Rank(point(i)) = i
    BY <2>1
  <2>3. ByIndex(page)[n] = CHOOSE p \in page : Rank(p) = n
    BY <1>6 DEF ByIndex
  <2> HIDE DEF Rank
  <2>4. point(n) \in page /\ Rank(point(n)) = n
    BY <1>3, <2>2
  <2>5. \A p \in page : Rank(p) = n => p = point(n)
    BY <1>3, <2>2
  <2>6. QED BY <2>3, <2>4, <2>5
<1>8. QED BY <1>2, <1>6, <1>7

LEMMA DocumentFound ==
    ASSUME LibraryInv, NEW command, NEW d \in Docs,
           NEW page \in Pages(Matching(DocumentFilter(command, d))), GetDocument(command, d, page)
    PROVE  OnlyAskedFor' /\ DocumentWhole'
<1> DEFINE parts == [i \in 1..Cardinality(page) |-> ByIndex(page)[i].content]
           matching == Matching(DocumentFilter(command, d))
           found == IF page = {} THEN <<>> ELSE <<d>>
           seen == IsStored(d) /\ MaySee(command, stored[d].request)
<1>1. /\ reply' = [op |-> "get", command |-> command, types |-> {}, doc |-> d, found |-> found,
                   capped |-> page # matching, cut |-> TextLength(parts) > MaxTextChars,
                   text |-> Kept(parts)]
      /\ stored' = stored
  BY DEF GetDocument, Answer
<1>2. matching = IF seen THEN Holds(d) ELSE {}
  BY DocumentMatching
<1>3. page \subseteq matching
  BY PageFacts
<1>4. page = matching /\ seen => parts = stored[d].chunks
                                  /\ \A i \in DOMAIN parts : parts[i].length > 0
  <2> SUFFICES ASSUME page = matching, seen
               PROVE  parts = stored[d].chunks /\ \A i \in DOMAIN parts : parts[i].length > 0
    OBVIOUS
  <2>1. /\ stored[d].chunks \in Seq(Chunk)
        /\ \A i \in DOMAIN stored[d].chunks : stored[d].chunks[i].length > 0
    BY DocumentFacts
  <2>2. page = {Payload(stored[d].request, i, stored[d].chunks[i]) : i \in DOMAIN stored[d].chunks}
    BY <1>2 DEF Holds
  <2>3. PICK cs \in Seq(Chunk) : cs = stored[d].chunks
    BY <2>1
  <2>4. /\ Cardinality(page) = Len(cs)
        /\ \A n \in 1..Len(cs) : ByIndex(page)[n].content = cs[n]
    <3>1. PICK r : r = stored[d].request
      OBVIOUS
    <3>2. page = PayloadsOf(r, cs)
      BY <2>2, <2>3, <3>1 DEF PayloadsOf
    <3>3. QED BY <3>2, InOrder
  <2>5. parts = [n \in 1..Len(cs) |-> cs[n]]
    BY <2>4
  <2>6. cs = [n \in 1..Len(cs) |-> cs[n]]
    OBVIOUS
  <2> HIDE DEF parts
  <2>7. QED BY <2>1, <2>3, <2>5, <2>6
<1>5. page = {} => parts = <<>>
  BY FS_EmptySet
<1> HIDE DEF matching, parts, found
<1>6. /\ reply'.op = "get" /\ reply'.command = command /\ reply'.types = {} /\ reply'.doc = d
      /\ reply'.found = found /\ reply'.capped = (page # matching)
      /\ reply'.cut = (TextLength(parts) > MaxTextChars) /\ reply'.text = Kept(parts)
  BY <1>1
<1>7. OnlyAskedFor'
  <2>1. \A i \in DOMAIN found : found[i] = d /\ seen
    BY <1>2, <1>3 DEF found
  <2> HIDE DEF seen
  <2>2. seen = (IsStored(d)' /\ MaySee(command, stored'[d].request))
    BY <1>1 DEF seen, IsStored
  <2>3. QED BY <1>6, <2>1, <2>2 DEF OnlyAskedFor, AskedFor, IsStored
<1>8. DocumentWhole'
  <2> SUFFICES ASSUME page = matching, ~(TextLength(parts) > MaxTextChars)
               PROVE  Kept(parts) = IF seen THEN stored[d].chunks ELSE <<>>
    BY <1>1, <1>6 DEF DocumentWhole, IsStored
  <2>1. CASE seen
    <3>1. stored[d].chunks \in Seq(Chunk)
      BY <2>1, DocumentFacts
    <3> HIDE DEF seen
    <3>2. parts \in Seq(Chunk) /\ \A i \in DOMAIN parts : parts[i].length > 0
      BY <1>4, <2>1, <3>1
    <3>3. Kept(parts) = parts
      BY <3>2, KeptWhole
    <3>4. QED BY <1>4, <2>1, <3>3
  <2>2. CASE ~seen
    <3>1. parts = <<>>
      BY <1>2, <1>5, <2>2
    <3>2. Kept(<<>>) = <<>>
      <4>1. <<>> \in Seq(Chunk) /\ \A i \in DOMAIN <<>> : FALSE
        OBVIOUS
      <4>2. {i \in DOMAIN <<>> : Begins(<<>>, i) < MaxTextChars} = {}
        OBVIOUS
      <4>3. Kept(<<>>) = SubSeq(<<>>, 1, 0)
        BY <4>2, FS_EmptySet DEF Kept
      <4>4. QED BY <4>3
    <3>3. QED BY <2>2, <3>1, <3>2
  <2>3. QED BY <2>1, <2>2
<1>9. QED BY <1>7, <1>8
-----------------------------------------------------------------------------
\* What the readers promise, together.
Promises == OnlyAskedFor /\ ListingComplete /\ DocumentWhole

\* No answer promises anything.
LEMMA NoAnswer == reply = NoReply => Promises
BY DEF NoReply, Promises, OnlyAskedFor, ListingComplete, DocumentWhole

LEMMA PromisesKept == LibraryInv /\ Promises /\ [Next]_vars => Promises'
<1> SUFFICES ASSUME LibraryInv, Promises, [Next]_vars PROVE Promises'
  OBVIOUS
<1>1. ASSUME reply' = NoReply PROVE Promises'
  BY <1>1 DEF NoReply, Promises, OnlyAskedFor, ListingComplete, DocumentWhole
<1>2. ASSUME UNCHANGED <<reply, stored>> PROVE Promises'
  BY <1>2 DEF Promises, OnlyAskedFor, ListingComplete, DocumentWhole, IsStored, AskedFor
<1>3. ASSUME NEW command \in Commands, NEW types \in SourceTypes,
             NEW hits \in SeqOf(points, SearchLimit), Search(command, types, hits)
      PROVE  Promises'
  <2>1. reply'.op = "search"
    BY <1>3 DEF Search, Answer
  <2>2. QED BY <1>3, <2>1, SearchFinds DEF Promises, ListingComplete, DocumentWhole
<1>4. ASSUME NEW command \in Commands, NEW types \in SourceTypes,
             NEW page \in Pages(Matching(AccessFilter(command, types))), NEW period \in Periods,
             NEW list \in SeqOf(Docs, Cardinality(Docs)), List(command, types, period, page, list)
      PROVE  Promises'
  <2>1. reply'.op = "list"
    BY <1>4 DEF List, Answer
  <2>2. QED BY <1>4, <2>1, ListFinds DEF Promises, DocumentWhole
<1>5. ASSUME NEW command \in Commands, NEW d \in Docs,
             NEW page \in Pages(Matching(DocumentFilter(command, d))), GetDocument(command, d, page)
      PROVE  Promises'
  <2>1. reply'.op = "get"
    BY <1>5 DEF GetDocument, Answer
  <2>2. QED BY <1>5, <2>1, DocumentFound DEF Promises, ListingComplete
<1>6. ASSUME NEW room \in Rooms, NEW hits \in SeqOf(points, SearchLimit), NEW classes,
             Feedback(room, hits, classes)
      PROVE  Promises'
  <2>1. reply'.op = "feedback"
    BY <1>6 DEF Feedback, Answer
  <2>2. QED BY <1>6, <2>1, FeedbackFinds DEF Promises, ListingComplete, DocumentWhole
<1>7. QED BY <1>1, <1>2, <1>3, <1>4, <1>5, <1>6
         DEF Next, vars, libraryVars, Receive, SplitOn, Embed, Delete, Upsert, RemoveDocument, Forget

LEMMA ReadersKeepTheirPromises == Spec => []Promises
<1>1. LibraryInit => Promises
  BY NoAnswer DEF LibraryInit
<1>2. QED BY <1>1, LibraryInvariant, PromisesKept, PTL DEF Spec

\* Nobody finds, lists or reads a document whose scope does not admit them, or of other types
\* and days than they asked for; and a meeting is told only of minutes that every one of its
\* participants may read: for any requests, users, workspaces, rooms, periods and limits.
THEOREM OnlyTheirsIsRead == Spec => []OnlyAskedFor
BY ReadersKeepTheirPromises, PTL DEF Promises

\* A list, as long as one page holds what matches, has every document that was asked for,
\* once, however many chunks it has; and a count is that of all of them.
THEOREM ListsAreComplete == Spec => []ListingComplete
BY ReadersKeepTheirPromises, PTL DEF Promises

\* A document that is fetched is what it was last indexed with, whole and in its order, or
\* nothing at all while it is being replaced.
THEOREM DocumentsAreWhole == Spec => []DocumentWhole
BY ReadersKeepTheirPromises, PTL DEF Promises
=============================================================================
