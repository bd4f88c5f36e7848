--------------------------- MODULE LogTailerProofs ---------------------------
(***************************************************************************)
(* However the file is cut into pieces, and although it may begin afresh   *)
(* under the reader, the tailer publishes in the order of the lines and no *)
(* line twice; and it starts at the last session, whatever the chunks cut. *)
(***************************************************************************)
EXTENDS LogTailer, ParserProofs, WellFoundedInduction

(* The least and the greatest of numbers, the latter below a bound.        *)
LEMMA MinIsLeast ==
  ASSUME NEW S \in SUBSET Nat, S # {}
  PROVE  Min(S) \in S /\ \A y \in S : Min(S) <= y
  <1> DEFINE less == {ss \in Nat \X Nat : ss[1] < ss[2]}
  <1>1. OpToRel(<, Nat) = less
    BY Zenon DEF OpToRel
  <1>2. IsWellFoundedOn(less, Nat)
    BY Zenon, <1>1, NatLessThanWellFounded
  <1> HIDE DEF less
  <1>3. PICK n \in S : \A m \in S : ~(<<m, n>> \in less)
    BY <1>2, WFMin
  <1>4. \A m \in S : n <= m
    <2> SUFFICES ASSUME NEW m \in S PROVE n <= m
      OBVIOUS
    <2>1. m \in Nat /\ n \in Nat /\ <<m, n>> \notin less
      BY <1>3
    <2>2. ~(m < n)
      BY <2>1 DEF less
    <2> QED
      BY <2>1, <2>2
  <1> QED
    BY <1>4 DEF Min

LEMMA MaxIsGreatest ==
  ASSUME NEW b \in Nat, NEW S \in SUBSET (0 .. b), S # {}
  PROVE  Max(S) \in S /\ \A y \in S : y <= Max(S)
  <1> DEFINE T == {b - x : x \in S}
  <1>1. T \in SUBSET Nat /\ T # {}
    <2>1. \A x \in S : b - x \in Nat
      OBVIOUS
    <2> QED
      BY <2>1
  <1>2. Min(T) \in T /\ \A y \in T : Min(T) <= y
    BY <1>1, MinIsLeast
  <1>3. PICK x \in S : Min(T) = b - x
    BY <1>2
  <1>4. \A y \in S : x >= y
    <2> SUFFICES ASSUME NEW y \in S PROVE x >= y
      OBVIOUS
    <2>1. b - y \in T
      OBVIOUS
    <2>2. b - x <= b - y
      BY <1>2, <1>3, <2>1
    <2>3. x \in 0 .. b /\ y \in 0 .. b
      OBVIOUS
    <2> QED
      BY <2>2, <2>3
  <1> QED
    BY <1>4 DEF Max
-----------------------------------------------------------------------------
Cells == [kind : Kinds, line : Nat, part : Nat]
Pieces == [line : Nat, kind : Kinds, first : Nat, last : Nat]

TailerTypes ==
  /\ file \in Seq(Cells) /\ lines \in Nat
  /\ offset \in Nat /\ size \in Nat
  /\ pc \in {"starting", "seeking", "waiting", "reading", "stopped"}
  /\ pieces \in Seq(Pieces) /\ Len(pieces) = Len(seen)

(* Cell c of the file comes before cell d: in the same line up to its end. *)
CellOrder(c, d) ==
  c.line < d.line \/ (c.line = d.line /\ c.kind = d.kind /\ c.part < d.part)

FileInOrder ==
  /\ \A j \in 1 .. Len(file) : file[j].line <= lines
  /\ \A i, j \in 1 .. Len(file) : i < j =>
       /\ CellOrder(file[i], file[j])
       /\ (\A m \in i .. j - 1 : ~EndsLine(file[m])) => file[i].line = file[j].line
       /\ (\E m \in i .. j - 1 : EndsLine(file[m])) => file[i].line < file[j].line

(* Piece a lies before cell c, or at it.                                   *)
Before(a, c) ==
  a.line < c.line \/ (a.line = c.line /\ a.kind = c.kind /\ a.last < c.part)
UpTo(a, c) ==
  a.line < c.line \/ (a.line = c.line /\ a.kind = c.kind /\ a.last <= c.part)
PieceOrder(a, b) ==
  a.line < b.line \/ (a.line = b.line /\ a.kind = b.kind /\ a.last < b.first)

(* What was read lies before what is still to be read, and in order.       *)
ReadInOrder ==
  /\ pc \in {"starting", "seeking"} => pieces = <<>>
  /\ \A i \in 1 .. Len(pieces) :
       /\ pieces[i].line <= lines
       /\ file # <<>> => UpTo(pieces[i], file[Len(file)])
       /\ \A j \in 1 .. Len(file) : j > offset => Before(pieces[i], file[j])
  /\ \A i, j \in 1 .. Len(pieces) : i < j => PieceOrder(pieces[i], pieces[j])

(* Events are published in the order of the pieces, for pieces that match. *)
EventsInOrder ==
  /\ \A i \in 1 .. Len(pieces) :
       seen[i] = Match(pieces[i].kind, pieces[i].first, pieces[i].last)
  /\ \A n \in 1 .. Len(published) :
       published[n].line \in 1 .. Len(seen) /\ seen[published[n].line] # NoMatch
  /\ \A m, n \in 1 .. Len(published) : m < n => published[m].line < published[n].line

TailerInv == TailerTypes /\ FileInOrder /\ ReadInOrder

LEMMA TailerInitial == Init => TailerInv /\ ParserInv /\ EventsInOrder
  <1> SUFFICES ASSUME Init PROVE TailerInv /\ EventsInOrder /\ ParserInv
    OBVIOUS
  <1>1. TailerTypes
    BY <<>> \in Seq(Cells), <<>> \in Seq(Pieces) DEF Init, TailerTypes, ParserInit
  <1>2. FileInOrder /\ ReadInOrder /\ EventsInOrder
    BY DEF Init, ParserInit, FileInOrder, ReadInOrder, EventsInOrder
  <1> QED
    BY <1>1, <1>2, ParserInitial DEF Init, TailerInv

(* Two pieces that match lie in different lines.                           *)
LEMMA MatchOnce ==
  ASSUME NEW a \in Pieces, NEW b \in Pieces, PieceOrder(a, b),
         Match(a.kind, a.first, a.last) # NoMatch,
         Match(b.kind, b.first, b.last) # NoMatch
  PROVE  a.line < b.line
  <1> SUFFICES ASSUME a.line = b.line, a.kind = b.kind, a.last < b.first
               PROVE  FALSE
    BY DEF PieceOrder, Pieces
  <1>1. Needs(a.kind) \subseteq a.first .. a.last /\ Needs(a.kind) \subseteq b.first .. b.last
    BY DEF Match
  <1>2. Needs(a.kind) # {}
    BY DEF Needs
  <1>3. PICK e \in Needs(a.kind) : e \in a.first .. a.last /\ e \in b.first .. b.last
    BY <1>1, <1>2
  <1> QED
    BY <1>3 DEF Pieces

LEMMA TailerInvEnough ==
  ASSUME TailerInv, EventsInOrder, ParserInv
  PROVE  PublishedInOrder
  <1> SUFFICES ASSUME NEW m \in 1 .. Len(published), NEW n \in 1 .. Len(published), m < n
               PROVE  pieces[published[m].line].line < pieces[published[n].line].line
    <2>1. DOMAIN published = 1 .. Len(published)
      BY DEF ParserInv, ParserTypeOK
    <2> QED
      BY <2>1 DEF PublishedInOrder
  <1> DEFINE i == published[m].line
             j == published[n].line
  <1>1. i \in 1 .. Len(pieces) /\ j \in 1 .. Len(pieces) /\ i < j
        /\ seen[i] # NoMatch /\ seen[j] # NoMatch
    BY DEF EventsInOrder, TailerInv, TailerTypes
  <1>2. PieceOrder(pieces[i], pieces[j]) /\ pieces[i] \in Pieces /\ pieces[j] \in Pieces
    BY <1>1 DEF TailerInv, TailerTypes, ReadInOrder
  <1>3. /\ Match(pieces[i].kind, pieces[i].first, pieces[i].last) # NoMatch
        /\ Match(pieces[j].kind, pieces[j].first, pieces[j].last) # NoMatch
    BY <1>1 DEF EventsInOrder
  <1> QED
    BY <1>2, <1>3, MatchOnce
-----------------------------------------------------------------------------
(* The game.                                                               *)

LEMMA CellsInOrder ==
  ASSUME NEW c \in Cells, NEW d \in Cells, NEW e \in Cells,
         CellOrder(e, d), CellOrder(d, c)
  PROVE  CellOrder(e, c)
  BY DEF Cells, CellOrder

LEMMA PieceBeforeCell ==
  ASSUME NEW c \in Cells, NEW d \in Cells, NEW a \in Pieces,
         UpTo(a, d), CellOrder(d, c)
  PROVE  Before(a, c) /\ UpTo(a, c)
  BY DEF Cells, Pieces, CellOrder, UpTo, Before

(* A cell goes on in the last line, or begins a line where that has ended. *)
GoesOn(c) ==
  LET d == file[Len(file)]
  IN  /\ file # <<>> /\ ~EndsLine(d)
      /\ c.line = d.line /\ c.kind = d.kind /\ c.part = d.part + 1
Begins(c) ==
  c.line = lines + 1 /\ (file # <<>> => EndsLine(file[Len(file)]))

LEMMA NewCell ==
  ASSUME TailerInv, NEW c \in Cells, GoesOn(c) \/ Begins(c)
  PROVE  /\ \A i \in 1 .. Len(file) : CellOrder(file[i], c)
         /\ file # <<>> => IF EndsLine(file[Len(file)])
                           THEN file[Len(file)].line < c.line
                           ELSE file[Len(file)].line = c.line
         /\ \A i \in 1 .. Len(pieces) : Before(pieces[i], c) /\ UpTo(pieces[i], c)
  <1> DEFINE n == Len(file)
             d == file[n]
  <1>1. /\ n \in Nat /\ lines \in Nat /\ \A i \in 1 .. n : file[i] \in Cells
        /\ file # <<>> => n \in 1 .. n
        /\ \A i \in 1 .. Len(pieces) : pieces[i] \in Pieces
    BY DEF TailerInv, TailerTypes
  <1>2. CASE Begins(c)
    <2>1. \A i \in 1 .. n : file[i].line <= lines
      BY DEF TailerInv, FileInOrder
    <2>2. \A i \in 1 .. n : file[i].line < c.line
      BY <1>1, <1>2, <2>1 DEF Begins, Cells
    <2>3. \A i \in 1 .. Len(pieces) : pieces[i].line <= lines
      BY DEF TailerInv, ReadInOrder
    <2>4. \A i \in 1 .. Len(pieces) : pieces[i].line < c.line
      BY <1>1, <1>2, <2>3 DEF Begins, Pieces
    <2> QED
      BY <1>1, <1>2, <2>2, <2>4 DEF CellOrder, Before, UpTo, Begins
  <1>3. CASE GoesOn(c)
    <2>1. file # <<>> /\ n \in 1 .. n /\ d \in Cells /\ d.line = c.line /\ ~EndsLine(d)
      BY <1>1, <1>3 DEF GoesOn
    <2>2. CellOrder(d, c)
      BY <1>3, <2>1 DEF GoesOn, CellOrder, Cells
    <2> HIDE DEF d
    <2>3. ASSUME NEW i \in 1 .. n PROVE CellOrder(file[i], c)
      <3>1. CASE i = n
        BY <2>2, <3>1 DEF d
      <3>2. CASE i < n
        <4>1. CellOrder(file[i], d) /\ file[i] \in Cells
          BY <1>1, <2>1, <3>2 DEF d, TailerInv, FileInOrder
        <4> QED
          BY <2>1, <2>2, <4>1, CellsInOrder
      <3> QED
        BY <1>1, <3>1, <3>2
    <2>4. ASSUME NEW i \in 1 .. Len(pieces)
          PROVE  Before(pieces[i], c) /\ UpTo(pieces[i], c)
      <3>1. UpTo(pieces[i], d) /\ pieces[i] \in Pieces
        BY <1>1, <2>1 DEF d, TailerInv, ReadInOrder
      <3> QED
        BY <2>1, <2>2, <3>1, PieceBeforeCell
    <2> QED
      BY <2>1, <2>3, <2>4 DEF d
  <1> QED
    BY <1>2, <1>3

LEMMA GrowStep ==
  ASSUME TailerInv, NEW c \in Cells, GoesOn(c) \/ Begins(c),
         file' = Append(file, c), lines' \in Nat, lines <= lines', c.line <= lines',
         UNCHANGED <<tailerVars, seen>>
  PROVE  TailerInv'
  <1> DEFINE n == Len(file)
  <1>1. /\ n \in Nat /\ lines \in Nat /\ \A i \in 1 .. n : file[i] \in Cells
        /\ file' \in Seq(Cells) /\ Len(file') = n + 1
        /\ \A i \in 1 .. n : file'[i] = file[i]
        /\ file'[n + 1] = c /\ file' # <<>>
    BY DEF TailerInv, TailerTypes
  <1>2. /\ \A i \in 1 .. n : CellOrder(file[i], c)
        /\ n > 0 => IF EndsLine(file[n]) THEN file[n].line < c.line
                    ELSE file[n].line = c.line
        /\ \A i \in 1 .. Len(pieces) : Before(pieces[i], c) /\ UpTo(pieces[i], c)
    BY <1>1, NewCell
  <1>3. UNCHANGED <<pc, size, offset, pieces, seen>>
    BY DEF tailerVars
  <1>4. TailerTypes'
    BY <1>1, <1>3 DEF TailerInv, TailerTypes
  <1>5. \A j \in 1 .. n + 1 : file'[j].line <= lines'
    <2> SUFFICES ASSUME NEW j \in 1 .. n + 1 PROVE file'[j].line <= lines'
      OBVIOUS
    <2>1. CASE j \in 1 .. n
      <3>1. file[j].line \in Nat /\ file[j].line <= lines
        BY <1>1, <2>1 DEF TailerInv, FileInOrder, Cells
      <3> QED
        BY <1>1, <2>1, <3>1
    <2> QED
      BY <1>1, <2>1
  <1>6. ASSUME NEW i \in 1 .. n + 1, NEW j \in 1 .. n + 1, i < j
        PROVE  /\ CellOrder(file'[i], file'[j])
               /\ (\A m \in i .. j - 1 : ~EndsLine(file'[m])) => file'[i].line = file'[j].line
               /\ (\E m \in i .. j - 1 : EndsLine(file'[m])) => file'[i].line < file'[j].line
    <2>1. i \in 1 .. n /\ n \in 1 .. n /\ file'[i] = file[i]
          /\ \A m \in i .. j - 1 : m \in 1 .. n /\ file'[m] = file[m]
      BY <1>1, <1>6
    <2>2. CASE j \in 1 .. n
      <3>1. /\ CellOrder(file[i], file[j])
            /\ (\A m \in i .. j - 1 : ~EndsLine(file[m])) => file[i].line = file[j].line
            /\ (\E m \in i .. j - 1 : EndsLine(file[m])) => file[i].line < file[j].line
        BY <1>6, <2>1, <2>2 DEF TailerInv, FileInOrder
      <3> QED
        BY <1>1, <2>1, <2>2, <3>1
    <2>3. CASE j = n + 1
      <3>1. CellOrder(file[i], c) /\ file'[j] = c /\ n \in i .. j - 1
        BY <1>1, <1>2, <2>1, <2>3
      <3>2. ASSUME \A m \in i .. j - 1 : ~EndsLine(file'[m])
            PROVE  file[i].line = c.line
        <4>1. ~EndsLine(file[n]) /\ file[n].line = c.line
          BY <1>1, <1>2, <2>1, <3>1, <3>2
        <4>2. i < n => file[i].line = file[n].line
          <5>1. \A m \in i .. n - 1 : m \in i .. j - 1 /\ ~EndsLine(file[m])
            BY <1>1, <2>1, <2>3, <3>2
          <5> QED
            BY <2>1, <5>1 DEF TailerInv, FileInOrder
        <4> QED
          BY <1>1, <2>1, <4>1, <4>2
      <3>3. ASSUME NEW m \in i .. j - 1, EndsLine(file'[m])
            PROVE  file[i].line < c.line
        <4>1. file[i].line \in Nat /\ file[n].line \in Nat /\ c.line \in Nat
          BY <1>1, <2>1 DEF Cells
        <4>2. file[n].line <= c.line
          BY <1>1, <1>2, <2>1, <4>1 DEF CellOrder
        <4>3. CASE m = n
          <5>1. file[n].line < c.line
            BY <1>1, <1>2, <2>1, <3>3, <4>3
          <5>2. i < n => file[i].line <= file[n].line
            <6>1. i < n => CellOrder(file[i], file[n])
              BY <2>1 DEF TailerInv, FileInOrder
            <6> QED
              BY <4>1, <6>1 DEF CellOrder
          <5> QED
            BY <1>1, <2>1, <4>1, <5>1, <5>2
        <4>4. CASE m # n
          <5>1. i < n /\ m \in i .. n - 1 /\ EndsLine(file[m])
            BY <1>1, <2>1, <2>3, <3>3, <4>4
          <5>2. file[i].line < file[n].line
            BY <2>1, <5>1 DEF TailerInv, FileInOrder
          <5> QED
            BY <4>1, <4>2, <5>2
        <4> QED
          BY <4>3, <4>4
      <3> QED
        BY <2>1, <3>1, <3>2, <3>3
    <2> QED
      BY <1>1, <2>2, <2>3
  <1>7. FileInOrder'
    BY <1>1, <1>5, <1>6 DEF FileInOrder
  <1>8. ASSUME NEW i \in 1 .. Len(pieces)
        PROVE  /\ pieces[i].line <= lines'
               /\ UpTo(pieces[i], file'[n + 1])
               /\ \A j \in 1 .. n + 1 : j > offset => Before(pieces[i], file'[j])
    <2>1. pieces[i] \in Pieces
      BY DEF TailerInv, TailerTypes
    <2>2. pieces[i].line <= lines'
      BY <1>1, <2>1 DEF TailerInv, ReadInOrder, Pieces
    <2>3. \A j \in 1 .. n : j > offset => Before(pieces[i], file[j])
      BY DEF TailerInv, ReadInOrder
    <2>4. \A j \in 1 .. n + 1 : j \in 1 .. n \/ j = n + 1
      BY <1>1
    <2> QED
      BY <1>1, <1>2, <2>2, <2>3, <2>4
  <1>9. ReadInOrder'
    BY <1>1, <1>3, <1>8 DEF TailerInv, ReadInOrder
  <1> QED
    BY <1>4, <1>7, <1>9 DEF TailerInv

LEMMA GameStep ==
  ASSUME TailerInv, Game
  PROVE  TailerInv'
  <1>1. ASSUME BeginLine PROVE TailerInv'
    <2>1. PICK k \in Kinds : file' = Append(file, [kind |-> k, line |-> lines + 1, part |-> 1])
      BY <1>1 DEF BeginLine
    <2> DEFINE c == [kind |-> k, line |-> lines + 1, part |-> 1]
    <2>2. lines \in Nat /\ lines' = lines + 1 /\ UNCHANGED <<tailerVars, seen>>
      BY <1>1 DEF BeginLine, parserVars, TailerInv, TailerTypes
    <2>3. c \in Cells /\ c.line = lines + 1 /\ c.line <= lines'
      BY <2>2 DEF Cells
    <2>4. Begins(c)
      BY <1>1, <2>3 DEF BeginLine, BetweenLines, Last, Begins
    <2> HIDE DEF c
    <2> QED
      BY <2>1, <2>2, <2>3, <2>4, GrowStep DEF c
  <1>2. ASSUME ContinueLine PROVE TailerInv'
    <2> DEFINE d == file[Len(file)]
               c == [d EXCEPT !.part = @ + 1]
    <2>1. file # <<>> /\ ~EndsLine(d) /\ file' = Append(file, c)
      BY <1>2 DEF ContinueLine, BetweenLines, Last
    <2>2. d \in Cells /\ Len(file) \in 1 .. Len(file)
      BY <2>1 DEF TailerInv, TailerTypes
    <2>3. c \in Cells /\ c.line = d.line /\ c.kind = d.kind /\ c.part = d.part + 1
      BY <2>2 DEF Cells
    <2>4. lines \in Nat /\ UNCHANGED <<lines, tailerVars, seen>>
      BY <1>2 DEF ContinueLine, parserVars, TailerInv, TailerTypes
    <2>5. c.line <= lines
      BY <2>2, <2>3 DEF TailerInv, FileInOrder
    <2>6. GoesOn(c)
      BY <2>1, <2>3 DEF GoesOn
    <2> HIDE DEF c
    <2> QED
      BY <2>1, <2>3, <2>4, <2>5, <2>6, GrowStep
  <1>3. ASSUME Truncate PROVE TailerInv'
    <2>1. file' = <<>> /\ UNCHANGED <<lines, tailerVars, seen>>
      BY <1>3 DEF Truncate, parserVars
    <2>2. TailerTypes'
      BY <2>1, <<>> \in Seq(Cells) DEF TailerInv, TailerTypes, tailerVars
    <2>3. FileInOrder'
      BY <2>1 DEF FileInOrder
    <2>4. ReadInOrder'
      BY <2>1 DEF TailerInv, ReadInOrder, tailerVars
    <2> QED
      BY <2>2, <2>3, <2>4 DEF TailerInv
  <1> QED
    BY <1>1, <1>2, <1>3 DEF Game
-----------------------------------------------------------------------------
(* The tailer.                                                             *)

(* The search settles on an offset in the file.                            *)
LEMMA ChunkStarts ==
  ASSUME NEW pos \in Nat, NEW k \in Nat
  PROVE  ChunkStart(pos, k) \in 0 .. pos
  <1>1. k * Chunk \in Nat
    BY TailerAssumption
  <1> QED
    BY <1>1 DEF ChunkStart

LEMMA LineOffsetBounds ==
  ASSUME NEW from \in Nat, NEW marker \in Nat
  PROVE  LET ends == {i \in from + 1 .. marker - 1 : EndsLine(file[i])}
         IN  IF ends = {} THEN LineOffset(from, marker) = from
             ELSE LineOffset(from, marker) \in ends
                  /\ \A i \in ends : i <= LineOffset(from, marker)
  <1> DEFINE ends == {i \in from + 1 .. marker - 1 : EndsLine(file[i])}
  <1>1. ends \in SUBSET (0 .. marker)
    OBVIOUS
  <1>2. ends # {} => Max(ends) \in ends /\ \A i \in ends : i <= Max(ends)
    BY <1>1, MaxIsGreatest
  <1> QED
    BY <1>2 DEF LineOffset

LEMMA SearchBounds ==
  ASSUME NEW pos \in Nat
  PROVE  SearchFrom(pos) = -1 \/ SearchFrom(pos) \in Nat
  <1>1. CASE HitChunks(pos) = {}
    BY <1>1 DEF SearchFrom
  <1>2. CASE HitChunks(pos) # {}
    <2> DEFINE k == Min(HitChunks(pos))
               from == ChunkStart(pos, k)
               marker == Max(Hits(pos, k))
    <2>1. k \in 1 .. pos /\ Hits(pos, k) # {}
      <3>1. HitChunks(pos) \in SUBSET Nat
        BY DEF HitChunks
      <3>2. k \in HitChunks(pos)
        BY <1>2, <3>1, MinIsLeast
      <3> QED
        BY <3>2 DEF HitChunks
    <2>2. from \in 0 .. pos /\ ChunkStart(pos, k - 1) \in 0 .. pos
      <3>1. k \in Nat /\ k - 1 \in Nat
        BY <2>1
      <3> HIDE DEF k
      <3> QED
        BY <3>1, ChunkStarts
    <2>3. Hits(pos, k) \in SUBSET (0 .. pos)
      BY <2>2 DEF Hits
    <2>4. marker \in Hits(pos, k)
      BY <2>1, <2>3, MaxIsGreatest
    <2>5. from \in Nat /\ marker \in Nat
      BY <2>2, <2>3, <2>4
    <2>6. LineOffset(from, marker) \in Nat
      <3> DEFINE ends == {i \in from + 1 .. marker - 1 : EndsLine(file[i])}
      <3>1. IF ends = {} THEN LineOffset(from, marker) = from
            ELSE LineOffset(from, marker) \in ends
        BY <2>5, LineOffsetBounds
      <3> QED
        BY <2>5, <3>1
    <2> QED
      BY <1>2, <2>6 DEF SearchFrom
  <1> QED
    BY <1>1, <1>2

(* Steps that move Run along and read nothing.                             *)
LEMMA IdleStep ==
  ASSUME TailerInv, SeekBegin \/ SeekEnd \/ Poll \/ ReadEOF \/ Stop
  PROVE  TailerInv' /\ UNCHANGED parserVars
  <1>1. UNCHANGED <<file, lines, pieces>> /\ UNCHANGED parserVars
    BY DEF SeekBegin, SeekEnd, Poll, ReadEOF, Stop, fileVars
  <1>2. seen' = seen
    BY <1>1 DEF parserVars
  <1>3. FileInOrder'
    <2>1. \A m \in 1 .. Len(file) : EndsLine(file'[m]) = EndsLine(file[m])
      BY <1>1
    <2> QED
      BY <1>1, <2>1 DEF TailerInv, FileInOrder
  <1>4. CASE SeekBegin
    <2>1. TailerTypes'
      BY <1>1, <1>2, <1>4 DEF TailerInv, TailerTypes, SeekBegin
    <2>2. ReadInOrder'
      BY <1>1, <1>4 DEF TailerInv, ReadInOrder, SeekBegin
    <2> QED
      BY <1>1, <1>3, <2>1, <2>2 DEF TailerInv
  <1>5. CASE SeekEnd
    <2>1. size \in Nat /\ Len(file) \in Nat /\ size' = size /\ pc = "seeking" /\ pc' = "waiting"
      BY <1>5 DEF SeekEnd, TailerInv, TailerTypes
    <2>2. offset' \in Nat
      BY <1>5, <2>1, SearchBounds DEF SeekEnd
    <2>3. TailerTypes'
      BY <1>1, <1>2, <2>1, <2>2 DEF TailerInv, TailerTypes
    <2>4. pieces = <<>>
      BY <2>1 DEF TailerInv, ReadInOrder
    <2>5. ReadInOrder'
      BY <1>1, <2>1, <2>4 DEF ReadInOrder
    <2> QED
      BY <1>1, <1>3, <2>3, <2>5 DEF TailerInv
  <1>6. CASE Poll \/ ReadEOF \/ Stop
    <2>1. /\ UNCHANGED <<size, offset>> /\ pc \in {"waiting", "reading"}
          /\ pc' \in {"waiting", "reading", "stopped"}
      BY <1>6 DEF Poll, ReadEOF, Stop
    <2>2. TailerTypes'
      BY <1>1, <1>2, <2>1 DEF TailerInv, TailerTypes
    <2>3. ReadInOrder'
      BY <1>1, <2>1 DEF TailerInv, ReadInOrder
    <2> QED
      BY <1>1, <1>3, <2>2, <2>3 DEF TailerInv
  <1> QED
    BY <1>4, <1>5, <1>6

LEMMA LineReadBounds ==
  ASSUME TailerInv, offset < Len(file)
  PROVE  /\ LineRead \in offset + 1 .. Len(file)
         /\ \A m \in offset + 1 .. LineRead - 1 : ~EndsLine(file[m])
         /\ LineEnds = {} => LineRead = Len(file)
  <1>1. offset \in Nat /\ Len(file) \in Nat
    BY DEF TailerInv, TailerTypes
  <1>2. CASE LineEnds = {}
    <2>1. LineRead = Len(file)
      BY <1>2 DEF LineRead
    <2>2. \A m \in offset + 1 .. Len(file) : ~EndsLine(file[m])
      BY <1>2 DEF LineEnds
    <2> QED
      BY <1>1, <2>1, <2>2
  <1>3. CASE LineEnds # {}
    <2>1. LineEnds \in SUBSET Nat
      BY <1>1 DEF LineEnds
    <2>2. LineRead \in LineEnds /\ \A m \in LineEnds : LineRead <= m
      BY <1>3, <2>1, MinIsLeast DEF LineRead
    <2>3. LineRead \in offset + 1 .. Len(file)
      BY <2>2 DEF LineEnds
    <2>4. ASSUME NEW m \in offset + 1 .. LineRead - 1 PROVE ~EndsLine(file[m])
      <3>1. m \in offset + 1 .. Len(file) /\ ~(LineRead <= m)
        BY <1>1, <2>3, <2>4
      <3> QED
        BY <2>2, <3>1 DEF LineEnds
    <2> QED
      BY <1>3, <2>3, <2>4
  <1> QED
    BY <1>2, <1>3

LEMMA MatchIsPattern ==
  ASSUME NEW k \in Kinds, NEW a, NEW b
  PROVE  Match(k, a, b) \in Patterns \union {NoMatch}
  BY TailerAssumption DEF Match

(* A piece is read: it lies in one line, behind all that was read before.  *)
LEMMA ReadStep ==
  ASSUME TailerInv, ReadLine
  PROVE  /\ TailerInv'
         /\ \E a \in Pieces : pieces' = Append(pieces, a)
                              /\ Parse(Match(a.kind, a.first, a.last))
  <1> DEFINE from == offset + 1
             to == LineRead
             c == file[from]
             d == file[to]
             a == [line |-> d.line, kind |-> d.kind, first |-> c.part, last |-> d.part]
             n == Len(file)
  <1>1. /\ pc = "reading" /\ offset < n /\ ProcessLine(from, to)
        /\ offset' = to /\ pc' \in {"waiting", "reading"}
        /\ UNCHANGED <<file, lines, size>>
    BY DEF ReadLine, fileVars
  <1>2. offset \in Nat /\ n \in Nat /\ file \in Seq(Cells) /\ lines \in Nat /\ size \in Nat
    BY DEF TailerInv, TailerTypes
  <1>3. to \in from .. n /\ \A m \in from .. to - 1 : ~EndsLine(file[m])
    BY <1>1, LineReadBounds
  <1>4. from \in 1 .. n /\ to \in 1 .. n /\ c \in Cells /\ d \in Cells
    BY <1>1, <1>2, <1>3
  <1>5. c.line = d.line /\ c.kind = d.kind
    <2>1. CASE from = to
      BY <2>1
    <2>2. CASE from < to
      BY <1>3, <1>4, <2>2 DEF TailerInv, FileInOrder, CellOrder, Cells
    <2> QED
      BY <1>2, <1>3, <2>1, <2>2
  <1>6. a \in Pieces
    BY <1>4 DEF Cells, Pieces
  <1>7. pieces' = Append(pieces, a) /\ Parse(Match(d.kind, c.part, d.part))
    BY <1>1 DEF ProcessLine
  <1>8. a.line = d.line /\ a.kind = d.kind /\ a.first = c.part /\ a.last = d.part
    OBVIOUS
  <1>9. seen' = Append(seen, Match(d.kind, c.part, d.part))
    BY <1>7 DEF Parse
  <1> HIDE DEF a, c, d, from, to
  <1> DEFINE k == Len(pieces)
  <1>10. /\ k \in Nat /\ pieces' \in Seq(Pieces) /\ Len(pieces') = k + 1
         /\ \A i \in 1 .. k : pieces'[i] = pieces[i] /\ pieces[i] \in Pieces
         /\ pieces'[k + 1] = a
    BY <1>6, <1>7 DEF TailerInv, TailerTypes
  <1>11. FileInOrder'
    BY <1>1 DEF TailerInv, FileInOrder, EndsLine
  <1>12. ASSUME NEW i \in 1 .. k PROVE PieceOrder(pieces[i], a)
    <2>1. Before(pieces[i], c)
      BY <1>1, <1>2, <1>4 DEF TailerInv, ReadInOrder, from, c
    <2> QED
      BY <1>5, <1>8, <2>1 DEF Before, PieceOrder
  <1>13. ASSUME NEW j \in 1 .. n, j > to PROVE Before(a, file[j])
    <2>1. CellOrder(d, file[j]) /\ file[j] \in Cells
      BY <1>2, <1>4, <1>13 DEF TailerInv, FileInOrder, d
    <2> QED
      BY <1>8, <2>1 DEF CellOrder, Before
  <1>14. UpTo(a, file[n]) /\ file # <<>>
    <2>1. to = n => UpTo(a, file[n])
      BY <1>2, <1>4, <1>8 DEF UpTo, d, Cells
    <2>2. ASSUME to < n PROVE UpTo(a, file[n])
      <3>1. CellOrder(d, file[n]) /\ file[n] \in Cells /\ d \in Cells
        BY <1>2, <1>4, <2>2 DEF TailerInv, FileInOrder, d
      <3> QED
        BY <1>8, <3>1 DEF CellOrder, UpTo, Cells
    <2>3. file # <<>>
      BY <1>1, <1>2
    <2>4. to = n \/ to < n
      BY <1>2, <1>4
    <2> QED
      BY <2>1, <2>2, <2>3, <2>4
  <1>15. a.line <= lines
    BY <1>4, <1>8 DEF TailerInv, FileInOrder, d
  <1>16. ReadInOrder'
    <2>1. ASSUME NEW i \in 1 .. k + 1
          PROVE  /\ pieces'[i].line <= lines
                 /\ UpTo(pieces'[i], file[n])
                 /\ \A j \in 1 .. n : j > to => Before(pieces'[i], file[j])
      <3>1. CASE i = k + 1
        BY <1>10, <1>13, <1>14, <1>15, <3>1
      <3>2. CASE i \in 1 .. k
        <4>1. \A j \in 1 .. n : j > to => j > offset
          BY <1>2, <1>3, <1>4 DEF from
        <4> QED
          BY <1>10, <1>14, <3>2, <4>1 DEF TailerInv, ReadInOrder
      <3> QED
        BY <1>10, <3>1, <3>2
    <2>2. ASSUME NEW i \in 1 .. k + 1, NEW j \in 1 .. k + 1, i < j
          PROVE  PieceOrder(pieces'[i], pieces'[j])
      <3>1. i \in 1 .. k /\ (j \in 1 .. k \/ j = k + 1)
        BY <1>10, <2>2
      <3> QED
        BY <1>10, <1>12, <2>2, <3>1 DEF TailerInv, ReadInOrder
    <2>3. pc' \notin {"starting", "seeking"} /\ file' = file /\ lines' = lines /\ offset' = to
      BY <1>1
    <2> QED
      BY <1>10, <1>14, <2>1, <2>2, <2>3 DEF ReadInOrder
  <1>17. TailerTypes'
    <2>1. Len(seen') = Len(seen) + 1 /\ Len(seen) = k
      BY <1>9 DEF TailerInv, TailerTypes
    <2>2. to \in Nat
      BY <1>2, <1>4
    <2> QED
      BY <1>1, <1>2, <1>10, <2>1, <2>2 DEF TailerInv, TailerTypes
  <1> QED
    BY <1>6, <1>7, <1>8, <1>11, <1>16, <1>17 DEF TailerInv

(* The parser publishes one event at most, for the line it is given.       *)
LEMMA ParsePublishes ==
  ASSUME ParserInv, NEW p \in Patterns \union {NoMatch}, Parse(p)
  PROVE  \/ published' = published
         \/ \E e : published' = Append(published, e) /\ e.line = Len(seen) + 1
                   /\ p # NoMatch
  <1>1. CASE ParseNothing(p) \/ ParseHeader(p) \/ ParseOrphan(p)
    BY <1>1 DEF ParseNothing, ParseHeader, ParseOrphan
  <1>2. CASE ParseContinuation(p) \/ ParseSingle(p)
    <2>1. p # NoMatch
      BY <1>2, KindsDiffer DEF ParseContinuation, ParseSingle
    <2>2. \E type, header :
            published' = Append(published, [type |-> type, header |-> header, line |-> This])
      BY <1>2 DEF ParseContinuation, ParseSingle, Emit
    <2>3. PICK type, header :
            published' = Append(published, [type |-> type, header |-> header, line |-> This])
      BY <2>2
    <2>4. [type |-> type, header |-> header, line |-> This].line = Len(seen) + 1
      BY DEF This
    <2> QED
      BY <2>1, <2>3, <2>4
  <1> QED
    BY <1>1, <1>2 DEF Parse

LEMMA EventsStep ==
  ASSUME TailerInv, ParserInv, EventsInOrder, ReadLine
  PROVE  ParserInv' /\ EventsInOrder'
  <1>1. PICK a \in Pieces : pieces' = Append(pieces, a)
                            /\ Parse(Match(a.kind, a.first, a.last))
    BY ReadStep
  <1> DEFINE p == Match(a.kind, a.first, a.last)
             k == Len(pieces)
             n == Len(published)
  <1>2. p \in Patterns \union {NoMatch}
    <2>1. a.kind \in Kinds
      BY DEF Pieces
    <2> QED
      BY <2>1, MatchIsPattern
  <1>3. /\ k \in Nat /\ Len(seen) = k /\ Len(pieces') = k + 1 /\ pieces'[k + 1] = a
        /\ \A i \in 1 .. k : pieces'[i] = pieces[i]
    BY <1>1 DEF TailerInv, TailerTypes
  <1>4. seen' = Append(seen, p) /\ seen \in Seq(Patterns \union {NoMatch})
    BY <1>1 DEF Parse, ParserInv, ParserTypeOK
  <1>5. /\ Len(seen') = k + 1 /\ seen'[k + 1] = p
        /\ \A i \in 1 .. k : seen'[i] = seen[i]
    BY <1>2, <1>3, <1>4
  <1>6. ParserInv'
    BY <1>1, <1>2, ParseStep
  <1>7. \A i \in 1 .. k + 1 :
          seen'[i] = Match(pieces'[i].kind, pieces'[i].first, pieces'[i].last)
    <2> SUFFICES ASSUME NEW i \in 1 .. k + 1
                 PROVE  seen'[i] = Match(pieces'[i].kind, pieces'[i].first, pieces'[i].last)
      OBVIOUS
    <2>1. CASE i = k + 1
      BY <1>3, <1>5, <2>1
    <2>2. CASE i \in 1 .. k
      BY <1>3, <1>5, <2>2 DEF EventsInOrder
    <2> QED
      BY <1>3, <2>1, <2>2
  <1> HIDE DEF p
  <1>8. CASE published' = published
    <2>1. ASSUME NEW m \in 1 .. n
          PROVE  published[m].line \in 1 .. k + 1 /\ seen'[published[m].line] # NoMatch
      <3>1. published[m].line \in 1 .. k /\ seen[published[m].line] # NoMatch
        BY <1>3 DEF EventsInOrder
      <3> QED
        BY <1>3, <1>5, <3>1
    <2> QED
      BY <1>3, <1>5, <1>6, <1>7, <1>8, <2>1 DEF EventsInOrder
  <1>9. CASE \E e : published' = Append(published, e) /\ e.line = Len(seen) + 1 /\ p # NoMatch
    <2>1. PICK e : published' = Append(published, e) /\ e.line = Len(seen) + 1 /\ p # NoMatch
      BY <1>9
    <2>2. /\ n \in Nat /\ Len(published') = n + 1 /\ published'[n + 1] = e
          /\ \A m \in 1 .. n : published'[m] = published[m]
      BY <2>1 DEF ParserInv, ParserTypeOK
    <2>3. ASSUME NEW m \in 1 .. n + 1
          PROVE  /\ published'[m].line \in 1 .. k + 1
                 /\ seen'[published'[m].line] # NoMatch
                 /\ m \in 1 .. n => published'[m].line \in 1 .. k
      <3>1. CASE m = n + 1
        BY <1>3, <1>5, <2>1, <2>2, <3>1
      <3>2. CASE m \in 1 .. n
        <4>1. published[m].line \in 1 .. k /\ seen[published[m].line] # NoMatch
          BY <1>3, <3>2 DEF EventsInOrder
        <4> QED
          BY <1>3, <1>5, <2>2, <3>2, <4>1
      <3> QED
        BY <2>2, <3>1, <3>2
    <2>4. ASSUME NEW l \in 1 .. n + 1, NEW m \in 1 .. n + 1, l < m
          PROVE  published'[l].line < published'[m].line
      <3>1. CASE m = n + 1
        <4>1. l \in 1 .. n /\ published'[l].line \in 1 .. k
          BY <2>2, <2>3, <2>4, <3>1
        <4> QED
          BY <1>3, <2>1, <2>2, <3>1, <4>1
      <3>2. CASE m \in 1 .. n
        BY <2>2, <2>4, <3>2 DEF EventsInOrder
      <3> QED
        BY <2>2, <3>1, <3>2
    <2> QED
      BY <1>3, <1>5, <1>6, <1>7, <2>2, <2>3, <2>4 DEF EventsInOrder
  <1> QED
    BY <1>1, <1>2, <1>6, <1>8, <1>9, ParsePublishes DEF p

Inv == TailerInv /\ ParserInv /\ EventsInOrder

LEMMA InvStep == Inv /\ [Next]_vars => Inv'
  <1> SUFFICES ASSUME Inv, [Next]_vars PROVE Inv'
    OBVIOUS
  <1>1. ASSUME UNCHANGED parserVars, UNCHANGED pieces
        PROVE  ParserInv' /\ EventsInOrder'
    <2>1. ParserInv'
      BY <1>1, ParserUnchanged DEF Inv
    <2>2. EventsInOrder'
      BY <1>1 DEF Inv, EventsInOrder, parserVars
    <2> QED
      BY <2>1, <2>2
  <1>2. CASE Game
    <2>1. UNCHANGED parserVars /\ UNCHANGED pieces
      BY <1>2 DEF Game, BeginLine, ContinueLine, Truncate, tailerVars
    <2> QED
      BY <1>1, <1>2, <2>1, GameStep DEF Inv
  <1>3. CASE SeekBegin \/ SeekEnd \/ Poll \/ ReadEOF \/ Stop
    <2>1. UNCHANGED pieces
      BY <1>3 DEF SeekBegin, SeekEnd, Poll, ReadEOF, Stop
    <2> QED
      BY <1>1, <1>3, <2>1, IdleStep DEF Inv
  <1>4. CASE ReadLine
    BY <1>4, ReadStep, EventsStep DEF Inv
  <1>5. CASE UNCHANGED vars
    <2>1. UNCHANGED <<file, lines, pc, size, offset, pieces, seen>> /\ UNCHANGED parserVars
      BY <1>5 DEF vars, fileVars, tailerVars, parserVars
    <2>2. TailerInv'
      <3>1. TailerTypes'
        BY <2>1 DEF Inv, TailerInv, TailerTypes
      <3>2. FileInOrder'
        BY <2>1 DEF Inv, TailerInv, FileInOrder, EndsLine
      <3>3. ReadInOrder'
        BY <2>1 DEF Inv, TailerInv, ReadInOrder
      <3> QED
        BY <3>1, <3>2, <3>3 DEF TailerInv
    <2> QED
      BY <1>1, <2>1, <2>2 DEF Inv
  <1> QED
    BY <1>2, <1>3, <1>4, <1>5 DEF Next, Run

LEMMA InvAlways == Spec => []Inv
  BY TailerInitial, InvStep, PTL DEF Spec, Inv

(* Whatever the game writes, in whatever parts the tailer sees it, and     *)
(* though the log may begin afresh, the events are published in the order  *)
(* of the lines they end in, none of which yields two (tailer.go:151-171). *)
THEOREM TailerKeepsOrder == Spec => []PublishedInOrder
  BY InvAlways, TailerInvEnough, PTL DEF Inv

(* And each is the one the lines it was handed make (parser.go:690-762).   *)
THEOREM TailerPairs == Spec => []PairsTheRightLines
  BY InvAlways, PTL DEF Inv, ParserInv
-----------------------------------------------------------------------------
(* What the corpus run counts.                                             *)

(* A line the tailer reads in one piece is matched as the corpus run       *)
(* matches it, unless it goes on in the next line: then not at all.        *)
WholeLinesMatch ==
  \A i \in DOMAIN pieces :
    pieces[i].first = 1 /\ pieces[i].last = Width(pieces[i].kind) =>
      seen[i] = IF pieces[i].kind.split THEN NoMatch ELSE CorpusMatch(pieces[i].kind)

LEMMA WholeLine ==
  ASSUME NEW k \in Kinds
  PROVE  Match(k, 1, Width(k)) = IF k.split THEN NoMatch ELSE CorpusMatch(k)
  <1>1. CASE k.split
    BY <1>1 DEF Match
  <1>2. CASE ~k.split
    <2>1. Needs(k) \subseteq 1 .. Width(k)
      BY DEF Needs, Width
    <2> QED
      BY <1>2, <2>1 DEF Match, CorpusMatch
  <1> QED
    BY <1>1, <1>2

LEMMA PieceKind ==
  ASSUME Inv, NEW i \in DOMAIN pieces
  PROVE  i \in 1 .. Len(pieces) /\ pieces[i].kind \in Kinds
  <1>1. pieces \in Seq(Pieces)
    BY DEF Inv, TailerInv, TailerTypes
  <1>2. i \in 1 .. Len(pieces) /\ pieces[i] \in Pieces
    BY <1>1
  <1> QED
    BY <1>2 DEF Pieces

(* For any lines: a notification that goes on in the next line is the only *)
(* one on which the corpus run and the tailer differ, and whole, with its  *)
(* newline, the tailer never matches it (main.go:104-112, tailer.go:153).  *)
THEOREM OnlySplitLinesDiffer == Spec => []WholeLinesMatch
  <1>1. Inv => WholeLinesMatch
    <2> SUFFICES ASSUME Inv, NEW i \in DOMAIN pieces, pieces[i].first = 1,
                        pieces[i].last = Width(pieces[i].kind)
                 PROVE  seen[i] = IF pieces[i].kind.split THEN NoMatch
                                  ELSE CorpusMatch(pieces[i].kind)
      BY DEF WholeLinesMatch
    <2>1. i \in 1 .. Len(pieces) /\ pieces[i].kind \in Kinds
      BY PieceKind
    <2>2. seen[i] = Match(pieces[i].kind, 1, Width(pieces[i].kind))
      BY <2>1 DEF Inv, EventsInOrder
    <2> QED
      BY <2>1, <2>2, WholeLine
  <1> QED
    BY <1>1, InvAlways, PTL

(* So without such notifications the corpus run counts what the companion  *)
(* sees: they are the only cause of the difference multi_line shows.       *)
THEOREM CorpusCountsTheRest ==
  ASSUME \A k \in Kinds : ~k.split
  PROVE  Spec => []LiveMatchesCorpus
  <1>1. Inv /\ WholeLinesMatch => LiveMatchesCorpus
    <2> SUFFICES ASSUME Inv, WholeLinesMatch, NEW i \in DOMAIN pieces,
                        pieces[i].first = 1, pieces[i].last = Width(pieces[i].kind)
                 PROVE  seen[i] = CorpusMatch(pieces[i].kind)
      BY DEF LiveMatchesCorpus
    <2>1. pieces[i].kind \in Kinds
      BY PieceKind
    <2> QED
      BY <2>1 DEF WholeLinesMatch
  <1> QED
    BY <1>1, InvAlways, OnlySplitLinesDiffer, PTL
-----------------------------------------------------------------------------
(* The search for the last session.                                        *)

LEMMA Multiples ==
  ASSUME NEW c \in Nat, NEW a \in Nat, NEW b \in Nat, a <= b
  PROVE  a * c \in Nat /\ a * c <= b * c
  <1>1. b * c = a * c + (b - a) * c
    OBVIOUS
  <1>2. (b - a) * c \in Nat /\ a * c \in Nat
    OBVIOUS
  <1> QED
    BY <1>1, <1>2

LEMMA Division ==
  ASSUME NEW c \in Nat \ {0}, NEW x \in Nat
  PROVE  /\ x \div c \in Nat /\ x % c \in 0 .. c - 1
         /\ x = ((x \div c) * c) + (x % c)
  OBVIOUS

LEMMA LastMarkerIsLast ==
  ASSUME NEW n \in Nat
  PROVE  LET login == LastMarker(n)
         IN  /\ login \in 0 .. n
             /\ login # 0 => login <= n - 1 /\ Marker(login)
             /\ \A i \in 1 .. n - 1 : Marker(i) => i <= login
  <1> DEFINE S == {i \in 1 .. n - 1 : Marker(i)} \union {0}
  <1>1. S \in SUBSET (0 .. n) /\ S # {}
    OBVIOUS
  <1>2. Max(S) \in S /\ \A i \in S : i <= Max(S)
    BY <1>1, MaxIsGreatest
  <1> QED
    BY <1>1, <1>2 DEF LastMarker

LEMMA HitsAreMarkers ==
  ASSUME NEW pos \in Nat, NEW k \in 1 .. pos
  PROVE  \A i \in Hits(pos, k) :
           i \in 1 .. pos - 1 /\ Marker(i) /\ ChunkStart(pos, k) < i
  <1>1. ChunkStart(pos, k) \in 0 .. pos
    BY ChunkStarts
  <1>2. ChunkStart(pos, k - 1) \in 0 .. pos
    <2>1. k - 1 \in Nat
      OBVIOUS
    <2> QED
      BY <2>1, ChunkStarts
  <1> QED
    BY <1>1, <1>2 DEF Hits

(* The chunk the marker lies in, unless it lies across two.                *)
LEMMA ChunkOfMarker ==
  ASSUME NEW pos \in Nat, NEW i \in 1 .. pos - 1, (pos - i) % Chunk # 0
  PROVE  LET q == (pos - i) \div Chunk
         IN  /\ q \in Nat /\ q + 1 \in 1 .. pos
             /\ ChunkStart(pos, q + 1) < i
             /\ \A j \in 0 .. q : i < ChunkStart(pos, j)
  <1> DEFINE x == pos - i
             q == x \div Chunk
             r == x % Chunk
  <1>1. Chunk \in Nat /\ Chunk > 1 /\ x \in Nat /\ x < pos
    BY TailerAssumption
  <1>2. q \in Nat /\ r \in 1 .. Chunk - 1 /\ x = q * Chunk + r
    BY <1>1, Division
  <1> HIDE DEF q, r
  <1>3. q * Chunk \in Nat /\ (q + 1) * Chunk = q * Chunk + Chunk /\ q <= q * Chunk
    BY <1>1, <1>2
  <1>4. q + 1 \in 1 .. pos
    BY <1>1, <1>2, <1>3
  <1>5. ChunkStart(pos, q + 1) < i
    BY <1>1, <1>2, <1>3 DEF ChunkStart
  <1>6. ASSUME NEW j \in 0 .. q PROVE i < ChunkStart(pos, j)
    <2>1. j * Chunk \in Nat /\ j * Chunk <= q * Chunk
      BY <1>1, <1>2, Multiples
    <2> QED
      BY <1>1, <1>2, <1>3, <2>1 DEF ChunkStart
  <1> QED
    BY <1>2, <1>4, <1>5, <1>6 DEF q

LEMMA SearchFinds ==
  ASSUME NEW n \in Nat, LastMarker(n) # 0, (n - LastMarker(n)) % Chunk # 0
  PROVE  /\ SearchFrom(n) \in 0 .. LastMarker(n) - 1
         /\ \A i \in SearchFrom(n) + 1 .. LastMarker(n) : ~EndsLine(file[i])
  <1> DEFINE login == LastMarker(n)
             q == (n - login) \div Chunk
  <1>1. /\ login \in 1 .. n - 1 /\ Marker(login)
        /\ \A i \in 1 .. n - 1 : Marker(i) => i <= login
    BY LastMarkerIsLast
  <1> HIDE DEF login
  <1>2. /\ q \in Nat /\ q + 1 \in 1 .. n /\ ChunkStart(n, q + 1) < login
        /\ \A j \in 0 .. q : login < ChunkStart(n, j)
    BY <1>1, ChunkOfMarker DEF login
  <1> HIDE DEF q
  <1>3. login \in Hits(n, q + 1)
    <2>1. ChunkStart(n, q + 1) \in 0 .. n /\ q \in 0 .. q
      BY <1>2, ChunkStarts
    <2>2. ChunkStart(n, q) \in 0 .. n
      BY <1>2, ChunkStarts
    <2>3. login < ChunkStart(n, q)
      BY <1>2, <2>1
    <2>4. q + 1 - 1 = q
      BY <1>2
    <2> QED
      BY <1>1, <1>2, <2>1, <2>2, <2>3, <2>4 DEF Hits
  <1> DEFINE k == Min(HitChunks(n))
  <1>4. k \in 1 .. n /\ Hits(n, k) # {} /\ k <= q + 1 /\ HitChunks(n) # {}
    <2>1. q + 1 \in HitChunks(n) /\ HitChunks(n) \in SUBSET Nat
      BY <1>2, <1>3 DEF HitChunks
    <2>2. k \in HitChunks(n) /\ k <= q + 1
      BY <2>1, MinIsLeast
    <2> QED
      BY <2>1, <2>2 DEF HitChunks
  <1> DEFINE from == ChunkStart(n, k)
  <1>5. SearchFrom(n) = LineOffset(from, Max(Hits(n, k)))
    BY <1>4 DEF SearchFrom
  <1> HIDE DEF k
  <1>6. k \in Nat /\ k - 1 \in 0 .. q /\ from \in 0 .. n /\ ChunkStart(n, k - 1) \in 0 .. n
    <2>1. k \in Nat /\ k - 1 \in Nat /\ k - 1 \in 0 .. q
      BY <1>2, <1>4
    <2> QED
      BY <2>1, ChunkStarts
  <1>7. from < login
    <2>1. PICK i \in Hits(n, k) : i \in 1 .. n - 1 /\ Marker(i) /\ from < i
      BY <1>4, HitsAreMarkers
    <2>2. i <= login
      BY <1>1, <2>1
    <2> QED
      BY <1>1, <1>6, <2>1, <2>2
  <1>8. login < ChunkStart(n, k - 1)
    BY <1>2, <1>6
  <1>9. login \in Hits(n, k)
    BY <1>1, <1>6, <1>7, <1>8 DEF Hits
  <1>10. Max(Hits(n, k)) = login
    <2>1. Hits(n, k) \in SUBSET (0 .. n)
      BY <1>6 DEF Hits
    <2>2. Max(Hits(n, k)) \in Hits(n, k) /\ login <= Max(Hits(n, k))
      BY <1>9, <2>1, MaxIsGreatest
    <2>3. Max(Hits(n, k)) \in 1 .. n - 1 /\ Marker(Max(Hits(n, k)))
      BY <1>4, <2>2, HitsAreMarkers
    <2>4. Max(Hits(n, k)) <= login
      BY <1>1, <2>3
    <2> QED
      BY <1>1, <2>2, <2>3, <2>4
  <1> HIDE DEF from
  <1> DEFINE offs == LineOffset(from, login)
             ends == {i \in from + 1 .. login - 1 : EndsLine(file[i])}
  <1>11. IF ends = {} THEN offs = from
         ELSE offs \in ends /\ \A i \in ends : i <= offs
    BY <1>1, <1>6, LineOffsetBounds
  <1>12. ~EndsLine(file[login])
    BY <1>1 DEF Marker, EndsLine, Width
  <1> HIDE DEF offs
  <1>13. offs \in 0 .. login - 1
    BY <1>1, <1>6, <1>7, <1>11
  <1>14. ASSUME NEW i \in offs + 1 .. login PROVE ~EndsLine(file[i])
    <2>1. CASE i = login
      BY <1>12, <2>1
    <2>2. CASE i # login
      <3>1. i \in from + 1 .. login - 1
        BY <1>1, <1>6, <1>11, <1>13, <2>2
      <3>2. EndsLine(file[i]) => i \in ends /\ i <= offs
        BY <1>11, <3>1
      <3> QED
        BY <1>1, <1>13, <3>1, <3>2
    <2> QED
      BY <2>1, <2>2
  <1>15. SearchFrom(n) = offs
    BY <1>5, <1>10 DEF offs
  <1> QED
    BY <1>13, <1>14, <1>15 DEF login

LEMMA SearchFindsNone ==
  ASSUME NEW n \in Nat, LastMarker(n) = 0
  PROVE  SearchFrom(n) = -1
  <1>1. \A i \in 1 .. n - 1 : ~Marker(i)
    BY LastMarkerIsLast
  <1>2. HitChunks(n) = {}
    BY <1>1, HitsAreMarkers DEF HitChunks
  <1> QED
    BY <1>2 DEF SearchFrom

(* While it is searched the file only grows.                               *)
SizeKnown == pc = "seeking" => size <= Len(file)

LEMMA SeekStep ==
  ASSUME Inv, SizeKnown, SeekEnd
  PROVE  SeekFindsTheSession
  <1> DEFINE login == LastMarker(size)
  <1>1. size \in Nat /\ Len(file) \in Nat /\ size <= Len(file)
    BY DEF Inv, TailerInv, TailerTypes, SizeKnown, SeekEnd
  <1>2. CASE login = 0
    <2>1. offset' \in size .. Len(file)
      BY <1>1, <1>2, SearchFindsNone DEF SeekEnd
    <2> QED
      BY <1>2, <2>1 DEF SeekFindsTheSession
  <1>3. CASE login # 0
    <2>1. size # 0
      BY <1>3, LastMarkerIsLast
    <2>2. ASSUME (size - login) % Chunk # 0
          PROVE  offset' < login /\ \A i \in offset' + 1 .. login : ~EndsLine(file[i])
      <3>1. /\ SearchFrom(size) \in 0 .. login - 1
            /\ \A i \in SearchFrom(size) + 1 .. login : ~EndsLine(file[i])
        BY <1>1, <1>3, <2>2, SearchFinds
      <3>2. login \in Nat
        BY <1>1, LastMarkerIsLast
      <3>3. offset' = SearchFrom(size)
        BY <1>1, <2>1, <3>1, <3>2 DEF SeekEnd
      <3> QED
        BY <3>1, <3>2, <3>3
    <2> QED
      BY <1>3, <2>2 DEF SeekFindsTheSession
  <1> QED
    BY <1>2, <1>3

LEMMA SizeStep ==
  ASSUME Inv, SizeKnown, [Next]_vars
  PROVE  SizeKnown' /\ [SeekFindsTheSession]_vars
  <1>1. size \in Nat /\ Len(file) \in Nat
    BY DEF Inv, TailerInv, TailerTypes
  <1>2. CASE BeginLine \/ ContinueLine
    <2>1. \E c : file' = Append(file, c)
      BY <1>2 DEF BeginLine, ContinueLine
    <2>2. Len(file') = Len(file) + 1 /\ pc' = pc /\ size' = size
      BY <1>2, <2>1 DEF BeginLine, ContinueLine, tailerVars, Inv, TailerInv, TailerTypes
    <2> QED
      BY <1>1, <2>2 DEF SizeKnown, SeekFindsTheSession
  <1>3. CASE Truncate
    <2>1. pc # "seeking" /\ pc' = pc
      BY <1>3 DEF Truncate, tailerVars
    <2> QED
      BY <2>1 DEF SizeKnown, SeekFindsTheSession
  <1>4. CASE SeekBegin
    <2>1. pc # "seeking" /\ size' = Len(file) /\ file' = file
      BY <1>4 DEF SeekBegin, fileVars
    <2> QED
      BY <1>1, <2>1 DEF SizeKnown, SeekFindsTheSession
  <1>5. CASE SeekEnd
    <2>1. pc' # "seeking"
      BY <1>5 DEF SeekEnd
    <2> QED
      BY <1>5, <2>1, SeekStep DEF SizeKnown
  <1>6. CASE Poll \/ ReadLine \/ ReadEOF \/ Stop
    <2>1. pc # "seeking" /\ pc' # "seeking"
      BY <1>6 DEF Poll, ReadLine, ReadEOF, Stop
    <2> QED
      BY <2>1 DEF SizeKnown, SeekFindsTheSession
  <1>7. CASE UNCHANGED vars
    <2>1. UNCHANGED <<file, pc, size>>
      BY <1>7 DEF vars, fileVars, tailerVars
    <2> QED
      BY <1>7, <2>1 DEF SizeKnown
  <1> QED
    BY <1>2, <1>3, <1>4, <1>5, <1>6, <1>7 DEF Next, Game, Run

(* The search settles inside the line of the last login, unless a chunk    *)
(* ends in its marker, whatever the size of a chunk and whatever is written*)
(* meanwhile; with no login it passes over what it has seen                *)
(* (tailer.go:72-128).                                                     *)
THEOREM SeekFinds == Spec => SeeksRight
  <1>1. Init => SizeKnown
    BY DEF Init, SizeKnown
  <1>2. Inv /\ SizeKnown /\ [Next]_vars => SizeKnown' /\ [SeekFindsTheSession]_vars
    BY SizeStep
  <1> QED
    BY <1>1, <1>2, InvAlways, PTL DEF Spec, SeeksRight
-----------------------------------------------------------------------------
(* What TypeOK says beyond the types that are proved above.                *)
Bounded ==
  /\ lines <= MaxLines /\ truncations \in 0 .. MaxTruncations
  /\ \A i \in 1 .. Len(file) : /\ file[i].line > 0
                                /\ file[i].part \in 1 .. Width(file[i].kind)
  /\ pendingData <= Len(seen)

LEMMA TypesEnough == Inv /\ Bounded => TypeOK
  <1> SUFFICES ASSUME Inv, Bounded PROVE TypeOK
    OBVIOUS
  <1>1. TailerTypes /\ FileInOrder /\ ParserTypeOK
    BY DEF Inv, TailerInv, ParserInv
  <1>2. ASSUME NEW i \in DOMAIN file
        PROVE  /\ file[i].kind \in Kinds /\ file[i].line \in 1 .. lines
               /\ file[i].part \in 1 .. Width(file[i].kind)
    <2>1. i \in 1 .. Len(file) /\ file[i] \in Cells /\ lines \in Nat
      BY <1>1 DEF TailerTypes
    <2>2. file[i].line <= lines
      BY <1>1, <2>1 DEF FileInOrder
    <2> QED
      BY <2>1, <2>2 DEF Bounded, Cells
  <1>3. lines \in 0 .. MaxLines
    BY <1>1, TailerAssumption DEF Bounded, TailerTypes
  <1>4. pendingType \in Headers \union {None} /\ pendingData \in 0 .. Len(seen)
    BY <1>1 DEF Bounded, ParserTypeOK
  <1> QED
    BY <1>1, <1>2, <1>3, <1>4 DEF Bounded, TailerTypes, TypeOK

LEMMA BoundedInitial == Init => Bounded
  BY TailerAssumption DEF Init, ParserInit, Bounded

LEMMA FileBounded ==
  ASSUME Inv, Bounded, BeginLine \/ ContinueLine
  PROVE  /\ lines' <= MaxLines
         /\ \A i \in 1 .. Len(file') : /\ file'[i].line > 0
                                        /\ file'[i].part \in 1 .. Width(file'[i].kind)
  <1>1. lines \in Nat /\ file \in Seq(Cells)
    BY DEF Inv, TailerInv, TailerTypes
  <1>2. PICK c : /\ file' = Append(file, c) /\ c.line > 0
                 /\ c.part \in 1 .. Width(c.kind)
    <2>1. CASE BeginLine
      <3>1. PICK k \in Kinds : file' = Append(file, [kind |-> k, line |-> lines + 1, part |-> 1])
        BY <2>1 DEF BeginLine
      <3> QED
        BY <1>1, <3>1 DEF Width
    <2>2. CASE ContinueLine
      <3> DEFINE d == file[Len(file)]
      <3>1. file # <<>> /\ ~EndsLine(d) /\ file' = Append(file, [d EXCEPT !.part = @ + 1])
        BY <2>2 DEF ContinueLine, BetweenLines, Last
      <3>2. /\ d \in Cells /\ d.line > 0 /\ d.part \in 1 .. Width(d.kind)
        BY <1>1, <3>1 DEF Bounded
      <3> HIDE DEF d
      <3>3. d.part # Width(d.kind)
        BY <3>1 DEF EndsLine
      <3>4. Width(d.kind) \in {2, 4}
        BY DEF Width
      <3> DEFINE c == [d EXCEPT !.part = @ + 1]
      <3>5. c.line = d.line /\ c.kind = d.kind /\ c.part = d.part + 1
        BY <3>2 DEF Cells
      <3>6. c.part \in 1 .. Width(c.kind)
        BY <3>2, <3>3, <3>4, <3>5
      <3> QED
        BY <3>1, <3>2, <3>5, <3>6
    <2> QED
      BY <2>1, <2>2
  <1>3. \A i \in 1 .. Len(file') : (i \in 1 .. Len(file) /\ file'[i] = file[i]) \/ file'[i] = c
    BY <1>1, <1>2
  <1>4. lines' <= MaxLines
    BY <1>1, TailerAssumption DEF Bounded, BeginLine, ContinueLine
  <1> QED
    BY <1>2, <1>3, <1>4 DEF Bounded

LEMMA ReadBounded ==
  ASSUME Inv, Bounded, ReadLine
  PROVE  Bounded'
  <1>1. PICK p : Parse(p)
    BY DEF ReadLine, ProcessLine
  <1>2. Len(seen') = Len(seen) + 1 /\ Len(seen) \in Nat
    BY <1>1 DEF Parse, Inv, ParserInv, ParserTypeOK
  <1>3. pendingData' \in {pendingData, 0, Len(seen) + 1}
    BY <1>1 DEF Parse, ParseNothing, ParseHeader, ParseContinuation, ParseOrphan,
       ParseSingle, clearPending, This
  <1>4. pendingData' <= Len(seen')
    BY <1>2, <1>3 DEF Bounded, Inv, ParserInv, ParserTypeOK
  <1> QED
    BY <1>4 DEF ReadLine, fileVars, Bounded, Width

LEMMA BoundedStep == Inv /\ Bounded /\ [Next]_vars => Bounded'
  <1> SUFFICES ASSUME Inv, Bounded, [Next]_vars PROVE Bounded'
    OBVIOUS
  <1>1. CASE BeginLine \/ ContinueLine
    <2>1. UNCHANGED truncations /\ UNCHANGED parserVars
      BY <1>1 DEF BeginLine, ContinueLine
    <2>2. truncations' \in 0 .. MaxTruncations /\ pendingData' <= Len(seen')
      BY <2>1 DEF Bounded, parserVars
    <2>3. /\ lines' <= MaxLines
          /\ \A i \in 1 .. Len(file') : /\ file'[i].line > 0
                                         /\ file'[i].part \in 1 .. Width(file'[i].kind)
      BY <1>1, FileBounded
    <2> QED
      BY <2>2, <2>3 DEF Bounded, Width
  <1>2. CASE Truncate
    <2>1. /\ Len(file') = 0 /\ truncations' \in 0 .. MaxTruncations
          /\ UNCHANGED <<lines, pendingData, seen>>
      BY <1>2, TailerAssumption DEF Bounded, Truncate, parserVars
    <2> QED
      BY <2>1 DEF Bounded
  <1>3. CASE ReadLine
    BY <1>3, ReadBounded
  <1>4. CASE SeekBegin \/ SeekEnd \/ Poll \/ ReadEOF \/ Stop \/ UNCHANGED vars
    <2>1. UNCHANGED fileVars /\ UNCHANGED parserVars
      BY <1>4 DEF SeekBegin, SeekEnd, Poll, ReadEOF, Stop, vars
    <2> QED
      BY <2>1 DEF Bounded, fileVars, parserVars, Width
  <1> QED
    BY <1>1, <1>2, <1>3, <1>4 DEF Next, Game, Run

(* Every variable has its type: no part is ever written beyond the end of  *)
(* its line, and what is pending is a line that was parsed.                *)
THEOREM TailerTypeCorrect == Spec => []TypeOK
  <1>1. Inv /\ Bounded /\ [Next]_vars => (Inv /\ Bounded)'
    BY InvStep, BoundedStep
  <1>2. Init => Inv
    BY TailerInitial DEF Inv
  <1> QED
    BY <1>1, <1>2, BoundedInitial, TypesEnough, PTL DEF Spec
=============================================================================
