----------------------------- MODULE LogTailer -----------------------------
(***************************************************************************)
(* One run of a Tailer (logtailer/tailer.go): it looks backwards for the   *)
(* last login in Game.log, reads on from there, hands each line it gets to *)
(* the parser and polls for more, while the game goes on writing.          *)
(*                                                                         *)
(* The game writes a line in parts, and the tailer may look between two of *)
(* them: what it then takes for a line ends, or begins, in the middle of   *)
(* one.  A login line has four parts, so that the login marker, in halves  *)
(* in parts 2 and 3, can lie across two chunks of the backward search, and *)
(* its line can begin before the chunk; any other line has two.  Offsets   *)
(* count parts; the newline belongs to the last part of its line.          *)
(***************************************************************************)
EXTENDS Parser, FiniteSetsExt, SequencesExt

CONSTANTS
  Kinds,          \* the lines the game may write: [pattern, split]
  Chunk,          \* chunkSize of the backward search, 64 KB in the code
  MaxLines,       \* bound: lines the game writes
  MaxTruncations  \* bound: times the game starts its log afresh

ASSUME TailerAssumption ==
  /\ \A k \in Kinds :
       /\ k.pattern \in Patterns \union {NoMatch}
       /\ k.split \in BOOLEAN
       /\ k.split => k.pattern # NoMatch /\ Anatomy(k.pattern) = "end"
  /\ Chunk \in Nat \ {0, 1}
  /\ MaxLines \in Nat /\ MaxTruncations \in Nat

VARIABLES
  file,        \* Game.log, a sequence of parts of lines
  lines,       \* lines begun so far; a line is known by its number
  truncations, \* times the file was started afresh
  pc,          \* where Run is
  size,        \* the size seekToLastSession works with
  offset,      \* parts read or passed over
  pieces       \* history: what was taken for a line, one for each entry of seen

fileVars == <<file, lines, truncations>>
tailerVars == <<pc, size, offset, pieces>>
vars == <<fileVars, tailerVars, parserVars>>

Width(kind) == IF kind.pattern = "player_login" THEN 4 ELSE 2
EndsLine(cell) == cell.part = Width(cell.kind)

Init ==
  /\ file = <<>> /\ lines = 0 /\ truncations = 0
  /\ pc = "starting" /\ size = 0 /\ offset = 0 /\ pieces = <<>>
  /\ ParserInit
-----------------------------------------------------------------------------
(* The game (external).                                                    *)

BetweenLines == file # <<>> => EndsLine(Last(file))

BeginLine ==
  /\ lines < MaxLines
  /\ BetweenLines
  /\ \E k \in Kinds : file' = Append(file, [kind |-> k, line |-> lines + 1, part |-> 1])
  /\ lines' = lines + 1
  /\ UNCHANGED <<truncations, tailerVars, parserVars>>

ContinueLine ==
  /\ ~BetweenLines
  /\ file' = Append(file, [Last(file) EXCEPT !.part = @ + 1])
  /\ UNCHANGED <<lines, truncations, tailerVars, parserVars>>

(* The game is started again and its log begins anew.                      *)
Truncate ==
  /\ truncations < MaxTruncations
  /\ pc # "seeking"
  /\ file # <<>> /\ BetweenLines
  /\ file' = <<>>
  /\ truncations' = truncations + 1
  /\ UNCHANGED <<lines, tailerVars, parserVars>>
-----------------------------------------------------------------------------
(* seekToLastSession.                                                      *)

(* A login marker lies in the parts i and i + 1 of the file.               *)
Marker(i) == file[i].kind.pattern = "player_login" /\ file[i].part = 2

(* The start of the line of a marker found in the chunk that begins behind *)
(* part from; the search for it does not leave the chunk.                  *)
\* Mutant: the position in the chunk is taken for one in the file.
LineOffsetInChunk(from, marker) ==
  LET ends == {i \in from + 1 .. marker - 1 : EndsLine(file[i])}
  IN  IF ends = {} THEN from ELSE Max(ends) - from

LineOffset(from, marker) ==
  LET ends == {i \in from + 1 .. marker - 1 : EndsLine(file[i])}
  IN  IF ends = {} THEN from ELSE Max(ends)

(* Chunks are counted back from the end; each ends where the one before it *)
(* began, and the markers found are those that lie within one.             *)
ChunkStart(pos, k) == IF k * Chunk >= pos THEN 0 ELSE pos - k * Chunk
Hits(pos, k) == {i \in ChunkStart(pos, k) + 1 .. ChunkStart(pos, k - 1) - 1 : Marker(i)}
HitChunks(pos) == {k \in 1 .. pos : Hits(pos, k) # {}}

(* The offset the search over the first pos parts settles on; -1 if it     *)
(* finds no marker.                                                        *)
SearchFrom(pos) ==
  IF HitChunks(pos) = {} THEN -1
  ELSE LET k == Min(HitChunks(pos))
       IN  LineOffset(ChunkStart(pos, k), Max(Hits(pos, k)))

SeekBegin ==
  /\ pc = "starting"
  /\ size' = Len(file)
  /\ pc' = "seeking"
  /\ UNCHANGED <<fileVars, offset, pieces, parserVars>>

(* Nothing found: on from the end of the file as it is by now; an empty    *)
(* file leaves the offset at its beginning.                                *)
SeekEnd ==
  /\ pc = "seeking"
  /\ offset' = IF size = 0 THEN 0
               ELSE IF SearchFrom(size) = -1 THEN Len(file)
               ELSE SearchFrom(size)
  /\ pc' = "waiting"
  /\ UNCHANGED <<fileVars, size, pieces, parserVars>>
-----------------------------------------------------------------------------
(* Run's loop, readLines and processLine.                                  *)

(* The parts of a line its pattern has to see.                             *)
Needs(kind) ==
  IF kind.pattern = "player_login" THEN {2, 3}
  ELSE IF Anatomy(kind.pattern) = "closed" THEN {1, 2} ELSE {1}

(* The pattern that parts first to last of a line match.  A notification   *)
(* that goes on in the next line has no closing quote, and its pattern is  *)
(* to stop at the end of the text; but a whole line comes with its newline,*)
(* which "$" does not pass over.                                           *)
Match(kind, first, last) ==
  IF /\ kind.pattern # NoMatch
     /\ Needs(kind) \subseteq first .. last
     /\ ~(kind.split /\ last = Width(kind))
  THEN kind.pattern ELSE NoMatch

Poll ==
  /\ pc = "waiting"
  /\ pc' = "reading"
  /\ UNCHANGED <<fileVars, size, offset, pieces, parserVars>>

(* ReadString returns a line, or what there is of one at the end of file;  *)
(* either is parsed as a line, and the second ends the round.              *)
LineEnds == {i \in offset + 1 .. Len(file) : EndsLine(file[i])}
LineRead == IF LineEnds = {} THEN Len(file) ELSE Min(LineEnds)

ProcessLine(from, to) ==
  LET kind == file[to].kind
      first == file[from].part
      last == file[to].part
  IN  /\ Parse(Match(kind, first, last))
      /\ pieces' = Append(pieces, [line |-> file[to].line, kind |-> kind,
                                   first |-> first, last |-> last])

\* Mutant: what there is of a line is parsed and then read again.
ReadLineAgain ==
  /\ pc = "reading"
  /\ offset < Len(file)
  /\ ProcessLine(offset + 1, LineRead)
  /\ offset' = IF LineEnds = {} THEN offset ELSE LineRead
  /\ pc' = IF LineEnds = {} THEN "waiting" ELSE "reading"
  /\ UNCHANGED <<fileVars, size>>

\* Mutant: the round does not end before the line does.
ReadWholeLine ==
  /\ pc = "reading"
  /\ LineEnds # {}
  /\ ProcessLine(offset + 1, LineRead)
  /\ offset' = LineRead
  /\ UNCHANGED <<fileVars, size, pc>>

ReadLine ==
  /\ pc = "reading"
  /\ offset < Len(file)
  /\ ProcessLine(offset + 1, LineRead)
  /\ offset' = LineRead
  /\ pc' = IF LineEnds = {} THEN "waiting" ELSE "reading"
  /\ UNCHANGED <<fileVars, size>>

(* At the end of the file, or beyond it if it was started afresh.          *)
ReadEOF ==
  /\ pc = "reading"
  /\ offset >= Len(file)
  /\ pc' = "waiting"
  /\ UNCHANGED <<fileVars, size, offset, pieces, parserVars>>

(* The context is cancelled, which Run sees between two rounds.            *)
Stop ==
  /\ pc = "waiting"
  /\ pc' = "stopped"
  /\ UNCHANGED <<fileVars, size, offset, pieces, parserVars>>

Game == BeginLine \/ ContinueLine \/ Truncate
Run == SeekBegin \/ SeekEnd \/ Poll \/ ReadLine \/ ReadEOF
Next == Game \/ Run \/ Stop

(* The ticker goes on and the goroutine runs; the game promises nothing.   *)
Spec == Init /\ [][Next]_vars /\ WF_vars(Run)
-----------------------------------------------------------------------------
TypeOK ==
  /\ pc \in {"starting", "seeking", "waiting", "reading", "stopped"}
  /\ lines \in 0 .. MaxLines /\ truncations \in 0 .. MaxTruncations
  /\ size \in Nat /\ offset \in Nat
  /\ \A i \in DOMAIN file : /\ file[i].kind \in Kinds
                            /\ file[i].line \in 1 .. lines
                            /\ file[i].part \in 1 .. Width(file[i].kind)
  /\ Len(pieces) = Len(seen)
  /\ pendingType \in Headers \union {None} /\ pendingData \in 0 .. Len(seen)

(* However the file is cut into pieces, and although it may begin afresh   *)
(* under the reader, the events come in the order of the lines they end    *)
(* in, and no line yields two (tailer.go:151-171).                         *)
PublishedInOrder ==
  \A m, n \in DOMAIN published :
    m < n => pieces[published[m].line].line < pieces[published[n].line].line

(* The last marker in the first n parts of the file, 0 if there is none.   *)
LastMarker(n) == Max({i \in 1 .. n - 1 : Marker(i)} \union {0})

(* The search ends inside the line of the last login, at or before its     *)
(* marker, so that the last session and no more is read again, whatever    *)
(* the chunks cut, save the marker itself; with no login in the file no    *)
(* line found there is read (tailer.go:72-128).                            *)
SeekFindsTheSession ==
  LET login == LastMarker(size)
  IN  (pc = "seeking" /\ pc' # "seeking") =>
        IF login = 0 THEN offset' \in size .. Len(file)
        ELSE (size - login) % Chunk # 0 =>
               /\ offset' < login
               /\ \A i \in offset' + 1 .. login : ~EndsLine(file[i])
SeeksRight == [][SeekFindsTheSession]_vars

(* Whatever the game writes is read, unless the tailer is stopped or the   *)
(* log starts afresh (tailer.go:57-67).                                    *)
EverythingIsRead ==
  []<>(offset >= Len(file) \/ pc = "stopped" \/ truncations > 0)

(* logtest's parse of a line, which has no newline (main.go:104-105).      *)
CorpusMatch(kind) ==
  IF kind.pattern # NoMatch /\ Anatomy(kind.pattern) = "end" THEN kind.pattern
  ELSE Match(kind, 1, Width(kind))

(* The corpus run counts what the companion will see: a line the tailer    *)
(* reads in one piece matches the pattern logtest counts it under.         *)
LiveMatchesCorpus ==
  \A i \in DOMAIN pieces :
    pieces[i].first = 1 /\ pieces[i].last = Width(pieces[i].kind) =>
      seen[i] = CorpusMatch(pieces[i].kind)
=============================================================================
