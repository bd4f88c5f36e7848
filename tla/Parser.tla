------------------------------- MODULE Parser -------------------------------
(***************************************************************************)
(* Parser.Parse (logtailer/parser.go): one call per line, told which       *)
(* pattern the line matches.  Three notifications span two lines; the      *)
(* first is kept pending until its continuation comes.                     *)
(*                                                                         *)
(* seen and published are histories: the lines parsed so far and the       *)
(* events returned for them.  An event names its lines by their positions  *)
(* in seen: header is 0 when the event comes from one line alone.          *)
(***************************************************************************)
EXTENDS EventTypes, Sequences

VARIABLES pendingType, pendingData, seen, published

parserVars == <<pendingType, pendingData, seen, published>>

None == "none"

ParserInit ==
  /\ pendingType = None /\ pendingData = 0
  /\ seen = <<>> /\ published = <<>>

clearPending == pendingType' = None /\ pendingData' = 0

(* The line now parsed.                                                    *)
This == Len(seen) + 1

Emit(type, header) ==
  published' = Append(published, [type |-> type, header |-> header, line |-> This])

(* No pattern matches: the pending notification stays pending.             *)
ParseNothing(p) ==
  /\ p = NoMatch
  /\ UNCHANGED <<pendingType, pendingData, published>>

\* Mutant: what is pending is known by the type of the first line's event.
ParseHeaderPending(p) ==
  /\ p \in Headers
  /\ pendingType' = "money_sent_pending" /\ pendingData' = This
  /\ UNCHANGED published

(* The first line of a notification replaces whatever was pending.         *)
ParseHeader(p) ==
  /\ p \in Headers
  /\ pendingType' = p /\ pendingData' = This
  /\ UNCHANGED published

(* The second line completes the notification it belongs to.               *)
ParseContinuation(p) ==
  /\ p \in Continuations
  /\ pendingType = HeaderOf[p]
  /\ Emit(pendingType, pendingData)
  /\ clearPending

(* A second line whose first line is not pending is dropped.               *)
ParseOrphan(p) ==
  /\ p \in Continuations
  /\ pendingType # HeaderOf[p]
  /\ UNCHANGED <<pendingType, pendingData, published>>

\* Mutant: an event of one line leaves what is pending.
ParseSingleOnly(p) ==
  /\ p \in Singles
  /\ Emit(p, 0)
  /\ UNCHANGED <<pendingType, pendingData>>

(* Any other event goes out as it is, and ends what was pending.           *)
ParseSingle(p) ==
  /\ p \in Singles
  /\ Emit(p, 0)
  /\ clearPending

Parse(p) ==
  /\ seen' = Append(seen, p)
  /\ \/ ParseNothing(p)
     \/ ParseHeader(p)
     \/ ParseContinuation(p)
     \/ ParseOrphan(p)
     \/ ParseSingle(p)

ParserSpec ==
  ParserInit /\ [][\E p \in Patterns \union {NoMatch} : Parse(p)]_parserVars
-----------------------------------------------------------------------------
(* What Parse is to return for the lines seen, said of the lines alone.    *)

(* Line k ends the wait of a first line h: it is a first line itself, an   *)
(* event of its own, or the second line h waits for.                       *)
Ends(k, h) ==
  seen[k] \in Headers \union Singles
    \/ (seen[k] \in Continuations /\ HeaderOf[seen[k]] = seen[h])

(* Line h is a first line that nothing has ended before line i.            *)
Waiting(h, i) ==
  /\ h \in 1 .. i - 1
  /\ seen[h] \in Headers
  /\ \A k \in h + 1 .. i - 1 : ~Ends(k, h)

(* The event line i is to yield, as a set of none or one.                  *)
Expected(i) ==
  {[type |-> seen[i], header |-> 0, line |-> i] : x \in {seen[i]} \cap Singles}
  \union
  {[type |-> seen[h], header |-> h, line |-> i] :
     h \in {h \in 1 .. i - 1 : /\ seen[i] \in Continuations
                               /\ seen[h] = HeaderOf[seen[i]]
                               /\ Waiting(h, i)}}

(* Parse returns exactly the expected events: a continuation is joined to  *)
(* the header it belongs to and to no other, a header is used once at      *)
(* most, and a header is lost only to a line that ended its wait           *)
(* (parser.go:690-762).                                                    *)
PairsTheRightLines ==
  {published[n] : n \in DOMAIN published} = UNION {Expected(i) : i \in DOMAIN seen}
=============================================================================
