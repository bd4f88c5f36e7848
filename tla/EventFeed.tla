----------------------------- MODULE EventFeed -----------------------------
(***************************************************************************)
(* The buffer of recent events (app.go) and the list the window shows      *)
(* (App.jsx): it is told of each event, and once, when it mounts, asks for *)
(* the buffer and shows the answer instead of what it had.  Messages to    *)
(* the window arrive in the order they are sent in.                        *)
(***************************************************************************)
EXTENDS Sequences, SequencesExt

CONSTANT RingSize  \* maxRecentEvents, and the length of the list: 200 both

ASSUME RingSizeAssumption == RingSize \in Nat \ {0}

VARIABLES
  ring,   \* App.recentEvents
  window, \* unmounted, asked, copied, answered or shown: how far it has got
  copy,   \* the answer GetRecentEvents has made
  wire,   \* messages on their way to the window
  feed,   \* App.jsx's events
  buffered \* history: all that was buffered, in order

feedVars == <<ring, window, copy, wire, feed, buffered>>

FeedInit ==
  /\ ring = <<>> /\ window = "unmounted" /\ copy = <<>> /\ wire = <<>> /\ feed = <<>>
  /\ buffered = <<>>

(* The last n of a sequence.                                               *)
Suffix(s, n) == IF Len(s) <= n THEN s ELSE SubSeq(s, Len(s) - n + 1, Len(s))

\* Mutant: room is made one event too late.
BufferOneMore(id) ==
  /\ ring' = Append(IF Len(ring) > RingSize THEN Tail(ring) ELSE ring, id)
  /\ buffered' = Append(buffered, id)
  /\ UNCHANGED <<window, copy, wire, feed>>

(* The oldest makes room.                                                  *)
Buffer(id) ==
  /\ ring' = Append(IF Len(ring) >= RingSize THEN Tail(ring) ELSE ring, id)
  /\ buffered' = Append(buffered, id)
  /\ UNCHANGED <<window, copy, wire, feed>>

(* EventsEmit reaches the window if it listens already.                    *)
Emit(id) ==
  /\ wire' = IF window = "unmounted" THEN wire
             ELSE Append(wire, [kind |-> "event", ids |-> <<id>>])
  /\ UNCHANGED <<ring, window, copy, feed, buffered>>

(* The window listens, then asks.                                          *)
Mount ==
  /\ window = "unmounted"
  /\ window' = "asked"
  /\ UNCHANGED <<ring, copy, wire, feed, buffered>>

(* GetRecentEvents copies the buffer under its lock ...                    *)
GetRecentEvents ==
  /\ window = "asked"
  /\ copy' = ring
  /\ window' = "copied"
  /\ UNCHANGED <<ring, wire, feed, buffered>>

\* Mutant: an empty buffer is not worth an answer.
AnswerUnlessEmpty ==
  /\ window = "copied" /\ copy # <<>>
  /\ wire' = Append(wire, [kind |-> "buffer", ids |-> copy])
  /\ window' = "answered"
  /\ copy' = <<>>
  /\ UNCHANGED <<ring, feed, buffered>>

(* ... and the copy is sent without it.                                    *)
Answer ==
  /\ window = "copied"
  /\ wire' = Append(wire, [kind |-> "buffer", ids |-> copy])
  /\ window' = "answered"
  /\ copy' = <<>>
  /\ UNCHANGED <<ring, feed, buffered>>

\* Mutant: the answer goes behind what is shown.
ReceiveBehind ==
  /\ wire # <<>>
  /\ feed' = Suffix(feed \o Head(wire).ids, RingSize)
  /\ window' = IF Head(wire).kind = "event" THEN window ELSE "shown"
  /\ wire' = Tail(wire)
  /\ UNCHANGED <<ring, copy, buffered>>

Receive ==
  /\ wire # <<>>
  /\ feed' = IF Head(wire).kind = "event" THEN Suffix(feed \o Head(wire).ids, RingSize)
             ELSE Head(wire).ids
  /\ window' = IF Head(wire).kind = "event" THEN window ELSE "shown"
  /\ wire' = Tail(wire)
  /\ UNCHANGED <<ring, copy, buffered>>

WindowActs == Mount \/ GetRecentEvents \/ Answer \/ Receive
=============================================================================
