------------------------------ MODULE Pipeline ------------------------------
(***************************************************************************)
(* From the log to the store: what the tailers read goes through the bus   *)
(* (bus.go) to the tray and to the subscriber of App.startup (app.go),     *)
(* which leaves out duplicates, stores the others and writes them to       *)
(* events.log; EventFeed has the buffering that follows.                   *)
(*                                                                         *)
(* Publish calls the handlers in the goroutine of the tailer.  Choosing a  *)
(* log file starts another tailer, which reads the last session from its   *)
(* login again; the old one is cancelled, and not waited for.  Here a line *)
(* is the event it yields (LogTailer has the lines that yield none, or two *)
(* that yield one), the file is the last session's, and the file chosen is *)
(* the same again, as it is when the player means to restart the tailer.   *)
(***************************************************************************)
EXTENDS Deduplicator, Tray, FiniteSets

CONSTANTS
  MaxTailers,   \* bound: tailers started
  MaxLog,       \* bound: events the game logs
  MaxFailures   \* bound: inserts and writes to events.log that fail

ASSUME PipelineAssumption ==
  /\ MaxTailers \in Nat \ {0} /\ MaxLog \in Nat /\ MaxFailures \in Nat
  /\ \A k \in Keys : k.type \in STRING /\ k.ship \in STRING

VARIABLES
  log,        \* the last session in Game.log, a sequence of events
  started,    \* tailers started so far; they are 1 .. started
  cancelled,  \* those whose context is cancelled
  pc,         \* where each tailer is
  pos,        \* events of the log each has published
  ships,      \* the list of ships handleEvent has read
  carried,    \* history: when the event each is to store passed
  rows,       \* the copies the events table has a row of
  failed,     \* history: those whose insert failed
  eventLog,   \* the copies events.log has a line of
  unlogged,   \* history: those whose write failed
  overlapped  \* history: two tailers have published the session in turns

tailerVars == <<started, cancelled, pc, pos, ships, carried>>
sinkVars == <<rows, failed, eventLog, unlogged>>
vars == <<log, tailerVars, sinkVars, overlapped, dedupVars, trayVars>>

Tailers == 1 .. MaxTailers
Publishing == {"tray", "filter", "store", "write"}

StartedPc(n) == [t \in Tailers |-> IF t <= n THEN "waiting" ELSE "off"]

Init ==
  /\ log = <<>>
  /\ started = 1 /\ cancelled = {} /\ pc = StartedPc(1)
  /\ pos = [t \in Tailers |-> 0]
  /\ ships = [t \in Tailers |-> <<>>]
  /\ carried = [t \in Tailers |-> 0]
  /\ rows = {} /\ failed = {} /\ eventLog = {} /\ unlogged = {}
  /\ overlapped = FALSE
  /\ DedupInit /\ TrayInit

(* The event tailer t is publishing.                                       *)
Event(t) == log[pos[t]]

(* What becomes of an event is told of each copy of it that passed.        *)
Copies == [event : Keys, at : Nat]
Copy(t) == [event |-> Event(t), at |-> carried[t]]

Goto(t, label) == pc' = [pc EXCEPT ![t] = label]
-----------------------------------------------------------------------------
(* The game (external).                                                    *)
GameLogs ==
  /\ Len(log) < MaxLog
  /\ \E e \in Keys : log' = Append(log, e)
  /\ UNCHANGED <<tailerVars, sinkVars, overlapped, dedupVars, trayVars>>
-----------------------------------------------------------------------------
(* BrowseGameLog and restartTailer.                                        *)

RestartTailer ==
  /\ started < MaxTailers
  /\ started' = started + 1
  /\ cancelled' = 1 .. started
  /\ pc' = [pc EXCEPT ![started + 1] = "waiting"]
  /\ UNCHANGED <<log, pos, ships, carried, sinkVars, overlapped, dedupVars,
                 trayVars>>

\* Mutant: a tailer that could not be made counts as started.
RestartCountsFailure ==
  /\ started \notin cancelled /\ started < MaxTailers
  /\ cancelled' = 1 .. started
  /\ started' = started + 1
  /\ UNCHANGED <<log, pc, pos, ships, carried, sinkVars, overlapped, dedupVars,
                 trayVars>>

(* The file is gone: no tailer runs any more.                              *)
RestartFails ==
  /\ started \notin cancelled
  /\ cancelled' = 1 .. started
  /\ UNCHANGED <<log, started, pc, pos, ships, carried, sinkVars,
                 overlapped, dedupVars, trayVars>>
-----------------------------------------------------------------------------
(* A tailer.  A tick and a cancelled context may both be there to choose   *)
(* from.                                                                   *)
Poll(t) ==
  /\ pc[t] = "waiting" /\ pos[t] < Len(log)
  /\ Goto(t, "reading")
  /\ UNCHANGED <<log, started, cancelled, pos, ships, carried, sinkVars, overlapped,
                 dedupVars, trayVars>>

Stop(t) ==
  /\ pc[t] = "waiting" /\ t \in cancelled
  /\ Goto(t, "stopped")
  /\ UNCHANGED <<log, started, cancelled, pos, ships, carried, sinkVars, overlapped,
                 dedupVars, trayVars>>

\* Mutant: the end of the file is an error, which ends Run.
ReadEOFReturns(t) ==
  /\ pc[t] = "reading" /\ pos[t] = Len(log)
  /\ Goto(t, "stopped")
  /\ UNCHANGED <<log, started, cancelled, pos, ships, carried, sinkVars, overlapped,
                 dedupVars, trayVars>>

ReadEOF(t) ==
  /\ pc[t] = "reading" /\ pos[t] = Len(log)
  /\ Goto(t, "waiting")
  /\ UNCHANGED <<log, started, cancelled, pos, ships, carried, sinkVars, overlapped,
                 dedupVars, trayVars>>

(* The next event is published, to the tray first: handleEvent reads the   *)
(* list of ships ...                                                       *)
Publish(t) ==
  /\ pc[t] = "reading" /\ pos[t] < Len(log)
  /\ pos' = [pos EXCEPT ![t] = @ + 1]
  /\ ships' = [ships EXCEPT ![t] = activeShips]
  /\ Goto(t, "tray")
  /\ overlapped' = (overlapped \/ \E u \in Tailers \ {t} : \/ pc[u] \in Publishing
                                                           \/ u > t /\ pos[u] > 0)
  /\ UNCHANGED <<log, started, cancelled, carried, sinkVars, dedupVars, trayVars>>

(* ... and writes it.                                                      *)
TrayHandles(t) ==
  /\ pc[t] = "tray"
  /\ HandleEvent(ships[t], Event(t))
  /\ ships' = [ships EXCEPT ![t] = <<>>]
  /\ Goto(t, "filter")
  /\ UNCHANGED <<log, started, cancelled, pos, carried, sinkVars, overlapped,
                 dedupVars>>

(* The subscriber: the coalescer lets everything pass, since the parser    *)
(* joins the lines of a payment itself.                                    *)
Filter(t) ==
  /\ pc[t] = "filter"
  /\ IsDuplicate(Event(t))
  /\ IF SeenRecently(Event(t))
     THEN Goto(t, "reading") /\ UNCHANGED carried
     ELSE Goto(t, "store") /\ carried' = [carried EXCEPT ![t] = now]
  /\ UNCHANGED <<log, started, cancelled, pos, ships, sinkVars, overlapped, trayVars>>

InsertEvent(t) ==
  /\ pc[t] = "store"
  /\ rows' = rows \union {Copy(t)}
  /\ Goto(t, "write")
  /\ UNCHANGED <<log, started, cancelled, pos, ships, carried, failed, eventLog,
                 unlogged, overlapped, dedupVars, trayVars>>

(* Something may still fail.                                               *)
MayFail == Cardinality(failed) + Cardinality(unlogged) < MaxFailures

\* Mutant: the subscriber returns with the error.
InsertFailsAndReturns(t) ==
  /\ pc[t] = "store" /\ MayFail
  /\ failed' = failed \union {Copy(t)}
  /\ Goto(t, "reading")
  /\ carried' = [carried EXCEPT ![t] = 0]
  /\ UNCHANGED <<log, started, cancelled, pos, ships, rows, eventLog, unlogged,
                 overlapped, dedupVars, trayVars>>

(* The error is logged, and the event goes on to the others.               *)
InsertFails(t) ==
  /\ pc[t] = "store" /\ MayFail
  /\ failed' = failed \union {Copy(t)}
  /\ Goto(t, "write")
  /\ UNCHANGED <<log, started, cancelled, pos, ships, carried, rows, eventLog,
                 unlogged, overlapped, dedupVars, trayVars>>

(* The disk may be full, or shutdown have closed the file: the error of    *)
(* Write is not looked at.                                                 *)
WriteEventLog(t) ==
  /\ pc[t] = "write"
  /\ \/ /\ eventLog' = eventLog \union {Copy(t)}
        /\ UNCHANGED unlogged
     \/ /\ MayFail
        /\ unlogged' = unlogged \union {Copy(t)}
        /\ UNCHANGED eventLog
  /\ Goto(t, "reading")
  /\ carried' = [carried EXCEPT ![t] = 0]
  /\ UNCHANGED <<log, started, cancelled, pos, ships, rows, failed, overlapped,
                 dedupVars, trayVars>>

Tailer(t) ==
  \/ Poll(t) \/ Stop(t) \/ ReadEOF(t) \/ Publish(t) \/ TrayHandles(t) \/ Filter(t)
  \/ InsertEvent(t) \/ InsertFails(t) \/ WriteEventLog(t)
-----------------------------------------------------------------------------
(* The clock and the deduplicator's own goroutine.                         *)
TimeStep ==
  /\ Tick \/ Cleanup
  /\ UNCHANGED <<log, tailerVars, sinkVars, overlapped, trayVars>>

Next ==
  \/ GameLogs \/ RestartTailer \/ RestartFails \/ TimeStep
  \/ \E t \in Tailers : Tailer(t)

Spec == Init /\ [][Next]_vars /\ \A t \in Tailers : WF_vars(Tailer(t))
-----------------------------------------------------------------------------
TypeOK ==
  /\ DedupTypeOK
  /\ log \in Seq(Keys) /\ Len(log) <= MaxLog
  /\ started \in Tailers /\ cancelled \subseteq 1 .. started
  /\ \A t \in Tailers :
       /\ pc[t] \in Publishing \union {"off", "waiting", "reading", "stopped"}
       /\ pc[t] = "off" <=> t > started
       /\ pos[t] \in 0 .. Len(log)
  /\ \A t \in Tailers : carried[t] \in 0 .. now
  /\ rows \union failed \union eventLog \union unlogged \subseteq Copies
  /\ overlapped \in BOOLEAN

(* All there is to read has been read, and is through.                     *)
Settled ==
  /\ started \notin cancelled /\ pos[started] = Len(log)
  /\ \A t \in 1 .. started : pc[t] \in {"waiting", "stopped"}

(* Reading the session again, from the middle of it, leaves the tray with  *)
(* the ships the log leaves the player aboard of, and with a current ship  *)
(* that is one of them unless there is none, if no tailer published beside *)
(* a later one (app.go:418-443, tray.go:73-119).                           *)
TrayFollowsTheLog ==
  Settled /\ ~overlapped =>
    /\ ToSet(activeShips) = Aboard(log) /\ IsInjective(activeShips)
    /\ currentShip \in Aboard(log) \/ (currentShip = Empty /\ Aboard(log) = {})

(* Once the log is read each of its events has passed, though duplicates   *)
(* are dropped before it is known whether what they duplicate can be       *)
(* stored; and each time it passed it was put in the store and into        *)
(* events.log, unless that very insert or write failed (app.go:165-197).   *)
LogReachesStore ==
  Settled => \A i \in DOMAIN log :
    /\ passed[log[i]] # {}
    /\ \A time \in passed[log[i]] :
         \E copy \in (rows \union failed) \intersect (eventLog \union unlogged) :
           copy.event = log[i] /\ copy.at = time

(* However often the session is read again, and by however many tailers at *)
(* once, an event gets another row only if a cooldown lies between the two *)
(* passes, whichever is stored first (app.go:174-183, dedup.go:35-65).     *)
RowsApart ==
  [][\A t \in Tailers : InsertEvent(t) =>
       \A r \in rows : r.event = Event(t) =>
         r.at + Period <= carried[t] \/ carried[t] + Period <= r.at]_vars

(* Whatever the game logs goes through every handler, unless no tailer is  *)
(* left to read it (tailer.go:57-67, bus.go:182-189).                      *)
EverythingIsPublished == []<>(Settled \/ started \in cancelled)
=============================================================================
