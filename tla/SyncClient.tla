----------------------------- MODULE SyncClient -----------------------------
(***************************************************************************)
(* The goroutines that send stored events to the SC Bridge API             *)
(* (internal/sync/client.go), the table they share (Store), the preference *)
(* objects their filter reads, and the API as the client sees it.          *)
(*                                                                         *)
(* A client is a goroutine in Client.Run.  More than one may run at a      *)
(* time: App.startSync starts a new one on every connect, and the one it   *)
(* cancels first still makes a final attempt.  An attempt (syncBatch) is   *)
(* cut into the steps between which the rest of the program can act: the   *)
(* query, the check of each event, the request, the API's answer, and the  *)
(* update of the table.  The process may be closed or killed between any   *)
(* two of them and be started again on the same database.                  *)
(***************************************************************************)
EXTENDS Store

CONSTANTS
  Clients,      \* the goroutines that may run Client.Run
  BatchSize,    \* Client.batchSize, 100 in the code
  DefaultTypes, \* the types DefaultSyncPreferences enables
  MaxPrefs,     \* bound on the preference objects one process creates
  MaxLate       \* bound on the abandoned requests the API may still read

ASSUME ClientAssumption ==
  /\ BatchSize \in Nat \ {0}
  /\ DefaultTypes \subseteq Types
  /\ MaxPrefs \in Nat \ {0}
  /\ MaxLate \in Nat

VARIABLES
  running,    \* the companion's process is alive
  prefs,      \* the types each SyncPreferences object enables
  current,    \* the object App.syncPrefs points at
  pc,         \* where each client is
  cancelled,  \* the running client's context is done
  final,      \* the attempt under way is the one Run makes after ctx.Done
  check,      \* the object whose IsEnabled the client was given
  batch,      \* the ids the attempt's query returned
  todo,       \* those of them not yet checked
  payload,    \* those of them the check let through
  accepted,   \* the API has accepted the client's request; its 200 is on its way
  late,       \* payloads of abandoned requests the API may still read
  delivered,  \* the ids the API has accepted
  withheld    \* the ids some client's check has refused (history)

prefVars == <<prefs, current>>
clientVars == <<pc, cancelled, final, check, batch, todo, payload, accepted>>
apiVars == <<late, delivered>>
vars == <<storeVars, running, prefVars, clientVars, apiVars, withheld>>

Prefs == 1 .. MaxPrefs

TypeOK ==
  /\ StoreTypeOK
  /\ running \in BOOLEAN
  /\ prefs \in [Prefs -> SUBSET Types]
  /\ current \in Prefs
  /\ pc \in [Clients -> {"off", "select", "filter", "send", "mark"}]
  /\ cancelled \in [Clients -> BOOLEAN]
  /\ final \in [Clients -> BOOLEAN]
  /\ check \in [Clients -> Prefs]
  /\ batch \in [Clients -> SUBSET Ids]
  /\ todo \in [Clients -> SUBSET Ids]
  /\ payload \in [Clients -> SUBSET Ids]
  /\ accepted \in [Clients -> BOOLEAN]
  /\ late \subseteq SUBSET Ids
  /\ delivered \subseteq Ids
  /\ withheld \subseteq Ids

Init ==
  /\ StoreInit
  /\ running = TRUE
  /\ prefs = [o \in Prefs |-> DefaultTypes]
  /\ current = 1
  /\ pc = [c \in Clients |-> "off"]
  /\ cancelled = [c \in Clients |-> FALSE]
  /\ final = [c \in Clients |-> FALSE]
  /\ check = [c \in Clients |-> 1]
  /\ batch = [c \in Clients |-> {}]
  /\ todo = [c \in Clients |-> {}]
  /\ payload = [c \in Clients |-> {}]
  /\ accepted = [c \in Clients |-> FALSE]
  /\ late = {}
  /\ delivered = {}
  /\ withheld = {}

----------------------------------------------------------------------------
(* The goroutine of client c.                                              *)

\* The query of syncBatch, when it finds rows.
Fetch(c) ==
  /\ open
  /\ Unsynced # {}
  /\ pc' = [pc EXCEPT ![c] = "filter"]
  /\ batch' = [batch EXCEPT ![c] = UnsyncedEvents(BatchSize)]
  /\ todo' = [todo EXCEPT ![c] = UnsyncedEvents(BatchSize)]
  /\ UNCHANGED <<storeVars, running, prefVars, cancelled, check, payload,
                 accepted, apiVars, withheld>>

\* The ticker fires and select takes its branch, which it may do even when
\* the context is done.  A query that fails, or finds nothing, changes nothing.
Tick(c) ==
  /\ pc[c] = "select"
  /\ final' = [final EXCEPT ![c] = FALSE]
  /\ Fetch(c)

\* select takes the ctx.Done branch: one last attempt, on a fresh context.
FinalTick(c) ==
  /\ pc[c] = "select"
  /\ cancelled[c]
  /\ final' = [final EXCEPT ![c] = TRUE]
  /\ Fetch(c)

\* A loop that goes on after the last attempt instead of returning.
FinalFetchContinues(c) ==
  /\ pc[c] = "select"
  /\ cancelled[c]
  /\ UNCHANGED vars

\* The last attempt's query finds nothing or fails (it does once the database
\* is closed, and may at any time): Run returns.
FinalFetchEnds(c) ==
  /\ pc[c] = "select"
  /\ cancelled[c]
  /\ pc' = [pc EXCEPT ![c] = "off"]
  /\ cancelled' = [cancelled EXCEPT ![c] = FALSE]
  /\ UNCHANGED <<storeVars, running, prefVars, final, check, batch, todo,
                 payload, accepted, apiVars, withheld>>

\* The next event of the batch is put to the client's check.
CheckEvent(c) ==
  /\ pc[c] = "filter"
  /\ \E i \in todo[c] :
       /\ \A j \in todo[c] : i <= j
       /\ todo' = [todo EXCEPT ![c] = @ \ {i}]
       /\ \/ /\ rows[i] \in prefs[check[c]]
             /\ payload' = [payload EXCEPT ![c] = @ \cup {i}]
             /\ UNCHANGED withheld
          \/ /\ rows[i] \notin prefs[check[c]]
             /\ withheld' = withheld \cup {i}
             /\ UNCHANGED payload
  /\ UNCHANGED <<storeVars, running, prefVars, pc, cancelled, final, check,
                 batch, accepted, apiVars>>

\* A client that keeps the filtered events of one attempt for the next.
ReturnKeepingPayload(c) ==
  /\ pc' = [pc EXCEPT ![c] = IF final[c] THEN "off" ELSE "select"]
  /\ batch' = [batch EXCEPT ![c] = {}]
  /\ todo' = [todo EXCEPT ![c] = {}]
  /\ accepted' = [accepted EXCEPT ![c] = FALSE]
  /\ final' = [final EXCEPT ![c] = FALSE]
  /\ cancelled' = [cancelled EXCEPT ![c] = @ /\ ~final[c]]
  /\ UNCHANGED <<running, prefVars, check, payload>>

\* syncBatch returns: Run goes back to its select, or returns after the last.
Return(c) ==
  /\ pc' = [pc EXCEPT ![c] = IF final[c] THEN "off" ELSE "select"]
  /\ batch' = [batch EXCEPT ![c] = {}]
  /\ todo' = [todo EXCEPT ![c] = {}]
  /\ payload' = [payload EXCEPT ![c] = {}]
  /\ accepted' = [accepted EXCEPT ![c] = FALSE]
  /\ final' = [final EXCEPT ![c] = FALSE]
  /\ cancelled' = [cancelled EXCEPT ![c] = @ /\ ~final[c]]
  /\ UNCHANGED <<running, prefVars, check>>

\* A client that updates the table before it sends what it marks.
SendAfterMarking(c) ==
  /\ pc[c] = "filter"
  /\ todo[c] = {}
  /\ pc' = [pc EXCEPT ![c] = IF payload[c] = {} THEN "mark" ELSE "send"]
  /\ synced' = synced \cup batch[c]
  /\ UNCHANGED <<rows, open, running, prefVars, cancelled, final, check, batch,
                 todo, payload, accepted, apiVars, withheld>>

\* Every event is checked: the rows are marked at once when nothing is to be
\* sent; otherwise the request goes out, unless its context is done already.
Send(c) ==
  /\ pc[c] = "filter"
  /\ todo[c] = {}
  /\ payload[c] # {} => final[c] \/ ~cancelled[c]
  /\ pc' = [pc EXCEPT ![c] = IF payload[c] = {} THEN "mark" ELSE "send"]
  /\ UNCHANGED <<storeVars, running, prefVars, cancelled, final, check, batch,
                 todo, payload, accepted, apiVars, withheld>>

SendCancelled(c) ==
  /\ pc[c] = "filter"
  /\ todo[c] = {}
  /\ payload[c] # {}
  /\ cancelled[c] /\ ~final[c]
  /\ Return(c)
  /\ UNCHANGED <<storeVars, apiVars, withheld>>

\* The requests with these payloads stay on their way to the API.
Abandon(payloads) ==
  /\ late' = late \cup payloads
  /\ Cardinality(late') <= MaxLate

\* The request ends without an answer: the network fails, the client's
\* 30-second timeout expires, or its context is cancelled.  The API may not
\* have read the request, may have accepted it, or may still come to read it.
SendFails(c) ==
  /\ pc[c] = "send"
  /\ \/ UNCHANGED late
     \/ ~accepted[c] /\ Abandon({payload[c]})
  /\ Return(c)
  /\ UNCHANGED <<storeVars, delivered, withheld>>

\* The API's 200 arrives.
ReceiveOK(c) ==
  /\ pc[c] = "send"
  /\ accepted[c]
  /\ pc' = [pc EXCEPT ![c] = "mark"]
  /\ UNCHANGED <<storeVars, running, prefVars, cancelled, final, check, batch,
                 todo, payload, accepted, apiVars, withheld>>

\* A client that goes on to mark the rows whatever the API's status code.
ReceiveErrorUnchecked(c) ==
  /\ pc[c] = "send"
  /\ ~accepted[c]
  /\ pc' = [pc EXCEPT ![c] = "mark"]
  /\ UNCHANGED <<storeVars, running, prefVars, cancelled, final, check, batch,
                 todo, payload, accepted, apiVars, withheld>>

\* The API answers anything else, having kept nothing, and the attempt ends (a
\* 401 also tells the frontend, which is left to App).
ReceiveError(c) ==
  /\ pc[c] = "send"
  /\ ~accepted[c]
  /\ Return(c)
  /\ UNCHANGED <<storeVars, apiVars, withheld>>

\* The largest id taken from the filtered events instead of the batch.
MarkSentOnly(c) ==
  /\ pc[c] = "mark"
  /\ open
  /\ \E maxID \in payload[c] :
       /\ \A i \in payload[c] : i <= maxID
       /\ synced' = MarkSynced(maxID)
  /\ Return(c)
  /\ UNCHANGED <<rows, open, apiVars, withheld>>

\* MarkSynced(maxID), maxID the largest id of the batch, sent or not.
Mark(c) ==
  /\ pc[c] = "mark"
  /\ open
  /\ \E maxID \in batch[c] :
       /\ \A i \in batch[c] : i <= maxID
       /\ synced' = MarkSynced(maxID)
  /\ Return(c)
  /\ UNCHANGED <<rows, open, apiVars, withheld>>

\* The update fails: the database is locked, full or closed.
MarkFails(c) ==
  /\ pc[c] = "mark"
  /\ Return(c)
  /\ UNCHANGED <<storeVars, apiVars, withheld>>

----------------------------------------------------------------------------
(* The API.                                                                *)

\* It accepts the whole of client c's request and answers 200.
Accept(c) ==
  /\ pc[c] = "send"
  /\ ~accepted[c]
  /\ accepted' = [accepted EXCEPT ![c] = TRUE]
  /\ delivered' = delivered \cup payload[c]
  /\ UNCHANGED <<storeVars, running, prefVars, pc, cancelled, final, check,
                 batch, todo, payload, late, withheld>>

\* It accepts a request its client no longer waits for.
AcceptLate(p) ==
  /\ p \in late
  /\ late' = late \ {p}
  /\ delivered' = delivered \cup p
  /\ UNCHANGED <<storeVars, running, prefVars, clientVars, withheld>>

----------------------------------------------------------------------------
(* The rest of the program, as far as the client can see it.               *)

\* The event pipeline stores an event of type t.
InsertEvent(t) ==
  /\ running
  /\ Insert(t)
  /\ UNCHANGED <<running, prefVars, clientVars, apiVars, withheld>>

\* App.SetSyncPreference writes to the current object's map.
SetSyncPreference(t, enabled) ==
  /\ running
  /\ prefs' = [prefs EXCEPT ![current] = IF enabled THEN @ \cup {t} ELSE @ \ {t}]
  /\ UNCHANGED <<storeVars, running, current, clientVars, apiVars, withheld>>

\* App.ResetSyncPreferences points App.syncPrefs at a new object.
ResetSyncPreferences ==
  /\ running
  /\ current < MaxPrefs
  /\ current' = current + 1
  /\ prefs' = [prefs EXCEPT ![current + 1] = DefaultTypes]
  /\ UNCHANGED <<storeVars, running, clientVars, apiVars, withheld>>

\* A client is created with the current object's IsEnabled, and Run started.
Start(c) ==
  /\ running
  /\ pc[c] = "off"
  /\ pc' = [pc EXCEPT ![c] = "select"]
  /\ check' = [check EXCEPT ![c] = current]
  /\ UNCHANGED <<storeVars, running, prefVars, cancelled, final, batch, todo,
                 payload, accepted, apiVars, withheld>>

\* The client's context is cancelled.
Cancel(c) ==
  /\ pc[c] # "off"
  /\ ~cancelled[c]
  /\ cancelled' = [cancelled EXCEPT ![c] = TRUE]
  /\ UNCHANGED <<storeVars, running, prefVars, pc, final, check, batch, todo,
                 payload, accepted, apiVars, withheld>>

\* App.shutdown closes the database, whatever the clients are doing.
Close ==
  /\ running /\ open
  /\ open' = FALSE
  /\ UNCHANGED <<rows, synced, running, prefVars, clientVars, apiVars, withheld>>

\* The process ends, after a shutdown or without one.  Of the requests it
\* leaves unanswered the API may still read some.
Exit ==
  /\ running
  /\ running' = FALSE
  /\ open' = FALSE
  /\ \E lost \in SUBSET {c \in Clients : pc[c] = "send" /\ ~accepted[c]} :
       Abandon({payload[c] : c \in lost})
  /\ pc' = [c \in Clients |-> "off"]
  /\ final' = [c \in Clients |-> FALSE]
  /\ cancelled' = [c \in Clients |-> FALSE]
  /\ batch' = [c \in Clients |-> {}]
  /\ todo' = [c \in Clients |-> {}]
  /\ payload' = [c \in Clients |-> {}]
  /\ accepted' = [c \in Clients |-> FALSE]
  /\ UNCHANGED <<rows, synced, prefVars, check, delivered, withheld>>

\* A migration that recreates the events table.
RestartRecreatingTable ==
  /\ ~running
  /\ running' = TRUE
  /\ open' = TRUE
  /\ rows' = << >>
  /\ current' = 1
  /\ \E enabled \in SUBSET Types : prefs' = [prefs EXCEPT ![1] = enabled]
  /\ UNCHANGED <<synced, clientVars, apiVars, withheld>>

\* A new process opens the same database and loads some preferences.
Restart ==
  /\ ~running
  /\ running' = TRUE
  /\ open' = TRUE
  /\ current' = 1
  /\ \E enabled \in SUBSET Types : prefs' = [prefs EXCEPT ![1] = enabled]
  /\ UNCHANGED <<rows, synced, clientVars, apiVars, withheld>>

----------------------------------------------------------------------------

ClientStep(c) ==
  \/ Tick(c) \/ FinalTick(c) \/ FinalFetchEnds(c)
  \/ CheckEvent(c) \/ Send(c) \/ SendCancelled(c) \/ SendFails(c)
  \/ ReceiveOK(c) \/ ReceiveError(c) \/ Mark(c) \/ MarkFails(c)

ApiStep ==
  \/ \E c \in Clients : Accept(c)
  \/ \E p \in late : AcceptLate(p)

AppStep ==
  \/ \E t \in Types : InsertEvent(t)
  \/ \E t \in Types, enabled \in BOOLEAN : SetSyncPreference(t, enabled)
  \/ ResetSyncPreferences
  \/ \E c \in Clients : Start(c) \/ Cancel(c)
  \/ Close \/ Exit \/ Restart

Next == (\E c \in Clients : ClientStep(c)) \/ ApiStep \/ AppStep

Spec == Init /\ [][Next]_vars

----------------------------------------------------------------------------
(* Safety.                                                                 *)

\* No event is silently lost: a row is marked synced (and so never read by
\* syncBatch again) only if the API has accepted the event or the player's
\* preferences withheld it, whatever clients overlap and whatever fails.
NoSilentLoss == synced \subseteq delivered \cup withheld

\* The API never has an event while an older one is still due: a gap in what
\* it has seen is an event the preferences withheld.
NoGaps == \A i \in delivered : 1 .. i \subseteq delivered \cup withheld

\* Everything older than an event of p has been dealt with, or is in p too.
InOrder(p) == \A i \in p : 1 .. i \subseteq p \cup delivered \cup withheld

\* What holds of client c's attempt between two steps.
AttemptOK(c) ==
  /\ pc[c] \in {"off", "select"} => batch[c] = {}
  /\ pc[c] \in {"send", "mark"} => todo[c] = {}
  /\ todo[c] \subseteq batch[c]
  /\ payload[c] \subseteq batch[c] \ todo[c]
  /\ batch[c] \subseteq todo[c] \cup payload[c] \cup withheld
  /\ \A i \in batch[c] : 1 .. i \subseteq batch[c] \cup synced
  /\ accepted[c] => pc[c] \in {"send", "mark"}
  /\ accepted[c] \/ pc[c] = "mark" => payload[c] \subseteq delivered

\* The inductive invariant: each batch reaches back to the synced rows, each
\* request, under way or abandoned, fills the gap up to its last event, and a
\* client at its update has dealt with its whole batch.
Inv ==
  /\ TypeOK
  /\ \A c \in Clients : AttemptOK(c)
  /\ \A p \in late : InOrder(p)
  /\ NoSilentLoss
  /\ NoGaps

\* When a row becomes synced, a client whose batch holds it is at its update,
\* and that attempt dealt with the row itself: the API accepted it, or this
\* client's own check kept it out of the payload.  In particular a row
\* inserted after the query is never marked by it.
MarkedByItsOwnAttempt ==
  [][\A i \in Ids : i \notin synced /\ i \in synced' =>
       \E c \in Clients : /\ pc[c] = "mark"
                          /\ i \in batch[c]
                          /\ i \in payload[c] => i \in delivered]_vars

\* An update that succeeds leaves no row of its batch unsynced, and there was
\* one, sent or not: no client makes an attempt that got through again for the
\* same rows, whatever other clients marked meanwhile (client.go:119-131, 191).
UpdateSettlesTheBatch ==
  [][\A c \in Clients : Mark(c) => batch[c] # {} /\ batch[c] \subseteq synced']_vars

\* The clients implement at-least-once delivery in order (Delivery), however
\* many of them overlap.
D == INSTANCE Delivery WITH stored <- Len(rows), settled <- synced
ImplementsDelivery == D!DeliverySpec

\* "ResetSyncPreferences resets all sync preferences to defaults" (app.go:489):
\* from then on a client checks events against the preferences in force, those
\* GetSyncPreferences shows, and no others.
ChecksFollowPreferences ==
  [][\A c \in Clients : pc'[c] = "filter" =>
       \A i \in todo[c] \ todo'[c] :
         i \in payload'[c] <=> rows[i] \in prefs[current]]_vars

----------------------------------------------------------------------------
(* Liveness.                                                               *)

\* Run's loop goes on, the ticker keeps firing, and Go's select does not for
\* ever prefer the ticker to a context that is done.  An attempt that is not
\* answered ends by its 30-second timeout (SendFails), and one that is answered
\* over and over, on a database that can be written over and over, succeeds
\* some time: the API and the database are not out for good.
Fairness ==
  /\ \A c \in Clients :
       /\ WF_vars(Tick(c))
       /\ SF_vars(FinalTick(c) \/ FinalFetchEnds(c))
       /\ WF_vars(CheckEvent(c) \/ Send(c) \/ SendCancelled(c))
       /\ WF_vars(ReceiveOK(c) \/ ReceiveError(c) \/ SendFails(c))
       /\ WF_vars(Mark(c) \/ MarkFails(c))
       /\ SF_vars(Accept(c))
       /\ SF_vars(ReceiveOK(c))
       /\ SF_vars(Mark(c))

FairSpec == Spec /\ Fairness

\* Client c keeps serving: it runs, uncancelled, on an open database.
Serving(c) == open /\ pc[c] # "off" /\ ~cancelled[c]

\* As long as some client keeps serving, every stored event is settled in the
\* end, the older ones before it and whatever attempts failed on the way.
EventuallySettled ==
  \A c \in Clients : \A i \in 1 .. MaxEvents :
    <>[]Serving(c) => [](i \in Ids => <>(i \in synced))

\* A cancelled client makes its last attempt and returns.
CancelledClientStops ==
  \A c \in Clients : cancelled[c] /\ pc[c] # "off" ~> pc[c] = "off"

=============================================================================
