# SC Bridge Companion in TLA+

SC Bridge Companion (Go, with a React frontend inside a Wails window) tails
Star Citizen's `Game.log`, turns lines into events, stores them in a SQLite
table and sends them to the SC Bridge API. This directory specifies the parts
of it that are concurrent, that fail, or that have to keep an order, checks the
specifications with TLC on small instances, and proves the main results with
TLAPS for every instance. `PROJECT.json` lists the runs, the mutants each
property is tested against, the lines of code every definition stands for, and
the hazards the properties are aimed at.

Paths below are relative to the repository; `app.go:567` is a line of it.

## 1. The system

```
 Game.log --> Tailer/Parser --> Bus --> subscriber --+--> events table --> sync client --> API
                                  |                  +--> events.log          ^   |
                                  +--> tray          +--> ring of 200 --> UI  |   +--> 401 --> UI
                                                                              |
 UI (Settings, env switcher) --> App handlers: connect, disconnect, prefs ----+
```

| Component | State | Operations | Correct when |
|---|---|---|---|
| Event store (`internal/store/store.go`) | `events` rows, their `synced` flag, the handle | InsertEvent, UnsyncedEvents, MarkSynced, New, Close | a flag is only set for a row that was dealt with |
| Sync client (`internal/sync/client.go`) | goroutine of `Run`, the batch in hand | tick, filter, POST, mark, final attempt | nothing lost, nothing overtaken, everything sent in the end |
| Sync preferences (`internal/config/preferences.go`) | map per object, file | load, set, reset, IsEnabled | the check follows what the player sees |
| App session (`app.go`, `internal/auth`, Settings page) | token in memory and on disk, two cancel functions, environment | startup, connect, disconnect, set environment, shutdown | connected iff a reachable client is serving |
| Event pipeline (`internal/events`, `app.go:165`) | coalescer buffer, dedup map, ring of 200 | publish, coalesce, dedup, insert, emit | each line that matters stored once, in order |
| Log tailer (`internal/logtailer/tailer.go`) | offset in the file | seek to last session, follow, stop, restart | starts inside the last session's login line, publishes in order |
| Log parser (`internal/logtailer/parser.go`) | pending multi-line header | Parse | a continuation completes its own header |
| Tray (`internal/tray/tray.go`) | current ship, active ships, location, session | handleEvent | the status is the fold of the events |
| OAuth flow (`internal/auth/oauth.go`) | listener, state nonce, result channel | Start, handleCallback, shutdown | one result; page and program agree on it |
| Frontend feed and friends (`App.jsx`, `Friends.jsx`) | 200 events; friend map, time of last poll | snapshot, live event, full and delta poll | shows what the back end has |
| Updater (`internal/updater`) | release found, update script | compare versions, apply | only newer versions; replaces a stopped program |
| Window lifecycle (`app.go:684`) | hidden, quitting | minimize, restore, close, quit | quit ends the process |

Interactions. The pipeline and every client share the events table, one SQL
statement at a time. A client calls back into the preferences (`IsEnabled`,
bound to one preferences object when the client is created). The App handlers
own the clients through cancel functions; they never wait for a client to
return. The UI decides which handler can be called, from an answer of
`GetConfig` that may be out of date.

What is hard: several clients may run at once, since a cancelled one still
makes a final attempt on a fresh context (`client.go:88-91`); a request that
timed out may still be accepted; the update `WHERE id <= maxID` marks more than
the batch names; the process may end anywhere; `ConnectToSCBridge` runs for
minutes and holds the mutex for one assignment; log replay, coalescing and the
dedup window depend on the order and timing of events. The list, line by line,
is under `hazards` in `PROJECT.json`.

## 2. The modules

| Module | Models | Code |
|---|---|---|
| `Store` | the events table; one operator or action per SQL statement | `store.go` |
| `Delivery` | abstract: at-least-once delivery in order | none (a promise) |
| `SyncClient` (extends `Store`) | `Client.Run` and `syncBatch` for a set of clients, the preferences objects, the API as a client sees it, process exit and restart | `client.go`, `preferences.go`, parts of `app.go` |
| `AppSession` (extends `SyncClient`) | startup, connect, disconnect, environment, shutdown, `auth.json`, the Settings page | `app.go`, `auth.go`, `config.go`, `Settings.jsx`, `App.jsx` |
| `EventTypes` | the tables: the parser's patterns and what it makes of them, the types the coalescer waits for | `parser.go`, `dedup.go` |
| `Parser` (extends `EventTypes`) | `Parse` and its pending notification | `parser.go` |
| `LogTailer` (extends `Parser`) | the growing file, the backward search, reading lines and parts of lines, truncation | `tailer.go`, `cmd/logtest` |
| `Cooldown` | abstract: a deduplicator that remembers every event | none (a promise) |
| `Deduplicator` | the map of `dedup.go` and its cleanup | `dedup.go` |
| `Tray` | the ships `handleEvent` keeps | `tray.go` |
| `Pipeline` (extends `Deduplicator`, `Tray`) | tailers, `Publish`, the tray, the subscriber up to the store and `events.log`, restarts of the tailer | `app.go`, `bus.go`, `tailer.go` |
| `EventFeed` | the buffer of recent events, the messages to the window, the list it shows | `app.go`, `App.jsx` |
| `Subscriber` (extends `Deduplicator`, `EventFeed`) | several goroutines in the subscriber, from the filter to the window | `app.go` |
| `OAuthFlow` | one flow: requests, handlers, the channel, `Start` | `oauth.go` |
| `Desktop` (extends `OAuthFlow`) | window, tray icon, quitting, the check for a release, `ApplyUpdate` and its script | `app.go`, `updater.go`, `selfupdate.go` |
| `*Proofs` | theorems and proofs about the module they are named for | |
| `MC*` | TLC instances | |

Operators under a comment that begins "Mutant:", and those of `Store`,
`SyncClient` and `AppSession` whose comment describes a program other than this
one (`MarkEverything`, `ReceiveErrorUnchecked`, `StopOldForgotten`, ...), are
mutants: each stands before the definition it may replace, and with it in place
the named property of the named run fails. No specification uses them.

The pipeline is cut in three where one part hands a value to the next and
nothing flows back: `LogTailer` ends with the events a tailer publishes,
`Pipeline` begins with them and ends with the row in the table, with which
`SyncClient` begins (`InsertEvent`). `Subscriber` is the same subscriber as
`Pipeline`'s with other sinks, called by goroutines that publish anything.

### Store and SyncClient

A row is its event type and its id; source, time and data are carried by every
operation and read by none. An attempt of client `c` is `pc[c]`:

| `pc` | where in `syncBatch` | leaves by |
|---|---|---|
| `select` | `Run`'s select | `Tick`, `FinalTick` (the query finds rows), `FinalFetchEnds` (a last query without rows or with an error: `Run` returns) |
| `filter` | the loop over the batch, one `CheckEvent` per event, oldest first | `Send`; `SendCancelled` when the context is done |
| `send` | the request is out | `ReceiveOK`, `ReceiveError`, `SendFails` |
| `mark` | `MarkSynced(maxID)` | `Mark`, `MarkFails` |

The API is external: `Accept` takes a whole request, and its 200 is then on its
way; `SendFails` loses an answer, or leaves the request behind (`late`), to be
accepted later or never. A query that fails or finds nothing changes nothing
and is no step, except the last one. Preferences are a sequence of objects: a
client keeps the object whose `IsEnabled` it was given (`check`) while
`ResetSyncPreferences` moves `current`. `withheld` is a history variable: the
events some check has refused.

`Delivery` has four steps (an event is stored, withheld, delivered once those
before it are delivered or withheld, or a prefix is settled). `SyncClient`
implements it with `stored <- Len(rows)` and `settled <- synced`.

### AppSession

Its steps are those of `SyncClient` together with what `App` does around them.
`ConnectToSCBridge` is cut where it waits, writes a file, takes the mutex,
cancels, reads `authInfo`, and starts the client (`waiting`, `saving`,
`publishing`, `stopping`, `starting`, `installing`, `returned`);
Only the assignment of the token asks for the mutex, which
`DisconnectFromSCBridge` holds from its first line to its last. The disconnect
is cut into lines all the same: `Disconnect` takes the mutex and calls
`syncCancel`, `ForgetClient` makes it nil, `ClearAuth` clears the token, and
`RemoveAuth` removes the file and returns (`disconnecting`); between them a
connect may stop the old client, read the token, or start a client. `joined` is
a history: whether a client was started before the disconnect under way had
cancelled its predecessor, between that and `syncCancel = nil`, or after both.
The check for nil and the call are one step, since only a disconnect makes
`syncCancel` nil. A token is known by the environment that issued it. `syncCancel`
and `appCancel` say which client `App.syncCancel` and `App.cancel` would stop
(`appOwner` is the call whose context `App.cancel` belongs to). `legacy` holds
the clients that use the `api_token` of `config.yaml`. `uiConfig` is what the
page shows, `uiAnswer` a `GetConfig` answer that has not been shown yet, and
`uiCall` the connect for which the page's button is disabled; a tab change
(`Remount`) forgets it, so calls may overlap when `Calls` has more than one
member. A failed write of `auth.json` or `config.yaml` leaves the file as it
was or unreadable, which the loader takes for an absent one.

### EventTypes, Parser and LogTailer

A line is known by the pattern its fixed text belongs to. Of the regular
expression a model value is kept that says how much of the line it has to see:
only the fixed text (`bare`), data closed by text (`closed`), data that runs as
far as the line does (`open`), or data closed by a quote or the end of the text
(`end`). `Parse` is one action, the disjunction of its five cases. `seen` and
`published` are histories: the lines parsed, and for each event its type and
the two lines it comes from.

`LogTailer` writes a line in two parts (a login in four, because the marker the
search looks for lies inside it), so a poll may find any of them at the end of
the file. `Match` decides what a piece, from its first part to its last, is
matched as. Lengths are counted in parts: `Chunk`, 64 KB in the code, is four
parts in the instance, and the file has up to twelve, so a chunk may end
anywhere in a line and in the marker.
`SearchFrom` is the loop of `seekToLastSession` as one expression: the nearest
chunk with a whole marker in it, and the start of the marker's line there. The
game may write between `SeekBegin`, which takes the size, and `SeekEnd`.

### Deduplicator, Tray and Pipeline

`IsDuplicate` and `Cleanup` are one step each, since both hold the lock. A key
stands for an event's type and data. `Pipeline` follows each tailer (`pc[t]`)
through `reading`, `tray`, `filter`, `store` and `write`: `Publish` calls the
two handlers one after the other in the tailer's goroutine, and other tailers
run between any two steps. `handleEvent` takes no lock, so it is two steps:
the list of ships is read (`Publish`) and written (`TrayHandles`). The
coalescer lets every event pass: it waits for two types which the parser,
joining those lines itself, does not return (lemma `CoalescerPassesAll` of
`ParserProofs`). What becomes of an event is told of each copy of it that
passed, by the time it passed (`carried`). A copy has
a row or its insert failed, a line in `events.log` or its write failed: the
code logs the first error and ignores the second (`app.go:195`). The file is the
last session's, and is the same after a restart of the tailer; every tailer
reads it from its login.

### EventFeed and Subscriber

An event that passes gets a number; it is buffered under the lock (`Buffer`)
and emitted without it (`Emit`). The window asks once (`Mount`); the copy is
made under the lock (`GetRecentEvents`) and sent later (`Answer`), in one queue
with the events. `crossed` remembers that an event was between its two steps
while another was buffered or the window's question was answered.

### OAuthFlow and Desktop

A request runs up to its report (`HandleCallback`), reports when there is a
place in the channel (`Report`), and what it wrote reaches the browser then.
`Desktop` follows one process until it is gone, and the script until it has
started the next. `update` is where `ApplyUpdate` is, `script` where the
script. `CopyItem` fails while the program runs, and may be denied by the system
at any time (`denied`); the script goes on either way. `BeforeClose` is shared by the close button, the tray's Quit and
`quitFn`, as Wails asks it on each.

## 3. What TLC checks

| Run | Instance | Shows |
|---|---|---|
| `sync_safety` | 2 clients, 3 events, batches of 1, one late request, symmetry (0.7 million states) | `TypeOK`, the inductive invariant `Inv`, `NoSilentLoss`, `NoGaps`, `MarkedByItsOwnAttempt`, `ImplementsDelivery` |
| `sync_liveness` | 1 client, 2 events, batches of 2, two preference objects, fairness (65 thousand states) | `EventuallySettled`, `CancelledClientStops`, `UpdateSettlesTheBatch`, and `Inv` on mixed batches |
| `prefs_reset` | as above, smaller | **violation** of `ChecksFollowPreferences` |
| `session` | 2 clients, one of them perhaps the legacy one, 1 connect at a time, 2 environments, no events (1.2 million states) | `SessionInv`, `ServingClientIsReachable`, `ConnectedIsServed`, `RestartKeepsConnection`, `DisconnectStopsWhatServed` |
| `session_liveness` | 1 client slot, 1 event, preferences at their defaults, fairness (0.2 million states) | `ConnectedSettles` |
| `disconnect` | 1 connect, no legacy token | **violation** of `DisconnectStopsSync` |
| `final_attempt` | 1 connect | **violation** of `FinalAttemptBeforeClose` |
| `log_tailer` | 6 kinds of line, 3 lines of up to 4 parts, chunks of 4, one truncation, fairness (0.55 million states) | `PairsTheRightLines`, `PublishedInOrder`, `SeeksRight`, `EverythingIsRead` |
| `multi_line` | 2 lines, of notifications that close or go on in the next line | **violation** of `LiveMatchesCorpus` |
| `pipeline` | 2 tailers, a log of 3 of 3 events, 2 ships, cooldown 1, one insert or write fails, fairness (1.7 million states) | `TrayFollowsTheLog`, `LogReachesStore`, `RowsApart`, `EverythingIsPublished` |
| `subscriber` | 2 publishers, 2 keys, 3 events that pass, buffer of 2, clock to 3, fairness (1.1 million states) | `CooldownHolds`, `FeedIsRing`, `WindowCatchesUp` |
| `desktop` | 2 requests, 5 versions, 3 packages, fairness (0.62 million states) | `ResultIsFirstReport`, `WaitsOnlyForAnother`, `OnlyRequestIsAnswered`, `FlowEnds`, `UpdateGoesForward`, `NothingIsLeft`, `UpdateEnds` |

The properties in words:

- `NoSilentLoss`: a row is marked synced only if the API accepted the event or
  the preferences withheld it.
- `NoGaps`: the API never has an event while an older one is still due.
- `MarkedByItsOwnAttempt`: a row becomes synced only in the update of a client
  whose batch holds it and whose attempt dealt with it; a row inserted between
  query and update is never marked.
- `ImplementsDelivery`: `SyncClient` refines `Delivery`.
- `UpdateSettlesTheBatch`: an update that succeeds leaves no row of its batch
  unsynced, and had one.
- `EventuallySettled`: while a client keeps serving, every event is settled.
- `CancelledClientStops`: a cancelled client makes its last attempt and returns.
- `ServingClientIsReachable`: a live client that uses a connection's token is
  the one the next disconnect or connect cancels, unless it was started between
  a disconnect's call of `syncCancel` and the line that makes it nil (one connect
  at a time).
- `ConnectedIsServed`: while the companion holds a token and is neither
  switching nor disconnecting, that client is live (any number of connects). Of
  two overlapping connects it says nothing of the client that is left over.
- `RestartKeepsConnection`: a restart loads the connection in force or none.
- `DisconnectStopsWhatServed`: when a disconnect returns, a client that goes on
  serving is on the token of `config.yaml`, or a connect started it after the
  disconnect had called `syncCancel` (one connect at a time).
- `ConnectedSettles`: a companion that stays connected settles every event.
- `PairsTheRightLines`: for the lines parsed, the events returned are exactly
  those a definition over whole sequences of lines asks for; a continuation is
  joined to its own header, once.
- `PublishedInOrder`: however the file is cut into pieces, events come in the
  order of their lines and no line yields two.
- `SeeksRight`: the search ends in the line of the last login, at or before
  its marker; without a login it ends at the end of the file.
- `EverythingIsRead`: the reader comes to the end of the file, again and again.
  Whether what it read matched is another matter (a line met half written does
  not).
- `EverythingIsPublished`: what the game logs goes through every handler.
- `CooldownHolds`: the deduplicator answers as `Cooldown` does.
- `LogReachesStore`: when the log is read, each of its events has passed the
  deduplicator, and each time it passed one copy of it is in the store, unless
  that insert failed, and in `events.log`, unless that write failed.
- `RowsApart`: an event gets another row only if its passes are a cooldown apart,
  however often and by however many tailers the session is read.
- `TrayFollowsTheLog`: the tray's ships are the ones the log leaves the player
  aboard of, also when the session was read again from the middle of it.
- `FeedIsRing`, `WindowCatchesUp`: the window shows the buffer, and comes to.
- `ResultIsFirstReport`, `OnlyRequestIsAnswered`, `FlowEnds`: the flow returns
  the first report made, a browser alone is answered and shown what the app
  was told, and the flow ends if no browser comes.
- `WaitsOnlyForAnother`: a handler finds the channel taken only by the report of
  another browser, which has its page.
- `UpdateGoesForward`: the script starts no version before the one that ran; if
  the process went in time, one process alone, of the release offered unless the
  system denied the copy; `UpdateEnds`: it always starts one; `NothingIsLeft`:
  an attempt that failed, or a script that ended, has left no temporary file. (A
  quit during the download leaves the file: the process is gone.)

### Bounds, and why they are enough

- Two clients: the interference of interest is one cancelled client in its
  final attempt beside its successor. A client slot is reused once its
  goroutine has returned, so a run has any number of clients one after another.
- `MaxEvents` 3 with `BatchSize` 1 gives a row that is done, one in a batch and
  one beyond it, that is, a batch at its limit. Batches of several events,
  where the check lets some through, are in `sync_liveness`.
- One event type: its preference can be switched between the checks of two
  events of one batch, so a batch can be mixed.
- `MaxLate` 1: one abandoned request at a time, any number over a run.
- `MaxPrefs` bounds the resets of one process.
- `session_liveness` leaves the preferences alone (`SteadyFairSpec`): what a
  client withholds it settles like what it sends, whoever started it, and that
  is what `sync_liveness` checks with changing preferences. With both the graph
  is too large for a liveness check.
- `session` inserts no event: its invariants speak of clients, contexts and
  tokens. `session_liveness` has attempts under way during connects and
  restarts, and both results are proved for all bounds (below).
- Cap of `Clients` in `AppSession`: a connect waits at `installing` for a free
  slot, as if goroutines were scarce. It delays the start of a client and
  excludes nothing after it.
- Deadlock is checked in the runs of `SyncClient` and `AppSession`, where
  restarts make every state live. In the others the system may stop: the game
  logs nothing more, the process is gone and its script at the end.
- `log_tailer`: a header, a line between, and a continuation are three lines;
  a login and the lines after it are more parts than two chunks hold. The two
  kinds of notification of two lines are enough for one to be taken for the
  other; their table has three entries of the same form.
- `pipeline`: the second tailer reads the session again while the first is in
  any of its steps, or before, or after. Three events are the shortest log in
  which a ship is boarded, left, and another is current; the cooldown of one
  tick ends within a run.
- `subscriber`: a buffer of two is full with the second event and turns over
  with the third; a clock of three is the first at which cleanup forgets an
  entry (twice the cooldown is past).
- `desktop`: one place in the channel and two requests are one more than fit.
  Of the versions one is later by the last number, one by the second though its
  last is smaller, one is earlier though its other numbers are larger, and one
  is the same but for its suffix.
- What these bounds could hide is proved for all values (section 4), except
  liveness.

### Fairness, and why the code justifies it

Weak fairness for the steps of a goroutine that runs on: the ticker keeps
firing, the loop over a batch ends, a request ends by the client's 30-second
timeout at the latest, an update returns. Strong fairness for the `ctx.Done`
branch, because Go's `select` picks at random among ready branches and so does
not choose the ticker for ever. Strong fairness for `Accept`, `ReceiveOK` and
`Mark` states the environment's part: the API and the database are not out for
good. Without it the code promises nothing, and a batch that is refused for
ever blocks those behind it. In `AppSession`, weak fairness of startup, of the
rest of a shutdown and of a disconnect, and of a connect's goroutine
(`OAuthFlow.Start` gives up after five minutes). The player, insertion, exit and restart are not fair.

`LogTailer`, `Pipeline`: weak fairness of a tailer's steps, its ticker
included; a tailer that is cancelled may stop or read once more, as `select`
picks. The game is not fair. `Subscriber`: a publisher that has an event past
the filter goes on with it, the window's steps go on. `Desktop`: the timer of a
flow, the handlers' goroutines and the shutdown of the server go on while the
process runs, `quitFn` is called, and the script goes on (external:
PowerShell's own 30 seconds end its wait). Nobody is bound to come to the
callback, click, or close a window. The end of the process needs no fairness.

### Where code and documentation differ

- `app.go:489` "ResetSyncPreferences resets all sync preferences to defaults":
  the running client keeps the object it was created with (`prefs_reset`).
- `app.go:616` "DisconnectFromSCBridge clears the auth and stops sync": a connect
  takes no mutex where it stops and starts clients, so a client started while a
  disconnect is between its lines goes on, and one started before `app.go:623`
  can never be cancelled, since its cancel function is the one overwritten
  (`disconnect`).
- `client.go:89` "Final sync attempt before shutdown": the database is closed
  under it (`final_attempt`).
- `DEVLOG.md:92-93`, `TODO.md:79-80` (the terminator `(?::\s*"|$)` fixes split
  notifications): the tailer keeps the newline, which `$` does not pass
  (`multi_line`).

Found while modelling, and stated as what a property excludes (the findings of
`PROJECT.json` quote the lines):

- `app.go:616` again: a client on the `api_token` of `config.yaml` goes on after a
  disconnect (`legacy`).
- `bus.go:16` "Everything else is local-only", `DEVLOG.md:130`: the client asks
  the preferences, whose defaults enable three types more (`preferences.go:36-40`);
  `DefaultTypes` is a constant here.
- `README.md:6` "in real-time": a line met half written at the end of the file is
  parsed in two parts and matches in neither; it is lost until a replay.
- `tray.go:107` "the most recently boarded one": a ship boarded again keeps its
  place in the list. `TrayFollowsTheLog` asks for one of the ships only.
- `tailer.go:72`: a marker cut by a chunk is passed over (`SeeksRight`).
- `tailer.go:38` "continues tailing": not while a truncated file is shorter
  than the offset (`EverythingIsRead`).
- `README.md:19` "Writes events to `events.log`": the error of the write is
  ignored, and shutdown may have closed the file (`LogReachesStore`, `unlogged`).
- `DEVLOG.md:39` "`Copy-Item` was denied": a portable program still goes that way,
  loses the download and starts the old version (`UpdateGoesForward`, `denied`).
- `DEVLOG.md:40` "guaranteed released before copy", `selfupdate.go:24` "never
  returns", `App.jsx:225` "the app is quitting": with minimize-to-tray on, the
  quit is refused and the wait runs out (`UpdateGoesForward`, `waitedOut`).
- `README.md:16`: the tray's Quit with minimize-to-tray on leaves a process
  with neither window nor icon (`Restore` is not enabled there).
- `DEVLOG.md:14`, `DEVLOG.md:24`: the store does not recognise events it has;
  a replay after the cooldown stores them again.
- `App.jsx:62`: the snapshot replaces events that were emitted after it was
  copied (`crossed`).

## 4. What is proved

`SyncClientProofs`, for any set of clients and types, and any bounds that
satisfy `MaxEventsAssumption` (`MaxEvents` is a natural number) and
`ClientAssumption` (`BatchSize` and `MaxPrefs` positive, `MaxLate` a natural
number, `DefaultTypes` among `Types`):

| Theorem | |
|---|---|
| `TypeCorrect` | `Spec => []TypeOK` |
| `Invariance` | `Spec => []Inv` |
| `NothingLost`, `NoGapsSeen` | `Spec => []NoSilentLoss`, `Spec => []NoGaps` |
| `OwnAttemptMarks` | `Spec => MarkedByItsOwnAttempt` |
| `Implements` | `Spec => ImplementsDelivery` |
| `AttemptsSettle` | `Spec => UpdateSettlesTheBatch` |
| `AttemptsGoOn` | `Spec => []NeverStuck`: an attempt always has the event, or the largest id, its next step takes |
| `OnlyResetsDetach` | with `MaxPrefs = 1`, `Spec => ChecksFollowPreferences` |
| `UnsyncedEventsClosed` (lemma) | with a row the query returns every older unsynced one, whatever the limit |

The argument. `NoSilentLoss` and `NoGaps` are not inductive: nothing in them
says why a client about to mark rows up to `maxID` may do so. `Inv` adds, per
client (`AttemptOK`), that a batch reaches back to the synced rows (it is the
oldest ones, which is `UnsyncedEventsClosed`), that its events are still to be
checked, in the payload, or withheld, and that a client at its update has its
payload accepted; and, for each abandoned request (`InOrder`), that it fills
the gap up to its last event, however late it is read. Since `synced`,
`delivered` and `withheld` only grow, a step of one client cannot disturb what
holds of another: that is why overlap is harmless. The proof has one lemma for
each kind of step and one step per action. The refinement uses the same
invariant: `Accept` and `AcceptLate` are `Deliver`, `Mark` is `Settle`, and all
else stutters or is `Record` or `Withhold`.

`AttemptsSettle` and `AttemptsGoOn` are the part of `EventuallySettled` that is
safety: with `HasBatch` (an attempt is made of at least one row, since a query
over unsynced rows returns their least, and rows never leave the table) the
data a client's next step needs is there whatever others do to the table, and a
step that succeeds is progress for all of the batch. What TLC adds is fairness.
`OnlyResetsDetach` shows that a second preferences object is the only cause of
what `prefs_reset` finds.

`AppSessionProofs`, under these assumptions and `SessionAssumption` (`NoClient`
is no client, `NoAuth` no environment, `DefaultEnv` one of `Envs`):

| Theorem | |
|---|---|
| `SessionImplements` | `SessionSpec => Spec`: every step of the companion is one of `SyncClient` or leaves it alone |
| `SessionNothingLost`, `SessionNoGaps`, `SessionOwnAttemptMarks`, `SessionDelivers` | the client results for the whole companion, by `SessionImplements` |
| `SessionTypeCorrect`, `SessionInvariance`, `Served` | `SessionTypeOK`, `SessionInv`, `ConnectedIsServed`, for any number of overlapping connects |
| `OneCallInvariance`, `Reachable`, `SameConnection` | `ServingClientIsReachable` and `RestartKeepsConnection` when `Calls` has at most one member |
| `DisconnectStopsServing` | `DisconnectStopsWhatServed`, under the same condition |

The argument. All of it is stated over `Live`, the clients that run and are not
cancelled. Lemmas say what each kind of step does to `Live` (a start adds one,
a cancel removes one, nothing else changes it), which needs `ContextOK`: a
goroutine that has returned left no cancelled context, and one in its last
attempt was cancelled. `ConnectedIsServed` then only looks at the steps that
set the token or `syncCancel`; a disconnect under way is excluded, and has cleared
the token by the time it gives the mutex back, which is why `SessionInv` says so
of its last line. `ServingClientIsReachable` needs that between stopping the old
client and starting the new one, and between a disconnect's cancel and its
`syncCancel = nil`, only a legacy client or an orphan (`Orphans`: started in that
very gap) is live; `RestartKeepsConnection` that a token is published only when
it is the one on disk. Both are in `OneCallInv`, and both are false of two
overlapping calls. `OneCallInv` also says that past its cancel a disconnect finds
no live client of a connection that was there before (`joined`), from which
`DisconnectStopsServing` reads off what it leaves. The exceptions are real:
`disconnect` shows the one, and the `legacy` client is the other.

`ParserProofs`, `LogTailerProofs`, for any lines, under `TailerAssumption`
(`Chunk` at least 2, kinds that name patterns, bounds natural numbers):

| Theorem | |
|---|---|
| `ParserInvariance`, `ParserPairs` | `ParserSpec => []PairsTheRightLines`, with the invariant it needs |
| `TailerPairs`, `TailerKeepsOrder` | `Spec => []PairsTheRightLines`, `Spec => []PublishedInOrder` |
| `SeekFinds` | `Spec => SeeksRight` |
| `TailerTypeCorrect` | `Spec => []TypeOK` |
| `OnlySplitLinesDiffer` | `Spec => []WholeLinesMatch`: a line read in one piece matches as in a corpus run, unless it goes on in the next line, and then not at all |
| `CorpusCountsTheRest` | `Spec => []LiveMatchesCorpus` when no kind of line is split |

The argument. The pending notification is the header that is `Waiting` before
the next line, if there is one; there is at most one, because a header ends the
wait of the one before it. Each of `Parse`'s five cases then yields `Expected`
of the new line and changes `Waiting` as it changes what is pending. For the
order, `ReadInOrder` says that what was read lies before what is still to be
read, also when the file begins afresh and the offset is beyond its end; and
`MatchOnce`, that two pieces of one line cannot both match, since what a
pattern needs to see would have to be in each. `SeekFinds` is about `SearchFrom` alone: a marker not
cut by a chunk lies in one of them, and the nearest chunk with one has the last.
That the coalescer has nothing to do is `CoalescerPassesAll`: no event published
is of a type it waits for. `OnlySplitLinesDiffer` makes the finding of
`multi_line` exact: it is every split notification, and no other line.

`DeduplicatorProofs`, `SubscriberProofs`, `PipelineProofs`, under
`DeduplicatorAssumption` (`Period` positive), `RingSizeAssumption` (`RingSize`
positive), `PipelineAssumption` (at least one tailer, events whose type
and ship are strings):

| Theorem | |
|---|---|
| `DedupImplementsCooldown`, `DedupInvariance` | `DedupSpec => Abstract!CooldownSpec`, `DedupSpec => []PassesApart` |
| `SubscriberKeepsCooldown`, `WindowShowsTheBuffer` | `Spec => CooldownHolds`, `Spec => []FeedIsRing` |
| `SubscriberTypeCorrect`, `PipelineTypes` | `Spec => []TypeOK` of each |
| `LogIsStored`, `RowsStayApart` | `Spec => []LogReachesStore`, `Spec => RowsApart` |
| `PipelineKeepsCooldown` | `Spec => Abstract!CooldownSpec` |
| `TrayFollows` | `Spec => []TrayFollowsTheLog` |

The argument. `MapIsEnough`: a key in the map has its last pass there, and the
passes of a key that is not are a cooldown ago; cleanup forgets at twice the
cooldown and so keeps that. The refinement is then one step for one step, with
cleanup as a stutter. For the window, the buffer is the last `RingSize` of all
that was buffered, and `WindowShows` says of each place the window may be in that what
it has, with what is on its way, are the last events of those sent; an answer
on its way resets the count to the copy it carries. While nothing has crossed
at most one event is buffered and not yet sent. For the store, every
pass of a key has a copy that each sink has taken or failed to take, or is
brought there by a tailer (`PassedIsOnItsWay`), and all a tailer has read has
passed but its last (`ReadHasPassed`); when a duplicate is dropped,
`MapIsEnough` says that its like has passed. A row says when its event passed
(`CopiesPassed`), and neither a row and a tailer about to store, nor two such
tailers, are of one pass (`OneRowEach`): so rows are as far apart as passes are. None of this
depends on the order in which tailers, cleanup and clock run.

For the tray, `TrayInv` follows the list from the middle of a replay. As long as
nothing overlapped, tailers take turns (`TakeTurns`), and what a tailer read of
the list before it writes is the list (`TrayKnows`): of every ship the last
tailer to publish has come to, the list says what the log up to there says
(`AboardAt`); of any other ship it may still say what an earlier tailer left,
but then the log says something of that ship further on, so that a replay that
comes to the end has corrected it. `Without`, the loop of `tray.go:94-101`, is
what `SelectSeq` computes, written with places in place of the standard
module's recursion, which the provers cannot open (TLC compares the two on short
lists, `WithoutIsSelectSeq` of `MCPipeline`); `WithoutProperties` says
that it keeps every other ship once, and `OneEventMore` how the reference
definition changes by one event, which replaces the induction over the log.

`DesktopProofs`, for any requests and versions, under `VersionAssumption`:

| Theorem | |
|---|---|
| `DesktopTypeCorrect` | `Spec => []TypeOK` |
| `FirstReportWins` | `Spec => []ResultIsFirstReport` |
| `NobodyWaitsOnItself` | `Spec => []WaitsOnlyForAnother` |
| `UpdatesGoForward`, `UpdatesLeaveNothing` | `Spec => []UpdateGoesForward`, `Spec => []NothingIsLeft` |

The argument. `FlowInv`: until `Start` has taken a report the channel holds all
that were made. `ReportHasItsPage`: what is in the channel was put there by a
handler that has gone on to its page, so one that waits waits for another's;
this is the safety half of `OnlyRequestIsAnswered`. `UpdateInv` says, for each place `ApplyUpdate` and the script
may be in, which files there are, that the program on disk is the one that ran
or the one offered, and after a copy in time the one offered unless it was denied, and that a script past its wait whose wait did not run out
runs beside no app; an app that is gone does not come back.

Model-checked only: the liveness properties (`EventuallySettled`,
`CancelledClientStops`, `ConnectedSettles`, `EverythingIsRead`,
`EverythingIsPublished`, `WindowCatchesUp`, `OnlyRequestIsAnswered`,
`FlowEnds`, `UpdateEnds`), which the provers do not reach. Of the properties a
run finds violated, `ChecksFollowPreferences` and `LiveMatchesCorpus` are proved
without the one thing that breaks them, and of `DisconnectStopsSync` what is left
of it is (`DisconnectStopsWhatServed`). `FinalAttemptBeforeClose` has no such
cause to take away, since the code never waits. Every invariant and action
property of a passing run is proved.

## 5. What is not modelled

- `Client.Heartbeat` (nothing calls it), the `state` and `sync_cursor` tables
  (created, never used), the counters (`EventCounts`, `TotalEvents`).
- A database or `events.log` that cannot be opened at startup: startup returns
  early, or the log is not written.
- The map race of `SetSyncPreference` against a running check: its only effect
  other than the values modelled is a crash, which is `Exit`. Likewise the nil
  dereference in `startSync` when a disconnect falls between its two reads.
- Several `GetConfig` answers under way at once: one late answer is.
- What the regular expressions extract, timestamps and their format, the icon
  bytes, rendering, counting and printing in `cmd/logtest`, the search for
  `Game.log`, registering to start with Windows: data, layout, or stateless
  look-ups.
- `CoalesceMultiLine`'s buffer: no event the parser returns reaches it
  (`CoalescerPassesAll`). `FilterType`, `IgnoreType`, `RunFromStart`: no caller.
- The tray's handle, location, jurisdiction and event count: written, shown,
  and read by nothing else. The unlocked list is read and written in one step
  each; the element-wise filtering in place is not cut further.
- A tailer restarted on a file of another session, and errors of the file
  system in `Run`, which end the tailer as `Stop` does.
- The friends list (`Friends.jsx`): its correctness is that of deltas made by a
  service outside the repository, and it shares no state with the rest.
- GitHub's answers other than a later release: they change nothing.
