------------------------------- MODULE Store -------------------------------
(***************************************************************************)
(* The events table of the companion's SQLite database                     *)
(* (internal/store/store.go).                                              *)
(*                                                                         *)
(* The id of a row is its place in `rows': ids come from AUTOINCREMENT and *)
(* no statement of the program deletes a row.  A row's source, timestamp   *)
(* and data are carried along by every operation and read by none, so a    *)
(* row is its event type alone.  Each operation is one SQL statement, and  *)
(* so one atomic step of whoever calls it.                                 *)
(***************************************************************************)
EXTENDS Naturals, Sequences, FiniteSets

CONSTANTS
  Types,      \* the event types
  MaxEvents   \* bound on the rows a behaviour inserts

ASSUME MaxEventsAssumption == MaxEvents \in Nat

VARIABLES
  rows,       \* the rows, in the order of their ids
  synced,     \* the ids of the rows whose `synced' column is 1
  open        \* the database handle is usable: Close has not been called

storeVars == <<rows, synced, open>>

Ids == 1 .. Len(rows)

Unsynced == Ids \ synced

StoreTypeOK ==
  /\ rows \in Seq(Types)
  /\ synced \subseteq Ids
  /\ open \in BOOLEAN

StoreInit ==
  /\ rows = << >>
  /\ synced = {}
  /\ open = TRUE

\* INSERT INTO events: a new row with the next id, not yet synced.
Insert(t) ==
  /\ open
  /\ Len(rows) < MaxEvents
  /\ rows' = Append(rows, t)
  /\ UNCHANGED <<synced, open>>

----------------------------------------------------------------------------

\* A query that forgets ORDER BY id: the row inserted last comes first.
UnsyncedEventsNewestFirst(limit) ==
  {i \in Unsynced : Cardinality({j \in Unsynced : j >= i}) <= limit}

\* SELECT ... WHERE synced = 0 ORDER BY id LIMIT limit.
UnsyncedEvents(limit) ==
  {i \in Unsynced : Cardinality({j \in Unsynced : j <= i}) <= limit}

\* An update that forgets its bound: every row inserted so far is marked.
MarkEverything(upToID) == Ids

\* An update whose bound is off by one: WHERE id < upToID.
MarkBelow(upToID) == synced \cup {i \in Ids : i < upToID}

\* The rows UPDATE events SET synced = 1 WHERE id <= upToID leaves synced.
MarkSynced(upToID) == synced \cup {i \in Ids : i <= upToID}
=============================================================================
