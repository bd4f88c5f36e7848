--------------------------- MODULE PipelineProofs ---------------------------
(***************************************************************************)
(* Whatever the game logs reaches the store and events.log, for any        *)
(* events, tailers and failures of inserts, and the tray ends with the     *)
(* ships the log leaves the player aboard of.                              *)
(***************************************************************************)
EXTENDS Pipeline, DeduplicatorProofs, FiniteSetTheorems, FunctionTheorems

Labels == Publishing \union {"off", "waiting", "reading", "stopped"}
Carrying == {"store", "write"}

PipeTypes ==
  /\ log \in Seq(Keys)
  /\ started \in Tailers
  /\ pc \in [Tailers -> Labels]
  /\ pos \in [Tailers -> Nat]
  /\ carried \in [Tailers -> Nat]
  /\ \A t \in Tailers :
       /\ pos[t] <= Len(log)
       /\ pc[t] \in Publishing => pos[t] > 0
       /\ t > started => pc[t] = "off"

(* An event that has passed is where it is to go, or a tailer brings it.   *)
Through(e, time) ==
  \E copy \in (rows \union failed) \intersect (eventLog \union unlogged) :
    copy.event = e /\ copy.at = time

Brought(e, time) ==
  \E t \in Tailers :
    /\ pc[t] \in Carrying /\ Event(t) = e /\ carried[t] = time
    /\ pc[t] = "write" => Copy(t) \in rows \union failed

PassedIsOnItsWay ==
  \A e \in Keys : \A time \in passed[e] : Through(e, time) \/ Brought(e, time)

(* A row, or a tailer about to store one, is of an event that passed when   *)
(* they say ...                                                            *)
CopiesPassed ==
  /\ rows \union failed \union eventLog \union unlogged \subseteq Copies
  /\ \A r \in rows : r.at \in passed[r.event]
  /\ \A t \in Tailers : pc[t] = "store" => carried[t] \in passed[Event(t)]

(* ... and no two of them are of one passing.                              *)
OneRowEach ==
  /\ \A r \in rows : \A t \in Tailers :
       pc[t] = "store" /\ Event(t) = r.event => carried[t] # r.at
  /\ \A t, u \in Tailers :
       /\ pc[t] = "store" /\ pc[u] = "store"
       /\ Event(t) = Event(u) /\ carried[t] = carried[u]
       => t = u

SinkInv == PassedIsOnItsWay /\ CopiesPassed /\ OneRowEach

(* Of the events a tailer has read, the last alone may be yet to pass.     *)
ReadHasPassed ==
  \A t \in Tailers : \A i \in 1 .. pos[t] :
    passed[log[i]] # {} \/ (i = pos[t] /\ pc[t] \in {"tray", "filter"})

PipeInv == PipeTypes /\ DedupInv /\ SinkInv /\ ReadHasPassed

LEMMA PipeInitial == Init => PipeInv
  <1> SUFFICES ASSUME Init PROVE PipeInv
    OBVIOUS
  <1>1. PipeTypes
    BY PipelineAssumption DEF Init, PipeTypes, Labels, Publishing, StartedPc, Tailers
  <1>2. DedupInv
    BY DedupInitial DEF Init
  <1>3. \A t \in Tailers : pc[t] # "store"
    BY DEF Init, StartedPc
  <1>4. SinkInv /\ ReadHasPassed
    BY <1>3 DEF Init, SinkInv, PassedIsOnItsWay, CopiesPassed, OneRowEach,
                ReadHasPassed, DedupInit
  <1> QED
    BY <1>1, <1>2, <1>4 DEF PipeInv

LEMMA PipeInvEnough == PipeInv => LogReachesStore
  <1> SUFFICES ASSUME PipeInv, Settled, NEW i \in DOMAIN log
               PROVE  /\ passed[log[i]] # {}
                      /\ \A time \in passed[log[i]] : Through(log[i], time)
    BY DEF LogReachesStore, Through
  <1>1. started \in Tailers /\ i \in 1 .. pos[started] /\ log[i] \in Keys
    BY DEF PipeInv, PipeTypes, Settled
  <1>2. \A t \in Tailers : pc[t] \notin Publishing
    BY DEF PipeInv, PipeTypes, Settled, Publishing, Tailers
  <1>3. passed[log[i]] # {}
    BY <1>1, <1>2 DEF PipeInv, ReadHasPassed, Publishing
  <1>4. \A time \in passed[log[i]] : Through(log[i], time)
    BY <1>1, <1>2 DEF PipeInv, SinkInv, PassedIsOnItsWay, Brought, Publishing, Carrying
  <1> QED
    BY <1>3, <1>4

LEMMA EventIsKey ==
  ASSUME PipeTypes, NEW t \in Tailers, pc[t] \in Publishing
  PROVE  Event(t) \in Keys /\ pos[t] \in 1 .. Len(log)
  BY DEF PipeTypes, Event

(* The copy a tailer brings is of its event.                               *)
LEMMA CopyIsOfEvent ==
  ASSUME PipeTypes, NEW t \in Tailers, pc[t] \in Publishing
  PROVE  Copy(t) \in Copies /\ Copy(t).event = Event(t) /\ Copy(t).at = carried[t]
  BY EventIsKey DEF PipeTypes, Copy, Copies

(* A row that is stored is a cooldown from those its event has.            *)
LEMMA InsertIsApart ==
  ASSUME PipeInv, NEW t \in Tailers, pc[t] = "store",
         NEW r \in rows, r.event = Event(t)
  PROVE  r.at + Period <= carried[t] \/ carried[t] + Period <= r.at
  <1>1. r.at # carried[t]
    BY DEF PipeInv, SinkInv, OneRowEach
  <1>2. /\ Event(t) \in Keys /\ r.at \in Nat /\ carried[t] \in Nat
        /\ r.at \in passed[Event(t)] /\ carried[t] \in passed[Event(t)]
    BY EventIsKey DEF PipeInv, SinkInv, CopiesPassed, Copies, PipeTypes, Publishing
  <1> QED
    BY <1>1, <1>2 DEF PipeInv, DedupInv, PassesApart

(* A step that moves no event towards its sinks.                           *)
LEMMA SinksUnchanged ==
  ASSUME PipeInv, UNCHANGED <<carried, rows, failed, eventLog, unlogged, passed>>,
         Len(log) <= Len(log'), \A i \in 1 .. Len(log) : log'[i] = log[i],
         Len(log') \in Nat,
         \A t \in Tailers : pc[t] \in Carrying => pc'[t] = pc[t] /\ pos'[t] = pos[t],
         \A t \in Tailers : pc'[t] \in Carrying => pc'[t] = pc[t]
  PROVE  SinkInv'
  <1>1. \A t \in Tailers : pc[t] \in Carrying =>
          Event(t)' = Event(t) /\ Copy(t)' = Copy(t)
    <2> SUFFICES ASSUME NEW t \in Tailers, pc[t] \in Carrying
                 PROVE  Event(t)' = Event(t) /\ Copy(t)' = Copy(t)
      OBVIOUS
    <2>1. pos[t] \in 1 .. Len(log) /\ pos'[t] = pos[t]
      BY EventIsKey DEF PipeInv, Carrying, Publishing
    <2> QED
      BY <2>1 DEF Event, Copy
  <1>2. PassedIsOnItsWay'
    <2> SUFFICES ASSUME NEW e \in Keys, NEW time \in passed[e]
                 PROVE  Through(e, time)' \/ Brought(e, time)'
      BY DEF PassedIsOnItsWay
    <2>1. Through(e, time) => Through(e, time)'
      BY DEF Through
    <2>2. Brought(e, time) => Brought(e, time)'
      BY <1>1 DEF Brought
    <2> QED
      BY <2>1, <2>2 DEF PipeInv, SinkInv, PassedIsOnItsWay
  <1>3. CopiesPassed'
    BY <1>1 DEF PipeInv, SinkInv, CopiesPassed, Carrying
  <1>4. OneRowEach'
    BY <1>1 DEF PipeInv, SinkInv, OneRowEach, Carrying
  <1> QED
    BY <1>2, <1>3, <1>4 DEF SinkInv

LEMMA GameStep ==
  ASSUME PipeInv, GameLogs
  PROVE  PipeInv'
  <1>1. PICK e \in Keys : log' = Append(log, e)
    BY DEF GameLogs
  <1>2. /\ UNCHANGED <<started, pc, pos, carried, rows, failed, eventLog, unlogged, passed>>
        /\ UNCHANGED dedupVars
    BY DEF GameLogs, tailerVars, sinkVars, dedupVars
  <1>3. /\ log' \in Seq(Keys) /\ Len(log') = Len(log) + 1 /\ Len(log) \in Nat
        /\ \A i \in 1 .. Len(log) : log'[i] = log[i]
    BY <1>1 DEF PipeInv, PipeTypes
  <1>4. PipeTypes'
    BY <1>2, <1>3 DEF PipeInv, PipeTypes
  <1>5. SinkInv'
    BY <1>2, <1>3, SinksUnchanged
  <1>6. \A t \in Tailers : \A i \in 1 .. pos[t] : log'[i] = log[i]
    BY <1>3 DEF PipeInv, PipeTypes
  <1>7. ReadHasPassed'
    BY <1>2, <1>6 DEF PipeInv, ReadHasPassed
  <1> QED
    BY <1>2, <1>4, <1>5, <1>7, DedupUnchanged DEF PipeInv

(* Steps that move a tailer between labels where it carries nothing.       *)
LEMMA QuietStep ==
  ASSUME PipeInv, NEW t \in Tailers, NEW label \in Labels \ Carrying,
         pc' = [pc EXCEPT ![t] = label],
         pc[t] \notin Carrying,
         pc[t] \in {"tray", "filter"} => label = "filter",
         label \in Publishing => pc[t] \in Publishing,
         UNCHANGED <<log, pos, carried, rows, failed, eventLog, unlogged>>,
         UNCHANGED dedupVars,
         started' \in Tailers, started' >= started, t <= started'
  PROVE  PipeInv'
  <1>1. /\ pc' \in [Tailers -> Labels] /\ pc'[t] = label
        /\ \A u \in Tailers \ {t} : pc'[u] = pc[u]
    BY DEF PipeInv, PipeTypes
  <1>2. PipeTypes'
    BY <1>1 DEF PipeInv, PipeTypes, Tailers
  <1>3. passed' = passed /\ Len(log) \in Nat
    BY DEF dedupVars, PipeInv, PipeTypes
  <1>4. SinkInv'
    BY <1>1, <1>3, SinksUnchanged
  <1>5. ReadHasPassed'
    BY <1>1, <1>3 DEF PipeInv, ReadHasPassed
  <1> QED
    BY <1>2, <1>4, <1>5, DedupUnchanged DEF PipeInv

LEMMA PublishStep ==
  ASSUME PipeInv, NEW t \in Tailers, Publish(t)
  PROVE  PipeInv'
  <1>1. /\ pc[t] = "reading" /\ pos[t] < Len(log)
        /\ pos' = [pos EXCEPT ![t] = @ + 1]
        /\ pc' = [pc EXCEPT ![t] = "tray"]
        /\ UNCHANGED <<log, started, carried, rows, failed, eventLog, unlogged, passed>>
        /\ UNCHANGED dedupVars
    BY DEF Publish, Goto, sinkVars, dedupVars
  <1>2. /\ pos' \in [Tailers -> Nat] /\ pos'[t] = pos[t] + 1
        /\ pc' \in [Tailers -> Labels] /\ pc'[t] = "tray"
        /\ \A u \in Tailers \ {t} : pc'[u] = pc[u] /\ pos'[u] = pos[u]
    BY <1>1 DEF PipeInv, PipeTypes, Labels, Publishing
  <1>3. PipeTypes'
    BY <1>1, <1>2 DEF PipeInv, PipeTypes
  <1>4. SinkInv'
    BY <1>1, <1>2, SinksUnchanged DEF Carrying, PipeInv, PipeTypes
  <1>6. \A i \in 1 .. pos[t] : passed[log[i]] # {}
    BY <1>1 DEF PipeInv, ReadHasPassed
  <1>7. pos[t] \in Nat
    BY DEF PipeInv, PipeTypes
  <1>8. ReadHasPassed'
    BY <1>1, <1>2, <1>6, <1>7 DEF PipeInv, ReadHasPassed
  <1> QED
    BY <1>1, <1>3, <1>4, <1>8, DedupUnchanged DEF PipeInv

(* What is no duplicate passes now, a cooldown after it last did.          *)
LEMMA NewPass ==
  ASSUME PipeInv, NEW e \in Keys, IsDuplicate(e), ~SeenRecently(e)
  PROVE  /\ now \in Nat /\ now \notin passed[e]
         /\ passed'[e] = passed[e] \union {now}
         /\ \A k \in Keys \ {e} : passed'[k] = passed[k]
  <1>1. passed \in [Keys -> SUBSET Nat] /\ now \in Nat
    BY DEF PipeInv, DedupInv, DedupTypes
  <1>2. ~Abstract!Recent(e)
    BY SeenIsRecent DEF PipeInv
  <1>3. now - now < Period
    BY <1>1, DeduplicatorAssumption
  <1>4. now \notin passed[e]
    BY <1>2, <1>3 DEF Abstract!Recent
  <1> QED
    BY <1>1, <1>4 DEF IsDuplicate

LEMMA FilterPasses ==
  ASSUME PipeInv, NEW t \in Tailers, Filter(t), ~SeenRecently(Event(t))
  PROVE  PipeTypes' /\ SinkInv' /\ ReadHasPassed'
  <1> DEFINE e == Event(t)
  <1>1. /\ pc[t] = "filter" /\ IsDuplicate(e)
        /\ pc' = [pc EXCEPT ![t] = "store"]
        /\ carried' = [carried EXCEPT ![t] = now]
        /\ UNCHANGED <<log, started, pos, rows, failed, eventLog, unlogged>>
    BY DEF Filter, Goto, sinkVars
  <1>2. e \in Keys /\ pos[t] \in 1 .. Len(log) /\ e = log[pos[t]]
    BY <1>1, EventIsKey DEF PipeInv, Publishing, Event
  <1>3. /\ now \in Nat /\ now \notin passed[e]
        /\ passed'[e] = passed[e] \union {now}
        /\ \A k \in Keys \ {e} : passed'[k] = passed[k]
    BY <1>1, <1>2, NewPass
  <1> HIDE DEF e
  <1>4. \A k \in Keys : passed[k] \subseteq passed'[k]
    BY <1>3
  <1>5. /\ pc' \in [Tailers -> Labels] /\ pc'[t] = "store"
        /\ carried' \in [Tailers -> Nat] /\ carried'[t] = now
        /\ \A u \in Tailers \ {t} : pc'[u] = pc[u] /\ carried'[u] = carried[u]
    BY <1>1, <1>3 DEF PipeInv, PipeTypes, Labels, Publishing
  <1>6. PipeTypes'
    BY <1>1, <1>2, <1>5 DEF PipeInv, PipeTypes, Publishing
  <1>7. /\ \A u \in Tailers : Event(u)' = Event(u)
        /\ \A u \in Tailers \ {t} : Copy(u)' = Copy(u)
    BY <1>1, <1>5 DEF Event, Copy
  <1>8. PassedIsOnItsWay'
    <2> SUFFICES ASSUME NEW k \in Keys, NEW time \in passed'[k]
                 PROVE  Through(k, time)' \/ Brought(k, time)'
      BY DEF PassedIsOnItsWay
    <2>1. CASE k = e /\ time = now
      BY <1>5, <1>7, <2>1 DEF Brought, Carrying, e
    <2>2. CASE time \in passed[k]
      <3>1. Through(k, time) => Through(k, time)'
        BY <1>1 DEF Through
      <3>2. Brought(k, time) => Brought(k, time)'
        BY <1>1, <1>5, <1>7 DEF Brought, Carrying
      <3> QED
        BY <2>2, <3>1, <3>2 DEF PipeInv, SinkInv, PassedIsOnItsWay
    <2> QED
      BY <1>3, <2>1, <2>2
  <1>9. CopiesPassed'
    <2>1. rows \union failed \union eventLog \union unlogged \subseteq Copies
      BY DEF PipeInv, SinkInv, CopiesPassed
    <2>2. \A r \in rows : r.event \in Keys /\ r.at \in passed[r.event]
      BY <2>1 DEF PipeInv, SinkInv, CopiesPassed, Copies
    <2>3. ASSUME NEW u \in Tailers, pc'[u] = "store"
          PROVE  carried'[u] \in passed'[Event(u)]
      <3>1. CASE u = t
        BY <1>3, <1>5, <3>1 DEF e
      <3>2. CASE u # t
        <4>1. Event(u) \in Keys /\ carried[u] \in passed[Event(u)] /\ carried'[u] = carried[u]
          BY <1>5, <2>3, <3>2, EventIsKey DEF PipeInv, SinkInv, CopiesPassed, Publishing
        <4> QED
          BY <1>4, <4>1
      <3> QED
        BY <3>1, <3>2
    <2> QED
      BY <1>1, <1>4, <1>7, <2>1, <2>2, <2>3 DEF CopiesPassed
  <1>10. OneRowEach'
    <2>1. \A r \in rows : r.event = e => r.at # now
      BY <1>3 DEF PipeInv, SinkInv, CopiesPassed
    <2>2. \A u \in Tailers : pc[u] = "store" /\ Event(u) = e => carried[u] # now
      BY <1>3 DEF PipeInv, SinkInv, CopiesPassed
    <2> QED
      BY <1>1, <1>5, <1>7, <2>1, <2>2 DEF PipeInv, SinkInv, OneRowEach, e
  <1>11. ReadHasPassed'
    <2> SUFFICES ASSUME NEW u \in Tailers, NEW i \in 1 .. pos[u]
                 PROVE  passed'[log[i]] # {} \/ (i = pos[u] /\ pc'[u] \in {"tray", "filter"})
      BY <1>1 DEF ReadHasPassed
    <2>1. log[i] \in Keys
      BY DEF PipeInv, PipeTypes
    <2>2. passed[log[i]] # {} => passed'[log[i]] # {}
      BY <1>4, <2>1
    <2>3. CASE u = t
      BY <1>1, <1>2, <1>3, <2>2, <2>3 DEF PipeInv, ReadHasPassed
    <2>4. CASE u # t
      BY <1>5, <2>2, <2>4 DEF PipeInv, ReadHasPassed
    <2> QED
      BY <2>3, <2>4
  <1> QED
    BY <1>6, <1>8, <1>9, <1>10, <1>11 DEF SinkInv

LEMMA FilterStep ==
  ASSUME PipeInv, NEW t \in Tailers, Filter(t)
  PROVE  PipeInv'
  <1>1. pc[t] = "filter" /\ IsDuplicate(Event(t)) /\ Event(t) \in Keys
    BY EventIsKey DEF Filter, PipeInv, Publishing
  <1>2. DedupInv'
    BY <1>1, DuplicateStep DEF PipeInv
  <1>3. CASE SeenRecently(Event(t))
    <2>1. /\ pc' = [pc EXCEPT ![t] = "reading"]
          /\ UNCHANGED <<log, started, pos, carried, rows, failed, eventLog, unlogged, passed>>
      BY <1>1, <1>3 DEF Filter, Goto, sinkVars, IsDuplicate
    <2>2. /\ pc' \in [Tailers -> Labels] /\ pc'[t] = "reading"
          /\ \A u \in Tailers \ {t} : pc'[u] = pc[u]
      BY <2>1 DEF PipeInv, PipeTypes, Labels
    <2>3. PipeTypes'
      BY <1>1, <2>1, <2>2 DEF PipeInv, PipeTypes, Publishing
    <2>4. SinkInv'
      BY <1>1, <2>1, <2>2, SinksUnchanged DEF Carrying, PipeInv, PipeTypes
    <2>5. passed[Event(t)] # {}
      BY <1>1, <1>3 DEF PipeInv, DedupInv, MapIsEnough, SeenRecently
    <2>6. ReadHasPassed'
      BY <1>1, <2>1, <2>2, <2>5 DEF PipeInv, ReadHasPassed, Event
    <2> QED
      BY <1>2, <2>3, <2>4, <2>6 DEF PipeInv
  <1>4. CASE ~SeenRecently(Event(t))
    BY <1>2, <1>4, FilterPasses DEF PipeInv
  <1> QED
    BY <1>3, <1>4

LEMMA InsertStep ==
  ASSUME PipeInv, NEW t \in Tailers, InsertEvent(t) \/ InsertFails(t)
  PROVE  PipeInv'
  <1>1. /\ pc[t] = "store" /\ pc' = [pc EXCEPT ![t] = "write"]
        /\ rows \union failed \union {Copy(t)} = rows' \union failed'
        /\ rows \subseteq rows' /\ rows' \subseteq rows \union {Copy(t)}
        /\ UNCHANGED <<log, started, pos, carried, eventLog, unlogged, passed>>
        /\ UNCHANGED dedupVars
    BY DEF InsertEvent, InsertFails, Goto, dedupVars
  <1>2. /\ pc' \in [Tailers -> Labels] /\ pc'[t] = "write"
        /\ \A u \in Tailers \ {t} : pc'[u] = pc[u]
    BY <1>1 DEF PipeInv, PipeTypes, Labels, Publishing
  <1>3. Copy(t) \in Copies /\ Copy(t).event = Event(t) /\ Copy(t).at = carried[t]
    BY <1>1, CopyIsOfEvent DEF PipeInv, Publishing
  <1>4. PipeTypes'
    BY <1>1, <1>2 DEF PipeInv, PipeTypes, Publishing
  <1>5. \A u \in Tailers : Event(u)' = Event(u) /\ Copy(u)' = Copy(u)
    BY <1>1 DEF Event, Copy
  <1>6. PassedIsOnItsWay'
    <2> SUFFICES ASSUME NEW k \in Keys, NEW time \in passed[k]
                 PROVE  Through(k, time)' \/ Brought(k, time)'
      BY <1>1 DEF PassedIsOnItsWay
    <2>1. Through(k, time) => Through(k, time)'
      BY <1>1 DEF Through
    <2>2. Brought(k, time) => Brought(k, time)'
      <3> SUFFICES ASSUME NEW u \in Tailers, pc[u] \in Carrying, Event(u) = k, carried[u] = time,
                          pc[u] = "write" => Copy(u) \in rows \union failed
                   PROVE  Brought(k, time)'
        BY DEF Brought
      <3>1. pc'[u] \in Carrying /\ (pc'[u] = "write" => Copy(u) \in rows' \union failed')
        BY <1>1, <1>2 DEF Carrying
      <3> QED
        BY <1>1, <1>5, <3>1 DEF Brought
    <2> QED
      BY <2>1, <2>2 DEF PipeInv, SinkInv, PassedIsOnItsWay
  <1>7. CopiesPassed'
    <2>1. rows' \union failed' \union eventLog' \union unlogged' \subseteq Copies
      BY <1>1, <1>3 DEF PipeInv, SinkInv, CopiesPassed
    <2>2. \A r \in rows' : r.at \in passed[r.event]
      BY <1>1, <1>3 DEF PipeInv, SinkInv, CopiesPassed
    <2>3. \A u \in Tailers : pc'[u] = "store" => carried[u] \in passed[Event(u)]
      BY <1>2 DEF PipeInv, SinkInv, CopiesPassed
    <2> QED
      BY <1>1, <1>5, <2>1, <2>2, <2>3 DEF CopiesPassed
  <1>8. OneRowEach'
    <2>1. \A u \in Tailers : pc'[u] = "store" =>
            u # t /\ (Event(u) = Event(t) => carried[u] # carried[t])
      BY <1>1, <1>2 DEF PipeInv, SinkInv, OneRowEach
    <2>2. \A r \in rows' : \A u \in Tailers :
            pc'[u] = "store" /\ Event(u) = r.event => carried[u] # r.at
      BY <1>1, <1>2, <1>3, <2>1 DEF PipeInv, SinkInv, OneRowEach
    <2>3. \A u, v \in Tailers :
            /\ pc'[u] = "store" /\ pc'[v] = "store"
            /\ Event(u) = Event(v) /\ carried[u] = carried[v]
            => u = v
      BY <1>2 DEF PipeInv, SinkInv, OneRowEach
    <2> QED
      BY <1>1, <1>5, <2>2, <2>3 DEF OneRowEach
  <1>9. ReadHasPassed'
    BY <1>1, <1>2 DEF PipeInv, ReadHasPassed
  <1> QED
    BY <1>1, <1>4, <1>6, <1>7, <1>8, <1>9, DedupUnchanged DEF PipeInv, SinkInv

LEMMA WriteStep ==
  ASSUME PipeInv, NEW t \in Tailers, WriteEventLog(t)
  PROVE  PipeInv'
  <1>1. /\ pc[t] = "write" /\ pc' = [pc EXCEPT ![t] = "reading"]
        /\ carried' = [carried EXCEPT ![t] = 0]
        /\ eventLog' \union unlogged' = eventLog \union unlogged \union {Copy(t)}
        /\ UNCHANGED <<log, started, pos, rows, failed, passed>> /\ UNCHANGED dedupVars
    BY DEF WriteEventLog, Goto, dedupVars
  <1>2. /\ pc' \in [Tailers -> Labels] /\ pc'[t] = "reading"
        /\ carried' \in [Tailers -> Nat]
        /\ \A u \in Tailers \ {t} : pc'[u] = pc[u] /\ carried'[u] = carried[u]
    BY <1>1 DEF PipeInv, PipeTypes, Labels
  <1>3. Copy(t) \in Copies /\ Copy(t).event = Event(t) /\ Copy(t).at = carried[t]
    BY <1>1, CopyIsOfEvent DEF PipeInv, Publishing
  <1>4. PipeTypes'
    BY <1>1, <1>2 DEF PipeInv, PipeTypes, Publishing
  <1>5. /\ \A u \in Tailers : Event(u)' = Event(u)
        /\ \A u \in Tailers \ {t} : Copy(u)' = Copy(u)
    BY <1>1, <1>2 DEF Event, Copy
  <1>6. PassedIsOnItsWay'
    <2> SUFFICES ASSUME NEW k \in Keys, NEW time \in passed[k]
                 PROVE  Through(k, time)' \/ Brought(k, time)'
      BY <1>1 DEF PassedIsOnItsWay
    <2>1. Through(k, time) => Through(k, time)'
      BY <1>1 DEF Through
    <2>2. Brought(k, time) => Through(k, time)' \/ Brought(k, time)'
      <3> SUFFICES ASSUME NEW u \in Tailers, pc[u] \in Carrying, Event(u) = k, carried[u] = time,
                          pc[u] = "write" => Copy(u) \in rows \union failed
                   PROVE  Through(k, time)' \/ Brought(k, time)'
        BY DEF Brought
      <3>1. CASE u = t
        BY <1>1, <1>3, <3>1 DEF Through
      <3>2. CASE u # t
        BY <1>1, <1>2, <1>5, <3>2 DEF Brought
      <3> QED
        BY <3>1, <3>2
    <2> QED
      BY <2>1, <2>2 DEF PipeInv, SinkInv, PassedIsOnItsWay
  <1>7. CopiesPassed'
    <2>1. rows' \union failed' \union eventLog' \union unlogged' \subseteq Copies
      BY <1>1, <1>3 DEF PipeInv, SinkInv, CopiesPassed
    <2> QED
      BY <1>1, <1>2, <1>5, <2>1 DEF PipeInv, SinkInv, CopiesPassed
  <1>8. OneRowEach'
    BY <1>1, <1>2, <1>5 DEF PipeInv, SinkInv, OneRowEach
  <1>9. ReadHasPassed'
    BY <1>1, <1>2 DEF PipeInv, ReadHasPassed
  <1> QED
    BY <1>1, <1>4, <1>6, <1>7, <1>8, <1>9, DedupUnchanged DEF PipeInv, SinkInv

LEMMA TailerStep ==
  ASSUME PipeInv, NEW t \in Tailers, Tailer(t)
  PROVE  PipeInv'
  <1>1. CASE Publish(t)
    BY <1>1, PublishStep
  <1>2. CASE Filter(t)
    BY <1>2, FilterStep
  <1>3. CASE InsertEvent(t) \/ InsertFails(t)
    BY <1>3, InsertStep
  <1>4. CASE WriteEventLog(t)
    BY <1>4, WriteStep
  <1>5. CASE Poll(t) \/ Stop(t) \/ ReadEOF(t) \/ TrayHandles(t)
    <2>1. PICK label \in {"reading", "stopped", "waiting", "filter"} :
            /\ pc' = [pc EXCEPT ![t] = label]
            /\ pc[t] \in {"waiting", "reading", "tray"}
            /\ pc[t] = "tray" <=> label = "filter"
      BY <1>5 DEF Poll, Stop, ReadEOF, TrayHandles, Goto
    <2>2. /\ UNCHANGED <<log, started, pos, carried, rows, failed, eventLog, unlogged>>
          /\ UNCHANGED dedupVars
      BY <1>5 DEF Poll, Stop, ReadEOF, TrayHandles, sinkVars
    <2>3. started \in Tailers /\ t <= started
      BY <2>1 DEF PipeInv, PipeTypes, Tailers
    <2>4. /\ label \in Labels \ Carrying /\ pc[t] \notin Carrying
          /\ pc[t] \in {"tray", "filter"} => label = "filter"
          /\ label \in Publishing => pc[t] \in Publishing
      BY <2>1 DEF Labels, Publishing, Carrying
    <2>5. started' \in Tailers /\ started' >= started /\ t <= started'
      BY <2>2, <2>3, PipelineAssumption DEF Tailers
    <2> QED
      BY <2>1, <2>2, <2>4, <2>5, QuietStep
  <1> QED
    BY <1>1, <1>2, <1>3, <1>4, <1>5 DEF Tailer

LEMMA TimeAndRestartStep ==
  ASSUME PipeInv, RestartTailer \/ RestartFails \/ TimeStep \/ UNCHANGED vars
  PROVE  PipeInv'
  <1>1. CASE RestartTailer
    <2>1. /\ started + 1 \in Tailers /\ pc[started + 1] = "off"
          /\ pc' = [pc EXCEPT ![started + 1] = "waiting"] /\ started' = started + 1
          /\ UNCHANGED <<log, pos, carried, rows, failed, eventLog, unlogged>>
          /\ UNCHANGED dedupVars
      BY <1>1, PipelineAssumption DEF RestartTailer, sinkVars, PipeInv, PipeTypes, Tailers
    <2>2. /\ started' \in Tailers /\ started' >= started /\ started + 1 <= started'
          /\ "waiting" \in Labels \ Carrying /\ "waiting" \notin Publishing
      BY <2>1, PipelineAssumption DEF Labels, Publishing, Carrying, PipeInv, PipeTypes, Tailers
    <2>3. pc[started + 1] \notin Carrying /\ pc[started + 1] \notin {"tray", "filter"}
      BY <2>1 DEF Carrying
    <2> QED
      BY <2>1, <2>2, <2>3, QuietStep
  <1>2. CASE RestartFails \/ TimeStep \/ UNCHANGED vars
    <2>1. UNCHANGED <<log, started, pc, pos, carried, rows, failed, eventLog, unlogged, passed>>
      BY <1>2 DEF RestartFails, TimeStep, Tick, Cleanup, vars, tailerVars, sinkVars, dedupVars
    <2>2. DedupInv'
      <3>1. Tick \/ Cleanup \/ UNCHANGED dedupVars
        BY <1>2 DEF RestartFails, TimeStep, vars
      <3> QED
        BY <3>1, TickStep, CleanupStep, DedupUnchanged DEF PipeInv
    <2>3. PipeTypes' /\ ReadHasPassed'
      BY <2>1 DEF PipeInv, PipeTypes, ReadHasPassed
    <2>4. SinkInv'
      BY <2>1, SinksUnchanged DEF PipeInv, PipeTypes
    <2> QED
      BY <2>2, <2>3, <2>4 DEF PipeInv
  <1> QED
    BY <1>1, <1>2

LEMMA PipeStep == PipeInv /\ [Next]_vars => PipeInv'
  BY GameStep, TailerStep, TimeAndRestartStep DEF Next

(* Whatever the deduplicator drops, whenever its map is cleared, however   *)
(* many tailers publish and whatever fails: once the log is read each of   *)
(* its events has passed, and each time it passed one copy of it was put   *)
(* in the store and into events.log, unless that very insert or write      *)
(* failed (app.go:165-197).                                                *)
THEOREM LogIsStored == Spec => []LogReachesStore
  BY PipeInitial, PipeStep, PipeInvEnough, PTL DEF Spec

(* Two rows of one event are of passes a cooldown apart, though tailers    *)
(* that run side by side read the same line (app.go:174-183,               *)
(* dedup.go:35-65).                                                        *)
THEOREM RowsStayApart == Spec => RowsApart
  <1>1. PipeInv => (\A t \in Tailers : InsertEvent(t) =>
                     \A r \in rows : r.event = Event(t) =>
                       r.at + Period <= carried[t] \/ carried[t] + Period <= r.at)
    BY InsertIsApart DEF InsertEvent
  <1> QED
    BY <1>1, PipeInitial, PipeStep, PTL DEF Spec, RowsApart

(* And the deduplicator they share answers as one that forgets nothing,    *)
(* also while a tailer that was replaced publishes beside its successor.   *)
THEOREM PipelineKeepsCooldown == Spec => Abstract!CooldownSpec
  <1>1. Init => DedupInit
    BY DEF Init
  <1>2. PipeInv /\ [Next]_vars => [DedupNext]_dedupVars
    <2> SUFFICES ASSUME PipeInv, [Next]_vars PROVE [DedupNext]_dedupVars
      OBVIOUS
    <2>1. ASSUME NEW t \in Tailers, Filter(t) PROVE DedupNext
      <3>1. Event(t) \in Keys
        BY <2>1, EventIsKey DEF PipeInv, Filter, Publishing
      <3> QED
        BY <2>1, <3>1 DEF Filter, DedupNext
    <2>2. CASE TimeStep
      BY <2>2 DEF TimeStep, DedupNext
    <2> QED
      BY <2>1, <2>2 DEF Next, Tailer, GameLogs, RestartTailer, RestartFails, Poll, Stop,
         ReadEOF, Publish, TrayHandles, InsertEvent, InsertFails, WriteEventLog, vars
  <1>3. Spec => DedupSpec
    BY <1>1, <1>2, PipeInitial, PipeStep, PTL DEF Spec, DedupSpec
  <1> QED
    BY <1>3, DedupImplementsCooldown, PTL
-----------------------------------------------------------------------------
(* The elements of a finite set of numbers have the places 1, 2, ... in it. *)
LEMMA Places ==
  ASSUME NEW kept \in SUBSET Nat, IsFiniteSet(kept)
  PROVE  /\ Cardinality(kept) \in Nat
         /\ \A i \in kept : Place(kept, i) \in 1 .. Cardinality(kept)
         /\ \A i, j \in kept : i < j => Place(kept, i) < Place(kept, j)
         /\ \A n \in 1 .. Cardinality(kept) : \E i \in kept : Place(kept, i) = n
  <1> DEFINE upTo(i) == {j \in kept : j <= i}
  <1>1. Cardinality(kept) \in Nat
    BY FS_CardinalityType
  <1>2. ASSUME NEW i \in kept
        PROVE  /\ IsFiniteSet(upTo(i)) /\ Place(kept, i) \in Nat
               /\ Place(kept, i) \in 1 .. Cardinality(kept)
    <2>1. upTo(i) \in SUBSET kept /\ i \in upTo(i)
      OBVIOUS
    <2>2. IsFiniteSet(upTo(i)) /\ Cardinality(upTo(i)) <= Cardinality(kept)
      BY <2>1, FS_Subset
    <2>3. Cardinality(upTo(i)) \in Nat /\ Cardinality(upTo(i)) # 0
      BY <2>1, <2>2, FS_CardinalityType, FS_EmptySet
    <2> QED
      BY <1>1, <2>2, <2>3 DEF Place
  <1>3. ASSUME NEW i \in kept, NEW j \in kept, i < j
        PROVE  Place(kept, i) < Place(kept, j)
    <2>1. upTo(i) \in SUBSET upTo(j) /\ j \in upTo(j) /\ j \notin upTo(i)
      <3>1. \A k \in kept : k \in Nat /\ (k <= i => k <= j)
        BY <1>3
      <3>2. j <= j /\ ~(j <= i)
        BY <1>3
      <3> QED
        BY <3>1, <3>2
    <2>2. Cardinality(upTo(i)) <= Cardinality(upTo(j))
          /\ Cardinality(upTo(i)) # Cardinality(upTo(j))
      BY <1>2, <2>1, FS_Subset
    <2>3. Place(kept, i) \in Nat /\ Place(kept, j) \in Nat
      BY <1>2
    <2> QED
      BY <2>2, <2>3 DEF Place
  <1>4. ASSUME NEW n \in 1 .. Cardinality(kept)
        PROVE  \E i \in kept : Place(kept, i) = n
    <2> DEFINE place == [i \in kept |-> Place(kept, i)]
    <2>1. place \in [kept -> 1 .. Cardinality(kept)]
      BY <1>2
    <2>2. \A i, j \in kept : place[i] = place[j] => i = j
      <3> SUFFICES ASSUME NEW i \in kept, NEW j \in kept, i # j PROVE place[i] # place[j]
        OBVIOUS
      <3>1. i < j \/ j < i
        OBVIOUS
      <3>2. place[i] \in Nat /\ place[j] \in Nat
        BY <1>1, <1>2
      <3> QED
        BY <1>3, <3>1, <3>2
    <2>3. place \in Injection(kept, 1 .. Cardinality(kept))
      BY <2>1, <2>2 DEF Injection, IsInjective
    <2>4. IsFiniteSet(1 .. Cardinality(kept))
          /\ Cardinality(1 .. Cardinality(kept)) = Cardinality(kept)
      BY <1>1, FS_Interval
    <2> HIDE DEF place
    <2>5. place \in Surjection(kept, 1 .. Cardinality(kept))
      BY <2>3, <2>4, FS_Injection
    <2>6. \E i \in kept : place[i] = n
      BY <2>5 DEF Surjection
    <2> QED
      BY <2>6 DEF place
  <1> QED
    BY <1>1, <1>2, <1>3, <1>4

(* Leaving a ship out of a list that has each ship once.                    *)
LEMMA WithoutProperties ==
  ASSUME NEW list \in Seq(STRING), IsInjective(list), NEW ship
  PROVE  /\ Without(list, ship) \in Seq(STRING)
         /\ IsInjective(Without(list, ship))
         /\ ToSet(Without(list, ship)) = ToSet(list) \ {ship}
  <1> DEFINE kept == Kept(list, ship)
             at(n) == CHOOSE i \in kept : Place(kept, i) = n
             left == Without(list, ship)
  <1>1. kept \in SUBSET (1 .. Len(list)) /\ kept \in SUBSET Nat /\ Len(list) \in Nat
    BY DEF Kept
  <1>2. IsFiniteSet(kept)
    <2>1. IsFiniteSet(1 .. Len(list))
      BY <1>1, FS_Interval
    <2> HIDE DEF kept
    <2> QED
      BY <1>1, <2>1, FS_Subset
  <1>3. /\ Cardinality(kept) \in Nat
        /\ \A i \in kept : Place(kept, i) \in 1 .. Cardinality(kept)
        /\ \A i, j \in kept : i < j => Place(kept, i) < Place(kept, j)
        /\ \A n \in 1 .. Cardinality(kept) : \E i \in kept : Place(kept, i) = n
    BY <1>1, <1>2, Places
  <1>4. left = [n \in 1 .. Cardinality(kept) |-> list[at(n)]]
    BY DEF Without
  <1> HIDE DEF left
  <1>5. \A n \in 1 .. Cardinality(kept) : at(n) \in kept /\ Place(kept, at(n)) = n
    BY <1>3
  <1>6. \A i \in kept : at(Place(kept, i)) = i
    <2> SUFFICES ASSUME NEW i \in kept PROVE at(Place(kept, i)) = i
      OBVIOUS
    <2> DEFINE j == at(Place(kept, i))
    <2>1. j \in kept /\ Place(kept, j) = Place(kept, i) /\ Place(kept, i) \in Nat
      BY <1>3, <1>5
    <2>2. i \in Nat /\ j \in Nat
      BY <1>1, <2>1
    <2> HIDE DEF j
    <2>3. ~(i < j) /\ ~(j < i)
      BY <1>3, <2>1
    <2>4. j = i
      BY <2>2, <2>3
    <2> QED
      BY <2>4 DEF j
  <1> HIDE DEF at, kept
  <1>7. \A i \in kept : i \in 1 .. Len(list) /\ list[i] \in STRING /\ list[i] # ship
    BY <1>1 DEF kept, Kept
  <1>8. left \in Seq(STRING) /\ DOMAIN left = 1 .. Cardinality(kept)
    BY <1>3, <1>4, <1>5, <1>7
  <1>9. IsInjective(left)
    <2> SUFFICES ASSUME NEW m \in 1 .. Cardinality(kept), NEW n \in 1 .. Cardinality(kept),
                        left[m] = left[n]
                 PROVE  m = n
      BY <1>8 DEF IsInjective
    <2>1. at(m) \in DOMAIN list /\ at(n) \in DOMAIN list /\ list[at(m)] = list[at(n)]
      BY <1>4, <1>5, <1>7
    <2>2. at(m) = at(n)
      BY <2>1 DEF IsInjective
    <2> QED
      BY <1>5, <2>2
  <1>10. ToSet(left) = ToSet(list) \ {ship}
    <2>1. ASSUME NEW n \in 1 .. Cardinality(kept)
          PROVE  left[n] \in ToSet(list) \ {ship}
      BY <1>4, <1>5, <1>7 DEF ToSet
    <2>2. ASSUME NEW i \in DOMAIN list, list[i] # ship
          PROVE  \E n \in DOMAIN left : left[n] = list[i]
      <3>1. i \in kept
        BY <2>2 DEF kept, Kept
      <3>2. Place(kept, i) \in 1 .. Cardinality(kept) /\ at(Place(kept, i)) = i
        BY <1>3, <1>6, <3>1
      <3> QED
        BY <1>4, <1>8, <3>2
    <2> QED
      BY <1>8, <2>1, <2>2 DEF ToSet
  <1> QED
    BY <1>8, <1>9, <1>10 DEF left

(* What handleEvent makes of a list, for an event of any type.             *)
LEMMA ShipsAfterProperties ==
  ASSUME NEW list \in Seq(STRING), IsInjective(list), NEW e \in Keys
  PROVE  /\ ShipsAfter(list, e) \in Seq(STRING) /\ IsInjective(ShipsAfter(list, e))
         /\ ToSet(ShipsAfter(list, e)) =
              IF e.type = "ship_boarded" THEN ToSet(list) \union {e.ship}
              ELSE IF e.type = "ship_exited" THEN ToSet(list) \ {e.ship}
              ELSE ToSet(list)
         /\ ~Writes(list, e) => ShipsAfter(list, e) = list
  <1>1. e.ship \in STRING
    BY PipelineAssumption
  <1>2. CASE e.type = "ship_boarded" /\ e.ship \notin ToSet(list)
    <2> DEFINE longer == Append(list, e.ship)
               n == Len(list)
    <2>1. /\ longer \in Seq(STRING) /\ n \in Nat /\ DOMAIN longer = 1 .. n + 1
          /\ \A i \in 1 .. n : longer[i] = list[i]
          /\ longer[n + 1] = e.ship
      BY <1>1
    <2>2. DOMAIN list = 1 .. n /\ \A i \in 1 .. n : list[i] # e.ship
      BY <1>2 DEF ToSet
    <2> HIDE DEF longer, n
    <2>3. \A i \in 1 .. n + 1 : i \in 1 .. n \/ i = n + 1
      BY <2>1
    <2>4. IsInjective(longer)
      BY <2>1, <2>2, <2>3 DEF IsInjective
    <2>5. ToSet(longer) = ToSet(list) \union {e.ship}
      BY <2>1, <2>2, <2>3 DEF ToSet
    <2>6. ShipsAfter(list, e) = longer /\ Writes(list, e)
      BY <1>2 DEF ShipsAfter, Writes, longer
    <2> QED
      BY <1>2, <2>1, <2>4, <2>5, <2>6
  <1>3. CASE e.type = "ship_exited"
    BY <1>3, WithoutProperties DEF ShipsAfter, Writes
  <1>4. CASE e.type # "ship_exited" /\ ~(e.type = "ship_boarded" /\ e.ship \notin ToSet(list))
    BY <1>4 DEF ShipsAfter
  <1> QED
    BY <1>2, <1>3, <1>4
-----------------------------------------------------------------------------
(* What the first n events of the log say of ship s: that it was boarded   *)
(* or left, and that the player is aboard of it.                           *)
TouchedAt(n, s) ==
  \E i \in 1 .. n : log[i].type \in {"ship_boarded", "ship_exited"} /\ log[i].ship = s
AboardAt(n, s) ==
  \E i \in 1 .. n : /\ log[i].type = "ship_boarded" /\ log[i].ship = s
                    /\ \A j \in i + 1 .. n : ~(log[j].type = "ship_exited" /\ log[j].ship = s)

(* How many events of the session the tray has from tailer t.              *)
Handled(t) == IF pc[t] = "tray" THEN pos[t] - 1 ELSE pos[t]

(* One tailer publishes at a time, and an earlier one no more.             *)
TakeTurns ==
  \A t, u \in Tailers : t # u /\ pc[t] \in Publishing =>
    /\ pc[u] \notin Publishing
    /\ u > t => pos[u] = 0

(* Of a ship that the last tailer to publish has come to, the tray knows   *)
(* what the log says; any other it may know from a tailer before it, and   *)
(* then the log says something of it as well.                              *)
TrayKnows ==
  /\ \A t \in Tailers : pc[t] = "tray" => ships[t] = activeShips
  /\ \A t \in Tailers : pos[t] > 0 /\ (\A u \in Tailers : u > t => pos[u] = 0) =>
       \A s : TouchedAt(Handled(t), s) =>
         (s \in ToSet(activeShips) <=> AboardAt(Handled(t), s))
  /\ \A s \in ToSet(activeShips) : TouchedAt(Len(log), s)
  /\ \/ currentShip \in ToSet(activeShips)
     \/ currentShip = Empty /\ activeShips = <<>>

TrayTypes ==
  /\ ships \in [Tailers -> Seq(STRING)] /\ \A t \in Tailers : IsInjective(ships[t])
  /\ activeShips \in Seq(STRING) /\ IsInjective(activeShips)
  /\ overlapped \in BOOLEAN
  /\ \A t \in Tailers : t > started => pos[t] = 0

TrayInv == TrayTypes /\ (~overlapped => TakeTurns /\ TrayKnows)

LEMMA TrayInitial == Init => TrayInv
  <1> SUFFICES ASSUME Init PROVE TrayInv
    OBVIOUS
  <1>1. IsInjective(<<>>) /\ <<>> \in Seq(STRING)
    BY DEF IsInjective
  <1>2. TrayTypes
    BY <1>1 DEF Init, TrayInit, TrayTypes
  <1>3. TakeTurns
    BY DEF Init, TakeTurns, Publishing, StartedPc
  <1>4. TrayKnows
    BY DEF Init, TrayInit, TrayKnows, StartedPc, ToSet
  <1> QED
    BY <1>2, <1>3, <1>4 DEF TrayInv

LEMMA TrayInvEnough == PipeInv /\ TrayInv => TrayFollowsTheLog
  <1> SUFFICES ASSUME PipeInv, TrayInv, Settled, ~overlapped
               PROVE  /\ ToSet(activeShips) = Aboard(log) /\ IsInjective(activeShips)
                      /\ currentShip \in Aboard(log) \/ (currentShip = Empty /\ Aboard(log) = {})
    BY DEF TrayFollowsTheLog
  <1> DEFINE n == Len(log)
  <1>1. started \in Tailers /\ pos[started] = n /\ n \in Nat /\ DOMAIN log = 1 .. n
        /\ Handled(started) = n
    BY DEF PipeInv, PipeTypes, Settled, Handled, Tailers
  <1>2. \A s : s \in Aboard(log) <=> AboardAt(n, s)
    BY <1>1 DEF Aboard, AboardAt
  <1>3. \A s : AboardAt(n, s) => TouchedAt(n, s)
    BY DEF AboardAt, TouchedAt
  <1>4. TrayKnows /\ TrayTypes
    BY DEF TrayInv
  <1>5. n = 0 \/ \A s : TouchedAt(n, s) => (s \in ToSet(activeShips) <=> AboardAt(n, s))
    BY <1>1, <1>4 DEF TrayKnows, TrayTypes
  <1>6. n = 0 => \A s : ~TouchedAt(n, s)
    BY DEF TouchedAt
  <1>7. \A s \in ToSet(activeShips) : TouchedAt(n, s)
    BY <1>4 DEF TrayKnows
  <1> HIDE DEF n
  <1>8. \A s : s \in ToSet(activeShips) <=> s \in Aboard(log)
    BY <1>2, <1>3, <1>5, <1>6, <1>7
  <1>9. ToSet(activeShips) = Aboard(log)
    BY <1>8
  <1>10. activeShips = <<>> => ToSet(activeShips) = {}
    BY DEF ToSet
  <1> QED
    BY <1>4, <1>9, <1>10 DEF TrayKnows, TrayTypes

(* Steps of a tailer that is not at the tray, before or after.             *)
LEMMA TrayQuietStep ==
  ASSUME PipeInv, TrayInv, NEW t \in Tailers, NEW label \in Labels,
         pc' = [pc EXCEPT ![t] = label],
         pc[t] # "tray", label # "tray",
         label \in Publishing => pc[t] \in Publishing,
         UNCHANGED <<log, pos, ships, overlapped>>, UNCHANGED trayVars,
         started' \in Nat, started' >= started
  PROVE  TrayInv'
  <1>1. pc'[t] = label /\ \A u \in Tailers \ {t} : pc'[u] = pc[u]
    BY DEF PipeInv, PipeTypes
  <1>2. \A u \in Tailers : /\ pc'[u] = "tray" <=> pc[u] = "tray"
                           /\ pc'[u] \in Publishing => pc[u] \in Publishing
    BY <1>1
  <1>3. TrayTypes'
    BY DEF TrayInv, TrayTypes, trayVars, PipeInv, PipeTypes, Tailers
  <1>4. \A u \in Tailers : Handled(u)' = Handled(u)
    BY <1>2 DEF Handled
  <1>5. TakeTurns => TakeTurns'
    BY <1>2 DEF TakeTurns
  <1>6. TrayKnows => TrayKnows'
    <2>1. \A n, s : /\ TouchedAt(n, s)' <=> TouchedAt(n, s)
                    /\ AboardAt(n, s)' <=> AboardAt(n, s)
      BY DEF TouchedAt, AboardAt
    <2> QED
      BY <1>2, <1>4, <2>1 DEF TrayKnows, trayVars
  <1> QED
    BY <1>3, <1>5, <1>6 DEF TrayInv

LEMMA TrayGameStep ==
  ASSUME PipeInv, TrayInv, GameLogs
  PROVE  TrayInv'
  <1> DEFINE n == Len(log)
  <1>1. PICK e \in Keys : log' = Append(log, e)
    BY DEF GameLogs
  <1>2. UNCHANGED <<started, pc, pos, ships, overlapped, activeShips, currentShip>>
    BY DEF GameLogs, tailerVars, trayVars
  <1>3. n \in Nat /\ n' = n + 1 /\ \A i \in 1 .. n : log'[i] = log[i]
    BY <1>1 DEF PipeInv, PipeTypes
  <1>4. \A m \in 0 .. n : \A s : /\ TouchedAt(m, s)' <=> TouchedAt(m, s)
                                 /\ AboardAt(m, s)' <=> AboardAt(m, s)
    <2> SUFFICES ASSUME NEW m \in 0 .. n, NEW s
                 PROVE  /\ TouchedAt(m, s)' <=> TouchedAt(m, s)
                        /\ AboardAt(m, s)' <=> AboardAt(m, s)
      OBVIOUS
    <2>1. \A i \in 1 .. m : log'[i] = log[i]
      BY <1>3
    <2>2. \A i \in 1 .. m : \A j \in i + 1 .. m : j \in 1 .. m
      BY <1>3
    <2> QED
      BY <2>1, <2>2 DEF TouchedAt, AboardAt
  <1>5. \A t \in Tailers : Handled(t)' = Handled(t) /\ Handled(t) \in 0 .. n
    BY <1>2, <1>3 DEF Handled, PipeInv, PipeTypes, Publishing
  <1>6. \A s : TouchedAt(Len(log), s) => TouchedAt(Len(log), s)'
    <2>1. \A i \in 1 .. Len(log) : i \in 1 .. Len(log') /\ log'[i] = log[i]
      BY <1>3
    <2> QED
      BY <2>1 DEF TouchedAt
  <1>7. ASSUME TrayKnows PROVE TrayKnows'
    <2>1. \A t \in Tailers : \A s : /\ TouchedAt(Handled(t), s)' <=> TouchedAt(Handled(t), s)
                                    /\ AboardAt(Handled(t), s)' <=> AboardAt(Handled(t), s)
      BY <1>4, <1>5
    <2> QED
      BY <1>2, <1>6, <1>7, <2>1 DEF TrayKnows
  <1>8. TakeTurns => TakeTurns'
    BY <1>2 DEF TakeTurns
  <1>9. TrayTypes'
    BY <1>2 DEF TrayInv, TrayTypes
  <1> QED
    BY <1>2, <1>7, <1>8, <1>9 DEF TrayInv

(* A tailer publishes its next event: it has the tray to itself, and all   *)
(* it reads of the session it has from its beginning.                      *)
LEMMA TrayPublishStep ==
  ASSUME PipeInv, TrayInv, NEW t \in Tailers, Publish(t)
  PROVE  TrayInv'
  <1>1. /\ pc[t] = "reading" /\ pos[t] < Len(log)
        /\ pos' = [pos EXCEPT ![t] = @ + 1]
        /\ pc' = [pc EXCEPT ![t] = "tray"]
        /\ ships' = [ships EXCEPT ![t] = activeShips]
        /\ UNCHANGED <<log, started, activeShips, currentShip>>
    BY DEF Publish, Goto, trayVars
  <1>2. overlapped' = (overlapped \/ \E u \in Tailers \ {t} :
                         pc[u] \in Publishing \/ (u > t /\ pos[u] > 0))
    BY DEF Publish
  <1>3. /\ pos[t] \in Nat /\ pos'[t] = pos[t] + 1 /\ pc'[t] = "tray"
        /\ ships'[t] = activeShips /\ t <= started
        /\ \A u \in Tailers \ {t} : pc'[u] = pc[u] /\ pos'[u] = pos[u] /\ ships'[u] = ships[u]
    BY <1>1 DEF PipeInv, PipeTypes, TrayInv, TrayTypes, Tailers
  <1>4. TrayTypes'
    <2>1. overlapped' \in BOOLEAN
      BY <1>2 DEF TrayInv, TrayTypes
    <2>2. \A u \in Tailers : u > started => pos'[u] = 0
      BY <1>3 DEF PipeInv, PipeTypes, TrayInv, TrayTypes, Tailers
    <2>3. ships' \in [Tailers -> Seq(STRING)] /\ \A u \in Tailers : IsInjective(ships'[u])
      BY <1>1, <1>3 DEF TrayInv, TrayTypes
    <2> QED
      BY <1>1, <2>1, <2>2, <2>3 DEF TrayInv, TrayTypes
  <1>5. ASSUME ~overlapped' PROVE TakeTurns' /\ TrayKnows'
    <2>1. /\ ~overlapped /\ TakeTurns /\ TrayKnows
          /\ \A u \in Tailers \ {t} : pc[u] \notin Publishing /\ ~(u > t /\ pos[u] > 0)
      BY <1>2, <1>5 DEF TrayInv
    <2>2. \A u \in Tailers \ {t} : u > t => pos'[u] = 0
      <3>1. \A u \in Tailers : pos[u] \in Nat
        BY DEF PipeInv, PipeTypes
      <3> QED
        BY <1>3, <2>1, <3>1
    <2>3. TakeTurns'
      BY <1>3, <2>1, <2>2 DEF TakeTurns
    <2>4. \A u \in Tailers : Handled(u)' = Handled(u)
      BY <1>1, <1>3 DEF Handled
    <2>5. \A n, s : /\ TouchedAt(n, s)' <=> TouchedAt(n, s)
                    /\ AboardAt(n, s)' <=> AboardAt(n, s)
      BY <1>1 DEF TouchedAt, AboardAt
    <2>6. ASSUME NEW u \in Tailers, pos'[u] > 0, \A v \in Tailers : v > u => pos'[v] = 0,
                 NEW s, TouchedAt(Handled(u), s)
          PROVE  s \in ToSet(activeShips) <=> AboardAt(Handled(u), s)
      <3>1. u = t
        <4>1. u \in Int /\ t \in Int
          BY DEF Tailers
        <4>2. ~(t > u)
          BY <1>3, <2>6
        <4>3. u # t => ~(u > t)
          BY <2>2, <2>6
        <4> QED
          BY <4>1, <4>2, <4>3
      <3>2. Handled(t) = pos[t]
        BY <1>1 DEF Handled
      <3>3. pos[t] > 0
        BY <1>3, <2>6, <3>1, <3>2 DEF TouchedAt
      <3>4. \A v \in Tailers : v > t => pos[v] = 0
        BY <1>3, <2>6, <3>1 DEF Tailers
      <3> QED
        BY <2>1, <2>6, <3>1, <3>3, <3>4 DEF TrayKnows
    <2>7. \A u \in Tailers : pc'[u] = "tray" => ships'[u] = activeShips'
      BY <1>1, <1>3, <2>1 DEF TrayKnows
    <2>8. TrayKnows'
      BY <1>1, <2>1, <2>4, <2>5, <2>6, <2>7 DEF TrayKnows
    <2> QED
      BY <2>3, <2>8
  <1> QED
    BY <1>4, <1>5 DEF TrayInv

(* One event more, for each ship: what the log says of it.                 *)
LEMMA OneEventMore ==
  ASSUME NEW n \in Nat, NEW s
  PROVE  /\ TouchedAt(n + 1, s) <=>
              TouchedAt(n, s) \/ (/\ log[n + 1].type \in {"ship_boarded", "ship_exited"}
                                  /\ log[n + 1].ship = s)
         /\ AboardAt(n + 1, s) <=>
              \/ log[n + 1].type = "ship_boarded" /\ log[n + 1].ship = s
              \/ AboardAt(n, s) /\ ~(log[n + 1].type = "ship_exited" /\ log[n + 1].ship = s)
  <1>1. \A i : i \in 1 .. n + 1 <=> i \in 1 .. n \/ i = n + 1
    OBVIOUS
  <1>2. \A i \in 1 .. n : \A j : j \in i + 1 .. n + 1 <=> j \in i + 1 .. n \/ j = n + 1
    OBVIOUS
  <1>3. \A j : j \notin n + 1 + 1 .. n + 1
    OBVIOUS
  <1>4. TouchedAt(n + 1, s) <=>
          TouchedAt(n, s) \/ (/\ log[n + 1].type \in {"ship_boarded", "ship_exited"}
                              /\ log[n + 1].ship = s)
    BY <1>1 DEF TouchedAt
  <1> DEFINE B(i) == log[i].type = "ship_boarded" /\ log[i].ship = s
             X(j) == log[j].type = "ship_exited" /\ log[j].ship = s
  <1>5. AboardAt(n + 1, s) <=> \E i \in 1 .. n + 1 : B(i) /\ \A j \in i + 1 .. n + 1 : ~X(j)
    BY DEF AboardAt
  <1>6. AboardAt(n, s) <=> \E i \in 1 .. n : B(i) /\ \A j \in i + 1 .. n : ~X(j)
    BY DEF AboardAt
  <1>7. B(n + 1) => ~X(n + 1)
    OBVIOUS
  <1> HIDE DEF B, X
  <1>8. AboardAt(n + 1, s) <=> B(n + 1) \/ (AboardAt(n, s) /\ ~X(n + 1))
    BY <1>1, <1>2, <1>3, <1>5, <1>6, <1>7
  <1> QED
    BY <1>4, <1>8 DEF B, X

(* The tray handles the event: it alone has read the list it writes.       *)
LEMMA TrayHandlesStep ==
  ASSUME PipeInv, TrayInv, NEW t \in Tailers, TrayHandles(t)
  PROVE  TrayInv'
  <1> DEFINE e == Event(t)
             n == pos[t] - 1
             after == ShipsAfter(ships[t], e)
  <1>1. /\ pc[t] = "tray"
        /\ pc' = [pc EXCEPT ![t] = "filter"]
        /\ ships' = [ships EXCEPT ![t] = <<>>]
        /\ activeShips' = IF Writes(ships[t], e) THEN after ELSE activeShips
        /\ currentShip' = IF e.type = "ship_boarded" THEN e.ship
                          ELSE IF e.type # "ship_exited" THEN currentShip
                          ELSE IF after = <<>> THEN Empty ELSE Last(after)
        /\ UNCHANGED <<log, started, pos, overlapped>>
    BY DEF TrayHandles, HandleEvent, Goto
  <1>2. /\ e \in Keys /\ pos[t] \in 1 .. Len(log) /\ n \in Nat /\ n + 1 = pos[t]
        /\ Len(log) \in Nat /\ e = log[n + 1]
    BY <1>1, EventIsKey DEF PipeInv, PipeTypes, Publishing, Event
  <1>3. ships[t] \in Seq(STRING) /\ IsInjective(ships[t])
    BY DEF TrayInv, TrayTypes
  <1>4. /\ after \in Seq(STRING) /\ IsInjective(after)
        /\ ToSet(after) = IF e.type = "ship_boarded" THEN ToSet(ships[t]) \union {e.ship}
                          ELSE IF e.type = "ship_exited" THEN ToSet(ships[t]) \ {e.ship}
                          ELSE ToSet(ships[t])
        /\ ~Writes(ships[t], e) => after = ships[t]
    BY <1>2, <1>3, ShipsAfterProperties
  <1>5. /\ pc'[t] = "filter" /\ \A u \in Tailers \ {t} : pc'[u] = pc[u]
        /\ \A u \in Tailers \ {t} : ships'[u] = ships[u]
    BY <1>1 DEF PipeInv, PipeTypes, TrayInv, TrayTypes
  <1> HIDE DEF e, n, after
  <1>6. TrayTypes'
    <2>1. IsInjective(<<>>) /\ <<>> \in Seq(STRING)
      BY DEF IsInjective
    <2>2. ships' \in [Tailers -> Seq(STRING)] /\ \A u \in Tailers : IsInjective(ships'[u])
      BY <1>1, <2>1 DEF TrayInv, TrayTypes
    <2>3. activeShips' \in Seq(STRING) /\ IsInjective(activeShips')
      BY <1>1, <1>4 DEF TrayInv, TrayTypes
    <2> QED
      BY <1>1, <2>2, <2>3 DEF TrayInv, TrayTypes
  <1>7. ASSUME ~overlapped PROVE TakeTurns' /\ TrayKnows'
    <2>1. TakeTurns /\ TrayKnows
      BY <1>7 DEF TrayInv
    <2>2. \A u \in Tailers : pc'[u] \in Publishing <=> pc[u] \in Publishing
      BY <1>1, <1>5 DEF Publishing
    <2>3. TakeTurns'
      BY <1>1, <2>1, <2>2 DEF TakeTurns
    <2>4. /\ \A u \in Tailers \ {t} : pc[u] \notin Publishing
          /\ \A u \in Tailers : u > t => pos[u] = 0
      BY <1>1, <2>1 DEF TakeTurns, Publishing, Tailers
    <2>5. ships[t] = activeShips /\ activeShips' = after
      BY <1>1, <1>4, <2>1 DEF TrayKnows
    <2>6. \A u \in Tailers : pc'[u] # "tray"
      BY <1>5, <2>4 DEF Publishing
    <2>7. Handled(t) = n /\ Handled(t)' = n + 1
      BY <1>1, <1>2, <2>6 DEF Handled, n
    <2>8. \A m, s : /\ TouchedAt(m, s)' <=> TouchedAt(m, s)
                    /\ AboardAt(m, s)' <=> AboardAt(m, s)
      BY <1>1 DEF TouchedAt, AboardAt
    <2>9. pos[t] > 0 /\ \A s : TouchedAt(n, s) => (s \in ToSet(activeShips) <=> AboardAt(n, s))
      BY <1>2, <2>1, <2>4, <2>7 DEF TrayKnows
    <2>10. \A s : TouchedAt(n + 1, s) => (s \in ToSet(after) <=> AboardAt(n + 1, s))
      <3> SUFFICES ASSUME NEW s, TouchedAt(n + 1, s)
                   PROVE  s \in ToSet(after) <=> AboardAt(n + 1, s)
        OBVIOUS
      <3>1. /\ TouchedAt(n, s) \/ (e.type \in {"ship_boarded", "ship_exited"} /\ e.ship = s)
            /\ AboardAt(n + 1, s) <=>
                 \/ e.type = "ship_boarded" /\ e.ship = s
                 \/ AboardAt(n, s) /\ ~(e.type = "ship_exited" /\ e.ship = s)
        BY <1>2, OneEventMore
      <3> QED
        BY <1>4, <2>5, <2>9, <3>1
    <2>11. \A u \in Tailers : pos'[u] > 0 /\ (\A v \in Tailers : v > u => pos'[v] = 0) =>
             \A s : TouchedAt(Handled(u), s)' => (s \in ToSet(activeShips') <=> AboardAt(Handled(u), s)')
      <3> SUFFICES ASSUME NEW u \in Tailers, pos'[u] > 0, \A v \in Tailers : v > u => pos'[v] = 0
                   PROVE  u = t
        BY <2>5, <2>7, <2>8, <2>10
      <3>1. u \in Int /\ t \in Int
        BY DEF Tailers
      <3>2. ~(t > u) /\ ~(u > t)
        BY <1>1, <2>4, <2>9
      <3> QED
        BY <3>1, <3>2
    <2>12. \A s \in ToSet(after) : TouchedAt(Len(log), s)
      <3>1. TouchedAt(Len(log), e.ship) \/ e.type # "ship_boarded"
        BY <1>2 DEF TouchedAt, n
      <3>2. \A s \in ToSet(activeShips) : TouchedAt(Len(log), s)
        BY <2>1 DEF TrayKnows
      <3> QED
        BY <1>4, <2>5, <3>1, <3>2
    <2>13. currentShip' \in ToSet(after) \/ (currentShip' = Empty /\ after = <<>>)
      <3>1. CASE e.type = "ship_boarded"
        BY <1>1, <1>4, <3>1
      <3>2. CASE e.type = "ship_exited"
        <4>1. after # <<>> => Last(after) \in ToSet(after)
          BY <1>4 DEF Last, ToSet
        <4> QED
          BY <1>1, <3>2, <4>1
      <3>3. CASE e.type \notin {"ship_boarded", "ship_exited"}
        <4>1. after = activeShips
          BY <1>4, <2>5, <3>3 DEF Writes
        <4> QED
          BY <1>1, <2>1, <3>3, <4>1 DEF TrayKnows
      <3> QED
        BY <3>1, <3>2, <3>3
    <2>14. TrayKnows'
      BY <1>1, <2>5, <2>6, <2>8, <2>11, <2>12, <2>13 DEF TrayKnows
    <2> QED
      BY <2>3, <2>14
  <1> QED
    BY <1>1, <1>6, <1>7 DEF TrayInv

LEMMA TrayStep == PipeInv /\ TrayInv /\ [Next]_vars => TrayInv'
  <1> SUFFICES ASSUME PipeInv, TrayInv, [Next]_vars PROVE TrayInv'
    OBVIOUS
  <1>1. ASSUME NEW t \in Tailers, Tailer(t) PROVE TrayInv'
    <2>1. CASE Publish(t)
      BY <2>1, TrayPublishStep
    <2>2. CASE TrayHandles(t)
      BY <2>2, TrayHandlesStep
    <2>3. CASE ~Publish(t) /\ ~TrayHandles(t)
      <3>1. PICK label \in {"reading", "stopped", "waiting", "store", "write"} :
              /\ pc' = [pc EXCEPT ![t] = label]
              /\ pc[t] # "tray" /\ (label \in {"store", "write"} => pc[t] \in Publishing)
        BY <1>1, <2>3 DEF Tailer, Poll, Stop, ReadEOF, Filter, InsertEvent, InsertFails,
           WriteEventLog, Goto, Publishing
      <3>2. UNCHANGED <<log, started, pos, ships, overlapped>> /\ UNCHANGED trayVars
        BY <1>1, <2>3 DEF Tailer, Poll, Stop, ReadEOF, Filter, InsertEvent, InsertFails,
           WriteEventLog
      <3>3. /\ label \in Labels /\ label # "tray" /\ (label \in Publishing => pc[t] \in Publishing)
            /\ started' \in Nat /\ started' >= started
        BY <3>1, <3>2 DEF Labels, Publishing, PipeInv, PipeTypes, Tailers
      <3> QED
        BY <3>1, <3>2, <3>3, TrayQuietStep
    <2> QED
      BY <2>1, <2>2, <2>3
  <1>2. CASE RestartTailer
    <2>1. /\ started + 1 \in Tailers /\ pc[started + 1] = "off"
          /\ pc' = [pc EXCEPT ![started + 1] = "waiting"] /\ started' = started + 1
          /\ UNCHANGED <<log, pos, ships, overlapped>> /\ UNCHANGED trayVars
      BY <1>2, PipelineAssumption DEF RestartTailer, PipeInv, PipeTypes, Tailers
    <2>2. /\ "waiting" \in Labels /\ "waiting" \notin Publishing
          /\ started' \in Nat /\ started' >= started
      BY <2>1 DEF Labels, Publishing, PipeInv, PipeTypes, Tailers
    <2>3. pc[started + 1] # "tray" /\ "waiting" # "tray"
      BY <2>1
    <2> QED
      BY <2>1, <2>2, <2>3, TrayQuietStep
  <1>3. CASE RestartFails \/ TimeStep \/ UNCHANGED vars
    <2>1. UNCHANGED <<log, started, pc, pos, ships, overlapped, activeShips, currentShip>>
      BY <1>3 DEF RestartFails, TimeStep, vars, tailerVars, trayVars
    <2> QED
      BY <2>1 DEF TrayInv, TrayTypes, TakeTurns, TrayKnows, Handled, TouchedAt, AboardAt
  <1>4. CASE GameLogs
    BY <1>4, TrayGameStep
  <1> QED
    BY <1>1, <1>2, <1>3, <1>4 DEF Next

(* However often the session is read again, and from wherever in it, the   *)
(* tray ends with the ships the log leaves the player aboard of, each once,*)
(* and shows one of them, as long as the tailers take turns: any events,   *)
(* any number of tailers (app.go:418-443, tray.go:73-119).                 *)
THEOREM TrayFollows == Spec => []TrayFollowsTheLog
  <1>1. Init => PipeInv /\ TrayInv
    BY PipeInitial, TrayInitial
  <1>2. PipeInv /\ TrayInv /\ [Next]_vars => (PipeInv /\ TrayInv)'
    BY PipeStep, TrayStep
  <1> QED
    BY <1>1, <1>2, TrayInvEnough, PTL DEF Spec
-----------------------------------------------------------------------------
(* What TypeOK says beyond the types that are proved above.                *)
Bounded ==
  /\ DedupTypeOK
  /\ Len(log) <= MaxLog /\ cancelled \subseteq 1 .. started
  /\ \A t \in Tailers : pc[t] = "off" => t > started
  /\ \A t \in Tailers : carried[t] \in 0 .. now
  /\ rows \union failed \union eventLog \union unlogged \subseteq Copies
  /\ overlapped \in BOOLEAN

LEMMA BoundedInitial == Init => Bounded
  <1> SUFFICES ASSUME Init PROVE Bounded
    OBVIOUS
  <1>1. DedupTypeOK
    BY DedupTypeInitial DEF Init
  <1>2. Len(log) <= MaxLog
    BY PipelineAssumption DEF Init
  <1>3. \A t \in Tailers : pc[t] = "off" => t > started
    BY DEF Init, StartedPc, Tailers
  <1>4. \A t \in Tailers : carried[t] \in 0 .. now
    BY DEF Init, DedupInit
  <1> QED
    BY <1>1, <1>2, <1>3, <1>4 DEF Init, Bounded

LEMMA TypesEnough == PipeInv /\ Bounded => TypeOK
  BY DEF PipeInv, PipeTypes, Bounded, TypeOK, Labels

LEMMA TailerBounded ==
  ASSUME PipeInv, Bounded, NEW t \in Tailers, Tailer(t)
  PROVE  Bounded'
  <1>1. PICK label \in Labels \ {"off"} : pc' = [pc EXCEPT ![t] = label]
    BY DEF Tailer, Poll, Stop, ReadEOF, Publish, TrayHandles, Filter, InsertEvent,
       InsertFails, WriteEventLog, Goto, Labels, Publishing
  <1>2. pc[t] # "off"
    BY DEF Tailer, Poll, Stop, ReadEOF, Publish, TrayHandles, Filter, InsertEvent,
       InsertFails, WriteEventLog
  <1>3. UNCHANGED <<log, started, cancelled>>
    BY DEF Tailer, Poll, Stop, ReadEOF, Publish, TrayHandles, Filter, InsertEvent,
       InsertFails, WriteEventLog
  <1>4. \A u \in Tailers : pc'[u] = "off" => u > started'
    BY <1>1, <1>2, <1>3 DEF Bounded, PipeInv, PipeTypes
  <1>5. pc[t] \in Publishing => Event(t) \in Keys /\ Copy(t) \in Copies
    BY EventIsKey, CopyIsOfEvent DEF PipeInv
  <1>6. (rows \union failed \union eventLog \union unlogged \subseteq Copies)'
    BY <1>5 DEF Bounded, Tailer, Poll, Stop, ReadEOF, Publish, TrayHandles, Filter,
       InsertEvent, InsertFails, WriteEventLog, sinkVars, Publishing
  <1>7. overlapped' \in BOOLEAN
    BY DEF Bounded, Tailer, Poll, Stop, ReadEOF, Publish, TrayHandles, Filter,
       InsertEvent, InsertFails, WriteEventLog
  <1>8. DedupTypeOK'
    <2>1. CASE Filter(t)
      BY <1>5, <2>1, DuplicateTypes DEF Bounded, Filter, Publishing
    <2>2. CASE ~Filter(t)
      <3>1. UNCHANGED dedupVars
        BY <2>2 DEF Tailer, Poll, Stop, ReadEOF, Publish, TrayHandles, InsertEvent,
           InsertFails, WriteEventLog
      <3> QED
        BY <3>1, DedupTypesUnchanged DEF Bounded
    <2> QED
      BY <2>1, <2>2
  <1>9. \A u \in Tailers : carried'[u] \in 0 .. now'
    <2>1. now' = now /\ now \in Nat
      BY DEF Bounded, DedupTypeOK, Tailer, Poll, Stop, ReadEOF, Publish, TrayHandles, Filter,
         IsDuplicate, InsertEvent, InsertFails, WriteEventLog, dedupVars
    <2>2. \/ carried' = carried
          \/ \E time \in {0, now} : carried' = [carried EXCEPT ![t] = time]
      BY DEF Tailer, Poll, Stop, ReadEOF, Publish, TrayHandles, Filter,
         InsertEvent, InsertFails, WriteEventLog
    <2>3. carried \in [Tailers -> Nat] /\ \A u \in Tailers : carried[u] \in 0 .. now
      BY DEF Bounded, PipeInv, PipeTypes
    <2> QED
      BY <2>1, <2>2, <2>3
  <1> QED
    BY <1>3, <1>4, <1>6, <1>7, <1>8, <1>9 DEF Bounded

LEMMA BoundedStep == PipeInv /\ Bounded /\ [Next]_vars => Bounded'
  <1> SUFFICES ASSUME PipeInv, Bounded, [Next]_vars PROVE Bounded'
    OBVIOUS
  <1> USE DEF Bounded
  <1>1. CASE GameLogs
    <2>1. PICK e \in Keys : log' = Append(log, e)
      BY <1>1 DEF GameLogs
    <2>2. Len(log') <= MaxLog
      BY <1>1, <2>1, PipelineAssumption DEF GameLogs, PipeInv, PipeTypes
    <2> QED
      BY <1>1, <2>2, DedupTypesUnchanged DEF GameLogs, tailerVars, sinkVars, dedupVars
  <1>2. CASE RestartTailer
    <2>1. UNCHANGED <<log, sinkVars, overlapped, dedupVars>>
      BY <1>2 DEF RestartTailer
    <2>2. started' = started + 1 /\ cancelled' = 1 .. started /\ started \in Nat
          /\ pc' = [pc EXCEPT ![started + 1] = "waiting"]
      BY <1>2 DEF RestartTailer, PipeInv, PipeTypes, Tailers
    <2>3. \A t \in Tailers : pc'[t] = "off" => t > started'
      BY <2>2 DEF PipeInv, PipeTypes, Tailers
    <2>4. UNCHANGED carried /\ cancelled' \subseteq 1 .. started'
      BY <1>2, <2>2 DEF RestartTailer
    <2> QED
      BY <2>1, <2>2, <2>3, <2>4, DedupTypesUnchanged DEF sinkVars, dedupVars
  <1>3. CASE RestartFails
    BY <1>3, DedupTypesUnchanged DEF RestartFails, sinkVars, dedupVars
  <1>4. CASE TimeStep
    <2>1. UNCHANGED <<log, started, cancelled, pc, carried, rows, failed, eventLog, unlogged,
                      overlapped>>
          /\ DedupTypeOK'
      BY <1>4, TimeTypes DEF TimeStep, tailerVars, sinkVars
    <2>2. now \in Nat /\ now' \in Nat /\ now <= now'
      BY <1>4 DEF TimeStep, Tick, Cleanup, DedupTypeOK
    <2> QED
      BY <2>1, <2>2 DEF PipeInv, PipeTypes
  <1>5. CASE UNCHANGED vars
    BY <1>5, DedupTypesUnchanged DEF vars, tailerVars, sinkVars, dedupVars
  <1> QED
    BY <1>1, <1>2, <1>3, <1>4, <1>5, TailerBounded DEF Next

(* Every variable has its type, for any events and tailers: none reads     *)
(* beyond the log, and nothing is stored that is no event.                 *)
THEOREM PipelineTypes == Spec => []TypeOK
  <1>1. PipeInv /\ Bounded /\ [Next]_vars => (PipeInv /\ Bounded)'
    BY PipeStep, BoundedStep
  <1> QED
    BY <1>1, PipeInitial, BoundedInitial, TypesEnough, PTL DEF Spec
=============================================================================
