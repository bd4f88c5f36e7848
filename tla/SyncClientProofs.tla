--------------------------- MODULE SyncClientProofs ---------------------------
(***************************************************************************)
(* Proofs about SyncClient, for any set of clients and types and any       *)
(* bounds: type correctness, the inductive invariant Inv, the safety       *)
(* properties it implies, and that the clients implement Delivery.         *)
(***************************************************************************)
EXTENDS SyncClient, FiniteSetTheorems, WellFoundedInduction, TLAPS

\* A new row leaves the ids there are and adds one.
LEMMA InsertGrows ==
  ASSUME StoreTypeOK, NEW t \in Types, Insert(t)
  PROVE  /\ StoreTypeOK'
         /\ Len(rows') = Len(rows) + 1
         /\ Ids \subseteq Ids'
BY DEF StoreTypeOK, Insert, Ids

\* What the query returns: rows that exist, not yet synced.
LEMMA UnsyncedEventsAreIds ==
  ASSUME NEW limit
  PROVE  UnsyncedEvents(limit) \subseteq Ids \ synced
BY DEF UnsyncedEvents, Unsynced

\* The query returns the oldest unsynced rows: with a row it returns every
\* older one that is not synced, whatever the limit.
LEMMA UnsyncedEventsClosed ==
  ASSUME StoreTypeOK, NEW limit \in Nat, NEW i \in UnsyncedEvents(limit)
  PROVE  1 .. i \subseteq UnsyncedEvents(limit) \cup synced
<1> DEFINE UpTo(k) == {j \in Unsynced : j <= k}
<1>1. Len(rows) \in Nat /\ i \in Ids /\ Ids \subseteq Nat
  BY UnsyncedEventsAreIds DEF StoreTypeOK, Ids
<1>2. SUFFICES ASSUME NEW k \in 1 .. i, k \notin synced
               PROVE  k \in UnsyncedEvents(limit)
  OBVIOUS
<1>3. k \in Unsynced /\ i \in Unsynced /\ k <= i /\ k \in Nat /\ i \in Nat
  BY <1>1, <1>2, UnsyncedEventsAreIds DEF Unsynced, Ids
<1>4. UpTo(k) \subseteq UpTo(i)
  <2> SUFFICES ASSUME NEW j \in Unsynced, j <= k PROVE j <= i
    OBVIOUS
  <2>1. j \in Nat
    BY <1>1 DEF Unsynced
  <2> QED BY <1>3, <2>1
<1>5. IsFiniteSet(UpTo(i)) /\ IsFiniteSet(UpTo(k))
  <2>1. IsFiniteSet(Ids)
    BY <1>1, FS_Interval DEF Ids
  <2>2. UpTo(i) \subseteq Ids /\ UpTo(k) \subseteq Ids
    BY DEF Unsynced
  <2> QED BY <2>1, <2>2, FS_Subset
<1>6. Cardinality(UpTo(k)) <= Cardinality(UpTo(i))
  BY <1>4, <1>5, FS_Subset
<1>7. Cardinality(UpTo(k)) \in Nat /\ Cardinality(UpTo(i)) \in Nat
  BY <1>5, FS_CardinalityType
<1>8. Cardinality(UpTo(i)) <= limit
  BY DEF UnsyncedEvents
<1>9. Cardinality(UpTo(k)) <= limit
  BY <1>6, <1>7, <1>8
<1> QED BY <1>3, <1>9 DEF UnsyncedEvents

----------------------------------------------------------------------------
(* Type correctness.                                                       *)

LEMMA TypeInit == Init => TypeOK
BY ClientAssumption DEF Init, StoreInit, TypeOK, StoreTypeOK, Ids, Prefs

\* syncBatch's return leaves every variable of the client well typed.
LEMMA ReturnTypes ==
  ASSUME TypeOK, NEW c \in Clients, Return(c)
  PROVE  /\ pc' \in [Clients -> {"off", "select", "filter", "send", "mark"}]
         /\ cancelled' \in [Clients -> BOOLEAN]
         /\ final' \in [Clients -> BOOLEAN]
         /\ batch' \in [Clients -> SUBSET Ids]
         /\ todo' \in [Clients -> SUBSET Ids]
         /\ payload' \in [Clients -> SUBSET Ids]
         /\ accepted' \in [Clients -> BOOLEAN]
         /\ UNCHANGED <<running, prefs, current, check>>
<1>1. cancelled' \in [Clients -> BOOLEAN]
  <2>1. (cancelled[c] /\ ~final[c]) \in BOOLEAN
    OBVIOUS
  <2> QED BY <2>1 DEF TypeOK, Return
<1> QED BY <1>1 DEF TypeOK, Return, prefVars

\* Each step of a client, the API or the rest of the program keeps the types.
LEMMA TypeStep == TypeOK /\ [Next]_vars => TypeOK'
<1> SUFFICES ASSUME TypeOK, [Next]_vars PROVE TypeOK'
  OBVIOUS
<1> USE DEF TypeOK, StoreTypeOK, storeVars, prefVars, clientVars, apiVars,
            Prefs
<1>1. ASSUME NEW c \in Clients, Tick(c) \/ FinalTick(c) PROVE TypeOK'
  <2>1. Fetch(c) /\ final' \in [Clients -> BOOLEAN]
    BY <1>1 DEF Tick, FinalTick
  <2>2. UnsyncedEvents(BatchSize) \in SUBSET Ids
    BY UnsyncedEventsAreIds
  <2> QED BY <2>1, <2>2 DEF Fetch, Ids
<1>2. ASSUME NEW c \in Clients, FinalFetchEnds(c) PROVE TypeOK'
  BY <1>2 DEF FinalFetchEnds, Ids
<1>3. ASSUME NEW c \in Clients, CheckEvent(c) PROVE TypeOK'
  <2>1. PICK i \in todo[c] :
          /\ todo' = [todo EXCEPT ![c] = @ \ {i}]
          /\ \/ /\ payload' = [payload EXCEPT ![c] = @ \cup {i}]
                /\ UNCHANGED withheld
             \/ /\ withheld' = withheld \cup {i}
                /\ UNCHANGED payload
    BY <1>3 DEF CheckEvent
  <2>2. i \in Ids
    BY <2>1
  <2>3. /\ todo[c] \ {i} \in SUBSET Ids
        /\ payload[c] \cup {i} \in SUBSET Ids
        /\ withheld \cup {i} \subseteq Ids
    BY <2>2
  <2>4. todo' \in [Clients -> SUBSET Ids]
    BY <2>1, <2>3
  <2>5. payload' \in [Clients -> SUBSET Ids] /\ withheld' \subseteq Ids
    BY <2>1, <2>3
  <2>6. UNCHANGED <<storeVars, running, prefVars, pc, cancelled, final, check,
                    batch, accepted, apiVars>>
    BY <1>3, Zenon DEF CheckEvent
  <2> QED BY <2>4, <2>5, <2>6 DEF Ids
<1>4. ASSUME NEW c \in Clients, Send(c) PROVE TypeOK'
  BY <1>4 DEF Send, Ids
<1>5. ASSUME NEW c \in Clients, SendCancelled(c) PROVE TypeOK'
  BY <1>5, ReturnTypes DEF SendCancelled, Ids
<1>6. ASSUME NEW c \in Clients, SendFails(c) PROVE TypeOK'
  <2>1. late' \subseteq SUBSET Ids
    <3>1. payload[c] \in SUBSET Ids
      OBVIOUS
    <3>2. late' = late \/ late' = late \cup {payload[c]}
      BY <1>6 DEF SendFails, Abandon
    <3> QED BY <3>1, <3>2
  <2> QED BY <1>6, <2>1, ReturnTypes DEF SendFails, Ids
<1>7. ASSUME NEW c \in Clients, ReceiveOK(c) PROVE TypeOK'
  BY <1>7 DEF ReceiveOK, Ids
<1>8. ASSUME NEW c \in Clients, ReceiveError(c) PROVE TypeOK'
  BY <1>8, ReturnTypes DEF ReceiveError, Ids
<1>9. ASSUME NEW c \in Clients, Mark(c) PROVE TypeOK'
  BY <1>9, ReturnTypes DEF Mark, MarkSynced, Ids
<1>10. ASSUME NEW c \in Clients, MarkFails(c) PROVE TypeOK'
  BY <1>10, ReturnTypes DEF MarkFails, Ids
<1>11. ASSUME NEW c \in Clients, Accept(c) PROVE TypeOK'
  BY <1>11 DEF Accept, Ids
<1>12. ASSUME NEW p \in late, AcceptLate(p) PROVE TypeOK'
  BY <1>12 DEF AcceptLate, Ids
<1>13. ASSUME NEW t \in Types, InsertEvent(t) PROVE TypeOK'
  BY <1>13, InsertGrows DEF InsertEvent, Insert, Ids
<1>14. ASSUME NEW t \in Types, NEW enabled \in BOOLEAN,
              SetSyncPreference(t, enabled)
       PROVE  TypeOK'
  BY <1>14 DEF SetSyncPreference, Ids
<1>15. ASSUME ResetSyncPreferences PROVE TypeOK'
  BY <1>15, ClientAssumption DEF ResetSyncPreferences, Ids
<1>16. ASSUME NEW c \in Clients, Start(c) \/ Cancel(c) PROVE TypeOK'
  BY <1>16 DEF Start, Cancel, Ids
<1>17. ASSUME Close PROVE TypeOK'
  BY <1>17 DEF Close, Ids
<1>18. ASSUME Exit PROVE TypeOK'
  <2>1. PICK lost \in SUBSET Clients : late' = late \cup {payload[c] : c \in lost}
    BY <1>18 DEF Exit, Abandon
  <2>2. \A c \in lost : payload[c] \in SUBSET Ids
    BY <2>1
  <2>3. late' \subseteq SUBSET Ids
    BY <2>1, <2>2
  <2> QED BY <1>18, <2>3 DEF Exit, Ids
<1>19. ASSUME Restart PROVE TypeOK'
  BY <1>19, ClientAssumption DEF Restart, Ids
<1>20. CASE UNCHANGED vars
  BY <1>20 DEF vars, Ids
<1> QED
  BY <1>1, <1>2, <1>3, <1>4, <1>5, <1>6, <1>7, <1>8, <1>9, <1>10, <1>11,
     <1>12, <1>13, <1>14, <1>15, <1>16, <1>17, <1>18, <1>19, <1>20
  DEF Next, ClientStep, ApiStep, AppStep

\* Every variable always has its type, for any constants.
THEOREM TypeCorrect == Spec => []TypeOK
<1> QED BY TypeInit, TypeStep, PTL DEF Spec

----------------------------------------------------------------------------
(* The inductive invariant.                                                *)

\* The attempt of a client that does not move stays well formed while rows
\* become synced and events are accepted or withheld.
LEMMA AttemptKept ==
  ASSUME NEW d \in Clients, AttemptOK(d),
         pc'[d] = pc[d], batch'[d] = batch[d], todo'[d] = todo[d],
         payload'[d] = payload[d], accepted'[d] = accepted[d],
         synced \subseteq synced', delivered \subseteq delivered',
         withheld \subseteq withheld'
  PROVE  AttemptOK(d)'
BY DEF AttemptOK

\* A client without an attempt is well formed.
LEMMA AttemptIdle ==
  ASSUME NEW d \in Clients, pc'[d] \in {"off", "select"},
         batch'[d] = {}, todo'[d] = {}, payload'[d] = {}, ~accepted'[d]
  PROVE  AttemptOK(d)'
BY DEF AttemptOK

\* What is in order stays so while events are accepted or withheld.
LEMMA InOrderKept ==
  ASSUME NEW p, InOrder(p), delivered \subseteq delivered',
         withheld \subseteq withheld'
  PROVE  InOrder(p)'
BY DEF InOrder

\* A payload whose batch is checked reaches back to what was settled before.
LEMMA PayloadInOrder ==
  ASSUME NEW c \in Clients, AttemptOK(c), NoSilentLoss, todo[c] = {}
  PROVE  InOrder(payload[c])
<1> SUFFICES ASSUME NEW i \in payload[c]
             PROVE  1 .. i \subseteq payload[c] \cup delivered \cup withheld
  BY DEF InOrder
<1>1. 1 .. i \subseteq batch[c] \cup synced
  BY DEF AttemptOK
<1>2. batch[c] \subseteq payload[c] \cup withheld
  BY DEF AttemptOK
<1> QED BY <1>1, <1>2 DEF NoSilentLoss

\* Accepting a payload that is in order leaves no gap, and every payload that
\* was in order still is.
LEMMA AcceptInOrder ==
  ASSUME NEW p, InOrder(p), NoGaps, NoSilentLoss, synced' = synced,
         delivered' = delivered \cup p, withheld' = withheld
  PROVE  NoGaps' /\ NoSilentLoss'
BY DEF InOrder, NoGaps, NoSilentLoss

\* A step that accepts and marks nothing keeps the two global properties.
LEMMA GlobalKept ==
  ASSUME NoGaps, NoSilentLoss, synced' = synced, delivered' = delivered,
         withheld \subseteq withheld'
  PROVE  NoGaps' /\ NoSilentLoss'
BY DEF NoGaps, NoSilentLoss

\* What the attempt at its update has dealt with: its batch, and with it every
\* row up to the largest id.
LEMMA MarkedAreSettled ==
  ASSUME NEW c \in Clients, AttemptOK(c), NoSilentLoss, pc[c] = "mark",
         NEW maxID \in batch[c]
  PROVE  /\ batch[c] \subseteq payload[c] \cup withheld
         /\ payload[c] \subseteq delivered
         /\ 1 .. maxID \subseteq batch[c] \cup synced
         /\ 1 .. maxID \subseteq delivered \cup withheld
<1>1. batch[c] \subseteq payload[c] \cup withheld
  BY DEF AttemptOK
<1>2. payload[c] \subseteq delivered
  BY DEF AttemptOK
<1>3. 1 .. maxID \subseteq batch[c] \cup synced
  BY DEF AttemptOK
<1> QED BY <1>1, <1>2, <1>3 DEF NoSilentLoss

\* The ids are an interval, so the rows up to one of them are 1 .. maxID.
LEMMA MarkSyncedIds ==
  ASSUME StoreTypeOK, NEW maxID \in Ids
  PROVE  MarkSynced(maxID) = synced \cup 1 .. maxID
BY DEF StoreTypeOK, Ids, MarkSynced

LEMMA InvInit == Init => Inv
BY TypeInit
DEF Init, StoreInit, Inv, AttemptOK, InOrder, NoSilentLoss, NoGaps

\* The attempt of the client that moves, and those of the others.
LEMMA OneMoves ==
  ASSUME NEW c \in Clients, \A d \in Clients : AttemptOK(d), AttemptOK(c)',
         \A d \in Clients \ {c} :
           /\ pc'[d] = pc[d] /\ batch'[d] = batch[d] /\ todo'[d] = todo[d]
           /\ payload'[d] = payload[d] /\ accepted'[d] = accepted[d],
         synced \subseteq synced', delivered \subseteq delivered',
         withheld \subseteq withheld'
  PROVE  \A d \in Clients : AttemptOK(d)'
<1> SUFFICES ASSUME NEW d \in Clients PROVE AttemptOK(d)'
  OBVIOUS
<1>1. CASE d = c
  BY <1>1
<1>2. CASE d # c
  BY <1>2, AttemptKept
<1> QED BY <1>1, <1>2

\* syncBatch's return leaves the client without an attempt, the others alone.
LEMMA ReturnAttempts ==
  ASSUME TypeOK, NEW c \in Clients, Return(c),
         \A d \in Clients : AttemptOK(d),
         synced \subseteq synced', delivered \subseteq delivered',
         withheld \subseteq withheld'
  PROVE  \A d \in Clients : AttemptOK(d)'
<1>1. pc'[c] \in {"off", "select"} /\ batch'[c] = {} /\ todo'[c] = {}
      /\ payload'[c] = {} /\ ~accepted'[c]
  BY DEF TypeOK, Return
<1>2. AttemptOK(c)'
  BY <1>1, AttemptIdle
<1>3. \A d \in Clients \ {c} :
        /\ pc'[d] = pc[d] /\ batch'[d] = batch[d] /\ todo'[d] = todo[d]
        /\ payload'[d] = payload[d] /\ accepted'[d] = accepted[d]
  BY DEF TypeOK, Return
<1> QED BY <1>2, <1>3, OneMoves

\* A step that changes no attempt, accepts and marks nothing, keeps all of Inv
\* but the types.
LEMMA AttemptsUntouched ==
  ASSUME Inv, TypeOK', UNCHANGED <<pc, batch, todo, payload, accepted>>,
         synced' = synced, delivered' = delivered, withheld' = withheld,
         late' = late
  PROVE  Inv'
<1>1. \A d \in Clients : AttemptOK(d)'
  BY AttemptKept DEF Inv
<1>2. \A p \in late' : InOrder(p)'
  BY InOrderKept DEF Inv
<1>3. NoGaps' /\ NoSilentLoss'
  BY GlobalKept DEF Inv
<1> QED BY <1>1, <1>2, <1>3 DEF Inv

\* A return that accepts and marks nothing keeps Inv, abandoning at most the
\* payload of a request.
LEMMA ReturnKeepsInv ==
  ASSUME Inv, TypeOK', NEW c \in Clients, Return(c),
         UNCHANGED <<synced, delivered, withheld>>,
         late' = late \/ (pc[c] = "send" /\ late' = late \cup {payload[c]})
  PROVE  Inv'
<1>1. \A d \in Clients : AttemptOK(d)'
  BY ReturnAttempts DEF Inv
<1>2. \A p \in late' : InOrder(p)'
  <2>1. \A p \in late : InOrder(p)'
    BY InOrderKept DEF Inv
  <2>2. ASSUME pc[c] = "send" PROVE InOrder(payload[c])
    BY <2>2, PayloadInOrder DEF Inv, AttemptOK
  <2>3. ASSUME pc[c] = "send", NEW p, p = payload[c] PROVE InOrder(p)'
    BY <2>2, <2>3, InOrderKept
  <2> QED BY <2>1, <2>3
<1>3. NoGaps' /\ NoSilentLoss'
  BY GlobalKept DEF Inv
<1> QED BY <1>1, <1>2, <1>3 DEF Inv

\* The query: a batch of the oldest rows, none checked yet.
LEMMA FetchKeepsInv ==
  ASSUME Inv, TypeOK', NEW c \in Clients, pc[c] = "select", Fetch(c)
  PROVE  Inv'
<1> DEFINE U == UnsyncedEvents(BatchSize)
<1>1. /\ pc'[c] = "filter" /\ batch'[c] = U /\ todo'[c] = U
      /\ payload'[c] = {} /\ ~accepted'[c]
  BY DEF Inv, TypeOK, AttemptOK, Fetch
<1>2. \A i \in U : 1 .. i \subseteq U \cup synced
  BY UnsyncedEventsClosed, ClientAssumption DEF Inv, TypeOK
<1>3. UNCHANGED <<synced, delivered, withheld, late>>
  BY DEF Fetch, storeVars, apiVars
<1>4. AttemptOK(c)'
  BY <1>1, <1>2, <1>3 DEF AttemptOK
<1>5. \A d \in Clients \ {c} :
        /\ pc'[d] = pc[d] /\ batch'[d] = batch[d] /\ todo'[d] = todo[d]
        /\ payload'[d] = payload[d] /\ accepted'[d] = accepted[d]
  BY DEF Inv, TypeOK, Fetch
<1>6. \A d \in Clients : AttemptOK(d)'
  BY <1>3, <1>4, <1>5, OneMoves DEF Inv
<1>7. \A p \in late' : InOrder(p)'
  BY <1>3, InOrderKept DEF Inv
<1>8. NoGaps' /\ NoSilentLoss'
  BY <1>3, GlobalKept DEF Inv
<1> QED BY <1>6, <1>7, <1>8 DEF Inv

\* One event checked: let through, or withheld and recorded as such.
LEMMA CheckEventKeepsInv ==
  ASSUME Inv, TypeOK', NEW c \in Clients, CheckEvent(c)
  PROVE  Inv'
<1>1. PICK i \in todo[c] :
        /\ todo' = [todo EXCEPT ![c] = @ \ {i}]
        /\ \/ /\ payload' = [payload EXCEPT ![c] = @ \cup {i}]
              /\ withheld' = withheld
           \/ /\ withheld' = withheld \cup {i}
              /\ payload' = payload
  BY DEF CheckEvent
<1>2. /\ pc[c] = "filter"
      /\ UNCHANGED <<pc, batch, accepted, synced, delivered, late>>
  BY DEF CheckEvent, storeVars, apiVars
<1>3. withheld \subseteq withheld'
  BY <1>1
<1>4. AttemptOK(c)'
  <2>1. AttemptOK(c) /\ todo'[c] = todo[c] \ {i}
    BY <1>1 DEF Inv, TypeOK
  <2>2. \/ payload'[c] = payload[c] \cup {i} /\ withheld' = withheld
        \/ payload'[c] = payload[c] /\ withheld' = withheld \cup {i}
    BY <1>1 DEF Inv, TypeOK
  <2>3. ~accepted[c]
    BY <2>1, <1>2 DEF AttemptOK
  <2> QED BY <2>1, <2>2, <2>3, <1>2 DEF AttemptOK
<1>5. \A d \in Clients \ {c} :
        /\ pc'[d] = pc[d] /\ batch'[d] = batch[d] /\ todo'[d] = todo[d]
        /\ payload'[d] = payload[d] /\ accepted'[d] = accepted[d]
  BY <1>1, <1>2 DEF Inv, TypeOK
<1>6. \A d \in Clients : AttemptOK(d)'
  BY <1>2, <1>3, <1>4, <1>5, OneMoves DEF Inv
<1>7. \A p \in late' : InOrder(p)'
  BY <1>2, <1>3, InOrderKept DEF Inv
<1>8. NoGaps' /\ NoSilentLoss'
  BY <1>2, <1>3, GlobalKept DEF Inv
<1> QED BY <1>6, <1>7, <1>8 DEF Inv

\* Send and ReceiveOK move the client on; ReceiveOK needs the acceptance.
LEMMA AdvanceKeepsInv ==
  ASSUME Inv, TypeOK', NEW c \in Clients, Send(c) \/ ReceiveOK(c)
  PROVE  Inv'
<1>1. UNCHANGED <<batch, todo, payload, accepted, synced, delivered, withheld,
                  late>>
  BY DEF Send, ReceiveOK, storeVars, apiVars
<1>2. AttemptOK(c)'
  <2>1. CASE Send(c)
    <3>1. todo[c] = {} /\ pc'[c] = IF payload[c] = {} THEN "mark" ELSE "send"
      BY <2>1 DEF Send, Inv, TypeOK
    <3>2. pc[c] = "filter" /\ AttemptOK(c)
      BY <2>1 DEF Send, Inv
    <3> QED BY <3>1, <3>2, <1>1 DEF AttemptOK
  <2>2. CASE ReceiveOK(c)
    <3>1. pc[c] = "send" /\ accepted[c] /\ pc'[c] = "mark"
      BY <2>2 DEF ReceiveOK, Inv, TypeOK
    <3>2. AttemptOK(c)
      BY DEF Inv
    <3> QED BY <3>1, <3>2, <1>1 DEF AttemptOK
  <2> QED BY <2>1, <2>2
<1>3. \A d \in Clients \ {c} :
        /\ pc'[d] = pc[d] /\ batch'[d] = batch[d] /\ todo'[d] = todo[d]
        /\ payload'[d] = payload[d] /\ accepted'[d] = accepted[d]
  BY <1>1 DEF Inv, TypeOK, Send, ReceiveOK
<1>4. \A d \in Clients : AttemptOK(d)'
  BY <1>1, <1>2, <1>3, OneMoves DEF Inv
<1>5. \A p \in late' : InOrder(p)'
  BY <1>1, InOrderKept DEF Inv
<1>6. NoGaps' /\ NoSilentLoss'
  BY <1>1, GlobalKept DEF Inv
<1> QED BY <1>4, <1>5, <1>6 DEF Inv

\* The update marks rows its own attempt has dealt with, and no others that
\* were not marked before.
LEMMA MarkKeepsInv ==
  ASSUME Inv, TypeOK', NEW c \in Clients, Mark(c)
  PROVE  Inv'
<1>1. PICK maxID \in batch[c] : synced' = MarkSynced(maxID)
  BY DEF Mark
<1>2. synced' = synced \cup 1 .. maxID
  BY <1>1, MarkSyncedIds DEF Inv, TypeOK
<1>3. 1 .. maxID \subseteq delivered \cup withheld
  BY MarkedAreSettled DEF Inv, Mark
<1>4. UNCHANGED <<delivered, withheld, late>> /\ Return(c)
  BY DEF Mark, apiVars
<1>5. \A d \in Clients : AttemptOK(d)'
  BY <1>2, <1>4, ReturnAttempts DEF Inv
<1>6. \A p \in late' : InOrder(p)'
  BY <1>4, InOrderKept DEF Inv
<1>7. NoGaps' /\ NoSilentLoss'
  BY <1>2, <1>3, <1>4 DEF Inv, NoGaps, NoSilentLoss
<1> QED BY <1>5, <1>6, <1>7 DEF Inv

\* The API accepts a request, awaited or not: it was in order.
LEMMA AcceptKeepsInv ==
  ASSUME Inv, TypeOK', NEW c \in Clients, Accept(c)
  PROVE  Inv'
<1>1. /\ pc[c] = "send" /\ pc' = pc
      /\ delivered' = delivered \cup payload[c]
      /\ UNCHANGED <<batch, todo, payload, synced, withheld, late>>
  BY DEF Accept, storeVars
<1>2. InOrder(payload[c])
  BY <1>1, PayloadInOrder DEF Inv, AttemptOK
<1>3. AttemptOK(c)'
  BY <1>1 DEF Inv, AttemptOK
<1>4. \A d \in Clients \ {c} :
        /\ pc'[d] = pc[d] /\ batch'[d] = batch[d] /\ todo'[d] = todo[d]
        /\ payload'[d] = payload[d] /\ accepted'[d] = accepted[d]
  BY <1>1 DEF Accept, Inv, TypeOK
<1>5. \A d \in Clients : AttemptOK(d)'
  BY <1>1, <1>3, <1>4, OneMoves DEF Inv
<1>6. \A p \in late' : InOrder(p)'
  BY <1>1, InOrderKept DEF Inv
<1>7. NoGaps' /\ NoSilentLoss'
  BY <1>1, <1>2, AcceptInOrder DEF Inv
<1> QED BY <1>5, <1>6, <1>7 DEF Inv

LEMMA AcceptLateKeepsInv ==
  ASSUME Inv, TypeOK', NEW p \in late, AcceptLate(p)
  PROVE  Inv'
<1>1. /\ delivered' = delivered \cup p
      /\ late' \subseteq late
      /\ UNCHANGED <<pc, batch, todo, payload, accepted, synced, withheld>>
  BY DEF AcceptLate, clientVars, storeVars
<1>2. \A d \in Clients : AttemptOK(d)'
  BY <1>1, AttemptKept DEF Inv
<1>3. \A q \in late' : InOrder(q)'
  BY <1>1, InOrderKept DEF Inv
<1>4. NoGaps' /\ NoSilentLoss'
  BY <1>1, AcceptInOrder DEF Inv
<1> QED BY <1>2, <1>3, <1>4 DEF Inv

\* The end of the process ends every attempt; what its requests carried is in
\* order, whenever the API reads it.
LEMMA ExitKeepsInv ==
  ASSUME Inv, TypeOK', Exit
  PROVE  Inv'
<1>1. PICK lost \in SUBSET {c \in Clients : pc[c] = "send" /\ ~accepted[c]} :
        late' = late \cup {payload[c] : c \in lost}
  BY DEF Exit, Abandon
<1>2. UNCHANGED <<synced, delivered, withheld>>
  BY DEF Exit
<1>3. ASSUME NEW d \in Clients PROVE AttemptOK(d)'
  <2>1. pc'[d] = "off" /\ batch'[d] = {} /\ todo'[d] = {} /\ payload'[d] = {}
        /\ accepted'[d] = FALSE
    BY DEF Exit
  <2> QED BY <2>1, AttemptIdle
<1>4. \A p \in late' : InOrder(p)
  <2>1. \A c \in lost : InOrder(payload[c])
    BY PayloadInOrder DEF Inv, AttemptOK
  <2> QED BY <1>1, <2>1 DEF Inv
<1>5. \A p \in late' : InOrder(p)'
  BY <1>2, <1>4, InOrderKept
<1>6. NoGaps' /\ NoSilentLoss'
  BY <1>2, GlobalKept DEF Inv
<1> QED BY <1>3, <1>5, <1>6 DEF Inv

\* A goroutine that starts or returns without rows has no attempt.
LEMMA IdleStepKeepsInv ==
  ASSUME Inv, TypeOK', NEW c \in Clients, Start(c) \/ FinalFetchEnds(c)
  PROVE  Inv'
<1>1. /\ UNCHANGED <<batch, todo, payload, accepted, synced, delivered,
                     withheld, late>>
      /\ pc[c] \in {"off", "select"} /\ pc'[c] \in {"off", "select"}
  BY DEF Start, FinalFetchEnds, storeVars, apiVars, Inv, TypeOK
<1>2. AttemptOK(c)'
  BY <1>1, AttemptIdle DEF Inv, AttemptOK
<1>3. \A d \in Clients \ {c} :
        /\ pc'[d] = pc[d] /\ batch'[d] = batch[d] /\ todo'[d] = todo[d]
        /\ payload'[d] = payload[d] /\ accepted'[d] = accepted[d]
  BY <1>1 DEF Start, FinalFetchEnds, Inv, TypeOK
<1>4. \A d \in Clients : AttemptOK(d)'
  BY <1>1, <1>2, <1>3, OneMoves DEF Inv
<1>5. \A p \in late' : InOrder(p)'
  BY <1>1, InOrderKept DEF Inv
<1>6. NoGaps' /\ NoSilentLoss'
  BY <1>1, GlobalKept DEF Inv
<1> QED BY <1>4, <1>5, <1>6 DEF Inv

LEMMA InvStep == Inv /\ [Next]_vars => Inv'
<1> SUFFICES ASSUME Inv, [Next]_vars PROVE Inv'
  OBVIOUS
<1>0. TypeOK'
  BY TypeStep DEF Inv
<1>1. ASSUME NEW c \in Clients, Tick(c) \/ FinalTick(c) PROVE Inv'
  BY <1>0, <1>1, FetchKeepsInv DEF Tick, FinalTick
<1>2. ASSUME NEW c \in Clients, FinalFetchEnds(c) PROVE Inv'
  BY <1>0, <1>2, IdleStepKeepsInv
<1>3. ASSUME NEW c \in Clients, CheckEvent(c) PROVE Inv'
  BY <1>0, <1>3, CheckEventKeepsInv
<1>4. ASSUME NEW c \in Clients, Send(c) \/ ReceiveOK(c) PROVE Inv'
  BY <1>0, <1>4, AdvanceKeepsInv
<1>5. ASSUME NEW c \in Clients,
             SendCancelled(c) \/ ReceiveError(c) \/ MarkFails(c)
      PROVE  Inv'
  BY <1>0, <1>5, ReturnKeepsInv
  DEF SendCancelled, ReceiveError, MarkFails, storeVars, apiVars
<1>6. ASSUME NEW c \in Clients, SendFails(c) PROVE Inv'
  BY <1>0, <1>6, ReturnKeepsInv DEF SendFails, Abandon, storeVars
<1>7. ASSUME NEW c \in Clients, Mark(c) PROVE Inv'
  BY <1>0, <1>7, MarkKeepsInv
<1>8. ASSUME NEW c \in Clients, Accept(c) PROVE Inv'
  BY <1>0, <1>8, AcceptKeepsInv
<1>9. ASSUME NEW p \in late, AcceptLate(p) PROVE Inv'
  BY <1>0, <1>9, AcceptLateKeepsInv
<1>10. ASSUME NEW t \in Types, InsertEvent(t) PROVE Inv'
  BY <1>0, <1>10, AttemptsUntouched
  DEF InsertEvent, Insert, clientVars, apiVars
<1>11. ASSUME NEW t \in Types, NEW enabled \in BOOLEAN,
              SetSyncPreference(t, enabled)
       PROVE  Inv'
  BY <1>0, <1>11, AttemptsUntouched
  DEF SetSyncPreference, storeVars, clientVars, apiVars
<1>12. ASSUME ResetSyncPreferences PROVE Inv'
  BY <1>0, <1>12, AttemptsUntouched
  DEF ResetSyncPreferences, storeVars, clientVars, apiVars
<1>13. ASSUME NEW c \in Clients, Start(c) PROVE Inv'
  BY <1>0, <1>13, IdleStepKeepsInv
<1>14. ASSUME NEW c \in Clients, Cancel(c) PROVE Inv'
  BY <1>0, <1>14, AttemptsUntouched DEF Cancel, storeVars, apiVars
<1>15. ASSUME Close \/ Restart PROVE Inv'
  BY <1>0, <1>15, AttemptsUntouched
  DEF Close, Restart, storeVars, clientVars, apiVars
<1>16. ASSUME Exit PROVE Inv'
  BY <1>0, <1>16, ExitKeepsInv
<1>17. CASE UNCHANGED vars
  BY <1>0, <1>17, AttemptsUntouched DEF vars, storeVars, clientVars, apiVars
<1> QED
  BY <1>1, <1>2, <1>3, <1>4, <1>5, <1>6, <1>7, <1>8, <1>9, <1>10, <1>11,
     <1>12, <1>13, <1>14, <1>15, <1>16, <1>17
  DEF Next, ClientStep, ApiStep, AppStep

\* Inv holds in every reachable state, for any constants.
THEOREM Invariance == Spec => []Inv
<1> QED BY InvInit, InvStep, PTL DEF Spec

\* A row is marked synced only when its event was accepted or withheld.
THEOREM NothingLost == Spec => []NoSilentLoss
<1>1. Inv => NoSilentLoss
  BY DEF Inv
<1> QED BY <1>1, Invariance, PTL

\* What the API has seen has no gap but withheld events.
THEOREM NoGapsSeen == Spec => []NoGaps
<1>1. Inv => NoGaps
  BY DEF Inv
<1> QED BY <1>1, Invariance, PTL

\* Only Mark touches `synced', and what it adds its own attempt dealt with.
THEOREM OwnAttemptMarks == Spec => MarkedByItsOwnAttempt
<1> DEFINE Marked ==
      \A i \in Ids : i \notin synced /\ i \in synced' =>
        \E c \in Clients : /\ pc[c] = "mark"
                           /\ i \in batch[c]
                           /\ i \in payload[c] => i \in delivered
<1>1. Inv /\ [Next]_vars => [Marked]_vars
  <2> SUFFICES ASSUME Inv, [Next]_vars PROVE Marked
    OBVIOUS
  <2>1. ASSUME NEW c \in Clients, Mark(c) PROVE Marked
    <3>1. pc[c] = "mark" /\ AttemptOK(c) /\ NoSilentLoss
      BY <2>1 DEF Mark, Inv
    <3>2. PICK maxID \in batch[c] : synced' = MarkSynced(maxID)
      BY <2>1 DEF Mark
    <3>3. synced' = synced \cup 1 .. maxID
      BY <3>2, MarkSyncedIds DEF Inv, TypeOK
    <3>4. payload[c] \subseteq delivered /\ 1 .. maxID \subseteq batch[c] \cup synced
      BY <3>1, MarkedAreSettled
    <3> QED BY <3>1, <3>3, <3>4
  <2>2. CASE synced' = synced
    BY <2>2
  <2>3. (\E c \in Clients : Mark(c)) \/ synced' = synced
    BY DEF Next, ClientStep, ApiStep, AppStep, Tick, FinalTick, Fetch,
           FinalFetchEnds, CheckEvent, Send, SendCancelled, SendFails,
           ReceiveOK, ReceiveError, MarkFails, Accept, AcceptLate, InsertEvent,
           Insert, SetSyncPreference, ResetSyncPreferences, Start, Cancel,
           Close, Exit, Restart, vars, storeVars
  <2> QED BY <2>1, <2>2, <2>3
<1>2. Spec => [][Marked]_vars
  BY <1>1, Invariance, PTL DEF Spec
<1> QED BY <1>2 DEF MarkedByItsOwnAttempt

\* While one preferences object is all a process has, no preference a client
\* checks is another than the one in force: a reset is the only thing that parts
\* them, not SetSyncPreference, a reconnect or a restart (app.go:227, 257, 483).
THEOREM OnlyResetsDetach ==
  ASSUME MaxPrefs = 1
  PROVE  Spec => ChecksFollowPreferences
<1> DEFINE Followed ==
      \A c \in Clients : pc'[c] = "filter" =>
        \A i \in todo[c] \ todo'[c] : i \in payload'[c] <=> rows[i] \in prefs[current]
<1>1. Inv /\ [Next]_vars => [Followed]_vars
  <2> SUFFICES ASSUME Inv, [Next]_vars, NEW c \in Clients, pc'[c] = "filter",
                      NEW i \in todo[c] \ todo'[c]
               PROVE  i \in payload'[c] <=> rows[i] \in prefs[current]
    OBVIOUS
  <2>1. check[c] = current
    BY DEF Inv, TypeOK, Prefs
  <2>2. i \notin payload[c] /\ pc[c] \in {"off", "select", "filter", "send", "mark"}
        /\ (pc[c] \in {"off", "select", "send", "mark"} => todo[c] = {})
    BY DEF Inv, TypeOK, AttemptOK
  <2>3. ASSUME NEW d \in Clients, CheckEvent(d)
        PROVE  i \in payload'[c] <=> rows[i] \in prefs[current]
    <3>1. d = c
      BY <2>3 DEF CheckEvent, Inv, TypeOK
    <3> QED BY <2>1, <2>2, <2>3, <3>1 DEF CheckEvent, Inv, TypeOK
  <2>4. ~(\E d \in Clients : CheckEvent(d)) => FALSE
    <3> SUFFICES ASSUME ~(\E d \in Clients : CheckEvent(d)) PROVE FALSE
      OBVIOUS
    <3>1. pc[c] = "filter" /\ todo[c] # {}
      BY <2>2
    <3>2. ASSUME NEW d \in Clients, ClientStep(d) PROVE FALSE
      <4>1. CASE d # c
        BY <3>2, <4>1 DEF ClientStep, Tick, FinalTick, Fetch, FinalFetchEnds, Send,
             SendCancelled, SendFails, ReceiveOK, ReceiveError, Mark, MarkFails,
             Return, Inv, TypeOK
      <4>2. CASE d = c
        BY <3>1, <3>2, <4>2 DEF ClientStep, Tick, FinalTick, Fetch, FinalFetchEnds,
             Send, SendCancelled, SendFails, ReceiveOK, ReceiveError, Mark, MarkFails,
             Return, Inv, TypeOK
      <4> QED BY <4>1, <4>2
    <3>3. ~Exit
      BY DEF Exit
    <3> QED BY <3>2, <3>3 DEF Next, ApiStep, AppStep, Accept, AcceptLate, InsertEvent,
             SetSyncPreference, ResetSyncPreferences, Start, Cancel, Close, Restart,
             clientVars, vars
  <2> QED BY <2>3, <2>4
<1> QED BY <1>1, Invariance, PTL DEF Spec, ChecksFollowPreferences

----------------------------------------------------------------------------
(* What liveness rests on: an attempt is never stuck for want of a row, and *)
(* one whose update succeeds settles all of its batch.                      *)

\* A set of ids that is not empty has a least and a greatest.
LEMMA Ends ==
  ASSUME NEW n \in Nat, NEW S \in SUBSET (1 .. n), S # {}
  PROVE  /\ \E i \in S : \A j \in S : i <= j
         /\ \E i \in S : \A j \in S : j <= i
<1> DEFINE less == {ss \in Nat \X Nat : ss[1] < ss[2]}
           Least(T) == \E i \in T : \A j \in T : i <= j
<1>1. ASSUME NEW T \in SUBSET Nat, T # {} PROVE Least(T)
  <2>1. OpToRel(<, Nat) = less
    BY Zenon DEF OpToRel
  <2>2. IsWellFoundedOn(less, Nat)
    BY Zenon, <2>1, NatLessThanWellFounded
  <2> HIDE DEF less
  <2>3. PICK i \in T : \A j \in T : ~(<<j, i>> \in less)
    BY <1>1, <2>2, WFMin
  <2>4. ASSUME NEW j \in T PROVE i <= j
    <3>1. i \in Nat /\ j \in Nat /\ <<j, i>> \notin less
      BY <2>3, <2>4
    <3>2. ~(j < i)
      BY <3>1 DEF less
    <3> QED BY <3>1, <3>2
  <2> QED BY <2>4
<1>2. Least(S)
  BY <1>1
<1>3. \E i \in S : \A j \in S : j <= i
  <2> DEFINE T == {n - j : j \in S}
  <2>1. \A j \in S : n - j \in Nat /\ j \in Nat
    OBVIOUS
  <2>2. T \in SUBSET Nat /\ T # {}
    BY <2>1
  <2>3. PICK t \in T : \A u \in T : t <= u
    BY <1>1, <2>2
  <2>4. PICK i \in S : t = n - i
    OBVIOUS
  <2>5. ASSUME NEW j \in S PROVE j <= i
    <3>1. n - i <= n - j /\ i \in Nat /\ j \in Nat
      BY <2>1, <2>3, <2>4
    <3> QED BY <3>1
  <2> QED BY <2>5
<1> QED BY <1>2, <1>3

\* While a row is unsynced, the query returns one.
LEMMA UnsyncedEventsFound ==
  ASSUME StoreTypeOK, NEW limit \in Nat \ {0}, Unsynced # {}
  PROVE  UnsyncedEvents(limit) # {}
<1>1. Len(rows) \in Nat /\ Unsynced \in SUBSET (1 .. Len(rows))
  BY DEF StoreTypeOK, Unsynced, Ids
<1>2. PICK i \in Unsynced : \A j \in Unsynced : i <= j
  BY <1>1, Ends
<1>3. {j \in Unsynced : j <= i} = {i}
  <2>1. \A j \in Unsynced : j \in Nat
    BY <1>1
  <2> QED BY <1>2, <2>1
<1>4. Cardinality({j \in Unsynced : j <= i}) <= limit
  <2>1. Cardinality({i}) = 1
    BY FS_Singleton
  <2> QED BY <1>3, <2>1
<1> QED BY <1>2, <1>4 DEF UnsyncedEvents

\* An attempt has a batch, of rows that stay in the table.
HasBatch == \A c \in Clients : pc[c] \in {"filter", "send", "mark"} => batch[c] # {}

LEMMA HasBatchStep == Inv /\ HasBatch /\ [Next]_vars => HasBatch'
<1> SUFFICES ASSUME Inv, HasBatch, [Next]_vars, NEW c \in Clients,
                    pc'[c] \in {"filter", "send", "mark"}
             PROVE  batch'[c] # {}
  BY DEF HasBatch
<1>1. ASSUME NEW d \in Clients, Tick(d) \/ FinalTick(d) PROVE batch'[c] # {}
  <2>1. UnsyncedEvents(BatchSize) # {}
    BY <1>1, UnsyncedEventsFound, ClientAssumption DEF Tick, FinalTick, Fetch, Inv, TypeOK
  <2> QED BY <1>1, <2>1 DEF Tick, FinalTick, Fetch, HasBatch, Inv, TypeOK
<1>2. ASSUME NEW d \in Clients, Return(d) PROVE batch'[c] # {}
  <2>1. c # d
    BY <1>2 DEF Return, Inv, TypeOK
  <2> QED BY <1>2, <2>1 DEF Return, HasBatch, Inv, TypeOK
<1>3. ASSUME NEW d \in Clients,
             FinalFetchEnds(d) \/ CheckEvent(d) \/ Send(d) \/ ReceiveOK(d)
               \/ Accept(d) \/ Start(d) \/ Cancel(d)
      PROVE  batch'[c] # {}
  BY <1>3 DEF FinalFetchEnds, CheckEvent, Send, ReceiveOK, Accept, Start, Cancel,
     HasBatch, Inv, TypeOK
<1>4. CASE UNCHANGED <<pc, batch>>
  BY <1>4 DEF HasBatch
<1>5. ~Exit
  BY DEF Exit
<1> QED
  BY <1>1, <1>2, <1>3, <1>4, <1>5
  DEF Next, ClientStep, ApiStep, AppStep, SendCancelled, SendFails, ReceiveError, Mark,
      MarkFails, AcceptLate, InsertEvent, SetSyncPreference, ResetSyncPreferences,
      Close, Restart, clientVars, vars

LEMMA HasBatchAlways == Spec => []HasBatch
<1>1. Init => HasBatch
  BY DEF Init, HasBatch
<1> QED BY <1>1, HasBatchStep, Invariance, PTL DEF Spec

\* Wherever a client is in an attempt, the data its next step needs is there:
\* there is an event to check next, or all are checked, and the batch has the
\* largest id the update takes (client.go:108-131).  With the fairness
\* stated in Fairness this is why a client's steps are never disabled for good by
\* what the other clients do to the table meanwhile.
NeverStuck ==
  \A c \in Clients :
    /\ pc[c] = "filter" =>
         todo[c] = {} \/ \E i \in todo[c] : \A j \in todo[c] : i <= j
    /\ pc[c] = "mark" => \E maxID \in batch[c] : \A i \in batch[c] : i <= maxID

THEOREM AttemptsGoOn == Spec => []NeverStuck
<1>1. Inv /\ HasBatch => NeverStuck
  <2> SUFFICES ASSUME Inv, HasBatch, NEW c \in Clients
               PROVE  /\ todo[c] = {} \/ \E i \in todo[c] : \A j \in todo[c] : i <= j
                      /\ pc[c] = "mark" =>
                           \E maxID \in batch[c] : \A i \in batch[c] : i <= maxID
    BY DEF NeverStuck
  <2>1. Len(rows) \in Nat /\ batch[c] \in SUBSET (1 .. Len(rows))
        /\ todo[c] \in SUBSET (1 .. Len(rows))
    BY DEF Inv, TypeOK, StoreTypeOK, Ids
  <2> QED BY <2>1, Ends DEF HasBatch
<1> QED BY <1>1, Invariance, HasBatchAlways, PTL

\* What a successful update leaves synced is its whole batch, which has a row.
THEOREM AttemptsSettle == Spec => UpdateSettlesTheBatch
<1> DEFINE Settles ==
      \A c \in Clients : Mark(c) => batch[c] # {} /\ batch[c] \subseteq synced'
<1>1. Inv /\ HasBatch /\ [Next]_vars => [Settles]_vars
  <2> SUFFICES ASSUME Inv, HasBatch, NEW c \in Clients, Mark(c)
               PROVE  batch[c] # {} /\ batch[c] \subseteq synced'
    OBVIOUS
  <2>1. batch[c] # {} /\ batch[c] \subseteq Ids /\ StoreTypeOK
    BY DEF HasBatch, Mark, Inv, TypeOK
  <2>2. PICK maxID \in batch[c] : /\ \A i \in batch[c] : i <= maxID
                                  /\ synced' = MarkSynced(maxID)
    BY DEF Mark
  <2> QED BY <2>1, <2>2 DEF MarkSynced
<1> QED BY <1>1, Invariance, HasBatchAlways, PTL DEF Spec, UpdateSettlesTheBatch

----------------------------------------------------------------------------
(* Refinement of Delivery.                                                 *)

\* The variables Delivery sees do not change in most steps.
LEMMA Stutter ==
  ASSUME UNCHANGED <<rows, synced, delivered, withheld>>
  PROVE  UNCHANGED D!deliveryVars
BY DEF D!deliveryVars

LEMMA DeliveryStep ==
  Inv /\ [Next]_vars => [D!DeliveryNext]_(D!deliveryVars)
<1> SUFFICES ASSUME Inv, [Next]_vars
             PROVE  D!DeliveryNext \/ UNCHANGED D!deliveryVars
  OBVIOUS
<1> DEFINE n == Len(rows)
<1>0. Ids = 1 .. n /\ n \in Nat /\ TypeOK /\ NoSilentLoss
  BY DEF Ids, Inv, TypeOK, StoreTypeOK
<1>1. ASSUME NEW t \in Types, InsertEvent(t) PROVE D!DeliveryNext
  <2>1. Len(rows') = n + 1
    BY <1>0, <1>1, InsertGrows DEF InsertEvent, TypeOK
  <2>2. UNCHANGED <<withheld, delivered, synced>>
    BY <1>1 DEF InsertEvent, Insert, apiVars
  <2> QED BY <2>1, <2>2 DEF D!DeliveryNext, D!Record
<1>2. ASSUME NEW c \in Clients, CheckEvent(c)
      PROVE  D!DeliveryNext \/ UNCHANGED D!deliveryVars
  <2>1. PICK i \in todo[c] : withheld' = withheld \/ withheld' = withheld \cup {i}
    BY <1>2 DEF CheckEvent
  <2>2. i \in 1 .. n
    BY <1>0, <2>1 DEF TypeOK
  <2>3. UNCHANGED <<rows, delivered, synced>>
    BY <1>2 DEF CheckEvent, storeVars, apiVars
  <2>4. CASE withheld' = withheld
    BY <2>3, <2>4, Stutter
  <2>5. CASE withheld' = withheld \cup {i}
    <3>1. D!Withhold(i)
      BY <2>2, <2>3, <2>5 DEF D!Withhold
    <3> QED BY <2>2, <3>1 DEF D!DeliveryNext
  <2> QED BY <2>1, <2>4, <2>5
<1>3. ASSUME NEW p \in SUBSET Ids, InOrder(p), delivered' = delivered \cup p,
             UNCHANGED <<rows, synced, withheld>>
      PROVE  D!DeliveryNext
  <2>1. D!Deliver(p)
    BY <1>0, <1>3 DEF D!Deliver, InOrder
  <2> QED BY <1>0, <2>1 DEF D!DeliveryNext
<1>4. ASSUME NEW c \in Clients, Accept(c) PROVE D!DeliveryNext
  <2>1. payload[c] \in SUBSET Ids /\ InOrder(payload[c])
    BY <1>0, <1>4, PayloadInOrder DEF Accept, TypeOK, Inv, AttemptOK
  <2>2. delivered' = delivered \cup payload[c] /\ UNCHANGED <<rows, synced, withheld>>
    BY <1>4 DEF Accept, storeVars
  <2> QED BY <1>3, <2>1, <2>2
<1>5. ASSUME NEW p \in late, AcceptLate(p) PROVE D!DeliveryNext
  <2>1. p \in SUBSET Ids /\ InOrder(p)
    BY <1>0 DEF TypeOK, Inv
  <2>2. delivered' = delivered \cup p /\ UNCHANGED <<rows, synced, withheld>>
    BY <1>5 DEF AcceptLate, storeVars
  <2> QED BY <1>3, <2>1, <2>2
<1>6. ASSUME NEW c \in Clients, Mark(c) PROVE D!DeliveryNext
  <2>1. PICK maxID \in batch[c] : synced' = MarkSynced(maxID)
    BY <1>6 DEF Mark
  <2>2. maxID \in Ids
    BY <1>0 DEF TypeOK
  <2>3. synced' = synced \cup 1 .. maxID
    BY <1>0, <2>1, <2>2, MarkSyncedIds DEF TypeOK
  <2>4. 1 .. maxID \subseteq delivered \cup withheld
    BY <1>0, <1>6, MarkedAreSettled DEF Mark, Inv
  <2>5. UNCHANGED <<rows, delivered, withheld>>
    BY <1>6 DEF Mark, apiVars
  <2>6. D!Settle(maxID)
    BY <1>0, <2>2, <2>3, <2>4, <2>5 DEF D!Settle
  <2> QED BY <1>0, <2>2, <2>6 DEF D!DeliveryNext
<1>7. \/ \E t \in Types : InsertEvent(t)
      \/ \E c \in Clients : CheckEvent(c) \/ Accept(c) \/ Mark(c)
      \/ \E p \in late : AcceptLate(p)
      \/ UNCHANGED <<rows, synced, delivered, withheld>>
  BY DEF Next, ClientStep, ApiStep, AppStep, Tick, FinalTick, Fetch,
         FinalFetchEnds, Send, SendCancelled, SendFails, ReceiveOK,
         ReceiveError, MarkFails, SetSyncPreference, ResetSyncPreferences,
         Start, Cancel, Close, Exit, Restart, vars, storeVars, apiVars
<1> QED BY <1>1, <1>2, <1>4, <1>5, <1>6, <1>7, Stutter

\* Any number of overlapping clients, with failures and restarts, deliver at
\* least once and in order, as Delivery has it.
THEOREM Implements == Spec => ImplementsDelivery
<1>1. Init => D!DeliveryInit
  BY DEF Init, StoreInit, D!DeliveryInit
<1>2. Inv /\ [Next]_vars => [D!DeliveryNext]_(D!deliveryVars)
  BY DeliveryStep
<1> QED
  BY <1>1, <1>2, Invariance, PTL DEF Spec, ImplementsDelivery, D!DeliverySpec
=============================================================================
