-------------------------- MODULE AppSessionProofs --------------------------
(***************************************************************************)
(* Proofs about AppSession: the companion implements SyncClient, so that   *)
(* what SyncClientProofs shows holds of it whatever the player does; a     *)
(* connected companion has a live client; and with one connect at a time   *)
(* no client is out of reach.                                              *)
(***************************************************************************)
EXTENDS AppSession, SyncClientProofs

----------------------------------------------------------------------------
(* The companion implements SyncClient.                                    *)

\* A cancel function does to the clients what Cancel does, or nothing.
LEMMA CancelIsAStep ==
  ASSUME NEW x, CancelIfRunning(x)
  PROVE  [Next]_vars
BY DEF CancelIfRunning, Next, AppStep

LEMMA ConnectStepMaps ==
  ASSUME NEW k \in Calls, ConnectStep(k)
  PROVE  [Next]_vars
<1>1. CASE StopOld(k)
  BY <1>1, CancelIsAStep DEF StopOld
<1>2. CASE Install(k)
  BY <1>2 DEF Install, Next, AppStep
<1>3. CASE ~StopOld(k) /\ ~Install(k)
  <2>1. UNCHANGED vars
    BY <1>3 DEF ConnectStep, Authorised, FlowFails, SaveAuth, SaveAuthFails,
                Publish, ReadAuth, Returned
  <2> QED BY <2>1
<1> QED BY <1>1, <1>2, <1>3

LEMMA LifecycleStepMaps == LifecycleStep => [Next]_vars
<1> SUFFICES ASSUME LifecycleStep PROVE [Next]_vars
  OBVIOUS
<1>1. CASE Startup
  <2>1. (\E c \in Clients : Start(c)) \/ UNCHANGED vars
    BY <1>1 DEF Startup
  <2> QED BY <2>1 DEF Next, AppStep
<1>2. CASE ShutdownCancel
  BY <1>2, CancelIsAStep DEF ShutdownCancel
<1>3. CASE Load \/ ShutdownClose \/ SessionExit
  BY <1>3 DEF Load, ShutdownClose, SessionExit, Next, AppStep
<1> QED BY <1>1, <1>2, <1>3 DEF LifecycleStep

LEMMA PlayerStepMaps == PlayerStep => [Next]_vars
<1> SUFFICES ASSUME PlayerStep PROVE [Next]_vars
  OBVIOUS
<1>1. CASE Disconnect
  BY <1>1, CancelIsAStep DEF Disconnect
<1>2. CASE ~Disconnect
  <2>1. UNCHANGED vars
    BY <1>2 DEF PlayerStep, Connect, Remount, AskConfig, ShowConfig,
                SetEnvironment
  <2> QED BY <2>1
<1> QED BY <1>1, <1>2

\* After its cancel a disconnect does nothing to the clients.
LEMMA DisconnectStepIdles == DisconnectStep => UNCHANGED vars
BY DEF DisconnectStep, ForgetClient, ClearAuth, RemoveAuth

\* Every step of the companion is a step of SyncClient or leaves it alone.
LEMMA SessionStepMaps == [SessionNext]_allVars => [Next]_vars
<1> SUFFICES ASSUME [SessionNext]_allVars PROVE [Next]_vars
  OBVIOUS
<1>1. CASE BackgroundStep
  BY <1>1 DEF BackgroundStep, Next, AppStep
<1>2. CASE UNCHANGED allVars
  BY <1>2 DEF allVars
<1> QED BY <1>1, <1>2, ConnectStepMaps, DisconnectStepIdles, LifecycleStepMaps,
           PlayerStepMaps DEF SessionNext

\* Whatever the player connects, disconnects, quits and restarts, App does to
\* the clients only what SyncClient allows.
THEOREM SessionImplements == SessionSpec => ImplementsClients
<1>1. SessionInit => Init
  BY DEF SessionInit
<1> QED BY <1>1, SessionStepMaps, PTL DEF SessionSpec, ImplementsClients, Spec

\* So no event is lost by a companion that is connected and disconnected.
THEOREM SessionNothingLost == SessionSpec => []NoSilentLoss
BY SessionImplements, NothingLost, PTL DEF ImplementsClients

\* And a connect, disconnect or restart never makes the API miss an event that
\* an earlier client had in hand.
THEOREM SessionNoGaps == SessionSpec => []NoGaps
BY SessionImplements, NoGapsSeen, PTL DEF ImplementsClients

\* A row is marked by the attempt that dealt with it, and the clients go on to
\* implement Delivery, through every connect, disconnect, quit and restart.
THEOREM SessionOwnAttemptMarks == SessionSpec => MarkedByItsOwnAttempt
BY SessionImplements, OwnAttemptMarks, PTL DEF ImplementsClients

THEOREM SessionDelivers == SessionSpec => ImplementsDelivery
BY SessionImplements, Implements, PTL DEF ImplementsClients

----------------------------------------------------------------------------
(* What each step does to the live clients and their contexts.             *)

\* The clients' variables have their types, and their contexts are in order.
Contexts == TypeOK /\ \A c \in Clients : ContextOK(c)

\* syncBatch's return keeps a client that is not in its last attempt, and ends
\* one that is, which was cancelled.
LEMMA ReturnKeepsLive ==
  ASSUME Contexts, NEW c \in Clients, pc[c] # "off", Return(c)
  PROVE  Live' = Live /\ \A d \in Clients : ContextOK(d)'
<1>1. \A d \in Clients : d # c => /\ pc'[d] = pc[d]
                                 /\ cancelled'[d] = cancelled[d]
                                 /\ final'[d] = final[d]
  BY DEF Return, Contexts, TypeOK
<1>2. /\ pc'[c] = IF final[c] THEN "off" ELSE "select"
      /\ cancelled'[c] = (cancelled[c] /\ ~final[c])
      /\ final'[c] = FALSE
  BY DEF Return, Contexts, TypeOK
<1>3. final[c] => cancelled[c]
  BY DEF Contexts, ContextOK
<1>4. \A d \in Clients : ContextOK(d)'
  BY <1>1, <1>2, <1>3 DEF Contexts, ContextOK
<1>5. \A d \in Clients : d \in Live' <=> d \in Live
  BY <1>1, <1>2, <1>3 DEF Live
<1> QED BY <1>4, <1>5 DEF Live

\* A step of a client's goroutine: it ends only a client that was cancelled.
LEMMA ClientStepKeepsLive ==
  ASSUME Contexts, NEW c \in Clients, ClientStep(c)
  PROVE  Live' = Live /\ \A d \in Clients : ContextOK(d)'
<1>1. CASE Tick(c)
  BY <1>1 DEF Tick, Fetch, Contexts, TypeOK, ContextOK, Live
<1>2. CASE FinalTick(c)
  BY <1>2 DEF FinalTick, Fetch, Contexts, TypeOK, ContextOK, Live
<1>3. CASE FinalFetchEnds(c)
  BY <1>3 DEF FinalFetchEnds, Contexts, TypeOK, ContextOK, Live
<1>4. CASE CheckEvent(c)
  BY <1>4 DEF CheckEvent, Contexts, ContextOK, Live
<1>5. CASE Send(c) \/ ReceiveOK(c)
  BY <1>5 DEF Send, ReceiveOK, Contexts, TypeOK, ContextOK, Live
<1>6. CASE SendCancelled(c) \/ SendFails(c) \/ ReceiveError(c) \/ Mark(c)
             \/ MarkFails(c)
  <2>1. pc[c] # "off" /\ Return(c)
    BY <1>6 DEF SendCancelled, SendFails, ReceiveError, Mark, MarkFails
  <2> QED BY <2>1, ReturnKeepsLive
<1> QED BY <1>1, <1>2, <1>3, <1>4, <1>5, <1>6 DEF ClientStep

\* Nothing SyncClient does on its own makes a client live or cancels one.
LEMMA BackgroundKeepsLive ==
  ASSUME Contexts, BackgroundStep
  PROVE  Live' = Live /\ \A d \in Clients : ContextOK(d)'
<1>1. CASE \E c \in Clients : ClientStep(c)
  BY <1>1, ClientStepKeepsLive
<1>2. CASE UNCHANGED <<pc, cancelled, final>>
  BY <1>2 DEF Live, Contexts, ContextOK
<1>3. (\E c \in Clients : ClientStep(c)) \/ UNCHANGED <<pc, cancelled, final>>
  BY DEF BackgroundStep, ApiStep, Accept, AcceptLate, InsertEvent,
         SetSyncPreference, ResetSyncPreferences, clientVars
<1> QED BY <1>1, <1>2, <1>3

\* A new client is live: the goroutine before it left no cancelled context.
LEMMA StartIsLive ==
  ASSUME Contexts, NEW c \in Clients, Start(c)
  PROVE  Live' = Live \cup {c} /\ \A d \in Clients : ContextOK(d)'
BY DEF Start, Contexts, TypeOK, ContextOK, Live

\* A cancel function takes its client, and no other, from the live ones.
LEMMA CancelEndsLive ==
  ASSUME Contexts, NEW x, CancelIfRunning(x)
  PROVE  Live' = Live \ {x} /\ \A d \in Clients : ContextOK(d)'
<1>1. CASE x \in Clients /\ Cancel(x)
  BY <1>1 DEF Cancel, Contexts, TypeOK, ContextOK, Live
<1>2. CASE (x \in Clients => pc[x] = "off" \/ cancelled[x]) /\ UNCHANGED vars
  BY <1>2 DEF vars, clientVars, Contexts, ContextOK, Live
<1> QED BY <1>1, <1>2 DEF CancelIfRunning

\* No client outlives its process.
LEMMA ExitEndsAll ==
  ASSUME Exit
  PROVE  Live' = {} /\ \A d \in Clients : ContextOK(d)'
BY DEF Exit, Live, ContextOK

\* A step that leaves SyncClient alone leaves its clients alone.
LEMMA IdleKeepsLive ==
  ASSUME Contexts, UNCHANGED <<pc, cancelled, final>>
  PROVE  Live' = Live /\ \A d \in Clients : ContextOK(d)'
BY DEF Contexts, ContextOK, Live

----------------------------------------------------------------------------
(* A connected companion is served.                                        *)

LEMMA SessionTypeInit == SessionInit => SessionTypeOK
BY SessionAssumption DEF SessionInit, SessionTypeOK, Tokens

\* Every step keeps the types of the session's variables.
LEMMA SessionTypeStep == SessionTypeOK /\ [SessionNext]_allVars => SessionTypeOK'
<1> SUFFICES ASSUME SessionTypeOK, [SessionNext]_allVars PROVE SessionTypeOK'
  OBVIOUS
<1> USE SessionAssumption
        DEF SessionTypeOK, Tokens, authVars, callVars, cancelVars, uiVars
<1>1. CASE UNCHANGED sessionVars
  BY <1>1 DEF sessionVars
<1>2. ASSUME NEW k \in Calls, Authorised(k) \/ FlowFails(k) PROVE SessionTypeOK'
  BY <1>2 DEF Authorised, FlowFails, Goto
<1>3. ASSUME NEW k \in Calls, SaveAuth(k) \/ SaveAuthFails(k) PROVE SessionTypeOK'
  BY <1>3 DEF SaveAuth, SaveAuthFails, Goto
<1>4. ASSUME NEW k \in Calls, Publish(k) PROVE SessionTypeOK'
  BY <1>4 DEF Publish, Goto
<1>5. ASSUME NEW k \in Calls, StopOld(k) PROVE SessionTypeOK'
  BY <1>5 DEF StopOld, Goto
<1>6. ASSUME NEW k \in Calls, ReadAuth(k) PROVE SessionTypeOK'
  BY <1>6 DEF ReadAuth, Goto
<1>7. ASSUME NEW k \in Calls, Install(k) PROVE SessionTypeOK'
  BY <1>7 DEF Install, Goto, Joining
<1>8. ASSUME NEW k \in Calls, Returned(k) PROVE SessionTypeOK'
  BY <1>8 DEF Returned, Connection
<1>9. CASE Load
  BY <1>9 DEF Load, Fresh
<1>10. CASE Startup
  BY <1>10 DEF Startup
<1>11. CASE ShutdownCancel
  BY <1>11 DEF ShutdownCancel
<1>12. CASE SessionExit
  BY <1>12 DEF SessionExit, Fresh
<1>13. ASSUME NEW k \in Calls, Connect(k) PROVE SessionTypeOK'
  BY <1>13 DEF Connect
<1>14. CASE Remount \/ AskConfig \/ ShowConfig
  BY <1>14 DEF Remount, AskConfig, ShowConfig, Connection
<1>15. CASE Disconnect \/ DisconnectStep
  BY <1>15 DEF Disconnect, AfterCancel, DisconnectStep, DisconnectGoes,
              ForgetClient, ClearAuth, RemoveAuth, Connection
<1>16. ASSUME NEW e, SetEnvironment(e) PROVE SessionTypeOK'
  BY <1>16 DEF SetEnvironment
<1>17. CASE ShutdownClose \/ BackgroundStep \/ UNCHANGED allVars
  BY <1>1, <1>17 DEF ShutdownClose, BackgroundStep, allVars
<1> QED BY <1>2, <1>3, <1>4, <1>5, <1>6, <1>7, <1>8, <1>9, <1>10, <1>11, <1>12,
           <1>13, <1>14, <1>15, <1>16, <1>17
        DEF SessionNext, ConnectStep, LifecycleStep, PlayerStep

\* The session's variables have their types in every reachable state.
THEOREM SessionTypeCorrect == SessionSpec => []SessionTypeOK
BY SessionTypeInit, SessionTypeStep, PTL DEF SessionSpec

LEMMA SessionInvInit == SessionInit => SessionInv
<1> SUFFICES ASSUME SessionInit PROVE SessionInv
  OBVIOUS
<1>1. TypeOK /\ SessionTypeOK
  BY TypeInit, SessionTypeInit DEF SessionInit
<1> QED BY <1>1 DEF SessionInit, Init, SessionInv, ContextOK, ConnectedIsServed

\* What a disconnect that is removing auth.json has made of the token.
ClearedFirst == disconnecting = "removing" => authInfo = NoAuth

\* Nobody publishes a token beside a disconnect.
LEMMA ClearedStep ==
  ASSUME SessionInv, [SessionNext]_allVars
  PROVE  ClearedFirst'
<1> USE DEF ClearedFirst
<1>0. ClearedFirst /\ SessionTypeOK
  BY DEF SessionInv
<1>1. CASE \E k \in Calls : ConnectStep(k)
  <2>1. PICK k \in Calls : ConnectStep(k)
    BY <1>1
  <2>2. disconnecting' = disconnecting
    BY <2>1 DEF ConnectStep, Authorised, FlowFails, SaveAuth, SaveAuthFails, Publish,
                StopOld, ReadAuth, Install, Returned, Goto
  <2>3. Publish(k) => disconnecting = "idle"
    BY DEF Publish, MutexFree
  <2>4. ~Publish(k) => authInfo' = authInfo
    BY <2>1 DEF ConnectStep, Authorised, FlowFails, SaveAuth, SaveAuthFails, StopOld,
                ReadAuth, Install, Returned, authVars
  <2> QED BY <1>0, <2>2, <2>3, <2>4
<1>2. CASE LifecycleStep
  BY <1>0, <1>2 DEF LifecycleStep, Load, Startup, ShutdownCancel, ShutdownClose,
                    SessionExit, Fresh, sessionVars, authVars
<1>3. CASE PlayerStep
  BY <1>0, <1>3 DEF PlayerStep, Connect, Remount, AskConfig, ShowConfig, Disconnect,
                    DisconnectGoes, AfterCancel, SetEnvironment, authVars
<1>4. CASE DisconnectStep
  BY <1>0, <1>4 DEF DisconnectStep, DisconnectGoes, ForgetClient, ClearAuth, RemoveAuth,
                    authVars
<1>5. CASE BackgroundStep \/ UNCHANGED allVars
  BY <1>0, <1>5 DEF BackgroundStep, allVars, sessionVars, authVars
<1> QED BY <1>1, <1>2, <1>3, <1>4, <1>5 DEF SessionNext

\* A step that clears the token, or leaves the companion not started, or is
\* inside a connect or a disconnect, owes nothing; the others keep the live
\* clients and what App.syncCancel cancels.
LEMMA ServedStep ==
  ASSUME SessionInv, [SessionNext]_allVars
  PROVE  (\A d \in Clients : ContextOK(d)') /\ ConnectedIsServed'
<1>0. Contexts
  BY DEF SessionInv, Contexts
<1> DEFINE Goal == (\A d \in Clients : ContextOK(d)') /\ ConnectedIsServed'
\* The steps that change nothing ConnectedIsServed looks at.
<1>1. ASSUME Live' = Live, \A d \in Clients : ContextOK(d)',
             started' = started, shutting' = shutting, syncCancel' = syncCancel,
             authInfo' = authInfo \/ authInfo' = NoAuth,
             authInfo' # NoAuth => Switching \subseteq Switching',
             disconnecting' = disconnecting
      PROVE  Goal
  BY <1>1 DEF SessionInv, ConnectedIsServed, MutexFree
<1>2. CASE BackgroundStep \/ ShutdownClose \/ UNCHANGED allVars
  <2>1. Live' = Live /\ (\A d \in Clients : ContextOK(d)') /\ UNCHANGED sessionVars
    <3>1. CASE BackgroundStep
      BY <1>0, <3>1, BackgroundKeepsLive DEF BackgroundStep
    <3>2. CASE ShutdownClose \/ UNCHANGED allVars
      BY <1>0, <3>2, IdleKeepsLive
         DEF ShutdownClose, Close, allVars, vars, clientVars
    <3> QED BY <1>2, <3>1, <3>2
  <2> QED BY <1>1, <2>1 DEF sessionVars, authVars, callVars, cancelVars, Switching
<1>3. ASSUME NEW k \in Calls, ConnectStep(k) PROVE Goal
  <2>1. CASE Authorised(k) \/ FlowFails(k) \/ SaveAuth(k) \/ SaveAuthFails(k)
    <3>1. UNCHANGED <<vars, started, shutting, authInfo, cancelVars, disconnecting>>
      BY <2>1 DEF Authorised, FlowFails, SaveAuth, SaveAuthFails, Goto, authVars
    <3>2. Switching \subseteq Switching'
      BY <2>1 DEF Authorised, FlowFails, SaveAuth, SaveAuthFails, Goto, Switching,
                  SessionInv, SessionTypeOK
    <3> QED BY <1>0, <1>1, <3>1, <3>2, IdleKeepsLive DEF vars, clientVars, cancelVars
  <2>2. CASE Publish(k)
    <3>1. k \in Switching'
      BY <2>2 DEF Publish, Goto, Switching, SessionInv, SessionTypeOK
    <3> QED BY <1>0, <2>2, <3>1, IdleKeepsLive
            DEF Publish, vars, clientVars, ConnectedIsServed
  <2>3. CASE StopOld(k)
    <3>1. k \in Switching'
      BY <2>3 DEF StopOld, Goto, Switching, SessionInv, SessionTypeOK
    <3> QED BY <1>0, <2>3, <3>1, CancelEndsLive DEF StopOld, ConnectedIsServed
  <2>4. CASE ReadAuth(k)
    <3>1. UNCHANGED <<vars, started, shutting, authVars, cancelVars, disconnecting>>
      BY <2>4 DEF ReadAuth, Goto
    <3>2. authInfo # NoAuth => Switching \subseteq Switching'
      BY <2>4 DEF ReadAuth, Goto, Switching, SessionInv, SessionTypeOK
    <3> QED BY <1>0, <1>1, <3>1, <3>2, IdleKeepsLive
            DEF vars, clientVars, cancelVars, authVars
  <2>5. CASE Install(k)
    <3>1. PICK c \in Clients : Start(c) /\ syncCancel' = c
      BY <2>5 DEF Install
    <3> QED BY <1>0, <3>1, StartIsLive DEF ConnectedIsServed
  <2>6. CASE Returned(k)
    <3>1. UNCHANGED <<vars, started, shutting, authVars, cancelVars, disconnecting>>
      BY <2>6 DEF Returned
    <3>2. Switching \subseteq Switching'
      BY <2>6 DEF Returned, Switching, SessionInv, SessionTypeOK
    <3> QED BY <1>0, <1>1, <3>1, <3>2, IdleKeepsLive
            DEF vars, clientVars, cancelVars, authVars
  <2> QED BY <1>3, <2>1, <2>2, <2>3, <2>4, <2>5, <2>6 DEF ConnectStep
<1>4. CASE LifecycleStep /\ ~ShutdownClose
  <2>1. CASE Startup
    <3>1. CASE authInfo # NoAuth
      <4>1. PICK c \in Clients : Start(c) /\ syncCancel' = c
        BY <2>1, <3>1 DEF Startup
      <4> QED BY <1>0, <4>1, StartIsLive DEF ConnectedIsServed
    <3>2. CASE authInfo = NoAuth
      <4>1. authInfo' = NoAuth
        BY <2>1, <3>2 DEF Startup, authVars
      <4>2. (\E c \in Clients : Start(c)) \/ UNCHANGED vars
        BY <2>1 DEF Startup
      <4> QED BY <1>0, <4>1, <4>2, StartIsLive, IdleKeepsLive
              DEF ConnectedIsServed, vars, clientVars
    <3> QED BY <3>1, <3>2
  <2>2. CASE ShutdownCancel
    BY <1>0, <2>2, CancelEndsLive DEF ShutdownCancel, ConnectedIsServed
  <2>3. CASE Load
    BY <1>0, <2>3, IdleKeepsLive
       DEF Load, Restart, Fresh, clientVars, ConnectedIsServed
  <2>4. CASE SessionExit
    BY <2>4, ExitEndsAll DEF SessionExit, Fresh, ConnectedIsServed
  <2> QED BY <1>4, <2>1, <2>2, <2>3, <2>4 DEF LifecycleStep
<1>5. CASE PlayerStep
  <2>1. CASE Disconnect
    BY <1>0, <2>1, CancelEndsLive
       DEF Disconnect, DisconnectGoes, AfterCancel, ConnectedIsServed, MutexFree
  <2>2. ASSUME NEW k \in Calls, Connect(k) PROVE Goal
    <3>1. UNCHANGED <<vars, started, shutting, authVars, cancelVars, disconnecting>>
      BY <2>2 DEF Connect
    <3>2. Switching \subseteq Switching'
      BY <2>2 DEF Connect, Switching, SessionInv, SessionTypeOK
    <3> QED BY <1>0, <1>1, <3>1, <3>2, IdleKeepsLive
            DEF vars, clientVars, cancelVars, authVars
  <2>3. ASSUME NEW e, Remount \/ AskConfig \/ ShowConfig \/ SetEnvironment(e)
        PROVE  Goal
    <3>1. UNCHANGED <<vars, started, shutting, authVars, call, cancelVars,
                    disconnecting>>
      BY <2>3 DEF Remount, AskConfig, ShowConfig, SetEnvironment, callVars
    <3> QED BY <1>0, <1>1, <3>1, IdleKeepsLive
            DEF vars, clientVars, cancelVars, authVars, Switching
  <2> QED BY <1>5, <2>1, <2>2, <2>3 DEF PlayerStep
<1>6. CASE DisconnectStep
  <2>1. disconnecting' # "idle" \/ authInfo' = NoAuth
    BY <1>6 DEF DisconnectStep, DisconnectGoes, ForgetClient, ClearAuth, RemoveAuth,
                SessionInv
  <2> QED BY <1>0, <1>6, <2>1, DisconnectStepIdles, IdleKeepsLive
          DEF ConnectedIsServed, MutexFree, vars, clientVars
<1> QED BY <1>2, <1>3, <1>4, <1>5, <1>6 DEF SessionNext

LEMMA SessionInvStep == SessionInv /\ [SessionNext]_allVars => SessionInv'
<1> SUFFICES ASSUME SessionInv, [SessionNext]_allVars PROVE SessionInv'
  OBVIOUS
<1>1. TypeOK' /\ SessionTypeOK'
  BY SessionStepMaps, TypeStep, SessionTypeStep DEF SessionInv
<1> QED BY <1>1, ServedStep, ClearedStep DEF SessionInv, ClearedFirst

\* The invariant behind it holds in every reachable state.
THEOREM SessionInvariance == SessionSpec => []SessionInv
BY SessionInvInit, SessionInvStep, PTL DEF SessionSpec

\* While the companion holds a token the client its disconnect would stop is
\* running, for any number of overlapping connects.
THEOREM Served == SessionSpec => []ConnectedIsServed
<1>1. SessionInv => ConnectedIsServed
  BY DEF SessionInv
<1> QED BY <1>1, SessionInvariance, PTL

----------------------------------------------------------------------------
(* With one connect at a time.                                             *)

LEMMA OneCallInit == SessionInit => OneCallInv
<1> SUFFICES ASSUME SessionInit PROVE OneCallInv
  OBVIOUS
<1>1. Live = {}
  BY DEF SessionInit, Init, Live
<1> QED BY <1>1 DEF SessionInit, OneCallInv, ServingClientIsReachable,
                    RestartKeepsConnection

\* Where the calls are after call k moves to `stage'.
LEMMA GotoMoves ==
  ASSUME SessionTypeOK, NEW k \in Calls, NEW stage, Goto(k, stage)
  PROVE  /\ call'[k] = stage
         /\ \A j \in Calls : j # k => call'[j] = call[j]
         /\ callEnv' = callEnv /\ disconnecting' = disconnecting
BY DEF Goto, SessionTypeOK, uiVars

LEMMA ConnectStepKeepsOneCall ==
  ASSUME SessionInv, OneCallInv, \A j, k \in Calls : j = k,
         NEW k \in Calls, ConnectStep(k)
  PROVE  OneCallInv'
<1>0. Contexts /\ SessionTypeOK
  BY DEF SessionInv, Contexts
<1> USE DEF OneCallInv, ServingClientIsReachable, RestartKeepsConnection, Orphans
<1>01. started /\ running /\ started' = started /\ running' = running
  <2>1. call[k] # "idle" /\ started' = started
    BY DEF ConnectStep, Authorised, FlowFails, SaveAuth, SaveAuthFails, Publish,
           StopOld, ReadAuth, Install, Returned, Goto
  <2>2. running' = running
    BY DEF ConnectStep, Authorised, FlowFails, SaveAuth, SaveAuthFails, Publish,
           StopOld, ReadAuth, Install, Returned, CancelIfRunning, Cancel, Start,
           vars
  <2> QED BY <2>1, <2>2
<1>1. CASE Authorised(k) \/ FlowFails(k)
  <2>1. Live' = Live /\ UNCHANGED <<authVars, cancelVars>>
    BY <1>0, <1>1, IdleKeepsLive DEF Authorised, FlowFails, vars, clientVars
  <2>2. call[k] = "waiting" /\ \E s \in {"saving", "returned"} : Goto(k, s)
    BY <1>1 DEF Authorised, FlowFails
  <2> QED BY <1>0, <1>01, <2>1, <2>2, GotoMoves DEF authVars, cancelVars
<1>2. CASE SaveAuth(k) \/ SaveAuthFails(k)
  <2>1. Live' = Live /\ UNCHANGED <<authInfo, cancelVars>>
    BY <1>0, <1>2, IdleKeepsLive DEF SaveAuth, SaveAuthFails, vars, clientVars
  <2>2. /\ call[k] = "saving"
        /\ \/ Goto(k, "publishing") /\ authFile' = callEnv[k]
           \/ Goto(k, "returned") /\ authFile' \in {authFile, NoAuth}
    BY <1>2 DEF SaveAuth, SaveAuthFails
  <2>3. \A j \in Calls : call[j] # "publishing"
    BY <2>2
  <2> QED BY <1>0, <1>01, <2>1, <2>2, <2>3, GotoMoves DEF cancelVars
<1>3. CASE Publish(k)
  <2>1. Live' = Live /\ UNCHANGED <<authFile, cancelVars>>
    BY <1>0, <1>3, IdleKeepsLive DEF Publish, vars, clientVars
  <2>2. call[k] = "publishing" /\ Goto(k, "stopping") /\ authInfo' = callEnv[k]
    BY <1>3 DEF Publish
  <2> QED BY <1>0, <1>01, <2>1, <2>2, GotoMoves DEF cancelVars
<1>4. CASE StopOld(k)
  <2>1. /\ Live' = Live \ {syncCancel}
        /\ UNCHANGED <<authVars, syncCancel, legacy, joined>>
    BY <1>0, <1>4, CancelEndsLive DEF StopOld
  <2>2. call[k] = "stopping" /\ Goto(k, "starting")
    BY <1>4 DEF StopOld
  <2>3. Live' \subseteq legacy' \union Orphans'
    BY <2>1
  <2> QED BY <1>0, <1>01, <2>1, <2>2, <2>3, GotoMoves DEF authVars
<1>5. CASE ReadAuth(k)
  <2>1. Live' = Live /\ UNCHANGED <<authVars, cancelVars>>
    BY <1>0, <1>5, IdleKeepsLive DEF ReadAuth, vars, clientVars
  <2>2. call[k] = "starting" /\ \E s \in {"returned", "installing"} : Goto(k, s)
    BY <1>5 DEF ReadAuth
  <2> QED BY <1>0, <1>01, <2>1, <2>2, GotoMoves DEF authVars, cancelVars
<1>6. CASE Install(k)
  <2>1. PICK c \in Clients :
          /\ Start(c) /\ syncCancel' = c
          /\ legacy' = legacy \ {c}
          /\ joined' = [joined EXCEPT ![c] = Joining]
    BY <1>6 DEF Install
  <2>2. Live' = Live \cup {c}
    BY <1>0, <2>1, StartIsLive
  <2>3. call[k] = "installing" /\ Goto(k, "returned") /\ UNCHANGED authVars
    BY <1>6 DEF Install
  <2>4. Live \subseteq legacy \union Orphans
    BY <2>3
  <2>5. c \notin Live
    BY <2>1 DEF Start, Live
  <2>6. /\ joined'[c] = Joining
        /\ \A d \in Live : joined'[d] = joined[d]
    BY <1>0, <2>1, <2>5 DEF SessionTypeOK, Live
  <2>7. /\ Live' \ legacy' \subseteq {c} \union Orphans'
        /\ disconnecting = "forgetting" => Live' \subseteq legacy' \union Orphans'
        /\ disconnecting \in {"clearing", "removing"} =>
             \A d \in Live' \ legacy' : joined'[d] # "before"
    BY <2>1, <2>2, <2>4, <2>5, <2>6 DEF Joining, Live
  <2>8. call'[k] = "returned" /\ disconnecting' = disconnecting
    BY <1>0, <2>3, GotoMoves
  <2> QED BY <1>01, <2>1, <2>3, <2>7, <2>8 DEF authVars
<1>7. CASE Returned(k)
  <2>1. Live' = Live /\ UNCHANGED <<authVars, cancelVars>>
    BY <1>0, <1>7, IdleKeepsLive DEF Returned, vars, clientVars
  <2>2. call[k] = "returned" /\ call'[k] = "idle"
    BY <1>0, <1>7 DEF Returned, SessionTypeOK
  <2> QED BY <1>01, <1>7, <2>1, <2>2 DEF Returned, authVars, cancelVars
<1> QED BY <1>1, <1>2, <1>3, <1>4, <1>5, <1>6, <1>7 DEF ConnectStep

\* What a disconnect does after its cancel.
LEMMA DisconnectStepKeepsOneCall ==
  ASSUME SessionInv, OneCallInv, DisconnectStep
  PROVE  OneCallInv'
<1>0. Contexts /\ SessionTypeOK
  BY DEF SessionInv, Contexts
<1> USE DEF OneCallInv, ServingClientIsReachable, RestartKeepsConnection, Orphans
<1>1. Live' = Live
  BY <1>0, DisconnectStepIdles, IdleKeepsLive DEF vars, clientVars
<1>2. UNCHANGED <<running, started, callVars, legacy>>
  BY DisconnectStepIdles
     DEF DisconnectStep, DisconnectGoes, ForgetClient, ClearAuth, RemoveAuth, vars
<1>3. CASE ForgetClient
  <2>1. UNCHANGED <<authVars, joined>> /\ disconnecting' = "clearing"
    BY <1>3 DEF ForgetClient, DisconnectGoes
  <2>2. Live \subseteq legacy \union Orphans /\ started
    BY <1>3 DEF ForgetClient, DisconnectGoes
  <2> QED BY <1>1, <1>2, <2>1, <2>2 DEF authVars, callVars
<1>4. CASE ClearAuth
  <2>1. /\ disconnecting = "clearing" /\ disconnecting' = "removing"
        /\ authInfo' = NoAuth
        /\ UNCHANGED <<authFile, syncCancel, joined>>
    BY <1>4 DEF ClearAuth, DisconnectGoes
  <2> QED BY <1>1, <1>2, <2>1 DEF callVars
<1>5. CASE RemoveAuth
  <2>1. /\ disconnecting = "removing" /\ disconnecting' = "idle"
        /\ authFile' \in {NoAuth, authFile}
        /\ UNCHANGED <<authInfo, syncCancel>>
    BY <1>5 DEF RemoveAuth, DisconnectGoes
  <2>2. Orphans' = Orphans
    BY <1>5 DEF RemoveAuth
  <2> QED BY <1>1, <1>2, <2>1, <2>2 DEF callVars
<1> QED BY <1>3, <1>4, <1>5 DEF DisconnectStep

LEMMA OneCallStep ==
  ASSUME SessionInv, OneCallInv, \A j, k \in Calls : j = k, [SessionNext]_allVars
  PROVE  OneCallInv'
<1>0. Contexts /\ SessionTypeOK
  BY DEF SessionInv, Contexts
<1> USE DEF OneCallInv, ServingClientIsReachable, RestartKeepsConnection, Orphans
<1>1. ASSUME Live' \subseteq Live, running' = running, UNCHANGED sessionVars
      PROVE  OneCallInv'
  BY <1>1 DEF sessionVars, authVars, callVars, cancelVars, uiVars
<1>2. CASE BackgroundStep \/ ShutdownClose \/ UNCHANGED allVars
  <2>1. CASE BackgroundStep
    <3>1. running' = running
      BY <2>1 DEF BackgroundStep, ClientStep, Tick, FinalTick, FinalFetchEnds,
        Fetch, CheckEvent, Send, SendCancelled, SendFails, ReceiveOK,
        ReceiveError, Mark, MarkFails, Return, ApiStep, Accept, AcceptLate,
        InsertEvent, SetSyncPreference, ResetSyncPreferences
    <3> QED BY <1>0, <1>1, <2>1, <3>1, BackgroundKeepsLive DEF BackgroundStep
  <2>2. CASE ShutdownClose \/ UNCHANGED allVars
    BY <1>0, <1>1, <2>2, IdleKeepsLive
       DEF ShutdownClose, Close, allVars, vars, clientVars
  <2> QED BY <1>2, <2>1, <2>2
<1>3. CASE Startup
  <2>1. Live = {} /\ \A k \in Calls : call[k] = "idle"
    BY <1>3 DEF Startup
  <2>2. /\ started' /\ running' = running
        /\ UNCHANGED <<authVars, callVars, disconnecting>>
    BY <1>3 DEF Startup, Start, vars
  <2>3. running
    BY <1>3 DEF Startup
  <2>4. Live' \ legacy' \subseteq {syncCancel'}
    <3>1. CASE authInfo # NoAuth \/ LegacyToken
      <4>1. PICK c \in Clients :
              Start(c) /\ (syncCancel' = c \/ legacy' = {c})
        BY <1>3, <3>1 DEF Startup
      <4> QED BY <1>0, <2>1, <4>1, StartIsLive
    <3>2. CASE ~(authInfo # NoAuth \/ LegacyToken)
      BY <1>0, <1>3, <2>1, <3>2, IdleKeepsLive DEF Startup, vars, clientVars
    <3> QED BY <3>1, <3>2
  <2>5. disconnecting = "idle"
    BY <1>3 DEF Startup
  <2> QED BY <2>1, <2>2, <2>3, <2>4, <2>5 DEF authVars, callVars
<1>4. CASE ShutdownCancel
  <2>1. Live' \subseteq Live
    BY <1>0, <1>4, CancelEndsLive DEF ShutdownCancel
  <2>2. running' = running
    BY <1>4 DEF ShutdownCancel, CancelIfRunning, Cancel, vars
  <2> QED BY <1>4, <2>1, <2>2
          DEF ShutdownCancel, authVars, callVars, cancelVars, uiVars
<1>5. CASE Load
  <2>1. Live' = {} /\ running'
    BY <1>0, <1>5, IdleKeepsLive DEF Load, Restart, clientVars
  <2> QED BY <1>5, <2>1 DEF Load, Fresh
<1>6. CASE SessionExit
  <2>1. Live' = {}
    BY <1>6, ExitEndsAll DEF SessionExit
  <2> QED BY <1>6, <2>1, SessionAssumption DEF SessionExit, Fresh
<1>7. CASE Disconnect
  <2>1. Live' = Live \ {syncCancel}
    BY <1>0, <1>7, CancelEndsLive DEF Disconnect
  <2>2. running' = running
    BY <1>7 DEF Disconnect, CancelIfRunning, Cancel, vars
  <2>3. /\ started
        /\ UNCHANGED <<started, authVars, callVars, syncCancel, legacy, joined>>
        /\ disconnecting' = IF syncCancel = NoClient THEN "clearing" ELSE "forgetting"
    BY <1>7 DEF Disconnect, DisconnectGoes, AfterCancel, Usable
  <2>4. Live' \subseteq legacy \union Orphans
    BY <2>1
  <2> QED BY <2>1, <2>2, <2>3, <2>4 DEF authVars, callVars
<1>8. ASSUME NEW k \in Calls, Connect(k) PROVE OneCallInv'
  <2>1. Live' = Live
    BY <1>0, <1>8, IdleKeepsLive DEF Connect, vars, clientVars
  <2>2. call[k] = "idle" /\ call'[k] = "waiting"
    BY <1>0, <1>8 DEF Connect, SessionTypeOK
  <2> QED BY <1>8, <2>1, <2>2
          DEF Connect, Usable, vars, authVars, cancelVars
<1>9. ASSUME NEW e, Remount \/ AskConfig \/ ShowConfig \/ SetEnvironment(e)
      PROVE  OneCallInv'
  <2>1. Live' = Live
    BY <1>0, <1>9, IdleKeepsLive
       DEF Remount, AskConfig, ShowConfig, SetEnvironment, vars, clientVars
  <2>2. /\ UNCHANGED <<started, authVars, callVars, cancelVars, running, disconnecting>>
        /\ started
    BY <1>9 DEF Remount, AskConfig, ShowConfig, SetEnvironment, Usable, vars
  <2> QED BY <2>1, <2>2 DEF authVars, callVars, cancelVars
<1> QED BY <1>2, <1>3, <1>4, <1>5, <1>6, <1>7, <1>8, <1>9, ConnectStepKeepsOneCall,
           DisconnectStepKeepsOneCall
        DEF SessionNext, LifecycleStep, PlayerStep

\* The invariant behind the two theorems below.
THEOREM OneCallInvariance ==
  ASSUME \A j, k \in Calls : j = k
  PROVE  SessionSpec => []OneCallInv
<1>1. SessionInv /\ OneCallInv /\ [SessionNext]_allVars => OneCallInv'
  BY OneCallStep
<1> QED BY <1>1, OneCallInit, SessionInvariance, PTL DEF SessionSpec

\* When connects do not overlap, every live client but the legacy one, and but
\* one whose cancel function a disconnect has overwritten, is within reach of the
\* next disconnect or connect, so that no two of them send.
THEOREM Reachable ==
  ASSUME \A j, k \in Calls : j = k
  PROVE  SessionSpec => []ServingClientIsReachable
<1>1. OneCallInv => ServingClientIsReachable
  BY DEF OneCallInv
<1> QED BY <1>1, OneCallInvariance, PTL

\* When connects do not overlap, a restart loads the connection in force or none,
\* whichever writes of auth.json fail.
THEOREM SameConnection ==
  ASSUME \A j, k \in Calls : j = k
  PROVE  SessionSpec => []RestartKeepsConnection
<1>1. OneCallInv => RestartKeepsConnection
  BY DEF OneCallInv
<1> QED BY <1>1, OneCallInvariance, PTL

----------------------------------------------------------------------------
(* What a disconnect leaves.                                               *)

\* A disconnect of a running companion returns with its last step.
LEMMA ReturnIsRemoval ==
  ASSUME [SessionNext]_allVars, DisconnectReturns
  PROVE  RemoveAuth
<1> USE DEF DisconnectReturns
<1>1. CASE \E k \in Calls : ConnectStep(k)
  BY <1>1 DEF ConnectStep, Authorised, FlowFails, SaveAuth, SaveAuthFails, Publish,
              StopOld, ReadAuth, Install, Returned, Goto
<1>2. CASE LifecycleStep
  BY <1>2 DEF LifecycleStep, Load, Startup, ShutdownCancel, ShutdownClose,
              SessionExit, Fresh, sessionVars
<1>3. CASE PlayerStep
  BY <1>3 DEF PlayerStep, Connect, Remount, AskConfig, ShowConfig, Disconnect,
              DisconnectGoes, AfterCancel, SetEnvironment
<1>4. CASE BackgroundStep \/ UNCHANGED allVars
  BY <1>4 DEF BackgroundStep, allVars, sessionVars
<1>5. CASE DisconnectStep
  BY <1>5 DEF DisconnectStep, DisconnectGoes, ForgetClient, ClearAuth
<1> QED BY <1>1, <1>2, <1>3, <1>4, <1>5 DEF SessionNext

\* When connects do not overlap, a client that goes on serving when a disconnect
\* returns is config.yaml's, or was started after the disconnect had cancelled
\* the client before it, at whatever point of a connect, of a client's work and
\* of its last attempt the disconnect comes (app.go:616-632).
THEOREM DisconnectStopsServing ==
  ASSUME \A j, k \in Calls : j = k
  PROVE  SessionSpec => DisconnectStopsWhatServed
<1> DEFINE P == DisconnectReturns => \A c \in Live' \ legacy' : joined[c] # "before"
<1>1. SessionInv /\ OneCallInv /\ [SessionNext]_allVars => [P]_allVars
  <2> SUFFICES ASSUME SessionInv, OneCallInv, [SessionNext]_allVars, DisconnectReturns
               PROVE  \A c \in Live' \ legacy' : joined[c] # "before"
    OBVIOUS
  <2>1. RemoveAuth
    BY ReturnIsRemoval
  <2>2. Live' = Live /\ legacy' = legacy
    BY <2>1, DisconnectStepIdles, IdleKeepsLive
       DEF RemoveAuth, DisconnectGoes, DisconnectStep, vars, clientVars, SessionInv,
           Contexts
  <2> QED BY <2>2 DEF OneCallInv, DisconnectReturns
<1> QED BY <1>1, SessionInvariance, OneCallInvariance, PTL
        DEF SessionSpec, DisconnectStopsWhatServed

=============================================================================
