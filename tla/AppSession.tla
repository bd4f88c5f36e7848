----------------------------- MODULE AppSession -----------------------------
(***************************************************************************)
(* Who starts and stops the sync clients: the handlers of app.go that      *)
(* connect to SC Bridge, disconnect, start and shut down the companion,    *)
(* with the token on disk, the environment, and the buttons of the         *)
(* frontend's Settings page that decide which handler can be called when.  *)
(*                                                                         *)
(* The module composes with SyncClient: its actions are those of           *)
(* SyncClient with what App does around them.  A token is known by the     *)
(* environment that issued it.  ConnectToSCBridge blocks up to five        *)
(* minutes and holds App.mu for one assignment only; Disconnect holds it   *)
(* throughout, but most of a connect asks for no mutex.  Both are cut into *)
(* steps.                                                                  *)
(***************************************************************************)
EXTENDS SyncClient

CONSTANTS
  Calls,        \* calls of ConnectToSCBridge that may be under way at once
  Envs,         \* the environments, production and staging in the code
  DefaultEnv,   \* production
  NoClient,     \* a nil cancel function
  NoAuth,       \* no token: a nil AuthInfo, or no auth.json
  LegacyToken   \* config.yaml holds an api_token

ASSUME SessionAssumption ==
  /\ NoClient \notin Clients
  /\ NoAuth \notin Envs
  /\ DefaultEnv \in Envs
  /\ LegacyToken \in BOOLEAN

VARIABLES
  started,      \* App.startup has run
  shutting,     \* App.shutdown has begun
  env, envFile,       \* Config.Environment, in memory and in config.yaml
  authInfo, authFile, \* the token, in memory and in auth.json
  call,         \* where each call of ConnectToSCBridge is
  callEnv,      \* the environment it asked for a token
  syncCancel,   \* the client App.syncCancel cancels
  appCancel,    \* the client App.cancel cancels
  appOwner,     \* the call that set App.cancel; NoClient: startup
  legacy,       \* the clients using config.yaml's token
  disconnecting,\* where DisconnectFromSCBridge is
  joined,       \* history: when each client was started, by the disconnect
                \* then under way
  uiConfig,     \* what App.jsx's config says of the connection
  uiAnswer,     \* what a GetConfig that has answered late will make it say
  uiCall        \* the call Settings' `connecting' state stands for

authVars == <<authInfo, authFile>>
callVars == <<call, callEnv>>
cancelVars == <<syncCancel, appCancel, appOwner, legacy, joined>>
uiVars == <<uiConfig, uiAnswer, uiCall>>
sessionVars == <<started, shutting, env, envFile, authVars, callVars,
                 cancelVars, disconnecting, uiVars>>
allVars == <<vars, sessionVars>>

Tokens == Envs \cup {NoAuth}

SessionTypeOK ==
  /\ started \in BOOLEAN /\ shutting \in BOOLEAN
  /\ env \in Envs /\ envFile \in Envs
  /\ authInfo \in Tokens /\ authFile \in Tokens
  /\ call \in [Calls -> {"idle", "waiting", "saving", "publishing", "stopping",
                         "starting", "installing", "returned"}]
  /\ callEnv \in [Calls -> Envs]
  /\ syncCancel \in Clients \cup {NoClient}
  /\ appCancel \in Clients \cup {NoClient}
  /\ appOwner \in Calls \cup {NoClient}
  /\ legacy \subseteq Clients
  /\ disconnecting \in {"idle", "forgetting", "clearing", "removing"}
  /\ joined \in [Clients -> {"before", "between", "after"}]
  /\ uiConfig \in {"loading", "connected", "disconnected"}
  /\ uiAnswer \in {"loading", "connected", "disconnected"}
  /\ uiCall \in Calls \cup {NoClient}

\* A new process, before startup: what it holds once the files are read.
Fresh(environment, auth) ==
  /\ started' = FALSE
  /\ shutting' = FALSE
  /\ env' = environment
  /\ authInfo' = auth
  /\ call' = [k \in Calls |-> "idle"]
  /\ callEnv' = [k \in Calls |-> DefaultEnv]
  /\ syncCancel' = NoClient
  /\ appCancel' = NoClient
  /\ appOwner' = NoClient
  /\ legacy' = {}
  /\ disconnecting' = "idle"
  /\ joined' = [c \in Clients |-> "before"]
  /\ uiConfig' = "loading"
  /\ uiAnswer' = "loading"
  /\ uiCall' = NoClient

SessionInit ==
  /\ Init
  /\ started = FALSE
  /\ shutting = FALSE
  /\ env = DefaultEnv /\ envFile = DefaultEnv
  /\ authInfo = NoAuth /\ authFile = NoAuth
  /\ call = [k \in Calls |-> "idle"]
  /\ callEnv = [k \in Calls |-> DefaultEnv]
  /\ syncCancel = NoClient
  /\ appCancel = NoClient
  /\ appOwner = NoClient
  /\ legacy = {}
  /\ disconnecting = "idle"
  /\ joined = [c \in Clients |-> "before"]
  /\ uiConfig = "loading"
  /\ uiAnswer = "loading"
  /\ uiCall = NoClient

----------------------------------------------------------------------------
(* Startup and shutdown.                                                   *)

\* config.Load, LoadSyncPreferences, auth.Load and store.New of a new process.
Load ==
  /\ Restart
  /\ Fresh(envFile, authFile)
  /\ UNCHANGED <<envFile, authFile>>

\* A startup that leaves sync to the next connect.
StartupWithoutSync ==
  /\ running /\ ~started
  /\ started' = TRUE
  /\ UNCHANGED <<vars, shutting, env, envFile, authVars, callVars, cancelVars,
                 disconnecting, uiVars>>

\* The client startup starts: with auth.json's token, else the legacy one.
Startup ==
  /\ running /\ ~started
  /\ started' = TRUE
  /\ IF authInfo # NoAuth \/ LegacyToken
       THEN \E c \in Clients :
              /\ Start(c)
              /\ appCancel' = c
              /\ IF authInfo # NoAuth
                   THEN syncCancel' = c /\ UNCHANGED legacy
                   ELSE legacy' = {c} /\ UNCHANGED syncCancel
       ELSE UNCHANGED <<vars, appCancel, syncCancel, legacy>>
  /\ UNCHANGED <<shutting, env, envFile, authVars, callVars, appOwner, joined,
                 disconnecting, uiVars>>

\* Calling a cancel function: nothing happens to a client that is nil, has
\* returned, or was cancelled before.
CancelIfRunning(c) ==
  \/ c \in Clients /\ Cancel(c)
  \/ /\ c \in Clients => pc[c] = "off" \/ cancelled[c]
     /\ UNCHANGED vars

\* shutdown cancels through App.cancel, then closes the database at once.
ShutdownCancel ==
  /\ running /\ started /\ ~shutting
  /\ shutting' = TRUE
  /\ CancelIfRunning(appCancel)
  /\ UNCHANGED <<started, env, envFile, authVars, callVars, cancelVars,
                 disconnecting, uiVars>>

ShutdownClose ==
  /\ shutting
  /\ Close
  /\ UNCHANGED sessionVars

\* The end of the process, with or without a shutdown.
SessionExit ==
  /\ Exit
  /\ Fresh(DefaultEnv, NoAuth)
  /\ UNCHANGED <<envFile, authFile>>

----------------------------------------------------------------------------
(* The Settings page and the handlers it calls.                            *)

Usable == running /\ started /\ ~shutting

\* Connect is shown while not connected, and enabled while not connecting.
Connect(k) ==
  /\ Usable
  /\ uiConfig = "disconnected" /\ uiCall = NoClient
  /\ call[k] = "idle"
  /\ call' = [call EXCEPT ![k] = "waiting"]
  /\ callEnv' = [callEnv EXCEPT ![k] = env]
  /\ uiCall' = k
  /\ UNCHANGED <<vars, started, shutting, env, envFile, authVars,
                 cancelVars, disconnecting, uiConfig, uiAnswer>>

\* Settings is unmounted by another tab and mounted again: its state is new.
Remount ==
  /\ Usable
  /\ uiCall # NoClient
  /\ uiCall' = NoClient
  /\ UNCHANGED <<vars, started, shutting, env, envFile, authVars, callVars,
                 cancelVars, disconnecting, uiConfig, uiAnswer>>

\* What GetConfig answers.
Connection(auth) == IF auth = NoAuth THEN "disconnected" ELSE "connected"

\* GetConfig, called on mount, on a change of environment and on a 401, reads
\* authInfo without the mutex ...
AskConfig ==
  /\ Usable
  /\ uiAnswer = "loading"
  /\ uiAnswer' = Connection(authInfo)
  /\ UNCHANGED <<vars, started, shutting, env, envFile, authVars, callVars,
                 cancelVars, disconnecting, uiConfig, uiCall>>

\* ... and its answer is shown some time later, whatever has been shown since.
ShowConfig ==
  /\ Usable
  /\ uiAnswer # "loading"
  /\ uiConfig' = uiAnswer
  /\ uiAnswer' = "loading"
  /\ UNCHANGED <<vars, started, shutting, env, envFile, authVars, callVars,
                 cancelVars, disconnecting, uiCall>>

\* Call k moves to `stage'; nothing else of the calls changes.
Goto(k, stage) ==
  /\ call' = [call EXCEPT ![k] = stage]
  /\ UNCHANGED <<started, shutting, env, envFile, callEnv, disconnecting,
                 uiVars>>

\* The browser's callback brings a token of the environment it was sent to.
Authorised(k) ==
  /\ call[k] = "waiting"
  /\ Goto(k, "saving")
  /\ UNCHANGED <<vars, authVars, cancelVars>>

\* The flow cannot be set up, is refused, or times out after five minutes.
FlowFails(k) ==
  /\ call[k] = "waiting"
  /\ Goto(k, "returned")
  /\ UNCHANGED <<vars, authVars, cancelVars>>

\* auth.Save succeeds.
SaveAuth(k) ==
  /\ call[k] = "saving"
  /\ authFile' = callEnv[k]
  /\ Goto(k, "publishing")
  /\ UNCHANGED <<vars, authInfo, cancelVars>>

\* A handler that goes on when auth.Save has failed.
SaveAuthFailsUnchecked(k) ==
  /\ call[k] = "saving"
  /\ Goto(k, "publishing")
  /\ UNCHANGED <<vars, authVars, cancelVars>>

\* auth.Save fails, perhaps leaving a file auth.Load rejects.
SaveAuthFails(k) ==
  /\ call[k] = "saving"
  /\ authFile' \in {authFile, NoAuth}
  /\ Goto(k, "returned")
  /\ UNCHANGED <<vars, authInfo, cancelVars>>

\* App.mu is held by no disconnect.
MutexFree == disconnecting = "idle"

\* App.authInfo = info, the one step of a connect under the mutex.
Publish(k) ==
  /\ call[k] = "publishing" /\ MutexFree
  /\ authInfo' = callEnv[k]
  /\ Goto(k, "stopping")
  /\ UNCHANGED <<vars, authFile, cancelVars>>

\* A connect that leaves the client before it running.
StopOldForgotten(k) ==
  /\ call[k] = "stopping"
  /\ appCancel' = NoClient
  /\ appOwner' = k
  /\ Goto(k, "starting")
  /\ UNCHANGED <<vars, authVars, syncCancel, legacy, joined>>

\* The old client is cancelled through App.syncCancel, if that is not nil, and
\* App.cancel is overwritten with the cancel function of a new context.
StopOld(k) ==
  /\ call[k] = "stopping"
  /\ CancelIfRunning(syncCancel)
  /\ appCancel' = NoClient
  /\ appOwner' = k
  /\ Goto(k, "starting")
  /\ UNCHANGED <<authVars, syncCancel, legacy, joined>>

\* startSync up to the new client: it reads authInfo without the mutex, and
\* returns when a disconnect has cleared it.
ReadAuth(k) ==
  /\ call[k] = "starting"
  /\ Goto(k, IF authInfo = NoAuth THEN "returned" ELSE "installing")
  /\ UNCHANGED <<vars, authVars, cancelVars>>

\* When a client is started: before a disconnect has cancelled the one in its
\* place, between that and App.syncCancel = nil, or after both.
Joining ==
  CASE disconnecting = "forgetting" -> "between"
    [] disconnecting \in {"clearing", "removing"} -> "after"
    [] OTHER -> "before"

\* The rest of startSync: the client replaces the one before it and runs.
Install(k) ==
  /\ call[k] = "installing"
  /\ \E c \in Clients :
       /\ Start(c)
       /\ syncCancel' = c
       /\ appCancel' = IF appOwner = k THEN c
                       ELSE IF appCancel = c THEN NoClient ELSE appCancel
       /\ legacy' = legacy \ {c}
       /\ joined' = [joined EXCEPT ![c] = Joining]
  /\ Goto(k, "returned")
  /\ UNCHANGED <<authVars, appOwner>>

\* The call returns to handleConnect, whose GetConfig shows the connection; it
\* resets `connecting' only in the Settings page that made the call.
Returned(k) ==
  /\ call[k] = "returned"
  /\ call' = [call EXCEPT ![k] = "idle"]
  /\ callEnv' = [callEnv EXCEPT ![k] = DefaultEnv]
  /\ uiConfig' = Connection(authInfo)
  /\ uiCall' = IF uiCall = k THEN NoClient ELSE uiCall
  /\ UNCHANGED <<vars, started, shutting, env, envFile, authVars, cancelVars,
                 disconnecting, uiAnswer>>

\* The disconnect goes from one place to another.
DisconnectGoes(from, to) ==
  /\ disconnecting = from
  /\ disconnecting' = to
  /\ UNCHANGED <<started, shutting, env, envFile, callVars, appCancel, appOwner,
                 legacy, uiAnswer, uiCall>>

\* App.syncCancel is made nil only if it is not.
AfterCancel == IF syncCancel = NoClient THEN "clearing" ELSE "forgetting"

\* A disconnect that forgets the client without cancelling it.
DisconnectForgetting ==
  /\ Usable
  /\ uiConfig = "connected"
  /\ DisconnectGoes("idle", AfterCancel)
  /\ UNCHANGED <<vars, authVars, syncCancel, joined, uiConfig>>

\* Disconnect is shown while connected; a second click waits for the mutex.  The
\* handler takes it and cancels the client App.syncCancel cancels, if that is not
\* nil: one step, since nobody else makes App.syncCancel nil, and what happens
\* between the lock and the call may as well happen before them ...
Disconnect ==
  /\ Usable
  /\ uiConfig = "connected"
  /\ DisconnectGoes("idle", AfterCancel)
  /\ CancelIfRunning(syncCancel)
  /\ UNCHANGED <<authVars, syncCancel, joined, uiConfig>>

\* ... and makes it nil, whichever client it cancels by now.
ForgetClient ==
  /\ DisconnectGoes("forgetting", "clearing")
  /\ syncCancel' = NoClient
  /\ UNCHANGED <<vars, authVars, joined, uiConfig>>

\* A disconnect that takes the token from the disk and keeps it in memory.
ClearAuthOnDisk ==
  /\ DisconnectGoes("clearing", "removing")
  /\ authFile' = NoAuth
  /\ UNCHANGED <<vars, authInfo, syncCancel, joined, uiConfig>>

\* App.authInfo = nil.
ClearAuth ==
  /\ DisconnectGoes("clearing", "removing")
  /\ authInfo' = NoAuth
  /\ UNCHANGED <<vars, authFile, syncCancel, joined, uiConfig>>

\* auth.Clear, which may fail, and the return, which frees the mutex.  What
\* handleDisconnect's GetConfig then answers is shown at once, or later, as
\* that of AskConfig.
RemoveAuth ==
  /\ DisconnectGoes("removing", "idle")
  /\ authFile' \in {NoAuth, authFile}
  /\ joined' = [c \in Clients |->
                  IF joined[c] = "after" THEN "before" ELSE joined[c]]
  /\ uiConfig' \in {uiConfig, Connection(authInfo)}
  /\ UNCHANGED <<vars, authInfo, syncCancel>>

\* A SetEnvironment that takes whatever it is given.
SetEnvironmentUnvalidated(e) ==
  /\ Usable /\ MutexFree
  /\ env' = e
  /\ envFile' \in {e, envFile, DefaultEnv}
  /\ UNCHANGED <<vars, started, shutting, authVars, callVars, cancelVars,
                 disconnecting, uiVars>>

\* SetEnvironment.  A failed Save leaves config.yaml as it was, or unreadable,
\* which the next startup replaces by the default.
SetEnvironment(e) ==
  /\ Usable /\ MutexFree
  /\ e \in Envs
  /\ env' = e
  /\ envFile' \in {e, envFile, DefaultEnv}
  /\ UNCHANGED <<vars, started, shutting, authVars, callVars, cancelVars,
                 disconnecting, uiVars>>

----------------------------------------------------------------------------

ConnectStep(k) ==
  \/ Authorised(k) \/ FlowFails(k) \/ SaveAuth(k) \/ SaveAuthFails(k)
  \/ Publish(k) \/ StopOld(k) \/ ReadAuth(k) \/ Install(k) \/ Returned(k)

DisconnectStep == ForgetClient \/ ClearAuth \/ RemoveAuth

LifecycleStep ==
  Load \/ Startup \/ ShutdownCancel \/ ShutdownClose \/ SessionExit

PlayerStep ==
  \/ \E k \in Calls : Connect(k)
  \/ Remount \/ AskConfig \/ ShowConfig \/ Disconnect
  \/ \E e \in Envs \cup {""} : SetEnvironment(e)

\* What SyncClient does on its own: the clients, the API, the event pipeline
\* and the preferences.
BackgroundStep ==
  /\ \/ \E c \in Clients : ClientStep(c)
     \/ ApiStep
     \/ \E t \in Types : InsertEvent(t)
     \/ \E t \in Types, enabled \in BOOLEAN : SetSyncPreference(t, enabled)
     \/ ResetSyncPreferences
  /\ UNCHANGED sessionVars

SessionNext ==
  \/ \E k \in Calls : ConnectStep(k)
  \/ DisconnectStep
  \/ LifecycleStep
  \/ PlayerStep
  \/ BackgroundStep

SessionSpec == SessionInit /\ [][SessionNext]_allVars

----------------------------------------------------------------------------
(* Safety.                                                                 *)

\* App only does to the clients what SyncClient allows, so all that holds of
\* SyncClient holds of the companion, whatever the player does.
ImplementsClients == Spec

\* The clients that run and have not been cancelled.
Live == {c \in Clients : pc[c] # "off" /\ ~cancelled[c]}

\* Those a connect installed between a disconnect's cancel of the client before
\* them and its App.syncCancel = nil, which overwrote theirs.
Orphans == {c \in Clients : joined[c] = "between"}

\* No client is out of reach: one that runs with a connection's token and is
\* not cancelled is the one App.syncCancel cancels, so a disconnect or another
\* connect will stop it, unless its cancel function was lost to a disconnect
\* (app.go:622-623).  In particular no other two of them send side by side.
\* Holds with one call of ConnectToSCBridge at a time: two that overlap
\* (Settings unmounted during the first) may both stop the client before them
\* and then both start one.
ServingClientIsReachable == Live \ legacy \subseteq {syncCancel} \union Orphans

\* The calls that are between App.authInfo = info and their return.
Switching == {k \in Calls : call[k] \in {"stopping", "starting", "installing"}}

\* "Connected" means served: while the companion holds a token, and no connect
\* is replacing the client and no disconnect is under way, the client
\* App.syncCancel cancels is running and not cancelled.  A connect, a
\* disconnect, a failed auth.Save and a restart all keep token and client
\* together.
ConnectedIsServed ==
  started /\ ~shutting /\ authInfo # NoAuth /\ Switching = {} /\ MutexFree =>
    syncCancel \in Live

\* A restart never brings back another connection than the one in force: what
\* startup would load is the token in memory or, a write of auth.json having
\* failed, none.  One call at a time, as above.
RestartKeepsConnection ==
  authInfo # NoAuth /\ (\A k \in Calls : call[k] # "publishing") =>
    authFile \in {authInfo, NoAuth}

\* A goroutine that has returned, or is making its last attempt, has the context
\* Run leaves it with: what the invariants above rest on.
ContextOK(c) ==
  /\ pc[c] = "off" => ~cancelled[c]
  /\ final[c] => cancelled[c] /\ pc[c] \notin {"off", "select"}

\* What is inductive, for any number of calls.
SessionInv ==
  /\ TypeOK
  /\ SessionTypeOK
  /\ \A c \in Clients : ContextOK(c)
  /\ ConnectedIsServed
  /\ disconnecting = "removing" => authInfo = NoAuth

\* What is inductive in addition when calls do not overlap: between stopping the
\* old client and starting the new one only a legacy client or an orphan is live,
\* a token is published only once it is the one on disk, and a disconnect that
\* has cancelled its client finds no other that was there before.
OneCallInv ==
  /\ started => running
  /\ ~started => Live = {}
  /\ ServingClientIsReachable
  /\ RestartKeepsConnection
  /\ \A k \in Calls :
       /\ ~started => call[k] = "idle"
       /\ call[k] \in {"starting", "installing"} =>
            Live \subseteq legacy \union Orphans
       /\ call[k] = "publishing" => authFile \in {callEnv[k], NoAuth}
  /\ disconnecting # "idle" => started
  /\ disconnecting = "forgetting" => Live \subseteq legacy \union Orphans
  /\ disconnecting \in {"clearing", "removing"} =>
       \A c \in Live \ legacy : joined[c] # "before"

\* The step with which DisconnectFromSCBridge returns, not the end of the process.
DisconnectReturns ==
  disconnecting = "removing" /\ disconnecting' = "idle" /\ started'

\* "DisconnectFromSCBridge clears the auth and stops sync" (app.go:616): when
\* it returns every client still running has been cancelled.
DisconnectStopsSync ==
  [][DisconnectReturns =>
       \A c \in Clients : pc'[c] # "off" => cancelled'[c]]_allVars

\* What it does stop: when it returns, a client that goes on serving never had
\* the token, like config.yaml's, or was started by a connect when the disconnect
\* had already cancelled the client before it.  One call at a time, as above
\* (app.go:616-632).
DisconnectStopsWhatServed ==
  [][DisconnectReturns =>
       \A c \in Live' \ legacy' : joined[c] # "before"]_allVars

\* "Final sync attempt before shutdown" (client.go:89): shutdown leaves the
\* clients the database until they have made it.
FinalAttemptBeforeClose ==
  [][running' /\ open /\ ~open' => \A c \in Clients : pc[c] = "off"]_allVars

----------------------------------------------------------------------------
(* Liveness.                                                               *)

\* The goroutine of a call runs on, and OAuthFlow.Start times out; startup and
\* shutdown complete, and so does a disconnect.  Clients are as fair as
\* SyncClient says.
SessionFairness ==
  /\ Fairness
  /\ WF_allVars(Startup)
  /\ WF_allVars(ShutdownClose)
  /\ \A k \in Calls : WF_allVars(ConnectStep(k))
  /\ WF_allVars(DisconnectStep)

SessionFairSpec == SessionSpec /\ SessionFairness

\* A companion that stays connected settles every event its pipeline stores:
\* the connection always has a client that is serving, through connects,
\* restarts and overlapping final attempts.
ConnectedSettles ==
  \A i \in 1 .. MaxEvents :
    <>[](open /\ authInfo # NoAuth) => [](i \in Ids => <>(i \in synced))

=============================================================================
