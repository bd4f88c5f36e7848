----------------------------- MODULE OAuthFlow -----------------------------
(***************************************************************************)
(* One OAuth flow (auth/oauth.go): a server on a port of its own waits for *)
(* the browser to be sent to /callback.  Each request has a goroutine,     *)
(* which reports on a channel of one place; Start takes one report, the    *)
(* timeout or the end of the app, whichever it sees first, and shuts the   *)
(* server down.  What a handler writes reaches the browser when it returns.*)
(***************************************************************************)
EXTENDS Naturals, Sequences

CONSTANT Requests  \* the requests browsers make

VARIABLES
  flow,      \* where Start is
  request,   \* what each request brings
  handler,   \* where its handler is
  resultCh,  \* OAuthFlow.resultCh
  outcome,   \* what Start returns
  reports    \* history: the reports made, in order

oauthVars == <<flow, request, handler, resultCh, outcome, reports>>

Nothing == "nothing"
Answers == {"state mismatch", "missing token", "token"}

OAuthInit ==
  /\ flow = "off"
  /\ request = [r \in Requests |-> Nothing]
  /\ handler = [r \in Requests |-> "none"]
  /\ resultCh = <<>> /\ outcome = Nothing /\ reports = <<>>

(* NewOAuthFlow listens before the browser is opened.                      *)
Start ==
  /\ flow = "off"
  /\ flow' = "waiting"
  /\ UNCHANGED <<request, handler, resultCh, outcome, reports>>

(* A browser is at the callback, with this flow's state or another, with a *)
(* token or none: its handler runs up to the report.                       *)
HandleCallback(r) ==
  /\ flow = "waiting" /\ handler[r] = "none"
  /\ \E answer \in Answers : request' = [request EXCEPT ![r] = answer]
  /\ handler' = [handler EXCEPT ![r] = "reporting"]
  /\ UNCHANGED <<flow, resultCh, outcome, reports>>

\* Mutant: a channel without a place, which needs Start to be there.
ReportInPerson(r) ==
  /\ handler[r] = "reporting"
  /\ flow = "waiting" /\ resultCh = <<>>
  /\ resultCh' = Append(resultCh, request[r])
  /\ reports' = Append(reports, request[r])
  /\ handler' = [handler EXCEPT ![r] = "returned"]
  /\ UNCHANGED <<flow, request, outcome>>

\* Mutant: the channel has a place for every report.
ReportAtOnce(r) ==
  /\ handler[r] = "reporting"
  /\ resultCh' = Append(resultCh, request[r])
  /\ reports' = Append(reports, request[r])
  /\ handler' = [handler EXCEPT ![r] = "returned"]
  /\ UNCHANGED <<flow, request, outcome>>

\* Mutant: a request refused is reported as one that was granted.
ReportToken(r) ==
  /\ handler[r] = "reporting"
  /\ resultCh = <<>>
  /\ resultCh' = Append(resultCh, "token")
  /\ reports' = Append(reports, "token")
  /\ handler' = [handler EXCEPT ![r] = "returned"]
  /\ UNCHANGED <<flow, request, outcome>>

\* Mutant: the handler goes on behind a state that does not match.
ReportAndGoOn(r) ==
  /\ handler[r] = "reporting"
  /\ resultCh = <<>>
  /\ resultCh' = Append(resultCh, request[r])
  /\ reports' = Append(reports, request[r])
  /\ IF request[r] = "state mismatch"
     THEN request' = [request EXCEPT ![r] = "missing token"] /\ UNCHANGED handler
     ELSE handler' = [handler EXCEPT ![r] = "returned"] /\ UNCHANGED request
  /\ UNCHANGED <<flow, outcome>>

(* The report waits for the place in the channel.                          *)
Report(r) ==
  /\ handler[r] = "reporting"
  /\ resultCh = <<>>
  /\ resultCh' = Append(resultCh, request[r])
  /\ reports' = Append(reports, request[r])
  /\ handler' = [handler EXCEPT ![r] = "returned"]
  /\ UNCHANGED <<flow, request, outcome>>

ReceiveResult ==
  /\ flow = "waiting" /\ resultCh # <<>>
  /\ outcome' = Head(resultCh)
  /\ resultCh' = Tail(resultCh)
  /\ flow' = "shutdown"
  /\ UNCHANGED <<request, handler, reports>>

Timeout ==
  /\ flow = "waiting"
  /\ outcome' = "timed out"
  /\ flow' = "shutdown"
  /\ UNCHANGED <<request, handler, resultCh, reports>>

(* The context of the app is done.                                         *)
Cancelled ==
  /\ flow = "waiting"
  /\ outcome' = "cancelled"
  /\ flow' = "shutdown"
  /\ UNCHANGED <<request, handler, resultCh, reports>>

\* Mutant: handlers have all the time they need.
ShutdownWaits ==
  /\ flow = "shutdown"
  /\ \A r \in Requests : handler[r] # "reporting"
  /\ flow' = "returned"
  /\ UNCHANGED <<request, handler, resultCh, outcome, reports>>

(* The listener is closed; handlers have 2 seconds, and go on after them.  *)
ShutdownReturns ==
  /\ flow = "shutdown"
  /\ flow' = "returned"
  /\ UNCHANGED <<request, handler, resultCh, outcome, reports>>

(* The page the browser has.                                               *)
Page(r) == IF handler[r] = "returned" THEN request[r] ELSE Nothing
-----------------------------------------------------------------------------
(* What Start returns is the first report made, or that there was none in  *)
(* time; and if it returned the only report, the browser that made it is   *)
(* shown what the app believes (oauth.go:77-125).                          *)
ResultIsFirstReport ==
  /\ outcome \in Answers => reports # <<>> /\ outcome = Head(reports)
  /\ outcome \in Answers /\ Len(reports) = 1 =>
       \A r \in Requests : Page(r) \in {Nothing, outcome}

(* A handler finds the channel taken only by the report of another browser,*)
(* which has its page already: none waits on itself, whatever became of    *)
(* the flow (oauth.go:50, oauth.go:100-125).                               *)
WaitsOnlyForAnother ==
  \A r \in Requests : handler[r] = "reporting" /\ resultCh # <<>> =>
    \E q \in Requests \ {r} : Page(q) = Head(resultCh)
=============================================================================
