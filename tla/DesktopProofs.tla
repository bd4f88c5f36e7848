---------------------------- MODULE DesktopProofs ----------------------------
(***************************************************************************)
(* What a flow returns, and what an update leaves and starts, for any      *)
(* requests and any versions.                                              *)
(***************************************************************************)
EXTENDS Desktop, TLAPS

(* A report lies in the channel until Start has taken one.                 *)
FlowInv ==
  /\ handler \in [Requests -> {"none", "reporting", "returned"}]
  /\ request \in [Requests -> Answers \union {Nothing}]
  /\ resultCh \in Seq(Answers \union {Nothing})
  /\ reports \in Seq(Answers \union {Nothing})
  /\ flow \in {"off", "waiting"} => outcome = Nothing /\ resultCh = reports
  /\ outcome \in Answers => reports # <<>> /\ outcome = Head(reports)
  /\ \A r \in Requests : handler[r] = "returned" =>
       \E i \in 1 .. Len(reports) : reports[i] = request[r]

LEMMA FlowInitial == OAuthInit => FlowInv
  BY <<>> \in Seq(Answers \union {Nothing})
     DEF OAuthInit, FlowInv, Answers, Nothing

LEMMA FlowInvEnough == FlowInv => ResultIsFirstReport
  <1> SUFFICES ASSUME FlowInv, outcome \in Answers, Len(reports) = 1,
                      NEW r \in Requests, handler[r] = "returned"
               PROVE  request[r] = outcome
    BY DEF ResultIsFirstReport, FlowInv, Page
  <1>1. PICK i \in 1 .. Len(reports) : reports[i] = request[r]
    BY DEF FlowInv
  <1>2. i = 1 /\ outcome = reports[1]
    BY <1>1 DEF FlowInv
  <1> QED
    BY <1>1, <1>2

LEMMA ReportStep ==
  ASSUME FlowInv, NEW r \in Requests, Report(r)
  PROVE  FlowInv'
  <1> DEFINE n == Len(reports)
  <1>1. /\ handler[r] = "reporting" /\ resultCh = <<>>
        /\ resultCh' = Append(resultCh, request[r])
        /\ reports' = Append(reports, request[r])
        /\ handler' = [handler EXCEPT ![r] = "returned"]
        /\ UNCHANGED <<flow, request, outcome>>
    BY DEF Report
  <1>2. request[r] \in Answers \union {Nothing}
    BY DEF FlowInv
  <1>3. /\ n \in Nat /\ reports' \in Seq(Answers \union {Nothing}) /\ Len(reports') = n + 1
        /\ \A i \in 1 .. n : reports'[i] = reports[i]
        /\ reports'[n + 1] = request[r]
        /\ resultCh' \in Seq(Answers \union {Nothing})
    BY <1>1, <1>2 DEF FlowInv
  <1>4. flow \in {"off", "waiting"} => outcome = Nothing /\ resultCh' = reports'
    BY <1>1 DEF FlowInv
  <1>5. outcome \in Answers => reports' # <<>> /\ outcome = Head(reports')
    BY <1>1, <1>2, <1>3 DEF FlowInv
  <1>6. ASSUME NEW q \in Requests, handler'[q] = "returned"
        PROVE  \E i \in 1 .. n + 1 : reports'[i] = request[q]
    <2>1. CASE q = r
      BY <1>3, <2>1
    <2>2. CASE q # r
      <3>1. handler[q] = "returned"
        BY <1>1, <1>6, <2>2 DEF FlowInv
      <3>2. PICK i \in 1 .. n : reports[i] = request[q]
        BY <3>1 DEF FlowInv
      <3> QED
        BY <1>3, <3>2
    <2> QED
      BY <2>1, <2>2
  <1>7. handler' \in [Requests -> {"none", "reporting", "returned"}]
    BY <1>1 DEF FlowInv
  <1> QED
    BY <1>1, <1>3, <1>4, <1>5, <1>6, <1>7 DEF FlowInv

LEMMA OtherFlowStep ==
  ASSUME FlowInv,
         \/ Start \/ ReceiveResult \/ Timeout \/ Cancelled \/ ShutdownReturns
         \/ \E r \in Requests : HandleCallback(r)
  PROVE  FlowInv'
  <1>1. CASE Start \/ ShutdownReturns
    BY <1>1 DEF FlowInv, Start, ShutdownReturns
  <1>2. CASE Timeout \/ Cancelled
    BY <1>2 DEF FlowInv, Timeout, Cancelled, Answers
  <1>3. CASE ReceiveResult
    <2>1. /\ flow = "waiting" /\ resultCh # <<>> /\ outcome' = Head(resultCh)
          /\ resultCh' = Tail(resultCh) /\ flow' = "shutdown"
          /\ UNCHANGED <<request, handler, reports>>
      BY <1>3 DEF ReceiveResult
    <2>2. resultCh = reports /\ resultCh' \in Seq(Answers \union {Nothing})
      BY <2>1 DEF FlowInv
    <2> QED
      BY <2>1, <2>2 DEF FlowInv
  <1>4. ASSUME NEW r \in Requests, HandleCallback(r) PROVE FlowInv'
    <2>1. PICK answer \in Answers : request' = [request EXCEPT ![r] = answer]
      BY <1>4 DEF HandleCallback
    <2>2. handler' = [handler EXCEPT ![r] = "reporting"]
          /\ UNCHANGED <<flow, resultCh, outcome, reports>>
      BY <1>4 DEF HandleCallback
    <2>3. \A q \in Requests : handler'[q] = "returned" =>
            handler[q] = "returned" /\ request'[q] = request[q]
      BY <2>1, <2>2 DEF FlowInv
    <2> QED
      BY <2>1, <2>2, <2>3 DEF FlowInv
  <1> QED
    BY <1>1, <1>2, <1>3, <1>4

LEMMA FlowUnchanged == FlowInv /\ UNCHANGED oauthVars => FlowInv'
  BY DEF FlowInv, oauthVars

(* The window and the updater leave a flow alone.                          *)
LEMMA NextKeepsFlow ==
  WindowStep \/ CheckForUpdate \/ UpdateStep \/ Script \/ UNCHANGED vars
    => UNCHANGED oauthVars
  BY DEF vars, WindowStep, SetMinimizeToTray, Minimise, Restore, WatcherLooks,
     WatcherHides, CloseWindow, TrayQuit, CheckForUpdate, UpdateStep, Download,
     DownloadFails, Extract, LaunchScript, LaunchFails, QuitForUpdate, Script,
     WaitForExit, CopyItem, InstallPackage, RemoveItem, StartProcess

LEMMA NextFlow == FlowInv /\ [Next]_vars => FlowInv'
  <1> SUFFICES ASSUME FlowInv, [Next]_vars PROVE FlowInv'
    OBVIOUS
  <1>1. CASE FlowStep \/ ProcessEnds
    BY <1>1, ReportStep, OtherFlowStep DEF FlowStep, ProcessEnds
  <1>2. CASE WindowStep \/ CheckForUpdate \/ UpdateStep \/ Script \/ UNCHANGED vars
    BY <1>2, NextKeepsFlow, FlowUnchanged
  <1> QED
    BY <1>1, <1>2 DEF Next

(* Of any number of browsers that come to the callback, the one that       *)
(* reports first has the flow; the browser that has it to itself is shown  *)
(* what the app was told (oauth.go:77-125).                                *)
THEOREM FirstReportWins == Spec => []ResultIsFirstReport
  BY FlowInitial, NextFlow, FlowInvEnough, PTL DEF Spec, Init
-----------------------------------------------------------------------------
Scripts == {"waiting", "copying", "removing", "starting", "ended"}

(* The files there are, by how far the update is; and what the script finds*)
UpdateInv ==
  /\ update \in {"idle", "downloading", "downloaded", "launched", "done"}
  /\ script \in Scripts \union {"none"}
  /\ script # "none" <=> update \in {"launched", "done"}
  /\ offer \in Versions \union {NoRelease}
  /\ offer # NoRelease => Later(offer, Current)
  /\ update # "idle" => offer # NoRelease
  /\ exe = Current \/ (exe = offer /\ offer # NoRelease)
  /\ script = "none" => exe = Current
  /\ next # NoRelease => script = "ended" /\ next = exe
  /\ update = "idle" => tmp = {}
  /\ update = "downloading" => tmp = {package}
  /\ update = "downloaded" \/ script \in {"waiting", "copying", "removing"} => tmp = {Payload}
  /\ script \in {"starting", "ended"} => tmp = {}
  /\ Payload = "program" /\ script \in Scripts \ {"waiting"} /\ ~waitedOut => ~Running
  /\ Payload = "program" /\ script \in {"removing", "starting", "ended"} /\ ~waitedOut
       => exe = offer \/ denied
  /\ waitedOut \in BOOLEAN /\ denied \in BOOLEAN

LEMMA UpdateInitial == Init => UpdateInv
  BY DEF Init, UpdateInv, Scripts

LEMMA LaterIsNotEarlier ==
  ASSUME NEW v \in Versions, NEW w \in Versions, Later(v, w)
  PROVE  ~Earlier(v, w)
  <1>1. /\ v.number[1] \in Nat /\ v.number[2] \in Nat /\ v.number[3] \in Nat
        /\ w.number[1] \in Nat /\ w.number[2] \in Nat /\ w.number[3] \in Nat
    BY VersionAssumption
  <1>2. PICK i \in 1 .. 3 : /\ v.number[i] > w.number[i]
                            /\ \A j \in 1 .. i - 1 : v.number[j] = w.number[j]
    BY DEF Later
  <1>3. i = 1 \/ i = 2 \/ i = 3
    OBVIOUS
  <1> QED
    BY <1>1, <1>2, <1>3 DEF Earlier

LEMMA UpdateInvEnough == UpdateInv => UpdateGoesForward /\ NothingIsLeft
  <1> SUFFICES ASSUME UpdateInv PROVE UpdateGoesForward /\ NothingIsLeft
    OBVIOUS
  <1>1. NothingIsLeft
    BY DEF UpdateInv, NothingIsLeft
  <1>2. ASSUME next # NoRelease
        PROVE  /\ ~Earlier(next, Current)
               /\ Payload = "program" /\ ~waitedOut => ~Running /\ (next = offer \/ denied)
    <2>1. next = exe /\ script = "ended"
      BY <1>2 DEF UpdateInv
    <2>2. CASE exe = Current
      <3>1. \A i \in 1 .. 3 : Current.number[i] \in Nat
        BY VersionAssumption
      <3>2. ~Earlier(Current, Current)
        BY <3>1 DEF Earlier
      <3> QED
        BY <2>1, <2>2, <3>2 DEF UpdateInv, Scripts
    <2>3. CASE exe = offer /\ offer # NoRelease
      <3>1. ~Earlier(offer, Current)
        BY <2>3, VersionAssumption, LaterIsNotEarlier DEF UpdateInv
      <3> QED
        BY <2>1, <2>3, <3>1 DEF UpdateInv, Scripts
    <2> QED
      BY <2>2, <2>3 DEF UpdateInv
  <1> QED
    BY <1>1, <1>2 DEF UpdateGoesForward

LEMMA WindowKeepsUpdate ==
  ASSUME UpdateInv, Running' => Running, UNCHANGED updateVars
  PROVE  UpdateInv'
  <1>1. Payload' = Payload
    BY DEF Payload, updateVars
  <1> QED
    BY <1>1 DEF UpdateInv, updateVars, Scripts

LEMMA OfferKeepsUpdate ==
  ASSUME UpdateInv, CheckForUpdate
  PROVE  UpdateInv'
  <1>1. /\ update = "idle" /\ offer' \in Versions /\ Later(offer', Current)
        /\ UNCHANGED <<update, script, package, tmp, exe, next, waitedOut, denied, app>>
    BY DEF CheckForUpdate, windowVars
  <1>2. script = "none" /\ exe = Current /\ next = NoRelease
    BY <1>1 DEF UpdateInv
  <1>3. Payload' = Payload /\ offer' # NoRelease
    BY <1>1, VersionAssumption DEF Payload
  <1>4. Later(offer, Current)' <=> Later(offer', Current)
    BY DEF Later
  <1> QED
    BY <1>1, <1>2, <1>3, <1>4 DEF UpdateInv, Scripts

LEMMA DownloadKeepsUpdate ==
  ASSUME UpdateInv,
         Download \/ DownloadFails \/ Extract \/ LaunchScript \/ LaunchFails \/ QuitForUpdate
  PROVE  UpdateInv'
  <1> USE DEF Scripts
  <1>1. CASE Download
    <2>1. script = "none" /\ next = NoRelease
      BY <1>1 DEF Download, UpdateInv
    <2> QED
      BY <1>1, <2>1 DEF Download, UpdateInv, Later
  <1>2. CASE DownloadFails \/ LaunchFails
    BY <1>2 DEF DownloadFails, LaunchFails, UpdateInv, Later
  <1>3. CASE Extract
    BY <1>3 DEF Extract, UpdateInv, Payload, Later
  <1>4. CASE LaunchScript
    <2>1. script = "none" /\ next = NoRelease
      BY <1>4 DEF LaunchScript, UpdateInv
    <2> QED
      BY <1>4, <2>1 DEF LaunchScript, UpdateInv, Payload, Later
  <1>5. CASE QuitForUpdate
    <2>1. update = "launched" /\ update' = "done" /\ Running
          /\ UNCHANGED <<offer, script, package, tmp, exe, next, waitedOut, denied>>
      BY <1>5 DEF QuitForUpdate
    <2> QED
      BY <2>1 DEF UpdateInv, Payload, Later
  <1> QED
    BY <1>1, <1>2, <1>3, <1>4, <1>5

LEMMA ScriptKeepsUpdate ==
  ASSUME UpdateInv, Script
  PROVE  UpdateInv'
  <1> USE DEF Scripts
  <1>1. UNCHANGED <<offer, update, package, app>> /\ Payload' = Payload /\ Running' = Running
    BY DEF Script, WaitForExit, CopyItem, InstallPackage, RemoveItem, StartProcess,
       windowVars, Payload, Running
  <1>2. script \in {"waiting", "copying", "removing", "starting"} /\ next = NoRelease
        /\ offer # NoRelease
    BY DEF Script, WaitForExit, CopyItem, InstallPackage, RemoveItem, StartProcess, UpdateInv
  <1>3. CASE WaitForExit
    <2>1. /\ script = "waiting" /\ Payload = "program" /\ script' = "copying"
          /\ UNCHANGED <<tmp, exe, next, denied>>
      BY <1>3 DEF WaitForExit
    <2>2. ~waitedOut' => ~Running'
      BY <1>1, <1>3, Zenon DEF WaitForExit
    <2>3. waitedOut' \in BOOLEAN
      BY <1>3 DEF WaitForExit, Running
    <2> QED
      BY <1>1, <1>2, <2>1, <2>2, <2>3 DEF UpdateInv, Later
  <1>4. CASE CopyItem
    <2>1. /\ script = "copying" /\ script' = "removing"
          /\ UNCHANGED <<tmp, next, waitedOut>>
          /\ \/ ~Running /\ exe' = offer /\ denied' = denied
             \/ Running /\ exe' = exe /\ denied' = denied
             \/ ~Running /\ denied' = TRUE /\ exe' = exe
      BY <1>4 DEF CopyItem
    <2> QED
      BY <1>1, <1>2, <2>1 DEF UpdateInv, Later
  <1>5. CASE InstallPackage
    BY <1>1, <1>2, <1>5 DEF InstallPackage, UpdateInv, Later
  <1>6. CASE RemoveItem
    BY <1>1, <1>2, <1>6 DEF RemoveItem, UpdateInv, Later
  <1>7. CASE StartProcess
    BY <1>1, <1>2, <1>7 DEF StartProcess, UpdateInv, Later
  <1> QED
    BY <1>3, <1>4, <1>5, <1>6, <1>7 DEF Script

LEMMA NextUpdate == UpdateInv /\ [Next]_vars => UpdateInv'
  <1> SUFFICES ASSUME UpdateInv, [Next]_vars PROVE UpdateInv'
    OBVIOUS
  <1>1. CASE WindowStep \/ FlowStep \/ ProcessEnds \/ UNCHANGED vars
    <2>1. UNCHANGED updateVars /\ (Running' => Running)
      BY <1>1 DEF vars, windowVars, WindowStep, SetMinimizeToTray, Minimise, Restore,
         WatcherLooks, WatcherHides, CloseWindow, TrayQuit, BeforeClose, FlowStep,
         ProcessEnds, Running
    <2> QED
      BY <2>1, WindowKeepsUpdate
  <1>2. CASE CheckForUpdate
    BY <1>2, OfferKeepsUpdate
  <1>3. CASE UpdateStep
    BY <1>3, DownloadKeepsUpdate DEF UpdateStep
  <1>4. CASE Script
    BY <1>4, ScriptKeepsUpdate
  <1> QED
    BY <1>1, <1>2, <1>3, <1>4 DEF Next

(* For any versions, an update whose process went in time starts one       *)
(* process alone, of the release it was offered unless the copy was denied,*)
(* and no update starts a version before the one that ran                  *)
(* (selfupdate.go:98-122, updater.go:97-132).                              *)
THEOREM UpdatesGoForward == Spec => []UpdateGoesForward
  BY UpdateInitial, NextUpdate, UpdateInvEnough, PTL DEF Spec

(* Whatever the package and wherever an update fails or ends, its files    *)
(* are gone by then (selfupdate.go:57-82, selfupdate.go:114-117).          *)
THEOREM UpdatesLeaveNothing == Spec => []NothingIsLeft
  BY UpdateInitial, NextUpdate, UpdateInvEnough, PTL DEF Spec
-----------------------------------------------------------------------------
(* What TypeOK says beyond what is proved above.                           *)
FlowTypes ==
  /\ flow \in {"off", "waiting", "shutdown", "returned"}
  /\ outcome \in Answers \union {Nothing, "timed out", "cancelled"}
  /\ Len(resultCh) <= 1

WindowTypes ==
  /\ app \in {"running", "gone"} /\ window \in {"shown", "minimised", "hidden"}
  /\ icon \in BOOLEAN /\ minimizeToTray \in BOOLEAN /\ watcher \in {"asleep", "hides"}

PackageTypes == update # "idle" => package \in {"program", "zip", "msi"}

LEMMA TypesEnough ==
  FlowInv /\ UpdateInv /\ FlowTypes /\ WindowTypes /\ PackageTypes => TypeOK
  <1> SUFFICES ASSUME FlowInv, UpdateInv, FlowTypes, WindowTypes, PackageTypes PROVE TypeOK
    OBVIOUS
  <1>1. exe \in Versions /\ next \in Versions \union {NoRelease}
    BY VersionAssumption DEF UpdateInv
  <1>2. tmp \subseteq {"program", "zip", "msi"}
    BY DEF UpdateInv, PackageTypes, Payload, Scripts
  <1> QED
    BY <1>1, <1>2 DEF FlowInv, UpdateInv, FlowTypes, WindowTypes, TypeOK, Scripts

LEMMA TypesInitial == Init => FlowTypes /\ WindowTypes /\ PackageTypes
  BY DEF Init, OAuthInit, FlowTypes, WindowTypes, PackageTypes

LEMMA FlowTypesStep ==
  ASSUME FlowInv, FlowTypes, FlowStep \/ ProcessEnds
  PROVE  FlowTypes'
  <1>1. CASE Start \/ Timeout \/ Cancelled \/ ShutdownReturns
    BY <1>1 DEF FlowTypes, Start, Timeout, Cancelled, ShutdownReturns
  <1>2. CASE \E r \in Requests : HandleCallback(r)
    BY <1>2 DEF FlowTypes, HandleCallback
  <1>3. CASE ReceiveResult
    <2>1. resultCh \in Seq(Answers \union {Nothing}) /\ resultCh # <<>>
      BY <1>3 DEF FlowInv, ReceiveResult
    <2>2. Head(resultCh) \in Answers \union {Nothing}
      BY <2>1
    <2>3. /\ resultCh' \in Seq(Answers \union {Nothing})
          /\ Len(resultCh') = Len(resultCh) - 1 /\ Len(resultCh) \in Nat
      <3>1. /\ Tail(resultCh) \in Seq(Answers \union {Nothing})
            /\ Len(Tail(resultCh)) = Len(resultCh) - 1 /\ Len(resultCh) \in Nat
        BY <2>1
      <3> QED
        BY <1>3, <3>1 DEF ReceiveResult
    <2>4. Len(resultCh') <= 1
      <3>1. Len(resultCh) <= 1
        BY DEF FlowTypes
      <3> QED
        BY <2>3, <3>1
    <2>5. flow' = "shutdown" /\ outcome' \in Answers \union {Nothing}
      BY <1>3, <2>2 DEF ReceiveResult
    <2> QED
      BY <2>4, <2>5 DEF FlowTypes
  <1>4. CASE \E r \in Requests : Report(r)
    <2>1. PICK r \in Requests : Report(r)
      BY <1>4
    <2>2. resultCh = <<>> /\ resultCh' = Append(resultCh, request[r])
      BY <2>1 DEF Report
    <2>3. request[r] \in Answers \union {Nothing} /\ resultCh \in Seq(Answers \union {Nothing})
      BY DEF FlowInv
    <2>4. Len(resultCh') <= 1
      BY <2>2, <2>3
    <2>5. UNCHANGED <<flow, outcome>>
      BY <2>1 DEF Report
    <2> QED
      BY <2>4, <2>5 DEF FlowTypes
  <1> QED
    BY <1>1, <1>2, <1>3, <1>4 DEF FlowStep, ProcessEnds

LEMMA NextFlowTypes == FlowInv /\ FlowTypes /\ [Next]_vars => FlowTypes'
  BY FlowTypesStep, NextKeepsFlow DEF Next, FlowTypes, oauthVars

LEMMA WindowTypesStep == WindowTypes /\ [Next]_vars => WindowTypes'
  <1> SUFFICES ASSUME WindowTypes, [Next]_vars PROVE WindowTypes'
    OBVIOUS
  <1>1. CASE WindowStep \/ QuitForUpdate
    BY <1>1 DEF WindowTypes, WindowStep, SetMinimizeToTray, Minimise, Restore, WatcherLooks,
       WatcherHides, CloseWindow, TrayQuit, QuitForUpdate, BeforeClose
  <1>2. CASE ~WindowStep /\ ~QuitForUpdate
    <2>1. UNCHANGED windowVars
      BY <1>2 DEF Next, CheckForUpdate, UpdateStep, Download, DownloadFails, Extract,
         LaunchScript, LaunchFails, Script, WaitForExit, CopyItem, InstallPackage,
         RemoveItem, StartProcess, FlowStep, ProcessEnds, vars
    <2> QED
      BY <2>1 DEF WindowTypes, windowVars
  <1> QED
    BY <1>1, <1>2

LEMMA PackageTypesStep == PackageTypes /\ [Next]_vars => PackageTypes'
  BY DEF PackageTypes, Next, WindowStep, SetMinimizeToTray, Minimise, Restore, WatcherLooks,
     WatcherHides, CloseWindow, TrayQuit, CheckForUpdate, UpdateStep, Download, DownloadFails,
     Extract, LaunchScript, LaunchFails, QuitForUpdate, Script, WaitForExit, CopyItem,
     InstallPackage, RemoveItem, StartProcess, FlowStep, ProcessEnds, updateVars, vars

(* Every variable has its type: one report at most is in the channel, only *)
(* files the updater names are left about, and the program on disk is one  *)
(* of the versions there are.                                              *)
THEOREM DesktopTypeCorrect == Spec => []TypeOK
  <1> DEFINE I == FlowInv /\ UpdateInv /\ FlowTypes /\ WindowTypes /\ PackageTypes
  <1>1. Init => I
    BY FlowInitial, UpdateInitial, TypesInitial DEF Init
  <1>2. I /\ [Next]_vars => I'
    BY NextFlow, NextFlowTypes, NextUpdate, WindowTypesStep, PackageTypesStep
  <1>3. I => TypeOK
    BY TypesEnough
  <1> QED
    BY <1>1, <1>2, <1>3, PTL DEF Spec
-----------------------------------------------------------------------------
(* What is in the channel is on the page of the browser that brought it.   *)
ReportHasItsPage ==
  resultCh # <<>> =>
    \E q \in Requests : handler[q] = "returned" /\ request[q] = Head(resultCh)

LEMMA PageEnough == ReportHasItsPage => WaitsOnlyForAnother
  BY DEF ReportHasItsPage, WaitsOnlyForAnother, Page

LEMMA PageStep == FlowInv /\ FlowTypes /\ ReportHasItsPage /\ [Next]_vars => ReportHasItsPage'
  <1> SUFFICES ASSUME FlowInv, FlowTypes, ReportHasItsPage, [Next]_vars
               PROVE  ReportHasItsPage'
    OBVIOUS
  <1>1. CASE Start \/ Timeout \/ Cancelled \/ ShutdownReturns \/ UNCHANGED oauthVars
    BY <1>1 DEF ReportHasItsPage, Start, Timeout, Cancelled, ShutdownReturns, oauthVars
  <1>2. ASSUME NEW r \in Requests, HandleCallback(r) PROVE ReportHasItsPage'
    <2>1. PICK answer : request' = [request EXCEPT ![r] = answer]
      BY <1>2 DEF HandleCallback
    <2>2. /\ handler[r] = "none" /\ handler' = [handler EXCEPT ![r] = "reporting"]
          /\ resultCh' = resultCh
      BY <1>2 DEF HandleCallback
    <2>3. \A q \in Requests \ {r} : handler'[q] = handler[q] /\ request'[q] = request[q]
      BY <2>1, <2>2 DEF FlowInv
    <2> QED
      BY <2>2, <2>3 DEF ReportHasItsPage
  <1>3. CASE ReceiveResult
    <2>1. resultCh \in Seq(Answers \union {Nothing}) /\ resultCh # <<>> /\ Len(resultCh) <= 1
      BY <1>3 DEF ReceiveResult, FlowInv, FlowTypes
    <2>2. Tail(resultCh) = <<>>
      BY <2>1
    <2> QED
      BY <1>3, <2>2 DEF ReceiveResult, ReportHasItsPage
  <1>4. ASSUME NEW r \in Requests, Report(r) PROVE ReportHasItsPage'
    <2>1. /\ resultCh = <<>> /\ resultCh' = Append(resultCh, request[r])
          /\ handler' = [handler EXCEPT ![r] = "returned"] /\ request' = request
      BY <1>4 DEF Report
    <2>2. Head(resultCh') = request[r]
      BY <2>1
    <2>3. handler'[r] = "returned"
      BY <2>1 DEF FlowInv
    <2> QED
      BY <2>1, <2>2, <2>3 DEF ReportHasItsPage
  <1>5. CASE WindowStep \/ CheckForUpdate \/ UpdateStep \/ Script \/ UNCHANGED vars
    <2>1. UNCHANGED oauthVars
      BY <1>5, NextKeepsFlow
    <2> QED
      BY <1>1, <2>1
  <1> QED
    BY <1>1, <1>2, <1>3, <1>4, <1>5 DEF Next, FlowStep, ProcessEnds

(* For any number of browsers: a handler that waits for the channel waits  *)
(* for another's, so that one that comes alone waits for nobody, even if   *)
(* the flow has been given up (oauth.go:50, oauth.go:100-125).             *)
THEOREM NobodyWaitsOnItself == Spec => []WaitsOnlyForAnother
  <1> DEFINE I == FlowInv /\ FlowTypes /\ ReportHasItsPage
  <1>1. Init => I
    BY FlowInitial, TypesInitial DEF Init, OAuthInit, ReportHasItsPage
  <1>2. I /\ [Next]_vars => I'
    BY NextFlow, NextFlowTypes, PageStep
  <1>3. I => WaitsOnlyForAnother
    BY PageEnough
  <1> QED
    BY <1>1, <1>2, <1>3, PTL DEF Spec
=============================================================================
