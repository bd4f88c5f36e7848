------------------------------- MODULE Desktop -------------------------------
(***************************************************************************)
(* The app on the desktop: its window and tray icon (app.go), connecting   *)
(* through a browser (OAuthFlow), looking for a new version and replacing  *)
(* itself by it (updater).  One process is followed from the moment it     *)
(* shows its window, and the script that outlives it to the moment it has  *)
(* started the next.                                                       *)
(*                                                                         *)
(* Windows, Wails and PowerShell are external: a program that runs cannot  *)
(* be overwritten, a failed command does not end the script, and every way *)
(* to quit, wailsrt.Quit as well, asks beforeClose first.                  *)
(***************************************************************************)
EXTENDS OAuthFlow

CONSTANTS
  Versions,  \* a set of versions, [number, suffix]: "1.10.0-beta" is
             \* [number |-> <<1, 10, 0>>, suffix |-> "beta"]
  Current,   \* main.Version, the version that runs
  NoRelease  \* no release

ASSUME VersionAssumption ==
  /\ Current \in Versions /\ NoRelease \notin Versions
  /\ \A v \in Versions : v.number \in [1 .. 3 -> Nat]

VARIABLES
  app,         \* "running" or "gone"
  window,      \* "shown", "minimised" or "hidden"
  icon,        \* the tray icon is there
  minimizeToTray,  \* cfg.MinimizeToTray
  watcher,     \* where minimizeWatcher is
  offer,       \* the release the update banner offers
  update,      \* where ApplyUpdate is
  script,      \* where the script is
  package,     \* what the release is downloaded as: "program", "zip" or "msi"
  tmp,         \* the temporary files there are
  exe,         \* the version of the program on disk
  next,        \* the version the script has started
  waitedOut,   \* history: the script has stopped waiting for the app
  denied       \* history: the copy was denied, though no program ran

windowVars == <<app, window, icon, minimizeToTray, watcher>>
updateVars == <<offer, update, script, package, tmp, exe, next, waitedOut, denied>>
vars == <<oauthVars, windowVars, updateVars>>

Init ==
  /\ OAuthInit
  /\ app = "running" /\ window = "shown" /\ icon = TRUE /\ watcher = "asleep"
  /\ minimizeToTray \in BOOLEAN
  /\ offer = NoRelease /\ update = "idle" /\ script = "none" /\ package = Nothing /\ tmp = {}
  /\ exe = Current /\ next = NoRelease
  /\ waitedOut = FALSE /\ denied = FALSE

Running == app = "running"
-----------------------------------------------------------------------------
(* The window and the tray.                                                *)

SetMinimizeToTray ==
  /\ Running
  /\ minimizeToTray' = ~minimizeToTray
  /\ UNCHANGED <<app, window, icon, watcher, oauthVars, updateVars>>

(* The player.                                                             *)
Minimise ==
  /\ Running /\ window = "shown"
  /\ window' = "minimised"
  /\ UNCHANGED <<app, icon, minimizeToTray, watcher, oauthVars, updateVars>>

(* From the taskbar, or by Show on the tray's menu.                        *)
Restore ==
  /\ Running
  /\ window = "minimised" \/ (window = "hidden" /\ icon)
  /\ window' = "shown"
  /\ UNCHANGED <<app, icon, minimizeToTray, watcher, oauthVars, updateVars>>

(* minimizeWatcher reads the setting, lets go of the lock ...              *)
WatcherLooks ==
  /\ Running /\ watcher = "asleep" /\ minimizeToTray
  /\ watcher' = "hides"
  /\ UNCHANGED <<app, window, icon, minimizeToTray, oauthVars, updateVars>>

(* ... and hides the window if it is minimised.                            *)
WatcherHides ==
  /\ Running /\ watcher = "hides"
  /\ window' = IF window = "minimised" THEN "hidden" ELSE window
  /\ watcher' = "asleep"
  /\ UNCHANGED <<app, icon, minimizeToTray, oauthVars, updateVars>>

(* beforeClose: the window is hidden, or the app ends, and the icon with   *)
(* it; a flow that waits has its context ended.                            *)
BeforeClose ==
  IF minimizeToTray
  THEN window' = "hidden" /\ UNCHANGED app
  ELSE app' = "gone" /\ UNCHANGED window

CloseWindow ==
  /\ Running /\ window # "hidden"
  /\ BeforeClose
  /\ UNCHANGED <<icon, minimizeToTray, watcher, oauthVars, updateVars>>

(* Quit on the tray's menu.                                                *)
TrayQuit ==
  /\ Running /\ icon
  /\ icon' = FALSE
  /\ BeforeClose
  /\ UNCHANGED <<minimizeToTray, watcher, oauthVars, updateVars>>
-----------------------------------------------------------------------------
(* Looking for a new version.                                              *)

\* Mutant: later by one part, whatever the parts before it are.
LaterInSomePart(v, w) == \E i \in 1 .. 3 : v.number[i] > w.number[i]

(* compareVersions: numbers are compared from the left, suffixes dropped.  *)
Later(v, w) ==
  \E i \in 1 .. 3 : /\ v.number[i] > w.number[i]
                    /\ \A j \in 1 .. i - 1 : v.number[j] = w.number[j]

(* A check, every four hours, may find a release later than the one        *)
(* offered; one found while an update is under way waits for its end.      *)
CheckForUpdate ==
  /\ Running /\ update = "idle"
  /\ \E v \in Versions : Later(v, Current) /\ offer' = v
  /\ UNCHANGED <<update, script, package, tmp, exe, next, waitedOut, denied,
                 oauthVars, windowVars>>
-----------------------------------------------------------------------------
(* ApplyUpdate, called once by the banner and once more if it fails.       *)

(* The banner's releases are programs and installers; ApplyUpdate takes a  *)
(* zip file as well.                                                       *)
Download ==
  /\ Running /\ window = "shown" /\ offer # NoRelease /\ update = "idle"
  /\ package' \in {"program", "zip", "msi"}
  /\ tmp' = {package'}
  /\ update' = "downloading"
  /\ UNCHANGED <<offer, script, exe, next, waitedOut, denied, oauthVars, windowVars>>

DownloadFails ==
  /\ Running /\ update = "downloading"
  /\ tmp' = {} /\ update' = "idle"
  /\ UNCHANGED <<offer, script, package, exe, next, waitedOut, denied,
                 oauthVars, windowVars>>

(* What the script is given.                                               *)
Payload == IF package = "zip" THEN "program" ELSE package

\* Mutant: the zip file is left where it is.
ExtractAndKeep ==
  /\ Running /\ update = "downloading"
  /\ tmp' = tmp \union {Payload} /\ update' = "downloaded"
  /\ UNCHANGED <<offer, script, package, exe, next, waitedOut, denied,
                 oauthVars, windowVars>>

(* The program is taken out of the zip file, if it is one.                 *)
Extract ==
  /\ Running /\ update = "downloading"
  /\ tmp' = {Payload} /\ update' = "downloaded"
  /\ UNCHANGED <<offer, script, package, exe, next, waitedOut, denied,
                 oauthVars, windowVars>>

LaunchScript ==
  /\ Running /\ update = "downloaded"
  /\ script' = "waiting" /\ update' = "launched"
  /\ UNCHANGED <<offer, package, tmp, exe, next, waitedOut, denied,
                 oauthVars, windowVars>>

LaunchFails ==
  /\ Running /\ update = "downloaded"
  /\ tmp' = {} /\ update' = "idle"
  /\ UNCHANGED <<offer, script, package, exe, next, waitedOut, denied,
                 oauthVars, windowVars>>

(* quitFn, of which nobody asks what came of it.                           *)
QuitForUpdate ==
  /\ Running /\ update = "launched"
  /\ BeforeClose
  /\ update' = "done"
  /\ UNCHANGED <<icon, minimizeToTray, watcher, offer, script, package,
                 tmp, exe, next, waitedOut, denied, oauthVars>>
-----------------------------------------------------------------------------
(* The script (external: PowerShell).                                      *)

\* Mutant: the wait has no limit.
WaitForExitForever ==
  /\ script = "waiting" /\ Payload = "program"
  /\ ~Running
  /\ script' = "copying"
  /\ UNCHANGED <<offer, update, package, tmp, exe, next, waitedOut, denied,
                 oauthVars, windowVars>>

(* WaitForExit(30000): the process has ended, or the 30 seconds have, which*)
(* a process that does quit does not need.                                 *)
WaitForExit ==
  /\ script = "waiting" /\ Payload = "program"
  /\ ~Running \/ update = "done"
  /\ script' = "copying"
  /\ waitedOut' = Running
  /\ UNCHANGED <<offer, update, package, tmp, exe, next, denied,
                 oauthVars, windowVars>>

(* It fails if the program still runs, and where the system denies it, as  *)
(* in a directory the player may not write to: the script goes on.         *)
CopyItem ==
  /\ script = "copying"
  /\ \/ ~Running /\ exe' = offer /\ UNCHANGED denied
     \/ Running /\ UNCHANGED <<exe, denied>>
     \/ ~Running /\ denied' = TRUE /\ UNCHANGED exe
  /\ script' = "removing"
  /\ UNCHANGED <<offer, update, package, tmp, next, waitedOut,
                 oauthVars, windowVars>>

(* The installer waits for no process, and may fail or be refused.         *)
InstallPackage ==
  /\ script = "waiting" /\ Payload = "msi"
  /\ exe' \in {exe, offer}
  /\ script' = "removing"
  /\ UNCHANGED <<offer, update, package, tmp, next, waitedOut, denied,
                 oauthVars, windowVars>>

RemoveItem ==
  /\ script = "removing"
  /\ tmp' = tmp \ {Payload}
  /\ script' = "starting"
  /\ UNCHANGED <<offer, update, package, exe, next, waitedOut, denied,
                 oauthVars, windowVars>>

StartProcess ==
  /\ script = "starting"
  /\ next' = exe
  /\ script' = "ended"
  /\ UNCHANGED <<offer, update, package, tmp, exe, waitedOut, denied,
                 oauthVars, windowVars>>

Script == WaitForExit \/ CopyItem \/ InstallPackage \/ RemoveItem \/ StartProcess
-----------------------------------------------------------------------------
(* ConnectToSCBridge and its flow.                                         *)
FlowStep ==
  /\ Running
  /\ \/ Start \/ ReceiveResult \/ Timeout \/ ShutdownReturns
     \/ \E r \in Requests : HandleCallback(r) \/ Report(r)
  /\ UNCHANGED <<windowVars, updateVars>>

ProcessEnds == ~Running /\ Cancelled /\ UNCHANGED <<windowVars, updateVars>>

WindowStep ==
  \/ SetMinimizeToTray \/ Minimise \/ Restore \/ WatcherLooks \/ WatcherHides
  \/ CloseWindow \/ TrayQuit

UpdateStep ==
  \/ Download \/ DownloadFails \/ Extract \/ LaunchScript \/ LaunchFails
  \/ QuitForUpdate

Next == WindowStep \/ CheckForUpdate \/ UpdateStep \/ Script \/ FlowStep \/ ProcessEnds

(* The timeout of the flow comes, the handlers run, the script runs.       *)
Spec ==
  /\ Init /\ [][Next]_vars
  /\ WF_vars(Running /\ (ReceiveResult \/ Timeout \/ ShutdownReturns)
             /\ UNCHANGED <<windowVars, updateVars>>)
  /\ \A r \in Requests :
       WF_vars(Running /\ Report(r) /\ UNCHANGED <<windowVars, updateVars>>)
  /\ WF_vars(QuitForUpdate) /\ WF_vars(Script)
-----------------------------------------------------------------------------
TypeOK ==
  /\ flow \in {"off", "waiting", "shutdown", "returned"}
  /\ \A r \in Requests : /\ request[r] \in Answers \union {Nothing}
                         /\ handler[r] \in {"none", "reporting", "returned"}
  /\ Len(resultCh) <= 1
  /\ outcome \in Answers \union {Nothing, "timed out", "cancelled"}
  /\ app \in {"running", "gone"} /\ window \in {"shown", "minimised", "hidden"}
  /\ icon \in BOOLEAN /\ minimizeToTray \in BOOLEAN /\ watcher \in {"asleep", "hides"}
  /\ offer \in Versions \union {NoRelease}
  /\ update \in {"idle", "downloading", "downloaded", "launched", "done"}
  /\ script \in {"none", "waiting", "copying", "removing", "starting", "ended"}
  /\ tmp \subseteq {"program", "zip", "msi"}
  /\ exe \in Versions /\ next \in Versions \union {NoRelease}
  /\ waitedOut \in BOOLEAN /\ denied \in BOOLEAN

(* A browser that is the only one to come is answered, also by a flow that *)
(* has been given up (oauth.go:50, oauth.go:100-125).                      *)
OnlyRequestIsAnswered ==
  \A r \in Requests :
    handler[r] = "reporting" ~>
      \/ handler[r] = "returned" \/ ~Running
      \/ \E q \in Requests \ {r} : handler[q] # "none"

(* A flow ends although no browser comes (oauth.go:86-97).                 *)
FlowEnds == flow = "waiting" ~> (flow = "returned" \/ ~Running)

(* v is a version before w, by the first number they differ in.            *)
Earlier(v, w) ==
  \/ v.number[1] < w.number[1]
  \/ v.number[1] = w.number[1] /\ v.number[2] < w.number[2]
  \/ /\ v.number[1] = w.number[1] /\ v.number[2] = w.number[2]
     /\ v.number[3] < w.number[3]

(* An update never starts an earlier version.  It starts a process beside  *)
(* the one it replaces only if that one did not go in time; and if it did  *)
(* go in time, the old version again only if the system denied the copy    *)
(* (selfupdate.go:98-122, updater.go:97-132).                              *)
UpdateGoesForward ==
  next # NoRelease =>
    /\ ~Earlier(next, Current)
    /\ Payload = "program" /\ ~waitedOut => ~Running /\ (next = offer \/ denied)

(* No file of an update is left when the banner may try again, nor when    *)
(* the script has ended (selfupdate.go:57-82, selfupdate.go:114-117).      *)
NothingIsLeft == update = "idle" \/ script = "ended" => tmp = {}

(* A script that was started comes to its end and starts a process, be the *)
(* app's own end refused or not (selfupdate.go:99-122).                    *)
UpdateEnds == update = "launched" ~> next # NoRelease
=============================================================================
