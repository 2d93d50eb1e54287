----------------------------- MODULE ChromeLaunch -----------------------------
(***************************************************************************)
(* Browsers launched on one profile directory: chrome.Launch with its      *)
(* clean and CDP paths (internal/infra/chrome), the goroutine of           *)
(* manager.Open or the command profile open around it (save, then the      *)
(* deferred cancel), and the Chrome processes.  os/exec stops a cancelled  *)
(* Chrome from a goroutine of its own, whether Launch still waits or has   *)
(* returned, as long as hamzad lives.                                      *)
(*                                                                         *)
(* Launch itself asks nobody whether a Chrome runs on the directory.  The  *)
(* manager does for the sessions of its dashboard; that commands take      *)
(* turns, with each other and with the dashboard, is up to who calls them  *)
(* (Overlap).                                                              *)
(***************************************************************************)
EXTENDS Naturals

CONSTANTS Launches,
          Commands,    \* the launches of profile open, a process each; the others are
                       \* sessions of a dashboard
          Cdp,         \* the commands with a --cdp-port (all ask for the same port)
          Overlap,     \* commands run beside others and beside the dashboard
          NumOverrides,\* how many overrides the profile needs
          None

ASSUME LaunchAssumption ==
  /\ Commands \subseteq Launches /\ Cdp \subseteq Commands
  /\ Overlap \in BOOLEAN
  /\ NumOverrides \in Nat
  /\ None \notin Launches

VARIABLES
  pc,        \* where Launch, or the goroutine around it, is
  cancelled, \* launchCtx is cancelled
  chrome,    \* the process of the launch; "hung" does not answer SIGTERM
  lock,      \* SingletonLock: the launch whose Chrome made it, or None
  port,      \* the launch whose Chrome listens on the debugging port, or None
  relay,     \* the relay of the launch is up
  target,    \* the Chrome the launch's DevTools session is on, or None
  applied,   \* overrides in force in that session, and reverted when it ends
  loaded     \* the start URL has been requested by the page (kept for DevTools launches)

vars == <<pc, cancelled, chrome, lock, port, relay, target, applied, loaded>>

Stages == {"idle", "clear", "relay", "start", "endpoint", "dress", "wait",
           "return", "save", "closing", "done", "abandon", "left"}
Live(l) == chrome[l] \in {"starting", "up", "quitting", "hung"}
InLaunch(l) == pc[l] \notin {"idle", "closing", "done", "left"}

\* Launches that do not run at the same time: those of a dashboard's sessions, and
\* all of them when commands take turns.
Apart(k, l) == k # l /\ (Overlap => k \notin Commands /\ l \notin Commands)

\* hamzad has left the Chrome of this launch to itself: it is gone, or launchCDP has
\* returned without waiting.
Left(l) == pc[l] \in {"abandon", "left"}
Abandoned(l) == Left(l) /\ Live(l)

Init ==
  /\ pc = [l \in Launches |-> "idle"]
  /\ cancelled = [l \in Launches |-> FALSE]
  /\ chrome = [l \in Launches |-> "none"]
  /\ lock = None
  /\ port = None
  /\ relay = [l \in Launches |-> FALSE]
  /\ target = [l \in Launches |-> None]
  /\ applied = [l \in Launches |-> 0]
  /\ loaded = [l \in Launches |-> FALSE]

Goto(l, stage) == pc' = [pc EXCEPT ![l] = stage]
Step(l, from, to) == pc[l] = from /\ Goto(l, to)

\* client.Close, or the end of the connection: Chrome reverts the lot.
Detach(l) ==
  /\ target' = [target EXCEPT ![l] = None]
  /\ applied' = [applied EXCEPT ![l] = 0]

-----------------------------------------------------------------------------
(* Launch *)

\* Manager.Open has found no session of the profile in progress; a command asks
\* nobody, and runs alone only if its user sees to it.
Enter(l) ==
  /\ \A k \in Launches : Apart(k, l) => ~InLaunch(k)
  /\ Step(l, "idle", "clear")
  /\ UNCHANGED <<cancelled, chrome, lock, port, relay, target, applied, loaded>>

\* Wrong on purpose, as every ...Mutant below: the stale lock stays.
ClearSingletonLocksMutant(l) ==
  /\ Step(l, "clear", "relay")
  /\ UNCHANGED <<cancelled, chrome, lock, port, relay, target, applied, loaded>>

\* "Only one browser ever owns a profile dir, so any lock we find is stale".
ClearSingletonLocks(l) ==
  /\ Step(l, "clear", "relay")
  /\ lock' = None
  /\ UNCHANGED <<cancelled, chrome, port, relay, target, applied, loaded>>

\* proxyForLaunch: the profile is direct, its relay starts, or it does not.
ProxyForLaunch(l) ==
  /\ \/ Step(l, "relay", "start") /\ \E up \in BOOLEAN : relay' = [relay EXCEPT ![l] = up]
     \/ Step(l, "relay", "return") /\ UNCHANGED relay
  /\ UNCHANGED <<cancelled, chrome, lock, port, target, applied, loaded>>

\* cmd.Start; it refuses when the context is already cancelled.
Start(l) ==
  /\ ~cancelled[l]
  /\ Step(l, "start", IF l \in Cdp THEN "endpoint" ELSE "wait")
  /\ chrome' = [chrome EXCEPT ![l] = "starting"]
  /\ UNCHANGED <<cancelled, lock, port, relay, target, applied, loaded>>

StartFails(l) ==
  /\ Step(l, "start", "return")
  /\ UNCHANGED <<cancelled, chrome, lock, port, relay, target, applied, loaded>>

\* waitForEndpoint, Dial and AttachToPage reach whoever listens on the port.
Attach(l) ==
  /\ port # None
  /\ Step(l, "endpoint", "dress")
  /\ target' = [target EXCEPT ![l] = port]
  /\ UNCHANGED <<cancelled, chrome, lock, port, relay, applied, loaded>>

\* The next Emulation.* command, in the order of overrides.
Override(l) ==
  /\ pc[l] = "dress" /\ target[l] # None /\ applied[l] < NumOverrides
  /\ applied' = [applied EXCEPT ![l] = @ + 1]
  /\ UNCHANGED <<pc, cancelled, chrome, lock, port, relay, target, loaded>>

\* Page.navigate, the last command: from now on cmd.Wait.
Navigate(l) ==
  /\ target[l] # None /\ applied[l] = NumOverrides
  /\ Step(l, "dress", "wait")
  /\ loaded' = [loaded EXCEPT ![target[l]] = TRUE]
  /\ UNCHANGED <<cancelled, chrome, lock, port, relay, target, applied>>

\* The endpoint timeout, a refused command, a dropped connection, the context:
\* launchCDP returns the error without waiting for the Chrome it started.
OverridesFail(l) ==
  /\ pc[l] \in {"endpoint", "dress"}
  /\ Goto(l, "abandon")
  /\ Detach(l)
  /\ UNCHANGED <<cancelled, chrome, lock, port, relay, loaded>>

\* Gives up waiting when the context is done.
WaitMutant(l) ==
  /\ chrome[l] = "gone" \/ cancelled[l]
  /\ Step(l, "wait", "return")
  /\ Detach(l)
  /\ UNCHANGED <<cancelled, chrome, lock, port, relay, loaded>>

\* cmd.Wait returns, the deferred client.Close ends the DevTools session.
Wait(l) ==
  /\ chrome[l] = "gone"
  /\ Step(l, "wait", "return")
  /\ Detach(l)
  /\ UNCHANGED <<cancelled, chrome, lock, port, relay, loaded>>

\* The deferred closeRelay; Launch is over.  A session packs the bundle, and so does a
\* command unless Launch returned an error: then openAction returns it, and hamzad ends,
\* with os/exec's goroutine and whatever Chrome it was to stop.
CloseRelay(l) ==
  /\ \/ Step(l, "return", "save")
     \/ l \in Commands /\ Step(l, "return", "closing")
     \/ Step(l, "abandon", "left")
  /\ relay' = [relay EXCEPT ![l] = FALSE]
  /\ UNCHANGED <<cancelled, chrome, lock, port, target, applied, loaded>>

\* PackBundle is done and the status final: the profile can be opened again.
Saved(l) ==
  /\ Step(l, "save", "closing")
  /\ UNCHANGED <<cancelled, chrome, lock, port, relay, target, applied, loaded>>

\* The deferred cancel of the goroutine, or of openAction.
DeferredCancel(l) ==
  /\ Step(l, "closing", "done")
  /\ cancelled' = [cancelled EXCEPT ![l] = TRUE]
  /\ UNCHANGED <<chrome, lock, port, relay, target, applied, loaded>>

\* Close, CloseAll or Ctrl-C.
Cancel(l) ==
  /\ pc[l] \notin {"idle", "done", "left"} /\ ~cancelled[l]
  /\ cancelled' = [cancelled EXCEPT ![l] = TRUE]
  /\ UNCHANGED <<pc, chrome, lock, port, relay, target, applied, loaded>>

\* hamzad is killed, hung up on or told to terminate: only os.Interrupt is caught, and
\* nothing ties Chrome's life to its parent's.
HamzadEnds(l) ==
  /\ pc[l] \notin {"idle", "done", "left"}
  /\ Goto(l, "left")
  /\ relay' = [relay EXCEPT ![l] = FALSE]
  /\ Detach(l)
  /\ UNCHANGED <<cancelled, chrome, lock, port, loaded>>

-----------------------------------------------------------------------------
(* Chrome *)

\* ProcessSingleton: Chrome owns the directory, listens, and opens the URL of
\* its command line.
TakeLock(l) ==
  /\ chrome[l] = "starting" /\ lock = None
  /\ chrome' = [chrome EXCEPT ![l] = "up"]
  /\ lock' = l
  /\ port' = IF l \in Cdp /\ port = None THEN l ELSE port
  /\ UNCHANGED <<pc, cancelled, relay, target, applied, loaded>>

\* Someone's lock is there: "Opening in existing browser session.", and exit.
HandOff(l) ==
  /\ chrome[l] = "starting" /\ lock # None
  /\ chrome' = [chrome EXCEPT ![l] = "gone"]
  /\ UNCHANGED <<pc, cancelled, lock, port, relay, target, applied, loaded>>

\* cleanArgs ends with the start URL on both paths: the first page requests it.
LoadStartURL(l) ==
  /\ l \in Cdp /\ chrome[l] = "up" /\ ~loaded[l]
  /\ loaded' = [loaded EXCEPT ![l] = TRUE]
  /\ UNCHANGED <<pc, cancelled, chrome, lock, port, relay, target, applied>>

\* The process ends, and the DevTools sessions on it.
Gone(l) ==
  /\ chrome' = [chrome EXCEPT ![l] = "gone"]
  /\ port' = IF port = l THEN None ELSE port
  /\ target' = [k \in Launches |-> IF target[k] = l THEN None ELSE target[k]]
  /\ applied' = [k \in Launches |-> IF target[k] = l THEN 0 ELSE applied[k]]

\* The window is closed, or the SIGTERM answered: Chrome flushes and cleans up.
Quit(l) ==
  /\ chrome[l] \in {"up", "quitting"}
  /\ Gone(l)
  /\ lock' = IF lock = l THEN None ELSE lock
  /\ UNCHANGED <<pc, cancelled, relay, loaded>>

\* A crash leaves the lock behind.
Crash(l) ==
  /\ Live(l)
  /\ Gone(l)
  /\ UNCHANGED <<pc, cancelled, lock, relay, loaded>>

\* cmd.Cancel: SIGTERM, to a Chrome that may be past answering.
Terminate(l) ==
  /\ cancelled[l] /\ pc[l] # "left" /\ chrome[l] \in {"starting", "up"}
  /\ \E answer \in {"quitting", "hung"} : chrome' = [chrome EXCEPT ![l] = answer]
  /\ UNCHANGED <<pc, cancelled, lock, port, relay, target, applied, loaded>>

\* No WaitDelay: a Chrome that does not answer is waited for.
KillMutant(l) ==
  /\ chrome[l] = "quitting" /\ pc[l] # "left"
  /\ Gone(l)
  /\ UNCHANGED <<pc, cancelled, lock, relay, loaded>>

\* shutdownGrace (WaitDelay) is over: SIGKILL.
Kill(l) ==
  /\ chrome[l] \in {"quitting", "hung"} /\ pc[l] # "left"
  /\ Gone(l)
  /\ UNCHANGED <<pc, cancelled, lock, relay, loaded>>

-----------------------------------------------------------------------------
LaunchStep(l) ==
  \/ Enter(l) \/ ClearSingletonLocks(l) \/ ProxyForLaunch(l) \/ Start(l) \/ StartFails(l)
  \/ Attach(l) \/ Override(l) \/ Navigate(l) \/ OverridesFail(l) \/ Wait(l)
  \/ CloseRelay(l) \/ Saved(l) \/ DeferredCancel(l)

ChromeStep(l) ==
  \/ TakeLock(l) \/ HandOff(l) \/ LoadStartURL(l) \/ Quit(l) \/ Crash(l)
  \/ Terminate(l) \/ Kill(l)

Next == \E l \in Launches : LaunchStep(l) \/ Cancel(l) \/ HamzadEnds(l) \/ ChromeStep(l)

Spec == Init /\ [][Next]_vars

\* Launch is not stuck in the scheduler, a Chrome starts up or exits, and os/exec
\* delivers its signals while hamzad lives (neither Terminate nor Kill is enabled
\* afterwards); nobody need close the window, nothing need be cancelled, hamzad need
\* not end.  The grace timer runs out, so Kill is fair although Chrome may ignore
\* SIGTERM.
FairSpec ==
  /\ Spec
  /\ \A l \in Launches :
       /\ WF_vars(ClearSingletonLocks(l) \/ ProxyForLaunch(l) \/ Start(l) \/ StartFails(l)
                  \/ Wait(l) \/ CloseRelay(l) \/ Saved(l) \/ DeferredCancel(l))
       /\ WF_vars(Navigate(l) \/ Override(l) \/ OverridesFail(l))
       /\ WF_vars(TakeLock(l) \/ HandOff(l))
       /\ WF_vars(Terminate(l))
       /\ WF_vars(Kill(l))

-----------------------------------------------------------------------------
\* Types of the variables.
TypeOK ==
  /\ pc \in [Launches -> Stages]
  /\ cancelled \in [Launches -> BOOLEAN]
  /\ chrome \in [Launches -> {"none", "starting", "up", "quitting", "hung", "gone"}]
  /\ lock \in Launches \cup {None}
  /\ port \in Launches \cup {None}
  /\ relay \in [Launches -> BOOLEAN]
  /\ target \in [Launches -> Launches \cup {None}]
  /\ applied \in [Launches -> 0..NumOverrides]
  /\ loaded \in [Launches -> BOOLEAN]

\* No bundle is packed while the Chrome of the same launch writes, whatever is
\* cancelled, crashes, hangs or is killed (chrome.go:150-161, manager.go:245-260): an
\* open that leaves its Chrome behind does not save (open.go:74).
PackedAfterItsBrowser == \A l \in Launches : pc[l] = "save" => ~Live(l)

\* Two sessions of a dashboard never have browsers on one directory, and none packs
\* while another's writes; with Overlap = FALSE this is said of commands too
\* (chrome.go:95).  Not so for a Chrome that hamzad left to itself, because it was
\* killed or because launchCDP's overrides failed: the next launch clears its lock and
\* starts another beside it.
OneBrowserPerDir ==
  \A k, l \in Launches :
    Apart(k, l) =>
      /\ Live(k) /\ Live(l) => Abandoned(k) \/ Abandoned(l)
      /\ pc[k] = "save" /\ Live(l) => Abandoned(l)

\* The invariants of the runs in one.
LaunchSafety == TypeOK /\ PackedAfterItsBrowser /\ OneBrowserPerDir

\* A relay is taken down after the browser that was pointed at it, or by the end of
\* the hamzad that left that browser (its traffic then has no way out).
RelayOutlivesBrowser ==
  [][\A l \in Launches : relay[l] /\ ~relay'[l] => ~Live(l) \/ Left(l)']_vars

\* A lock left by a crash or a kill never keeps the next session from opening
\* (chrome.go:88-96): a Chrome hands over to another one only when it was abandoned
\* itself, or finds the lock of one that was or that runs beside it.
NoHandOff ==
  [][\A l \in Launches :
       HandOff(l) => Abandoned(l) \/ Left(lock) \/ ~Apart(lock, l)]_vars

\* What no step of a launch does, in one.
LaunchSteps == RelayOutlivesBrowser /\ NoHandOff

\* A cancelled session ends, whether or not Chrome answers (stop.go:13-19), from
\* whatever point of the launch it was cancelled at, unless hamzad itself ends first:
\* killed, or with the error of launchCDP's overrides, the cancel's own among them.
CancelEnds ==
  \A l \in Launches : cancelled[l] ~> (pc[l] = "done" /\ ~Live(l)) \/ pc[l] = "left"
=============================================================================
