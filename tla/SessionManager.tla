--------------------------- MODULE SessionManager ---------------------------
(***************************************************************************)
(* The dashboard process of hamzad: internal/infra/manager/manager.go with *)
(* the part of internal/cmd/tui that drives it (tui.go run, model.go).     *)
(*                                                                         *)
(* Processes: one goroutine per Open call (the tea.Cmd of openCmd), which  *)
(* turns into the wg.Go goroutine that blocks in chrome.Launch; the Bubble *)
(* Tea loop, which handles one message at a time; and the shutdown path of *)
(* run (the deferred CloseAll).  A session object is identified with the   *)
(* Open call that allocates it, so Sessions bounds the number of Opens.    *)
(*                                                                         *)
(* mu is the manager's mutex.  Only emit is split at the lock (its caller  *)
(* then blocks in program.Send); every other critical section is one step  *)
(* guarded by the mutex being free.                                        *)
(***************************************************************************)
EXTENDS Naturals, FiniteSets

CONSTANTS Profiles, \* profile names shown in the dashboard
          Sessions, \* session objects, one for each call of Open
          None      \* no session / mutex free / no row

ASSUME NoneAssumption == None \notin Sessions /\ None \notin Profiles

VARIABLES
  pc,        \* pc[s]: where the goroutine of s is
  owner,     \* owner[s]: the profile s was opened for
  current,   \* current[p]: m.sessions[p]
  status,    \* status[s]: session.status
  hasCancel, \* hasCancel[s]: session.cancel # nil
  ctxDone,   \* ctxDone[s]: launchCtx of s is cancelled
  launchErr, \* launchErr[s]: chrome.Launch returned an error
  snap,      \* snap[s]: the snapshot emit read and has not delivered yet
  mu,        \* holder of Manager.mu inside emit, or None
  ui,        \* what the Bubble Tea loop is doing
  uiTodo,    \* the profiles its current message still has to handle
  rows,      \* rows[p]: the SESSION column
  phase,     \* progress of tui.run towards process exit
  cancels,   \* the cancel functions CloseAll collected
  hasBundle, \* hasBundle[p]: data/<p>.tar.age exists
  localDir,  \* localDir[p]: data/<p>/ exists
  unsaved    \* unsaved[p]: browsing data of p against its bundle

vars == <<pc, owner, current, status, hasCancel, ctxDone, launchErr, snap, mu,
          ui, uiTodo, rows, phase, cancels, hasBundle, localDir, unsaved>>

callVars == <<owner, current>>
ctxVars == <<hasCancel, ctxDone, launchErr>>
uiVars == <<ui, uiTodo, rows>>
exitVars == <<phase, cancels>>
diskVars == <<hasBundle, localDir, unsaved>>

-----------------------------------------------------------------------------
Statuses == {"starting", "running", "closed", "error"}

\* Wrong on purpose, as every ...Mutant below: a session counts once it is running.
ActiveMutant(st) == st = "running"

\* Status.Active: the session occupies its profile's data directory.
Active(st) == st \in {"starting", "running"}

\* Stages of an Open call, in the order of the code.
Announcing == {"announceStarting", "announceRunning", "announceFailed", "announceEnd"}
Opening == {"announceStarting", "restore", "unpacking", "build", "failing", "ready"}
Tracked == {"launch", "browsing", "save", "packing", "finish", "announceEnd"}
Stages == {"idle", "called", "spawn", "returned", "done"}
            \cup Announcing \cup Opening \cup Tracked

\* The stages in which a session reads or writes data/<profile>/ or decides to.
Occupying == {"announceStarting", "restore", "unpacking", "build", "failing", "ready",
              "announceRunning", "spawn", "launch", "browsing", "save", "packing", "finish"}

\* Where a goroutine continues when the observer has returned.
AfterNotify(stage) ==
  CASE stage = "announceStarting" -> "restore"
    [] stage = "announceRunning"  -> "spawn"
    [] stage = "announceFailed"   -> "returned"
    [] stage = "announceEnd"      -> "done"

Alive == phase # "exited"

\* The session the manager lists for p is live.
Busy(p) == current[p] # None /\ Active(status[current[p]])

ShownMutant(p) == IF current[p] = None THEN None ELSE status[current[p]]

\* What Get reports for p, as the SESSION column prints it ("-" without one).
Shown(p) == IF current[p] = None THEN "-" ELSE status[current[p]]

Init ==
  /\ pc = [s \in Sessions |-> "idle"]
  /\ owner = [s \in Sessions |-> None]
  /\ current = [p \in Profiles |-> None]
  /\ status = [s \in Sessions |-> "starting"]
  /\ hasCancel = [s \in Sessions |-> FALSE]
  /\ ctxDone = [s \in Sessions |-> FALSE]
  /\ launchErr = [s \in Sessions |-> FALSE]
  /\ snap = [s \in Sessions |-> None]
  /\ mu = None
  /\ ui = "ready" /\ uiTodo = {} /\ rows = [p \in Profiles |-> "-"]
  /\ phase = "running" /\ cancels = {}
  /\ hasBundle \in [Profiles -> BOOLEAN]
  /\ localDir \in [Profiles -> BOOLEAN]
  /\ unsaved = [p \in Profiles |-> "saved"]

Goto(s, stage) == pc' = [pc EXCEPT ![s] = stage]

-----------------------------------------------------------------------------
(* Open, up to its return *)

\* The loop runs openCmd on a goroutine of its own.
KeyOpen(p, s) ==
  /\ phase = "running" /\ ui = "ready"
  /\ pc[s] = "idle"
  /\ Goto(s, "called")
  /\ owner' = [owner EXCEPT ![s] = p]
  /\ UNCHANGED <<current, status, snap, mu, ctxVars, uiVars, exitVars, diskVars>>

\* ErrAlreadyRunning: the profile has a live session.
OpenRejected(s) ==
  /\ Alive /\ pc[s] = "called" /\ mu = None
  /\ Busy(owner[s])
  /\ Goto(s, "returned")
  /\ UNCHANGED <<status, snap, mu, callVars, ctxVars, uiVars, exitVars, diskVars>>

OpenClaim(s) ==
  /\ Alive /\ pc[s] = "called" /\ mu = None
  /\ ~Busy(owner[s])
  /\ current' = [current EXCEPT ![owner[s]] = s]
  /\ status' = [status EXCEPT ![s] = "starting"]
  /\ Goto(s, "announceStarting")
  /\ UNCHANGED <<owner, snap, mu, ctxVars, uiVars, exitVars, diskVars>>

\* emit, under the lock: the snapshot is of whatever session the NAME has now.
EmitRead(s) ==
  /\ Alive /\ pc[s] \in Announcing
  /\ snap[s] = None /\ mu = None
  /\ mu' = s
  /\ snap' = [snap EXCEPT ![s] = status[current[owner[s]]]]
  /\ UNCHANGED <<pc, status, callVars, ctxVars, uiVars, exitVars, diskVars>>

EmitUnlock(s) ==
  /\ Alive /\ mu = s
  /\ mu' = None
  /\ UNCHANGED <<pc, status, snap, callVars, ctxVars, uiVars, exitVars, diskVars>>

\* program.Send: a rendezvous with the loop, or dropped once the program ended.
\* The last announcement is followed by the goroutine's deferred cancel.
Notify(s) ==
  /\ Alive /\ snap[s] # None /\ mu # s
  /\ \/ /\ phase = "running" /\ ui = "ready"
        /\ ui' = "refreshing" /\ uiTodo' = Profiles
     \/ /\ phase # "running"
        /\ UNCHANGED <<ui, uiTodo>>
  /\ snap' = [snap EXCEPT ![s] = None]
  /\ Goto(s, AfterNotify(pc[s]))
  /\ ctxDone' = [ctxDone EXCEPT ![s] = @ \/ pc[s] = "announceEnd"]
  /\ UNCHANGED <<status, hasCancel, launchErr, mu, rows, callVars, exitVars, diskVars>>

\* restore: no bundle, or local data wins.
RestoreSkip(s) ==
  /\ Alive /\ pc[s] = "restore"
  /\ ~hasBundle[owner[s]] \/ localDir[owner[s]]
  /\ Goto(s, "build")
  /\ UNCHANGED <<status, snap, mu, callVars, ctxVars, uiVars, exitVars, diskVars>>

\* UnpackBundle opened and decrypted the header, and recreated the directory.
RestoreBegin(s) ==
  /\ Alive /\ pc[s] = "restore"
  /\ hasBundle[owner[s]] /\ ~localDir[owner[s]]
  /\ localDir' = [localDir EXCEPT ![owner[s]] = TRUE]
  /\ Goto(s, "unpacking")
  /\ UNCHANGED <<status, snap, mu, hasBundle, unsaved, callVars, ctxVars, uiVars, exitVars>>

\* No identity, wrong key or bad header: the directory is not touched.
RestoreFail(s) ==
  /\ Alive /\ pc[s] = "restore"
  /\ hasBundle[owner[s]] /\ ~localDir[owner[s]]
  /\ Goto(s, "failing")
  /\ UNCHANGED <<status, snap, mu, callVars, ctxVars, uiVars, exitVars, diskVars>>

RestoreEnd(s) ==
  /\ Alive /\ pc[s] = "unpacking"
  /\ \E next \in {"build", "failing"} : Goto(s, next)
  /\ UNCHANGED <<status, snap, mu, callVars, ctxVars, uiVars, exitVars, diskVars>>

\* buildOptions: reads the profile, decrypts the proxy.
Build(s) ==
  /\ Alive /\ pc[s] = "build"
  /\ \E next \in {"ready", "failing"} : Goto(s, next)
  /\ UNCHANGED <<status, snap, mu, callVars, ctxVars, uiVars, exitVars, diskVars>>

\* fail looks the session up again, by name.
Fail(s) ==
  /\ Alive /\ pc[s] = "failing" /\ mu = None
  /\ LET c == current[owner[s]] IN
       /\ status' = [status EXCEPT ![c] = "error"]
       /\ hasCancel' = [hasCancel EXCEPT ![c] = FALSE]
  /\ Goto(s, "announceFailed")
  /\ UNCHANGED <<ctxDone, launchErr, snap, mu, callVars, uiVars, exitVars, diskVars>>

\* launchCtx is created; the session becomes cancellable and running.
Run(s) ==
  /\ Alive /\ pc[s] = "ready" /\ mu = None
  /\ hasCancel' = [hasCancel EXCEPT ![s] = TRUE]
  /\ status' = [status EXCEPT ![s] = "running"]
  /\ Goto(s, "announceRunning")
  /\ UNCHANGED <<ctxDone, launchErr, snap, mu, callVars, uiVars, exitVars, diskVars>>

\* wg.Go: from here on CloseAll waits for the session; Open returns nil.
Spawn(s) ==
  /\ Alive /\ pc[s] = "spawn"
  /\ Goto(s, "launch")
  /\ UNCHANGED <<status, snap, mu, callVars, ctxVars, uiVars, exitVars, diskVars>>

-----------------------------------------------------------------------------
(* The session goroutine *)

\* exec.Cmd.Start refuses a context that is already done.
ChromeStarts(s) ==
  /\ Alive /\ pc[s] = "launch" /\ ~ctxDone[s]
  /\ Goto(s, "browsing")
  /\ localDir' = [localDir EXCEPT ![owner[s]] = TRUE]
  /\ unsaved' = [unsaved EXCEPT ![owner[s]] = "dirty"]
  /\ UNCHANGED <<status, snap, mu, hasBundle, callVars, ctxVars, uiVars, exitVars>>

\* No browser, relay or process; the bookmarks may have been seeded before that.
LaunchFails(s) ==
  /\ Alive /\ pc[s] = "launch"
  /\ launchErr' = [launchErr EXCEPT ![s] = TRUE]
  /\ \E seeded \in BOOLEAN : localDir' = [localDir EXCEPT ![owner[s]] = @ \/ seeded]
  /\ Goto(s, "save")
  /\ UNCHANGED <<status, snap, mu, hasCancel, ctxDone, hasBundle, unsaved, callVars, uiVars, exitVars>>

\* As the CLI does: a crashed browser is not saved.
WindowClosesMutant(s) ==
  /\ Alive /\ pc[s] = "browsing" /\ ~ctxDone[s]
  /\ \E failed \in BOOLEAN :
       /\ launchErr' = [launchErr EXCEPT ![s] = failed]
       /\ Goto(s, IF failed THEN "finish" ELSE "save")
  /\ UNCHANGED <<status, snap, mu, hasCancel, ctxDone, callVars, uiVars, exitVars, diskVars>>

\* The user closes the last window (Wait returns nil) or Chrome crashes.
WindowCloses(s) ==
  /\ Alive /\ pc[s] = "browsing" /\ ~ctxDone[s]
  /\ \E failed \in BOOLEAN : launchErr' = [launchErr EXCEPT ![s] = failed]
  /\ Goto(s, "save")
  /\ UNCHANGED <<status, snap, mu, hasCancel, ctxDone, callVars, uiVars, exitVars, diskVars>>

\* SIGTERM on cancellation, SIGKILL after shutdownGrace: Chrome is gone.
ChromeStopped(s) ==
  /\ Alive /\ pc[s] = "browsing" /\ ctxDone[s]
  /\ Goto(s, "save")
  /\ UNCHANGED <<status, snap, mu, callVars, ctxVars, uiVars, exitVars, diskVars>>

\* save, not configured or without a directory to pack: nothing is written.
SaveSkip(s) ==
  /\ Alive /\ pc[s] = "save"
  /\ unsaved' = [unsaved EXCEPT ![owner[s]] = IF @ = "dirty" THEN "kept" ELSE @]
  /\ Goto(s, "finish")
  /\ UNCHANGED <<status, snap, mu, hasBundle, localDir, callVars, ctxVars, uiVars, exitVars>>

SaveBegin(s) ==
  /\ Alive /\ pc[s] = "save" /\ localDir[owner[s]]
  /\ Goto(s, "packing")
  /\ UNCHANGED <<status, snap, mu, callVars, ctxVars, uiVars, exitVars, diskVars>>

\* PackBundle renames the new bundle into place, or fails; save drops the error.
SaveEnd(s) ==
  /\ Alive /\ pc[s] = "packing"
  /\ \/ /\ hasBundle' = [hasBundle EXCEPT ![owner[s]] = TRUE]
        /\ unsaved' = [unsaved EXCEPT ![owner[s]] = "saved"]
     \/ /\ unsaved' = [unsaved EXCEPT ![owner[s]] = IF @ = "dirty" THEN "kept" ELSE @]
        /\ UNCHANGED hasBundle
  /\ Goto(s, "finish")
  /\ UNCHANGED <<status, snap, mu, localDir, callVars, ctxVars, uiVars, exitVars>>

\* The final status is not announced.
FinishMutant(s) ==
  /\ Alive /\ pc[s] = "finish" /\ mu = None
  /\ status' = [status EXCEPT ![s] = IF launchErr[s] /\ ~ctxDone[s] THEN "error" ELSE "closed"]
  /\ hasCancel' = [hasCancel EXCEPT ![s] = FALSE]
  /\ Goto(s, "done")
  /\ UNCHANGED <<ctxDone, launchErr, snap, mu, callVars, uiVars, exitVars, diskVars>>

Finish(s) ==
  /\ Alive /\ pc[s] = "finish" /\ mu = None
  /\ status' = [status EXCEPT ![s] = IF launchErr[s] /\ ~ctxDone[s] THEN "error" ELSE "closed"]
  /\ hasCancel' = [hasCancel EXCEPT ![s] = FALSE]
  /\ Goto(s, "announceEnd")
  /\ UNCHANGED <<ctxDone, launchErr, snap, mu, callVars, uiVars, exitVars, diskVars>>

-----------------------------------------------------------------------------
(* The Bubble Tea loop *)

KeyClose(p) ==
  /\ phase = "running" /\ ui = "ready"
  /\ ui' = "closing" /\ uiTodo' = {p}
  /\ UNCHANGED <<pc, status, snap, mu, rows, callVars, ctxVars, exitVars, diskVars>>

\* Close waits for the session it closes.
CloseMutant(p) ==
  /\ phase = "running" /\ ui = "closing" /\ p \in uiTodo /\ mu = None
  /\ current[p] # None => pc[current[p]] \notin Tracked
  /\ LET c == current[p] IN
       ctxDone' = [s \in Sessions |-> ctxDone[s] \/ (s = c /\ hasCancel[s])]
  /\ ui' = "ready" /\ uiTodo' = {}
  /\ UNCHANGED <<pc, status, snap, mu, hasCancel, launchErr, rows, callVars, exitVars, diskVars>>

\* Manager.Close.  The cancel function it reads belongs to one session object,
\* so calling it after the unlock and not under it makes no difference.
Close(p) ==
  /\ phase = "running" /\ ui = "closing" /\ p \in uiTodo /\ mu = None
  /\ LET c == current[p] IN
       ctxDone' = [s \in Sessions |-> ctxDone[s] \/ (s = c /\ hasCancel[s])]
  /\ ui' = "ready" /\ uiTodo' = {}
  /\ UNCHANGED <<pc, status, snap, mu, hasCancel, launchErr, rows, callVars, exitVars, diskVars>>

Tick ==
  /\ phase = "running" /\ ui = "ready"
  /\ ui' = "refreshing" /\ uiTodo' = Profiles
  /\ UNCHANGED <<pc, status, snap, mu, rows, callVars, ctxVars, exitVars, diskVars>>

\* refreshRows takes the mutex once for each profile (rowFor calls Get).
RefreshRow(p) ==
  /\ phase = "running" /\ ui = "refreshing" /\ p \in uiTodo /\ mu = None
  /\ rows' = [rows EXCEPT ![p] = Shown(p)]
  /\ uiTodo' = uiTodo \ {p}
  /\ ui' = IF uiTodo' = {} THEN "ready" ELSE "refreshing"
  /\ UNCHANGED <<pc, status, snap, mu, callVars, ctxVars, exitVars, diskVars>>

-----------------------------------------------------------------------------
(* Leaving the program *)

KeyQuit ==
  /\ phase = "running" /\ ui = "ready"
  /\ phase' = "quitting"
  /\ UNCHANGED <<pc, status, snap, mu, cancels, callVars, ctxVars, uiVars, diskVars>>

\* CloseAll: collect the cancel functions under the lock, then call them.
CloseAllCancel ==
  /\ phase = "quitting" /\ mu = None
  /\ cancels' = {s \in Sessions : hasCancel[s] /\ \E p \in Profiles : current[p] = s}
  /\ ctxDone' = [s \in Sessions |-> ctxDone[s] \/ s \in cancels']
  /\ phase' = "waiting"
  /\ UNCHANGED <<pc, status, snap, mu, hasCancel, launchErr, callVars, uiVars, diskVars>>

CloseAllWaitMutant ==
  /\ phase = "waiting"
  /\ phase' = "drained"
  /\ UNCHANGED <<pc, status, snap, mu, cancels, callVars, ctxVars, uiVars, diskVars>>

\* wg.Wait returns when no session goroutine is left.
CloseAllWait ==
  /\ phase = "waiting"
  /\ \A s \in Sessions : pc[s] \notin Tracked
  /\ phase' = "drained"
  /\ UNCHANGED <<pc, status, snap, mu, cancels, callVars, ctxVars, uiVars, diskVars>>

\* main returns: every remaining goroutine dies, a running Chrome does not.
Exit ==
  /\ phase = "drained"
  /\ phase' = "exited"
  /\ UNCHANGED <<pc, status, snap, mu, cancels, callVars, ctxVars, uiVars, diskVars>>

Exited == ~Alive /\ UNCHANGED vars

-----------------------------------------------------------------------------
\* The steps a goroutine takes on its own.
GoStep(s) ==
  \/ OpenRejected(s) \/ OpenClaim(s) \/ EmitRead(s) \/ EmitUnlock(s)
  \/ RestoreSkip(s) \/ RestoreBegin(s) \/ RestoreFail(s) \/ RestoreEnd(s)
  \/ Build(s) \/ Fail(s) \/ Run(s) \/ Spawn(s)
  \/ ChromeStarts(s) \/ LaunchFails(s) \/ ChromeStopped(s)
  \/ SaveSkip(s) \/ SaveBegin(s) \/ SaveEnd(s) \/ Finish(s)

LoopStep == \E p \in Profiles : Close(p) \/ RefreshRow(p)

ShutdownStep == CloseAllCancel \/ CloseAllWait \/ Exit

Next ==
  \/ \E s \in Sessions : GoStep(s) \/ Notify(s) \/ WindowCloses(s)
  \/ \E p \in Profiles, s \in Sessions : KeyOpen(p, s)
  \/ \E p \in Profiles : KeyClose(p)
  \/ Tick \/ LoopStep \/ KeyQuit \/ ShutdownStep \/ Exited

Spec == Init /\ [][Next]_vars

\* Goroutines and the loop keep running; a blocked Send is served in turn by
\* the loop's channel.  Nobody has to press a key or close a window.
Fairness ==
  /\ \A s \in Sessions : WF_vars(GoStep(s)) /\ SF_vars(Notify(s))
  /\ WF_vars(LoopStep)
  /\ WF_vars(ShutdownStep)

FairSpec == Spec /\ Fairness

-----------------------------------------------------------------------------
\* Types of the variables.
TypeOK ==
  /\ pc \in [Sessions -> Stages]
  /\ owner \in [Sessions -> Profiles \cup {None}]
  /\ current \in [Profiles -> Sessions \cup {None}]
  /\ status \in [Sessions -> Statuses]
  /\ hasCancel \in [Sessions -> BOOLEAN]
  /\ ctxDone \in [Sessions -> BOOLEAN]
  /\ launchErr \in [Sessions -> BOOLEAN]
  /\ snap \in [Sessions -> Statuses \cup {None}]
  /\ mu \in Sessions \cup {None}
  /\ ui \in {"ready", "closing", "refreshing"}
  /\ uiTodo \subseteq Profiles
  /\ rows \in [Profiles -> Statuses \cup {"-"}]
  /\ phase \in {"running", "quitting", "waiting", "drained", "exited"}
  /\ cancels \subseteq Sessions
  /\ hasBundle \in [Profiles -> BOOLEAN]
  /\ localDir \in [Profiles -> BOOLEAN]
  /\ unsaved \in [Profiles -> {"saved", "dirty", "kept"}]

\* Two sessions never work on one profile's data directory: restoring, browsing
\* and packing of a profile never overlap with those of another Open of it
\* (Status.Active is checked and the new session inserted in one critical section).
OneSessionPerDir ==
  \A s, t \in Sessions :
    /\ pc[s] \in Occupying /\ pc[t] \in Occupying
    /\ owner[s] = owner[t]
    => s = t

\* When the dashboard says a profile is not live, no browsing data of it is
\* waiting to be packed: the bundle was saved, or the save was given up and the
\* data is on disk (the goroutine saves before it publishes the final status).
NotLiveMeansSaved ==
  \A p \in Profiles : ~Busy(p) => unsaved[p] # "dirty"

\* Once nothing is left to announce for a profile and the loop is idle, its row
\* shows the session's status: no state change is missed although events are
\* read by name, outside the step that made the change, and may overtake each other.
RowsSettle ==
  \A p \in Profiles :
    /\ phase = "running" /\ ui = "ready"
    /\ \A s \in Sessions : owner[s] = p => pc[s] \notin Announcing
    => rows[p] = Shown(p)

\* After CloseAll has waited, none of the browsers it cancelled is still open
\* and none of those sessions left unsaved data behind.
DrainClosesCollected ==
  phase \in {"drained", "exited"} =>
    \A s \in cancels :
      /\ pc[s] # "browsing"
      /\ current[owner[s]] = s => unsaved[owner[s]] # "dirty"

\* The end of a session is final: no late step of another call (fail looks its
\* session up by name) makes a closed or failed session live again or rewrites its outcome.
EndIsFinal ==
  [][\A s \in Sessions :
       pc[s] # "called" /\ status[s] \in {"closed", "error"} => status'[s] = status[s]]_vars

\* A session that was cancelled ends: the goroutine gets through save, the final
\* status and its announcement, whatever the loop is doing meanwhile.
CancelledEnds ==
  \A s \in Sessions : ctxDone[s] ~> (pc[s] = "done" \/ ~Alive)

\* The loop always comes back for the next message: its calls into the manager
\* never wait for a goroutine that itself waits for the loop (emit notifies outside mu).
LoopResponsive == ui # "ready" ~> ui = "ready"

\* Neither the sessions nor the dashboard hang.
NothingHangs == CancelledEnds /\ LoopResponsive

\* The lease on p's directory as this module keeps it.
WorkOf(stage) ==
  CASE stage = "unpacking" -> "restoring"
    [] stage = "browsing"  -> "browsing"
    [] stage = "packing"   -> "saving"

Working == {"unpacking", "browsing", "packing"}
HolderOf(p) == IF Busy(p) THEN current[p] ELSE None
WorkIn(p) == {WorkOf(pc[s]) : s \in {t \in Sessions : owner[t] = p /\ pc[t] \in Working}}

Lease == INSTANCE ProfileLease WITH
  holder <- [p \in Profiles |-> HolderOf(p)],
  work <- [p \in Profiles |-> WorkIn(p)],
  debt <- [p \in Profiles |-> unsaved[p] = "dirty"]

\* The manager implements the lease: its map of sessions and their statuses is a
\* sound lock on data directories, although no step of it is ever called a lock.
LeaseSpec == Lease!Spec
=============================================================================
