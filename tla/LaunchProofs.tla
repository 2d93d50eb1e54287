---------------------------- MODULE LaunchProofs ----------------------------
(***************************************************************************)
(* Launching browsers: ChromeLaunch on one profile's directory, RelayStart *)
(* for the relays that the launches of all profiles bring up, and          *)
(* BrowserInstall for the cache of the builds they launch.                 *)
(*                                                                         *)
(* The safety properties of ChromeLaunch hold for any number of launches,  *)
(* with or without a debugging port, and for any number of overrides.      *)
(* Nothing in Launch looks whether a Chrome is running: that the directory *)
(* has one browser rests on where Launch may be while its Chrome lives,    *)
(* which the inductive invariant states, and on the calls of Launch that   *)
(* are Apart, a dashboard's sessions or commands that take turns, coming   *)
(* one after the other.  A Chrome that hamzad left, by ending or by an     *)
(* error, is outside that.                                                 *)
(*                                                                         *)
(* Those of RelayStart hold for any launches and ports, and for any number *)
(* of ports other programs take.  A start gives its port up between        *)
(* choosing and using it, so its choice alone promises nothing: the        *)
(* inductive invariant says exactly in which stages the port it chose is   *)
(* the one it listens on.                                                  *)
(*                                                                         *)
(* Those of BrowserInstall hold for any processes, versions and kills: how *)
(* far an install is says what its temp directory holds.                   *)
(***************************************************************************)
EXTENDS ChromeLaunch, RelayStart, BrowserInstall, TLAPS

\* Launches that are Apart do not run at the same time.
OneLaunch == \A k, l \in Launches : Apart(k, l) => ~(InLaunch(k) /\ InLaunch(l))

\* Its Chrome exists from Start on, and lives while Launch waits for it, or after
\* hamzad left it.
ChromeWithin ==
  \A l \in Launches :
    /\ pc[l] \in {"idle", "clear", "relay", "start"} => chrome[l] = "none"
    /\ Live(l) => pc[l] \in {"endpoint", "dress", "wait"} \/ Left(l)

\* A lock is made by a Chrome that is up, or was.
LockMade == \A l \in Launches : chrome[l] \in {"none", "starting"} => lock # l

\* Past ClearSingletonLocks, a lock is the launch's own, that of a Chrome hamzad left,
\* or of one that runs beside it.
LockFresh ==
  \A l \in Launches :
    pc[l] \in {"relay", "start", "endpoint", "dress", "wait"} /\ lock # None =>
      lock = l \/ Left(lock) \/ ~Apart(lock, l)

\* The inductive invariant.
IInv == TypeOK /\ OneLaunch /\ ChromeWithin /\ LockMade /\ LockFresh

-----------------------------------------------------------------------------
\* No launch has begun, and there is no lock.
LEMMA InitIInv == Init => IInv
BY LaunchAssumption
DEF Init, IInv, TypeOK, Stages, OneLaunch, Apart, InLaunch, ChromeWithin, Live, LockMade, LockFresh

\* What a Chrome leaves when it goes.
LEMMA GoneFacts ==
  ASSUME TypeOK, NEW l \in Launches, Gone(l)
  PROVE  /\ chrome' = [chrome EXCEPT ![l] = "gone"]
         /\ port' \in Launches \cup {None}
         /\ target' \in [Launches -> Launches \cup {None}]
         /\ applied' \in [Launches -> 0..NumOverrides]
  BY LaunchAssumption DEF Gone, TypeOK

\* Every step keeps the variables in their types.
LEMMA TypeStep ==
  ASSUME TypeOK, Next
  PROVE  TypeOK'
<1> USE LaunchAssumption DEF TypeOK, Goto, Step, Stages
<1>1. ASSUME NEW l \in Launches, Enter(l) \/ ClearSingletonLocks(l) \/ StartFails(l) PROVE TypeOK'
  BY <1>1 DEF Enter, ClearSingletonLocks, StartFails
<1>2. ASSUME NEW l \in Launches, ProxyForLaunch(l) PROVE TypeOK'
  BY <1>2 DEF ProxyForLaunch
<1>3. ASSUME NEW l \in Launches, Start(l) PROVE TypeOK'
  BY <1>3 DEF Start
<1>4. ASSUME NEW l \in Launches, Attach(l) PROVE TypeOK'
  BY <1>4 DEF Attach
<1>5. ASSUME NEW l \in Launches, Override(l) PROVE TypeOK'
  BY <1>5 DEF Override
<1>6. ASSUME NEW l \in Launches, Navigate(l) PROVE TypeOK'
  BY <1>6 DEF Navigate
<1>7. ASSUME NEW l \in Launches, OverridesFail(l) \/ Wait(l) PROVE TypeOK'
  BY <1>7 DEF OverridesFail, Wait, Detach
<1>8. ASSUME NEW l \in Launches, CloseRelay(l) \/ Saved(l) PROVE TypeOK'
  BY <1>8 DEF CloseRelay, Saved
<1>9. ASSUME NEW l \in Launches, DeferredCancel(l) \/ Cancel(l) PROVE TypeOK'
  BY <1>9 DEF DeferredCancel, Cancel
<1>10. ASSUME NEW l \in Launches, TakeLock(l) \/ HandOff(l) PROVE TypeOK'
  BY <1>10 DEF TakeLock, HandOff
<1>11. ASSUME NEW l \in Launches, LoadStartURL(l) \/ Terminate(l) PROVE TypeOK'
  BY <1>11 DEF LoadStartURL, Terminate
<1>12. ASSUME NEW l \in Launches, Quit(l) \/ Crash(l) \/ Kill(l) PROVE TypeOK'
  <2>1. lock' \in Launches \cup {None}
    BY <1>12 DEF Quit, Crash, Kill
  <2>2. /\ Gone(l)
        /\ UNCHANGED <<pc, cancelled, relay, loaded>>
    BY <1>12 DEF Quit, Crash, Kill
  <2>3. QED
    BY <2>1, <2>2, GoneFacts
<1>13. ASSUME NEW l \in Launches, HamzadEnds(l) PROVE TypeOK'
  BY <1>13 DEF HamzadEnds, Detach
<1>14. QED
  BY <1>1, <1>2, <1>3, <1>4, <1>5, <1>6, <1>7, <1>8, <1>9, <1>10, <1>11, <1>12, <1>13
  DEF Next, LaunchStep, ChromeStep

\* A step of Launch moves one launch from one stage to the next, and starts a
\* Chrome only in Start.
LEMMA LaunchKeeps ==
  ASSUME IInv, NEW l \in Launches, LaunchStep(l)
  PROVE  OneLaunch' /\ ChromeWithin' /\ LockMade' /\ LockFresh'
<1> USE LaunchAssumption DEF IInv, TypeOK, Goto, Step, Stages
<1> DEFINE Goal == OneLaunch' /\ ChromeWithin' /\ LockMade' /\ LockFresh'
<1> USE DEF OneLaunch, InLaunch, ChromeWithin, Live, Left, LockMade, LockFresh
<1>0. \A j, k \in Launches : Apart(j, k) => j # k /\ Apart(k, j)
  BY DEF Apart
<1>1. CASE Enter(l)
  <2>1. \A k \in Launches : Apart(k, l) => pc[k] \in {"idle", "closing", "done", "left"}
    BY <1>1 DEF Enter
  <2>2. /\ pc' = [pc EXCEPT ![l] = "clear"] /\ pc[l] = "idle"
        /\ UNCHANGED <<chrome, lock>>
    BY <1>1 DEF Enter
  <2>3. QED
    BY <1>0, <2>1, <2>2
<1>2. CASE ClearSingletonLocks(l)
  BY <1>2 DEF ClearSingletonLocks
<1>3. CASE Start(l)
  BY <1>3 DEF Start
<1>4. CASE \/ ProxyForLaunch(l) \/ StartFails(l) \/ Attach(l) \/ Override(l) \/ Navigate(l)
           \/ OverridesFail(l) \/ Wait(l) \/ CloseRelay(l) \/ Saved(l) \/ DeferredCancel(l)
  <2>1. PICK to \in Stages :
          /\ pc' = [pc EXCEPT ![l] = to]
          /\ \/ to = pc[l]
             \/ pc[l] = "relay" /\ to \in {"start", "return"}
             \/ pc[l] = "start" /\ to = "return"
             \/ pc[l] = "endpoint" /\ to \in {"dress", "abandon"}
             \/ pc[l] = "dress" /\ to \in {"wait", "abandon"}
             \/ pc[l] = "wait" /\ to = "return" /\ chrome[l] = "gone"
             \/ pc[l] = "return" /\ to \in {"save", "closing"}
             \/ pc[l] = "abandon" /\ to = "left"
             \/ pc[l] = "save" /\ to = "closing"
             \/ pc[l] = "closing" /\ to = "done"
    <3>1. CASE Override(l)
      BY <3>1 DEF Override
    <3>2. CASE ~Override(l)
      BY <1>4, <3>2
      DEF ProxyForLaunch, StartFails, Attach, Navigate, OverridesFail, Wait, CloseRelay, Saved,
          DeferredCancel
    <3>3. QED
      BY <3>1, <3>2
  <2>2. UNCHANGED <<chrome, lock>>
    BY <1>4
    DEF ProxyForLaunch, StartFails, Attach, Override, Navigate, OverridesFail, Wait, CloseRelay,
        Saved, DeferredCancel
  <2>3. OneLaunch' /\ ChromeWithin'
    BY <2>1, <2>2
  <2>4. LockMade' /\ LockFresh'
    BY <2>1, <2>2
  <2>5. QED
    BY <2>3, <2>4
<1>5. QED
  BY <1>1, <1>2, <1>3, <1>4 DEF LaunchStep

\* A step of a Chrome takes the lock while it is free, and never comes to life.
LEMMA ChromeKeeps ==
  ASSUME IInv, NEW l \in Launches, ChromeStep(l)
  PROVE  OneLaunch' /\ ChromeWithin' /\ LockMade' /\ LockFresh'
<1> USE LaunchAssumption DEF IInv, TypeOK
<1>1. /\ pc' = pc
      /\ \A k \in Launches : chrome'[k] = chrome[k] \/ (chrome[k] # "none" /\ chrome'[k] = "gone")
                             \/ (Live(k) /\ chrome'[k] \in {"up", "quitting", "hung"})
  BY GoneFacts DEF ChromeStep, TakeLock, HandOff, LoadStartURL, Quit, Crash, Terminate, Kill, Live
<1>2. OneLaunch' /\ ChromeWithin'
  BY <1>1 DEF OneLaunch, InLaunch, ChromeWithin, Live, Left
<1>7. \A j, k \in Launches : Apart(j, k) => Apart(k, j)
  BY DEF Apart
<1>3. lock' \in {lock, None} \/ (lock' = l /\ Live(l) /\ chrome'[l] = "up")
  BY DEF ChromeStep, TakeLock, HandOff, LoadStartURL, Quit, Crash, Terminate, Kill, Live
<1>4. LockMade'
  BY <1>1, <1>3 DEF LockMade, Live
<1>5. LockFresh'
  <2>1. CASE lock' \in {lock, None}
    BY <1>1, <2>1 DEF LockFresh, Left
  <2>2. CASE lock' = l /\ Live(l)
    BY <1>1, <1>7, <2>2 DEF LockFresh, Left, ChromeWithin, OneLaunch, InLaunch
  <2>3. QED
    BY <1>3, <2>1, <2>2
<1>6. QED
  BY <1>2, <1>4, <1>5

\* A cancelled context moves neither Launch nor its Chrome by itself.
LEMMA CancelKeeps ==
  ASSUME IInv, NEW l \in Launches, Cancel(l)
  PROVE  OneLaunch' /\ ChromeWithin' /\ LockMade' /\ LockFresh'
BY DEF IInv, Cancel, OneLaunch, InLaunch, ChromeWithin, Live, Left, LockMade, LockFresh

\* When hamzad ends, its launch runs no more, and its Chrome is left.
LEMMA EndKeeps ==
  ASSUME IInv, NEW l \in Launches, HamzadEnds(l)
  PROVE  OneLaunch' /\ ChromeWithin' /\ LockMade' /\ LockFresh'
<1>1. /\ pc' = [pc EXCEPT ![l] = "left"] /\ UNCHANGED <<chrome, lock>>
  BY DEF HamzadEnds, Goto
<1>2. QED
  BY <1>1
  DEF IInv, TypeOK, OneLaunch, InLaunch, ChromeWithin, Live, Left, LockMade, LockFresh

\* The invariant reads nothing but the variables.
LEMMA StutterStep == IInv /\ UNCHANGED vars => IInv'
BY DEF IInv, vars, TypeOK, OneLaunch, InLaunch, ChromeWithin, Live, Left, LockMade, LockFresh

\* IInv is inductive.
LEMMA Inductive == IInv /\ [Next]_vars => IInv'
BY TypeStep, LaunchKeeps, ChromeKeeps, CancelKeeps, EndKeeps, StutterStep DEF IInv, Next

\* The inductive invariant holds.
THEOREM Invariance == Spec => []IInv
BY InitIInv, Inductive, PTL DEF Spec

\* Whatever is cancelled, crashes, hangs or is killed: no launch packs while its own
\* Chrome runs, and of launches that are Apart, a dashboard's sessions or commands that
\* take turns, two have browsers on the directory only when hamzad left one to itself
\* (chrome.go, stop.go, open.go:74).
THEOREM LaunchIsSafe == Spec => []LaunchSafety
<1>1. IInv => PackedAfterItsBrowser
  BY DEF IInv, PackedAfterItsBrowser, ChromeWithin, Left
<1>2. IInv => OneBrowserPerDir
  BY DEF IInv, OneBrowserPerDir, OneLaunch, InLaunch, ChromeWithin, Abandoned
<1>3. QED
  BY <1>1, <1>2, Invariance, PTL DEF IInv, LaunchSafety

-----------------------------------------------------------------------------
\* The relay of a launch goes down in CloseRelay or with hamzad, and it comes up, or
\* fails to, before there is a Chrome.
LEMMA RelayStep ==
  ASSUME IInv, Next, NEW l \in Launches, relay[l], ~relay'[l]
  PROVE  ~Live(l) \/ Left(l)'
<1> USE DEF IInv, TypeOK, Step, Goto
<1>1. CASE ProxyForLaunch(l)
  BY <1>1 DEF ProxyForLaunch, ChromeWithin, Live
<1>2. CASE CloseRelay(l)
  BY <1>2 DEF CloseRelay, ChromeWithin, Left
<1>6. CASE HamzadEnds(l)
  BY <1>6 DEF HamzadEnds, Left
<1>3. ASSUME NEW k \in Launches, k # l, ProxyForLaunch(k) \/ CloseRelay(k) \/ HamzadEnds(k)
      PROVE  relay'[l] = relay[l]
  BY <1>3 DEF ProxyForLaunch, CloseRelay, HamzadEnds
<1>4. CASE UNCHANGED relay
  BY <1>4
<1>5. QED
  BY <1>1, <1>2, <1>3, <1>4, <1>6
  DEF Next, LaunchStep, ChromeStep, Enter, ClearSingletonLocks, Start, StartFails, Attach, Override,
      Navigate, OverridesFail, Wait, Saved, DeferredCancel, Cancel, TakeLock, HandOff, LoadStartURL,
      Quit, Crash, Terminate, Kill

\* The lock a starting Chrome finds is not its own, so LockFresh says whose it is.
LEMMA HandOffStep ==
  ASSUME IInv, NEW l \in Launches, HandOff(l)
  PROVE  Abandoned(l) \/ Left(lock) \/ ~Apart(lock, l)
BY DEF IInv, HandOff, LockMade, LockFresh, ChromeWithin, Live, Abandoned

\* No browser loses its relay under it, and no new session hands over to a browser
\* that is not there, unless hamzad left a Chrome or launches run beside each other
\* (launch_cdp.go, chrome.go:91-97).
THEOREM LaunchStepsHold == Spec => LaunchSteps
<1>1. ASSUME IInv, [Next]_vars
      PROVE  [\A l \in Launches : relay[l] /\ ~relay'[l] => ~Live(l) \/ Left(l)']_vars
  BY <1>1, RelayStep
<1>2. ASSUME IInv, [Next]_vars
      PROVE  [\A l \in Launches :
                HandOff(l) => Abandoned(l) \/ Left(lock) \/ ~Apart(lock, l)]_vars
  BY <1>2, HandOffStep
<1>3. QED
  BY <1>1, <1>2, Invariance, PTL DEF Spec, LaunchSteps, RelayOutlivesBrowser, NoHandOff

-----------------------------------------------------------------------------
(* The relays the launches start. *)

Holding == {"reserved", "outbound", "running"}

\* A start listens on the port it chose while it reserves it and from Bind on.
HoldsItsPort ==
  \A s \in Starters : stage[s] \in Holding => chosen[s] \in Ports /\ owner[chosen[s]] = s

\* It has chosen a port while it waits for the registry.
HasChosen ==
  \A s \in Starters : stage[s] \in {"registry", "include", "bind"} => chosen[s] \in Ports

\* And it listens on no other port, nor in any other stage.
HoldsNothingElse ==
  \A s \in Starters, p \in Ports : owner[p] = s => stage[s] \in Holding /\ chosen[s] = p

RegistryHeld == \A s \in Starters : stage[s] = "include" <=> registry = s

\* The inductive invariant of RelayStart.
RelayIInv ==
  /\ RelayTypeOK /\ RaceOnlyAfterAttempts
  /\ HoldsItsPort /\ HasChosen /\ HoldsNothingElse /\ RegistryHeld

-----------------------------------------------------------------------------
\* No start holds a port before it runs.
LEMMA InitRelayIInv == RelayInit => RelayIInv
BY RelayAssumption DEF RelayInit, RelayIInv, RelayTypeOK, StartStages,
       startAttempts, Holding,
    HoldsItsPort, HasChosen, HoldsNothingElse,
    RegistryHeld, RaceOnlyAfterAttempts

\* Listening on a free port takes it from nobody, and adds one owner.
LEMMA ListenFacts ==
  ASSUME RelayTypeOK, NEW p \in Ports, NEW who \in Starters \cup {Nobody, Other},
         Listen(p, who)
  PROVE  /\ owner' \in [Ports -> Starters \cup {Nobody, Other}]
         /\ owner[p] = Nobody /\ owner'[p] = who
         /\ \A q \in Ports : q # p => owner'[q] = owner[q]
  BY DEF Listen, RelayTypeOK

\* Closing a listener frees the ports of its start and no other.
LEMMA StopListeningFacts ==
  ASSUME RelayTypeOK, NEW s \in Starters, StopListening(s)
  PROVE  /\ owner' \in [Ports -> Starters \cup {Nobody, Other}]
         /\ \A q \in Ports : owner'[q] # s
         /\ \A q \in Ports : owner[q] # s => owner'[q] = owner[q]
         /\ \A q \in Ports, t \in Starters : t # s => (owner'[q] = t <=> owner[q] = t)
  BY RelayAssumption DEF StopListening, RelayTypeOK

\* A step of one start leaves the stages of the others.
LEMMA StageFacts ==
  ASSUME RelayTypeOK, NEW s \in Starters,
         NEW from \in StartStages, NEW to \in StartStages, Move(s, from, to)
  PROVE  /\ stage[s] = from /\ stage'[s] = to
         /\ stage' \in [Starters -> StartStages]
         /\ \A t \in Starters : t # s => stage'[t] = stage[t]
  BY DEF Move, RelayTypeOK

-----------------------------------------------------------------------------
\* Which start may listen where: reserving, letting go, binding, ending.
LEMMA PortStep ==
  ASSUME RelayIInv, RelayNext
  PROVE  HoldsItsPort' /\ HasChosen' /\ HoldsNothingElse'
<1> USE RelayAssumption DEF RelayIInv, HoldsItsPort, HasChosen, HoldsNothingElse, Holding,
                                  StartStages
<1> DEFINE Ports1 == HoldsItsPort' /\ HasChosen' /\ HoldsNothingElse'
<1>1. ASSUME NEW s \in Starters, ReservePort(s) PROVE Ports1
  <2>1. PICK p \in Ports : Listen(p, s) /\ chosen' = [chosen EXCEPT ![s] = p]
    BY <1>1 DEF ReservePort
  <2>2. Move(s, "freePort", "reserved")
    BY <1>1 DEF ReservePort
  <2>3. QED
    BY <2>1, <2>2, ListenFacts, StageFacts DEF RelayTypeOK
<1>2. ASSUME NEW s \in Starters, ReleasePort(s) PROVE Ports1
  BY <1>2, StopListeningFacts, StageFacts DEF ReleasePort, RelayTypeOK
<1>3. ASSUME NEW s \in Starters, Bind(s) PROVE Ports1
  <2>1. chosen[s] \in Ports /\ Move(s, "bind", "outbound")
    BY <1>3 DEF Bind, Move
  <2>2. QED
    BY <1>3, <2>1, ListenFacts, StageFacts DEF Bind, RelayTypeOK
<1>4. ASSUME NEW s \in Starters, OutboundFails(s) \/ Close(s) PROVE Ports1
  <2>1. /\ StopListening(s) /\ chosen' = chosen /\ stage'[s] \in {"failed", "closed"}
        /\ \A t \in Starters : t # s => stage'[t] = stage[t]
    BY <1>4, StageFacts DEF OutboundFails, Close, RelayTypeOK, Move
  <2>2. QED
    BY <2>1, StopListeningFacts DEF RelayTypeOK
<1>5. ASSUME NEW s \in Starters,
             \/ StartRelay(s) \/ NoPort(s) \/ FreePortFails(s) \/ LockRegistry(s)
             \/ UnlockRegistry(s) \/ OutboundUp(s) \/ LostRace(s)
      PROVE  Ports1
  <2>1. /\ owner' = owner /\ chosen' = chosen
        /\ \A t \in Starters :
             \/ stage'[t] = stage[t]
             \/ /\ stage[t] \notin Holding
                /\ stage'[t] \notin Holding \cup {"registry", "include", "bind"}
             \/ stage[t] \in {"registry", "include"} /\ stage'[t] \in {"include", "bind"}
             \/ stage[t] = "outbound" /\ stage'[t] = "running"
    BY <1>5 DEF StartRelay, NoPort, FreePortFails, LockRegistry, UnlockRegistry,
                OutboundUp, LostRace, AddrInUse, Move, RelayTypeOK
  <2>2. QED
    BY <2>1
<1>6. ASSUME NEW p \in Ports, OtherTakes(p) \/ OtherLeaves(p) PROVE Ports1
  <2>1. /\ UNCHANGED <<stage, chosen>>
        /\ \A q \in Ports, s \in Starters : owner'[q] = s <=> owner[q] = s
    BY <1>6 DEF OtherTakes, OtherLeaves, Listen, RelayTypeOK
  <2>2. QED
    BY <2>1 DEF RelayTypeOK
<1>7. QED
  BY <1>1, <1>2, <1>3, <1>4, <1>5, <1>6 DEF RelayNext, StartStep

\* The registry is held from LockRegistry to UnlockRegistry and no longer.
LEMMA RegistryStep ==
  ASSUME RelayIInv, RelayNext
  PROVE  RegistryHeld'
<1> USE RelayAssumption DEF RelayIInv, RegistryHeld, StartStages, RelayTypeOK
<1>1. ASSUME NEW s \in Starters, LockRegistry(s) PROVE RegistryHeld'
  BY <1>1 DEF LockRegistry, Move
<1>2. ASSUME NEW s \in Starters, UnlockRegistry(s) PROVE RegistryHeld'
  BY <1>2 DEF UnlockRegistry, Move
<1>3. ASSUME NEW s \in Starters,
             \/ StartRelay(s) \/ ReservePort(s) \/ NoPort(s) \/ FreePortFails(s)
             \/ ReleasePort(s) \/ Bind(s) \/ OutboundUp(s)
             \/ OutboundFails(s) \/ LostRace(s) \/ Close(s)
      PROVE  RegistryHeld'
  <2>1. registry' = registry /\ \A t \in Starters : stage'[t] = "include" <=> stage[t] = "include"
    BY <1>3
    DEF StartRelay, ReservePort, NoPort, FreePortFails, ReleasePort, Bind,
        OutboundUp, OutboundFails, LostRace, Close, AddrInUse, Move
  <2>2. QED
    BY <2>1
<1>4. ASSUME NEW p \in Ports, OtherTakes(p) \/ OtherLeaves(p) PROVE RegistryHeld'
  BY <1>4 DEF OtherTakes, OtherLeaves
<1>5. QED
  BY <1>1, <1>2, <1>3, <1>4 DEF RelayNext, StartStep

\* An address in use is counted when the start tries again or gives up.
LEMMA RetryStep ==
  ASSUME RelayIInv, RelayNext
  PROVE  RaceOnlyAfterAttempts' /\ losses' \in [Starters -> 0..startAttempts]
<1> USE DEF RelayIInv, RaceOnlyAfterAttempts, StartStages, RelayTypeOK,
            startAttempts
<1>1. ASSUME NEW s \in Starters, LostRace(s) \/ NoPort(s)
      PROVE  RaceOnlyAfterAttempts' /\ losses' \in [Starters -> 0..startAttempts]
  <2>1. PICK from \in {"bind", "freePort"} : AddrInUse(s, from)
    BY <1>1 DEF LostRace, NoPort
  <2>2. losses[s] \in 0..2 /\ stage[s] = from
    BY <2>1 DEF AddrInUse, Move
  <2>3. QED
    BY <2>1, <2>2 DEF AddrInUse, Move
<1>2. ASSUME NEW s \in Starters,
             \/ StartRelay(s) \/ ReservePort(s) \/ FreePortFails(s)
             \/ ReleasePort(s) \/ LockRegistry(s) \/ UnlockRegistry(s)
             \/ Bind(s) \/ OutboundUp(s) \/ OutboundFails(s) \/ Close(s)
      PROVE  losses' = losses /\ \A t \in Starters : stage'[t] = "raced" <=> stage[t] = "raced"
  BY <1>2
  DEF StartRelay, ReservePort, FreePortFails, ReleasePort, LockRegistry,
      UnlockRegistry, Bind, OutboundUp,
      OutboundFails, Close, Move
<1>3. ASSUME NEW p \in Ports, OtherTakes(p) \/ OtherLeaves(p)
      PROVE  UNCHANGED <<stage, losses>>
  BY <1>3 DEF OtherTakes, OtherLeaves
<1>4. QED
  BY <1>1, <1>2, <1>3 DEF RelayNext, StartStep

\* Every step keeps the other variables in their types.
LEMMA RelayTypeStep ==
  ASSUME RelayIInv, RelayNext
  PROVE  RelayTypeOK'
<1> USE RelayAssumption DEF RelayIInv
<1>1. losses' \in [Starters -> 0..startAttempts]
  BY RetryStep
<1>2. /\ stage' \in [Starters -> StartStages]
      /\ chosen' \in [Starters -> Ports \cup {Nobody}]
      /\ owner' \in [Ports -> Starters \cup {Nobody, Other}]
      /\ registry' \in Starters \cup {Nobody}
      /\ grabs' \in 0..MaxGrabs
  <2> USE DEF RelayTypeOK, StartStages
  <2>1. ASSUME NEW s \in Starters, StartRelay(s) \/ StartStep(s) \/ Close(s)
        PROVE  stage' \in [Starters -> StartStages] /\ grabs' = grabs
    BY <2>1
    DEF StartStep, StartRelay, ReservePort, NoPort, FreePortFails, ReleasePort,
        LockRegistry, UnlockRegistry, Bind, AddrInUse,
        OutboundUp, OutboundFails, LostRace, Close, Move
  <2>2. ASSUME NEW s \in Starters, StartRelay(s) \/ StartStep(s) \/ Close(s)
        PROVE  /\ chosen' \in [Starters -> Ports \cup {Nobody}]
               /\ owner' \in [Ports -> Starters \cup {Nobody, Other}]
               /\ registry' \in Starters \cup {Nobody}
    BY <2>2
    DEF StartStep, StartRelay, ReservePort, NoPort, FreePortFails, ReleasePort,
        LockRegistry, UnlockRegistry, Bind, AddrInUse,
        OutboundUp, OutboundFails, LostRace, Close, Listen,
        StopListening
  <2>3. ASSUME NEW p \in Ports, OtherTakes(p) \/ OtherLeaves(p)
        PROVE  /\ UNCHANGED <<stage, chosen, registry>> /\ grabs' \in 0..MaxGrabs
               /\ owner' \in [Ports -> Starters \cup {Nobody, Other}]
    BY <2>3 DEF OtherTakes, OtherLeaves, Listen
  <2>4. QED
    BY <2>1, <2>2, <2>3 DEF RelayNext
<1>3. QED
  BY <1>1, <1>2 DEF RelayTypeOK

\* The invariant reads nothing but the variables of RelayStart.
LEMMA RelayStutter == RelayIInv /\ UNCHANGED relayVars => RelayIInv'
BY DEF RelayIInv, relayVars, RelayTypeOK, HoldsItsPort, HasChosen, HoldsNothingElse,
       RegistryHeld,
       RaceOnlyAfterAttempts

\* The inductive invariant holds of RelayStart.
THEOREM RelayInvariance == RelaySpec => []RelayIInv
<1>1. RelayIInv /\ [RelayNext]_relayVars => RelayIInv'
  BY RelayTypeStep, PortStep, RegistryStep, RetryStep, RelayStutter DEF RelayIInv
<1>2. QED
  BY <1>1, InitRelayIInv, PTL DEF RelaySpec

\* What the runs check follows: the choice of a port is binding once it listens.
LEMMA RelaySafe == RelayIInv => RelaySafety
BY DEF RelayIInv, RelaySafety, OwnAddress, NothingLeaks, IncludeAlone,
       HoldsItsPort, HoldsNothingElse,
       RegistryHeld, Holding

\* However many profiles open at once and whatever else takes ports: the relay
\* Chrome is sent to is the profile's own, a start that failed or a relay that
\* was closed holds no port, include.Context runs alone, and a race is reported
\* after startAttempts attempts that each lost the port or found none, and never
\* otherwise (runner.go, startWithRetry, Start and Close).
THEOREM StartRelaySafety == RelaySpec => []RelaySafety
BY RelaySafe, RelayInvariance, PTL

-----------------------------------------------------------------------------
(* The builds they launch. *)

\* What a temp directory holds follows from how far its install is: everything when
\* it is about to be renamed, and there is none before and after.
TempFilled ==
  \A p \in Procs :
    /\ command[p] \in {"idle", "mktemp", "remove"} => temp[p] = Absent
    /\ command[p] = "extract" => temp[p] \in SUBSET {"exec", "files"}
    /\ command[p] = "metadata" => temp[p] = {"exec", "files"}
    /\ command[p] = "rename" => temp[p] = Parts

\* The inductive invariant of BrowserInstall.
CacheIInv == CacheTypeOK /\ TempFilled

-----------------------------------------------------------------------------
\* No command has run, and there are no directories.
LEMMA InitCacheIInv == CacheInit => CacheIInv
BY InstallAssumption DEF CacheInit, CacheIInv, CacheTypeOK, TempFilled

\* An install fills its own temp directory.
LEMMA InstallKeeps ==
  ASSUME CacheIInv, NEW p \in Procs,
         \/ \E v \in Versions : StartInstall(p, v)
         \/ MkTemp(p) \/ Extract(p) \/ WriteMetadata(p)
         \/ InstallFails(p)
  PROVE  CacheIInv'
<1> USE InstallAssumption DEF CacheIInv, CacheTypeOK, Parts, Advance, Return
<1>1. ASSUME NEW v \in Versions, StartInstall(p, v) PROVE CacheIInv'
  BY <1>1 DEF StartInstall, Begin, TempFilled
<1>2. CASE MkTemp(p)
  BY <1>2 DEF MkTemp, TempFilled
<1>3. CASE Extract(p)
  <2>1. PICK part \in {"exec", "files"} \ temp[p] :
          /\ temp' = [temp EXCEPT ![p] = @ \cup {part}]
          /\ command' = IF temp'[p] = {"exec", "files"}
                        THEN [command EXCEPT ![p] = "metadata"] ELSE command
    BY <1>3 DEF Extract
  <2>2. /\ command[p] = "extract" /\ temp[p] \in SUBSET {"exec", "files"}
        /\ UNCHANGED <<dir, litter, version, outcome, ops, kills>>
    BY <1>3 DEF Extract, TempFilled
  <2>3. temp'[p] \in SUBSET {"exec", "files"} /\ temp' \in [Procs -> {Absent} \cup SUBSET Parts]
    BY <2>1, <2>2
  <2>4. CacheTypeOK'
    BY <2>1, <2>2, <2>3
  <2>5. TempFilled'
    BY <2>1, <2>2, <2>3 DEF TempFilled
  <2>6. QED
    BY <2>4, <2>5
<1>4. CASE WriteMetadata(p)
  BY <1>4 DEF WriteMetadata, TempFilled
<1>5. CASE InstallFails(p)
  BY <1>5 DEF InstallFails, TempFilled
<1>6. QED
  BY <1>1, <1>2, <1>3, <1>4, <1>5

\* The steps that end an install, and those of a removal.
LEMMA CacheStepKeeps ==
  ASSUME CacheIInv, NEW p \in Procs,
         \/ \E v \in Versions : StartRemove(p, v)
         \/ Publish(p) \/ PublishRefused(p)
         \/ Removes(p) \/ RemoveFails(p) \/ KillProcess(p)
  PROVE  CacheIInv'
<1> USE InstallAssumption DEF CacheIInv, CacheTypeOK, Parts, Advance, Return
<1>1. ASSUME NEW v \in Versions, StartRemove(p, v) PROVE CacheIInv'
  BY <1>1 DEF StartRemove, Begin, TempFilled
<1>2. CASE Publish(p) \/ PublishRefused(p)
  BY <1>2 DEF Publish, PublishRefused, TempFilled
<1>3. CASE Removes(p) \/ RemoveFails(p)
  BY <1>3 DEF Removes, Unlink, RemoveDir, RemoveFails, TempFilled
<1>4. CASE KillProcess(p)
  <2>1. litter' \subseteq [version : Versions, parts : SUBSET Parts]
    BY <1>4 DEF KillProcess
  <2>2. QED
    BY <1>4, <2>1 DEF KillProcess, TempFilled
<1>5. QED
  BY <1>1, <1>2, <1>3, <1>4

\* The inductive invariant holds of BrowserInstall.
THEOREM CacheInvariance == CacheSpec => []CacheIInv
<1>1. CacheIInv /\ [CacheNext]_cacheVars => CacheIInv'
  <2>1. CacheIInv /\ UNCHANGED cacheVars => CacheIInv'
    BY InstallAssumption DEF CacheIInv, cacheVars, CacheTypeOK, TempFilled
  <2>2. QED
    BY <2>1, InstallKeeps, CacheStepKeeps DEF CacheNext
<1>2. QED
  BY <1>1, InitCacheIInv, PTL DEF CacheSpec

\* How a step changes a directory: an install puts a whole one where there was
\* none, or a removal takes from it.
LEMMA DirStep ==
  ASSUME CacheIInv, CacheNext, NEW v \in Versions, dir'[v] # dir[v]
  PROVE  \E p \in Procs :
           /\ version[p] = v /\ version' = version
           /\ \/ Publish(p) /\ dir'[v] = Parts /\ ~Installed(v)
              \/ Unlink(p) /\ command[p] = "remove"
              \/ RemoveDir(p) /\ command[p] = "remove" /\ ~Installed(v)
<1> USE InstallAssumption DEF CacheIInv, CacheTypeOK
<1>1. PICK p \in Procs : Publish(p) \/ Removes(p)
  BY DEF CacheNext, StartInstall, StartRemove, MkTemp, Extract,
         WriteMetadata, InstallFails, PublishRefused, RemoveFails,
         KillProcess
<1>2. version[p] = v /\ version' = version
  BY <1>1 DEF Publish, Removes, Unlink, RemoveDir
<1>3. dir[v] \in {Absent, {}} => ~Installed(v)
  BY DEF Installed, Has
<1>4. CASE Publish(p)
  BY <1>2, <1>3, <1>4 DEF Publish, TempFilled
<1>5. CASE Removes(p)
  BY <1>2, <1>3, <1>5 DEF Removes, Unlink, RemoveDir
<1>6. QED
  BY <1>1, <1>4, <1>5

\* An install reports success in the step that publishes it.
LEMMA SuccessStep ==
  ASSUME CacheIInv, CacheNext, NEW p \in Procs,
         outcome'[p] = "installed", outcome[p] # "installed"
  PROVE  /\ version[p] \in Versions /\ version' = version
         /\ dir'[version[p]] = Parts /\ ~Installed(version[p])
<1> USE InstallAssumption DEF CacheIInv, CacheTypeOK
<1>1. Publish(p)
  BY DEF CacheNext, StartInstall, StartRemove, MkTemp, Extract,
         WriteMetadata, InstallFails, Publish, PublishRefused,
         Removes, Unlink, RemoveDir, RemoveFails, KillProcess,
         Begin, Return
<1>2. QED
  BY <1>1 DEF Publish, Installed, Has, TempFilled

\* However many processes install and remove, killed anywhere: what appears in the
\* cache is whole, only browser remove takes an install away, and an install that
\* reports success has put a usable build where there was none (install.go, browser.go).
THEOREM CacheStepsHold == CacheSpec => CacheSteps
<1>1. ASSUME CacheIInv, [CacheNext]_cacheVars
      PROVE  [\A v \in Versions : dir'[v] # Absent /\ dir'[v] # dir[v] /\ ~Removing(v)
                => dir'[v] = Parts]_cacheVars
  BY <1>1, DirStep DEF Removing
<1>2. ASSUME CacheIInv, [CacheNext]_cacheVars
      PROVE  [\A v \in Versions : Installed(v) /\ ~Installed(v)'
                => \E p \in Procs : Unlink(p) /\ version[p] = v]_cacheVars
  <2> SUFFICES ASSUME CacheNext, NEW v \in Versions, Installed(v), ~Installed(v)'
               PROVE  \E p \in Procs : Unlink(p) /\ version[p] = v
    BY <1>2
  <2>1. dir'[v] # dir[v]
    BY DEF Installed, Has
  <2>2. QED
    BY <1>2, <2>1, DirStep
<1>3. ASSUME CacheIInv, [CacheNext]_cacheVars
      PROVE  [\A p \in Procs : outcome'[p] = "installed" /\ outcome[p] # "installed" =>
                Installed(version[p])' /\ ~Installed(version[p])]_cacheVars
  <2> SUFFICES ASSUME CacheNext, NEW p \in Procs,
                      outcome'[p] = "installed", outcome[p] # "installed"
               PROVE  Installed(version[p])' /\ ~Installed(version[p])
    BY <1>3
  <2>1. /\ version[p] \in Versions /\ version' = version
        /\ dir'[version[p]] = Parts /\ ~Installed(version[p])
    BY <1>3, SuccessStep
  <2>2. Parts # Absent
    BY <1>3, InstallAssumption DEF CacheIInv, Parts
  <2>3. QED
    BY <2>1, <2>2 DEF Installed, Has, Parts
<1>4. CacheIInv => CacheTypeOK
  BY DEF CacheIInv
<1>5. QED
  BY <1>1, <1>2, <1>3, <1>4, CacheInvariance, PTL
  DEF CacheSpec, CacheSteps, PublishedWhole, OnlyRemoveUninstalls,
      ReportsWhatIsThere
=============================================================================
