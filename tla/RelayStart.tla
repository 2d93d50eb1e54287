------------------------------ MODULE RelayStart ------------------------------
(***************************************************************************)
(* Local proxy relays (internal/infra/proxy/runner.go): several profiles   *)
(* opening at once each pick a loopback port by binding one and letting it *)
(* go, build a sing-box instance, and bind the port again; anything on the *)
(* machine may take it in between.  An address in use is retried, the      *)
(* kernel's answer also when it has no port left to give.                  *)
(***************************************************************************)
EXTENDS Naturals

CONSTANTS Starters,     \* calls of Start: launches, and lookups through WithRelay
          Ports,
          Nobody, Other, \* a port's owner when it is free, or not hamzad
          MaxGrabs      \* bound: how often another program takes a port

ASSUME RelayAssumption ==
  /\ {Nobody, Other} \cap Starters = {} /\ Nobody # Other
  /\ Nobody \notin Ports
  /\ MaxGrabs \in Nat

startAttempts == 3

VARIABLES
  stage,    \* stage[s]: how far s is
  chosen,   \* chosen[s]: the port s chose
  losses,   \* losses[s]: attempts that ended with an address in use
  owner,    \* owner[p]: who listens on p
  registry, \* holder of registryMu
  grabs

relayVars == <<stage, chosen, losses, owner, registry, grabs>>

StartStages == {"idle", "freePort", "reserved", "registry", "include", "bind", "outbound",
                "stop", "running", "failed", "raced", "closed"}

RelayInit ==
  /\ stage = [s \in Starters |-> "idle"]
  /\ chosen = [s \in Starters |-> Nobody]
  /\ losses = [s \in Starters |-> 0]
  /\ owner \in [Ports -> {Nobody, Other}]
  /\ registry = Nobody
  /\ grabs = 0

Move(s, from, to) == stage[s] = from /\ stage' = [stage EXCEPT ![s] = to]
Listen(p, who) == owner[p] = Nobody /\ owner' = [owner EXCEPT ![p] = who]
StopListening(s) == owner' = [p \in Ports |-> IF owner[p] = s THEN Nobody ELSE owner[p]]

StartRelay(s) ==
  /\ Move(s, "idle", "freePort")
  /\ UNCHANGED <<chosen, losses, owner, registry, grabs>>

\* freePort: the kernel gives a port nobody listens on ...
ReservePort(s) ==
  /\ Move(s, "freePort", "reserved")
  /\ \E p \in Ports : Listen(p, s) /\ chosen' = [chosen EXCEPT ![s] = p]
  /\ UNCHANGED <<losses, registry, grabs>>

\* EADDRINUSE: another attempt, until they are used up.
AddrInUse(s, from) ==
  /\ Move(s, from, IF losses[s] + 1 < startAttempts THEN "freePort" ELSE "raced")
  /\ losses' = [losses EXCEPT ![s] = @ + 1]

\* ... or none is left: binding port 0 answers EADDRINUSE as well, and is retried.
NoPort(s) ==
  /\ \A p \in Ports : owner[p] # Nobody
  /\ AddrInUse(s, "freePort")
  /\ UNCHANGED <<chosen, owner, registry, grabs>>

\* ... or it refuses for another reason, such as too many open files: no retry.
FreePortFails(s) ==
  /\ Move(s, "freePort", "failed")
  /\ UNCHANGED <<chosen, losses, owner, registry, grabs>>

\* The deferred ln.Close.
ReleasePort(s) ==
  /\ Move(s, "reserved", "registry")
  /\ StopListening(s)
  /\ UNCHANGED <<chosen, losses, registry, grabs>>

\* registryContext: include.Context runs under registryMu.
LockRegistry(s) ==
  /\ registry = Nobody /\ registry' = s
  /\ Move(s, "registry", "include")
  /\ UNCHANGED <<chosen, losses, owner, grabs>>

\* Wrong on purpose, as every ...Mutant below: an early return keeps registryMu.
UnlockRegistryMutant(s) ==
  /\ Move(s, "include", "bind")
  /\ UNCHANGED <<chosen, losses, owner, registry, grabs>>

UnlockRegistry(s) ==
  /\ registry' = Nobody
  /\ Move(s, "include", "bind")
  /\ UNCHANGED <<chosen, losses, owner, grabs>>

\* With SO_REUSEPORT.
BindMutant(s) ==
  /\ Move(s, "bind", "outbound")
  /\ owner' = [owner EXCEPT ![chosen[s]] = s]
  /\ UNCHANGED <<chosen, losses, registry, grabs>>

\* instance.Start: the inbound listens, then the outbound comes up.
Bind(s) ==
  /\ Move(s, "bind", "outbound")
  /\ Listen(chosen[s], s)
  /\ UNCHANGED <<chosen, losses, registry, grabs>>

OutboundUp(s) ==
  /\ Move(s, "outbound", "running")
  /\ UNCHANGED <<chosen, losses, owner, registry, grabs>>

\* A bad outbound, at box.New or in instance.Start: instance.Close, no retry.
OutboundFails(s) ==
  /\ stage[s] \in {"bind", "outbound"}
  /\ stage' = [stage EXCEPT ![s] = "failed"]
  /\ StopListening(s)
  /\ UNCHANGED <<chosen, losses, registry, grabs>>

\* The chosen port has been taken meanwhile.
LostRace(s) ==
  /\ AddrInUse(s, "bind")
  /\ owner[chosen[s]] # Nobody
  /\ UNCHANGED <<chosen, owner, registry, grabs>>

\* Chrome has ended, or WithRelay's lookup is over: the deferred Relay.Close.
Close(s) ==
  /\ Move(s, "running", "closed")
  /\ StopListening(s)
  /\ UNCHANGED <<chosen, losses, registry, grabs>>

OtherTakes(p) ==
  /\ grabs < MaxGrabs /\ grabs' = grabs + 1
  /\ Listen(p, Other)
  /\ UNCHANGED <<stage, chosen, losses, registry>>

OtherLeaves(p) ==
  /\ owner[p] = Other
  /\ owner' = [owner EXCEPT ![p] = Nobody]
  /\ UNCHANGED <<stage, chosen, losses, registry, grabs>>

StartStep(s) ==
  \/ ReservePort(s) \/ NoPort(s) \/ FreePortFails(s) \/ ReleasePort(s) \/ LockRegistry(s)
  \/ UnlockRegistry(s) \/ Bind(s) \/ OutboundUp(s) \/ OutboundFails(s) \/ LostRace(s)

RelayNext ==
  \/ \E s \in Starters : StartRelay(s) \/ StartStep(s) \/ Close(s)
  \/ \E p \in Ports : OtherTakes(p) \/ OtherLeaves(p)

RelaySpec == RelayInit /\ [][RelayNext]_relayVars

\* A call of Start that can go on does; registryMu goes to every waiter in turn.
FairRelaySpec ==
  /\ RelaySpec
  /\ \A s \in Starters : WF_relayVars(StartStep(s)) /\ SF_relayVars(LockRegistry(s))

-----------------------------------------------------------------------------
\* Types of the variables.
RelayTypeOK ==
  /\ stage \in [Starters -> StartStages]
  /\ chosen \in [Starters -> Ports \cup {Nobody}]
  /\ losses \in [Starters -> 0..startAttempts]
  /\ owner \in [Ports -> Starters \cup {Nobody, Other}]
  /\ registry \in Starters \cup {Nobody}
  /\ grabs \in 0..MaxGrabs

\* The address handed to Chrome is the profile's own relay: two profiles opened
\* at once never share a port, and nothing else answers on it.
OwnAddress == \A s \in Starters : stage[s] = "running" => owner[chosen[s]] = s

\* A start that failed, and a relay that was closed, hold no port.
NothingLeaks ==
  \A s \in Starters : stage[s] \in {"failed", "raced", "closed"} =>
    \A p \in Ports : owner[p] # s

\* Two calls of include.Context never overlap: they write sing-box's package
\* variables (runner.go:190).
IncludeAlone ==
  \A s, t \in Starters : stage[s] = "include" /\ stage[t] = "include" => s = t

\* errPortRace is reported after startAttempts attempts, in each of which the chosen
\* port was lost or none was to be had, and never otherwise: a start that fails for
\* another reason has an attempt left (runner.go:49-51, 81-91).
RaceOnlyAfterAttempts ==
  \A s \in Starters : stage[s] = "raced" <=> losses[s] = startAttempts

\* The invariants of the run in one: types, ports, the registry and the retries.
RelaySafety == RelayTypeOK /\ OwnAddress /\ NothingLeaks /\ IncludeAlone /\ RaceOnlyAfterAttempts

\* Every start comes up or reports why not, however the ports are contended.
StartReturns ==
  \A s \in Starters : stage[s] = "freePort" ~> stage[s] \in {"running", "failed", "raced"}
=============================================================================
