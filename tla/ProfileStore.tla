---------------------------- MODULE ProfileStore ----------------------------
(***************************************************************************)
(* internal/infra/store: the profile list (store.go) and the shared        *)
(* artifacts that belong to a profile, with the commands that change them  *)
(* (internal/cmd/profile add, edit, geo, remove; the dashboard's form).    *)
(*                                                                         *)
(* A client is one running operation.  Store.mu serializes the operations  *)
(* of one process only (ProcOf); other processes meet in the file system.  *)
(* The document is replaced by a rename, so between load and rename other  *)
(* processes see the old one and a crash leaves it in place.               *)
(***************************************************************************)
EXTENDS Naturals

CONSTANTS Clients,   \* operations in progress
          Procs,     \* hamzad processes
          ProcOf,    \* ProcOf[c]: the process client c runs in
          Names,     \* profile names
          Fields,    \* independent settings of a profile
          Absent,    \* no profile under that name
          Free,      \* mutex not held
          MaxCrashes \* bound: processes killed in a behaviour

ASSUME StoreAssumption ==
  /\ ProcOf \in [Clients -> Procs]
  /\ \A p \in SUBSET Fields : p # Absent
  /\ Free \notin Clients
  /\ MaxCrashes \in Nat

\* A profile is the set of its settings that are not at their default.
Profile == SUBSET Fields

VARIABLES
  doc,    \* doc[n]: the profile profiles.toml holds under n
  secret, \* secret[n]: secrets/<n>.age
  bundle, \* bundle[n]: data/<n>.tar.age exists
  dir,    \* dir[n]: data/<n>/ exists
  held,   \* held[p]: the client that holds Store.mu in process p
  task,   \* task[c]: the operation of c, where it is, and its local variables
  crashes

vars == <<doc, secret, bundle, dir, held, task, crashes>>
files == <<doc, secret, bundle, dir>>

Doc == [Names -> {Absent} \cup Profile]

Stages == {"proxy", "write", "lock", "load", "rename", "secret", "bundle", "purge", "unlock"}

\* draft: the profile to store; copy: the loaded document as it will be saved.
Task == [pc : Stages, kind : {"add", "edit", "remove"}, name : Names,
         proxy : {"none", "set", "clear"}, purge : BOOLEAN, draft : Profile, copy : Doc]

NoTask == [pc |-> "idle"]

\* The stages between Lock and the deferred Unlock.
Critical == {"load", "rename", "secret", "bundle", "purge", "unlock"}

Init ==
  /\ doc \in [Names -> {Absent, {}}]
  /\ secret = [n \in Names |-> "none"]
  /\ bundle = [n \in Names |-> FALSE]
  /\ dir = [n \in Names |-> FALSE]
  /\ held = [p \in Procs |-> Free]
  /\ task = [c \in Clients |-> NoTask]
  /\ crashes = 0

Goto(c, stage) ==
  task' = [task EXCEPT ![c] = IF stage = "idle" THEN NoTask ELSE [@ EXCEPT !.pc = stage]]

Release(c) == held' = [held EXCEPT ![ProcOf[c]] = Free]

Begin(c, kind, n, proxy, purge, draft, stage) ==
  /\ task[c] = NoTask
  /\ task' = [task EXCEPT ![c] =
       [pc |-> stage, kind |-> kind, name |-> n, proxy |-> proxy, purge |-> purge,
        draft |-> draft, copy |-> [m \in Names |-> Absent]]]
  /\ UNCHANGED <<files, held, crashes>>

-----------------------------------------------------------------------------
\* profile add, and the form: the proxy is stored after the profile.
StartAdd(c, n, proxy) == Begin(c, "add", n, proxy, FALSE, {}, "lock")

\* profile edit and profile geo: Get outside the lock, one setting changed in
\* the copy, the proxy stored or dropped first, then Put.
StartEdit(c, n, f, proxy) ==
  /\ doc[n] # Absent
  /\ \E p \in {doc[n] \cup {f}, doc[n] \ {f}} :
       Begin(c, "edit", n, proxy, FALSE, p, IF proxy = "none" THEN "lock" ELSE "proxy")

StartRemove(c, n, purge) == Begin(c, "remove", n, "none", purge, {}, "lock")

\* Wrong on purpose, as every ...Mutant below: the mutex does not exclude.
LockMutant(c) ==
  /\ task[c].pc = "lock"
  /\ held' = [held EXCEPT ![ProcOf[c]] = c]
  /\ Goto(c, "load")
  /\ UNCHANGED <<files, crashes>>

Lock(c) ==
  /\ task[c].pc = "lock" /\ held[ProcOf[c]] = Free
  /\ held' = [held EXCEPT ![ProcOf[c]] = c]
  /\ Goto(c, "load")
  /\ UNCHANGED <<files, crashes>>

\* ErrExists, ErrNotFound.
Refused(t) ==
  \/ t.kind = "add" /\ doc[t.name] # Absent
  \/ t.kind = "remove" /\ doc[t.name] = Absent

LoadRefused(c) ==
  /\ task[c].pc = "load" /\ Refused(task[c])
  /\ Goto(c, "idle") /\ Release(c)
  /\ UNCHANGED <<files, crashes>>

\* What the operation makes of the document it loaded.
Changed(t, d) == [d EXCEPT ![t.name] = IF t.kind = "remove" THEN Absent ELSE t.draft]

Load(c) ==
  /\ task[c].pc = "load" /\ ~Refused(task[c])
  /\ task' = [task EXCEPT ![c].copy = Changed(task[c], doc), ![c].pc = "rename"]
  /\ UNCHANGED <<files, held, crashes>>

\* The temp file is complete and replaces profiles.toml.
Rename(c) ==
  /\ task[c].pc = "rename"
  /\ doc' = task[c].copy
  /\ Goto(c, IF task[c].kind = "remove" THEN "secret" ELSE "unlock")
  /\ UNCHANGED <<secret, bundle, dir, held, crashes>>

\* An I/O error: the deferred unlock runs, what was done so far stays.
Fails(c) ==
  /\ task[c].pc \in {"rename", "secret", "bundle", "purge"}
  /\ Goto(c, "idle") /\ Release(c)
  /\ UNCHANGED <<files, crashes>>

RemoveSecret(c) ==
  /\ task[c].pc = "secret"
  /\ secret' = [secret EXCEPT ![task[c].name] = "none"]
  /\ Goto(c, "bundle")
  /\ UNCHANGED <<doc, bundle, dir, held, crashes>>

RemoveBundle(c) ==
  /\ task[c].pc = "bundle"
  /\ bundle' = [bundle EXCEPT ![task[c].name] = FALSE]
  /\ Goto(c, IF task[c].purge THEN "purge" ELSE "unlock")
  /\ UNCHANGED <<doc, secret, dir, held, crashes>>

Purge(c) ==
  /\ task[c].pc = "purge"
  /\ dir' = [dir EXCEPT ![task[c].name] = FALSE]
  /\ Goto(c, "unlock")
  /\ UNCHANGED <<doc, secret, bundle, held, crashes>>

Unlock(c) ==
  /\ task[c].pc = "unlock"
  /\ Release(c)
  /\ Goto(c, IF task[c].kind = "add" /\ task[c].proxy = "set" THEN "proxy" ELSE "idle")
  /\ UNCHANGED <<files, crashes>>

\* What follows the proxy step: add is done, edit goes on to Put.
AfterProxy(t) == IF t.kind = "edit" THEN "lock" ELSE "idle"

\* Truncates the secret and leaves the file.
ClearProxyMutant(c) ==
  /\ task[c].pc = "proxy" /\ task[c].proxy = "clear"
  /\ secret' = [secret EXCEPT ![task[c].name] = "empty"]
  /\ Goto(c, AfterProxy(task[c]))
  /\ UNCHANGED <<doc, bundle, dir, held, crashes>>

ClearProxy(c) ==
  /\ task[c].pc = "proxy" /\ task[c].proxy = "clear"
  /\ secret' = [secret EXCEPT ![task[c].name] = "none"]
  /\ Goto(c, AfterProxy(task[c]))
  /\ UNCHANGED <<doc, bundle, dir, held, crashes>>

\* SetProxy: os.WriteFile truncates the secret, then fills it.
TruncateSecret(c) ==
  /\ task[c].pc = "proxy" /\ task[c].proxy = "set"
  /\ secret' = [secret EXCEPT ![task[c].name] = "torn"]
  /\ Goto(c, "write")
  /\ UNCHANGED <<doc, bundle, dir, held, crashes>>

WriteSecret(c) ==
  /\ task[c].pc = "write"
  /\ secret' = [secret EXCEPT ![task[c].name] = "whole"]
  /\ Goto(c, AfterProxy(task[c]))
  /\ UNCHANGED <<doc, bundle, dir, held, crashes>>

\* Encryption, or removing the file, fails: the operation ends there.
ProxyFails(c) ==
  /\ task[c].pc = "proxy"
  /\ Goto(c, "idle")
  /\ UNCHANGED <<files, held, crashes>>

\* A session of the profile ran and was packed (SessionManager).
SessionSaved(n) ==
  /\ doc[n] # Absent
  /\ dir' = [dir EXCEPT ![n] = TRUE]
  /\ bundle' = [bundle EXCEPT ![n] = TRUE]
  /\ UNCHANGED <<doc, secret, held, task, crashes>>

\* The process is killed: its operations end where they are.
Crash(p) ==
  /\ crashes < MaxCrashes
  /\ \E c \in Clients : ProcOf[c] = p /\ task[c] # NoTask
  /\ crashes' = crashes + 1
  /\ task' = [c \in Clients |-> IF ProcOf[c] = p THEN NoTask ELSE task[c]]
  /\ held' = [held EXCEPT ![p] = Free]
  /\ UNCHANGED files

-----------------------------------------------------------------------------
Start(c) ==
  \E n \in Names :
    \/ \E proxy \in {"none", "set"} : StartAdd(c, n, proxy)
    \/ \E f \in Fields, proxy \in {"none", "set", "clear"} : StartEdit(c, n, f, proxy)
    \/ \E purge \in BOOLEAN : StartRemove(c, n, purge)

Step(c) ==
  \/ Lock(c) \/ LoadRefused(c) \/ Load(c) \/ Rename(c) \/ Fails(c)
  \/ RemoveSecret(c) \/ RemoveBundle(c) \/ Purge(c) \/ Unlock(c)
  \/ ClearProxy(c) \/ TruncateSecret(c) \/ WriteSecret(c) \/ ProxyFails(c)

Next ==
  \/ \E c \in Clients : Start(c) \/ Step(c)
  \/ \E n \in Names : SessionSaved(n)
  \/ \E p \in Procs : Crash(p)

Spec == Init /\ [][Next]_vars

-----------------------------------------------------------------------------
\* Types of the variables.
TypeOK ==
  /\ doc \in Doc
  /\ secret \in [Names -> {"none", "torn", "whole"}]
  /\ bundle \in [Names -> BOOLEAN]
  /\ dir \in [Names -> BOOLEAN]
  /\ held \in [Procs -> Clients \cup {Free}]
  /\ task \in [Clients -> Task \cup {NoTask}]
  /\ crashes \in 0..MaxCrashes

Map == INSTANCE ProfileMap WITH profiles <- doc

\* Concurrent operations of one process act on profiles.toml one after the other,
\* each in one piece, whatever fails or is killed half-way (store.go:43).
MapSpec == Map!Spec

\* Saving one profile leaves every other profile as it is at that moment: no
\* update is lost between load and rename (store.go:43 "serialized by mu so a
\* long-running process can mutate the store from several goroutines without
\* losing updates. The one-shot CLI ... never contends").
SaveKeepsOthers ==
  [][\A c \in Clients :
       Rename(c) => \A m \in Names \ {task[c].name} : doc'[m] = doc[m]]_vars

\* Remove deletes the secret and the bundle while the profile is absent: it never
\* takes those of a profile added again under the name meanwhile.
RemoveSparesReAdded ==
  [][\A c \in Clients :
       RemoveSecret(c) \/ RemoveBundle(c) \/ Purge(c) => doc[task[c].name] = Absent]_vars
=============================================================================
