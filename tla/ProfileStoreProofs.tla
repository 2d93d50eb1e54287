------------------------- MODULE ProfileStoreProofs -------------------------
(***************************************************************************)
(* One process, any number of concurrent operations, names, settings and   *)
(* crashes: profiles.toml changes one profile at a time, each in one piece *)
(* (Spec => MapSpec), no update is lost, and Remove never touches the      *)
(* artifacts of a profile added again.  The argument is the lock's: whoever *)
(* is between Lock and Unlock holds the mutex (Holding), so what it loaded *)
(* is still what the file holds when it renames (Fresh).                   *)
(***************************************************************************)
EXTENDS ProfileStore, TLAPS

\* All operations run in one process: a long-running dashboard, or a single command.
SingleProcess == \A c, d \in Clients : ProcOf[c] = ProcOf[d]

\* Between Lock and the deferred Unlock, the client holds its process's mutex.
Holding == \A c \in Clients : task[c].pc \in Critical => held[ProcOf[c]] = c

\* What is about to be renamed into place differs from the file in the
\* operation's own profile only, and the check Add and Remove made still holds.
Fresh ==
  \A c \in Clients :
    task[c].pc = "rename" =>
      /\ task[c].copy = Changed(task[c], doc)
      /\ ~Refused(task[c])

\* While the artifacts of a profile are being removed, the profile is absent.
Gone ==
  \A c \in Clients :
    task[c].pc \in {"secret", "bundle", "purge"} =>
      task[c].kind = "remove" /\ doc[task[c].name] = Absent

IInv == TypeOK /\ Holding /\ Fresh /\ Gone

-----------------------------------------------------------------------------
\* Moving on to another stage keeps the rest of the task.
LEMMA GotoTask ==
  ASSUME TypeOK, NEW c \in Clients, task[c] # NoTask, NEW stage \in Stages, Goto(c, stage)
  PROVE  /\ task' = [task EXCEPT ![c] = [task[c] EXCEPT !.pc = stage]]
         /\ task'[c] \in Task
         /\ task'[c].pc = stage
         /\ task'[c].kind = task[c].kind
         /\ task'[c].name = task[c].name
  BY DEF TypeOK, Goto, Task, Stages, NoTask

\* A client that returns has no task.
LEMMA GotoIdle ==
  ASSUME TypeOK, NEW c \in Clients, Goto(c, "idle")
  PROVE  task' = [task EXCEPT ![c] = NoTask]
  BY DEF TypeOK, Goto

\* An operation in progress is at one of its stages.
LEMMA BusyTask ==
  ASSUME TypeOK, NEW c \in Clients, task[c].pc \in Stages
  PROVE  task[c] # NoTask /\ task[c] \in Task
  BY DEF TypeOK, Stages, NoTask

\* A document with one profile changed is a document.
LEMMA ChangedDoc ==
  ASSUME NEW t \in Task, NEW d \in Doc
  PROVE  /\ Changed(t, d) \in Doc
         /\ \A m \in Names \ {t.name} : Changed(t, d)[m] = d[m]
         /\ Changed(t, d)[t.name] = IF t.kind = "remove" THEN Absent ELSE t.draft
  BY DEF Changed, Doc, Task
\* Starting an operation gives an idle client a task and leaves the rest alone.
LEMMA StartTask ==
  ASSUME TypeOK, NEW c \in Clients, Start(c)
  PROVE  /\ task[c] = NoTask
         /\ \E t \in Task : t.pc \in {"lock", "proxy"} /\ task' = [task EXCEPT ![c] = t]
         /\ UNCHANGED <<doc, secret, bundle, dir, held, crashes>>
<1>1. PICK kind \in {"add", "edit", "remove"}, n \in Names, proxy \in {"none", "set", "clear"},
           purge \in BOOLEAN, draft \in Profile, stage \in {"lock", "proxy"} :
             Begin(c, kind, n, proxy, purge, draft, stage)
  <2>1. ASSUME NEW n \in Names, NEW proxy \in {"none", "set"}, StartAdd(c, n, proxy)
        PROVE  Begin(c, "add", n, proxy, FALSE, {}, "lock") /\ {} \in Profile
    BY <2>1 DEF StartAdd, Profile
  <2>2. ASSUME NEW n \in Names, NEW f \in Fields, NEW proxy \in {"none", "set", "clear"},
               StartEdit(c, n, f, proxy)
        PROVE  \E p \in Profile, stage \in {"lock", "proxy"} :
                 Begin(c, "edit", n, proxy, FALSE, p, stage)
    <3>1. doc[n] \in Profile
      BY <2>2 DEF StartEdit, TypeOK, Doc
    <3>2. doc[n] \cup {f} \in Profile /\ doc[n] \ {f} \in Profile
      BY <3>1 DEF Profile
    <3>3. QED
      BY <2>2, <3>2 DEF StartEdit
  <2>3. ASSUME NEW n \in Names, NEW purge \in BOOLEAN, StartRemove(c, n, purge)
        PROVE  Begin(c, "remove", n, "none", purge, {}, "lock") /\ {} \in Profile
    BY <2>3 DEF StartRemove, Profile
  <2>4. QED
    BY <2>1, <2>2, <2>3 DEF Start
<1>2. [m \in Names |-> Absent] \in Doc
  BY DEF Doc
<1>3. QED
  BY <1>1, <1>2 DEF Begin, Task, Stages, files

\* Every step keeps the variables in their types.
LEMMA TypeStep == TypeOK /\ Next => TypeOK'
<1> SUFFICES ASSUME TypeOK, Next PROVE TypeOK'
  OBVIOUS
<1> USE StoreAssumption DEF TypeOK, files
<1>1. ASSUME NEW c \in Clients, Start(c) PROVE TypeOK'
  BY <1>1, StartTask
<1>2. ASSUME NEW c \in Clients, Lock(c) PROVE TypeOK'
  <2>1. task[c] # NoTask /\ task[c] \in Task
    BY <1>2, BusyTask DEF Lock, Stages
  <2>2. task' \in [Clients -> Task \cup {NoTask}]
    BY <1>2, <2>1, GotoTask, GotoIdle DEF Lock, Stages, NoTask
  <2>3. QED
    BY <1>2, <2>1, <2>2 DEF Lock, Task
<1>3. ASSUME NEW c \in Clients, LoadRefused(c) PROVE TypeOK'
  <2>1. task[c] # NoTask /\ task[c] \in Task
    BY <1>3, BusyTask DEF LoadRefused, Stages
  <2>2. task' \in [Clients -> Task \cup {NoTask}]
    BY <1>3, <2>1, GotoTask, GotoIdle DEF LoadRefused, Stages, NoTask
  <2>3. QED
    BY <1>3, <2>1, <2>2 DEF LoadRefused, Task, Release
<1>4. ASSUME NEW c \in Clients, Load(c) PROVE TypeOK'
  <2>1. task[c] # NoTask /\ task[c] \in Task
    BY <1>4, BusyTask DEF Load, Stages
  <2>2. Changed(task[c], doc) \in Doc
    BY <2>1, ChangedDoc
  <2>3. task'[c] \in Task
    BY <1>4, <2>1, <2>2 DEF Load, Task, Stages
  <2>4. QED
    BY <1>4, <2>3 DEF Load
<1>5. ASSUME NEW c \in Clients, Rename(c) PROVE TypeOK'
  <2>1. task[c] # NoTask /\ task[c] \in Task
    BY <1>5, BusyTask DEF Rename, Stages
  <2>2. task' \in [Clients -> Task \cup {NoTask}]
    BY <1>5, <2>1, GotoTask, GotoIdle DEF Rename, Stages, NoTask
  <2>3. QED
    BY <1>5, <2>1, <2>2 DEF Rename, Task
<1>6. ASSUME NEW c \in Clients, Fails(c) PROVE TypeOK'
  <2>1. task[c] # NoTask /\ task[c] \in Task
    BY <1>6, BusyTask DEF Fails, Stages
  <2>2. task' \in [Clients -> Task \cup {NoTask}]
    BY <1>6, <2>1, GotoTask, GotoIdle DEF Fails, Stages, NoTask
  <2>3. QED
    BY <1>6, <2>1, <2>2 DEF Fails, Task, Release
<1>7. ASSUME NEW c \in Clients, RemoveSecret(c) PROVE TypeOK'
  <2>1. task[c] # NoTask /\ task[c] \in Task
    BY <1>7, BusyTask DEF RemoveSecret, Stages
  <2>2. task' \in [Clients -> Task \cup {NoTask}]
    BY <1>7, <2>1, GotoTask, GotoIdle DEF RemoveSecret, Stages, NoTask
  <2>3. QED
    BY <1>7, <2>1, <2>2 DEF RemoveSecret, Task
<1>8. ASSUME NEW c \in Clients, RemoveBundle(c) PROVE TypeOK'
  <2>1. task[c] # NoTask /\ task[c] \in Task
    BY <1>8, BusyTask DEF RemoveBundle, Stages
  <2>2. task' \in [Clients -> Task \cup {NoTask}]
    BY <1>8, <2>1, GotoTask, GotoIdle DEF RemoveBundle, Stages, NoTask
  <2>3. QED
    BY <1>8, <2>1, <2>2 DEF RemoveBundle, Task
<1>9. ASSUME NEW c \in Clients, Purge(c) PROVE TypeOK'
  <2>1. task[c] # NoTask /\ task[c] \in Task
    BY <1>9, BusyTask DEF Purge, Stages
  <2>2. task' \in [Clients -> Task \cup {NoTask}]
    BY <1>9, <2>1, GotoTask, GotoIdle DEF Purge, Stages, NoTask
  <2>3. QED
    BY <1>9, <2>1, <2>2 DEF Purge, Task
<1>10. ASSUME NEW c \in Clients, Unlock(c) PROVE TypeOK'
  <2>1. task[c] # NoTask /\ task[c] \in Task
    BY <1>10, BusyTask DEF Unlock, Stages
  <2>2. task' \in [Clients -> Task \cup {NoTask}]
    BY <1>10, <2>1, GotoTask, GotoIdle DEF Unlock, Stages, NoTask
  <2>3. QED
    BY <1>10, <2>1, <2>2 DEF Unlock, Task, Release
<1>11. ASSUME NEW c \in Clients, ClearProxy(c) PROVE TypeOK'
  <2>1. task[c] # NoTask /\ task[c] \in Task
    BY <1>11, BusyTask DEF ClearProxy, Stages
  <2>2. task' \in [Clients -> Task \cup {NoTask}]
    BY <1>11, <2>1, GotoTask, GotoIdle DEF ClearProxy, Stages, NoTask, AfterProxy
  <2>3. QED
    BY <1>11, <2>1, <2>2 DEF ClearProxy, Task
<1>12. ASSUME NEW c \in Clients, TruncateSecret(c) PROVE TypeOK'
  <2>1. task[c] # NoTask /\ task[c] \in Task
    BY <1>12, BusyTask DEF TruncateSecret, Stages
  <2>2. task' \in [Clients -> Task \cup {NoTask}]
    BY <1>12, <2>1, GotoTask, GotoIdle DEF TruncateSecret, Stages, NoTask
  <2>3. QED
    BY <1>12, <2>1, <2>2 DEF TruncateSecret, Task
<1>13. ASSUME NEW c \in Clients, WriteSecret(c) PROVE TypeOK'
  <2>1. task[c] # NoTask /\ task[c] \in Task
    BY <1>13, BusyTask DEF WriteSecret, Stages
  <2>2. task' \in [Clients -> Task \cup {NoTask}]
    BY <1>13, <2>1, GotoTask, GotoIdle DEF WriteSecret, Stages, NoTask, AfterProxy
  <2>3. QED
    BY <1>13, <2>1, <2>2 DEF WriteSecret, Task
<1>14. ASSUME NEW c \in Clients, ProxyFails(c) PROVE TypeOK'
  <2>1. task[c] # NoTask /\ task[c] \in Task
    BY <1>14, BusyTask DEF ProxyFails, Stages
  <2>2. task' \in [Clients -> Task \cup {NoTask}]
    BY <1>14, <2>1, GotoTask, GotoIdle DEF ProxyFails, Stages, NoTask
  <2>3. QED
    BY <1>14, <2>1, <2>2 DEF ProxyFails, Task
<1>15. ASSUME NEW m \in Names, SessionSaved(m) PROVE TypeOK'
  BY <1>15 DEF SessionSaved
<1>16. ASSUME NEW p \in Procs, Crash(p) PROVE TypeOK'
  BY <1>16 DEF Crash
<1>17. QED
  BY <1>1, <1>2, <1>3, <1>4, <1>5, <1>6, <1>7, <1>8, <1>9, <1>10, <1>11, <1>12,
     <1>13, <1>14, <1>15, <1>16 DEF Next, Step

\* Whoever is in the critical section of a process is alone there.
LEMMA Exclusion ==
  ASSUME Holding, SingleProcess, NEW c \in Clients, NEW d \in Clients,
         task[c].pc \in Critical, task[d].pc \in Critical
  PROVE  c = d
  BY DEF Holding, SingleProcess

\* A step moves the task of its own client only.
LEMMA StepFrame ==
  ASSUME TypeOK, NEW c \in Clients, Step(c), NEW d \in Clients \ {c}
  PROVE  task'[d] = task[d]
  BY DEF TypeOK, Goto, Step, Lock, LoadRefused, Load, Rename, Fails, RemoveSecret, RemoveBundle,
     Purge, Unlock, ClearProxy, TruncateSecret, WriteSecret, ProxyFails

\* The mutex is taken on entering the critical section and given back only by
\* its holder, when it leaves.
LEMMA HoldingStep == TypeOK /\ Holding /\ Next => Holding'
<1> SUFFICES ASSUME TypeOK, Holding, Next PROVE Holding'
  OBVIOUS
<1> USE StoreAssumption DEF Holding, Critical
<1>1. ASSUME NEW c \in Clients, Start(c) PROVE Holding'
  BY <1>1, StartTask DEF TypeOK
<1>2. ASSUME NEW c \in Clients, Lock(c) PROVE Holding'
  <2>1. task[c] # NoTask /\ task[c] \in Task
    BY <1>2, BusyTask DEF Lock, Stages
  <2>2. \A d \in Clients \ {c} : task'[d] = task[d]
    BY <1>2, StepFrame DEF Step
  <2>3. task'[c].pc \in Critical => held'[ProcOf[c]] = c
    BY <1>2, <2>1, GotoTask, GotoIdle
    DEF Lock, Stages, NoTask, TypeOK, AfterProxy, Release
  <2>4. QED
    BY <1>2, <2>2, <2>3 DEF Lock, TypeOK, Release
<1>3. ASSUME NEW c \in Clients, LoadRefused(c) PROVE Holding'
  <2>1. task[c] # NoTask /\ task[c] \in Task
    BY <1>3, BusyTask DEF LoadRefused, Stages
  <2>2. \A d \in Clients \ {c} : task'[d] = task[d]
    BY <1>3, StepFrame DEF Step
  <2>3. task'[c].pc \in Critical => held'[ProcOf[c]] = c
    BY <1>3, <2>1, GotoTask, GotoIdle
    DEF LoadRefused, Stages, NoTask, TypeOK, AfterProxy, Release
  <2>4. QED
    BY <1>3, <2>2, <2>3 DEF LoadRefused, TypeOK, Release
<1>4. ASSUME NEW c \in Clients, Load(c) PROVE Holding'
  <2>1. task[c] # NoTask /\ task[c] \in Task
    BY <1>4, BusyTask DEF Load, Stages
  <2>2. \A d \in Clients \ {c} : task'[d] = task[d]
    BY <1>4, StepFrame DEF Step
  <2>3. task'[c].pc \in Critical => held'[ProcOf[c]] = c
    BY <1>4, <2>1, GotoTask, GotoIdle
    DEF Load, Stages, NoTask, TypeOK, AfterProxy, Release
  <2>4. QED
    BY <1>4, <2>2, <2>3 DEF Load, TypeOK, Release
<1>5. ASSUME NEW c \in Clients, Rename(c) PROVE Holding'
  <2>1. task[c] # NoTask /\ task[c] \in Task
    BY <1>5, BusyTask DEF Rename, Stages
  <2>2. \A d \in Clients \ {c} : task'[d] = task[d]
    BY <1>5, StepFrame DEF Step
  <2>3. task'[c].pc \in Critical => held'[ProcOf[c]] = c
    BY <1>5, <2>1, GotoTask, GotoIdle
    DEF Rename, Stages, NoTask, TypeOK, AfterProxy, Release
  <2>4. QED
    BY <1>5, <2>2, <2>3 DEF Rename, TypeOK, Release
<1>6. ASSUME NEW c \in Clients, Fails(c) PROVE Holding'
  <2>1. task[c] # NoTask /\ task[c] \in Task
    BY <1>6, BusyTask DEF Fails, Stages
  <2>2. \A d \in Clients \ {c} : task'[d] = task[d]
    BY <1>6, StepFrame DEF Step
  <2>3. task'[c].pc \in Critical => held'[ProcOf[c]] = c
    BY <1>6, <2>1, GotoTask, GotoIdle
    DEF Fails, Stages, NoTask, TypeOK, AfterProxy, Release
  <2>4. QED
    BY <1>6, <2>2, <2>3 DEF Fails, TypeOK, Release
<1>7. ASSUME NEW c \in Clients, RemoveSecret(c) PROVE Holding'
  <2>1. task[c] # NoTask /\ task[c] \in Task
    BY <1>7, BusyTask DEF RemoveSecret, Stages
  <2>2. \A d \in Clients \ {c} : task'[d] = task[d]
    BY <1>7, StepFrame DEF Step
  <2>3. task'[c].pc \in Critical => held'[ProcOf[c]] = c
    BY <1>7, <2>1, GotoTask, GotoIdle
    DEF RemoveSecret, Stages, NoTask, TypeOK, AfterProxy, Release
  <2>4. QED
    BY <1>7, <2>2, <2>3 DEF RemoveSecret, TypeOK, Release
<1>8. ASSUME NEW c \in Clients, RemoveBundle(c) PROVE Holding'
  <2>1. task[c] # NoTask /\ task[c] \in Task
    BY <1>8, BusyTask DEF RemoveBundle, Stages
  <2>2. \A d \in Clients \ {c} : task'[d] = task[d]
    BY <1>8, StepFrame DEF Step
  <2>3. task'[c].pc \in Critical => held'[ProcOf[c]] = c
    BY <1>8, <2>1, GotoTask, GotoIdle
    DEF RemoveBundle, Stages, NoTask, TypeOK, AfterProxy, Release
  <2>4. QED
    BY <1>8, <2>2, <2>3 DEF RemoveBundle, TypeOK, Release
<1>9. ASSUME NEW c \in Clients, Purge(c) PROVE Holding'
  <2>1. task[c] # NoTask /\ task[c] \in Task
    BY <1>9, BusyTask DEF Purge, Stages
  <2>2. \A d \in Clients \ {c} : task'[d] = task[d]
    BY <1>9, StepFrame DEF Step
  <2>3. task'[c].pc \in Critical => held'[ProcOf[c]] = c
    BY <1>9, <2>1, GotoTask, GotoIdle
    DEF Purge, Stages, NoTask, TypeOK, AfterProxy, Release
  <2>4. QED
    BY <1>9, <2>2, <2>3 DEF Purge, TypeOK, Release
<1>10. ASSUME NEW c \in Clients, Unlock(c) PROVE Holding'
  <2>1. task[c] # NoTask /\ task[c] \in Task
    BY <1>10, BusyTask DEF Unlock, Stages
  <2>2. \A d \in Clients \ {c} : task'[d] = task[d]
    BY <1>10, StepFrame DEF Step
  <2>3. task'[c].pc \in Critical => held'[ProcOf[c]] = c
    BY <1>10, <2>1, GotoTask, GotoIdle
    DEF Unlock, Stages, NoTask, TypeOK, AfterProxy, Release
  <2>4. QED
    BY <1>10, <2>2, <2>3 DEF Unlock, TypeOK, Release
<1>11. ASSUME NEW c \in Clients, ClearProxy(c) PROVE Holding'
  <2>1. task[c] # NoTask /\ task[c] \in Task
    BY <1>11, BusyTask DEF ClearProxy, Stages
  <2>2. \A d \in Clients \ {c} : task'[d] = task[d]
    BY <1>11, StepFrame DEF Step
  <2>3. task'[c].pc \in Critical => held'[ProcOf[c]] = c
    BY <1>11, <2>1, GotoTask, GotoIdle
    DEF ClearProxy, Stages, NoTask, TypeOK, AfterProxy, Release
  <2>4. QED
    BY <1>11, <2>2, <2>3 DEF ClearProxy, TypeOK, Release
<1>12. ASSUME NEW c \in Clients, TruncateSecret(c) PROVE Holding'
  <2>1. task[c] # NoTask /\ task[c] \in Task
    BY <1>12, BusyTask DEF TruncateSecret, Stages
  <2>2. \A d \in Clients \ {c} : task'[d] = task[d]
    BY <1>12, StepFrame DEF Step
  <2>3. task'[c].pc \in Critical => held'[ProcOf[c]] = c
    BY <1>12, <2>1, GotoTask, GotoIdle
    DEF TruncateSecret, Stages, NoTask, TypeOK, AfterProxy, Release
  <2>4. QED
    BY <1>12, <2>2, <2>3 DEF TruncateSecret, TypeOK, Release
<1>13. ASSUME NEW c \in Clients, WriteSecret(c) PROVE Holding'
  <2>1. task[c] # NoTask /\ task[c] \in Task
    BY <1>13, BusyTask DEF WriteSecret, Stages
  <2>2. \A d \in Clients \ {c} : task'[d] = task[d]
    BY <1>13, StepFrame DEF Step
  <2>3. task'[c].pc \in Critical => held'[ProcOf[c]] = c
    BY <1>13, <2>1, GotoTask, GotoIdle
    DEF WriteSecret, Stages, NoTask, TypeOK, AfterProxy, Release
  <2>4. QED
    BY <1>13, <2>2, <2>3 DEF WriteSecret, TypeOK, Release
<1>14. ASSUME NEW c \in Clients, ProxyFails(c) PROVE Holding'
  <2>1. task[c] # NoTask /\ task[c] \in Task
    BY <1>14, BusyTask DEF ProxyFails, Stages
  <2>2. \A d \in Clients \ {c} : task'[d] = task[d]
    BY <1>14, StepFrame DEF Step
  <2>3. task'[c].pc \in Critical => held'[ProcOf[c]] = c
    BY <1>14, <2>1, GotoTask, GotoIdle
    DEF ProxyFails, Stages, NoTask, TypeOK, AfterProxy, Release
  <2>4. QED
    BY <1>14, <2>2, <2>3 DEF ProxyFails, TypeOK, Release
<1>15. ASSUME NEW m \in Names, SessionSaved(m) PROVE Holding'
  BY <1>15 DEF SessionSaved
<1>16. ASSUME NEW p \in Procs, Crash(p) PROVE Holding'
  BY <1>16 DEF Crash, NoTask, TypeOK
<1>17. QED
  BY <1>1, <1>2, <1>3, <1>4, <1>5, <1>6, <1>7, <1>8, <1>9, <1>10, <1>11, <1>12,
     <1>13, <1>14, <1>15, <1>16 DEF Next, Step

\* Only Load leads to a rename, and nobody else renames before it.
LEMMA FreshStep == SingleProcess /\ IInv /\ Next => Fresh'
<1> SUFFICES ASSUME SingleProcess, TypeOK, Holding, Fresh, Next PROVE Fresh'
  BY DEF IInv
<1> USE DEF Fresh
<1>1. ASSUME NEW c \in Clients, Start(c) PROVE Fresh'
  <2>1. task'[c].pc # "rename" /\ doc' = doc
    BY <1>1, StartTask DEF TypeOK
  <2>2. \A d \in Clients \ {c} : task'[d] = task[d]
    BY <1>1, StartTask DEF TypeOK
  <2>3. QED
    BY <2>1, <2>2 DEF Refused, Changed
<1>2. ASSUME NEW c \in Clients, Lock(c) PROVE Fresh'
  <2>1. task[c] # NoTask /\ task[c] \in Task
    BY <1>2, BusyTask DEF Lock, Stages
  <2>2. task'[c].pc # "rename" /\ doc' = doc
    BY <1>2, <2>1, GotoTask, GotoIdle DEF Lock, Stages, NoTask, TypeOK, AfterProxy, files
  <2>3. \A d \in Clients \ {c} : task'[d] = task[d]
    BY <1>2, StepFrame DEF Step
  <2>4. QED
    BY <2>2, <2>3 DEF Refused, Changed
<1>3. ASSUME NEW c \in Clients, LoadRefused(c) PROVE Fresh'
  <2>1. task[c] # NoTask /\ task[c] \in Task
    BY <1>3, BusyTask DEF LoadRefused, Stages
  <2>2. task'[c].pc # "rename" /\ doc' = doc
    BY <1>3, <2>1, GotoTask, GotoIdle DEF LoadRefused, Stages, NoTask, TypeOK, AfterProxy, files
  <2>3. \A d \in Clients \ {c} : task'[d] = task[d]
    BY <1>3, StepFrame DEF Step
  <2>4. QED
    BY <2>2, <2>3 DEF Refused, Changed
<1>4. ASSUME NEW c \in Clients, Load(c) PROVE Fresh'
  <2>1. task[c] # NoTask /\ task[c] \in Task
    BY <1>4, BusyTask DEF Load, Stages
  <2>2. \A d \in Clients \ {c} : task'[d] = task[d]
    BY <1>4, StepFrame DEF Step
  <2>3. /\ task'[c].copy = Changed(task[c], doc)
        /\ task'[c].kind = task[c].kind /\ task'[c].name = task[c].name
        /\ task'[c].draft = task[c].draft
        /\ doc' = doc
    BY <1>4, <2>1 DEF Load, TypeOK, files, Task
  <2>4. task'[c].copy = Changed(task'[c], doc')
    BY <2>3 DEF Changed
  <2>5. (~Refused(task[c]))'
    BY <1>4, <2>3 DEF Load, Refused
  <2>6. ASSUME NEW d \in Clients \ {c}, task'[d].pc = "rename"
        PROVE  task'[d].copy = Changed(task'[d], doc') /\ (~Refused(task[d]))'
    BY <2>2, <2>3, <2>6 DEF Refused, Changed
  <2>7. QED
    BY <2>4, <2>5, <2>6
<1>5. ASSUME NEW c \in Clients, Rename(c) PROVE Fresh'
  <2>1. task[c] # NoTask /\ task[c] \in Task
    BY <1>5, BusyTask DEF Rename, Stages
  <2>2. task'[c].pc # "rename"
    BY <1>5, <2>1, GotoTask DEF Rename, Stages
  <2>3. \A d \in Clients \ {c} : task'[d] = task[d] /\ task[d].pc # "rename"
    BY <1>5, StepFrame, Exclusion DEF Rename, Critical, Step
  <2>4. QED
    BY <2>2, <2>3
<1>6. ASSUME NEW c \in Clients, Fails(c) PROVE Fresh'
  <2>1. task[c] # NoTask /\ task[c] \in Task
    BY <1>6, BusyTask DEF Fails, Stages
  <2>2. task'[c].pc # "rename" /\ doc' = doc
    BY <1>6, <2>1, GotoTask, GotoIdle DEF Fails, Stages, NoTask, TypeOK, AfterProxy, files
  <2>3. \A d \in Clients \ {c} : task'[d] = task[d]
    BY <1>6, StepFrame DEF Step
  <2>4. QED
    BY <2>2, <2>3 DEF Refused, Changed
<1>7. ASSUME NEW c \in Clients, RemoveSecret(c) PROVE Fresh'
  <2>1. task[c] # NoTask /\ task[c] \in Task
    BY <1>7, BusyTask DEF RemoveSecret, Stages
  <2>2. task'[c].pc # "rename" /\ doc' = doc
    BY <1>7, <2>1, GotoTask, GotoIdle DEF RemoveSecret, Stages, NoTask, TypeOK, AfterProxy, files
  <2>3. \A d \in Clients \ {c} : task'[d] = task[d]
    BY <1>7, StepFrame DEF Step
  <2>4. QED
    BY <2>2, <2>3 DEF Refused, Changed
<1>8. ASSUME NEW c \in Clients, RemoveBundle(c) PROVE Fresh'
  <2>1. task[c] # NoTask /\ task[c] \in Task
    BY <1>8, BusyTask DEF RemoveBundle, Stages
  <2>2. task'[c].pc # "rename" /\ doc' = doc
    BY <1>8, <2>1, GotoTask, GotoIdle DEF RemoveBundle, Stages, NoTask, TypeOK, AfterProxy, files
  <2>3. \A d \in Clients \ {c} : task'[d] = task[d]
    BY <1>8, StepFrame DEF Step
  <2>4. QED
    BY <2>2, <2>3 DEF Refused, Changed
<1>9. ASSUME NEW c \in Clients, Purge(c) PROVE Fresh'
  <2>1. task[c] # NoTask /\ task[c] \in Task
    BY <1>9, BusyTask DEF Purge, Stages
  <2>2. task'[c].pc # "rename" /\ doc' = doc
    BY <1>9, <2>1, GotoTask, GotoIdle DEF Purge, Stages, NoTask, TypeOK, AfterProxy, files
  <2>3. \A d \in Clients \ {c} : task'[d] = task[d]
    BY <1>9, StepFrame DEF Step
  <2>4. QED
    BY <2>2, <2>3 DEF Refused, Changed
<1>10. ASSUME NEW c \in Clients, Unlock(c) PROVE Fresh'
  <2>1. task[c] # NoTask /\ task[c] \in Task
    BY <1>10, BusyTask DEF Unlock, Stages
  <2>2. task'[c].pc # "rename" /\ doc' = doc
    BY <1>10, <2>1, GotoTask, GotoIdle DEF Unlock, Stages, NoTask, TypeOK, AfterProxy, files
  <2>3. \A d \in Clients \ {c} : task'[d] = task[d]
    BY <1>10, StepFrame DEF Step
  <2>4. QED
    BY <2>2, <2>3 DEF Refused, Changed
<1>11. ASSUME NEW c \in Clients, ClearProxy(c) PROVE Fresh'
  <2>1. task[c] # NoTask /\ task[c] \in Task
    BY <1>11, BusyTask DEF ClearProxy, Stages
  <2>2. task'[c].pc # "rename" /\ doc' = doc
    BY <1>11, <2>1, GotoTask, GotoIdle DEF ClearProxy, Stages, NoTask, TypeOK, AfterProxy, files
  <2>3. \A d \in Clients \ {c} : task'[d] = task[d]
    BY <1>11, StepFrame DEF Step
  <2>4. QED
    BY <2>2, <2>3 DEF Refused, Changed
<1>12. ASSUME NEW c \in Clients, TruncateSecret(c) PROVE Fresh'
  <2>1. task[c] # NoTask /\ task[c] \in Task
    BY <1>12, BusyTask DEF TruncateSecret, Stages
  <2>2. task'[c].pc # "rename" /\ doc' = doc
    BY <1>12, <2>1, GotoTask, GotoIdle DEF TruncateSecret, Stages, NoTask, TypeOK, AfterProxy, files
  <2>3. \A d \in Clients \ {c} : task'[d] = task[d]
    BY <1>12, StepFrame DEF Step
  <2>4. QED
    BY <2>2, <2>3 DEF Refused, Changed
<1>13. ASSUME NEW c \in Clients, WriteSecret(c) PROVE Fresh'
  <2>1. task[c] # NoTask /\ task[c] \in Task
    BY <1>13, BusyTask DEF WriteSecret, Stages
  <2>2. task'[c].pc # "rename" /\ doc' = doc
    BY <1>13, <2>1, GotoTask, GotoIdle DEF WriteSecret, Stages, NoTask, TypeOK, AfterProxy, files
  <2>3. \A d \in Clients \ {c} : task'[d] = task[d]
    BY <1>13, StepFrame DEF Step
  <2>4. QED
    BY <2>2, <2>3 DEF Refused, Changed
<1>14. ASSUME NEW c \in Clients, ProxyFails(c) PROVE Fresh'
  <2>1. task[c] # NoTask /\ task[c] \in Task
    BY <1>14, BusyTask DEF ProxyFails, Stages
  <2>2. task'[c].pc # "rename" /\ doc' = doc
    BY <1>14, <2>1, GotoTask, GotoIdle DEF ProxyFails, Stages, NoTask, TypeOK, AfterProxy, files
  <2>3. \A d \in Clients \ {c} : task'[d] = task[d]
    BY <1>14, StepFrame DEF Step
  <2>4. QED
    BY <2>2, <2>3 DEF Refused, Changed
<1>15. ASSUME NEW m \in Names, SessionSaved(m) PROVE Fresh'
  BY <1>15 DEF SessionSaved, Refused, Changed
<1>16. ASSUME NEW p \in Procs, Crash(p) PROVE Fresh'
  <2>1. \A d \in Clients : task'[d] = task[d] \/ task'[d].pc = "idle"
    BY <1>16 DEF Crash, NoTask
  <2>2. QED
    BY <1>16, <2>1 DEF Crash, files, Refused, Changed
<1>17. QED
  BY <1>1, <1>2, <1>3, <1>4, <1>5, <1>6, <1>7, <1>8, <1>9, <1>10, <1>11, <1>12,
     <1>13, <1>14, <1>15, <1>16 DEF Next, Step

\* Remove holds the mutex until the artifacts are gone, so nobody adds the
\* profile again before.
LEMMA GoneStep == SingleProcess /\ IInv /\ Next => Gone'
<1> SUFFICES ASSUME SingleProcess, TypeOK, Holding, Fresh, Gone, Next PROVE Gone'
  BY DEF IInv
<1> USE DEF Gone
<1>1. ASSUME NEW c \in Clients, Start(c) PROVE Gone'
  <2>1. task'[c].pc \in {"lock", "proxy"} /\ doc' = doc
    BY <1>1, StartTask DEF TypeOK
  <2>2. \A d \in Clients \ {c} : task'[d] = task[d]
    BY <1>1, StartTask DEF TypeOK
  <2>3. QED
    BY <2>1, <2>2
<1>2. ASSUME NEW c \in Clients, Lock(c) PROVE Gone'
  <2>1. task[c] # NoTask /\ task[c] \in Task
    BY <1>2, BusyTask DEF Lock, Stages
  <2>2. /\ doc' = doc
        /\ task'[c].pc \in {"secret", "bundle", "purge"} =>
             task'[c].kind = "remove" /\ doc[task'[c].name] = Absent
    BY <1>2, <2>1, GotoTask, GotoIdle DEF Lock, Stages, NoTask, TypeOK, AfterProxy, files
  <2>3. \A d \in Clients \ {c} : task'[d] = task[d]
    BY <1>2, StepFrame DEF Step
  <2>4. QED
    BY <2>2, <2>3
<1>3. ASSUME NEW c \in Clients, LoadRefused(c) PROVE Gone'
  <2>1. task[c] # NoTask /\ task[c] \in Task
    BY <1>3, BusyTask DEF LoadRefused, Stages
  <2>2. /\ doc' = doc
        /\ task'[c].pc \in {"secret", "bundle", "purge"} =>
             task'[c].kind = "remove" /\ doc[task'[c].name] = Absent
    BY <1>3, <2>1, GotoTask, GotoIdle DEF LoadRefused, Stages, NoTask, TypeOK, AfterProxy, files
  <2>3. \A d \in Clients \ {c} : task'[d] = task[d]
    BY <1>3, StepFrame DEF Step
  <2>4. QED
    BY <2>2, <2>3
<1>4. ASSUME NEW c \in Clients, Load(c) PROVE Gone'
  <2>1. task'[c].pc = "rename" /\ doc' = doc
    BY <1>4, BusyTask DEF Load, Stages, Task, TypeOK, files
  <2>2. \A d \in Clients \ {c} : task'[d] = task[d]
    BY <1>4, StepFrame DEF Step
  <2>3. QED
    BY <2>1, <2>2
<1>5. ASSUME NEW c \in Clients, Rename(c) PROVE Gone'
  <2>1. task[c] # NoTask /\ task[c] \in Task
    BY <1>5, BusyTask DEF Rename, Stages
  <2>2. \A d \in Clients \ {c} : task'[d] = task[d] /\ task[d].pc \notin Critical
    BY <1>5, StepFrame, Exclusion DEF Rename, Critical, Step
  <2>3. doc' = Changed(task[c], doc)
    BY <1>5 DEF Rename, Fresh
  <2>4. task'[c].pc = "secret" => task'[c].kind = "remove" /\ doc'[task'[c].name] = Absent
    BY <1>5, <2>1, <2>3, GotoTask, ChangedDoc DEF Rename, Stages, TypeOK
  <2>5. task'[c].pc \notin {"bundle", "purge"}
    BY <1>5, <2>1, GotoTask DEF Rename, Stages
  <2>6. QED
    BY <2>2, <2>4, <2>5 DEF Critical
<1>6. ASSUME NEW c \in Clients, Fails(c) PROVE Gone'
  <2>1. task[c] # NoTask /\ task[c] \in Task
    BY <1>6, BusyTask DEF Fails, Stages
  <2>2. /\ doc' = doc
        /\ task'[c].pc \in {"secret", "bundle", "purge"} =>
             task'[c].kind = "remove" /\ doc[task'[c].name] = Absent
    BY <1>6, <2>1, GotoTask, GotoIdle DEF Fails, Stages, NoTask, TypeOK, AfterProxy, files
  <2>3. \A d \in Clients \ {c} : task'[d] = task[d]
    BY <1>6, StepFrame DEF Step
  <2>4. QED
    BY <2>2, <2>3
<1>7. ASSUME NEW c \in Clients, RemoveSecret(c) PROVE Gone'
  <2>1. task[c] # NoTask /\ task[c] \in Task
    BY <1>7, BusyTask DEF RemoveSecret, Stages
  <2>2. /\ doc' = doc
        /\ task'[c].pc \in {"secret", "bundle", "purge"} =>
             task'[c].kind = "remove" /\ doc[task'[c].name] = Absent
    BY <1>7, <2>1, GotoTask, GotoIdle DEF RemoveSecret, Stages, NoTask, TypeOK, AfterProxy, files
  <2>3. \A d \in Clients \ {c} : task'[d] = task[d]
    BY <1>7, StepFrame DEF Step
  <2>4. QED
    BY <2>2, <2>3
<1>8. ASSUME NEW c \in Clients, RemoveBundle(c) PROVE Gone'
  <2>1. task[c] # NoTask /\ task[c] \in Task
    BY <1>8, BusyTask DEF RemoveBundle, Stages
  <2>2. /\ doc' = doc
        /\ task'[c].pc \in {"secret", "bundle", "purge"} =>
             task'[c].kind = "remove" /\ doc[task'[c].name] = Absent
    BY <1>8, <2>1, GotoTask, GotoIdle DEF RemoveBundle, Stages, NoTask, TypeOK, AfterProxy, files
  <2>3. \A d \in Clients \ {c} : task'[d] = task[d]
    BY <1>8, StepFrame DEF Step
  <2>4. QED
    BY <2>2, <2>3
<1>9. ASSUME NEW c \in Clients, Purge(c) PROVE Gone'
  <2>1. task[c] # NoTask /\ task[c] \in Task
    BY <1>9, BusyTask DEF Purge, Stages
  <2>2. /\ doc' = doc
        /\ task'[c].pc \in {"secret", "bundle", "purge"} =>
             task'[c].kind = "remove" /\ doc[task'[c].name] = Absent
    BY <1>9, <2>1, GotoTask, GotoIdle DEF Purge, Stages, NoTask, TypeOK, AfterProxy, files
  <2>3. \A d \in Clients \ {c} : task'[d] = task[d]
    BY <1>9, StepFrame DEF Step
  <2>4. QED
    BY <2>2, <2>3
<1>10. ASSUME NEW c \in Clients, Unlock(c) PROVE Gone'
  <2>1. task[c] # NoTask /\ task[c] \in Task
    BY <1>10, BusyTask DEF Unlock, Stages
  <2>2. /\ doc' = doc
        /\ task'[c].pc \in {"secret", "bundle", "purge"} =>
             task'[c].kind = "remove" /\ doc[task'[c].name] = Absent
    BY <1>10, <2>1, GotoTask, GotoIdle DEF Unlock, Stages, NoTask, TypeOK, AfterProxy, files
  <2>3. \A d \in Clients \ {c} : task'[d] = task[d]
    BY <1>10, StepFrame DEF Step
  <2>4. QED
    BY <2>2, <2>3
<1>11. ASSUME NEW c \in Clients, ClearProxy(c) PROVE Gone'
  <2>1. task[c] # NoTask /\ task[c] \in Task
    BY <1>11, BusyTask DEF ClearProxy, Stages
  <2>2. /\ doc' = doc
        /\ task'[c].pc \in {"secret", "bundle", "purge"} =>
             task'[c].kind = "remove" /\ doc[task'[c].name] = Absent
    BY <1>11, <2>1, GotoTask, GotoIdle DEF ClearProxy, Stages, NoTask, TypeOK, AfterProxy, files
  <2>3. \A d \in Clients \ {c} : task'[d] = task[d]
    BY <1>11, StepFrame DEF Step
  <2>4. QED
    BY <2>2, <2>3
<1>12. ASSUME NEW c \in Clients, TruncateSecret(c) PROVE Gone'
  <2>1. task[c] # NoTask /\ task[c] \in Task
    BY <1>12, BusyTask DEF TruncateSecret, Stages
  <2>2. /\ doc' = doc
        /\ task'[c].pc \in {"secret", "bundle", "purge"} =>
             task'[c].kind = "remove" /\ doc[task'[c].name] = Absent
    BY <1>12, <2>1, GotoTask, GotoIdle DEF TruncateSecret, Stages, NoTask, TypeOK, AfterProxy, files
  <2>3. \A d \in Clients \ {c} : task'[d] = task[d]
    BY <1>12, StepFrame DEF Step
  <2>4. QED
    BY <2>2, <2>3
<1>13. ASSUME NEW c \in Clients, WriteSecret(c) PROVE Gone'
  <2>1. task[c] # NoTask /\ task[c] \in Task
    BY <1>13, BusyTask DEF WriteSecret, Stages
  <2>2. /\ doc' = doc
        /\ task'[c].pc \in {"secret", "bundle", "purge"} =>
             task'[c].kind = "remove" /\ doc[task'[c].name] = Absent
    BY <1>13, <2>1, GotoTask, GotoIdle DEF WriteSecret, Stages, NoTask, TypeOK, AfterProxy, files
  <2>3. \A d \in Clients \ {c} : task'[d] = task[d]
    BY <1>13, StepFrame DEF Step
  <2>4. QED
    BY <2>2, <2>3
<1>14. ASSUME NEW c \in Clients, ProxyFails(c) PROVE Gone'
  <2>1. task[c] # NoTask /\ task[c] \in Task
    BY <1>14, BusyTask DEF ProxyFails, Stages
  <2>2. /\ doc' = doc
        /\ task'[c].pc \in {"secret", "bundle", "purge"} =>
             task'[c].kind = "remove" /\ doc[task'[c].name] = Absent
    BY <1>14, <2>1, GotoTask, GotoIdle DEF ProxyFails, Stages, NoTask, TypeOK, AfterProxy, files
  <2>3. \A d \in Clients \ {c} : task'[d] = task[d]
    BY <1>14, StepFrame DEF Step
  <2>4. QED
    BY <2>2, <2>3
<1>15. ASSUME NEW m \in Names, SessionSaved(m) PROVE Gone'
  BY <1>15 DEF SessionSaved
<1>16. ASSUME NEW p \in Procs, Crash(p) PROVE Gone'
  <2>1. \A d \in Clients : task'[d] = task[d] \/ task'[d].pc = "idle"
    BY <1>16 DEF Crash, NoTask
  <2>2. QED
    BY <1>16, <2>1 DEF Crash, files
<1>17. QED
  BY <1>1, <1>2, <1>3, <1>4, <1>5, <1>6, <1>7, <1>8, <1>9, <1>10, <1>11, <1>12,
     <1>13, <1>14, <1>15, <1>16 DEF Next, Step

-----------------------------------------------------------------------------
\* The inductive invariant holds while one process uses the store.
THEOREM Invariance == SingleProcess => (Spec => []IInv)
<1> SUFFICES ASSUME SingleProcess PROVE Spec => []IInv
  OBVIOUS
<1>1. Init => IInv
  <2> SUFFICES ASSUME Init PROVE IInv
    OBVIOUS
  <2>1. TypeOK
    BY StoreAssumption DEF Init, TypeOK, Doc, Profile
  <2>2. \A c \in Clients : task[c].pc = "idle"
    BY DEF Init, NoTask
  <2>3. QED
    BY <2>1, <2>2 DEF IInv, Holding, Fresh, Gone, Critical
<1>2. IInv /\ [Next]_vars => IInv'
  <2>1. ASSUME IInv, Next PROVE IInv'
    BY <2>1, TypeStep, HoldingStep, FreshStep, GoneStep DEF IInv
  <2>2. ASSUME IInv, UNCHANGED vars PROVE IInv'
    BY <2>2 DEF IInv, TypeOK, Holding, Fresh, Gone, Refused, Changed, vars
  <2>3. QED
    BY <2>1, <2>2
<1>3. QED
  BY <1>1, <1>2, PTL DEF Spec

\* The store's variables keep their types, with any number of processes.
THEOREM TypeCorrect == Spec => []TypeOK
<1>1. Init => TypeOK
  BY StoreAssumption DEF Init, TypeOK, Doc, Profile
<1>2. TypeOK /\ [Next]_vars => TypeOK'
  <2>1. ASSUME TypeOK, UNCHANGED vars PROVE TypeOK'
    BY <2>1 DEF TypeOK, vars
  <2>2. QED
    BY <2>1, TypeStep
<1>3. QED
  BY <1>1, <1>2, PTL DEF Spec

\* Only a rename changes profiles.toml.
LEMMA OnlyRename ==
  ASSUME TypeOK, Next, doc' # doc
  PROVE  \E c \in Clients : Rename(c)
<1>1. ASSUME NEW c \in Clients, Start(c) PROVE doc' = doc
  BY <1>1, StartTask
<1>2. ASSUME NEW c \in Clients, Step(c), ~Rename(c) PROVE doc' = doc
  BY <1>2 DEF Step, files, Lock, LoadRefused, Load, Fails, RemoveSecret, RemoveBundle,
     Purge, Unlock, ClearProxy, TruncateSecret, WriteSecret, ProxyFails
<1>3. QED
  BY <1>1, <1>2 DEF Next, SessionSaved, Crash, files

\* A rename is one change of one profile, and a permitted one.
LEMMA RenameIsOneChange ==
  ASSUME IInv, NEW c \in Clients, Rename(c)
  PROVE  /\ \A m \in Names \ {task[c].name} : doc'[m] = doc[m]
         /\ Map!Next
<1>1. task[c] \in Task
  BY BusyTask DEF Rename, IInv, Stages
<1>2. doc' = [doc EXCEPT ![task[c].name] =
                IF task[c].kind = "remove" THEN Absent ELSE task[c].draft]
  BY DEF Rename, IInv, Fresh, Changed
<1>3. task[c].name \in Names /\ task[c].draft \in Profile
  BY <1>1 DEF Task
<1>4. \A m \in Names \ {task[c].name} : doc'[m] = doc[m]
  BY <1>2 DEF IInv, TypeOK, Doc
<1>5. CASE task[c].kind = "remove"
  <2>1. doc[task[c].name] # Absent
    BY <1>5 DEF IInv, Fresh, Refused, Rename
  <2>2. Map!Remove(task[c].name)
    BY <1>2, <1>5, <2>1 DEF Map!Remove
  <2>3. QED
    BY <1>3, <1>4, <2>2 DEF Map!Next
<1>6. CASE task[c].kind # "remove"
  <2>1. Map!Put(task[c].name, task[c].draft)
    BY <1>2, <1>6 DEF Map!Put
  <2>2. QED
    BY <1>3, <1>4, <2>1 DEF Map!Next
<1>7. QED
  BY <1>5, <1>6

\* The operations of one process implement the map that changes one profile at
\* a time, through refusals, I/O errors and crashes.
THEOREM Atomicity == SingleProcess => (Spec => MapSpec)
<1> SUFFICES ASSUME SingleProcess PROVE Spec => MapSpec
  OBVIOUS
<1>1. Init => Map!Init
  BY DEF Init, Map!Init, Profile
<1>2. IInv /\ [Next]_vars => [Map!Next]_doc
  <2>1. ASSUME IInv, Next, doc' # doc PROVE Map!Next
    BY <2>1, OnlyRename, RenameIsOneChange DEF IInv
  <2>2. QED
    BY <2>1 DEF vars
<1>3. QED
  BY <1>1, <1>2, Invariance, PTL DEF Spec, MapSpec, Map!Spec

\* No update of another profile is lost.
THEOREM NoLostUpdate == SingleProcess => (Spec => SaveKeepsOthers)
<1> SUFFICES ASSUME SingleProcess PROVE Spec => SaveKeepsOthers
  OBVIOUS
<1> DEFINE Keeps == \A c \in Clients :
                      Rename(c) => \A m \in Names \ {task[c].name} : doc'[m] = doc[m]
<1>1. IInv /\ [Next]_vars => [Keeps]_vars
  BY RenameIsOneChange
<1>2. QED
  BY <1>1, Invariance, PTL DEF Spec, SaveKeepsOthers

\* Remove never takes the artifacts of a profile that was added again.
THEOREM RemoveIsContained == SingleProcess => (Spec => RemoveSparesReAdded)
<1> SUFFICES ASSUME SingleProcess PROVE Spec => RemoveSparesReAdded
  OBVIOUS
<1> DEFINE Spares == \A c \in Clients :
                       RemoveSecret(c) \/ RemoveBundle(c) \/ Purge(c) =>
                         doc[task[c].name] = Absent
<1>1. IInv /\ [Next]_vars => [Spares]_vars
  BY DEF IInv, Gone, RemoveSecret, RemoveBundle, Purge
<1>2. QED
  BY <1>1, Invariance, PTL DEF Spec, RemoveSparesReAdded
=============================================================================
