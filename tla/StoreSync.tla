------------------------------ MODULE StoreSync ------------------------------
(***************************************************************************)
(* Sharing the store through git (internal/infra/store/git.go): several    *)
(* machines edit their checkouts and run store sync against one remote.    *)
(* What git itself does is modelled from git 2.39: a rebase that conflicts *)
(* stops and leaves the checkout in the middle of it, and from then on     *)
(* pull --rebase, or the push of a detached HEAD, fails.                   *)
(*                                                                         *)
(* A checkout and the remote are the sets of edits they contain.           *)
(***************************************************************************)
EXTENDS Naturals

CONSTANTS Machines, Files,
          Binary,  \* the files git cannot merge: bundles, secrets
          MayEdit, \* MayEdit[m]: the files m edits
          MaxEdits \* bound: edits of a machine

ASSUME SyncAssumption ==
  /\ Binary \subseteq Files
  /\ MayEdit \in [Machines -> SUBSET Files]
  /\ MaxEdits \in Nat

VARIABLES
  dirty,    \* dirty[m]: edits in m's working tree that are not committed
  head,     \* head[m]: edits in the history of m's HEAD
  stopped,  \* stopped[m]: edits in commits a stopped rebase has set aside
  rebasing, \* the machines in the middle of a rebase
  remote,   \* edits in origin's branch
  syncing,
  begun,    \* begun[m]: the edits m's sync set out to share
  result,  \* result[m]: "none", "ok" or "error"
  count

syncVars == <<dirty, head, stopped, rebasing, remote, syncing, begun, result, count>>

Edits == [by : Machines, file : Files, n : 1..MaxEdits]
Touched(edits) == {e.file : e \in edits}

SyncInit ==
  /\ dirty = [m \in Machines |-> {}]
  /\ head = [m \in Machines |-> {}]
  /\ stopped = [m \in Machines |-> {}]
  /\ rebasing = {}
  /\ remote = {}
  /\ syncing = [m \in Machines |-> "idle"]
  /\ begun = [m \in Machines |-> {}]
  /\ result = [m \in Machines |-> "none"]
  /\ count = [m \in Machines |-> 0]

Move(m, from, to) == syncing[m] = from /\ syncing' = [syncing EXCEPT ![m] = to]
Return(m, how) ==
  /\ syncing' = [syncing EXCEPT ![m] = "idle"]
  /\ result' = [result EXCEPT ![m] = how]

\* Another command writes a file of the store, also while a sync is running.
Edit(m) ==
  /\ count[m] < MaxEdits
  /\ count' = [count EXCEPT ![m] = @ + 1]
  /\ \E f \in MayEdit[m] :
       dirty' = [dirty EXCEPT ![m] = @ \cup {[by |-> m, file |-> f, n |-> count'[m]]}]
  /\ UNCHANGED <<head, stopped, rebasing, remote, syncing, begun, result>>

-----------------------------------------------------------------------------
(* Sync *)

\* Wrong on purpose, as every ...Mutant below: git commit -a, without the add.
CommitMutant(m) ==
  /\ Move(m, "idle", "remote")
  /\ \E new \in SUBSET dirty[m] :
       /\ head' = [head EXCEPT ![m] = @ \cup (dirty[m] \ new)]
       /\ dirty' = [dirty EXCEPT ![m] = new]
  /\ begun' = [begun EXCEPT ![m] = head[m] \cup dirty[m]]
  /\ result' = [result EXCEPT ![m] = "none"]
  /\ UNCHANGED <<stopped, rebasing, remote, count>>

\* git add -A and git commit: everything in the working tree.
Commit(m) ==
  /\ Move(m, "idle", "remote")
  /\ head' = [head EXCEPT ![m] = @ \cup dirty[m]]
  /\ begun' = [begun EXCEPT ![m] = head[m] \cup dirty[m]]
  /\ dirty' = [dirty EXCEPT ![m] = {}]
  /\ result' = [result EXCEPT ![m] = "none"]
  /\ UNCHANGED <<stopped, rebasing, remote, count>>

\* Never pulls.
HasCommitsMutant(m) ==
  /\ remote # {}
  /\ Move(m, "remote", "push")
  /\ UNCHANGED <<dirty, head, stopped, rebasing, remote, begun, result, count>>

\* remoteHasCommits; a remote that cannot be reached counts as an empty one.
HasCommits(m) ==
  /\ remote # {}
  /\ Move(m, "remote", "pull")
  /\ UNCHANGED <<dirty, head, stopped, rebasing, remote, begun, result, count>>

NoCommits(m) ==
  /\ Move(m, "remote", "push")
  /\ UNCHANGED <<dirty, head, stopped, rebasing, remote, begun, result, count>>

\* What the rebase would replay, and what it replays it onto.
Local(m) == head[m] \ remote
Upstream(m) == remote \ head[m]
Clash(m) == Touched(Local(m)) \cap Touched(Upstream(m))

\* git pull --rebase: both sides' edits, where git can merge them.
PullRebase(m) ==
  /\ m \notin rebasing /\ dirty[m] = {}
  /\ Clash(m) \cap Binary = {}
  /\ Move(m, "pull", "push")
  /\ head' = [head EXCEPT ![m] = @ \cup remote]
  /\ UNCHANGED <<dirty, stopped, rebasing, remote, begun, result, count>>

\* It stops at a commit that does not apply: HEAD and the working tree are the
\* remote's, with those of m's commits that came before it.
PullConflict(m) ==
  /\ syncing[m] = "pull" /\ m \notin rebasing /\ dirty[m] = {}
  /\ Clash(m) # {}
  /\ \E applied \in SUBSET {e \in Local(m) : e.file \notin Clash(m)} :
       /\ head' = [head EXCEPT ![m] = remote \cup applied]
       /\ stopped' = [stopped EXCEPT ![m] = @ \cup (Local(m) \ applied)]
  /\ rebasing' = rebasing \cup {m}
  /\ Return(m, "error")
  /\ UNCHANGED <<dirty, remote, begun, count>>

\* Uncommitted changes, a rebase in progress, or the network.
PullFails(m) ==
  /\ syncing[m] = "pull"
  /\ Return(m, "error")
  /\ UNCHANGED <<dirty, head, stopped, rebasing, remote, begun, count>>

\* In the middle of a rebase with nothing new on either side, pull has nothing to do.
PullNothing(m) ==
  /\ m \in rebasing /\ head[m] = remote
  /\ Move(m, "pull", "push")
  /\ UNCHANGED <<dirty, head, stopped, rebasing, remote, begun, result, count>>

\* git push -u origin HEAD: only a branch, and only a fast-forward.
Push(m) ==
  /\ syncing[m] = "push" /\ m \notin rebasing /\ remote \subseteq head[m]
  /\ remote' = head[m]
  /\ Return(m, "ok")
  /\ UNCHANGED <<dirty, head, stopped, rebasing, begun, count>>

PushFails(m) ==
  /\ syncing[m] = "push"
  /\ Return(m, "error")
  /\ UNCHANGED <<dirty, head, stopped, rebasing, remote, begun, count>>

-----------------------------------------------------------------------------
SyncStep(m) ==
  \/ HasCommits(m) \/ NoCommits(m) \/ PullRebase(m) \/ PullConflict(m) \/ PullFails(m)
  \/ PullNothing(m) \/ Push(m) \/ PushFails(m)

SyncNext == \E m \in Machines : Edit(m) \/ Commit(m) \/ SyncStep(m)

SyncSpec == SyncInit /\ [][SyncNext]_syncVars

\* Somebody runs store sync again and again, and the network is there often
\* enough for every git command that can reach it to do so sometimes.
FairSyncSpec ==
  /\ SyncSpec
  /\ \A m \in Machines :
       /\ WF_syncVars(Commit(m)) /\ WF_syncVars(SyncStep(m))
       /\ SF_syncVars(HasCommits(m)) /\ SF_syncVars(PullRebase(m) \/ PullConflict(m)) /\ SF_syncVars(Push(m))

-----------------------------------------------------------------------------
\* Types of the variables.
SyncTypeOK ==
  /\ dirty \in [Machines -> SUBSET Edits]
  /\ head \in [Machines -> SUBSET Edits]
  /\ stopped \in [Machines -> SUBSET Edits]
  /\ rebasing \subseteq Machines
  /\ remote \subseteq Edits
  /\ syncing \in [Machines -> {"idle", "remote", "pull", "push"}]
  /\ begun \in [Machines -> SUBSET Edits]
  /\ result \in [Machines -> {"none", "ok", "error"}]
  /\ count \in [Machines -> 0..MaxEdits]

\* A sync that returns without error has shared every file of the store that was
\* in the checkout when it started (git.go:122-131), whoever pushed meanwhile.
SuccessShares ==
  \A m \in Machines : result[m] = "ok" => begun[m] \subseteq remote

\* Whatever a sync runs into, the edits a machine made are still in its checkout,
\* or in commits git has set aside for a rebase to be continued.
NothingDropped ==
  \A m \in Machines : \A n \in 1..count[m] :
    \E e \in dirty[m] \cup head[m] \cup stopped[m] : e.by = m /\ e.n = n

\* The invariants in one: types, success means shared, and no edit dropped.
SyncSafety == SyncTypeOK /\ SuccessShares /\ NothingDropped

\* What a machine has changed reaches the remote if it keeps syncing, although
\* others push meanwhile and the network comes and goes, unless one of its syncs
\* stopped in the middle of a rebase (git.go:115).
WorkReachesRemote ==
  \A m \in Machines : \A n \in 1..MaxEdits :
    count[m] >= n ~> m \in rebasing \/ \E e \in remote : e.by = m /\ e.n = n
=============================================================================
