---------------------------- MODULE BrowserInstall ----------------------------
(***************************************************************************)
(* The cache of Chrome for Testing builds (internal/infra/browser): hamzad *)
(* processes running browser install and browser remove, one version at a  *)
(* time, killed anywhere.  Every version has one directory; an install is  *)
(* extracted into a temp directory beside it and renamed into place.       *)
(***************************************************************************)
EXTENDS FiniteSets, Naturals

CONSTANTS Procs, Versions, Absent,
          MaxOps,    \* bound: commands started
          MaxKills \* bound: processes killed

ASSUME InstallAssumption ==
  /\ MaxOps \in Nat /\ MaxKills \in Nat
  /\ \A d \in SUBSET {"exec", "files", "meta"} : d # Absent

VARIABLES
  dir,     \* dir[v]: the parts of the directory of v that are there, or Absent
  temp,    \* temp[p]: the temp directory of p's install, or Absent
  litter,  \* temp directories of killed processes: [version, parts]
  command, \* command[p]: how far p's command is
  version, \* version[p]: the version it is about
  outcome, \* outcome[p]: how p's last command returned
  ops, kills

cacheVars == <<dir, temp, litter, command, version, outcome, ops, kills>>

Parts == {"exec", "files", "meta"} \* the binary, what else it needs, metadata.json

CacheInit ==
  /\ dir = [v \in Versions |-> Absent]
  /\ temp = [p \in Procs |-> Absent]
  /\ litter = {}
  /\ command = [p \in Procs |-> "idle"]
  /\ version \in [Procs -> Versions]
  /\ outcome = [p \in Procs |-> "none"]
  /\ ops = 0 /\ kills = 0

Advance(p, from, to) == command[p] = from /\ command' = [command EXCEPT ![p] = to]
Has(parts, part) == parts # Absent /\ part \in parts

\* readInstalled and ExecPath: the metadata and the binary are both present.
Installed(v) == Has(dir[v], "meta") /\ Has(dir[v], "exec")

Return(p, how) ==
  /\ command' = [command EXCEPT ![p] = "idle"]
  /\ outcome' = [outcome EXCEPT ![p] = how]

Begin(p, v, first) ==
  /\ ops < MaxOps /\ ops' = ops + 1
  /\ Advance(p, "idle", first)
  /\ version' = [version EXCEPT ![p] = v]
  /\ outcome' = [outcome EXCEPT ![p] = "none"]

-----------------------------------------------------------------------------
(* Install *)

\* Resolve and readInstalled; an install that is present is returned as it is.
StartInstall(p, v) ==
  /\ ~Installed(v)
  /\ Begin(p, v, "mktemp")
  /\ UNCHANGED <<dir, temp, litter, kills>>

MkTemp(p) ==
  /\ Advance(p, "mktemp", "extract")
  /\ temp' = [temp EXCEPT ![p] = {}]
  /\ UNCHANGED <<dir, litter, version, outcome, ops, kills>>

\* Wrong on purpose, as every ...Mutant below: stops after the first entry.
ExtractMutant(p) ==
  /\ Advance(p, "extract", "metadata")
  /\ \E part \in {"exec", "files"} : temp' = [temp EXCEPT ![p] = @ \cup {part}]
  /\ UNCHANGED <<dir, litter, version, outcome, ops, kills>>

\* extractZip, in the order of the archive.
Extract(p) ==
  /\ command[p] = "extract"
  /\ \E part \in {"exec", "files"} \ temp[p] :
       /\ temp' = [temp EXCEPT ![p] = @ \cup {part}]
       /\ command' = IF temp'[p] = {"exec", "files"}
                     THEN [command EXCEPT ![p] = "metadata"] ELSE command
  /\ UNCHANGED <<dir, litter, version, outcome, ops, kills>>

\* writeMetadata "is written last".
WriteMetadata(p) ==
  /\ Advance(p, "metadata", "rename")
  /\ temp' = [temp EXCEPT ![p] = @ \cup {"meta"}]
  /\ UNCHANGED <<dir, litter, version, outcome, ops, kills>>

\* The download, the archive or the disk fails; the deferred RemoveAll(tmp).
InstallFails(p) ==
  /\ command[p] \in {"extract", "metadata"}
  /\ temp' = [temp EXCEPT ![p] = Absent]
  /\ Return(p, "failed")
  /\ UNCHANGED <<dir, litter, version, ops, kills>>

\* os.Rename onto a directory works only when it is absent or empty.
Publish(p) ==
  /\ command[p] = "rename" /\ dir[version[p]] \in {Absent, {}}
  /\ dir' = [dir EXCEPT ![version[p]] = temp[p]]
  /\ temp' = [temp EXCEPT ![p] = Absent]
  /\ Return(p, "installed")
  /\ UNCHANGED <<litter, version, ops, kills>>

\* Clears the way for the rename.
PublishRefusedMutant(p) ==
  /\ command[p] = "rename" /\ dir[version[p]] \notin {Absent, {}}
  /\ dir' = [dir EXCEPT ![version[p]] = Absent]
  /\ UNCHANGED <<temp, litter, command, version, outcome, ops, kills>>

PublishRefused(p) ==
  /\ command[p] = "rename" /\ dir[version[p]] \notin {Absent, {}}
  /\ temp' = [temp EXCEPT ![p] = Absent]
  /\ Return(p, "refused")
  /\ UNCHANGED <<dir, litter, version, ops, kills>>

-----------------------------------------------------------------------------
(* Remove *)

StartRemove(p, v) ==
  /\ dir[v] # Absent
  /\ Begin(p, v, "remove")
  /\ UNCHANGED <<dir, temp, litter, kills>>

\* os.RemoveAll unlinks what the directory holds, in the order it lists it ...
Unlink(p) ==
  /\ command[p] = "remove" /\ dir[version[p]] # Absent
  /\ \E part \in dir[version[p]] : dir' = [dir EXCEPT ![version[p]] = @ \ {part}]
  /\ UNCHANGED <<temp, litter, command, version, outcome, ops, kills>>

\* ... and then the directory.
RemoveDir(p) ==
  /\ command[p] = "remove" /\ dir[version[p]] \in {Absent, {}}
  /\ dir' = [dir EXCEPT ![version[p]] = Absent]
  /\ Return(p, "removed")
  /\ UNCHANGED <<temp, litter, version, ops, kills>>

\* Records an outcome nobody knows.
RemoveFailsMutant(p) ==
  /\ command[p] = "remove"
  /\ Return(p, "partly removed")
  /\ UNCHANGED <<dir, temp, litter, version, ops, kills>>

\* A file cannot be unlinked (it is in use, the directory is read-only).
RemoveFails(p) ==
  /\ command[p] = "remove"
  /\ Return(p, "failed")
  /\ UNCHANGED <<dir, temp, litter, version, ops, kills>>

\* Ctrl-C or a kill: nothing deferred runs.
KillProcess(p) ==
  /\ command[p] # "idle" /\ kills < MaxKills
  /\ kills' = kills + 1
  /\ litter' = IF temp[p] = Absent THEN litter
               ELSE litter \cup {[version |-> version[p], parts |-> temp[p]]}
  /\ temp' = [temp EXCEPT ![p] = Absent]
  /\ Return(p, "none")
  /\ UNCHANGED <<dir, version, ops>>

-----------------------------------------------------------------------------
Removes(p) == Unlink(p) \/ RemoveDir(p)

CacheNext ==
  \E p \in Procs :
    \/ \E v \in Versions : StartInstall(p, v) \/ StartRemove(p, v)
    \/ MkTemp(p) \/ Extract(p) \/ WriteMetadata(p) \/ InstallFails(p) \/ Publish(p)
    \/ PublishRefused(p) \/ Removes(p) \/ RemoveFails(p) \/ KillProcess(p)

CacheSpec == CacheInit /\ [][CacheNext]_cacheVars

-----------------------------------------------------------------------------
\* Types of the variables.
CacheTypeOK ==
  /\ dir \in [Versions -> {Absent} \cup SUBSET Parts]
  /\ temp \in [Procs -> {Absent} \cup SUBSET Parts]
  /\ litter \subseteq [version : Versions, parts : SUBSET Parts]
  /\ command \in [Procs -> {"idle", "mktemp", "extract", "metadata", "rename", "remove"}]
  /\ version \in [Procs -> Versions]
  /\ outcome \in [Procs -> {"none", "failed", "installed", "refused", "removed"}]
  /\ ops \in 0..MaxOps /\ kills \in 0..MaxKills

\* "An interrupted install never leaves a directory that looks complete"
\* (install.go:47): wherever an install is killed, whoever installs the same
\* version at the same time, a directory nobody has begun to remove is whole.
Removing(v) == \E p \in Procs : command[p] = "remove" /\ version[p] = v
PublishedWhole ==
  [][\A v \in Versions :
       dir'[v] # Absent /\ dir'[v] # dir[v] /\ ~Removing(v) => dir'[v] = Parts]_cacheVars

\* Only browser remove takes an installed build away: installing it again, or
\* losing the race to install it, leaves it usable throughout.
OnlyRemoveUninstalls ==
  [][\A v \in Versions : Installed(v) /\ ~Installed(v)' =>
       \E p \in Procs : Unlink(p) /\ version[p] = v]_cacheVars

\* An install that reports success has published a build that ExecPath resolves,
\* until someone starts to remove it; the loser of a race reports its failure.
ReportsWhatIsThere ==
  [][\A p \in Procs : outcome'[p] = "installed" /\ outcome[p] # "installed" =>
       Installed(version[p])' /\ ~Installed(version[p])]_cacheVars

\* What no step of an install or a removal does, in one, types included.
CacheSteps == []CacheTypeOK /\ PublishedWhole /\ OnlyRemoveUninstalls /\ ReportsWhatIsThere

\* List, which browser list prints and Newest picks from: any directory beside
\* the installs that holds metadata counts, hidden temp directories too.
Listed ==
  {v \in Versions :
     \/ Has(dir[v], "meta")
     \/ \E p \in Procs : version[p] = v /\ Has(temp[p], "meta")
     \/ \E t \in litter : t.version = v /\ "meta" \in t.parts}
=============================================================================
