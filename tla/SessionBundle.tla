---------------------------- MODULE SessionBundle ----------------------------
(***************************************************************************)
(* The browsing data of one profile: the working copy data/<name>/ and the *)
(* encrypted bundle data/<name>.tar.age, as profile open, pull, push,      *)
(* remove and store reencrypt, sync treat them (internal/cmd/profile,      *)
(* internal/infra/store/crypto.go, reencrypt.go; the dashboard runs the    *)
(* same sequence for open).  An actor is a hamzad process running one      *)
(* command at a time.                                                      *)
(*                                                                         *)
(* A copy of the data is abstracted to seen, the browsing sessions it      *)
(* contains; whole, that no file of it is missing; and link, that it holds *)
(* Chrome's SingletonSocket, an absolute symlink a killed Chrome leaves.   *)
(***************************************************************************)
EXTENDS Naturals

CONSTANTS Actors,
          Dashboards, \* the actors that are dashboards; the others are CLI commands
          Tokens,     \* names of browsing sessions, here or on a teammate's machine
          None,
          Overlap,    \* commands of different actors run at the same time
          Faults,     \* I/O errors, Chrome killed or crashing
          MaxCrashes  \* bound: hamzad processes killed

ASSUME BundleAssumption ==
  /\ Dashboards \subseteq Actors
  /\ Overlap \in BOOLEAN /\ Faults \in BOOLEAN
  /\ MaxCrashes \in Nat
  /\ None \notin [seen : SUBSET Tokens, whole : BOOLEAN, link : BOOLEAN]

VARIABLES
  work,   \* data/<name>/
  bundle, \* data/<name>.tar.age
  pc, cmd,
  buf,    \* buf[a]: the copy a has read and not finished writing
  unused, \* tokens not browsed yet
  orphan, \* a Chrome whose hamzad was killed still runs on the directory
  crashes

vars == <<work, bundle, pc, cmd, buf, unused, orphan, crashes>>

Copy == [seen : SUBSET Tokens, whole : BOOLEAN, link : BOOLEAN]
Whole(s) == [seen |-> s, whole |-> TRUE, link |-> FALSE]

Commands == {"open", "pull", "push", "reencrypt", "remove"}
Stages == {"idle", "check", "decrypt", "clear", "extract", "launch", "seeded", "browsing", "pack",
           "rename", "recrypt", "rerename", "removeBundle", "purge"}

Init ==
  /\ work = None
  /\ bundle \in {None, Whole({})}
  /\ pc = [a \in Actors |-> "idle"]
  /\ cmd = [a \in Actors |-> "open"]
  /\ buf = [a \in Actors |-> None]
  /\ unused = Tokens
  /\ orphan = FALSE
  /\ crashes = 0

Goto(a, stage) == pc' = [pc EXCEPT ![a] = stage]
Read(a, copy) == buf' = [buf EXCEPT ![a] = copy]
Return(a) == Goto(a, "idle") /\ Read(a, None)

Start(a, c) ==
  /\ pc[a] = "idle" /\ (Overlap \/ \A b \in Actors : pc[b] = "idle")
  /\ c \in {"pull", "reencrypt"} => bundle # None
  /\ cmd' = [cmd EXCEPT ![a] = c]
  /\ Goto(a, CASE c = "open" -> "check"
               [] c = "pull" -> "decrypt"
               [] c = "push" -> "pack"
               [] c = "reencrypt" -> "recrypt"
               [] c = "remove" -> "removeBundle")
  /\ UNCHANGED <<work, bundle, buf, unused, orphan, crashes>>

-----------------------------------------------------------------------------
(* restoreSession / Manager.restore, and pull *)

\* Nothing to restore, or local data wins.
KeepLocal(a) ==
  /\ pc[a] = "check"
  /\ bundle = None \/ work # None
  /\ Goto(a, "launch")
  /\ UNCHANGED <<work, bundle, cmd, buf, unused, orphan, crashes>>

\* Wrong on purpose, as every ...Mutant below: the bundle wins over local data.
NeedRestoreMutant(a) ==
  /\ pc[a] = "check"
  /\ bundle # None
  /\ Goto(a, "decrypt")
  /\ UNCHANGED <<work, bundle, cmd, buf, unused, orphan, crashes>>

NeedRestore(a) ==
  /\ pc[a] = "check"
  /\ bundle # None /\ work = None
  /\ Goto(a, "decrypt")
  /\ UNCHANGED <<work, bundle, cmd, buf, unused, orphan, crashes>>

\* UnpackBundle: the bundle is opened, the age and gzip headers are read.
Decrypt(a) ==
  /\ pc[a] = "decrypt" /\ bundle # None
  /\ Read(a, bundle)
  /\ Goto(a, "clear")
  /\ UNCHANGED <<work, bundle, cmd, unused, orphan, crashes>>

\* The directory is recreated before the header is read.
DecryptFailsMutant(a) ==
  /\ pc[a] = "decrypt"
  /\ Goto(a, "clear")
  /\ UNCHANGED <<work, bundle, cmd, buf, unused, orphan, crashes>>

\* The bundle is gone, or this machine's identity cannot read it.
DecryptFails(a) ==
  /\ pc[a] = "decrypt"
  /\ Return(a)
  /\ UNCHANGED <<work, bundle, cmd, unused, orphan, crashes>>

\* os.RemoveAll, of UnpackBundle and of remove --purge, unlinks file by file.
Unlink(a) ==
  /\ pc[a] \in {"clear", "purge"} /\ work # None
  /\ \E left \in SUBSET work.seen, on \in {FALSE, work.link} :
       work' = [seen |-> left, whole |-> FALSE, link |-> on]
  /\ UNCHANGED <<bundle, pc, cmd, buf, unused, orphan, crashes>>

\* A file cannot be removed; what is unlinked by then is gone.
RemoveFails(a) ==
  /\ pc[a] \in {"clear", "removeBundle", "purge"} /\ Faults
  /\ Return(a)
  /\ UNCHANGED <<work, bundle, cmd, unused, orphan, crashes>>

\* RemoveAll has removed all, and MkdirAll makes the directory anew.  A Chrome still
\* running there goes on writing to deleted files.
ClearDir(a) ==
  /\ pc[a] = "clear"
  /\ work' = [seen |-> {}, whole |-> FALSE, link |-> FALSE]
  /\ orphan' = FALSE
  /\ Goto(a, "extract")
  /\ UNCHANGED <<bundle, cmd, buf, unused, crashes>>

\* extractTar reached the end of the archive; the files go in place one by one.
Extract(a) ==
  /\ pc[a] = "extract" /\ ~buf[a].link
  /\ work' = buf[a]
  /\ IF cmd[a] = "open" THEN Goto(a, "launch") /\ Read(a, None) ELSE Return(a)
  /\ UNCHANGED <<bundle, cmd, unused, orphan, crashes>>

\* checkSymlink refuses an absolute link, or a read or write fails, half-way.
ExtractFails(a) ==
  /\ pc[a] = "extract" /\ (buf[a].link \/ Faults)
  /\ Return(a)
  /\ UNCHANGED <<work, bundle, cmd, unused, orphan, crashes>>

-----------------------------------------------------------------------------
(* The browser *)

\* clearSingletonLocks, then seedBookmarks, which may fail: from here on the profile
\* has local data, if only a bookmark bar.
Seed(a) ==
  /\ pc[a] = "launch"
  /\ \/ work' = [IF work = None THEN Whole({}) ELSE work EXCEPT !.link = FALSE]
     \/ work = None /\ Faults /\ UNCHANGED work
  /\ Goto(a, "seeded")
  /\ UNCHANGED <<bundle, cmd, buf, unused, orphan, crashes>>

\* Chrome creates what is missing and its own locks.
Launch(a) ==
  /\ pc[a] = "seeded"
  /\ work' = [IF work = None THEN Whole({}) ELSE work EXCEPT !.link = TRUE]
  /\ Goto(a, "browsing")
  /\ UNCHANGED <<bundle, cmd, buf, unused, orphan, crashes>>

\* No browser, no relay, or it does not start: what was seeded stays, and the manager
\* packs it.
LaunchFails(a) ==
  /\ pc[a] \in {"launch", "seeded"} /\ Faults
  /\ IF a \in Dashboards THEN Goto(a, "pack") /\ UNCHANGED buf ELSE Return(a)
  /\ UNCHANGED <<work, bundle, cmd, unused, orphan, crashes>>

\* What Chrome leaves on disk when it ends: its data, and on a kill its locks.
ChromeWrites(killed) ==
  \E new \in {{}} \cup {{t} : t \in unused} :
    /\ unused' = unused \ new
    /\ work' = IF work = None THEN None
               ELSE [work EXCEPT !.seen = @ \cup new, !.link = killed]

\* The window is closed, or Chrome answers the SIGTERM of a cancelled session.
Quit(a) ==
  /\ pc[a] = "browsing"
  /\ ChromeWrites(FALSE)
  /\ Goto(a, "pack")
  /\ UNCHANGED <<bundle, cmd, buf, orphan, crashes>>

\* Cancelled, and killed after shutdownGrace: Launch still returns nil.
Killed(a) ==
  /\ pc[a] = "browsing" /\ Faults
  /\ ChromeWrites(TRUE)
  /\ Goto(a, "pack")
  /\ UNCHANGED <<bundle, cmd, buf, orphan, crashes>>

\* Chrome crashes: openAction returns the error, the manager saves all the same.
ChromeCrashes(a) ==
  /\ pc[a] = "browsing" /\ Faults
  /\ ChromeWrites(TRUE)
  /\ IF a \in Dashboards THEN Goto(a, "pack") /\ UNCHANGED buf ELSE Return(a)
  /\ UNCHANGED <<bundle, cmd, orphan, crashes>>

-----------------------------------------------------------------------------
(* PackBundle: on the way out of open, and push *)

\* Not configured or --no-save, no directory, or an I/O error.
PackSkipped(a) ==
  /\ pc[a] = "pack"
  /\ Return(a)
  /\ UNCHANGED <<work, bundle, cmd, unused, orphan, crashes>>

\* The archive is written to the bundle itself, not to a file beside it.
PackMutant(a) ==
  /\ pc[a] = "pack" /\ work # None
  /\ bundle' = [seen |-> {}, whole |-> FALSE, link |-> FALSE]
  /\ Read(a, work)
  /\ Goto(a, "rename")
  /\ UNCHANGED <<work, cmd, unused, orphan, crashes>>

\* tarDir walked the directory into the encrypted temp file.
Pack(a) ==
  /\ pc[a] = "pack" /\ work # None
  /\ Read(a, work)
  /\ Goto(a, "rename")
  /\ UNCHANGED <<work, bundle, cmd, unused, orphan, crashes>>

PackRename(a) ==
  /\ pc[a] = "rename"
  /\ bundle' = buf[a]
  /\ Return(a)
  /\ UNCHANGED <<work, cmd, unused, orphan, crashes>>

-----------------------------------------------------------------------------
(* The other commands *)

\* reencryptBundle streams the old payload into a temp file ...
Recrypt(a) ==
  /\ pc[a] = "recrypt" /\ bundle # None
  /\ Read(a, bundle)
  /\ Goto(a, "rerename")
  /\ UNCHANGED <<work, bundle, cmd, unused, orphan, crashes>>

\* ... and renames it over the bundle.
RecryptRename(a) ==
  /\ pc[a] = "rerename"
  /\ bundle' = buf[a]
  /\ Return(a)
  /\ UNCHANGED <<work, cmd, unused, orphan, crashes>>

\* An artifact the identity cannot read is reported and left alone.
RecryptFails(a) ==
  /\ pc[a] \in {"recrypt", "rerename"}
  /\ Return(a)
  /\ UNCHANGED <<work, bundle, cmd, unused, orphan, crashes>>

RemoveBundle(a) ==
  /\ pc[a] = "removeBundle"
  /\ bundle' = None
  /\ \/ Goto(a, "purge") /\ UNCHANGED buf
     \/ Return(a)
  /\ UNCHANGED <<work, cmd, unused, orphan, crashes>>

\* RemoveAll of the working directory has removed all.
Purge(a) ==
  /\ pc[a] = "purge"
  /\ work' = None
  /\ orphan' = FALSE
  /\ Return(a)
  /\ UNCHANGED <<bundle, cmd, unused, crashes>>

\* store sync brings a session a teammate browsed on top of the shared one.
Sync ==
  /\ \E t \in unused :
       /\ unused' = unused \ {t}
       /\ bundle' = Whole((IF bundle = None THEN {} ELSE bundle.seen) \cup {t})
  /\ UNCHANGED <<work, pc, cmd, buf, orphan, crashes>>

\* hamzad is killed; a Chrome it started stays.
Crash(a) ==
  /\ crashes < MaxCrashes /\ pc[a] # "idle"
  /\ crashes' = crashes + 1
  /\ orphan' = (orphan \/ pc[a] = "browsing")
  /\ Return(a)
  /\ UNCHANGED <<work, bundle, cmd, unused>>

OrphanQuits ==
  /\ orphan /\ orphan' = FALSE
  /\ ChromeWrites(FALSE)
  /\ UNCHANGED <<bundle, pc, cmd, buf, crashes>>

-----------------------------------------------------------------------------
Step(a) ==
  \/ KeepLocal(a) \/ NeedRestore(a) \/ Decrypt(a) \/ DecryptFails(a) \/ Unlink(a)
  \/ RemoveFails(a) \/ ClearDir(a) \/ Extract(a) \/ ExtractFails(a)
  \/ Seed(a) \/ Launch(a) \/ LaunchFails(a) \/ Quit(a)
  \/ Killed(a) \/ ChromeCrashes(a) \/ PackSkipped(a) \/ Pack(a) \/ PackRename(a) \/ Recrypt(a)
  \/ RecryptRename(a) \/ RecryptFails(a) \/ RemoveBundle(a) \/ Purge(a)

Next ==
  \/ \E a \in Actors : Step(a) \/ Crash(a) \/ \E c \in Commands : Start(a, c)
  \/ Sync \/ OrphanQuits

Spec == Init /\ [][Next]_vars

-----------------------------------------------------------------------------
\* Types of the variables.
TypeOK ==
  /\ work \in {None} \cup Copy
  /\ bundle \in {None} \cup Copy
  /\ pc \in [Actors -> Stages]
  /\ cmd \in [Actors -> Commands]
  /\ buf \in [Actors -> {None} \cup Copy]
  /\ unused \subseteq Tokens
  /\ orphan \in BOOLEAN
  /\ crashes \in 0..MaxCrashes

Held(copy) == IF copy = None \/ ~copy.whole THEN {} ELSE {copy.seen}
Partial(copy) == copy # None /\ ~copy.whole
Extracting == \E a \in Actors : pc[a] = "extract"

\* The cells this implements.  Commands do not overlap, so at most one has a copy in
\* its hands, and a partial working copy that a command is removing or extracting is
\* that command's to finish.
Replacing == \E a \in Actors : pc[a] \in {"clear", "extract", "purge"}
Wiping == Partial(work) /\ Replacing
Local == IF Extracting THEN {} ELSE Held(work)
Hand == UNION {Held(buf[a]) : a \in Actors}
Torn ==
  Partial(bundle) \/ (\E a \in Actors : Partial(buf[a])) \/ (Partial(work) /\ ~Replacing)
Cells == INSTANCE SessionCells WITH
  local <- Local, shared <- Held(bundle), hand <- Hand, wiping <- Wiping, torn <- Torn

\* Commands that run one after the other, with teammates syncing in between,
\* failures, kills and orphaned browsers included, move whole sessions between
\* the working copy and the bundle; only a restore (pull's or open's) or a purge
\* that stops half-way breaks that, and leaves what the next open takes for local
\* data (crypto.go:382-431, store.go:188-194, open.go:113-127).
CellsSpec == Cells!Spec

Discards(a) == cmd[a] # "open" /\ (Unlink(a) \/ ClearDir(a) \/ Extract(a) \/ Purge(a))

\* open never drops local browsing, whatever fails or is killed on the way: only
\* pull and remove --purge replace it (README.md:141, open.go:120).
OpenKeepsLocal ==
  [][work # None /\ ~(\E a \in Actors : Discards(a)) =>
       work' # None /\ (work.seen \subseteq work'.seen)]_vars

\* A bundle this identity cannot read costs nothing: whoever has cleared the
\* working directory holds a bundle it could decrypt (UnpackBundle's order).
ClearedOnlyWhenReadable ==
  \A a \in Actors : pc[a] = "extract" => buf[a] # None

\* The two invariants of the run in one: types, and no directory cleared for nothing.
BundleSafety == TypeOK /\ ClearedOnlyWhenReadable
==============================================================================
