------------------------- MODULE SessionBundleProofs -------------------------
(***************************************************************************)
(* The session commands, for any processes, dashboards and browsing        *)
(* sessions.  IInv, which commands keep however they overlap, says that a  *)
(* process has a copy in its hands exactly at the stages between reading   *)
(* and writing one.  SoloInv adds what holds while commands run one after  *)
(* the other: an open restores into nothing only, and nobody else writes   *)
(* to a directory that is being extracted to.  On SoloInv rest the action  *)
(* property of open and the refinement of SessionCells, which overlapping  *)
(* commands do not keep: two of them may clear, extract and pack one       *)
(* directory at once, for it has no lock across processes.                 *)
(***************************************************************************)
EXTENDS SessionBundle, TLAPS

\* The stages in which a command has a copy in its hands.
Carrying == {"clear", "extract", "rename", "rerename"}

InHands == \A a \in Actors : pc[a] \in Carrying <=> buf[a] # None

\* Which command is where.
Paths ==
  \A a \in Actors :
    /\ pc[a] = "check" => cmd[a] = "open"
    /\ pc[a] \in {"decrypt", "clear", "extract"} => cmd[a] \in {"open", "pull"}
    /\ pc[a] \in {"removeBundle", "purge"} => cmd[a] = "remove"

\* The inductive invariant of what holds however commands overlap.
IInv == TypeOK /\ InHands /\ Paths

-----------------------------------------------------------------------------
\* No command has begun.
LEMMA InitIInv == Init => IInv
<1> SUFFICES ASSUME Init PROVE IInv
  OBVIOUS
<1>1. Whole({}) \in Copy
  BY DEF Whole, Copy
<1>2. TypeOK
  <2>1. pc \in [Actors -> Stages] /\ cmd \in [Actors -> Commands]
    BY DEF Init, Stages, Commands
  <2>2. work \in {None} \cup Copy /\ bundle \in {None} \cup Copy
    BY <1>1 DEF Init
  <2>3. buf \in [Actors -> {None} \cup Copy]
    BY DEF Init
  <2>4. crashes \in 0..MaxCrashes
    BY BundleAssumption DEF Init
  <2>5. unused \subseteq Tokens /\ orphan \in BOOLEAN
    BY DEF Init
  <2>6. QED
    BY <2>1, <2>2, <2>3, <2>4, <2>5 DEF TypeOK
<1>3. InHands /\ Paths
  BY DEF Init, InHands, Carrying, Paths
<1>4. QED
  BY <1>2, <1>3 DEF IInv

\* What Chrome leaves is a copy again, or nothing.
LEMMA WritesFacts ==
  ASSUME TypeOK, NEW killed \in BOOLEAN, ChromeWrites(killed)
  PROVE  /\ work' \in {None} \cup Copy /\ unused' \subseteq Tokens
         /\ work = None => work' = None
         /\ work # None => /\ work' # None /\ work.seen \subseteq work'.seen
                           /\ work'.whole = work.whole
<1> USE BundleAssumption DEF TypeOK
<1>1. PICK new \in {{}} \cup {{t} : t \in unused} :
        /\ unused' = unused \ new
        /\ work' = IF work = None THEN None
                   ELSE [work EXCEPT !.seen = @ \cup new, !.link = killed]
  BY DEF ChromeWrites
<1>2. new \subseteq Tokens
  OBVIOUS
<1>3. CASE work = None
  BY <1>1, <1>3
<1>4. CASE work # None
  <2>1. work \in Copy
    BY <1>4
  <2>2. work' = [work EXCEPT !.seen = @ \cup new, !.link = killed]
    BY <1>1, <1>4
  <2>3. work' \in Copy /\ work'.seen = work.seen \cup new /\ work'.whole = work.whole
    BY <1>2, <2>1, <2>2 DEF Copy
  <2>4. QED
    BY <1>1, <1>4, <2>3 DEF Copy
<1>5. QED
  BY <1>3, <1>4

\* Every step of a command keeps the variables in their types.
LEMMA StepTypes ==
  ASSUME IInv, NEW a \in Actors, Step(a)
  PROVE  TypeOK'
<1> USE BundleAssumption DEF IInv, TypeOK, Goto, Read, Return, Stages
<1>1. CASE KeepLocal(a) \/ NeedRestore(a) \/ Decrypt(a) \/ DecryptFails(a)
  BY <1>1 DEF KeepLocal, NeedRestore, Decrypt, DecryptFails
<1>2. CASE ClearDir(a)
  <2>1. [seen |-> {}, whole |-> FALSE, link |-> FALSE] \in Copy
    BY DEF Copy
  <2>2. QED
    BY <1>2, <2>1 DEF ClearDir
<1>8. CASE Extract(a) \/ ExtractFails(a) \/ RemoveFails(a)
  BY <1>8 DEF Extract, ExtractFails, RemoveFails
<1>10. CASE Unlink(a)
  <2>1. PICK left \in SUBSET work.seen, on \in {FALSE, work.link} :
          work' = [seen |-> left, whole |-> FALSE, link |-> on]
    BY <1>10 DEF Unlink
  <2>2. work \in Copy
    BY <1>10 DEF Unlink
  <2>3. left \in SUBSET Tokens /\ on \in BOOLEAN
    BY <2>2 DEF Copy
  <2>4. work' \in Copy
    BY <2>1, <2>3 DEF Copy
  <2>5. QED
    BY <1>10, <2>4 DEF Unlink
<1>3. CASE Seed(a) \/ Launch(a)
  <2>1. work' \in {None} \cup Copy
    BY <1>3 DEF Seed, Launch, Whole, Copy
  <2>2. QED
    BY <1>3, <2>1 DEF Seed, Launch
<1>4. CASE LaunchFails(a) \/ PackSkipped(a) \/ Pack(a) \/ PackRename(a)
  BY <1>4 DEF LaunchFails, PackSkipped, Pack, PackRename
<1>5. CASE Quit(a) \/ Killed(a) \/ ChromeCrashes(a)
  <2>1. work' \in {None} \cup Copy /\ unused' \subseteq Tokens
    BY <1>5, WritesFacts DEF Quit, Killed, ChromeCrashes
  <2>2. QED
    BY <1>5, <2>1 DEF Quit, Killed, ChromeCrashes
<1>6. CASE Recrypt(a) \/ RecryptRename(a) \/ RecryptFails(a)
  BY <1>6 DEF Recrypt, RecryptRename, RecryptFails
<1>7. CASE RemoveBundle(a) \/ Purge(a)
  BY <1>7 DEF RemoveBundle, Purge
<1>9. QED
  BY <1>1, <1>2, <1>3, <1>4, <1>5, <1>6, <1>7, <1>8, <1>10 DEF Step

\* A copy is taken on the way into the stages that carry one, and put down on the
\* way out.
LEMMA StepHands ==
  ASSUME IInv, NEW a \in Actors, Step(a)
  PROVE  InHands' /\ Paths'
<1> USE BundleAssumption DEF IInv, TypeOK, Goto, Read, Return, Stages
<1>1. cmd' = cmd /\ \A b \in Actors : b # a => pc'[b] = pc[b] /\ buf'[b] = buf[b]
  BY DEF Step, KeepLocal, NeedRestore, Decrypt, DecryptFails, Unlink, RemoveFails,
         ClearDir, Extract, ExtractFails,
         Seed, Launch, LaunchFails, Quit, Killed, ChromeCrashes, PackSkipped, Pack, PackRename,
         Recrypt, RecryptRename, RecryptFails, RemoveBundle, Purge
<1>2. pc'[a] \in Carrying <=> buf'[a] # None
  BY DEF InHands, Carrying, Step, KeepLocal, NeedRestore, Decrypt, DecryptFails, Unlink,
         RemoveFails, ClearDir, Extract,
         ExtractFails, Seed, Launch, LaunchFails, Quit, Killed, ChromeCrashes, PackSkipped, Pack,
         PackRename, Recrypt, RecryptRename, RecryptFails, RemoveBundle, Purge
<1>3. /\ pc'[a] = "decrypt" => pc[a] = "check"
      /\ pc'[a] \in {"clear", "extract"} => pc[a] \in {"decrypt", "clear", "extract"}
      /\ pc'[a] \in {"removeBundle", "purge"} => pc[a] \in {"removeBundle", "purge"}
      /\ pc'[a] # "check"
  BY DEF Step, KeepLocal, NeedRestore, Decrypt, DecryptFails, Unlink, RemoveFails,
         ClearDir, Extract, ExtractFails,
         Seed, Launch, LaunchFails, Quit, Killed, ChromeCrashes, PackSkipped, Pack, PackRename,
         Recrypt, RecryptRename, RecryptFails, RemoveBundle, Purge
<1>4. QED
  BY <1>1, <1>2, <1>3 DEF InHands, Paths

\* What is not a step of a command keeps the invariant too.
LEMMA OtherStep ==
  ASSUME IInv,
         \/ \E a \in Actors : Crash(a) \/ \E c \in Commands : Start(a, c)
         \/ Sync \/ OrphanQuits
  PROVE  IInv'
<1> USE BundleAssumption DEF IInv, TypeOK, Goto, Read, Return, Stages
<1>1. ASSUME NEW a \in Actors, Crash(a) PROVE IInv'
  <2>1. TypeOK'
    BY <1>1 DEF Crash
  <2>2. InHands' /\ Paths'
    BY <1>1 DEF Crash, InHands, Paths, Carrying
  <2>3. QED
    BY <2>1, <2>2
<1>2. ASSUME NEW a \in Actors, NEW c \in Commands, Start(a, c) PROVE IInv'
  <2>1. PICK stage \in Stages :
          /\ pc' = [pc EXCEPT ![a] = stage] /\ cmd' = [cmd EXCEPT ![a] = c]
          /\ stage \notin Carrying \cup {"extract"}
          /\ stage = "check" => c = "open"
          /\ stage = "decrypt" => c = "pull"
          /\ stage # "purge" /\ (stage = "removeBundle" => c = "remove")
    BY <1>2 DEF Start, Commands, Carrying
  <2>2. UNCHANGED <<work, bundle, buf, unused, orphan, crashes>> /\ pc[a] = "idle"
    BY <1>2 DEF Start
  <2>3. TypeOK'
    BY <2>1, <2>2
  <2>4. InHands' /\ Paths'
    BY <2>1, <2>2 DEF InHands, Paths, Carrying
  <2>5. QED
    BY <2>3, <2>4
<1>3. CASE Sync
  <2>1. bundle' \in Copy /\ unused' \subseteq Tokens
    <3>1. PICK t \in unused :
            /\ unused' = unused \ {t}
            /\ bundle' = Whole((IF bundle = None THEN {} ELSE bundle.seen) \cup {t})
      BY <1>3 DEF Sync
    <3>2. ((IF bundle = None THEN {} ELSE bundle.seen) \cup {t}) \in SUBSET Tokens
      BY DEF Copy
    <3>3. QED
      BY <3>1, <3>2 DEF Whole, Copy
  <2>2. UNCHANGED <<work, pc, cmd, buf, orphan, crashes>>
    BY <1>3 DEF Sync
  <2>3. QED
    BY <2>1, <2>2 DEF InHands, Paths
<1>4. CASE OrphanQuits
  <2>1. work' \in {None} \cup Copy /\ unused' \subseteq Tokens
    BY <1>4, WritesFacts DEF OrphanQuits
  <2>2. orphan' = FALSE /\ UNCHANGED <<bundle, pc, cmd, buf, crashes>>
    BY <1>4 DEF OrphanQuits
  <2>3. QED
    BY <2>1, <2>2 DEF InHands, Paths
<1>5. QED
  BY <1>1, <1>2, <1>3, <1>4

\* The invariant reads nothing but the variables.
LEMMA StutterStep == IInv /\ UNCHANGED vars => IInv'
BY DEF IInv, vars, TypeOK, InHands, Paths

\* The inductive invariant holds, commands overlapping or not.
THEOREM Invariance == Spec => []IInv
<1>1. IInv /\ [Next]_vars => IInv'
  BY StepTypes, StepHands, OtherStep, StutterStep DEF Next, IInv
<1>2. QED
  BY <1>1, InitIInv, PTL DEF Spec

\* However commands overlap, fail or are killed: a working directory is cleared
\* only by who holds a bundle it could decrypt (crypto.go, UnpackBundle).
THEOREM BundleIsSafe == Spec => []BundleSafety
<1>1. IInv => BundleSafety
  BY DEF IInv, BundleSafety, ClearedOnlyWhenReadable, InHands, Carrying
<1>2. QED
  BY <1>1, Invariance, PTL

-----------------------------------------------------------------------------
(* Commands that run one after the other. *)

Solo == \A a, b \in Actors : pc[a] # "idle" /\ pc[b] # "idle" => a = b

\* open restores into nothing only.
OpenRestoresNothing ==
  \A a \in Actors : pc[a] \in {"decrypt", "clear"} /\ cmd[a] = "open" => work = None

\* While a directory is being extracted to, nobody else writes there, and it holds
\* nothing yet.
ExtractsAlone ==
  \A a \in Actors : pc[a] = "extract" =>
    ~orphan /\ work = [seen |-> {}, whole |-> FALSE, link |-> FALSE]

\* The inductive invariant of commands that run one after the other.
SoloInv == IInv /\ Solo /\ OpenRestoresNothing /\ ExtractsAlone

\* A step of a command leaves the others where they are, with nothing in hand.
LEMMA OthersIdle ==
  ASSUME SoloInv, NEW a \in Actors, Step(a)
  PROVE  /\ cmd' = cmd /\ pc[a] # "idle"
         /\ \A b \in Actors \ {a} : /\ pc[b] = "idle" /\ pc'[b] = "idle"
                                   /\ buf[b] = None /\ buf'[b] = None
<1> USE DEF SoloInv, IInv, TypeOK, Goto, Read, Return
<1>1. cmd' = cmd /\ \A b \in Actors : b # a => pc'[b] = pc[b] /\ buf'[b] = buf[b]
  BY DEF Step, KeepLocal, NeedRestore, Decrypt, DecryptFails, Unlink, RemoveFails,
         ClearDir, Extract, ExtractFails,
         Seed, Launch, LaunchFails, Quit, Killed, ChromeCrashes, PackSkipped, Pack, PackRename,
         Recrypt, RecryptRename, RecryptFails, RemoveBundle, Purge
<1>2. pc[a] # "idle"
  BY DEF Step, KeepLocal, NeedRestore, Decrypt, DecryptFails, Unlink, RemoveFails,
         ClearDir, Extract, ExtractFails,
         Seed, Launch, LaunchFails, Quit, Killed, ChromeCrashes, PackSkipped, Pack, PackRename,
         Recrypt, RecryptRename, RecryptFails, RemoveBundle, Purge
<1>3. \A b \in Actors \ {a} : pc[b] = "idle" /\ buf[b] = None
  BY <1>2 DEF Solo, InHands, Carrying
<1>4. QED
  BY <1>1, <1>2, <1>3

\* A step of the one command.
LEMMA SoloStep ==
  ASSUME SoloInv, NEW a \in Actors, Step(a)
  PROVE  Solo' /\ OpenRestoresNothing' /\ ExtractsAlone'
<1> USE DEF SoloInv, IInv, TypeOK, Goto, Read, Return
<1>1. /\ cmd' = cmd
      /\ \A b \in Actors \ {a} : pc'[b] = "idle"
  BY OthersIdle
<1>2. pc'[a] \in {"decrypt", "clear"} /\ cmd[a] = "open" => work' = None
  BY DEF OpenRestoresNothing, Step, KeepLocal, NeedRestore, Decrypt, DecryptFails, Unlink,
         RemoveFails, ClearDir,
         Extract, ExtractFails, Seed, Launch, LaunchFails, Quit, Killed, ChromeCrashes,
         PackSkipped, Pack, PackRename, Recrypt, RecryptRename, RecryptFails, RemoveBundle, Purge
<1>3. pc'[a] = "extract" => ClearDir(a)
  BY DEF Step, KeepLocal, NeedRestore, Decrypt, DecryptFails, Unlink, RemoveFails, Extract,
         ExtractFails, Seed, Launch, LaunchFails, Quit, Killed, ChromeCrashes, PackSkipped,
         Pack, PackRename,
         Recrypt, RecryptRename, RecryptFails, RemoveBundle, Purge
<1>4. ClearDir(a) => ~orphan' /\ work' = [seen |-> {}, whole |-> FALSE, link |-> FALSE]
  BY DEF ClearDir
<1>5. Solo'
  BY <1>1 DEF Solo
<1>6. OpenRestoresNothing'
  BY <1>1, <1>2 DEF OpenRestoresNothing
<1>7. ExtractsAlone'
  BY <1>1, <1>3, <1>4 DEF ExtractsAlone
<1>8. QED
  BY <1>5, <1>6, <1>7

\* The first command starts when none runs; the others end or do not touch it.
LEMMA SoloOther ==
  ASSUME ~Overlap, SoloInv,
         \/ \E a \in Actors : Crash(a) \/ \E c \in Commands : Start(a, c)
         \/ Sync \/ OrphanQuits
  PROVE  Solo' /\ OpenRestoresNothing' /\ ExtractsAlone'
<1> USE DEF SoloInv, IInv, TypeOK, Goto, Read, Return
<1>1. ASSUME NEW a \in Actors, Crash(a)
      PROVE  Solo' /\ OpenRestoresNothing' /\ ExtractsAlone'
  <2>1. \A b \in Actors : pc'[b] = "idle"
    BY <1>1 DEF Crash, Solo
  <2>2. QED
    BY <2>1 DEF Solo, OpenRestoresNothing, ExtractsAlone
<1>2. ASSUME NEW a \in Actors, NEW c \in Commands, Start(a, c)
      PROVE  Solo' /\ OpenRestoresNothing' /\ ExtractsAlone'
  <2>1. /\ \A b \in Actors : b # a => pc'[b] = "idle"
        /\ pc'[a] \notin {"clear", "extract"}
        /\ pc'[a] = "decrypt" => cmd'[a] = "pull"
    BY <1>2 DEF Start, Commands
  <2>2. QED
    BY <2>1 DEF Solo, OpenRestoresNothing, ExtractsAlone
<1>3. CASE Sync
  BY <1>3 DEF Sync, Solo, OpenRestoresNothing, ExtractsAlone
<1>4. CASE OrphanQuits
  BY <1>4, WritesFacts DEF OrphanQuits, Solo, OpenRestoresNothing, ExtractsAlone
<1>5. QED
  BY <1>1, <1>2, <1>3, <1>4

\* SoloInv reads nothing but the variables.
LEMMA SoloStutter == SoloInv /\ UNCHANGED vars => SoloInv'
BY StutterStep DEF SoloInv, vars, Solo, OpenRestoresNothing, ExtractsAlone

\* The inductive invariant of commands that run one after the other holds.
LEMMA SoloInvariance ==
  ASSUME ~Overlap
  PROVE  Spec => []SoloInv
<1>1. Init => SoloInv
  BY InitIInv DEF Init, SoloInv, Solo, OpenRestoresNothing, ExtractsAlone
<1>2. SoloInv /\ [Next]_vars => SoloInv'
  <2>1. ASSUME SoloInv, Next PROVE SoloInv'
    BY <2>1, StepTypes, StepHands, OtherStep, SoloStep, SoloOther DEF Next, SoloInv, IInv
  <2>2. QED
    BY <2>1, SoloStutter
<1>3. QED
  BY <1>1, <1>2, PTL DEF Spec

-----------------------------------------------------------------------------
(* open keeps local browsing. *)

\* Only Unlink, ClearDir, Extract and Purge take anything from a working copy, and an
\* open clears and extracts where there was none.
LEMMA KeepsLocal ==
  ASSUME SoloInv, [Next]_vars, work # None, ~(\E a \in Actors : Discards(a))
  PROVE  work' # None /\ work.seen \subseteq work'.seen
<1> USE BundleAssumption DEF SoloInv, IInv, TypeOK
<1>1. work \in Copy
  OBVIOUS
<1>2. ASSUME NEW a \in Actors, Unlink(a) \/ ClearDir(a) \/ Extract(a) \/ Purge(a)
      PROVE  Extract(a) /\ work.seen = {} /\ work' # None
  <2>1. cmd[a] = "open"
    BY <1>2 DEF Discards
  <2>2. ~Purge(a)
    BY <2>1 DEF Purge, Paths
  <2>3. ~ClearDir(a) /\ ~Unlink(a)
    BY <2>1 DEF ClearDir, Unlink, OpenRestoresNothing, Paths
  <2>4. Extract(a)
    BY <1>2, <2>2, <2>3
  <2>5. QED
    BY <2>4 DEF Extract, ExtractsAlone, InHands, Carrying
<1>3. ASSUME NEW a \in Actors, Seed(a) \/ Launch(a)
      PROVE  work' # None /\ work.seen \subseteq work'.seen
  <2>1. PICK on \in BOOLEAN : work' = [work EXCEPT !.link = on]
    BY <1>3 DEF Seed, Launch
  <2>2. work' \in Copy /\ work'.seen = work.seen
    BY <1>1, <2>1 DEF Copy
  <2>3. QED
    BY <2>2 DEF Copy
<1>4. ASSUME NEW a \in Actors, Quit(a) \/ Killed(a) \/ ChromeCrashes(a)
      PROVE  work' # None /\ work.seen \subseteq work'.seen
  BY <1>4, WritesFacts DEF Quit, Killed, ChromeCrashes
<1>5. CASE OrphanQuits
  BY <1>5, WritesFacts DEF OrphanQuits
<1>6. CASE UNCHANGED work
  BY <1>6
<1>7. QED
  BY <1>2, <1>3, <1>4, <1>5, <1>6
  DEF Next, Step, KeepLocal, NeedRestore, Decrypt, DecryptFails, RemoveFails, ExtractFails,
      LaunchFails,
      PackSkipped, Pack, PackRename, Recrypt, RecryptRename, RecryptFails, RemoveBundle, Sync,
      Crash, Start, vars

\* With commands that run one after the other, open never drops local browsing,
\* whatever fails or is killed on the way (open.go, manager.go restore).
THEOREM LocalIsKept ==
  ASSUME ~Overlap
  PROVE  Spec => OpenKeepsLocal
<1>1. ASSUME SoloInv, [Next]_vars
      PROVE  [work # None /\ ~(\E a \in Actors : Discards(a)) =>
                work' # None /\ (work.seen \subseteq work'.seen)]_vars
  BY <1>1, KeepsLocal
<1>2. QED
  BY <1>1, SoloInvariance, PTL DEF Spec, OpenKeepsLocal

-----------------------------------------------------------------------------
(* The commands implement SessionCells. *)

\* A whole copy is one session; a copy that is not partial is whole, or none.
LEMMA HeldFacts ==
  ASSUME NEW copy \in {None} \cup Copy, ~Partial(copy)
  PROVE  /\ copy = None => Held(copy) = {}
         /\ copy # None => Held(copy) = {copy.seen} /\ copy.seen \in SUBSET Tokens
BY BundleAssumption DEF Held, Partial, Copy

\* What is in hand is what the one command has.
LEMMA HandFacts ==
  ASSUME NEW a \in Actors, \A b \in Actors \ {a} : buf[b] = None
  PROVE  /\ Hand = Held(buf[a])
         /\ Torn <=> Partial(bundle) \/ Partial(buf[a]) \/ (Partial(work) /\ ~Replacing)
<1>1. \A b \in Actors \ {a} : Held(buf[b]) = {} /\ ~Partial(buf[b])
  BY DEF Held, Partial
<1>2. Hand = Held(buf[a])
  BY <1>1 DEF Hand
<1>3. QED
  BY <1>1, <1>2 DEF Torn

\* The same of the next state.
LEMMA HandFactsNext ==
  ASSUME NEW a \in Actors, \A b \in Actors \ {a} : buf'[b] = None
  PROVE  /\ Hand' = Held(buf'[a])
         /\ Torn' <=> Partial(bundle') \/ Partial(buf'[a]) \/ (Partial(work') /\ ~Replacing')
<1>1. \A b \in Actors \ {a} : Held(buf'[b]) = {} /\ ~Partial(buf'[b])
  BY DEF Held, Partial
<1>2. Hand' = Held(buf'[a])
  BY <1>1 DEF Hand
<1>3. QED
  BY <1>1, <1>2 DEF Torn

\* The stages at which a command removes or fills the working copy.
Replaces == {"clear", "extract", "purge"}

\* How the cells follow the one command that runs.
LEMMA CellFacts ==
  ASSUME SoloInv, ~Torn, NEW a \in Actors, Step(a)
  PROVE  /\ Hand = Held(buf[a]) /\ Hand' = Held(buf'[a])
         /\ Local = IF pc[a] = "extract" THEN {} ELSE Held(work)
         /\ Local' = IF pc'[a] = "extract" THEN {} ELSE Held(work')
         /\ Wiping <=> Partial(work) /\ pc[a] \in Replaces
         /\ Wiping' <=> Partial(work') /\ pc'[a] \in Replaces
         /\ Wiping \in BOOLEAN /\ Wiping' \in BOOLEAN
         /\ ~Partial(bundle) /\ ~Partial(buf[a]) /\ (pc[a] \notin Replaces => ~Partial(work))
         /\ ~Partial(bundle') /\ ~Partial(buf'[a]) /\ (pc'[a] \in Replaces \/ ~Partial(work'))
              => Torn' = Torn
         /\ pc'[a] \notin Replaces /\ Partial(work') => Torn'
<1>1. \A b \in Actors \ {a} : /\ pc[b] = "idle" /\ pc'[b] = "idle"
                             /\ buf[b] = None /\ buf'[b] = None
  BY OthersIdle
<1>2. (Extracting <=> pc[a] = "extract") /\ (Extracting' <=> pc'[a] = "extract")
  BY <1>1 DEF Extracting
<1>5. (Replacing <=> pc[a] \in Replaces) /\ (Replacing' <=> pc'[a] \in Replaces)
  BY <1>1 DEF Replacing, Replaces
<1>3. Torn = FALSE /\ Torn' \in BOOLEAN
  BY DEF Torn
<1>6. (Wiping <=> Partial(work) /\ Replacing) /\ (Wiping' <=> Partial(work') /\ Replacing')
  BY DEF Wiping
<1>7. Wiping \in BOOLEAN /\ Wiping' \in BOOLEAN
  BY DEF Wiping, Partial
<1>4. QED
  BY <1>1, <1>2, <1>3, <1>5, <1>6, <1>7, HandFacts, HandFactsNext DEF Local

\* A copy that is none holds no session.
LEMMA NoneHeld == Held(None) = {} /\ ~Partial(None)
BY DEF Held, Partial

\* A directory made to be extracted to holds no session, and is partial.
LEMMA BlankFacts ==
  LET blank == [seen |-> {}, whole |-> FALSE, link |-> FALSE]
  IN  Held(blank) = {} /\ Partial(blank)
<1> DEFINE blank == [seen |-> {}, whole |-> FALSE, link |-> FALSE]
<1>1. blank \in [seen : SUBSET Tokens, whole : BOOLEAN, link : BOOLEAN]
  OBVIOUS
<1>2. blank # None
  BY <1>1, BundleAssumption
<1>3. ~blank.whole
  OBVIOUS
<1>4. QED
  BY <1>2, <1>3 DEF Held, Partial

\* What is unlinked from a copy leaves a partial one.
LEMMA UnlinkFacts ==
  ASSUME TypeOK, NEW a \in Actors, Unlink(a)
  PROVE  Held(work') = {} /\ Partial(work')
<1>1. PICK left \in SUBSET work.seen, on \in {FALSE, work.link} :
        work' = [seen |-> left, whole |-> FALSE, link |-> on]
  BY DEF Unlink
<1>2. work \in Copy
  BY DEF Unlink, TypeOK
<1>3. [seen |-> left, whole |-> FALSE, link |-> on]
        \in [seen : SUBSET Tokens, whole : BOOLEAN, link : BOOLEAN]
  BY <1>2 DEF Copy
<1>4. work' # None /\ ~work'.whole
  BY <1>1, <1>3, BundleAssumption
<1>5. QED
  BY <1>4 DEF Held, Partial

\* A restore: the bundle is fetched, the local cell wiped, and filled.
LEMMA RestoreCells ==
  ASSUME SoloInv, ~Torn, NEW a \in Actors, Step(a),
         Decrypt(a) \/ ClearDir(a) \/ Extract(a) \/ ExtractFails(a)
  PROVE  Cells!Next
<1>0. TypeOK /\ InHands /\ ExtractsAlone
  BY DEF SoloInv, IInv
<1>1. CASE Decrypt(a)
  <2>1. /\ bundle # None /\ buf'[a] = bundle /\ pc[a] \notin Replaces /\ pc'[a] \in Replaces
        /\ pc[a] # "extract" /\ pc'[a] # "extract" /\ UNCHANGED <<work, bundle>>
    BY <1>0, <1>1 DEF Decrypt, TypeOK, Goto, Read, Replaces
  <2>2. Held(bundle) # {} /\ ~Partial(bundle) /\ ~Partial(work)
    BY <1>0, <2>1, CellFacts, HeldFacts DEF TypeOK
  <2>3. Hand' = Held(bundle) /\ UNCHANGED <<Local, Held(bundle), Torn>>
    BY <2>1, <2>2, CellFacts
  <2>4. UNCHANGED Wiping
    BY <2>1, <2>2, CellFacts
  <2>5. QED
    BY <2>2, <2>3, <2>4 DEF Cells!Next, Cells!Fetch, Cells!Empty
<1>2. CASE ClearDir(a)
  <2>1. /\ buf' = buf /\ pc[a] # "extract" /\ pc'[a] = "extract" /\ pc'[a] \in Replaces
        /\ bundle' = bundle /\ work' = [seen |-> {}, whole |-> FALSE, link |-> FALSE]
    BY <1>0, <1>2 DEF ClearDir, TypeOK, Goto, Replaces
  <2>2. Local' = {} /\ Wiping' /\ UNCHANGED <<Held(bundle), Hand, Torn>>
    BY <2>1, BlankFacts, CellFacts
  <2>3. QED
    BY <2>2 DEF Cells!Next, Cells!Wipe, Cells!Empty
<1>3. CASE Extract(a)
  <2>1. /\ pc[a] = "extract" /\ pc[a] \in Replaces /\ pc'[a] \notin Replaces
        /\ pc'[a] # "extract" /\ buf'[a] = None /\ work' = buf[a] /\ bundle' = bundle
    BY <1>0, <1>3 DEF Extract, TypeOK, Goto, Read, Return, Replaces
  <2>2. Wiping /\ ~Wiping'
    BY <1>0, <2>1, BlankFacts, CellFacts DEF ExtractsAlone
  <2>3. Local' = Hand /\ Hand' = {} /\ UNCHANGED <<Held(bundle), Torn>>
    BY <2>1, NoneHeld, CellFacts
  <2>4. QED
    BY <2>2, <2>3 DEF Cells!Next, Cells!Place, Cells!Empty
<1>4. CASE ExtractFails(a)
  <2>1. /\ pc[a] = "extract" /\ pc[a] \in Replaces /\ pc'[a] \notin Replaces
        /\ pc'[a] # "extract" /\ buf'[a] = None /\ UNCHANGED <<work, bundle>>
    BY <1>0, <1>4 DEF ExtractFails, TypeOK, Goto, Read, Return, Replaces
  <2>2. Held(work) = {} /\ Partial(work)
    BY <1>0, <2>1, BlankFacts DEF ExtractsAlone
  <2>3. Wiping /\ ~Wiping'
    BY <2>1, <2>2, CellFacts
  <2>4. Hand' = {} /\ Torn' /\ UNCHANGED <<Local, Held(bundle)>>
    BY <2>1, <2>2, NoneHeld, CellFacts
  <2>5. QED
    BY <2>3, <2>4 DEF Cells!Next, Cells!Tear, Cells!Empty
<1>5. QED
  BY <1>1, <1>2, <1>3, <1>4

\* A removal: the local cell is wiped file by file, and left clean, or torn.
LEMMA RemoveCells ==
  ASSUME SoloInv, ~Torn, NEW a \in Actors, Step(a), Unlink(a) \/ RemoveFails(a) \/ Purge(a)
  PROVE  Cells!Next
<1>0. TypeOK /\ InHands
  BY DEF SoloInv, IInv
<1>1. CASE Unlink(a)
  <2>1. /\ pc' = pc /\ buf' = buf /\ bundle' = bundle
        /\ pc[a] # "extract" /\ pc[a] \in Replaces
    BY <1>1 DEF Unlink, Replaces
  <2>2. Held(work') = {} /\ Partial(work')
    BY <1>0, <1>1, UnlinkFacts
  <2>3. Local' = {} /\ Wiping' /\ UNCHANGED <<Held(bundle), Hand, Torn>>
    BY <2>1, <2>2, CellFacts
  <2>4. QED
    BY <2>3 DEF Cells!Next, Cells!Wipe, Cells!Empty
<1>2. CASE RemoveFails(a)
  <2>1. /\ pc[a] # "extract" /\ pc'[a] # "extract" /\ pc'[a] \notin Replaces
        /\ buf'[a] = None /\ UNCHANGED <<work, bundle>>
    BY <1>0, <1>2 DEF RemoveFails, TypeOK, Goto, Read, Return, Replaces
  <2>2. Hand' = {} /\ ~Wiping' /\ UNCHANGED <<Local, Held(bundle)>>
    BY <2>1, NoneHeld, CellFacts
  <2>3. CASE Wiping
    <3>1. Torn'
      BY <2>1, <2>3, CellFacts
    <3>2. QED
      BY <2>2, <2>3, <3>1 DEF Cells!Next, Cells!Tear, Cells!Empty
  <2>4. CASE ~Wiping
    <3>1. ~Partial(work')
      BY <2>1, <2>4, CellFacts
    <3>2. UNCHANGED <<Torn, Wiping>>
      BY <2>1, <2>2, <2>4, <3>1, NoneHeld, CellFacts
    <3>3. QED
      BY <2>2, <3>2 DEF Cells!Next, Cells!Drop, Cells!Empty
  <2>5. QED
    BY <2>3, <2>4
<1>3. CASE Purge(a)
  <2>1. /\ buf[a] = None /\ buf'[a] = None /\ pc[a] # "extract" /\ pc'[a] # "extract"
        /\ work' = None /\ bundle' = bundle
    BY <1>0, <1>3 DEF Purge, InHands, Carrying, TypeOK, Goto, Read, Return
  <2>2. Local' = {} /\ ~Wiping' /\ UNCHANGED <<Held(bundle), Hand, Torn>>
    BY <2>1, NoneHeld, CellFacts
  <2>3. QED
    BY <2>2 DEF Cells!Next, Cells!Purge, Cells!Empty
<1>4. QED
  BY <1>1, <1>2, <1>3

\* What a browser, or its bookmarks, may do to a working copy that is whole.
LEMMA CopyGrows ==
  ASSUME SoloInv, ~Partial(work),
         \/ \E a \in Actors : Seed(a) \/ Launch(a) \/ Quit(a) \/ Killed(a) \/ ChromeCrashes(a)
         \/ OrphanQuits
  PROVE  /\ ~Partial(work')
         /\ \/ work' = work
            \/ Held(work) = {} /\ Held(work') = {{}}
            \/ \E s, t \in SUBSET Tokens :
                 s \subseteq t /\ Held(work) = {s} /\ Held(work') = {t}
<1>0. TypeOK
  BY DEF SoloInv, IInv
<1>1. ASSUME NEW a \in Actors, Seed(a) \/ Launch(a)
      PROVE  \/ work' = work
             \/ work = None /\ work' \in Copy /\ work'.seen = {} /\ work'.whole
             \/ /\ work # None /\ work' \in Copy /\ work'.seen = work.seen
                /\ work'.whole = work.whole
  <2>1. CASE work = None
    <3>1. PICK on \in BOOLEAN : work' = [Whole({}) EXCEPT !.link = on] \/ work' = work
      BY <1>1, <2>1 DEF Seed, Launch
    <3>2. QED
      BY <2>1, <3>1 DEF Whole, Copy
  <2>2. CASE work # None
    <3>1. PICK on \in BOOLEAN : work' = [work EXCEPT !.link = on]
      BY <1>1, <2>2 DEF Seed, Launch
    <3>2. work \in Copy
      BY <1>0, <2>2 DEF TypeOK
    <3>3. QED
      BY <2>2, <3>1, <3>2 DEF Copy
  <2>3. QED
    BY <2>1, <2>2
<1>2. ASSUME \/ \E a \in Actors : Quit(a) \/ Killed(a) \/ ChromeCrashes(a)
             \/ OrphanQuits
      PROVE  \/ work' = work
             \/ /\ work # None /\ work' \in Copy /\ work.seen \subseteq work'.seen
                /\ work'.whole = work.whole
  BY <1>0, <1>2, WritesFacts DEF Quit, Killed, ChromeCrashes, OrphanQuits
<1>3. CASE work' = work
  BY <1>3
<1>4. CASE work = None /\ work' \in Copy /\ work'.seen = {} /\ work'.whole
  BY <1>4, BundleAssumption DEF Held, Partial, Copy
<1>5. CASE /\ work # None /\ work' \in Copy /\ work.seen \subseteq work'.seen
           /\ work'.whole = work.whole
  <2>1. ~Partial(work')
    BY <1>5 DEF Partial
  <2>2. Held(work) = {work.seen} /\ work.seen \in SUBSET Tokens
    BY <1>0, <1>5, HeldFacts DEF TypeOK
  <2>3. Held(work') = {work'.seen} /\ work'.seen \in SUBSET Tokens
    BY <1>5, <2>1, HeldFacts, BundleAssumption DEF Copy
  <2>4. QED
    BY <1>5, <2>1, <2>2, <2>3
<1>6. QED
  BY <1>1, <1>2, <1>3, <1>4, <1>5

\* A browser makes a working copy, or browses in it.
LEMMA BrowseCells ==
  ASSUME SoloInv, ~Torn, NEW a \in Actors, Step(a),
         Seed(a) \/ Launch(a) \/ Quit(a) \/ Killed(a) \/ ChromeCrashes(a)
  PROVE  Cells!Next \/ UNCHANGED Cells!cells
<1>0. TypeOK /\ InHands
  BY DEF SoloInv, IInv
<1>1. /\ pc[a] # "extract" /\ pc'[a] # "extract" /\ bundle' = bundle
      /\ pc[a] \notin Replaces /\ pc'[a] \notin Replaces
      /\ buf[a] = None /\ buf'[a] = None
  BY <1>0
  DEF Seed, Launch, Quit, Killed, ChromeCrashes, InHands, Carrying, TypeOK, Goto, Read, Return,
      Replaces
<1>2. /\ ~Partial(work')
      /\ \/ work' = work
         \/ Held(work) = {} /\ Held(work') = {{}}
         \/ \E s, t \in SUBSET Tokens :
              s \subseteq t /\ Held(work) = {s} /\ Held(work') = {t}
  BY <1>1, CellFacts, CopyGrows
<1>3. /\ UNCHANGED <<Hand, Held(bundle), Torn, Wiping>> /\ ~Wiping
      /\ Local = Held(work) /\ Local' = Held(work')
  BY <1>1, <1>2, NoneHeld, CellFacts
<1>4. QED
  BY <1>2, <1>3
  DEF Cells!Next, Cells!Fresh, Cells!Browse, Cells!Empty, Cells!Session, Cells!cells

\* PackBundle takes the local session and shares it; reencrypt takes the shared one
\* and puts it back.
LEMMA ShareCells ==
  ASSUME SoloInv, ~Torn, NEW a \in Actors, Step(a),
         Pack(a) \/ Recrypt(a) \/ PackRename(a) \/ RecryptRename(a)
  PROVE  Cells!Next
<1>0. TypeOK /\ InHands
  BY DEF SoloInv, IInv
<1>1. CASE Pack(a)
  <2>1. /\ work # None /\ buf'[a] = work /\ pc[a] \notin Replaces /\ pc'[a] \notin Replaces
        /\ pc[a] # "extract" /\ pc'[a] # "extract"
        /\ UNCHANGED <<work, bundle>>
    BY <1>0, <1>1 DEF Pack, TypeOK, Goto, Read, Replaces
  <2>2. Local # {} /\ Hand' = Local /\ UNCHANGED <<Local, Held(bundle), Torn, Wiping>>
    <3>1. Held(work) # {} /\ ~Partial(work)
      BY <1>0, <2>1, CellFacts, HeldFacts DEF TypeOK
    <3>2. QED
      BY <2>1, <3>1, CellFacts
  <2>3. QED
    BY <2>2 DEF Cells!Next, Cells!Take, Cells!Empty
<1>2. CASE Recrypt(a)
  <2>1. /\ bundle # None /\ buf'[a] = bundle /\ pc[a] \notin Replaces /\ pc'[a] \notin Replaces
        /\ pc[a] # "extract" /\ pc'[a] # "extract"
        /\ UNCHANGED <<work, bundle>>
    BY <1>0, <1>2 DEF Recrypt, TypeOK, Goto, Read, Replaces
  <2>2. Held(bundle) # {} /\ Hand' = Held(bundle) /\ UNCHANGED <<Local, Held(bundle), Torn, Wiping>>
    <3>1. Held(bundle) # {} /\ ~Partial(bundle)
      BY <1>0, <2>1, CellFacts, HeldFacts DEF TypeOK
    <3>2. QED
      BY <2>1, <3>1, CellFacts
  <2>3. QED
    BY <2>2 DEF Cells!Next, Cells!Fetch, Cells!Empty
<1>3. CASE PackRename(a) \/ RecryptRename(a)
  <2>1. /\ buf[a] # None /\ buf'[a] = None /\ pc[a] \notin Replaces /\ pc'[a] \notin Replaces
        /\ pc[a] # "extract" /\ pc'[a] # "extract"
        /\ work' = work /\ bundle' = buf[a]
    BY <1>0, <1>3
    DEF PackRename, RecryptRename, InHands, Carrying, TypeOK, Goto, Read, Return, Replaces
  <2>2. Hand # {} /\ Held(bundle)' = Hand /\ Hand' = {} /\ UNCHANGED <<Local, Torn, Wiping>>
    <3>1. Hand # {}
      BY <1>0, <2>1, CellFacts, HeldFacts DEF TypeOK
    <3>2. QED
      BY <2>1, <3>1, NoneHeld, CellFacts
  <2>3. QED
    BY <2>2 DEF Cells!Next, Cells!Share, Cells!Empty
<1>4. QED
  BY <1>1, <1>2, <1>3

\* remove empties the shared cell; what gives up drops what it held.
LEMMA EmptyCells ==
  ASSUME SoloInv, ~Torn, NEW a \in Actors, Step(a), RemoveBundle(a) \/ RecryptFails(a)
  PROVE  Cells!Next
<1>0. TypeOK /\ InHands
  BY DEF SoloInv, IInv
<1>1. CASE RemoveBundle(a)
  <2>1. /\ buf[a] = None /\ buf'[a] = None /\ pc[a] # "extract" /\ pc'[a] # "extract"
        /\ pc[a] \notin Replaces /\ work' = work /\ bundle' = None
    BY <1>0, <1>1 DEF RemoveBundle, InHands, Carrying, TypeOK, Goto, Read, Return, Replaces
  <2>2. ~Partial(work) /\ ~Wiping /\ ~Wiping'
    BY <2>1, CellFacts
  <2>3. Held(bundle)' = {} /\ UNCHANGED <<Local, Hand, Torn, Wiping>>
    BY <2>1, <2>2, NoneHeld, CellFacts
  <2>4. QED
    BY <2>3 DEF Cells!Next, Cells!Discard, Cells!Empty
<1>2. CASE RecryptFails(a)
  <2>1. /\ buf'[a] = None /\ pc[a] # "extract" /\ pc'[a] # "extract"
        /\ pc[a] \notin Replaces /\ pc'[a] \notin Replaces /\ UNCHANGED <<work, bundle>>
    BY <1>0, <1>2 DEF RecryptFails, TypeOK, Goto, Read, Return, Replaces
  <2>2. Hand' = {} /\ UNCHANGED <<Local, Held(bundle), Torn, Wiping>>
    BY <2>1, NoneHeld, CellFacts
  <2>3. QED
    BY <2>2 DEF Cells!Next, Cells!Drop, Cells!Empty
<1>3. QED
  BY <1>1, <1>2

\* The steps that only decide where to go next.
LEMMA DecideCells ==
  ASSUME SoloInv, ~Torn, NEW a \in Actors, Step(a),
         KeepLocal(a) \/ NeedRestore(a) \/ DecryptFails(a) \/ LaunchFails(a) \/ PackSkipped(a)
  PROVE  UNCHANGED Cells!cells
<1>1. TypeOK /\ InHands
  BY DEF SoloInv, IInv
<1>2. /\ buf[a] = None /\ buf'[a] = None /\ pc[a] # "extract" /\ pc'[a] # "extract"
      /\ pc[a] \notin Replaces /\ pc'[a] \notin Replaces /\ UNCHANGED <<work, bundle>>
  BY <1>1
  DEF KeepLocal, NeedRestore, DecryptFails, LaunchFails, PackSkipped, InHands, Carrying, TypeOK,
      Goto, Read, Return, Replaces
<1>3. UNCHANGED <<Local, Held(bundle), Hand, Torn, Wiping>>
  BY <1>2, NoneHeld, CellFacts
<1>4. QED
  BY <1>3 DEF Cells!cells

\* When no command runs, the cells are the two files.
LEMMA CrashCells ==
  ASSUME SoloInv, ~Torn, NEW a \in Actors, Crash(a)
  PROVE  Cells!Next
<1>0. TypeOK /\ InHands /\ Solo /\ ExtractsAlone
  BY DEF SoloInv, IInv
<1>1. /\ pc[a] # "idle" /\ UNCHANGED <<work, bundle>>
      /\ buf' = [buf EXCEPT ![a] = None] /\ pc' = [pc EXCEPT ![a] = "idle"]
  BY DEF Crash, Return, Goto, Read
<1>2. \A b \in Actors \ {a} : pc[b] = "idle" /\ buf[b] = None
  BY <1>0, <1>1 DEF Solo, InHands, Carrying
<1>3. \A b \in Actors : pc'[b] = "idle" /\ buf'[b] = None
  BY <1>0, <1>1, <1>2 DEF TypeOK
<1>4. Hand = Held(buf[a]) /\ Hand' = {}
  BY <1>2, <1>3, HandFacts, HandFactsNext, NoneHeld
<1>5. /\ Extracting <=> pc[a] = "extract"
      /\ Replacing <=> pc[a] \in Replaces
      /\ ~Extracting' /\ ~Replacing'
  BY <1>2, <1>3 DEF Extracting, Replacing, Replaces
<1>6. ~Partial(bundle) /\ ~Partial(buf[a]) /\ (pc[a] \notin Replaces => ~Partial(work))
  BY <1>2, <1>5, HandFacts
<1>7. (Torn' <=> Partial(work)) /\ (Wiping <=> Partial(work)) /\ ~Wiping'
  <2>1. Torn' <=> Partial(work)
    BY <1>1, <1>3, <1>5, <1>6, HandFactsNext, NoneHeld
  <2>2. QED
    BY <1>5, <1>6, <2>1 DEF Wiping
<1>8. Local = Held(work) /\ Local' = Held(work)
  <2>1. pc[a] = "extract" => Held(work) = {}
    BY <1>0, BlankFacts DEF ExtractsAlone
  <2>2. QED
    BY <1>1, <1>5, <2>1 DEF Local
<1>9. CASE Wiping
  BY <1>1, <1>4, <1>7, <1>8, <1>9 DEF Cells!Next, Cells!Tear, Cells!Empty
<1>10. CASE ~Wiping
  <2>1. UNCHANGED <<Torn, Wiping>>
    <3>1. Torn \in BOOLEAN /\ Torn' \in BOOLEAN /\ Wiping \in BOOLEAN /\ Wiping' \in BOOLEAN
      BY DEF Torn, Wiping, Partial
    <3>2. QED
      BY <1>7, <1>10, <3>1
  <2>2. QED
    BY <1>1, <1>4, <1>8, <2>1 DEF Cells!Next, Cells!Drop, Cells!Empty
<1>11. QED
  BY <1>9, <1>10

\* A command starts with nothing in hand.
LEMMA StartCells ==
  ASSUME SoloInv, NEW a \in Actors, NEW c \in Commands, Start(a, c)
  PROVE  UNCHANGED Cells!cells
<1>1. UNCHANGED <<work, bundle, buf>> /\ pc[a] = "idle"
  BY DEF Start
<1>2. UNCHANGED <<Extracting, Replacing>>
  <2>1. pc'[a] \notin Replaces /\ \A b \in Actors \ {a} : pc'[b] = pc[b]
    BY DEF Start, Goto, Commands, SoloInv, IInv, TypeOK, Replaces
  <2>2. QED
    BY <1>1, <2>1 DEF Extracting, Replacing, Replaces
<1>3. QED
  BY <1>1, <1>2 DEF Cells!cells, Local, Hand, Torn, Wiping

\* What a teammate shares, and the browser of a process that was killed.
LEMMA OutsideCells ==
  ASSUME SoloInv, ~Torn, Sync \/ OrphanQuits
  PROVE  Cells!Next \/ UNCHANGED Cells!cells
<1>0. TypeOK /\ ExtractsAlone
  BY DEF SoloInv, IInv
<1>1. CASE Sync
  <2>1. PICK s \in SUBSET Tokens : bundle' = Whole(s)
    BY <1>0, <1>1 DEF Sync, TypeOK, Copy
  <2>2. Held(bundle)' = {s} /\ ~Partial(bundle')
    <3>1. Whole(s) \in Copy /\ Whole(s).whole /\ Whole(s).seen = s
      BY DEF Whole, Copy
    <3>2. QED
      BY <2>1, <3>1, BundleAssumption DEF Held, Partial, Copy
  <2>3. UNCHANGED <<work, pc, buf>>
    BY <1>1 DEF Sync
  <2>4. UNCHANGED <<Local, Hand, Wiping, Replacing>>
    BY <2>3 DEF Local, Hand, Extracting, Wiping, Replacing
  <2>5. UNCHANGED Torn
    <3>1. Torn \in BOOLEAN /\ Torn' \in BOOLEAN
      BY DEF Torn
    <3>2. ~Torn'
      BY <2>2, <2>3, <2>4 DEF Torn
    <3>3. QED
      BY <3>1, <3>2
  <2>6. QED
    BY <2>2, <2>4, <2>5 DEF Cells!Next, Cells!Receive, Cells!Session
<1>2. CASE OrphanQuits
  <2>1. orphan /\ UNCHANGED <<bundle, pc, buf>>
    BY <1>2 DEF OrphanQuits
  <2>2. ~Extracting /\ ~Extracting'
    BY <1>0, <2>1 DEF Extracting, ExtractsAlone
  <2>3. Local = Held(work) /\ Local' = Held(work')
        /\ UNCHANGED <<Hand, Held(bundle), Replacing>>
    BY <2>1, <2>2 DEF Local, Hand, Replacing
  <2>4. CASE Wiping
    <3>1. Held(work') = {} /\ Held(work) = {} /\ Partial(work')
      BY <1>0, <1>2, <2>4, WritesFacts DEF OrphanQuits, Wiping, Held, Partial
    <3>2. Wiping' /\ (Torn' <=> Torn)
      BY <2>1, <2>3, <2>4, <3>1 DEF Wiping, Torn
    <3>3. Wiping' = Wiping /\ Torn' = Torn
      <4>1. Torn \in BOOLEAN /\ Torn' \in BOOLEAN /\ Wiping \in BOOLEAN /\ Wiping' \in BOOLEAN
        BY DEF Torn, Wiping, Partial
      <4>2. QED
        BY <2>4, <3>2, <4>1
    <3>4. QED
      BY <2>3, <3>1, <3>3 DEF Cells!cells
  <2>5. CASE ~Wiping
    <3>1. ~Partial(work)
      BY <2>5 DEF Torn, Wiping
    <3>2. /\ ~Partial(work')
          /\ \/ work' = work
             \/ Held(work) = {} /\ Held(work') = {{}}
             \/ \E s, t \in SUBSET Tokens :
                  s \subseteq t /\ Held(work) = {s} /\ Held(work') = {t}
      BY <1>2, <3>1, CopyGrows
    <3>3. ~Torn' /\ ~Wiping'
      BY <2>1, <2>3, <3>2 DEF Torn, Wiping
    <3>4. UNCHANGED <<Torn, Wiping>>
      <4>1. Torn \in BOOLEAN /\ Torn' \in BOOLEAN /\ Wiping \in BOOLEAN /\ Wiping' \in BOOLEAN
        BY DEF Torn, Wiping, Partial
      <4>2. QED
        BY <2>5, <3>3, <4>1
    <3>5. QED
      BY <2>3, <2>5, <3>2, <3>4
      DEF Cells!Next, Cells!Fresh, Cells!Browse, Cells!Empty, Cells!Session, Cells!cells
  <2>6. QED
    BY <2>4, <2>5
<1>3. QED
  BY <1>1, <1>2

\* Every step is a step of the cells, or leaves them alone.
LEMMA StepCells ==
  ASSUME SoloInv, [Next]_vars
  PROVE  [Cells!Next]_(Cells!cells)
<1>1. CASE Torn
  BY <1>1 DEF Cells!Next
<1>2. CASE ~Torn
  <2>1. ASSUME NEW a \in Actors, Step(a) PROVE Cells!Next \/ UNCHANGED Cells!cells
    BY <1>2, <2>1, RestoreCells, RemoveCells, BrowseCells, ShareCells, EmptyCells, DecideCells
    DEF Step
  <2>2. ASSUME NEW a \in Actors, Crash(a) PROVE Cells!Next
    BY <1>2, <2>2, CrashCells
  <2>3. ASSUME NEW a \in Actors, NEW c \in Commands, Start(a, c) PROVE UNCHANGED Cells!cells
    BY <2>3, StartCells
  <2>4. CASE UNCHANGED vars
    BY <2>4 DEF vars, Cells!cells, Local, Extracting, Replacing, Wiping, Hand, Torn
  <2>5. QED
    BY <1>2, <2>1, <2>2, <2>3, <2>4, OutsideCells DEF Next
<1>3. QED
  BY <1>1, <1>2

\* Nothing is in hand and nothing is torn to begin with.
LEMMA InitCells == Init => Cells!Init
<1> SUFFICES ASSUME Init PROVE Cells!Init
  OBVIOUS
<1>1. /\ work = None /\ \A a \in Actors : buf[a] = None /\ pc[a] = "idle"
      /\ bundle = None \/ bundle = Whole({})
  BY DEF Init
<1>2. Hand = {}
  BY <1>1, NoneHeld DEF Hand
<1>3. Local = {}
  BY <1>1, NoneHeld DEF Local
<1>4. /\ Held(bundle) = {} \/ Held(bundle) = {{}}
      /\ ~Partial(bundle)
  <2>1. Whole({}) \in Copy /\ Whole({}).whole /\ Whole({}).seen = {}
    BY DEF Whole, Copy
  <2>2. QED
    BY <1>1, <2>1, NoneHeld, BundleAssumption DEF Held, Partial, Copy
<1>5. ~Torn /\ ~Wiping
  BY <1>1, <1>4, NoneHeld DEF Torn, Wiping
<1>6. {} \in SUBSET Tokens
  OBVIOUS
<1>7. QED
  BY <1>2, <1>3, <1>4, <1>5, <1>6 DEF Cells!Init, Cells!Empty, Cells!Session

\* Commands that run one after the other move whole sessions between the working copy
\* and the bundle, through failures, kills and orphaned browsers; only a restore or a
\* purge that stops half-way tears one (crypto.go, UnpackBundle and PackBundle;
\* store.go, Remove; open.go).
THEOREM ImplementsCells ==
  ASSUME ~Overlap
  PROVE  Spec => CellsSpec
<1>1. SoloInv /\ [Next]_vars => [Cells!Next]_(Cells!cells)
  BY StepCells
<1>2. QED
  BY <1>1, InitCells, SoloInvariance, PTL DEF Spec, CellsSpec, Cells!Spec
=============================================================================
