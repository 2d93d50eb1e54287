-------------------------- MODULE SharedStoreProofs --------------------------
(***************************************************************************)
(* The store a team shares: Recipients, who may read it, and StoreSync,    *)
(* how it travels.                                                         *)
(*                                                                         *)
(* The properties of Recipients hold for any keys, artifacts, people and   *)
(* number of kills.  That no artifact is written for nobody holds however  *)
(* commands overlap.  What reencrypt and a save leave to the readers holds *)
(* when commands on the checkout run one after another, which is what the  *)
(* run checks and all the code promises: nothing in it locks the store     *)
(* against a second process (Overlap = FALSE is a hypothesis here).        *)
(*                                                                         *)
(* The safety properties of StoreSync hold for any machines, files and     *)
(* number of edits.  Two facts carry them: what a sync set out to share    *)
(* stays in its checkout's history until it returns, and the remote only   *)
(* ever grows.                                                             *)
(***************************************************************************)
EXTENDS Recipients, StoreSync, TLAPS

Rewriting == {"next", "reseal", "swap"}

\* A command that writes knows what it writes, and for somebody.
Writing ==
  \A a \in Actors :
    /\ pc[a] \in {"seal", "replace", "write", "reseal", "swap"} => item[a] \in Artifacts
    /\ pc[a] \in {"replace", "write", "swap"} => fresh[a] # {}

\* The inductive invariant of what holds however commands overlap.
IInv == TypeOK /\ Writing /\ NeverSealedForNobody

\* One command runs at a time.
Solo == \A a, b \in Actors : pc[a] # "idle" /\ pc[b] # "idle" => a = b

\* A file about to be put in place is for everybody listed: the list can only
\* have lost lines since it was read.
SealedForListed ==
  \A a \in Actors : pc[a] \in {"replace", "write", "swap"} => lines \subseteq fresh[a]

\* The secret about to be written is the one its SetProxy has truncated.
InPlace == \A a \in Actors : pc[a] = "write" => readers[item[a]] = Cut

\* A reencrypt in progress: an artifact is still listed for it, or counted as
\* failed, or in its hands, or encrypted anew.
Rotation ==
  \A a \in Actors : pc[a] \in Rewriting =>
    /\ lines \subseteq asked[a]
    /\ pc[a] = "swap" => fresh[a] \subseteq asked[a]
    /\ \A x \in Stored :
         \/ x \in todo[a] \cup failed[a]
         \/ pc[a] \in {"reseal", "swap"} /\ item[a] = x
         \/ readers[x] # Cut /\ lines \subseteq readers[x] /\ readers[x] \subseteq asked[a]

\* The inductive invariant of commands that run one after another.
SoloInv == IInv /\ Solo /\ SealedForListed /\ InPlace /\ Rotation

-----------------------------------------------------------------------------
\* Nobody works on anything at the start.
LEMMA InitIInv == Init => IInv
<1> SUFFICES ASSUME Init PROVE IInv
  OBVIOUS
<1>1. lines \subseteq Keys
  BY DEF Init
<1>2. TypeOK
  <2>1. /\ readers \in [Artifacts -> {None, Cut} \cup SUBSET Keys]
        /\ item \in [Actors -> Artifacts \cup {None}]
    BY DEF Init
  <2>2. fresh \in [Actors -> SUBSET Keys] /\ asked \in [Actors -> SUBSET Keys]
    BY DEF Init
  <2>3. todo \in [Actors -> SUBSET Artifacts] /\ failed \in [Actors -> SUBSET Artifacts]
    BY DEF Init
  <2>4. pc \in [Actors -> {"idle", "seal", "replace", "write", "next", "reseal", "swap"}]
    BY DEF Init
  <2>5. outcome \in [Actors -> {"none", "ok", "failed"}]
    BY DEF Init
  <2>6. crashes \in 0..MaxCrashes
    BY RecipientsAssumption DEF Init
  <2>7. glued \in BOOLEAN
    BY DEF Init
  <2>8. QED
    BY <1>1, <2>1, <2>2, <2>3, <2>4, <2>5, <2>6, <2>7 DEF TypeOK
<1>3. Writing /\ NeverSealedForNobody
  BY RecipientsAssumption DEF Init, Writing, NeverSealedForNobody, Stored
<1>4. QED
  BY <1>2, <1>3 DEF IInv

\* What a write leaves of a secret is what was there, or what is written, or cut, and
\* what is written if the secret was cut.
LEMMA WrittenFacts ==
  ASSUME NEW a \in Actors, NEW now, NEW left \in Written(a, now)
  PROVE  left \in {now, fresh[a], Cut} /\ (now = Cut => left = fresh[a])
BY DEF Written

\* A command that puts a file in place changes the readers of that file only.
LEMMA PutFacts ==
  ASSUME IInv, NEW a \in Actors, Replace(a) \/ Truncate(a) \/ WriteSecret(a) \/ Swap(a)
  PROVE  /\ item[a] \in Artifacts /\ fresh[a] \in (SUBSET Keys) \ {{}}
         /\ readers' \in [Artifacts -> {None, Cut} \cup SUBSET Keys]
         /\ readers'[item[a]] \in {readers[item[a]], fresh[a], Cut}
         /\ \A x \in Artifacts : x # item[a] => readers'[x] = readers[x]
<1> USE RecipientsAssumption DEF IInv, TypeOK, Writing, Step, Goto
<1>1. item[a] \in Artifacts /\ fresh[a] \in (SUBSET Keys) \ {{}}
  BY DEF Replace, Truncate, WriteSecret, Swap
<1>2. PICK now \in {readers[item[a]], fresh[a], Cut} :
        readers' = [readers EXCEPT ![item[a]] = now]
  <2>1. CASE WriteSecret(a)
    <3>1. PICK now \in Written(a, readers[item[a]]) : readers' = [readers EXCEPT ![item[a]] = now]
      BY <2>1 DEF WriteSecret
    <3>2. now \in {readers[item[a]], fresh[a], Cut}
      BY <3>1, WrittenFacts
    <3>3. QED
      BY <3>1, <3>2
  <2>2. CASE ~WriteSecret(a)
    BY <2>2 DEF Replace, Truncate, Swap
  <2>3. QED
    BY <2>1, <2>2
<1>3. QED
  BY <1>1, <1>2

\* Every step keeps the variables in their types.
LEMMA TypeStep ==
  ASSUME IInv, Next
  PROVE  TypeOK'
<1> USE RecipientsAssumption
    DEF IInv, TypeOK, Goto, Step, Done, Forget, run, list, Configured, Usable, Stored
<1>1. ASSUME NEW a \in Actors, NEW key \in Keys \cup Typos, Append(a, key) PROVE TypeOK'
  <2>1. lines' \subseteq Keys \cup Typos
    <3>1. CASE glued
      BY <1>1, <3>1 DEF Append
    <3>2. CASE ~glued
      BY <1>1, <3>2 DEF Append
    <3>3. QED
      BY <3>1, <3>2
  <2>2. /\ glued' = FALSE
        /\ UNCHANGED <<readers, pc, item, fresh, todo, asked, failed, outcome, crashes>>
    BY <1>1 DEF Append
  <2>3. QED
    BY <2>1, <2>2
<1>2. ASSUME NEW a \in Actors, NEW x \in Artifacts, StartSave(a, x) \/ Remove(a, x) PROVE TypeOK'
  BY <1>2 DEF StartSave, Remove
<1>3. ASSUME NEW a \in Actors, Seal(a) \/ SealRefused(a) \/ Reseal(a) PROVE TypeOK'
  BY <1>3 DEF Seal, SealRefused, Reseal
<1>4. ASSUME NEW a \in Actors, Replace(a) \/ Truncate(a) \/ WriteSecret(a) \/ Swap(a)
      PROVE  TypeOK'
  BY <1>4, PutFacts DEF Replace, Truncate, WriteSecret, Swap, Writing
<1>5. ASSUME NEW a \in Actors, Reencrypt(a) PROVE TypeOK'
  BY <1>5 DEF Reencrypt
<1>6. ASSUME NEW a \in Actors, Open(a) PROVE TypeOK'
  BY <1>6 DEF Open
<1>7. ASSUME NEW a \in Actors, OpenFails(a) PROVE TypeOK'
  BY <1>7 DEF OpenFails
<1>8. ASSUME NEW a \in Actors, ResealFails(a) PROVE TypeOK'
  BY <1>8 DEF ResealFails, Writing
<1>9. ASSUME NEW a \in Actors, Report(a) PROVE TypeOK'
  <2>1. outcome' \in [Actors -> {"none", "ok", "failed"}]
    <3>1. PICK how \in {"ok", "failed"} : outcome' = [outcome EXCEPT ![a] = how]
      BY <1>9 DEF Report
    <3>2. QED
      BY <3>1
  <2>2. QED
    BY <1>9, <2>1 DEF Report
<1>10. ASSUME NEW a \in Actors, Crash(a) PROVE TypeOK'
  BY <1>10 DEF Crash
<1>11. ASSUME EditList PROVE TypeOK'
  BY <1>11 DEF EditList
<1>12. QED
  BY <1>1, <1>2, <1>3, <1>4, <1>5, <1>6, <1>7, <1>8, <1>9, <1>10, <1>11 DEF Next

\* A file comes to hold recipients only from a Seal or Reseal, which refuse an
\* empty list.
LEMMA WritingStep ==
  ASSUME IInv, Next
  PROVE  Writing' /\ NeverSealedForNobody'
<1> USE RecipientsAssumption DEF IInv, TypeOK, Writing, Goto, Step, Done, run, list
<1> DEFINE Goal == Writing' /\ NeverSealedForNobody'
<1>1. ASSUME NEW a \in Actors, Replace(a) \/ Truncate(a) \/ WriteSecret(a) \/ Swap(a) PROVE Goal
  <2>1. /\ pc'[a] \in {"idle", "next"} \/ (pc'[a] = "write" /\ UNCHANGED <<item, fresh>>)
        /\ pc[a] # "idle"
        /\ \A b \in Actors : b # a => pc'[b] = pc[b] /\ item'[b] = item[b] /\ fresh'[b] = fresh[b]
    BY <1>1 DEF Replace, Truncate, WriteSecret, Swap
  <2>2. Writing'
    BY <2>1, <1>1, PutFacts
  <2>3. NeverSealedForNobody'
    BY <1>1, PutFacts DEF NeverSealedForNobody, Stored
  <2>4. QED
    BY <2>2, <2>3
<1>2. ASSUME NEW a \in Actors, NEW x \in Artifacts, Remove(a, x) PROVE Goal
  BY <1>2 DEF Remove, NeverSealedForNobody, Stored
<1>3. ASSUME NEW a \in Actors, Seal(a) \/ Reseal(a) PROVE Goal
  BY <1>3 DEF Seal, Reseal, Configured, Usable, NeverSealedForNobody, Stored
<1>4. ASSUME NEW a \in Actors,
             \/ \E key \in Keys \cup Typos : Append(a, key)
             \/ \E x \in Artifacts : StartSave(a, x)
             \/ SealRefused(a) \/ Reencrypt(a) \/ Open(a) \/ OpenFails(a) \/ ResealFails(a)
             \/ Report(a) \/ Crash(a)
      PROVE  Goal
  <2>1. readers' = readers
    BY <1>4
    DEF Append, StartSave, SealRefused, Reencrypt, Open, OpenFails, ResealFails, Report, Crash
  <2>2. Writing'
    <3>1. CASE (\E x \in Artifacts : StartSave(a, x)) \/ Open(a)
      BY <3>1 DEF StartSave, Open
    <3>2. CASE SealRefused(a) \/ ResealFails(a) \/ Crash(a)
      BY <3>2 DEF SealRefused, ResealFails, Crash
    <3>3. CASE \/ Reencrypt(a) \/ Report(a) \/ OpenFails(a)
               \/ \E key \in Keys \cup Typos : Append(a, key)
      BY <3>3 DEF Reencrypt, Report, OpenFails, Append
    <3>4. QED
      BY <1>4, <3>1, <3>2, <3>3
  <2>3. QED
    BY <2>1, <2>2 DEF NeverSealedForNobody, Stored
<1>5. ASSUME EditList PROVE Goal
  BY <1>5 DEF EditList, NeverSealedForNobody, Stored
<1>6. QED
  BY <1>1, <1>2, <1>3, <1>4, <1>5 DEF Next

\* The invariant reads nothing but the variables.
LEMMA StutterStep == IInv /\ UNCHANGED vars => IInv'
BY DEF IInv, vars, TypeOK, Writing, NeverSealedForNobody, Stored

\* The inductive invariant holds, commands overlapping or not.
THEOREM Invariance == Spec => []IInv
<1>1. IInv /\ [Next]_vars => IInv'
  BY TypeStep, WritingStep, StutterStep DEF IInv
<1>2. QED
  BY <1>1, InitIInv, PTL DEF Spec

\* Whatever becomes of recipients.txt while commands run, overlapping or not:
\* every artifact in the store has somebody who decrypts it (encryptWriter).
THEOREM ReadableByOne == Spec => []RecipientSafety
<1>1. IInv => RecipientSafety
  BY DEF IInv, RecipientSafety
<1>2. QED
  BY <1>1, Invariance, PTL

-----------------------------------------------------------------------------
\* An empty store keeps every promise about its readers.
LEMMA InitSolo == Init => Solo /\ SealedForListed /\ InPlace /\ Rotation
BY DEF Init, Solo, SealedForListed, InPlace, Rotation, Rewriting

\* While a command runs, only an editor touches the list, and it takes lines off;
\* no other command writes an artifact.
LEMMA AloneStep ==
  ASSUME ~Overlap, SoloInv, Next, NEW a \in Actors, pc[a] # "idle"
  PROVE  /\ lines' \subseteq lines
         /\ \A b \in Actors : b # a => pc'[b] = "idle"
<1> USE DEF SoloInv, IInv, TypeOK
<1>1. ~Turn
  BY DEF Turn
<1>2. lines' \subseteq lines
  BY <1>1
  DEF Next, Append, EditList, StartSave, Remove, Seal, SealRefused, Replace, Truncate, WriteSecret,
      Reencrypt, Open, OpenFails, Reseal, ResealFails, Swap, Report, Crash, list
<1>3. ASSUME NEW b \in Actors, b # a PROVE pc'[b] = "idle"
  <2>1. pc[b] = "idle"
    BY <1>3 DEF Solo
  <2>2. ASSUME NEW c \in Actors, NEW stage, pc' = [pc EXCEPT ![c] = stage], pc[c] # "idle"
        PROVE  pc'[b] = "idle"
    BY <2>1, <2>2, <1>3 DEF Solo
  <2>3. QED
    BY <1>1, <2>1, <2>2
    DEF Next, Append, EditList, StartSave, Remove, Seal, SealRefused, Replace, Truncate,
        WriteSecret,
        Reencrypt, Open, OpenFails, Reseal, ResealFails, Swap, Report, Crash, Step, Goto
<1>4. QED
  BY <1>2, <1>3

\* What readers and the commands' notes may become while one command runs.
LEMMA SoloStep ==
  ASSUME ~Overlap, SoloInv, Next
  PROVE  Solo'
<1> USE DEF SoloInv, IInv, TypeOK
<1>1. CASE \E a \in Actors : pc[a] # "idle"
  BY <1>1, AloneStep DEF Solo
<1>2. CASE \A a \in Actors : pc[a] = "idle"
  <2>1. ASSUME NEW b \in Actors, (\E x \in Artifacts : StartSave(b, x)) \/ Reencrypt(b)
        PROVE  Solo'
    BY <1>2, <2>1 DEF StartSave, Reencrypt, Step, Goto, Solo
  <2>2. CASE pc' = pc
    BY <1>2, <2>2 DEF Solo
  <2>3. QED
    BY <1>2, <2>1, <2>2
    DEF Next, Append, EditList, Remove, Seal, SealRefused, Replace, Truncate, WriteSecret,
        Open, OpenFails, Reseal,
        ResealFails, Swap, Report, Crash, Step
<1>3. QED
  BY <1>1, <1>2

\* The list only shrinks between reading it and putting the file in place.
LEMMA SealedStep ==
  ASSUME ~Overlap, SoloInv, Next
  PROVE  SealedForListed'
<1> SUFFICES ASSUME NEW a \in Actors, pc'[a] \in {"replace", "write", "swap"}
             PROVE  lines' \subseteq fresh'[a]
  BY DEF SealedForListed
<1> USE DEF SoloInv, IInv, TypeOK
<1>1. CASE pc[a] \in {"replace", "write", "swap"}
  <2>1. lines' \subseteq lines
    BY <1>1, AloneStep
  <2>2. fresh'[a] = fresh[a]
    BY <1>1
    DEF Next, Append, EditList, StartSave, Remove, Seal, SealRefused, Replace, Truncate,
        WriteSecret,
        Reencrypt, Open, OpenFails, Reseal, ResealFails, Swap, Report, Crash, Step, Goto, Done
  <2>3. QED
    BY <1>1, <2>1, <2>2 DEF SealedForListed
<1>2. CASE pc[a] \notin {"replace", "write", "swap"}
  <2>1. Seal(a) \/ Reseal(a)
    BY <1>2
    DEF Next, Append, EditList, StartSave, Remove, Seal, SealRefused, Replace, Truncate,
        WriteSecret,
        Reencrypt, Open, OpenFails, Reseal, ResealFails, Swap, Report, Crash, Step, Goto
  <2>2. QED
    BY <2>1 DEF Seal, Reseal, list
<1>3. QED
  BY <1>1, <1>2

\* While a secret is cut, the one command that runs is the one that writes it.
LEMMA InPlaceStep ==
  ASSUME ~Overlap, SoloInv, Next
  PROVE  InPlace'
<1> SUFFICES ASSUME NEW a \in Actors, pc'[a] = "write"
             PROVE  readers'[item'[a]] = Cut
  BY DEF InPlace
<1> USE DEF SoloInv, IInv, TypeOK, Writing
<1>1. Truncate(a) \/ (pc[a] = "write" /\ UNCHANGED <<readers, item>>)
  <2>1. CASE pc[a] = "idle"
    BY <2>1
    DEF Next, Append, EditList, StartSave, Remove, Seal, SealRefused, Replace, Truncate,
        WriteSecret,
        Reencrypt, Open, OpenFails, Reseal, ResealFails, Swap, Report, Crash, Step, Goto
  <2>2. CASE pc[a] # "idle"
    <3>1. \A b \in Actors : b # a => pc[b] = "idle"
      BY <2>2 DEF Solo
    <3>2. ~Turn
      BY <2>2 DEF Turn
    <3>3. QED
      BY <3>1, <3>2, <2>2
      DEF Next, Append, EditList, StartSave, Remove, Seal, SealRefused, Replace, Truncate,
          WriteSecret, Reencrypt, Open, OpenFails, Reseal, ResealFails, Swap, Report, Crash,
          Step, Goto
  <2>3. QED
    BY <2>1, <2>2
<1>2. QED
  BY <1>1 DEF Truncate, Step, InPlace

\* A step of the one rewriting command, or of an editor, moves each artifact
\* towards being encrypted anew or counted as failed.
LEMMA RotationStep ==
  ASSUME ~Overlap, SoloInv, Next
  PROVE  Rotation'
<1> SUFFICES ASSUME NEW a \in Actors, pc'[a] \in Rewriting
    PROVE  /\ lines' \subseteq asked'[a]
           /\ pc'[a] = "swap" => fresh'[a] \subseteq asked'[a]
           /\ \A x \in Stored' :
                \/ x \in todo'[a] \cup failed'[a]
                \/ pc'[a] \in {"reseal", "swap"} /\ item'[a] = x
                \/ /\ readers'[x] # Cut
                   /\ lines' \subseteq readers'[x] /\ readers'[x] \subseteq asked'[a]
  BY DEF Rotation
<1> USE RecipientsAssumption DEF SoloInv, IInv, TypeOK, Rewriting, Goto, Step, Done, run, list
<1>1. CASE pc[a] \notin Rewriting
  <2>1. ASSUME NEW b \in Actors,
               \/ \E x \in Artifacts : StartSave(b, x)
               \/ Seal(b) \/ SealRefused(b) \/ Replace(b) \/ Truncate(b) \/ WriteSecret(b)
               \/ Report(b) \/ Crash(b)
        PROVE  pc'[a] = pc[a] \/ pc'[a] \notin Rewriting
    BY <2>1 DEF StartSave, Seal, SealRefused, Replace, Truncate, WriteSecret, Report, Crash
  <2>2. ASSUME NEW b \in Actors, Open(b) \/ Reseal(b) \/ ResealFails(b) \/ Swap(b)
        PROVE  pc'[a] = pc[a]
    BY <1>1, <2>2 DEF Open, Reseal, ResealFails, Swap
  <2>3. ASSUME NEW b \in Actors, b # a, Reencrypt(b)
        PROVE  pc'[a] = pc[a]
    BY <2>3 DEF Reencrypt
  <2>4. Reencrypt(a)
    BY <1>1, <2>1, <2>2, <2>3 DEF Next, Append, EditList, Remove, OpenFails
  <2>5. QED
    BY <2>4 DEF Reencrypt, Configured, Usable, Stored
<1>2. CASE pc[a] \in Rewriting
  <2>1. lines' \subseteq lines /\ \A b \in Actors : b # a => pc[b] = "idle"
    BY <1>2, AloneStep DEF Solo
  <2>2. ~Turn
    BY <1>2 DEF Turn
  <2>3. Open(a) \/ OpenFails(a) \/ Reseal(a) \/ ResealFails(a) \/ Swap(a) \/ EditList
    BY <1>2, <2>1, <2>2
    DEF Next, Append, StartSave, Remove, Seal, SealRefused, Replace, Truncate, WriteSecret,
        Reencrypt,
        Open, OpenFails, Reseal, ResealFails, Swap, Report, Crash
  <2>4. CASE Open(a)
    BY <1>2, <2>4 DEF Open, Rotation, Stored
  <2>5. CASE OpenFails(a)
    BY <1>2, <2>5 DEF OpenFails, Rotation, Stored
  <2>6. CASE Reseal(a)
    BY <1>2, <2>6 DEF Reseal, Configured, Usable, Rotation, Stored
  <2>7. CASE ResealFails(a)
    BY <1>2, <2>7 DEF ResealFails, Rotation, Stored
  <2>8. CASE Swap(a)
    BY <1>2, <2>8 DEF Swap, Rotation, Stored, Writing, SealedForListed
  <2>9. CASE EditList
    BY <1>2, <2>1, <2>9 DEF EditList, Rotation, Stored
  <2>10. QED
    BY <2>3, <2>4, <2>5, <2>6, <2>7, <2>8, <2>9
<1>3. QED
  BY <1>1, <1>2

\* SoloInv reads nothing but the variables.
LEMMA SoloStutter == SoloInv /\ UNCHANGED vars => SoloInv'
BY StutterStep DEF SoloInv, vars, Solo, SealedForListed, InPlace, Rotation, Stored

\* SoloInv is inductive when commands run one after another.
LEMMA SoloInductive ==
  ASSUME ~Overlap
  PROVE  SoloInv /\ [Next]_vars => SoloInv'
BY TypeStep, WritingStep, SoloStep, SealedStep, InPlaceStep, RotationStep, SoloStutter
DEF SoloInv, IInv

\* What reencrypt leaves when it reports success: by Rotation, nothing listed
\* and nothing in hand is nothing left as it was.
LEMMA ReportShares ==
  ASSUME SoloInv, NEW a \in Actors, Report(a), outcome'[a] = "ok"
  PROVE  \A x \in Stored : /\ readers[x] # Cut
                            /\ asked[a] \cap lines \subseteq readers[x]
                            /\ readers[x] \subseteq asked[a]
<1>1. pc[a] = "next" /\ todo[a] = {}
  BY DEF Report, Step
<1>2. failed[a] = {}
  BY DEF Report, SoloInv, IInv, TypeOK
<1>3. QED
  BY <1>1, <1>2 DEF SoloInv, Rotation, Rewriting

\* Replace, WriteSecret and Swap write for everybody listed, and nothing else writes.
LEMMA StepKeeps ==
  ASSUME SoloInv, Next, NEW x \in Artifacts, readers'[x] \notin {readers[x], None}
  PROVE  IF readers'[x] = Cut THEN x \in Secrets /\ \E a \in Actors : Truncate(a) /\ item[a] = x
         ELSE lines \subseteq readers'[x]
<1> USE RecipientsAssumption DEF SoloInv, IInv, TypeOK, Writing
<1>1. ASSUME NEW a \in Actors, NEW y \in Artifacts, Remove(a, y) PROVE FALSE
  BY <1>1 DEF Remove
<1>2. PICK a \in Actors : Replace(a) \/ Truncate(a) \/ WriteSecret(a) \/ Swap(a)
  BY <1>1
  DEF Next, Append, EditList, StartSave, Seal, SealRefused, Reencrypt, Open, OpenFails, Reseal,
      ResealFails, Report, Crash
<1>3. CASE Truncate(a)
  BY <1>3 DEF Truncate, Step
<1>4. CASE WriteSecret(a)
  <2>1. readers[item[a]] = Cut /\ lines \subseteq fresh[a]
    BY <1>4 DEF WriteSecret, Step, InPlace, SealedForListed
  <2>2. readers' = [readers EXCEPT ![item[a]] = fresh[a]]
    BY <1>4, <2>1, WrittenFacts DEF WriteSecret
  <2>3. fresh[a] # Cut
    OBVIOUS
  <2>4. QED
    BY <2>1, <2>2, <2>3
<1>5. CASE Replace(a) \/ Swap(a)
  <2>1. /\ readers' = [readers EXCEPT ![item[a]] = fresh[a]]
        /\ lines \subseteq fresh[a]
    BY <1>5 DEF Replace, Swap, Step, SealedForListed
  <2>2. fresh[a] # Cut
    OBVIOUS
  <2>3. QED
    BY <2>1, <2>2
<1>6. QED
  BY <1>2, <1>3, <1>4, <1>5

\* Commands that run one after another, with an editor taking lines off the list
\* at any moment and kills at any moment: a reencrypt that succeeds has everything
\* stored whole and encrypted to the recipients it set out to share with that are
\* still listed, and to nobody else; what is put in an artifact's place is for all
\* who are still listed; and nothing but SetProxy, between truncating a secret and
\* writing it, takes one from them (reencrypt.go, crypto.go).
THEOREM ReadersKeptWhenSolo ==
  ASSUME ~Overlap
  PROVE  Spec => ReadersKept
<1>1. Spec => []SoloInv
  <2>1. Init => SoloInv
    BY InitIInv, InitSolo DEF SoloInv
  <2>2. SoloInv /\ [Next]_vars => SoloInv'
    BY SoloInductive
  <2>3. QED
    BY <2>1, <2>2, PTL DEF Spec
<1>2. ASSUME SoloInv, [Next]_vars
      PROVE  [\A a \in Actors :
                Report(a) /\ outcome'[a] = "ok" =>
                  \A x \in Stored : /\ readers[x] # Cut
                                     /\ asked[a] \cap lines \subseteq readers[x]
                                     /\ readers[x] \subseteq asked[a]]_vars
  BY <1>2, ReportShares
<1>3. ASSUME SoloInv, [Next]_vars
      PROVE  [\A x \in Artifacts :
                readers'[x] \notin {readers[x], None} =>
                  IF readers'[x] = Cut
                  THEN x \in Secrets /\ \E a \in Actors : Truncate(a) /\ item[a] = x
                  ELSE lines \subseteq readers'[x]]_vars
  BY <1>3, StepKeeps
<1>4. QED
  BY <1>1, <1>2, <1>3, PTL DEF Spec, ReadersKept, OkMeansShared, ListedKeepAccess

-----------------------------------------------------------------------------
(* Sharing the store through git. *)

\* While a sync runs, the edits it set out to share are committed.
Committed == \A m \in Machines : syncing[m] # "idle" => begun[m] \subseteq head[m]

\* The inductive invariant of StoreSync.
SyncIInv == SyncSafety /\ Committed

\* What a machine has of its edits, wherever git keeps it.
Kept(m) == dirty[m] \cup head[m] \cup stopped[m]

-----------------------------------------------------------------------------
\* A clone starts clean.
LEMMA InitSyncIInv == SyncInit => SyncIInv
BY SyncAssumption
DEF SyncInit, SyncIInv, SyncSafety, SyncTypeOK, SuccessShares, NothingDropped, Committed

\* Pushing is a fast-forward and nothing else writes to the remote.
LEMMA RemoteGrows ==
  ASSUME SyncTypeOK, SyncNext
  PROVE  remote \subseteq remote'
BY DEF SyncNext, SyncStep, Edit, Commit, HasCommits, NoCommits, PullRebase, PullConflict,
       PullFails, PullNothing, Push, PushFails

\* An edit is a new record, in a working tree.
LEMMA EditStep ==
  ASSUME SyncIInv, NEW m \in Machines, Edit(m)
  PROVE  SyncIInv'
<1> USE SyncAssumption DEF SyncIInv, SyncSafety, SyncTypeOK
<1> DEFINE new(f) == [by |-> m, file |-> f, n |-> count[m] + 1]
<1>1. PICK f \in MayEdit[m] : dirty' = [dirty EXCEPT ![m] = @ \cup {new(f)}]
  BY DEF Edit
<1>2. /\ count[m] + 1 \in 1..MaxEdits
      /\ count' = [count EXCEPT ![m] = @ + 1]
      /\ UNCHANGED <<head, stopped, rebasing, remote, syncing, begun, result>>
  BY DEF Edit
<1>3. f \in Files
  OBVIOUS
<1>4. new(f) \in Edits /\ new(f).by = m /\ new(f).n = count[m] + 1
  BY <1>2, <1>3 DEF Edits
<1>5. SyncTypeOK'
  <2>1. dirty' \in [Machines -> SUBSET Edits]
    BY <1>1, <1>4
  <2>2. count' \in [Machines -> 0..MaxEdits]
    BY <1>2
  <2>3. QED
    BY <1>2, <2>1, <2>2
<1>6. SuccessShares' /\ Committed'
  BY <1>2 DEF SuccessShares, Committed
<1>7. NothingDropped'
  <2> SUFFICES ASSUME NEW q \in Machines, NEW k \in 1..count'[q]
      PROVE  \E e \in dirty'[q] \cup head'[q] \cup stopped'[q] : e.by = q /\ e.n = k
    BY DEF NothingDropped
  <2>1. CASE k \in 1..count[q]
    BY <1>1, <1>2, <2>1 DEF NothingDropped
  <2>2. CASE k \notin 1..count[q]
    <3>1. q = m /\ k = count[m] + 1
      BY <1>2, <2>2
    <3>2. new(f) \in dirty'[q]
      BY <1>1, <3>1
    <3>3. QED
      BY <1>4, <3>1, <3>2
  <2>3. QED
    BY <2>1, <2>2
<1>8. QED
  BY <1>5, <1>6, <1>7

\* A step that moves edits about and loses none of them keeps NothingDropped.
LEMMA Moved ==
  ASSUME NothingDropped, count' = count,
         \A m \in Machines : dirty[m] \cup head[m] \cup stopped[m]
                               \subseteq dirty'[m] \cup head'[m] \cup stopped'[m]
  PROVE  NothingDropped'
BY DEF NothingDropped

\* Commit moves the working tree into the history.
LEMMA CommitStep ==
  ASSUME SyncIInv, NEW m \in Machines, Commit(m)
  PROVE  SyncIInv'
<1> USE DEF SyncIInv, SyncSafety, SyncTypeOK
<1>1. SyncTypeOK'
  BY DEF Commit, Move
<1>2. SuccessShares' /\ Committed'
  BY DEF Commit, Move, SuccessShares, Committed
<1>3. NothingDropped'
  BY Moved DEF Commit
<1>4. QED
  BY <1>1, <1>2, <1>3

\* A rebase that stops splits the local edits: applied, or set aside.
LEMMA ConflictStep ==
  ASSUME SyncIInv, NEW m \in Machines, PullConflict(m)
  PROVE  SyncIInv'
<1> USE DEF SyncIInv, SyncSafety, SyncTypeOK
<1>1. PICK applied \in SUBSET Local(m) :
        /\ head' = [head EXCEPT ![m] = remote \cup applied]
        /\ stopped' = [stopped EXCEPT ![m] = @ \cup (Local(m) \ applied)]
  BY DEF PullConflict
<1>2. /\ rebasing' = rebasing \cup {m}
      /\ syncing' = [syncing EXCEPT ![m] = "idle"]
      /\ result' = [result EXCEPT ![m] = "error"]
      /\ UNCHANGED <<dirty, remote, begun, count>>
  BY DEF PullConflict, Return
<1>3. SyncTypeOK'
  BY <1>1, <1>2 DEF Local
<1>4. SuccessShares' /\ Committed'
  BY <1>1, <1>2 DEF SuccessShares, Committed
<1>5. head[m] \subseteq remote \cup Local(m)
  BY DEF Local
<1>6. NothingDropped'
  BY <1>1, <1>2, <1>5, Moved
<1>7. QED
  BY <1>3, <1>4, <1>6

\* The other steps of a sync only add to a history or to the remote.
LEMMA GrowStep ==
  ASSUME SyncIInv, NEW m \in Machines,
         \/ HasCommits(m) \/ NoCommits(m) \/ PullRebase(m) \/ PullFails(m)
         \/ PullNothing(m) \/ Push(m) \/ PushFails(m)
  PROVE  SyncIInv'
<1> USE DEF SyncIInv, SyncSafety, SyncTypeOK
<1>1. /\ UNCHANGED <<dirty, stopped, rebasing, begun, count>>
      /\ \A q \in Machines : head[q] \subseteq head'[q]
      /\ \A q \in Machines : syncing'[q] # "idle" => syncing[q] # "idle"
      /\ remote \subseteq remote'
  BY DEF HasCommits, NoCommits, PullRebase, PullFails, PullNothing,
         Push, PushFails, Move, Return
<1>2. SyncTypeOK'
  <2>1. CASE PullRebase(m)
    BY <2>1 DEF PullRebase, Move
  <2>2. CASE Push(m)
    BY <2>2 DEF Push, Return
  <2>3. CASE \/ HasCommits(m) \/ NoCommits(m) \/ PullFails(m)
             \/ PullNothing(m) \/ PushFails(m)
    BY <2>3 DEF HasCommits, NoCommits, PullFails, PullNothing,
                PushFails, Move, Return
  <2>4. QED
    BY <2>1, <2>2, <2>3
<1>3. Committed'
  BY <1>1 DEF Committed
<1>4. SuccessShares'
  <2>1. ASSUME NEW q \in Machines, result'[q] = "ok", result[q] # "ok"
        PROVE  begun[q] \subseteq remote'
    <3>1. Push(m) /\ q = m
      BY <2>1
      DEF HasCommits, NoCommits, PullRebase, PullFails, PullNothing,
          Push, PushFails, Move, Return
    <3>2. QED
      BY <3>1 DEF Push, Committed
  <2>2. QED
    BY <1>1, <2>1 DEF SuccessShares
<1>5. NothingDropped'
  BY <1>1, Moved
<1>6. QED
  BY <1>2, <1>3, <1>4, <1>5

\* The invariant reads nothing but the variables of StoreSync.
LEMMA SyncStutter == SyncIInv /\ UNCHANGED syncVars => SyncIInv'
BY DEF SyncIInv, SyncSafety, syncVars, SyncTypeOK, SuccessShares,
       NothingDropped, Committed

\* The inductive invariant holds of StoreSync.
THEOREM SyncInvariance == SyncSpec => []SyncIInv
<1>1. SyncIInv /\ [SyncNext]_syncVars => SyncIInv'
  BY EditStep, CommitStep, ConflictStep, GrowStep, SyncStutter DEF SyncNext, SyncStep
<1>2. QED
  BY <1>1, InitSyncIInv, PTL DEF SyncSpec

\* Any number of machines on one remote, with conflicts, refused pushes and
\* edits made while a sync runs: a sync that reports success has shared all the
\* checkout held when it started, and no edit is ever lost (git.go, Sync).
THEOREM SyncIsSafe == SyncSpec => []SyncSafety
<1>1. SyncIInv => SyncSafety
  BY DEF SyncIInv
<1>2. QED
  BY <1>1, SyncInvariance, PTL
=============================================================================
