------------------------------ MODULE Recipients ------------------------------
(***************************************************************************)
(* Who can read what the store holds: recipients.txt and the recipient     *)
(* sets of the encrypted artifacts, which age fixes when a file is written *)
(* (internal/infra/store/crypto.go, reencrypt.go; internal/infra/crypt     *)
(* recipients and identity; internal/cmd/store recipients add, reencrypt). *)
(*                                                                         *)
(* An actor is a hamzad process on this checkout, running one command at a *)
(* time; the people who share it run it with identities of their own.      *)
(***************************************************************************)
EXTENDS Naturals, FiniteSets

CONSTANTS Keys,      \* public keys
          Typos,     \* lines AddRecipient takes (age1..., ssh-...) that do not parse
          Artifacts, \* secrets/<name>.age and data/<name>.tar.age
          Secrets,   \* those under secrets/
          Actors,
          Identity,  \* Identity[a]: the key whose private half a decrypts with
          Overlap,   \* commands of different actors run at the same time
          None,
          Cut,       \* a secret truncated and not written: no ciphertext
          MaxCrashes \* bound: processes killed

ASSUME RecipientsAssumption ==
  /\ Identity \in [Actors -> Keys]
  /\ Keys \cap Typos = {}
  /\ Overlap \in BOOLEAN
  /\ Secrets \subseteq Artifacts
  /\ None # Cut /\ \A s \in SUBSET Keys : s \notin {None, Cut}
  /\ MaxCrashes \in Nat

VARIABLES
  lines,   \* the recipient lines of recipients.txt
  glued,   \* the file was edited by hand and its last line has no newline
  readers, \* readers[x]: the keys that decrypt artifact x, None if there is no x, or Cut
  pc,
  item,    \* item[a]: the artifact a works on, or None
  fresh,   \* fresh[a]: the recipients of what a has encrypted
  todo,    \* todo[a]: what a's reencrypt has listed and not come to
  asked,   \* asked[a]: the recipients a's reencrypt set out to share with
  failed,  \* failed[a]: artifacts it could not bring forward
  outcome, \* outcome[a]: how a's last reencrypt ended
  crashes

vars == <<lines, glued, readers, pc, item, fresh, todo, asked, failed, outcome, crashes>>
run == <<todo, asked, failed, outcome>>
list == <<lines, glued>>

\* crypt.recipients fails as a whole when one line does not parse.
Usable == lines \subseteq Keys
Configured == Usable /\ lines # {}
Stored == {x \in Artifacts : readers[x] # None}

Init ==
  /\ lines \in {{}} \cup {{k} : k \in Keys}
  /\ glued = FALSE
  /\ readers = [x \in Artifacts |-> None]
  /\ pc = [a \in Actors |-> "idle"]
  /\ item = [a \in Actors |-> None]
  /\ fresh = [a \in Actors |-> {}]
  /\ todo = [a \in Actors |-> {}]
  /\ asked = [a \in Actors |-> {}]
  /\ failed = [a \in Actors |-> {}]
  /\ outcome = [a \in Actors |-> "none"]
  /\ crashes = 0

Goto(a, stage) == pc' = [pc EXCEPT ![a] = stage]
Step(a, from, to) == pc[a] = from /\ Goto(a, to)

Done(a) == item' = [item EXCEPT ![a] = None] /\ fresh' = [fresh EXCEPT ![a] = {}]
Forget(a) ==
  /\ todo' = [todo EXCEPT ![a] = {}]
  /\ asked' = [asked EXCEPT ![a] = {}]
  /\ failed' = [failed EXCEPT ![a] = {}]

\* A command may start.
Turn == Overlap \/ \A a \in Actors : pc[a] = "idle"

-----------------------------------------------------------------------------
(* AddRecipient *)

\* The key and a newline are appended to the file as it is.
Append(a, key) ==
  /\ Turn /\ pc[a] = "idle" /\ key \notin lines
  /\ glued' = FALSE
  /\ IF glued
     THEN \* it is now the tail of the last line: a comment there, or what spoils it
          \/ UNCHANGED lines
          \/ \E last \in lines, spoilt \in Typos : lines' = (lines \ {last}) \cup {spoilt}
     ELSE lines' = lines \cup {key}
  /\ UNCHANGED <<readers, pc, item, fresh, run, crashes>>

\* There is no command to remove a recipient, or a bad line: an editor does it,
\* at any moment, and may leave the file without a newline at its end.
EditList ==
  /\ \E line \in lines : lines' = lines \ {line}
  /\ glued' \in {FALSE, lines' # {}}
  /\ UNCHANGED <<readers, pc, item, fresh, run, crashes>>

-----------------------------------------------------------------------------
(* SetProxy and PackBundle: encrypting needs the recipients only *)

StartSave(a, x) ==
  /\ Turn /\ Step(a, "idle", "seal")
  /\ item' = [item EXCEPT ![a] = x]
  /\ UNCHANGED <<list, readers, fresh, run, crashes>>

\* Wrong on purpose, as every ...Mutant below: an empty list is good enough.
SealMutant(a) ==
  /\ Usable
  /\ Step(a, "seal", "replace")
  /\ fresh' = [fresh EXCEPT ![a] = lines]
  /\ UNCHANGED <<list, readers, item, run, crashes>>

\* encryptWriter reads recipients.txt; the payload follows, and takes its time.
Seal(a) ==
  /\ Configured
  /\ Step(a, "seal", "replace")
  /\ fresh' = [fresh EXCEPT ![a] = lines]
  /\ UNCHANGED <<list, readers, item, run, crashes>>

\* No recipients, or a line that does not parse: nothing is written.
SealRefused(a) ==
  /\ ~Configured
  /\ Step(a, "seal", "idle")
  /\ item' = [item EXCEPT ![a] = None]
  /\ UNCHANGED <<list, readers, fresh, run, crashes>>

\* PackBundle: a temp file renamed into place.
Replace(a) ==
  /\ item[a] \notin Secrets
  /\ Step(a, "replace", "idle")
  /\ readers' = [readers EXCEPT ![item[a]] = fresh[a]]
  /\ Done(a)
  /\ UNCHANGED <<list, run, crashes>>

\* SetProxy writes in place: os.WriteFile opens the secret with O_TRUNC ...
Truncate(a) ==
  /\ item[a] \in Secrets
  /\ Step(a, "replace", "write")
  /\ readers' = [readers EXCEPT ![item[a]] = Cut]
  /\ UNCHANGED <<list, item, fresh, run, crashes>>

\* The secret once a has written: another process may have removed the file a has
\* open, taken its place, or be writing it too.
Written(a, now) ==
  IF now = Cut THEN {fresh[a]} ELSE IF now = None THEN {None} ELSE {now, fresh[a], Cut}

\* ... and the ciphertext follows.
WriteSecret(a) ==
  /\ Step(a, "write", "idle")
  /\ \E now \in Written(a, readers[item[a]]) : readers' = [readers EXCEPT ![item[a]] = now]
  /\ Done(a)
  /\ UNCHANGED <<list, run, crashes>>

\* profile remove.
Remove(a, x) ==
  /\ Turn /\ pc[a] = "idle" /\ readers[x] # None
  /\ readers' = [readers EXCEPT ![x] = None]
  /\ UNCHANGED <<list, pc, item, fresh, run, crashes>>

-----------------------------------------------------------------------------
(* Reencrypt *)

Reencrypt(a) ==
  /\ Turn /\ Configured
  /\ Step(a, "idle", "next")
  /\ todo' = [todo EXCEPT ![a] = Stored]
  /\ asked' = [asked EXCEPT ![a] = lines]
  /\ failed' = [failed EXCEPT ![a] = {}]
  /\ outcome' = [outcome EXCEPT ![a] = "none"]
  /\ UNCHANGED <<list, readers, item, fresh, crashes>>

\* It is there, whole, and for the identity a decrypts with.
CanOpen(a, x) == readers[x] \notin {None, Cut} /\ Identity[a] \in readers[x]

\* The next artifact of the list is opened and decrypted.
Open(a) ==
  /\ Step(a, "next", "reseal")
  /\ \E x \in todo[a] :
       /\ CanOpen(a, x)
       /\ item' = [item EXCEPT ![a] = x]
       /\ todo' = [todo EXCEPT ![a] = @ \ {x}]
  /\ UNCHANGED <<list, readers, fresh, asked, failed, outcome, crashes>>

\* Not for this identity, or cut, or gone since it was listed.
OpenFails(a) ==
  /\ pc[a] = "next"
  /\ \E x \in todo[a] :
       /\ ~CanOpen(a, x)
       /\ todo' = [todo EXCEPT ![a] = @ \ {x}]
       /\ failed' = [failed EXCEPT ![a] = @ \cup {x}]
  /\ UNCHANGED <<list, readers, pc, item, fresh, asked, outcome, crashes>>

\* Encrypts to the identity that decrypted.
ResealMutant(a) ==
  /\ Configured
  /\ Step(a, "reseal", "swap")
  /\ fresh' = [fresh EXCEPT ![a] = {Identity[a]}]
  /\ UNCHANGED <<list, readers, item, run, crashes>>

\* The recipients are read again for every artifact.
Reseal(a) ==
  /\ Configured
  /\ Step(a, "reseal", "swap")
  /\ fresh' = [fresh EXCEPT ![a] = lines]
  /\ UNCHANGED <<list, readers, item, run, crashes>>

ResealFails(a) ==
  /\ ~Configured
  /\ Step(a, "reseal", "next")
  /\ failed' = [failed EXCEPT ![a] = @ \cup {item[a]}]
  /\ item' = [item EXCEPT ![a] = None]
  /\ UNCHANGED <<list, readers, fresh, todo, asked, outcome, crashes>>

\* replaceFile, reencryptBundle: a temp file renamed into place.
Swap(a) ==
  /\ Step(a, "swap", "next")
  /\ readers' = [readers EXCEPT ![item[a]] = fresh[a]]
  /\ Done(a)
  /\ UNCHANGED <<list, run, crashes>>

\* The command exits non-zero if any artifact failed.
Report(a) ==
  /\ todo[a] = {}
  /\ Step(a, "next", "idle")
  /\ outcome' = [outcome EXCEPT ![a] = IF failed[a] = {} THEN "ok" ELSE "failed"]
  /\ Forget(a)
  /\ UNCHANGED <<list, readers, item, fresh, crashes>>

\* Killed: what it had not renamed stays as it was, and what it had truncated stays
\* cut, as it does when the write fails.
Crash(a) ==
  /\ pc[a] # "idle" /\ crashes < MaxCrashes
  /\ crashes' = crashes + 1
  /\ Goto(a, "idle") /\ Done(a) /\ Forget(a)
  /\ UNCHANGED <<list, readers, outcome>>

-----------------------------------------------------------------------------
Next ==
  \/ \E a \in Actors :
       \/ \E key \in Keys \cup Typos : Append(a, key)
       \/ \E x \in Artifacts : StartSave(a, x) \/ Remove(a, x)
       \/ Seal(a) \/ SealRefused(a) \/ Replace(a) \/ Truncate(a) \/ WriteSecret(a)
       \/ Reencrypt(a) \/ Open(a) \/ OpenFails(a) \/ Reseal(a) \/ ResealFails(a)
       \/ Swap(a) \/ Report(a) \/ Crash(a)
  \/ EditList

Spec == Init /\ [][Next]_vars

-----------------------------------------------------------------------------
\* Types of the variables.
TypeOK ==
  /\ lines \subseteq Keys \cup Typos /\ glued \in BOOLEAN
  /\ readers \in [Artifacts -> {None, Cut} \cup SUBSET Keys]
  /\ pc \in [Actors -> {"idle", "seal", "replace", "write", "next", "reseal", "swap"}]
  /\ item \in [Actors -> Artifacts \cup {None}]
  /\ fresh \in [Actors -> SUBSET Keys]
  /\ todo \in [Actors -> SUBSET Artifacts]
  /\ asked \in [Actors -> SUBSET Keys]
  /\ failed \in [Actors -> SUBSET Artifacts]
  /\ outcome \in [Actors -> {"none", "ok", "failed"}]
  /\ crashes \in 0..MaxCrashes

\* No artifact is ever encrypted for nobody: whatever becomes of recipients.txt
\* meanwhile, what is put in place is something that somebody can decrypt.  (A
\* secret that SetProxy has cut is no ciphertext at all.)
NeverSealedForNobody == \A x \in Stored : readers[x] # {}

\* The two invariants of the run in one: types, and no artifact without a reader.
RecipientSafety == TypeOK /\ NeverSealedForNobody

\* "A partial rotation cannot be mistaken for a complete one" (README.md:155): when
\* reencrypt succeeds, everything stored is whole and encrypted to the recipients that
\* were listed (reencrypt.go:33) and to nobody else, whoever could read it before and
\* although an editor may take lines off the list while it runs.
OkMeansShared ==
  [][\A a \in Actors :
       Report(a) /\ outcome'[a] = "ok" =>
         \A x \in Stored : /\ readers[x] # Cut
                            /\ asked[a] \cap lines \subseteq readers[x]
                            /\ readers[x] \subseteq asked[a]]_vars

\* What is put in an artifact's place, to share it or to save a session, is for
\* everybody who is still listed, so sharing and saving take it from none of them.
\* A new proxy does until it is written, and for good if it never is: SetProxy, and
\* nothing else, truncates a secret that may be the only copy (crypto.go:133).
ListedKeepAccess ==
  [][\A x \in Artifacts :
       readers'[x] \notin {readers[x], None} =>
         IF readers'[x] = Cut THEN x \in Secrets /\ \E a \in Actors : Truncate(a) /\ item[a] = x
         ELSE lines \subseteq readers'[x]]_vars

\* What no step does to those who may read, in one.
ReadersKept == OkMeansShared /\ ListedKeepAccess
=============================================================================
