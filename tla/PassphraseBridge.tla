--------------------------- MODULE PassphraseBridge ---------------------------
(***************************************************************************)
(* Unlocking the SSH identity from the dashboard (internal/cmd/tui/        *)
(* passphrase.go, internal/infra/crypt/keychain.go).  Goroutines of the    *)
(* session manager decrypt, each calling the prompt; the Bubble Tea loop   *)
(* shows one modal and answers; the user types, or dismisses it.           *)
(* A passphrase is abstracted to whether it unlocks the key; the one in    *)
(* the keychain may no longer do.                                          *)
(***************************************************************************)
EXTENDS Naturals, Sequences, SequencesExt

CONSTANTS Openers,  \* goroutines that need the passphrase
          None,
          MaxAsks   \* bound: how often one opener asks

ASSUME BridgeAssumption ==
  /\ None \notin Openers /\ None \notin {"right", "wrong", "cancelled"}
  /\ MaxAsks \in Nat

VARIABLES
  pc,
  got,     \* got[o]: what its last prompt returned
  asks,
  wrapped, \* keychain = true: KeychainPrompt wraps the bridge
  kmu,     \* holder of KeychainPrompt's mutex
  kcached, \* KeychainPrompt's cached
  item,    \* the keychain item: a passphrase, "absent", or "error" when reading fails
  gate,    \* holder of the bridge's gate
  cached,  \* the bridge's cached passphrase, or None
  queue,   \* passphraseRequestMsg sent to the loop and not handled, by their sender
  modal,   \* whose request the modal shows, or None
  reply,   \* reply[o]: what is in the reply channel of o's request, or None
  running  \* the program runs

bridge == <<pc, got, asks, wrapped, kmu, kcached, item, gate, cached, queue, modal, reply, running>>
keychain == <<wrapped, kmu, kcached, item>>
loop == <<queue, modal, running>>

Right == "right"
Wrong == "wrong"
Passphrases == {Right, Wrong}
Cancelled == "cancelled"

\* CheckSSHPassphrase.
Unlocks(pass) == pass = Right

BridgeInit ==
  /\ pc = [o \in Openers |-> "idle"]
  /\ got = [o \in Openers |-> None]
  /\ asks = [o \in Openers |-> 0]
  /\ wrapped \in BOOLEAN
  /\ kmu = None /\ kcached = None
  /\ item \in (IF wrapped THEN {"absent", "error"} \cup Passphrases ELSE {"absent"})
  /\ gate = None /\ cached = None
  /\ queue = <<>> /\ modal = None
  /\ reply = [o \in Openers |-> None]
  /\ running = TRUE

Goto(o, stage) == pc' = [pc EXCEPT ![o] = stage]
Return(o, answer) == Goto(o, "idle") /\ got' = [got EXCEPT ![o] = answer]

\* The bridge returns answer: to the decrypt, or to KeychainPrompt.
FromBridge(o, answer) ==
  /\ gate' = None
  /\ IF wrapped THEN Goto(o, "answered") /\ got' = [got EXCEPT ![o] = answer]
     ELSE Return(o, answer)

\* A decrypt calls Crypt.Prompt.
Ask(o) ==
  /\ pc[o] = "idle" /\ asks[o] < MaxAsks
  /\ asks' = [asks EXCEPT ![o] = @ + 1]
  /\ got' = [got EXCEPT ![o] = None]
  /\ Goto(o, IF wrapped THEN "keychain" ELSE "gate")
  /\ UNCHANGED <<keychain, gate, cached, reply, loop>>

-----------------------------------------------------------------------------
(* KeychainPrompt *)

\* Wrong on purpose, as every ...Mutant below: an item is not tried on the key.
FromKeychainMutant(o) ==
  /\ pc[o] = "keychain" /\ kmu = None
  /\ kcached # None \/ item \in Passphrases
  /\ kcached' = IF kcached = None THEN item ELSE kcached
  /\ Return(o, kcached')
  /\ UNCHANGED <<asks, wrapped, kmu, item, gate, cached, reply, loop>>

\* Under the mutex: the cache, or an item that unlocks the key.
FromKeychain(o) ==
  /\ pc[o] = "keychain" /\ kmu = None
  /\ kcached # None \/ Unlocks(item)
  /\ kcached' = IF kcached = None THEN item ELSE kcached
  /\ Return(o, kcached')
  /\ UNCHANGED <<asks, wrapped, kmu, item, gate, cached, reply, loop>>

\* A miss, a stale item or a failure: it asks next, keeping the mutex.
KeychainMiss(o) ==
  /\ pc[o] = "keychain" /\ kmu = None
  /\ kcached = None /\ ~Unlocks(item)
  /\ kmu' = o
  /\ Goto(o, "gate")
  /\ UNCHANGED <<got, asks, wrapped, kcached, item, gate, cached, reply, loop>>

\* next returned; the answer is saved, which may fail, and remembered.
KeychainSave(o) ==
  /\ pc[o] = "answered"
  /\ kmu' = None
  /\ IF got[o] = Cancelled THEN UNCHANGED <<kcached, item>>
     ELSE kcached' = got[o] /\ item' \in {item, got[o]}
  /\ Goto(o, "idle")
  /\ UNCHANGED <<got, asks, wrapped, gate, cached, reply, loop>>

-----------------------------------------------------------------------------
(* passphraseBridge.prompt *)

EnterGate(o) ==
  /\ pc[o] = "gate" /\ gate = None
  /\ gate' = o
  /\ Goto(o, "cache")
  /\ UNCHANGED <<got, asks, keychain, cached, reply, loop>>

FromCache(o) ==
  /\ pc[o] = "cache" /\ cached # None
  /\ FromBridge(o, cached)
  /\ UNCHANGED <<asks, keychain, cached, reply, loop>>

\* prog.Send; a program that has ended takes no message.
Send(o) ==
  /\ pc[o] = "cache" /\ cached = None
  /\ reply' = [reply EXCEPT ![o] = None]
  /\ queue' = IF running THEN Append(queue, o) ELSE queue
  /\ Goto(o, "wait")
  /\ UNCHANGED <<got, asks, keychain, gate, cached, modal, running>>

Receive(o) ==
  /\ pc[o] = "wait" /\ reply[o] # None
  /\ FromBridge(o, reply[o])
  /\ cached' = IF reply[o] = Cancelled THEN cached ELSE reply[o]
  /\ UNCHANGED <<asks, keychain, reply, loop>>

-----------------------------------------------------------------------------
(* The Bubble Tea loop *)

\* Update on passphraseRequestMsg: begin arms the modal for it.
BeginModal ==
  /\ running /\ queue # <<>>
  /\ modal' = Head(queue) /\ queue' = Tail(queue)
  /\ UNCHANGED <<pc, got, asks, keychain, gate, cached, reply, running>>

Resolve(answer) ==
  /\ running /\ modal # None
  /\ reply' = [reply EXCEPT ![modal] = answer]
  /\ modal' = None
  /\ UNCHANGED <<pc, got, asks, keychain, gate, cached, queue, running>>

\* Enter: validate lets a passphrase through; another one changes nothing.
Submit == \E typed \in Passphrases : Unlocks(typed) /\ Resolve(typed)
\* Esc closes the modal and answers nobody.
DismissMutant ==
  /\ running /\ modal # None
  /\ modal' = None
  /\ UNCHANGED <<pc, got, asks, keychain, gate, cached, reply, queue, running>>

Dismiss == Resolve(Cancelled)

\* Modals are the only thing on the loop that this module has keys for: Dashboard
\* has the others, and ends the program.
Quit ==
  /\ running /\ running' = FALSE
  /\ UNCHANGED <<pc, got, asks, keychain, gate, cached, reply, queue, modal>>

-----------------------------------------------------------------------------
OpenerStep(o) ==
  \/ FromKeychain(o) \/ KeychainMiss(o) \/ KeychainSave(o)
  \/ EnterGate(o) \/ FromCache(o) \/ Send(o) \/ Receive(o)

-----------------------------------------------------------------------------
\* Types of the variables.
BridgeTypeOK ==
  /\ pc \in [Openers -> {"idle", "keychain", "gate", "cache", "wait", "answered"}]
  /\ got \in [Openers -> Passphrases \cup {None, Cancelled}]
  /\ asks \in [Openers -> 0..MaxAsks]
  /\ wrapped \in BOOLEAN /\ kmu \in Openers \cup {None} /\ kcached \in Passphrases \cup {None}
  /\ item \in {"absent", "error"} \cup Passphrases
  /\ gate \in Openers \cup {None} /\ cached \in Passphrases \cup {None}
  /\ queue \in Seq(Openers)
  /\ modal \in Openers \cup {None}
  /\ reply \in [Openers -> Passphrases \cup {None, Cancelled}]
  /\ running \in BOOLEAN

\* A goroutine blocked on its modal is not forgotten: its request is queued, on
\* the screen, or answered, unless the program has ended.  begin overwrites the
\* modal's reply channel, so a second request must never reach it.
NoRequestLost ==
  running => \A o \in Openers : pc[o] = "wait" =>
    o \in ToSet(queue) \/ modal = o \/ reply[o] # None

\* "Opening several profiles at once unlocks the key exactly once"
\* (passphrase.go:43): once a passphrase was accepted, no modal comes up again.
UnlocksOnce ==
  (\E o \in Openers : reply[o] \in Passphrases) => modal = None /\ queue = <<>>

\* No decrypt is handed, and nobody remembers, a passphrase that does not unlock
\* the key: neither a typo nor a keychain item from before it changed.
OnlyWorkingReturned ==
  Wrong \notin {cached, kcached} \cup {got[o] : o \in Openers}

\* The invariants in one: types, no request lost, no wrong answer, one unlock.
PromptSafety == BridgeTypeOK /\ NoRequestLost /\ OnlyWorkingReturned /\ UnlocksOnce

\* Dismissing a prompt is an ordinary error "rather than a hang" (passphrase.go:14):
\* while the program runs every prompt returns, those waiting for the gate too.
PromptReturns ==
  \A o \in Openers : pc[o] # "idle" ~> pc[o] = "idle" \/ ~running
=============================================================================
