--------------------------- MODULE DashboardProofs ---------------------------
(***************************************************************************)
(* The safety and action properties of Dashboard, with the passphrase      *)
(* bridge in it, hold for any finite set of profiles and openers.          *)
(*                                                                         *)
(* The bridge's gate lets one opener at a time send a request, and its     *)
(* cache is looked at inside the gate: PromptIInv says that the one        *)
(* request is in one place, and that who waits for it found no passphrase. *)
(* The rest of the dashboard, IInv, rests on the rows being a prefix of    *)
(* the list: that is why a row kept by its index stays the same profile    *)
(* when a form appends another.  A proxy is lost only to a removal by      *)
(* another process that was still deleting when the form added a profile   *)
(* of that name: every later removal takes the profile first.              *)
(***************************************************************************)
EXTENDS Dashboard, FiniteSetTheorems, NaturalsInduction, WellFoundedInduction, TLAPS

Asking == {"cache", "wait"}

\* The gate is held from EnterGate until the bridge returns.
GateHeld == \A o \in Openers : pc[o] \in Asking <=> gate = o

\* A request on its way to the loop, or on the screen, is the only one, is not
\* answered, and its sender waits for it.
OneRequest ==
  /\ queue # <<>> =>
       \E o \in Openers : queue = <<o>> /\ pc[o] = "wait" /\ reply[o] = None /\ modal = None
  /\ modal # None => pc[modal] = "wait" /\ reply[modal] = None

\* Who waits found no passphrase; an answer that is one has been remembered, or
\* its asker is about to.
Remembered ==
  \A o \in Openers :
    /\ pc[o] = "wait" => cached = None
    /\ reply[o] \in Passphrases => cached # None \/ pc[o] = "wait"

\* No typo gets as far as a reply; the bridge has answered with one or the other.
Answers ==
  \A o \in Openers :
    /\ reply[o] # Wrong
    /\ pc[o] = "answered" => got[o] \in Passphrases \cup {Cancelled}

\* The inductive invariant of the prompt.
PromptIInv ==
  /\ BridgeTypeOK /\ GateHeld /\ OneRequest /\ Remembered /\ Answers
  /\ NoRequestLost /\ OnlyWorkingReturned

-----------------------------------------------------------------------------
\* Nobody has asked.
LEMMA InitPrompt == BridgeInit => PromptIInv
BY BridgeAssumption
DEF BridgeInit, PromptIInv, BridgeTypeOK, GateHeld, OneRequest, Remembered, Answers, Asking,
    NoRequestLost, OnlyWorkingReturned, Passphrases, Right, Wrong, Cancelled

\* The steps that ask the keychain or wait for a mutex leave the requests alone.
LEMMA KeychainStep ==
  ASSUME PromptIInv, NEW o \in Openers,
         Ask(o) \/ FromKeychain(o) \/ KeychainMiss(o) \/ KeychainSave(o) \/ EnterGate(o)
  PROVE  PromptIInv'
<1> USE BridgeAssumption DEF PromptIInv, Passphrases, Right, Wrong, Cancelled, Unlocks
<1>1. /\ UNCHANGED <<cached, reply, queue, modal, running, wrapped>>
      /\ \E to \in {"idle", "keychain", "gate", "cache"} : pc' = [pc EXCEPT ![o] = to]
      /\ pc[o] \in {"idle", "keychain", "answered", "gate"}
      /\ \A q \in Openers : q # o => got'[q] = got[q]
  BY DEF Ask, FromKeychain, KeychainMiss, KeychainSave, EnterGate, Goto, Return, keychain, loop,
         BridgeTypeOK
<1>2. BridgeTypeOK'
  <2>1. CASE Ask(o)
    BY <2>1 DEF Ask, Goto, keychain, loop, BridgeTypeOK
  <2>2. CASE FromKeychain(o)
    BY <2>2 DEF FromKeychain, Goto, Return, loop, BridgeTypeOK
  <2>3. CASE KeychainMiss(o)
    BY <2>3 DEF KeychainMiss, Goto, loop, BridgeTypeOK
  <2>4. CASE KeychainSave(o)
    BY <2>4 DEF KeychainSave, Goto, loop, BridgeTypeOK, Answers
  <2>5. CASE EnterGate(o)
    BY <2>5 DEF EnterGate, Goto, keychain, loop, BridgeTypeOK
  <2>6. QED
    BY <2>1, <2>2, <2>3, <2>4, <2>5
<1>3. GateHeld'
  <2>1. CASE EnterGate(o)
    BY <2>1 DEF EnterGate, Goto, GateHeld, Asking, BridgeTypeOK
  <2>2. CASE ~EnterGate(o)
    BY <2>2 DEF Ask, FromKeychain, KeychainMiss, KeychainSave, Goto, Return, GateHeld, Asking,
                BridgeTypeOK
  <2>3. QED
    BY <2>1, <2>2
<1>4. OneRequest' /\ Remembered' /\ NoRequestLost'
  BY <1>1 DEF OneRequest, Remembered, NoRequestLost, BridgeTypeOK
<1>5. Answers'
  BY <1>1 DEF Answers, BridgeTypeOK
<1>6. OnlyWorkingReturned'
  <2>1. got'[o] # Wrong /\ kcached' # Wrong
    BY DEF Ask, FromKeychain, KeychainMiss, KeychainSave, EnterGate, Goto, Return, keychain,
           OnlyWorkingReturned, BridgeTypeOK
  <2>2. QED
    BY <1>1, <2>1 DEF OnlyWorkingReturned
<1>7. QED
  BY <1>2, <1>3, <1>4, <1>5, <1>6

\* FromCache and Send find the gate held by their opener, which is not waiting.
LEMMA BridgeStep ==
  ASSUME PromptIInv, NEW o \in Openers, FromCache(o) \/ Send(o) \/ Receive(o)
  PROVE  PromptIInv'
<1> USE BridgeAssumption DEF PromptIInv, Passphrases, Right, Wrong, Cancelled
<1>1. pc[o] \in Asking /\ gate = o
  BY DEF FromCache, Send, Receive, GateHeld, Asking
<1>2. BridgeTypeOK'
  <2>1. CASE FromCache(o)
    BY <2>1 DEF FromCache, FromBridge, Return, Goto, keychain, loop, BridgeTypeOK
  <2>2. CASE Send(o)
    BY <2>2 DEF Send, Goto, keychain, BridgeTypeOK
  <2>3. CASE Receive(o)
    BY <2>3 DEF Receive, FromBridge, Return, Goto, keychain, loop, BridgeTypeOK
  <2>4. QED
    BY <2>1, <2>2, <2>3
<1>3. CASE FromCache(o) \/ Receive(o)
  <2>1. /\ UNCHANGED <<reply, queue, modal, running, kcached, wrapped>>
        /\ gate' = None
        /\ \E to \in {"idle", "answered"} : pc' = [pc EXCEPT ![o] = to]
        /\ \E answer \in {Right, Cancelled} :
             got' = [got EXCEPT ![o] = answer] /\ cached' \in {cached, answer} \ {Cancelled}
    BY <1>3 DEF FromCache, Receive, FromBridge, Return, Goto, keychain, loop, BridgeTypeOK,
                Answers, OnlyWorkingReturned
  <2>2. modal = None /\ queue = <<>>
    BY <1>1, <1>3 DEF FromCache, Receive, GateHeld, OneRequest, Asking, BridgeTypeOK
  <2>3. GateHeld' /\ OneRequest' /\ NoRequestLost'
    BY <1>1, <2>1, <2>2 DEF GateHeld, OneRequest, NoRequestLost, Asking, BridgeTypeOK
  <2>4. Remembered'
    BY <1>1, <1>3, <2>1 DEF Remembered, GateHeld, Asking, FromCache, Receive, BridgeTypeOK
  <2>5. Answers' /\ OnlyWorkingReturned'
    BY <2>1 DEF Answers, OnlyWorkingReturned, BridgeTypeOK
  <2>6. QED
    BY <1>2, <2>3, <2>4, <2>5
<1>4. CASE Send(o)
  <2>1. modal = None /\ queue = <<>>
    BY <1>1, <1>4 DEF Send, GateHeld, OneRequest, Asking, BridgeTypeOK
  <2>2. /\ pc' = [pc EXCEPT ![o] = "wait"] /\ reply' = [reply EXCEPT ![o] = None]
        /\ UNCHANGED <<got, gate, cached, kcached, modal, running>>
        /\ queue' = IF running THEN <<o>> ELSE <<>>
        /\ cached = None
    BY <1>4, <2>1 DEF Send, Goto, keychain
  <2>3. GateHeld' /\ Remembered' /\ Answers' /\ OnlyWorkingReturned'
    BY <1>1, <2>2 DEF GateHeld, Asking, Remembered, Answers, OnlyWorkingReturned, BridgeTypeOK
  <2>4. OneRequest' /\ NoRequestLost'
    BY <1>1, <2>1, <2>2 DEF OneRequest, NoRequestLost, GateHeld, Asking, BridgeTypeOK, ToSet
  <2>5. QED
    BY <1>2, <2>3, <2>4
<1>5. QED
  BY <1>3, <1>4

\* The loop moves the one request to the screen, and answers it or ends.
LEMMA LoopStep ==
  ASSUME PromptIInv, BeginModal \/ Submit \/ Dismiss \/ Quit
  PROVE  PromptIInv'
<1> USE BridgeAssumption DEF PromptIInv, Passphrases, Right, Wrong, Cancelled
<1>1. CASE BeginModal
  <2>1. PICK o \in Openers :
          queue = <<o>> /\ pc[o] = "wait" /\ reply[o] = None /\ modal = None
    BY <1>1 DEF BeginModal, OneRequest
  <2>2. modal' = o /\ queue' = <<>>
    BY <1>1, <2>1 DEF BeginModal
  <2>3. UNCHANGED <<pc, got, asks, wrapped, kmu, kcached, item, gate, cached, reply, running>>
    BY <1>1 DEF BeginModal, keychain
  <2>4. BridgeTypeOK'
    BY <2>2, <2>3 DEF BridgeTypeOK
  <2>5. GateHeld' /\ OneRequest' /\ Remembered' /\ Answers' /\ OnlyWorkingReturned'
    BY <2>1, <2>2, <2>3 DEF GateHeld, OneRequest, Remembered, Answers, OnlyWorkingReturned
  <2>6. NoRequestLost'
    BY <2>1, <2>2, <2>3 DEF NoRequestLost, GateHeld, Asking
  <2>7. QED
    BY <2>4, <2>5, <2>6
<1>2. CASE Submit \/ Dismiss
  <2>1. PICK answer \in {Right, Cancelled} : Resolve(answer)
    BY <1>2 DEF Submit, Dismiss, Unlocks
  <2>2. /\ reply' = [reply EXCEPT ![modal] = answer] /\ modal' = None
        /\ modal \in Openers /\ pc[modal] = "wait"
        /\ UNCHANGED <<pc, got, asks, wrapped, kmu, kcached, item, gate, cached, queue, running>>
    BY <2>1 DEF Resolve, keychain, BridgeTypeOK, OneRequest
  <2>3. queue = <<>>
    BY <2>2 DEF OneRequest
  <2>4. BridgeTypeOK'
    BY <2>2 DEF BridgeTypeOK
  <2>5. GateHeld' /\ OneRequest' /\ Remembered' /\ Answers' /\ OnlyWorkingReturned'
    BY <2>2, <2>3, <2>4
    DEF GateHeld, OneRequest, Remembered, Answers, OnlyWorkingReturned, BridgeTypeOK
  <2>6. NoRequestLost'
    BY <2>2, <2>3 DEF NoRequestLost, BridgeTypeOK
  <2>7. QED
    BY <2>4, <2>5, <2>6
<1>3. CASE Quit
  BY <1>3 DEF Quit, keychain, BridgeTypeOK, GateHeld, OneRequest, Remembered, Answers,
              OnlyWorkingReturned, NoRequestLost
<1>4. QED
  BY <1>1, <1>2, <1>3

\* The invariant reads nothing but the bridge's variables.
LEMMA PromptStutter == PromptIInv /\ UNCHANGED bridge => PromptIInv'
BY DEF PromptIInv, bridge, BridgeTypeOK, GateHeld, OneRequest, Remembered, Answers, NoRequestLost,
       OnlyWorkingReturned

\* The dashboard adds nothing to a request but when it asks, and its end.
LEMMA PromptStep == PromptIInv /\ [Next]_vars => PromptIInv'
<1> SUFFICES ASSUME PromptIInv, [Next]_vars PROVE PromptIInv'
  OBVIOUS
<1>1. CASE \E o \in Openers : AskFor(o) \/ Opening(o)
  BY <1>1, KeychainStep, BridgeStep DEF AskFor, Opening, OpenerStep
<1>2. CASE ModalBegins \/ ModalAnswered \/ KeyQuit \/ Signal
  BY <1>2, LoopStep DEF ModalBegins, ModalAnswered, KeyQuit, Signal
<1>3. CASE UNCHANGED bridge
  BY <1>3, PromptStutter
<1>4. QED
  BY <1>1, <1>2, <1>3
  DEF Next, Move, KeyOpen, KeyReload, KeyAdd, Type, CancelForm, submitRefused, submitForm,
      submitProxy, submitHalf, Tick, SessionEvent, Reads, ReloadReads, Arrives, handleProfiles,
      OtherAdds, OtherRemoves, OtherFinishes, vars

\* The inductive invariant of the prompt holds.
THEOREM PromptInvariance == Spec => []PromptIInv
<1>1. Init => PromptIInv
  BY InitPrompt DEF Init
<1>2. QED
  BY <1>1, PromptStep, PTL DEF Spec

\* However many profiles are being opened: no request is lost while the program
\* runs, no wrong passphrase is handed out or kept, and an unlocked key is not
\* asked for again (passphrase.go, keychain.go).
THEOREM PromptIsSafe == Spec => []PromptSafety
<1>1. PromptIInv => PromptSafety
  <2> SUFFICES ASSUME PromptIInv PROVE UnlocksOnce
    BY DEF PromptIInv, PromptSafety
  <2> USE BridgeAssumption DEF PromptIInv
  <2>1. ASSUME NEW o \in Openers, reply[o] \in Passphrases
        PROVE  modal = None /\ queue = <<>>
    BY <2>1 DEF Remembered, OneRequest, GateHeld, Asking, Passphrases, Right, Wrong, BridgeTypeOK
  <2>2. QED
    BY <2>1 DEF UnlocksOnce
<1>2. QED
  BY <1>1, PromptInvariance, PTL

-----------------------------------------------------------------------------
(* The list of the store. *)

Increasing(s) == \A i, j \in DOMAIN s : i < j => s[i] < s[j]

\* A set of numbers that has one has a least one.
LEMMA LeastNatural ==
  ASSUME NEW T \in SUBSET Nat, T # {}
  PROVE  \E x \in T : \A y \in T : x <= y
<1> DEFINE R == {ss \in Nat \X Nat : ss[1] < ss[2]}
<1>1. \E x \in T : \A y \in T : ~(<<y, x>> \in R)
  <2>1. IsWellFoundedOn(R, Nat)
    BY Zenon, NatLessThanWellFounded DEF OpToRel
  <2> HIDE DEF R
  <2> QED BY <2>1, WFMin
<1>2. \A x, y \in Nat : y < x => <<y, x>> \in R
  OBVIOUS
<1> HIDE DEF R
<1>3. PICK x \in T : \A y \in T : ~(<<y, x>> \in R)
  BY <1>1
<1>4. \A y \in T : x <= y
  <2> SUFFICES ASSUME NEW y \in T PROVE x <= y
    OBVIOUS
  <2>1. x \in Nat /\ y \in Nat /\ ~(y < x)
    BY <1>2, <1>3
  <2> QED BY <2>1
<1> QED BY <1>4

\* The least of a list goes before the rest of it, in order.
LEMMA ListWithLeast ==
  ASSUME NEW names \in SUBSET Nat, NEW least \in names, \A n \in names : least <= n,
         NEW k \in Nat, NEW rest \in [1..k -> names \ {least}], Increasing(rest)
  PROVE  \E s \in [1..(k + 1) -> names] : Increasing(s)
<1> DEFINE s == [i \in 1..(k + 1) |-> IF i = 1 THEN least ELSE rest[i - 1]]
<1>1. s \in [1..(k + 1) -> names]
  OBVIOUS
<1>2. Increasing(s)
  <2> SUFFICES ASSUME NEW i \in 1..(k + 1), NEW j \in 1..(k + 1), i < j PROVE s[i] < s[j]
    BY DEF Increasing
  <2>1. j # 1 /\ j - 1 \in 1..k /\ rest[j - 1] \in names \ {least}
    OBVIOUS
  <2>2. CASE i = 1
    <3>1. least <= rest[j - 1] /\ least # rest[j - 1] /\ least \in Nat /\ rest[j - 1] \in Nat
      BY <2>1
    <3>2. QED
      BY <2>1, <2>2, <3>1
  <2>3. CASE i # 1
    <3>1. i - 1 \in 1..k /\ i - 1 < j - 1
      BY <2>3
    <3>2. QED
      BY <2>1, <2>3, <3>1 DEF Increasing
  <2>4. QED
    BY <2>2, <2>3
<1>3. QED
  BY <1>1, <1>2

\* Every finite set of names can be listed in order: take the smallest that cannot.
LEMMA ListExists ==
  ASSUME NEW names \in SUBSET Nat, IsFiniteSet(names)
  PROVE  \E s \in [1..Cardinality(names) -> names] : Increasing(s)
<1> DEFINE Listable(S) == \E s \in [1..Cardinality(S) -> S] : Increasing(s)
           Bad == {n \in Nat : \E S \in SUBSET Nat :
                     IsFiniteSet(S) /\ Cardinality(S) = n /\ ~Listable(S)}
<1>1. SUFFICES ASSUME Bad # {} PROVE FALSE
  <2>1. Cardinality(names) \in Nat
    BY FS_CardinalityType
  <2>2. QED
    BY <1>1, <2>1
<1>2. PICK n \in Bad : \A m \in Bad : n <= m
  <2> HIDE DEF Bad
  <2>1. Bad \in SUBSET Nat
    BY DEF Bad
  <2>2. QED
    BY <1>1, <2>1, LeastNatural
<1>3. PICK S \in SUBSET Nat : IsFiniteSet(S) /\ Cardinality(S) = n /\ ~Listable(S)
  OBVIOUS
<1>4. S # {}
  <2>1. SUFFICES ASSUME S = {} PROVE Listable(S)
    BY <1>3
  <2>2. Cardinality(S) = 0
    BY <2>1, FS_EmptySet
  <2>3. [i \in 1..0 |-> 0] \in [1..0 -> S] /\ Increasing([i \in 1..0 |-> 0])
    BY DEF Increasing
  <2>4. QED
    BY <2>2, <2>3
<1>5. PICK least \in S : \A x \in S : least <= x
  BY <1>4, LeastNatural
<1> DEFINE Rest == S \ {least}
<1>6. IsFiniteSet(Rest) /\ Cardinality(Rest) = n - 1 /\ n - 1 \in Nat
  <2>1. IsFiniteSet(Rest) /\ Cardinality(Rest) = n - 1
    BY <1>3, FS_RemoveElement
  <2>2. Cardinality(Rest) \in Nat
    BY <2>1, FS_CardinalityType
  <2>3. QED
    BY <2>1, <2>2
<1>7. Listable(Rest)
  <2>1. n - 1 \notin Bad
    BY <1>2, <1>6
  <2>2. QED
    BY <1>6, <2>1
<1>8. PICK rest \in [1..(n - 1) -> Rest] : Increasing(rest)
  BY <1>6, <1>7
<1>9. \E s \in [1..(n - 1 + 1) -> S] : Increasing(s)
  BY <1>5, <1>6, <1>8, ListWithLeast
<1>10. QED
  BY <1>3, <1>6, <1>9

\* What List returns: names of the store, in order, as many as it holds.
LEMMA ListFacts ==
  ASSUME NEW names \in SUBSET Names
  PROVE  /\ List(names) \in Seq(names)
         /\ Len(List(names)) = Cardinality(names)
         /\ Increasing(List(names))
<1>1. IsFiniteSet(names) /\ names \in SUBSET Nat
  BY DashboardAssumption, FS_Subset DEF Names
<1>2. Cardinality(names) \in Nat
  BY <1>1, FS_CardinalityType
<1>3. List(names) \in [1..Cardinality(names) -> names] /\ Increasing(List(names))
  BY <1>1, ListExists DEF List, Increasing
<1>4. QED
  BY <1>2, <1>3

-----------------------------------------------------------------------------
(* The list, the form and the store. *)

\* A list that was read is one of names; the others say what became of them.
Listing == Seq(Names) \cup {Unread, Failed}

ListsOfNames == listed \in Seq(Names) /\ rows \in Seq(Names) /\ reloads \in Seq(Listing)

\* Rows lag behind the list by what forms have appended to it.
RowsLag == Len(rows) <= Len(listed) /\ \A i \in 1..Len(rows) : rows[i] = listed[i]

\* Removing a profile takes with it what a form meant for it.
MeantIsStored == meant \subseteq stored

\* The fields of a form; one being saved has a name.
FormFields ==
  /\ form \in [name : Names \cup {NoName}, proxy : BOOLEAN, saving : BOOLEAN]
  /\ form.saving => form.name \in Names

\* The secrets of profiles that have gone from profiles.toml are all that is yet to be
\* deleted, but for names a form has used again.
DeletesTheGone == \A n \in meant : <<n, "delete">> \in late => n \in raced

\* The inductive invariant of the dashboard.
IInv ==
  /\ DashboardSafety /\ ListsOfNames /\ RowsLag /\ MeantIsStored /\ FormFields /\ DeletesTheGone

\* refreshRows keeps the cursor on a row.
LEMMA RefreshFacts ==
  ASSUME NEW profiles \in Seq(Names), CursorOnRow, rows \in Seq(Names), refreshRows(profiles)
  PROVE  rows' = profiles /\ CursorOnRow'
<1>1. rows' = profiles /\ cursor' = Clamp(cursor, Len(profiles)) /\ Len(profiles) \in Nat
  BY DEF refreshRows
<1>2. cursor \in Int /\ cursor >= -1
  BY DEF CursorOnRow
<1>3. profiles = <<>> <=> Len(profiles) = 0
  OBVIOUS
<1>4. QED
  BY <1>1, <1>2, <1>3 DEF CursorOnRow, Clamp

\* The tables of names hold names.
LEMMA ToSetFacts ==
  ASSUME NEW s \in Seq(Names)
  PROVE  ToSet(s) \subseteq Names
BY DEF ToSet

\* The dashboard starts on the list of the store.
LEMMA InitIInv == Init => IInv
<1> SUFFICES ASSUME Init PROVE IInv
  OBVIOUS
<1>1. stored \in SUBSET Names
  BY DashboardAssumption DEF Init, Names
<1>2. listed \in Seq(Names) /\ rows = listed
  BY <1>1, ListFacts DEF Init
<1>3. reloads \in Seq(Listing) /\ reloads = <<>>
  BY DEF Init
<1>4. CursorOnRow
  BY <1>2 DEF Init, CursorOnRow
<1>5. TypeOK
  <2>1. ToSet(listed) \subseteq Names /\ ToSet(rows) \subseteq Names
    BY <1>2, ToSetFacts
  <2>2. form.name = None /\ form.proxy = FALSE /\ form.saving = FALSE
    BY DEF Init, newFormModel, NoName
  <2>3. acts \in 0..MaxActs
    BY DashboardAssumption DEF Init
  <2>4. QED
    BY <1>1, <2>1, <2>2, <2>3 DEF Init, TypeOK, NoName
<1>6. QED
  BY <1>1, <1>2, <1>3, <1>4, <1>5
  DEF Init, IInv, DashboardSafety, NeverQuietlyDirect, ListsOfNames, RowsLag, MeantIsStored,
      newFormModel, FormFields, DeletesTheGone

\* Rows are refreshed from the list, by a tick or a session's event.
LEMMA RefreshStep ==
  ASSUME IInv, Tick \/ SessionEvent
  PROVE  IInv'
<1> USE DEF IInv, DashboardSafety, ListsOfNames
<1>1. refreshRows(listed) /\ UNCHANGED <<view, listed, form, loading, opened, disk, acts>>
  BY DEF Tick, SessionEvent
<1>2. rows' = listed /\ CursorOnRow'
  BY <1>1, RefreshFacts
<1>3. UNCHANGED <<view, listed, form, reloads, reloadFailed, opened, stored, secrets, meant,
                  told, late, raced, acts>>
  BY <1>1 DEF loading, disk
<1>4. TypeOK'
  BY <1>2, <1>3 DEF TypeOK
<1>5. QED
  BY <1>2, <1>3, <1>4 DEF NeverQuietlyDirect, RowsLag, MeantIsStored, FormFields, DeletesTheGone

\* The answer to a reload becomes the list and the rows, or says it failed.
LEMMA ReloadStep ==
  ASSUME IInv, Reads \/ Arrives
  PROVE  IInv'
<1> USE DEF IInv, DashboardSafety, ListsOfNames
<1>1. CASE Reads
  <2>1. PICK i \in DOMAIN reloads : ReloadReads(i)
    BY <1>1 DEF Reads
  <2>2. PICK answer \in {List(stored), Failed} : reloads' = [reloads EXCEPT ![i] = answer]
    BY <2>1 DEF ReloadReads
  <2>3. answer \in Listing
    <3>1. stored \in SUBSET Names
      BY DEF TypeOK
    <3>2. List(stored) \in Seq(Names)
      BY <3>1, ListFacts
    <3>3. QED
      BY <3>2 DEF Listing
  <2>4. reloads' \in Seq(Listing)
    BY <2>2, <2>3
  <2>5. UNCHANGED <<view, listed, rows, cursor, form, reloadFailed, opened, stored, secrets,
                    meant, told, late, raced, acts>>
    BY <2>1 DEF ReloadReads, table, disk
  <2>6. QED
    BY <2>4, <2>5
    DEF TypeOK, CursorOnRow, NeverQuietlyDirect, RowsLag, MeantIsStored, FormFields, DeletesTheGone
<1>2. CASE Arrives
  <2>1. PICK i \in DOMAIN reloads : handleProfiles(i)
    BY <1>2 DEF Arrives
  <2>2. reloads' \in Seq(Listing)
    BY <2>1 DEF handleProfiles, RemoveAt
  <2>3. /\ UNCHANGED <<view, form, opened, stored, secrets, meant, told, late, raced, acts>>
        /\ reloadFailed' \in BOOLEAN
    BY <2>1 DEF handleProfiles, disk
  <2>4. \/ UNCHANGED <<listed, rows, cursor>>
        \/ reloads[i] \in Seq(Names) /\ listed' = reloads[i] /\ refreshRows(reloads[i])
    <3>1. reloads[i] \in Listing
      OBVIOUS
    <3>2. QED
      BY <2>1, <3>1 DEF handleProfiles, Listing, table
  <2>5. CASE UNCHANGED <<listed, rows, cursor>>
    BY <2>2, <2>3, <2>5
    DEF TypeOK, CursorOnRow, NeverQuietlyDirect, RowsLag, MeantIsStored, FormFields, DeletesTheGone
  <2>6. CASE reloads[i] \in Seq(Names) /\ listed' = reloads[i] /\ refreshRows(reloads[i])
    <3>1. rows' = reloads[i] /\ CursorOnRow'
      BY <2>6, RefreshFacts
    <3>2. TypeOK'
      BY <2>3, <2>6, <3>1, ToSetFacts DEF TypeOK
    <3>3. QED
      BY <2>2, <2>3, <2>6, <3>1, <3>2 DEF NeverQuietlyDirect, RowsLag, MeantIsStored,
                                          FormFields, DeletesTheGone
  <2>7. QED
    BY <2>4, <2>5, <2>6
<1>3. QED
  BY <1>1, <1>2

\* When a form is through, its profile is appended to the list.
LEMMA CreatedFacts ==
  ASSUME IInv, form.name \in Names, Created, UNCHANGED rows
  PROVE  /\ listed' \in Seq(Names) /\ ToSet(listed') \subseteq Names /\ reloads' \in Seq(Listing)
         /\ view' = "dashboard" /\ form' = newFormModel /\ FormFields' /\ RowsLag'
<1> USE DEF IInv, ListsOfNames, Created
<1>1. listed' \in Seq(Names) /\ reloads' \in Seq(Listing)
  BY DEF Listing
<1>2. ToSet(listed') \subseteq Names
  BY <1>1, ToSetFacts
<1>3. FormFields'
  BY DEF newFormModel, FormFields
<1>4. RowsLag'
  BY DEF RowsLag
<1>5. QED
  BY <1>1, <1>2, <1>3, <1>4

\* A form's profile has its proxy, or has none, or the user is told.
LEMMA FormStep ==
  ASSUME IInv, submitForm \/ submitProxy \/ submitHalf
  PROVE  IInv'
<1> USE DEF IInv, DashboardSafety, ListsOfNames
<1>1. form.name \in Names /\ UNCHANGED <<rows, cursor, reloadFailed, opened, late>>
  BY DEF submitForm, submitProxy, submitHalf, Complete, TypeOK, NoName, table, loading, FormFields
<1>2. CASE submitForm
  <2>1. /\ form.name \notin stored /\ stored' = stored \cup {form.name}
        /\ UNCHANGED <<secrets, told>>
        /\ raced' \in {raced, raced \cup {form.name}}
        /\ <<form.name, "delete">> \in late => form.name \in raced'
    BY <1>2 DEF submitForm, Complete
  <2>2. acts' \in 0..MaxActs
    BY <1>2, DashboardAssumption DEF submitForm, Act, Affordable, TypeOK
  <2>3. ~form.saving
    BY <1>2 DEF submitForm, KeyIn, Free
  <2>4. CASE form.proxy
    <3>1. /\ form' = [form EXCEPT !.saving = TRUE] /\ meant' = meant \cup {form.name}
          /\ UNCHANGED <<view, listed, reloads>>
      BY <1>2, <2>4 DEF submitForm
    <3>2. FormFields' /\ form'.name = form.name /\ form'.proxy \in BOOLEAN /\ form'.saving = TRUE
      BY <1>1, <3>1 DEF FormFields
    <3>3. TypeOK' /\ CursorOnRow' /\ RowsLag'
      BY <1>1, <2>1, <2>2, <3>1, <3>2 DEF TypeOK, CursorOnRow, RowsLag
    <3>4. NeverQuietlyDirect' /\ MeantIsStored' /\ DeletesTheGone'
      BY <1>1, <2>1, <2>3, <3>1, <3>2 DEF NeverQuietlyDirect, MeantIsStored, DeletesTheGone
    <3>5. QED
      BY <1>1, <3>1, <3>2, <3>3, <3>4
  <2>5. CASE ~form.proxy
    <3>1. Created /\ UNCHANGED meant
      BY <1>2, <2>5 DEF submitForm
    <3>2. /\ listed' \in Seq(Names) /\ ToSet(listed') \subseteq Names /\ reloads' \in Seq(Listing)
          /\ view' = "dashboard" /\ form' = newFormModel /\ FormFields' /\ RowsLag'
      BY <1>1, <3>1, CreatedFacts
    <3>3. TypeOK' /\ CursorOnRow'
      BY <1>1, <2>1, <2>2, <3>1, <3>2 DEF TypeOK, CursorOnRow, newFormModel, NoName
    <3>4. NeverQuietlyDirect' /\ MeantIsStored' /\ DeletesTheGone'
      BY <1>1, <2>1, <2>3, <3>1, <3>2
      DEF NeverQuietlyDirect, MeantIsStored, DeletesTheGone, newFormModel
    <3>5. QED
      BY <1>1, <3>2, <3>3, <3>4
  <2>6. QED
    BY <2>4, <2>5
<1>3. CASE submitProxy
  <2>1. /\ secrets' = secrets \cup {form.name} /\ Created
        /\ UNCHANGED <<stored, meant, told, raced, acts>>
    BY <1>3 DEF submitProxy
  <2>2. /\ listed' \in Seq(Names) /\ ToSet(listed') \subseteq Names /\ reloads' \in Seq(Listing)
        /\ view' = "dashboard" /\ form' = newFormModel /\ FormFields' /\ RowsLag'
    BY <1>1, <2>1, CreatedFacts
  <2>3. TypeOK' /\ CursorOnRow'
    BY <1>1, <2>1, <2>2 DEF TypeOK, CursorOnRow, newFormModel, NoName
  <2>4. NeverQuietlyDirect' /\ MeantIsStored' /\ DeletesTheGone'
    BY <1>1, <2>1, <2>2 DEF NeverQuietlyDirect, MeantIsStored, DeletesTheGone, newFormModel
  <2>5. QED
    BY <1>1, <2>2, <2>3, <2>4
<1>4. CASE submitHalf
  <2>1. /\ form' = [form EXCEPT !.saving = FALSE] /\ told' = told \cup {form.name}
        /\ UNCHANGED <<view, listed, reloads, stored, secrets, meant, raced, acts>>
    BY <1>4 DEF submitHalf, table, loading
  <2>2. FormFields' /\ form'.name = form.name /\ form'.proxy \in BOOLEAN /\ form'.saving = FALSE
    BY <2>1 DEF FormFields
  <2>3. TypeOK' /\ CursorOnRow' /\ RowsLag'
    BY <1>1, <2>1, <2>2 DEF TypeOK, CursorOnRow, RowsLag
  <2>4. NeverQuietlyDirect' /\ MeantIsStored' /\ DeletesTheGone'
    BY <1>1, <2>1, <2>2 DEF NeverQuietlyDirect, MeantIsStored, DeletesTheGone
  <2>5. QED
    BY <1>1, <2>1, <2>2, <2>3, <2>4
<1>5. QED
  BY <1>2, <1>3, <1>4

\* Another process takes a profile away and then its secret, or adds one.
LEMMA OtherStep ==
  ASSUME IInv, OtherAdds \/ OtherRemoves \/ OtherFinishes
  PROVE  IInv'
<1> USE DEF IInv, DashboardSafety, ListsOfNames
<1>1. UNCHANGED <<view, listed, rows, cursor, form, reloads, reloadFailed, opened>>
  BY DEF OtherAdds, OtherRemoves, OtherFinishes, table, loading
<1>2. acts' \in 0..MaxActs
  BY DashboardAssumption DEF OtherAdds, OtherRemoves, OtherFinishes, Act, Affordable, TypeOK
<1>3. CASE OtherAdds
  <2>1. PICK n \in Names \ stored :
          stored' = stored \cup {n} /\ late' \in {late, late \cup {<<n, "set">>}}
    BY <1>3 DEF OtherAdds
  <2>2. UNCHANGED <<secrets, meant, told, raced>>
    BY <1>3 DEF OtherAdds
  <2>3. TypeOK'
    BY <1>1, <1>2, <2>1, <2>2 DEF TypeOK
  <2>4. DeletesTheGone' /\ NeverQuietlyDirect' /\ MeantIsStored'
    BY <1>1, <2>1, <2>2 DEF DeletesTheGone, NeverQuietlyDirect, MeantIsStored
  <2>5. QED
    BY <1>1, <2>3, <2>4 DEF CursorOnRow, RowsLag, FormFields
<1>4. CASE OtherRemoves
  <2>1. PICK n \in stored :
          /\ stored' = stored \ {n} /\ late' = late \cup {<<n, "delete">>}
          /\ meant' = meant \ {n} /\ told' = told \ {n} /\ raced' = raced \ {n}
    BY <1>4 DEF OtherRemoves
  <2>2. UNCHANGED secrets
    BY <1>4 DEF OtherRemoves
  <2>3. TypeOK'
    BY <1>1, <1>2, <2>1, <2>2 DEF TypeOK
  <2>4. DeletesTheGone' /\ NeverQuietlyDirect' /\ MeantIsStored'
    BY <1>1, <2>1, <2>2 DEF DeletesTheGone, NeverQuietlyDirect, MeantIsStored
  <2>5. QED
    BY <1>1, <2>3, <2>4 DEF CursorOnRow, RowsLag, FormFields
<1>5. CASE OtherFinishes
  <2>1. PICK n \in Names, what \in {"set", "delete"} :
          /\ <<n, what>> \in late /\ late' = late \ {<<n, what>>}
          /\ secrets' \in {secrets, IF what = "set" THEN secrets \cup {n} ELSE secrets \ {n}}
    BY <1>5 DEF OtherFinishes, TypeOK
  <2>2. UNCHANGED <<stored, meant, told, raced>>
    BY <1>5 DEF OtherFinishes
  <2>3. TypeOK'
    BY <1>1, <1>2, <2>1, <2>2 DEF TypeOK
  <2>4. DeletesTheGone' /\ MeantIsStored'
    BY <2>1, <2>2 DEF DeletesTheGone, MeantIsStored
  <2>5. NeverQuietlyDirect'
    <3>1. CASE what = "set" \/ secrets' = secrets
      BY <1>1, <2>1, <2>2, <3>1 DEF NeverQuietlyDirect
    <3>2. CASE what = "delete" /\ secrets' = secrets \ {n}
      <4>1. n \in meant => n \in raced
        BY <2>1, <3>2 DEF DeletesTheGone
      <4>2. QED
        BY <1>1, <2>2, <3>2, <4>1 DEF NeverQuietlyDirect
    <3>3. QED
      BY <2>1, <3>1, <3>2
  <2>6. QED
    BY <1>1, <2>3, <2>4, <2>5 DEF CursorOnRow, RowsLag, FormFields
<1>6. QED
  BY <1>3, <1>4, <1>5

\* Keys that write nothing.
LEMMA KeyStep ==
  ASSUME IInv, Move \/ KeyOpen \/ KeyReload \/ KeyAdd \/ Type \/ CancelForm
  PROVE  IInv'
<1> USE DEF IInv, DashboardSafety, ListsOfNames
<1>1. UNCHANGED <<listed, rows, stored, secrets, meant, told, late, raced, reloadFailed>>
  BY DEF Move, KeyOpen, KeyReload, KeyAdd, Type, CancelForm, table, loading, disk
<1>2. CursorOnRow'
  <2>1. CASE Move
    <3>1. Len(rows) \in Nat /\ rows # <<>> /\ cursor \in 0..(Len(rows) - 1)
      BY <2>1 DEF Move, CursorOnRow
    <3>2. QED
      BY <1>1, <2>1, <3>1 DEF Move, CursorOnRow, Clamp
  <2>2. CASE ~Move
    BY <1>1, <2>2 DEF KeyOpen, KeyReload, KeyAdd, Type, CancelForm, table, CursorOnRow
  <2>3. QED
    BY <2>1, <2>2
<1>3. reloads' \in Seq(Listing)
  BY DEF Move, KeyOpen, KeyReload, KeyAdd, Type, CancelForm, loading, Listing
<1>4. acts' \in 0..MaxActs
  BY DashboardAssumption
  DEF Move, KeyOpen, KeyReload, KeyAdd, Type, CancelForm, Act, Affordable, TypeOK
<1>5. opened' \subseteq Names
  <2>1. CASE KeyOpen
    <3>1. Selected \in Names
      BY <2>1 DEF KeyOpen, Selected
    <3>2. QED
      BY <2>1, <3>1 DEF KeyOpen, TypeOK
  <2>2. CASE ~KeyOpen
    BY <2>2 DEF Move, KeyReload, KeyAdd, Type, CancelForm, TypeOK
  <2>3. QED
    BY <2>1, <2>2
<1>6. view' \in {"dashboard", "form"} /\ FormFields' /\ ~form.saving /\ ~form'.saving
  <2>1. CASE Type
    BY <2>1 DEF Type, KeyIn, Free, TypeOK, FormFields
  <2>2. CASE KeyAdd \/ CancelForm
    <3>1. form' = newFormModel /\ view' \in {"dashboard", "form"} /\ ~form.saving
      BY <2>2 DEF KeyAdd, CancelForm, KeyIn, Free
    <3>2. QED
      BY <3>1 DEF newFormModel, FormFields
  <2>3. CASE Move \/ KeyOpen \/ KeyReload
    <3>1. UNCHANGED <<view, form>> /\ ~form.saving
      BY <2>3 DEF Move, KeyOpen, KeyReload, KeyIn, Free
    <3>2. QED
      BY <3>1 DEF TypeOK, FormFields
  <2>4. QED
    BY <2>1, <2>2, <2>3
<1>7. TypeOK'
  BY <1>1, <1>4, <1>5, <1>6 DEF TypeOK, FormFields
<1>8. QED
  BY <1>1, <1>2, <1>3, <1>6, <1>7 DEF NeverQuietlyDirect, RowsLag, MeantIsStored,
                                      FormFields, DeletesTheGone

\* The invariant reads nothing but the dashboard's own variables.
LEMMA StutterStep == IInv /\ UNCHANGED dash => IInv'
BY DEF IInv, dash, DashboardSafety, TypeOK, CursorOnRow, NeverQuietlyDirect, ListsOfNames, RowsLag,
       MeantIsStored, FormFields, DeletesTheGone

\* IInv is inductive.
LEMMA Inductive == IInv /\ [Next]_vars => IInv'
<1> SUFFICES ASSUME IInv, [Next]_vars PROVE IInv'
  OBVIOUS
<1>1. CASE UNCHANGED dash
  BY <1>1, StutterStep
<1>2. CASE ~UNCHANGED dash
  BY <1>2, RefreshStep, ReloadStep, FormStep, OtherStep, KeyStep
  DEF Next, vars, KeyQuit, Signal, submitRefused, AskFor, Opening, ModalBegins, ModalAnswered
<1>3. QED
  BY <1>1, <1>2

\* The inductive invariant of the dashboard holds.
THEOREM Invariance == Spec => []IInv
BY InitIInv, Inductive, PTL DEF Spec

\* For any number of profiles, reloads in any order and other writers: the cursor
\* is on a row, and a profile has the proxy its form asked for, or the user was told,
\* unless another process was still removing its name when the form added it
\* (model.go refreshRows, form.go submitForm, store.go Remove).
THEOREM DashboardIsSafe == Spec => []DashboardSafety
<1>1. IInv => DashboardSafety
  BY DEF IInv
<1>2. QED
  BY <1>1, Invariance, PTL

-----------------------------------------------------------------------------
(* The user's aim. *)

\* Refreshing puts under the cursor what was there: the rows are a prefix of the list.
LEMMA RefreshKeepsSelected ==
  ASSUME IInv, Selected # None, refreshRows(listed)
  PROVE  Selected' = Selected
<1> USE DEF IInv, ListsOfNames
<1>1. cursor \in 0..(Len(rows) - 1) /\ Len(rows) <= Len(listed)
  BY DEF Selected, RowsLag
<1>2. rows' = listed /\ cursor' = cursor
  BY <1>1 DEF refreshRows, Clamp
<1>3. cursor + 1 \in 1..Len(rows)
  BY <1>1
<1>4. rows[cursor + 1] = listed[cursor + 1]
  BY <1>3 DEF RowsLag
<1>5. QED
  BY <1>1, <1>2, <1>4 DEF Selected

\* No modal comes up in the middle of submitForm.
LoopBusy == form.saving => modal = None

\* A form is saved from a free screen, and the loop takes no message until it is through.
LEMMA BusyStep == LoopBusy /\ [Next]_vars => LoopBusy'
<1> SUFFICES ASSUME LoopBusy, [Next]_vars PROVE LoopBusy'
  OBVIOUS
<1>1. CASE submitForm
  BY <1>1 DEF submitForm, KeyIn, LoopBusy, bridge
<1>2. CASE submitProxy \/ submitHalf
  BY <1>2 DEF submitProxy, submitHalf, LoopBusy, bridge
<1>3. CASE \E o \in Openers : AskFor(o) \/ Opening(o)
  BY <1>3
  DEF AskFor, Opening, OpenerStep, Ask, FromKeychain, KeychainMiss, KeychainSave, EnterGate,
      FromCache, Send, Receive, FromBridge, keychain, loop, dash, LoopBusy
<1>4. CASE ModalBegins \/ ModalAnswered \/ KeyQuit \/ Signal
  BY <1>4
  DEF ModalBegins, ModalAnswered, KeyQuit, Signal, KeyIn, Free, Submit, Dismiss, Resolve, Quit,
      dash, LoopBusy
<1>5. CASE Type \/ KeyAdd \/ CancelForm
  BY <1>5 DEF Type, KeyAdd, CancelForm, KeyIn, LoopBusy, bridge
<1>6. CASE UNCHANGED <<bridge, form>>
  BY <1>6 DEF LoopBusy, bridge
<1>7. QED
  BY <1>1, <1>2, <1>3, <1>4, <1>5, <1>6
  DEF Next, Move, KeyOpen, KeyReload, submitRefused, Tick, SessionEvent, Reads, ReloadReads,
      Arrives, handleProfiles, OtherAdds, OtherRemoves, OtherFinishes, vars, dash

\* The selection moves with the arrows and with a reloaded list only, and a key
\* never goes past a modal (model.go Update, refreshRows).
THEOREM AimIsKept == Spec => AimKept
<1>1. ASSUME IInv, [Next]_vars
      PROVE  [Selected' \notin {Selected} /\ Selected # None => Move \/ Arrives]_vars
  <2> SUFFICES ASSUME Selected # None, Selected' # Selected, Next PROVE Move \/ Arrives
    BY <1>1
  <2>1. CASE Tick \/ SessionEvent
    BY <1>1, <2>1, RefreshKeepsSelected DEF Tick, SessionEvent
  <2>2. CASE UNCHANGED <<rows, cursor>>
    BY <2>2 DEF Selected
  <2>3. QED
    BY <2>1, <2>2
    DEF Next, KeyOpen, KeyReload, KeyAdd, KeyQuit, Signal, Type, CancelForm, submitRefused,
        submitForm, submitProxy, submitHalf, Reads, ReloadReads, OtherAdds, OtherRemoves,
        OtherFinishes, AskFor, Opening, ModalBegins, ModalAnswered, vars, dash, table
<1>2. ASSUME LoopBusy, [Next]_vars
      PROVE  [modal # None => UNCHANGED <<view, form, opened>> \/ modal' # modal]_vars
  BY <1>2
  DEF Next, KeyIn, Move, KeyOpen, KeyReload, KeyAdd, KeyQuit, Signal, Type, CancelForm,
      submitRefused, submitForm, submitProxy, submitHalf, Tick, SessionEvent, Reads, ReloadReads,
      Arrives, handleProfiles, OtherAdds, OtherRemoves, OtherFinishes, AskFor, Opening,
      ModalBegins, ModalAnswered, vars, dash, LoopBusy
<1>3. Init => LoopBusy
  BY DEF Init, newFormModel, LoopBusy
<1>4. QED
  BY <1>1, <1>2, <1>3, BusyStep, Invariance, PTL
  DEF Spec, AimKept, SelectionStays, ModalTakesKeys
=============================================================================
