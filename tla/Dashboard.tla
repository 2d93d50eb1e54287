------------------------------ MODULE Dashboard ------------------------------
(***************************************************************************)
(* The dashboard's model (internal/cmd/tui model.go, form.go, tui.go) with *)
(* the passphrase modal over it: one loop that handles keys and messages,  *)
(* goroutines that reload the list and open profiles, and other hamzad     *)
(* processes that write to the same store.                                 *)
(*                                                                         *)
(* A profile is its name; names are numbers in the order the store sorts   *)
(* them.  Of a row only the name is kept (SessionManager has the session   *)
(* columns), of the form its name and whether it has a proxy.  Whoever     *)
(* adds or removes a profile writes profiles.toml first and the secret     *)
(* afterwards, and nothing keeps another process out in between.           *)
(***************************************************************************)
EXTENDS PassphraseBridge, Integers, FiniteSets

CONSTANTS Stores,   \* what the store may hold when the dashboard starts
          MaxActs,  \* bound: forms, reloads and writes to the store, taken together
          MaxMixed  \* bound: opens, and such acts, where there are both

ASSUME DashboardAssumption ==
  /\ MaxActs \in Nat /\ MaxMixed \in Nat
  /\ Openers \subseteq Nat /\ IsFiniteSet(Openers)
  /\ Stores \subseteq SUBSET Openers

VARIABLES
  view,
  listed,  \* m.profiles
  rows,    \* the table's rows, which lag behind listed until they are refreshed
  cursor,  \* the table's, from 0; -1 in an empty table
  form,
  reloads, \* reloadCmd goroutines and their profilesMsg, in the order they were started
  reloadFailed, \* the last reload handled said so on the status line
  opened,  \* profiles an openCmd was started for
  stored,  \* profiles.toml
  secrets, \* secrets/*.age
  meant,   \* profiles a form created with a proxy in it
  told,    \* profiles a form said to have been saved without their proxy
  late,    \* <<n, what>>: another process is done with n in profiles.toml and about
           \* to "set" or "delete" its secret
  raced,   \* profiles a form created while the secret of one removed was to be deleted
  acts

dash == <<view, listed, rows, cursor, form, reloads, reloadFailed, opened, stored,
          secrets, meant, told, late, raced, acts>>
vars == <<bridge, dash>>
table == <<listed, rows, cursor>>
loading == <<reloads, reloadFailed>>
disk == <<stored, secrets, meant, told, late, raced>>

Names == Openers
\* Store.List: the names in order.
List(names) ==
  CHOOSE s \in [1..Cardinality(names) -> names] : \A i, j \in DOMAIN s : i < j => s[i] < s[j]
\* A list not read yet, and one that could not be.
Unread == <<-1>>
Failed == <<-2>>
NoName == None
\* saving: submitForm is between Add and SetProxy.
newFormModel == [name |-> NoName, proxy |-> FALSE, saving |-> FALSE]

Selected == IF cursor \in 0..(Len(rows) - 1) THEN rows[cursor + 1] ELSE None

\* SetRows clamps the cursor from above, SetCursor from below.
Clamp(c, n) == IF c >= n THEN n - 1 ELSE IF c < 0 /\ n > 0 THEN 0 ELSE c
\* Wrong on purpose, as every ...Mutant below: it goes back to the top.
refreshRowsMutant(profiles) ==
  rows' = profiles /\ cursor' = IF profiles = <<>> THEN -1 ELSE 0
refreshRows(profiles) ==
  rows' = profiles /\ cursor' = Clamp(cursor, Len(profiles))

Init ==
  /\ BridgeInit
  /\ stored \in Stores /\ secrets = {}
  /\ view = "dashboard" /\ form = newFormModel
  /\ listed = List(stored) /\ rows = listed
  /\ cursor = IF rows = <<>> THEN -1 ELSE 0
  /\ reloads = <<>> /\ reloadFailed = FALSE
  /\ opened = {} /\ meant = {} /\ told = {} /\ late = {} /\ raced = {} /\ acts = 0

\* The bounds: alone, there may be many opens or many acts; together, only a few.
Affordable(opens, n) ==
  /\ n <= MaxActs
  /\ opens = {} \/ n = 0 \/ (Cardinality(opens) <= MaxMixed /\ n <= MaxMixed)
Act == acts' = acts + 1 /\ Affordable(opened, acts')

\* The loop takes the next key or message: it is not in the middle of submitForm.
Free == running /\ ~form.saving

\* Update gives a key to the modal if there is one, else to the view.
KeyIn(v) == Free /\ modal = None /\ view = v

------------------------------------------------------------------------------
(* Keys of the table. *)

Move ==
  /\ KeyIn("dashboard") /\ rows # <<>>
  /\ cursor' \in {Clamp(cursor + 1, Len(rows)), Clamp(cursor - 1, Len(rows))} \ {cursor}
  /\ UNCHANGED <<bridge, view, listed, rows, form, loading, opened, disk, acts>>

\* o: an openCmd goroutine, whose Open may ask for the passphrase.
KeyOpen ==
  /\ KeyIn("dashboard")
  /\ Selected \notin opened \cup {None}
  /\ opened' = opened \cup {Selected}
  /\ Affordable(opened', acts)
  /\ UNCHANGED <<bridge, view, table, form, loading, disk, acts>>

KeyReload ==
  /\ KeyIn("dashboard") /\ Act
  /\ reloads' = Append(reloads, Unread)
  /\ UNCHANGED <<bridge, view, table, form, reloadFailed, opened, disk>>

KeyAdd ==
  /\ KeyIn("dashboard") /\ Act
  /\ form' = newFormModel /\ view' = "form"
  /\ UNCHANGED <<bridge, table, loading, opened, disk>>

\* q, or ctrl+c in either view; a signal is a message, which the loop may get at any
\* moment.
KeyQuit ==
  /\ \E v \in {"dashboard", "form"} : KeyIn(v)
  /\ Quit
  /\ UNCHANGED dash
Signal == Free /\ Quit /\ UNCHANGED dash

------------------------------------------------------------------------------
(* Keys of the form. *)

Type ==
  /\ KeyIn("form")
  /\ \/ \E n \in Names \cup {NoName} : form' = [form EXCEPT !.name = n]
     \/ form' = [form EXCEPT !.proxy = ~@]
  /\ form' # form
  /\ UNCHANGED <<bridge, view, table, loading, opened, disk, acts>>

\* esc
CancelForm ==
  /\ KeyIn("form")
  /\ view' = "dashboard" /\ form' = newFormModel
  /\ UNCHANGED <<bridge, table, loading, opened, disk, acts>>

\* What the form itself must have: the proxy's syntax, encryption and the disk may
\* fail in any case.
Complete == form.name # NoName /\ form.name \notin stored

\* Refused before anything is written: the form stays, with a message.
submitRefused == KeyIn("form") /\ UNCHANGED vars

\* The list is appended to at once, and sorted when the reload comes back.
Created ==
  /\ view' = "dashboard" /\ form' = newFormModel
  /\ listed' = Append(listed, form.name)
  /\ reloads' = Append(reloads, Unread)

\* Add; a profile without a proxy is done with that.
submitForm ==
  /\ KeyIn("form") /\ Act /\ Complete
  /\ stored' = stored \cup {form.name}
  /\ raced' = IF <<form.name, "delete">> \in late THEN raced \cup {form.name} ELSE raced
  /\ IF form.proxy THEN /\ form' = [form EXCEPT !.saving = TRUE]
                        /\ meant' = meant \cup {form.name}
                        /\ UNCHANGED <<view, listed, reloads>>
     ELSE Created /\ UNCHANGED meant
  /\ UNCHANGED <<bridge, rows, cursor, reloadFailed, opened, secrets, told, late>>

\* SetProxy.
submitProxy ==
  /\ running /\ form.saving
  /\ secrets' = secrets \cup {form.name}
  /\ Created
  /\ UNCHANGED <<bridge, rows, cursor, reloadFailed, opened, stored, meant, told, late, raced,
                 acts>>

\* What SetProxy answers is not looked at.
submitHalfMutant ==
  /\ running /\ form.saving
  /\ Created
  /\ UNCHANGED <<bridge, rows, cursor, reloadFailed, opened, disk, acts>>

\* SetProxy fails: the form stays, and says so.
submitHalf ==
  /\ running /\ form.saving
  /\ form' = [form EXCEPT !.saving = FALSE]
  /\ told' = told \cup {form.name}
  /\ UNCHANGED <<bridge, view, table, loading, opened, stored, secrets, meant, late, raced, acts>>

------------------------------------------------------------------------------
(* Messages and goroutines. *)

\* A tick refreshes the rows of the dashboard on screen.
Tick ==
  /\ Free /\ view = "dashboard"
  /\ refreshRows(listed)
  /\ UNCHANGED <<bridge, view, listed, form, loading, opened, disk, acts>>

\* A session event does in every view: any session started here may announce one.
SessionEvent ==
  /\ Free /\ opened # {}
  /\ refreshRows(listed)
  /\ UNCHANGED <<bridge, view, listed, form, loading, opened, disk, acts>>

\* reloadCmd's goroutine calls store.List.
ReloadReads(i) ==
  /\ reloads[i] = Unread
  /\ \E answer \in {List(stored), Failed} : reloads' = [reloads EXCEPT ![i] = answer]
  /\ UNCHANGED <<bridge, view, table, form, reloadFailed, opened, disk, acts>>

\* A list that arrives while the form is open is thrown away.
handleProfilesMutant(i) ==
  /\ Free /\ reloads[i] # Unread
  /\ reloads' = RemoveAt(reloads, i)
  /\ reloadFailed' = (reloads[i] = Failed)
  /\ IF reloadFailed' \/ view = "form" THEN UNCHANGED table
     ELSE listed' = reloads[i] /\ refreshRows(listed')
  /\ UNCHANGED <<bridge, view, form, opened, disk, acts>>

\* Answers are handled in any order.
handleProfiles(i) ==
  /\ Free /\ reloads[i] # Unread
  /\ reloads' = RemoveAt(reloads, i)
  /\ reloadFailed' = (reloads[i] = Failed)
  /\ IF reloadFailed' THEN UNCHANGED table
     ELSE listed' = reloads[i] /\ refreshRows(listed')
  /\ UNCHANGED <<bridge, view, form, opened, disk, acts>>

\* Another process adds a profile, with or without a proxy, or removes one: the
\* document first ...
OtherAdds ==
  /\ running /\ Act
  /\ \E n \in Names \ stored :
       stored' = stored \cup {n} /\ late' \in {late, late \cup {<<n, "set">>}}
  /\ UNCHANGED <<bridge, view, table, form, loading, opened, secrets, meant, told, raced>>
OtherRemoves ==
  /\ running /\ Act
  /\ \E n \in stored :
       /\ stored' = stored \ {n} /\ late' = late \cup {<<n, "delete">>}
       /\ meant' = meant \ {n} /\ told' = told \ {n} /\ raced' = raced \ {n}
  /\ UNCHANGED <<bridge, view, table, form, loading, opened, secrets>>

\* ... and the secret when it gets there, unless it is killed first.
OtherFinishes ==
  /\ running
  /\ \E n \in Names, what \in {"set", "delete"} :
       /\ <<n, what>> \in late /\ late' = late \ {<<n, what>>}
       /\ secrets' \in {secrets, IF what = "set" THEN secrets \cup {n} ELSE secrets \ {n}}
  /\ UNCHANGED <<bridge, view, table, form, loading, opened, stored, meant, told, raced, acts>>

\* The prompts of the profiles being opened, and the modal's own keys.
AskFor(o) == o \in opened /\ Ask(o) /\ UNCHANGED dash
Opening(o) == OpenerStep(o) /\ UNCHANGED dash
ModalBegins == Free /\ BeginModal /\ UNCHANGED dash
ModalAnswered == Free /\ (Submit \/ Dismiss) /\ UNCHANGED dash

Reads == \E i \in DOMAIN reloads : ReloadReads(i)
Arrives == \E i \in DOMAIN reloads : handleProfiles(i)
Saves == submitProxy \/ submitHalf

Next ==
  \/ Move \/ KeyOpen \/ KeyReload \/ KeyAdd \/ KeyQuit \/ Signal
  \/ Type \/ CancelForm \/ submitRefused \/ submitForm \/ submitProxy \/ submitHalf
  \/ Tick \/ SessionEvent \/ Reads \/ Arrives
  \/ OtherAdds \/ OtherRemoves \/ OtherFinishes
  \/ (\E o \in Openers : AskFor(o) \/ Opening(o)) \/ ModalBegins \/ ModalAnswered

Spec == Init /\ [][Next]_vars

\* Goroutines run and mutexes are handed on; the loop ends what it is at, handles its
\* messages, and somebody answers a modal that stays on the screen, one way or the other.
FairSpec ==
  /\ Spec
  /\ WF_vars(Reads) /\ WF_vars(Arrives) /\ WF_vars(Saves)
  /\ WF_vars(ModalBegins) /\ WF_vars(ModalAnswered)
  /\ \A o \in Openers : SF_vars(Opening(o))

------------------------------------------------------------------------------
(* Properties. *)

\* Types of the variables.
TypeOK ==
  /\ view \in {"dashboard", "form"}
  /\ {ToSet(listed), ToSet(rows), opened, stored, secrets, meant, told, raced}
       \subseteq SUBSET Names
  /\ late \subseteq Names \X {"set", "delete"}
  /\ form.name \in Names \cup {NoName} /\ form.proxy \in BOOLEAN /\ form.saving \in BOOLEAN
  /\ reloadFailed \in BOOLEAN /\ acts \in 0..MaxActs

\* Whatever shrinks, grows or reorders the rows, the cursor is on one of them as
\* long as there is one: a key never acts on nothing (refreshRows).
CursorOnRow == IF rows = <<>> THEN cursor = -1 ELSE cursor \in 0..(Len(rows) - 1)

\* A profile whose form asked for a proxy has one, or the user has been told that
\* it was saved without, once the form is through (form.go:170): whatever other
\* processes do meanwhile, it is not opened over the direct connection unawares.
\* But for one whose name another process was still removing: the end of that
\* removal takes the secret of the new profile (store.go:181).
NeverQuietlyDirect ==
  meant \cap stored \subseteq
    secrets \cup told \cup raced \cup (IF form.saving THEN {form.name} ELSE {})

\* The dashboard's invariants in one.
DashboardSafety == TypeOK /\ CursorOnRow /\ NeverQuietlyDirect

\* Refreshing the rows does not change which profile o and c act on, though rows
\* lag behind the list and a form has added to it: only the user's arrows and a
\* reloaded list do (model.go:283 "preserving the cursor position").
SelectionStays ==
  [][Selected' \notin {Selected} /\ Selected # None => Move \/ Arrives]_vars

\* The modal is over everything: while it is up nothing the user types reaches
\* the view, and a form survives it as it was (model.go:140).
ModalTakesKeys ==
  [][modal # None => UNCHANGED <<view, form, opened>> \/ modal' # modal]_vars

\* What a step of the dashboard never does to the user's aim, in one.
AimKept == SelectionStays /\ ModalTakesKeys

\* Once nothing else happens, a reload shows the store as it is - whatever the
\* user has on the screen when it comes back - or says that it failed. Two at a
\* time do not: MCDashboard.
ListSettles ==
  acts = MaxActs /\ reloads = <<Unread>> /\ ~form.saving
    ~> rows = List(stored) \/ reloadFailed \/ ~running
=============================================================================
