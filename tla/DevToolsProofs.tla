--------------------------- MODULE DevToolsProofs ---------------------------
(***************************************************************************)
(* What the DevTools client promises its callers and what the overrides    *)
(* sent through it do to a page: theorems about CdpClient, for any set of  *)
(* calls of Send, and about LaunchOptions, for any profile.                *)
(*                                                                         *)
(* Replies are matched by id alone, after the mutex was released, and sent *)
(* on channels of capacity one: that the right caller gets each reply and  *)
(* that the reader never waits both rest on the map of waiters being       *)
(* one-to-one, and on a reply in the reader's hands having left the map.   *)
(*                                                                         *)
(* A page shows what was asked for because what is set already and what is *)
(* still queued are together, at every command, all that the options pin;  *)
(* and a script runs because the domain it needs is enabled before it and  *)
(* the page it patches is loaded after it.                                 *)
(***************************************************************************)
EXTENDS CdpClient, LaunchOptions, SequenceTheorems, TLAPS

-----------------------------------------------------------------------------
(* The client. *)

\* A call has no reply before it registers, no result before it returns, and
\* writes no request without an id.
Untouched ==
  \A s \in Sends :
    /\ pc[s] = "idle" => chan[s] = None
    /\ pc[s] # "returned" => result[s] = None
    /\ pc[s] = "write" => id[s] \in 1..nextID

\* An entry of pending is the request of its waiter, which has no reply yet.
Waiting ==
  \A i \in DOMAIN pending :
    /\ pc[pending[i]] # "idle"
    /\ id[pending[i]] = i
    /\ chan[pending[i]] = None

\* So is the reply the reader holds, and its entry is gone.
Handing ==
  reader = "deliver" =>
    /\ held \in [waiter : Sends, reply : 1..nextID]
    /\ pc[held.waiter] # "idle"
    /\ id[held.waiter] = held.reply
    /\ chan[held.waiter] = None
    /\ held.reply \notin DOMAIN pending

\* What lies in a channel answers the request of its owner.
Answered == \A s \in Sends : chan[s] \notin {None, Closed} => chan[s] = id[s]

\* The inductive invariant.
IInv == TypeOK /\ Untouched /\ Waiting /\ Handing /\ Answered /\ OwnReply /\ NobodyLeftBehind

-----------------------------------------------------------------------------
\* No two requests share a waiter: a waiter's id is the key of its entry.
LEMMA OneEntryEach ==
  ASSUME Waiting, NEW i \in DOMAIN pending, NEW j \in DOMAIN pending, pending[i] = pending[j]
  PROVE  i = j
  BY DEF Waiting

\* The entry of the reply taken off the wire is dropped, the others stay.
LEMMA TakenOut ==
  ASSUME NEW i \in DOMAIN pending, pending' = Restrict(pending, DOMAIN pending \ {i})
  PROVE  /\ DOMAIN pending' = DOMAIN pending \ {i}
         /\ \A j \in DOMAIN pending' : pending'[j] = pending[j]
  BY DEF Restrict

\* Nobody has registered, so nothing is on its way.
LEMMA InitIInv == Init => IInv
<1> SUFFICES ASSUME Init PROVE IInv
  OBVIOUS
<1> USE SendsAssumption DEF Init
<1>1. TypeOK
  BY DEF TypeOK, NoWaiter
<1>2. Untouched /\ Waiting /\ Handing
  BY DEF Untouched, Waiting, Handing, NoWaiter
<1>3. Answered /\ OwnReply /\ NobodyLeftBehind
  BY DEF Answered, OwnReply, NobodyLeftBehind
<1>4. QED
  BY <1>1, <1>2, <1>3 DEF IInv

\* Registering: the id is fresh, so the new entry is nobody else's.
LEMMA RegisterStep ==
  ASSUME IInv, NEW s \in Sends, Register(s)
  PROVE  IInv'
<1> USE DEF IInv, TypeOK, Register, wire
<1>1. /\ nextID' = nextID + 1 /\ nextID' \notin DOMAIN pending
      /\ DOMAIN pending' = DOMAIN pending \cup {nextID'}
      /\ pending'[nextID'] = s
      /\ \A i \in DOMAIN pending : pending'[i] = pending[i] /\ pending[i] # s
  BY DEF Waiting
<1>2. TypeOK'
  BY <1>1
<1>3. Untouched' /\ Answered' /\ OwnReply'
  BY <1>1 DEF Untouched, Answered, OwnReply, Closed
<1>4. Waiting'
  BY <1>1 DEF Waiting, Untouched
<1>5. Handing'
  BY <1>1 DEF Handing
<1>6. NobodyLeftBehind'
  BY DEF NobodyLeftBehind
<1>7. QED
  BY <1>2, <1>3, <1>4, <1>5, <1>6

\* A step of Send after it registered changes no entry, no id and no channel.
LEMMA CallStep ==
  ASSUME IInv, NEW s \in Sends,
         \/ RefuseClosed(s) \/ Write(s) \/ WriteFails(s) \/ Receive(s) \/ GiveUp(s)
         \/ CancelContext(s)
  PROVE  IInv'
<1> USE DEF IInv
<1>1. /\ UNCHANGED <<id, chan, nextID, pending, closed, frames, reader, held>>
      /\ \A t \in Sends : pc'[t] \in {"idle", "write"} => pc[t] = pc'[t]
      /\ \A t \in Sends : pc[t] = "returned" => pc'[t] = "returned"
      /\ \A t \in Sends : pc[t] # "idle" => pc'[t] # "idle"
  BY DEF RefuseClosed, Write, WriteFails, Receive, GiveUp, CancelContext, Return, TypeOK, wire
<1>2. \A t \in Sends : result'[t] \in {result[t], Closed, chan[t]} /\ (pc'[t] # "returned" => result'[t] = result[t])
  BY DEF RefuseClosed, Write, WriteFails, Receive, GiveUp, CancelContext, Return, TypeOK
<1>3. TypeOK'
  <2> USE SendsAssumption DEF TypeOK, Return, wire, Closed
  <2>1. CASE RefuseClosed(s) \/ WriteFails(s) \/ GiveUp(s)
    <3>1. /\ pc' = [pc EXCEPT ![s] = "returned"]
          /\ result' = [result EXCEPT ![s] = 0]
          /\ UNCHANGED <<cancelled, conn, browser>>
      BY <2>1 DEF RefuseClosed, WriteFails, GiveUp
    <3>2. QED
      BY <1>1, <3>1
  <2>2. CASE Receive(s)
    BY <2>2 DEF Receive
  <2>3. CASE CancelContext(s)
    BY <2>3 DEF CancelContext
  <2>4. CASE Write(s)
    BY <2>4 DEF Write, Untouched
  <2>5. QED
    BY <2>1, <2>2, <2>3, <2>4
<1>4. Untouched'
  BY <1>1, <1>2 DEF Untouched
<1>5. Waiting' /\ Handing'
  BY <1>1 DEF Waiting, Handing, TypeOK
<1>6. Answered' /\ OwnReply'
  BY <1>1, <1>2 DEF Answered, OwnReply
<1>7. NobodyLeftBehind'
  BY <1>1 DEF NobodyLeftBehind
<1>8. QED
  BY <1>3, <1>4, <1>5, <1>6, <1>7

\* Taking a reply off the wire hands the reader that reply's waiter.
LEMMA ReadStep ==
  ASSUME IInv, Read
  PROVE  IInv'
<1> USE DEF IInv
<1>1. PICK i \in frames :
        /\ frames' = frames \ {i}
        /\ IF i \in DOMAIN pending
           THEN /\ reader' = "deliver"
                /\ held' = [waiter |-> pending[i], reply |-> i]
                /\ pending' = Restrict(pending, DOMAIN pending \ {i})
           ELSE UNCHANGED <<reader, held, pending>>
  BY DEF Read
<1>2. UNCHANGED <<pc, id, chan, result, cancelled, nextID, closed, conn, browser>>
  BY DEF Read, calls
<1>3. reader = "read"
  BY DEF Read
<1>4. CASE i \notin DOMAIN pending
  BY <1>1, <1>2, <1>3, <1>4
  DEF TypeOK, Untouched, Waiting, Handing, Answered, OwnReply, NobodyLeftBehind
<1>5. CASE i \in DOMAIN pending
  <2>1. /\ DOMAIN pending' = DOMAIN pending \ {i}
        /\ \A j \in DOMAIN pending' : pending'[j] = pending[j]
    BY <1>1, <1>5, TakenOut
  <2>2. TypeOK'
    <3>1. held' \in [waiter : Sends, reply : 1..nextID]
      BY <1>1, <1>5 DEF TypeOK
    <3>2. /\ DOMAIN pending' \subseteq 1..nextID'
          /\ \A j \in DOMAIN pending' : pending'[j] \in Sends
      BY <1>2, <2>1 DEF TypeOK
    <3>3. frames' \subseteq 1..nextID' /\ reader' = "deliver"
      BY <1>1, <1>2, <1>5 DEF TypeOK
    <3>4. QED
      BY <1>2, <3>1, <3>2, <3>3 DEF TypeOK
  <2>3. Waiting'
    BY <1>2, <2>1 DEF Waiting
  <2>4. Handing'
    BY <1>1, <1>2, <1>5, <2>1 DEF Handing, Waiting, TypeOK
  <2>5. Untouched' /\ Answered' /\ OwnReply' /\ NobodyLeftBehind'
    BY <1>1, <1>2, <1>5 DEF Untouched, Answered, OwnReply, NobodyLeftBehind
  <2>6. QED
    BY <2>2, <2>3, <2>4, <2>5
<1>6. QED
  BY <1>4, <1>5

\* Sending it: no other entry belongs to that waiter, so no channel that an
\* entry counts on is filled.
LEMMA DeliverStep ==
  ASSUME IInv, Deliver
  PROVE  IInv'
<1> USE DEF IInv
<1>1. /\ held.waiter \in Sends /\ held.reply \in Nat /\ held.reply = id[held.waiter]
      /\ held.reply \notin DOMAIN pending /\ pc[held.waiter] # "idle"
  BY DEF Deliver, Handing, TypeOK
<1>2. \A i \in DOMAIN pending : pending[i] # held.waiter
  BY <1>1 DEF Waiting
<1>3. /\ chan' = [chan EXCEPT ![held.waiter] = held.reply]
      /\ reader' = "read" /\ held' = None
      /\ UNCHANGED <<pc, id, result, cancelled, nextID, pending, closed, conn, browser, frames>>
  BY DEF Deliver, wire
<1>4. TypeOK'
  BY <1>1, <1>3 DEF TypeOK
<1>5. Untouched' /\ Answered'
  BY <1>1, <1>3 DEF TypeOK, Untouched, Answered
<1>6. Waiting'
  BY <1>2, <1>3 DEF TypeOK, Waiting
<1>7. Handing' /\ OwnReply' /\ NobodyLeftBehind'
  BY <1>3 DEF Handing, OwnReply, NobodyLeftBehind
<1>8. QED
  BY <1>4, <1>5, <1>6, <1>7

\* failAll answers every entry with ErrClosed and empties the map.
LEMMA FailAllStep ==
  ASSUME IInv, FailAll
  PROVE  IInv'
<1> USE DEF IInv
<1>1. /\ closed' = TRUE /\ reader' = "leaving" /\ reader = "read"
      /\ DOMAIN pending' = {}
      /\ UNCHANGED <<pc, id, result, cancelled, nextID, conn, browser, frames, held>>
  BY DEF FailAll, NoWaiter, wire
<1>2. /\ chan' \in [Sends -> Nat \cup {None}]
      /\ \A s \in Sends : chan'[s] = chan[s] \/ (chan'[s] = Closed /\ pc[s] # "idle")
  BY DEF FailAll, TypeOK, Closed, Waiting
<1>3. TypeOK'
  BY <1>1, <1>2 DEF TypeOK
<1>4. Untouched' /\ Answered'
  BY <1>1, <1>2 DEF Untouched, Answered
<1>5. Waiting' /\ Handing' /\ OwnReply' /\ NobodyLeftBehind'
  BY <1>1 DEF Waiting, Handing, OwnReply, NobodyLeftBehind
<1>6. QED
  BY <1>3, <1>4, <1>5

\* The reader's exit, Close, the end of the connection and the browser's
\* answers change nothing the invariant relates but what they guard.
LEMMA SurroundingStep ==
  ASSUME IInv, CloseDone \/ Close \/ ConnectionEnds \/ Answer
  PROVE  IInv'
<1> USE DEF IInv
<1>1. UNCHANGED <<pc, id, chan, result, cancelled, nextID, pending, held>>
  BY DEF CloseDone, Close, ConnectionEnds, Answer, calls
<1>2. TypeOK'
  BY DEF CloseDone, Close, ConnectionEnds, Answer, calls, wire, TypeOK
<1>3. /\ reader' = reader \/ (reader = "leaving" /\ reader' = "done")
      /\ closed => closed'
  BY DEF CloseDone, Close, ConnectionEnds, Answer
<1>4. Untouched' /\ Waiting' /\ Handing' /\ Answered' /\ OwnReply'
  BY <1>1, <1>3 DEF Untouched, Waiting, Handing, Answered, OwnReply
<1>5. NobodyLeftBehind'
  BY <1>1, <1>3 DEF NobodyLeftBehind
<1>6. QED
  BY <1>2, <1>4, <1>5

\* The invariant reads nothing but the variables.
LEMMA StutterStep == IInv /\ UNCHANGED vars => IInv'
BY DEF IInv, vars, TypeOK, Untouched, Waiting, Handing, Answered, OwnReply, NobodyLeftBehind

\* IInv is inductive.
LEMMA Inductive == IInv /\ [Next]_vars => IInv'
<1> SUFFICES ASSUME IInv, [Next]_vars PROVE IInv'
  OBVIOUS
<1>1. ASSUME NEW s \in Sends, SendStep(s) \/ CancelContext(s) PROVE IInv'
  BY <1>1, RegisterStep, CallStep DEF SendStep
<1>2. ASSUME ReaderStep PROVE IInv'
  BY <1>2, ReadStep, DeliverStep, FailAllStep, SurroundingStep DEF ReaderStep
<1>3. ASSUME Close \/ ConnectionEnds \/ Answer PROVE IInv'
  BY <1>3, SurroundingStep
<1>4. QED
  BY <1>1, <1>2, <1>3, StutterStep DEF Next

\* The inductive invariant holds.
THEOREM Invariance == Spec => []IInv
<1>1. QED
  BY InitIInv, Inductive, PTL DEF Spec

\* What the reader is about to send to is empty (Client.read, Client.failAll).
LEMMA FreeReader == IInv => ReaderNeverBlocks
BY DEF IInv, Waiting, Handing, ReaderNeverBlocks

\* Whoever calls Send and in whatever order Chrome answers: each caller gets
\* the answer to its own request, the reader is never held up by a caller that
\* gave up, and a client that stopped reading has no waiter left (cdp.go).
THEOREM CdpReplySafety == Spec => []ReplySafety
<1>1. IInv => ReplySafety
  BY FreeReader DEF IInv, ReplySafety
<1>2. QED
  BY <1>1, Invariance, PTL
-----------------------------------------------------------------------------
(* The overrides. *)

\* What the commands outside the Page domain override, once all of them went through.
Overridden(o) ==
  {s \in {"timezone", "geolocation", "hardwareConcurrency"} : Pins(o, s)}
    \cup {s \in {"userAgent", "acceptLanguage", "platform"} :
            Pins(o, "userAgent") /\ Pins(o, s)}

\* The commands of the Page domain; the others override settings at once.
PageCommands == {"Page.enable", "Page.addScript", "Page.navigate"}
DirectCommands == {"setUserAgentOverride", "setLocaleOverride", "setTimezoneOverride",
                   "setPermission", "setGeolocationOverride", "setDeviceMetricsOverride",
                   "setHardwareConcurrencyOverride"}
Commands == [method : DirectCommands \cup PageCommands, sets : SUBSET Settings]
Direct(o) == [method : DirectCommands, sets : SUBSET Overridden(o)]

\* A command of q overrides s.
Covers(q, s) == \E i \in 1..Len(q) : s \in q[i].sets /\ q[i].method \notin PageCommands

\* What is left of the overrides of o: the navigation comes last and only then, the
\* domain is enabled and a script registered only for a script that patches something.
Pending(o, q) ==
  /\ q \in Seq(Commands) /\ Len(q) > 0
  /\ q[Len(q)].method = "Page.navigate"
  /\ \A i \in 1..Len(q) :
       /\ q[i].method = "Page.navigate" => i = Len(q) /\ q[i].sets = {}
       /\ q[i].method = "Page.enable" => patchScript(o) # {} /\ q[i].sets = {}
       /\ q[i].method = "Page.addScript" => q[i].sets = patchScript(o)
       /\ q[i].method \notin PageCommands => q[i].sets \subseteq Overridden(o)

Scripted(q) == \E i \in 1..Len(q) : q[i].method = "Page.addScript"

\* A script is registered after the domain was enabled.
EnabledFirst(on, q) ==
  \A i \in 1..Len(q) : q[i].method = "Page.addScript" =>
     on \/ \E j \in 1..(i - 1) : q[j].method = "Page.enable"

\* One sequence of direct commands after another is one, and covers what they cover.
LEMMA DirectConcat ==
  ASSUME NEW o, NEW q \in Seq(Direct(o)), NEW r \in Seq(Direct(o))
  PROVE  /\ q \o r \in Seq(Direct(o))
         /\ \A s : Covers(q, s) \/ Covers(r, s) => Covers(q \o r, s)
<1>1. /\ q \o r \in Seq(Direct(o)) /\ Len(q \o r) = Len(q) + Len(r)
      /\ \A i \in 1..Len(q) : (q \o r)[i] = q[i]
      /\ \A i \in 1..Len(r) : (q \o r)[Len(q) + i] = r[i]
      /\ Len(q) \in Nat /\ Len(r) \in Nat
  <2> HIDE DEF Direct
  <2>1. QED
    BY ConcatProperties, LenProperties
<1>2. ASSUME NEW s, Covers(q, s) PROVE Covers(q \o r, s)
  BY <1>1, <1>2 DEF Covers
<1>3. ASSUME NEW s, Covers(r, s) PROVE Covers(q \o r, s)
  <2>1. PICK i \in 1..Len(r) : s \in r[i].sets /\ r[i].method \notin PageCommands
    BY <1>3 DEF Covers
  <2>2. Len(q) + i \in 1..Len(q \o r) /\ (q \o r)[Len(q) + i] = r[i]
    BY <1>1
  <2>3. QED
    BY <2>1, <2>2 DEF Covers
<1>4. QED
  BY <1>1, <1>2, <1>3

\* A command sent on a condition, alone, covers what it sets.
LEMMA DirectWhen ==
  ASSUME NEW o, NEW c \in Direct(o), NEW b \in BOOLEAN
  PROVE  /\ When(b, <<c>>) \in Seq(Direct(o))
         /\ b => \A s \in c.sets : Covers(When(b, <<c>>), s)
<1>1. CASE b
  BY <1>1 DEF When, Covers, Direct, DirectCommands, PageCommands
<1>2. CASE ~b
  BY <1>2 DEF When
<1>3. QED
  BY <1>1, <1>2

\* Outside the Page domain a command overrides what its options override.
LEMMA CommandDirect ==
  ASSUME NEW o, NEW method \in DirectCommands,
         NEW sets \in SUBSET Overridden(o)
  PROVE  Command(method, sets) \in Direct(o) /\ Command(method, sets).sets = sets
<1>1. QED
  BY DEF Direct, Command

\* The identity overrides cover the user agent and what travels with it.
LEMMA IdentityCovers ==
  ASSUME NEW o
  PROVE  /\ identityOverrides(o) \in Seq(Direct(o))
         /\ \A s \in {"userAgent", "acceptLanguage", "platform"} \cap Overridden(o) :
              Covers(identityOverrides(o), s)
<1> DEFINE A == Command("setUserAgentOverride",
                        {s \in {"userAgent", "acceptLanguage", "platform"} : Pins(o, s)})
           B == Command("setLocaleOverride", {})
           a == When(Pins(o, "userAgent"), <<A>>)
           b == When(Pins(o, "languages"), <<B>>)
<1>1. B \in Direct(o)
  BY CommandDirect DEF DirectCommands
<1>2. Pins(o, "userAgent") \in BOOLEAN /\ Pins(o, "languages") \in BOOLEAN
  BY DEF Pins
<1>3. b \in Seq(Direct(o))
  <2> HIDE DEF B
  <2>1. QED
    BY <1>1, <1>2, DirectWhen
<1>4. CASE Pins(o, "userAgent")
  <2>1. A \in Direct(o) /\ A.sets = {s \in {"userAgent", "acceptLanguage", "platform"} : Pins(o, s)}
    <3>1. {s \in {"userAgent", "acceptLanguage", "platform"} : Pins(o, s)} \subseteq Overridden(o)
      BY <1>4 DEF Overridden
    <3>2. "setUserAgentOverride" \in DirectCommands
      BY DEF DirectCommands
    <3>3. QED
      BY <3>1, <3>2, CommandDirect
  <2>2. a \in Seq(Direct(o)) /\ \A s \in A.sets : Covers(a, s)
    <3> HIDE DEF A
    <3>1. QED
      BY <1>2, <1>4, <2>1, DirectWhen
  <2>3. a \o b \in Seq(Direct(o)) /\ \A s \in A.sets : Covers(a \o b, s)
    <3> HIDE DEF a, b, A
    <3>1. QED
      BY <1>3, <2>2, DirectConcat
  <2>4. \A s \in {"userAgent", "acceptLanguage", "platform"} \cap Overridden(o) : s \in A.sets
    BY <2>1 DEF Overridden
  <2>5. QED
    BY <2>3, <2>4 DEF identityOverrides
<1>5. CASE ~Pins(o, "userAgent")
  <2>1. a = <<>>
    BY <1>5 DEF When
  <2>2. a \in Seq(Direct(o))
    BY <2>1, EmptySeq
  <2>3. a \o b \in Seq(Direct(o))
    <3> HIDE DEF a, b
    <3>1. QED
      BY <1>3, <2>2, DirectConcat
  <2>4. {"userAgent", "acceptLanguage", "platform"} \cap Overridden(o) = {}
    BY <1>5 DEF Overridden
  <2>5. QED
    BY <2>3, <2>4 DEF identityOverrides
<1>6. QED
  BY <1>4, <1>5
\* The environment overrides cover the rest: one command, or two, for each setting.
LEMMA EnvironmentCovers ==
  ASSUME NEW o
  PROVE  /\ environmentOverrides(o) \in Seq(Direct(o))
         /\ \A s \in {"timezone", "geolocation", "hardwareConcurrency"} \cap Overridden(o) :
              Covers(environmentOverrides(o), s)
<1> DEFINE T == Command("setTimezoneOverride", {"timezone"})
           P == Command("setPermission", {})
           G == Command("setGeolocationOverride", {"geolocation"})
           M == Command("setDeviceMetricsOverride", {})
           H == Command("setHardwareConcurrencyOverride", {"hardwareConcurrency"})
           t == When(Pins(o, "timezone"), <<T>>)
           g == When(Pins(o, "geolocation"), <<P, G>>)
           m == When(Pins(o, "screen"), <<M>>)
           h == When(Pins(o, "hardwareConcurrency"), <<H>>)
<1>1. P \in Direct(o) /\ M \in Direct(o)
  BY CommandDirect DEF DirectCommands
<1>2. \A s \in Settings : Pins(o, s) \in BOOLEAN
  BY DEF Pins
<1>3. t \in Seq(Direct(o)) /\ ("timezone" \in Overridden(o) => Covers(t, "timezone"))
  <2>1. CASE Pins(o, "timezone")
    <3>1. T \in Direct(o) /\ T.sets = {"timezone"}
      BY <2>1, CommandDirect DEF DirectCommands, Overridden
    <3> HIDE DEF T
    <3>2. QED
      BY <2>1, <3>1, DirectWhen
  <2>2. CASE ~Pins(o, "timezone")
    BY <2>2, EmptySeq DEF When, Overridden
  <2>3. QED
    BY <2>1, <2>2
<1>4. h \in Seq(Direct(o)) /\ ("hardwareConcurrency" \in Overridden(o) => Covers(h, "hardwareConcurrency"))
  <2>1. CASE Pins(o, "hardwareConcurrency")
    <3>1. H \in Direct(o) /\ H.sets = {"hardwareConcurrency"}
      BY <2>1, CommandDirect DEF DirectCommands, Overridden
    <3> HIDE DEF H
    <3>2. QED
      BY <2>1, <3>1, DirectWhen
  <2>2. CASE ~Pins(o, "hardwareConcurrency")
    BY <2>2, EmptySeq DEF When, Overridden
  <2>3. QED
    BY <2>1, <2>2
<1>5. g \in Seq(Direct(o)) /\ ("geolocation" \in Overridden(o) => Covers(g, "geolocation"))
  <2>1. CASE Pins(o, "geolocation")
    <3>1. /\ G \in Direct(o) /\ G.sets = {"geolocation"}
          /\ G.method \notin PageCommands
      BY <2>1, CommandDirect DEF DirectCommands, Overridden, Direct, PageCommands, Command
    <3> HIDE DEF G, P
    <3>2. g = <<P, G>>
      BY <2>1 DEF When
    <3>3. g \in Seq(Direct(o)) /\ Len(g) = 2 /\ g[2] = G
      <4> HIDE DEF Direct
      <4>1. QED
        BY <1>1, <3>1, <3>2
    <3>4. QED
      BY <3>1, <3>3 DEF Covers
  <2>2. CASE ~Pins(o, "geolocation")
    BY <2>2, EmptySeq DEF When, Overridden
  <2>3. QED
    BY <2>1, <2>2
<1>6. m \in Seq(Direct(o))
  <2> HIDE DEF M
  <2>1. QED
    BY <1>1, <1>2, DirectWhen DEF Settings
<1>7. environmentOverrides(o) = ((t \o g) \o m) \o h
  BY DEF environmentOverrides
<1> HIDE DEF t, g, m, h
<1>8. /\ t \o g \in Seq(Direct(o))
      /\ \A s : Covers(t, s) \/ Covers(g, s) => Covers(t \o g, s)
  BY <1>3, <1>5, DirectConcat
<1>9. /\ (t \o g) \o m \in Seq(Direct(o))
      /\ \A s : Covers(t \o g, s) => Covers((t \o g) \o m, s)
  BY <1>6, <1>8, DirectConcat
<1>10. /\ ((t \o g) \o m) \o h \in Seq(Direct(o))
       /\ \A s : Covers((t \o g) \o m, s) \/ Covers(h, s) => Covers(((t \o g) \o m) \o h, s)
  BY <1>4, <1>9, DirectConcat
<1>11. \A s \in {"timezone", "geolocation", "hardwareConcurrency"} \cap Overridden(o) :
         Covers(((t \o g) \o m) \o h, s)
  BY <1>3, <1>4, <1>5, <1>8, <1>9, <1>10
<1>12. QED
  BY <1>7, <1>10, <1>11

\* Every option that a command carries has its command, the patches have a script that
\* is registered after the domain was enabled, and the navigation ends it all.
LEMMA OverridesPending ==
  ASSUME NEW o
  PROVE  /\ Pending(o, overrides(o))
         /\ EnabledFirst(FALSE, overrides(o))
         /\ \A s \in Overridden(o) : Covers(overrides(o), s)
         /\ patchScript(o) = {} \/ Scripted(overrides(o))
<1> DEFINE D == identityOverrides(o) \o environmentOverrides(o)
           E == Command("Page.enable", {})
           A == Command("Page.addScript", patchScript(o))
           N == Command("Page.navigate", {})
           n == Len(D)
           p == When(patchScript(o) # {}, <<E, A>>)
           q == overrides(o)
<1>1. q = (D \o p) \o <<N>>
  BY DEF overrides
<1>2. D \in Seq(Direct(o)) /\ \A s \in Overridden(o) : Covers(D, s)
  <2>1. \A s \in Overridden(o) :
          \/ s \in {"userAgent", "acceptLanguage", "platform"} \cap Overridden(o)
          \/ s \in {"timezone", "geolocation", "hardwareConcurrency"} \cap Overridden(o)
    BY DEF Overridden
  <2>2. QED
    BY <2>1, IdentityCovers, EnvironmentCovers, DirectConcat
<1>3. /\ E \in Commands /\ A \in Commands /\ N \in Commands
      /\ E.method = "Page.enable" /\ A.method = "Page.addScript" /\ N.method = "Page.navigate"
      /\ E.sets = {} /\ N.sets = {} /\ A.sets = patchScript(o)
  BY DEF Commands, Command, PageCommands, patchScript, Settings
<1>4. Direct(o) \subseteq Commands /\ \A c \in Direct(o) : c.method \notin PageCommands
  BY DEF Direct, Commands, PageCommands, DirectCommands, Overridden, Settings
<1>5. /\ D \in Seq(Commands) /\ n \in Nat
      /\ \A i \in 1..n : D[i] \in Direct(o)
  <2> HIDE DEF D
  <2>1. QED
    BY <1>2, <1>4, SeqMonotonic, LenProperties, ElementOfSeq
<1> HIDE DEF D, E, A, N
<1>6. CASE patchScript(o) # {}
  <2>1. p = <<E, A>>
    BY <1>6 DEF When
  <2>2. /\ p \in Seq(Commands) /\ Len(p) = 2 /\ p[1] = E /\ p[2] = A
        /\ <<N>> \in Seq(Commands) /\ Len(<<N>>) = 1 /\ <<N>>[1] = N
    <3> HIDE DEF p
    <3>1. QED
      BY <1>3, <2>1
  <2> HIDE DEF p
  <2>3. /\ D \o p \in Seq(Commands) /\ Len(D \o p) = n + 2
        /\ \A i \in 1..n : (D \o p)[i] = D[i]
        /\ (D \o p)[n + 1] = E /\ (D \o p)[n + 2] = A
    <3>1. /\ D \o p \in Seq(Commands) /\ Len(D \o p) = Len(D) + Len(p)
          /\ \A i \in 1 .. Len(D) + Len(p) :
               (D \o p)[i] = IF i <= Len(D) THEN D[i] ELSE p[i - Len(D)]
      BY <1>5, <2>2, ConcatProperties
    <3>2. QED
      BY <1>5, <2>2, <3>1
  <2>4. /\ q \in Seq(Commands) /\ Len(q) = n + 3
        /\ \A i \in 1..n : q[i] = D[i]
        /\ q[n + 1] = E /\ q[n + 2] = A /\ q[n + 3] = N
    <3>1. /\ q \in Seq(Commands) /\ Len(q) = Len(D \o p) + Len(<<N>>)
          /\ \A i \in 1 .. Len(D \o p) + Len(<<N>>) :
               q[i] = IF i <= Len(D \o p) THEN (D \o p)[i] ELSE <<N>>[i - Len(D \o p)]
      BY <1>1, <2>2, <2>3, ConcatProperties
    <3>2. QED
      BY <1>5, <2>2, <2>3, <3>1
  <2> HIDE DEF q, n
  <2>5. \A i \in 1..Len(q) : i \in 1..n \/ i = n + 1 \/ i = n + 2 \/ i = n + 3
    BY <1>5, <2>4
  <2>6. Pending(o, q)
    BY <1>3, <1>4, <1>5, <1>6, <2>4, <2>5 DEF Pending, Direct, PageCommands
  <2>7. EnabledFirst(FALSE, q)
    BY <1>3, <1>4, <1>5, <2>4, <2>5 DEF EnabledFirst, PageCommands
  <2>8. Scripted(q)
    BY <1>3, <1>5, <2>4 DEF Scripted
  <2>9. \A s \in Overridden(o) : Covers(q, s)
    BY <1>2, <1>5, <2>4 DEF Covers, n
  <2>10. QED
    BY <2>6, <2>7, <2>8, <2>9 DEF q
<1>7. CASE patchScript(o) = {}
  <2>1. p = <<>>
    BY <1>7 DEF When
  <2>2. D \o p = D
    BY <1>5, <2>1
  <2> HIDE DEF p
  <2>3. <<N>> \in Seq(Commands) /\ Len(<<N>>) = 1 /\ <<N>>[1] = N
    BY <1>3
  <2>4. /\ q \in Seq(Commands) /\ Len(q) = n + 1
        /\ \A i \in 1..n : q[i] = D[i]
        /\ q[n + 1] = N
    <3>1. /\ q \in Seq(Commands) /\ Len(q) = Len(D) + Len(<<N>>)
          /\ \A i \in 1 .. Len(D) + Len(<<N>>) :
               q[i] = IF i <= Len(D) THEN D[i] ELSE <<N>>[i - Len(D)]
      BY <1>1, <1>5, <2>2, <2>3, ConcatProperties
    <3>2. QED
      BY <1>5, <2>3, <3>1
  <2> HIDE DEF q, n
  <2>5. \A i \in 1..Len(q) : i \in 1..n \/ i = n + 1
    BY <1>5, <2>4
  <2>6. Pending(o, q)
    BY <1>3, <1>4, <1>5, <2>4, <2>5 DEF Pending, Direct, PageCommands
  <2>7. EnabledFirst(FALSE, q)
    BY <1>3, <1>4, <1>5, <2>4, <2>5 DEF EnabledFirst, PageCommands
  <2>8. \A s \in Overridden(o) : Covers(q, s)
    BY <1>2, <1>5, <2>4 DEF Covers, n
  <2>9. QED
    BY <1>7, <2>6, <2>7, <2>8 DEF q
<1>8. QED
  BY <1>6, <1>7

\* Once the first command is sent the rest is still what is to be done, and what it
\* did not do itself is still to come.
LEMMA FirstSent ==
  ASSUME NEW o, NEW q, Pending(o, q), NEW on \in BOOLEAN, EnabledFirst(on, q),
         Head(q).method # "Page.navigate"
  PROVE  /\ Pending(o, Tail(q)) /\ Tail(q) # <<>> /\ Head(q) \in Commands
         /\ EnabledFirst(on \/ Head(q).method = "Page.enable", Tail(q))
         /\ \A s : Covers(q, s) => Covers(Tail(q), s) \/ s \in Head(q).sets
         /\ Scripted(q) => Scripted(Tail(q)) \/ Head(q).method = "Page.addScript"
         /\ Head(q).method = "Page.addScript" => on /\ Head(q).sets = patchScript(o)
         /\ Head(q).method = "Page.enable" => patchScript(o) # {}
         /\ Head(q).method # "Page.addScript" => Head(q).sets \subseteq Overridden(o)
<1> DEFINE r == Tail(q)
<1>1. q \in Seq(Commands) /\ q # <<>> /\ Len(q) \in Nat
  <2> HIDE DEF r
  <2>1. q \in Seq(Commands) /\ Len(q) > 0
    BY DEF Pending
  <2>2. QED
    BY <2>1, LenProperties, EmptySeq
<1>2. /\ r \in Seq(Commands) /\ Len(r) = Len(q) - 1 /\ Head(q) \in Commands
      /\ \A i \in 1..Len(r) : r[i] = q[i + 1]
      /\ Head(q) = q[1]
  BY <1>1, HeadTailProperties
<1> HIDE DEF r
<1>3. Len(q) > 1
  BY <1>1, <1>2 DEF Pending
<1>4. Pending(o, r)
  BY <1>1, <1>2, <1>3 DEF Pending
<1>5. r # <<>>
  BY <1>1, <1>2, <1>3
<1>6. EnabledFirst(on \/ Head(q).method = "Page.enable", r)
  <2> SUFFICES ASSUME NEW i \in 1..Len(r), r[i].method = "Page.addScript",
                      ~on, Head(q).method # "Page.enable"
               PROVE  \E j \in 1..(i - 1) : r[j].method = "Page.enable"
    BY DEF EnabledFirst
  <2>1. i + 1 \in 1..Len(q) /\ q[i + 1].method = "Page.addScript"
    BY <1>1, <1>2
  <2>2. PICK j \in 1..i : q[j].method = "Page.enable"
    BY <2>1 DEF EnabledFirst
  <2>3. j # 1
    BY <1>2, <2>2
  <2>4. j - 1 \in 1..(i - 1) /\ r[j - 1] = q[j]
    BY <1>1, <1>2, <2>2, <2>3
  <2>5. QED
    BY <2>2, <2>4
<1>7. ASSUME NEW s, Covers(q, s) PROVE Covers(r, s) \/ s \in Head(q).sets
  <2>1. PICK i \in 1..Len(q) : s \in q[i].sets /\ q[i].method \notin PageCommands
    BY <1>7 DEF Covers
  <2>2. CASE i = 1
    BY <1>2, <2>1, <2>2
  <2>3. CASE i # 1
    <3>1. i - 1 \in 1..Len(r) /\ r[i - 1] = q[i]
      BY <1>1, <1>2, <2>3
    <3>2. QED
      BY <2>1, <3>1 DEF Covers
  <2>4. QED
    BY <2>2, <2>3
<1>8. ASSUME Scripted(q) PROVE Scripted(r) \/ Head(q).method = "Page.addScript"
  <2>1. PICK i \in 1..Len(q) : q[i].method = "Page.addScript"
    BY <1>8 DEF Scripted
  <2>2. CASE i = 1
    BY <1>2, <2>1, <2>2
  <2>3. CASE i # 1
    <3>1. i - 1 \in 1..Len(r) /\ r[i - 1] = q[i]
      BY <1>1, <1>2, <2>3
    <3>2. QED
      BY <2>1, <3>1 DEF Scripted
  <2>4. QED
    BY <2>2, <2>3
<1>9. Head(q).method = "Page.addScript" => on
  <2>1. 1 \in 1..Len(q) /\ 1..(1 - 1) = {}
    BY <1>1, <1>3
  <2>2. QED
    BY <1>2, <2>1 DEF EnabledFirst
<1>10. 1 \in 1..Len(q)
  BY <1>1, <1>3
<1>11. /\ Head(q).method = "Page.addScript" => Head(q).sets = patchScript(o)
       /\ Head(q).method = "Page.enable" => patchScript(o) # {} /\ Head(q).sets = {}
       /\ Head(q).method \notin PageCommands => Head(q).sets \subseteq Overridden(o)
  BY <1>2, <1>10 DEF Pending
<1>12. Head(q).method # "Page.addScript" => Head(q).sets \subseteq Overridden(o)
  BY <1>11 DEF PageCommands
<1>13. QED
  BY <1>2, <1>4, <1>5, <1>6, <1>7, <1>8, <1>9, <1>11, <1>12 DEF r

\* When the navigation is sent nothing else was left to send.
LEMMA LastSent ==
  ASSUME NEW o, NEW q, Pending(o, q), Head(q).method = "Page.navigate"
  PROVE  /\ Tail(q) = <<>> /\ Head(q).sets = {}
         /\ ~Scripted(q)
         /\ \A s : ~Covers(q, s)
<1>1. q \in Seq(Commands) /\ q # <<>> /\ Len(q) \in Nat /\ Len(q) > 0
  <2>1. q \in Seq(Commands) /\ Len(q) > 0
    BY DEF Pending
  <2>2. QED
    BY <2>1, LenProperties, EmptySeq
<1>2. Tail(q) \in Seq(Commands) /\ Len(Tail(q)) = Len(q) - 1 /\ Head(q) = q[1]
  BY <1>1, HeadTailProperties
<1>3. Len(q) = 1 /\ q[1].sets = {}
  <2>1. 1 \in 1..Len(q)
    BY <1>1
  <2>2. QED
    BY <1>2, <2>1 DEF Pending
<1>4. Tail(q) = <<>>
  <2>1. \A r \in Seq(Commands) : Len(r) = 0 => r = <<>>
    BY EmptySeq
  <2>2. Len(Tail(q)) = 0
    BY <1>2, <1>3
  <2>3. QED
    BY <1>2, <2>1, <2>2
<1>5. \A i \in 1..Len(q) : q[i].method = "Page.navigate"
  BY <1>2, <1>3
<1>6. QED
  BY <1>2, <1>3, <1>4, <1>5 DEF Scripted, Covers, PageCommands

\* What a stored profile pins: values of its own, of the languages how many.
Sources ==
  /\ profile \in [Settings -> Values]
  /\ \A s \in Settings \ {"languages"} : profile[s] \in {"", "own"}
  /\ profile["languages"] \in {"", "one", "many"}

\* The options are the profile's, but for a place that was looked up and the user agent
\* that was filled in to carry others.
Chosen ==
  stage \notin {"build", "failed"} =>
    /\ PinnedWins
    /\ opts["startURL"] \in {"", "own"}
    /\ \A s \in Settings \ {"startURL"} : ~Pins(profile, s) /\ Pins(opts, s) =>
         \/ autoGeo /\ s \in {"timezone", "geolocation"} /\ opts[s] = Located
         \/ /\ cdp /\ s = "userAgent" /\ opts[s] = "host"
            /\ stage \in {"dress", "open", "undressed"}

\* What each stage has done and has still to do to the browser.
Staged ==
  /\ stage # "dress" => queue = <<>>
  /\ stage = "geo" => autoGeo
  /\ stage \in {"build", "geo", "announce"} => notice = {}
  /\ stage \in {"launch", "backfill", "dress", "open", "undressed"} =>
       notice = IF cdp THEN {} ELSE CleanModeDropped(opts)
  /\ stage \in {"build", "geo", "announce", "launch", "failed"} =>
       flags = [s \in Settings |-> ""]
  /\ stage \in {"build", "geo", "announce", "launch", "failed", "backfill"} =>
       engine = {} /\ script = {} /\ patched = {} /\ ~pageOn
  /\ stage \in {"backfill", "dress", "undressed"} => cdp
  /\ stage = "undressed" \/ (stage = "open" /\ ~cdp) => engine = {} /\ patched = {}

\* The command line carries the options as they were at the start.
Flagged ==
  stage \in {"backfill", "dress", "open", "undressed"} =>
    /\ policy = webRTCPolicy(mode, proxied)
    /\ \A s \in Settings :
         \/ flags[s] = cleanArgs(opts)[s]
         \/ cdp /\ s = "userAgent" /\ opts[s] = "host" /\ flags[s] = ""

\* What is overridden and patched, and what is still queued, are together what the
\* options ask for: all of it is done when the queue is empty.
Dressing ==
  /\ stage = "dress" =>
       /\ Pending(opts, queue) /\ EnabledFirst(pageOn, queue)
       /\ engine \subseteq Overridden(opts)
       /\ \A s \in Overridden(opts) : s \in engine \/ Covers(queue, s)
       /\ script \subseteq patchScript(opts)
       /\ script = patchScript(opts) \/ Scripted(queue)
       /\ patched = {}
  /\ stage = "open" /\ cdp =>
       engine = Overridden(opts) /\ patched = patchScript(opts)
  /\ stage = "dress" \/ (stage = "open" /\ cdp) => ~needsUserAgentBackfill(opts)
  /\ pageOn => patchScript(opts) # {}

\* The inductive invariant.
DressInv == OptionsTypeOK /\ Sources /\ Chosen /\ Staged /\ Flagged /\ Dressing

-----------------------------------------------------------------------------
\* An empty queue has no positions.
LEMMA EmptyQueue == \A q : q = <<>> => DOMAIN q = {}
OBVIOUS

\* A queue of commands sets settings and nothing else.
LEMMA QueueTyped ==
  ASSUME NEW q \in Seq(Commands)
  PROVE  \A i \in DOMAIN q : q[i].sets \subseteq Settings
<1>1. \A i \in DOMAIN q : q[i] \in Commands
  <2> HIDE DEF Commands
  <2>1. DOMAIN q = 1..Len(q)
    BY LenProperties
  <2>2. QED
    BY <2>1, ElementOfSeq
<1>2. QED
  BY <1>1 DEF Commands

\* Nothing is launched yet.
LEMMA InitDressed == OptionsInit => DressInv
<1> SUFFICES ASSUME OptionsInit PROVE DressInv
  OBVIOUS
<1>1. /\ stage = "build" /\ mode \in Modes
      /\ proxied \in BOOLEAN /\ cdp \in BOOLEAN /\ autoGeo \in BOOLEAN
      /\ opts = [s \in Settings |-> ""] /\ notice = {} /\ queue = <<>>
      /\ flags = [s \in Settings |-> ""] /\ policy = ""
      /\ engine = {} /\ pageOn = FALSE /\ script = {} /\ patched = {}
  BY DEF OptionsInit
<1>2. PICK pinned \in SUBSET Settings, n \in {"one", "many"} :
        profile = [s \in Settings |-> IF s \notin pinned THEN ""
                                      ELSE IF s = "languages" THEN n ELSE "own"]
  BY DEF OptionsInit
<1>3. Sources
  BY <1>2 DEF Sources, Values, Settings
<1>4. OptionsTypeOK
  <2>1. profile \in [Settings -> Values] /\ "" \in Modes /\ "" \in Values
    BY <1>3 DEF Sources, Modes, Values
  <2>2. DOMAIN queue = {}
    BY <1>1, EmptyQueue
  <2>3. opts \in [Settings -> Values] /\ flags \in [Settings -> Values]
    BY <1>1, <2>1
  <2>4. QED
    BY <1>1, <2>1, <2>2, <2>3 DEF OptionsTypeOK
<1>5. Chosen /\ Staged /\ Flagged /\ Dressing
  BY <1>1 DEF Chosen, Staged, Flagged, Dressing
<1>6. QED
  BY <1>3, <1>4, <1>5 DEF DressInv

\* The options start as the profile's.
LEMMA OpenStep ==
  ASSUME DressInv, openOptions
  PROVE  DressInv'
<1> USE DEF DressInv
<1>1. /\ stage = "build" /\ stage' = IF autoGeo THEN "geo" ELSE "announce"
      /\ UNCHANGED <<profile, mode, proxied, cdp, autoGeo, notice, queue, flags, policy,
                     engine, pageOn, script, patched>>
  BY DEF openOptions, given, chrome
<1>2. PICK url \in {"", "own"} :
        opts' = [profile EXCEPT !["startURL"] = IF url # "" THEN url ELSE @]
  BY DEF openOptions
<1>3. /\ opts' \in [Settings -> Values]
      /\ \A s \in Settings \ {"startURL"} : opts'[s] = profile[s]
      /\ opts'["startURL"] \in {"", "own"}
      /\ profile["startURL"] # "" => opts'["startURL"] = profile["startURL"]
  BY <1>2 DEF Sources, Settings, Values
<1>4. OptionsTypeOK'
  BY <1>1, <1>3 DEF OptionsTypeOK
<1>5. Sources'
  BY <1>1 DEF Sources
<1>6. Chosen'
  BY <1>1, <1>3 DEF Chosen, PinnedWins, Pins
<1>7. Staged' /\ Flagged' /\ Dressing'
  BY <1>1 DEF Staged, Flagged, Dressing
<1>8. QED
  BY <1>4, <1>5, <1>6, <1>7

\* A look-up fills in a place the profile leaves open.
LEMMA GeoStep ==
  ASSUME DressInv, applyAutoGeo
  PROVE  DressInv'
<1> USE DEF DressInv
<1>1. /\ stage = "geo" /\ stage' = "announce"
      /\ opts' = [opts EXCEPT !["timezone"] = IF @ = "" THEN Located ELSE @,
                              !["geolocation"] = IF @ = "" THEN Located ELSE @]
      /\ UNCHANGED <<profile, mode, proxied, cdp, autoGeo, notice, queue, flags, policy,
                     engine, pageOn, script, patched>>
  BY DEF applyAutoGeo, given, chrome
<1>2. /\ opts' \in [Settings -> Values]
      /\ \A s \in Settings :
           \/ opts'[s] = opts[s]
           \/ s \in {"timezone", "geolocation"} /\ opts[s] = "" /\ opts'[s] = Located
  <2>1. Located \in Values /\ opts \in [Settings -> Values]
    BY DEF OptionsTypeOK, Values, Located
  <2>2. "timezone" \in Settings /\ "geolocation" \in Settings
    BY DEF Settings
  <2> HIDE DEF DressInv
  <2>3. opts' \in [Settings -> Values]
    BY <1>1, <2>1, <2>2
  <2>4. \A s \in Settings :
          opts'[s] = IF s \in {"timezone", "geolocation"} /\ opts[s] = ""
                     THEN Located ELSE opts[s]
    BY <1>1, <2>1, <2>2
  <2>5. QED
    BY <2>3, <2>4
<1>3. OptionsTypeOK'
  BY <1>1, <1>2 DEF OptionsTypeOK
<1>4. Sources'
  BY <1>1 DEF Sources
<1>5. Chosen'
  <2>1. PinnedWins'
    BY <1>1, <1>2 DEF Chosen, PinnedWins, Pins
  <2>2. opts'["startURL"] = opts["startURL"]
    BY <1>2 DEF Settings
  <2>3. QED
    BY <1>1, <1>2, <2>1, <2>2 DEF Chosen, Pins, Located, Staged
<1>6. Staged' /\ Flagged' /\ Dressing'
  BY <1>1 DEF Staged, Flagged, Dressing
<1>7. QED
  BY <1>3, <1>4, <1>5, <1>6

\* The notice lists what is dropped; a step that fails leaves everything where it was.
LEMMA AnnounceStep ==
  ASSUME DressInv, Announce \/ OptionsFail \/ GeoFails \/ StartFails
  PROVE  DressInv'
<1> USE DEF DressInv
<1>1. /\ \/ /\ stage = "announce" /\ stage' = "launch"
            /\ notice' = IF cdp THEN {} ELSE CleanModeDropped(opts)
         \/ stage \in {"build", "geo", "launch"} /\ stage' = "failed" /\ notice' = notice
      /\ UNCHANGED <<profile, mode, proxied, cdp, autoGeo, opts, queue, flags, policy,
                     engine, pageOn, script, patched>>
  BY DEF Announce, OptionsFail, GeoFails, StartFails, given, chrome
<1>2. OptionsTypeOK'
  BY <1>1 DEF OptionsTypeOK, CleanModeDropped, Settings
<1>3. Sources' /\ Chosen'
  BY <1>1 DEF Sources, Chosen, PinnedWins, Located
<1>4. Staged' /\ Flagged' /\ Dressing'
  BY <1>1 DEF Staged, Flagged, Dressing, CleanModeDropped, Pins
<1>5. QED
  BY <1>2, <1>3, <1>4

\* Chrome starts with what the command line carries.
LEMMA StartStep ==
  ASSUME DressInv, Start
  PROVE  DressInv'
<1> USE DEF DressInv
<1>1. /\ stage = "launch" /\ stage' = IF cdp THEN "backfill" ELSE "open"
      /\ flags' = cleanArgs(opts) /\ policy' = webRTCPolicy(mode, proxied)
      /\ UNCHANGED <<profile, mode, proxied, cdp, autoGeo, opts, notice, queue,
                     engine, pageOn, script, patched>>
  BY DEF Start, given
<1>2. OptionsTypeOK'
  <2>1. policy' \in Modes
    BY <1>1 DEF OptionsTypeOK, webRTCPolicy, Modes
  <2>2. flags' \in [Settings -> Values]
    BY <1>1 DEF OptionsTypeOK, cleanArgs, Primary, Values
  <2>3. QED
    BY <1>1, <2>1, <2>2 DEF OptionsTypeOK
<1>3. Sources' /\ Chosen'
  BY <1>1 DEF Sources, Chosen, PinnedWins, Located
<1>4. Staged' /\ Dressing'
  BY <1>1 DEF OptionsTypeOK, Staged, Dressing
<1>5. Flagged'
  BY <1>1 DEF Flagged
<1>6. QED
  BY <1>2, <1>3, <1>4, <1>5

\* The browser's own user agent is filled in where others need it to travel, and the
\* overrides of the options filled in are queued.
LEMMA BackfillStep ==
  ASSUME DressInv, backfillUserAgent
  PROVE  DressInv'
<1> USE DEF DressInv
<1>1. /\ stage = "backfill" /\ stage' = "dress" /\ cdp
      /\ opts' = IF needsUserAgentBackfill(opts)
                 THEN [opts EXCEPT !["userAgent"] = "host"] ELSE opts
      /\ queue' = overrides(opts')
      /\ UNCHANGED <<profile, mode, proxied, cdp, autoGeo, notice, flags, policy,
                     engine, pageOn, script, patched>>
  BY DEF backfillUserAgent, given, chrome, Staged
<1>2. /\ opts' \in [Settings -> Values]
      /\ \A s \in Settings :
           \/ opts'[s] = opts[s]
           \/ s = "userAgent" /\ opts[s] = "" /\ opts'[s] = "host"
  BY <1>1 DEF OptionsTypeOK, Settings, Values, needsUserAgentBackfill, Pins
<1>3. ~needsUserAgentBackfill(opts')
  BY <1>1 DEF OptionsTypeOK, Settings, needsUserAgentBackfill, Pins
<1>4. /\ Pending(opts', queue') /\ EnabledFirst(FALSE, queue')
      /\ \A s \in Overridden(opts') : Covers(queue', s)
      /\ patchScript(opts') = {} \/ Scripted(queue')
  BY <1>1, OverridesPending
<1>5. OptionsTypeOK'
  <2>1. \A i \in DOMAIN queue' : queue'[i].sets \subseteq Settings
    BY <1>4, QueueTyped DEF Pending
  <2>2. QED
    BY <1>1, <1>2, <2>1 DEF OptionsTypeOK
<1>6. Sources'
  BY <1>1 DEF Sources
<1>7. Chosen'
  <2>1. PinnedWins'
    BY <1>1, <1>2 DEF Chosen, PinnedWins, Pins
  <2>2. opts'["startURL"] = opts["startURL"]
    BY <1>2 DEF Settings
  <2>3. QED
    BY <1>1, <1>2, <2>1, <2>2 DEF Chosen, Pins, Located
<1>8. Staged'
  BY <1>1 DEF Staged
<1>9. Flagged'
  <2>1. \A s \in Settings : flags[s] = cleanArgs(opts)[s]
    BY <1>1, <1>2 DEF Flagged, cleanArgs, CarriedByFlags, Chosen, Settings, Sources, Pins, PinnedWins
  <2>2. \A s \in Settings : opts'[s] = opts[s] => cleanArgs(opts')[s] = cleanArgs(opts)[s]
    BY DEF cleanArgs
  <2>3. \A s \in Settings : s = "userAgent" => cleanArgs(opts)[s] = opts[s]
    BY DEF cleanArgs, CarriedByFlags
  <2>4. QED
    BY <1>1, <1>2, <2>1, <2>2, <2>3 DEF Flagged
<1>10. Dressing'
  <2>1. engine = {} /\ script = {} /\ patched = {} /\ ~pageOn
    BY <1>1 DEF Staged
  <2>2. EnabledFirst(pageOn, queue')
    BY <1>4, <2>1 DEF EnabledFirst
  <2>3. QED
    BY <1>1, <1>3, <1>4, <2>1, <2>2 DEF Dressing
<1>11. QED
  BY <1>5, <1>6, <1>7, <1>8, <1>9, <1>10

\* Each command does its part and leaves the rest to those behind it.
LEMMA CommandStep ==
  ASSUME DressInv, Send
  PROVE  DressInv'
<1> USE DEF DressInv
<1> DEFINE c == Head(queue)
<1>1. /\ stage = "dress" /\ stage' = IF queue' = <<>> THEN "open" ELSE "dress"
      /\ queue' = Tail(queue)
      /\ engine' = IF c.method = "Page.addScript" THEN engine ELSE engine \cup c.sets
      /\ pageOn' = (pageOn \/ c.method = "Page.enable")
      /\ script' = IF c.method = "Page.addScript" /\ pageOn THEN c.sets ELSE script
      /\ patched' = IF c.method = "Page.navigate" THEN script ELSE patched
      /\ UNCHANGED <<profile, mode, proxied, cdp, autoGeo, opts, notice, flags, policy>>
  BY DEF Send, given
<1>2. /\ Pending(opts, queue) /\ EnabledFirst(pageOn, queue)
      /\ engine \subseteq Overridden(opts)
      /\ \A s \in Overridden(opts) : s \in engine \/ Covers(queue, s)
      /\ script \subseteq patchScript(opts)
      /\ script = patchScript(opts) \/ Scripted(queue)
      /\ patched = {} /\ ~needsUserAgentBackfill(opts)
      /\ pageOn => patchScript(opts) # {}
      /\ pageOn \in BOOLEAN /\ cdp
  BY <1>1 DEF Dressing, Staged, OptionsTypeOK
<1> HIDE DEF c
<1>3. Overridden(opts) \subseteq Settings /\ patchScript(opts) \subseteq Settings
  BY DEF Overridden, patchScript, Settings
<1>4. Sources' /\ Chosen' /\ Flagged'
  BY <1>1 DEF Sources, Chosen, PinnedWins, Located, Flagged
<1>5. Staged'
  BY <1>1, <1>2 DEF Staged
<1>6. CASE c.method = "Page.navigate"
  <2>1. /\ queue' = <<>> /\ c.sets = {}
        /\ ~Scripted(queue)
        /\ \A s : ~Covers(queue, s)
    BY <1>1, <1>2, <1>6, LastSent DEF c
  <2>2. /\ stage' = "open" /\ pageOn' = pageOn
        /\ engine' = Overridden(opts) /\ patched' = patchScript(opts) /\ script' = script
    BY <1>1, <1>2, <1>6, <2>1
  <2>3. Dressing'
    BY <1>1, <1>2, <2>1, <2>2 DEF Dressing
  <2>4. OptionsTypeOK'
    <3>1. DOMAIN queue' = {}
      BY <2>1, EmptyQueue
    <3>2. QED
      BY <1>1, <1>2, <1>3, <2>2, <3>1 DEF OptionsTypeOK
  <2>5. QED
    BY <1>4, <1>5, <2>3, <2>4
<1>7. CASE c.method # "Page.navigate"
  <2>1. /\ Pending(opts, queue') /\ queue' # <<>>
        /\ EnabledFirst(pageOn \/ c.method = "Page.enable", queue')
        /\ \A s : Covers(queue, s) => Covers(queue', s) \/ s \in c.sets
        /\ Scripted(queue) => Scripted(queue') \/ c.method = "Page.addScript"
        /\ c.method = "Page.addScript" => pageOn /\ c.sets = patchScript(opts)
        /\ c.method = "Page.enable" => patchScript(opts) # {}
        /\ c.method # "Page.addScript" => c.sets \subseteq Overridden(opts)
    BY <1>1, <1>2, <1>7, FirstSent DEF c
  <2>2. stage' = "dress" /\ patched' = {}
    BY <1>1, <1>2, <1>7, <2>1
  <2>3. engine' \subseteq Overridden(opts) /\ script' \subseteq patchScript(opts)
    BY <1>1, <1>2, <2>1
  <2>4. ASSUME NEW s \in Overridden(opts) PROVE s \in engine' \/ Covers(queue', s)
    <3>1. CASE c.method = "Page.addScript"
      <4>1. s \notin c.sets
        BY <2>1, <3>1 DEF Overridden, patchScript
      <4>2. QED
        BY <1>1, <1>2, <2>1, <3>1, <4>1
    <3>2. CASE c.method # "Page.addScript"
      BY <1>1, <1>2, <2>1, <3>2
    <3>3. QED
      BY <3>1, <3>2
  <2>5. script' = patchScript(opts) \/ Scripted(queue')
    BY <1>1, <1>2, <2>1
  <2>6. EnabledFirst(pageOn', queue')
    BY <1>1, <2>1 DEF EnabledFirst
  <2>7. pageOn' => patchScript(opts) # {}
    BY <1>1, <1>2, <2>1
  <2>8. Dressing'
    BY <1>1, <1>2, <2>1, <2>2, <2>3, <2>4, <2>5, <2>6, <2>7 DEF Dressing
  <2>9. OptionsTypeOK'
    <3>1. \A i \in DOMAIN queue' : queue'[i].sets \subseteq Settings
      BY <2>1, QueueTyped DEF Pending
    <3>2. QED
      BY <1>1, <1>2, <1>3, <2>2, <2>3, <3>1 DEF OptionsTypeOK
  <2>10. QED
    BY <1>4, <1>5, <2>8, <2>9
<1>8. QED
  BY <1>6, <1>7

\* A connection that is lost reverts the overrides; nothing was patched before the end.
LEMMA SendFailsStep ==
  ASSUME DressInv, SendFails
  PROVE  DressInv'
<1> USE DEF DressInv
<1>1. /\ stage \in {"backfill", "dress"} /\ stage' = "undressed"
      /\ engine' = {} /\ script' = {} /\ queue' = <<>>
      /\ UNCHANGED <<profile, mode, proxied, cdp, autoGeo, opts, notice, flags, policy,
                     pageOn, patched>>
  BY DEF SendFails, given
<1>2. patched = {} /\ cdp
  BY <1>1 DEF Staged, Dressing
<1>3. OptionsTypeOK'
  BY <1>1, EmptyQueue DEF OptionsTypeOK
<1>4. Sources' /\ Chosen' /\ Flagged'
  BY <1>1 DEF Sources, Chosen, PinnedWins, Located, Flagged
<1>5. Staged' /\ Dressing'
  BY <1>1, <1>2 DEF Staged, Dressing
<1>6. QED
  BY <1>3, <1>4, <1>5

\* DressInv is inductive.
LEMMA DressInductive == DressInv /\ [OptionsNext]_optionsVars => DressInv'
<1> SUFFICES ASSUME DressInv, [OptionsNext]_optionsVars PROVE DressInv'
  OBVIOUS
<1>1. CASE UNCHANGED optionsVars
  BY <1>1 DEF optionsVars, DressInv, OptionsTypeOK, Sources, Chosen, PinnedWins, Located,
              Staged, Flagged, Dressing
<1>2. CASE OptionsNext
  BY <1>2, OpenStep, GeoStep, AnnounceStep, StartStep, BackfillStep, CommandStep, SendFailsStep
  DEF OptionsNext
<1>3. QED
  BY <1>1, <1>2

\* What a page reads of a setting nobody pinned.
LEMMA UnpinnedUntouched == DressInv => OnlyPinnedChanges
<1> SUFFICES ASSUME DressInv, NEW s \in Settings \ {"startURL"},
                    stage \in {"open", "dress", "undressed"}, ~Pins(profile, s)
             PROVE  Reads(s) \in (IF autoGeo /\ s \in {"timezone", "geolocation"}
                                  THEN {"host", "exit"} ELSE {"host"})
  BY DEF OnlyPinnedChanges
<1> USE DEF DressInv
<1>1. \/ opts[s] = ""
      \/ opts[s] = "host"
      \/ autoGeo /\ s \in {"timezone", "geolocation"} /\ opts[s] \in {"host", "exit"}
  BY DEF Chosen, Pins, Located
<1>2. flags[s] = "" \/ flags[s] = opts[s]
  <2>1. s \in CarriedByFlags => cleanArgs(opts)[s] = opts[s]
    BY DEF cleanArgs
  <2>2. s = "languages" => opts[s] = ""
    BY DEF Chosen, Pins
  <2>3. s \notin CarriedByFlags => cleanArgs(opts)[s] = ""
    BY <2>2 DEF cleanArgs, Primary
  <2>4. QED
    BY <2>1, <2>3 DEF Flagged
<1>3. s \in patched \cup engine => opts[s] # ""
  BY DEF Staged, Dressing, Overridden, patchScript, Pins
<1>4. QED
  BY <1>1, <1>2, <1>3 DEF Reads

\* The policy the program chooses confines WebRTC to the proxy.
LEMMA PolicyHides == DressInv => AddressHidden
BY DEF DressInv, Flagged, AddressHidden, Address, webRTCPolicy, OptionsTypeOK, Modes

\* The domain is on only for a script, whose settings are all the profile's.
LEMMA PageDomainOff == DressInv => NothingToFind
<1> SUFFICES ASSUME DressInv, pageOn
             PROVE  \E s \in Settings : Pins(profile, s) /\ s \in patchScript(profile)
  BY DEF NothingToFind
<1> USE DEF DressInv
<1>1. PICK s \in patchScript(opts) : TRUE
  BY DEF Dressing
<1>2. stage \notin {"build", "failed"}
  BY DEF Staged
<1>3. s \in {"deviceMemory", "languages", "webgl", "screen", "canvasNoise"} /\ Pins(opts, s)
  BY <1>1 DEF patchScript
<1>4. Pins(profile, s)
  BY <1>2, <1>3 DEF Chosen, Settings
<1>5. QED
  BY <1>3, <1>4 DEF patchScript, Settings

\* Values the options ask for: those a profile or a look-up can give each setting.
LEMMA OpenValues ==
  ASSUME DressInv, stage = "open", NEW s \in Settings
  PROVE  /\ opts[s] = "many" => s = "languages"
         /\ s = "languages" => opts[s] \in {"", "one", "many"}
         /\ opts[s] = "host" => s \in {"timezone", "geolocation"} \/ (cdp /\ s = "userAgent")
<1> USE DEF DressInv
<1>1. profile[s] = "" \/ opts[s] = profile[s]
  BY DEF Chosen, PinnedWins, Pins
<1>2. s # "languages" => profile[s] \in {"", "own"}
  BY DEF Sources
<1>3. s = "startURL" => opts[s] \in {"", "own"}
  BY DEF Chosen
<1>4. QED
  BY <1>1, <1>2, <1>3 DEF Chosen, Sources, Located, Pins

\* Under DevTools a page reads every option.
LEMMA DressedReads ==
  ASSUME DressInv, stage = "open", cdp, NEW s \in Settings \ {"startURL"}, Pins(opts, s)
  PROVE  Reads(s) = opts[s]
<1> USE DEF DressInv
<1>1. engine = Overridden(opts) /\ patched = patchScript(opts) /\ ~needsUserAgentBackfill(opts)
  BY DEF Dressing
<1>2. s \in patched \cup engine
  BY <1>1 DEF Overridden, patchScript, needsUserAgentBackfill, Pins, Settings
<1>3. QED
  BY <1>2 DEF Reads

\* Without it a page reads what the command line carries.
LEMMA CleanReads ==
  ASSUME DressInv, stage = "open", ~cdp, NEW s \in Settings
  PROVE  Reads(s) = IF cleanArgs(opts)[s] # "" THEN cleanArgs(opts)[s] ELSE "host"
BY DEF DressInv, Staged, Flagged, Reads

\* What is announced is what the command line does not carry.
LEMMA AnnouncedIsLeftOut ==
  ASSUME NEW s \in CleanModeDropped(opts)
  PROVE  /\ cleanArgs(opts)[s] = "" /\ s \in Settings
         /\ s \notin {"languages", "timezone", "userAgent", "startURL"} /\ Pins(opts, s)
BY DEF CleanModeDropped, cleanArgs, CarriedByFlags, Settings

\* A page reads every option, or the user knows that it does not.
LEMMA OpenDressed == DressInv => OpenIsDressed
<1> SUFFICES ASSUME DressInv, stage = "open",
                    NEW s \in Settings \ {"startURL"}, Pins(opts, s)
             PROVE  Reads(s) = opts[s] \/ (~cdp /\ (s \in notice \/ opts[s] = "many"))
  BY DEF OpenIsDressed
<1>1. CASE cdp
  BY <1>1, DressedReads
<1>2. CASE ~cdp
  <2>1. notice = CleanModeDropped(opts)
    BY <1>2 DEF DressInv, Staged
  <2>2. CASE s \in CarriedByFlags \cup {"languages"}
    <3>1. cleanArgs(opts)[s] = opts[s] \/ opts[s] = "many"
      BY <2>2, OpenValues DEF cleanArgs, CarriedByFlags, Primary, Pins
    <3>2. QED
      BY <1>2, <3>1, CleanReads DEF Pins
  <2>3. CASE s \notin CarriedByFlags \cup {"languages"}
    BY <1>2, <2>1, <2>3 DEF CleanModeDropped, CarriedByFlags, Settings
  <2>4. QED
    BY <2>2, <2>3
<1>3. QED
  BY <1>1, <1>2 DEF DressInv, OptionsTypeOK

\* Nothing sets what is announced.
LEMMA NoticeHolds == DressInv => NoticeIsTrue
<1> SUFFICES ASSUME DressInv, NEW s \in notice PROVE Reads(s) = "host"
  BY DEF NoticeIsTrue
<1> USE DEF DressInv
<1>1. stage \in {"launch", "open", "failed"} /\ s \in Settings
  BY DEF Staged, OptionsTypeOK
<1>2. engine = {} /\ patched = {}
  BY <1>1 DEF Staged
<1>3. CASE stage \in {"launch", "failed"}
  BY <1>1, <1>2, <1>3 DEF Staged, Reads
<1>4. CASE stage = "open"
  <2>1. ~cdp /\ s \in CleanModeDropped(opts)
    BY <1>4 DEF Staged
  <2>2. QED
    BY <1>4, <2>1, CleanReads, AnnouncedIsLeftOut
<1>5. QED
  BY <1>1, <1>3, <1>4

\* The page fails a row just when it is announced, or the languages are several.
LEMMA PageMarks == DressInv => PageAgrees
<1> SUFFICES ASSUME DressInv, stage = "open", NEW s \in Rows
             PROVE  Mark(s) = "bad" <=> s \in notice \/ (~cdp /\ opts[s] = "many")
  BY DEF PageAgrees
<1>1. s \in Settings \ {"startURL"}
  BY DEF Rows, Settings
<1>2. Mark(s) = "bad" <=> Pins(opts, s) /\ Reads(s) # opts[s]
  BY DEF Mark, classify, Pins
<1>3. CASE cdp
  <2>1. notice = {}
    BY <1>3 DEF DressInv, Staged
  <2>2. QED
    BY <1>1, <1>2, <1>3, <2>1, DressedReads
<1>4. CASE ~cdp
  <2>1. notice = CleanModeDropped(opts)
    BY <1>4 DEF DressInv, Staged
  <2>2. CASE s \in notice
    <3>1. Reads(s) = "host" /\ Pins(opts, s) /\ s \notin {"timezone", "geolocation"}
      <4>1. Reads(s) = "host"
        BY <2>2, NoticeHolds DEF NoticeIsTrue
      <4>2. QED
        BY <2>1, <2>2, <4>1, AnnouncedIsLeftOut DEF Rows
    <3>2. opts[s] # "host"
      BY <1>1, <1>4, <3>1, OpenValues
    <3>3. QED
      BY <1>2, <2>2, <3>1, <3>2
  <2>3. CASE s \notin notice
    <3>1. Pins(opts, s) => Reads(s) = opts[s] \/ opts[s] = "many"
      BY <1>1, <2>3, OpenDressed DEF OpenIsDressed
    <3>2. opts[s] = "many" => Pins(opts, s) /\ Reads(s) # opts[s]
      <4>1. opts[s] = "many" => s = "languages"
        BY <1>1, OpenValues
      <4>2. "languages" \in Settings /\ "languages" \notin CarriedByFlags
        BY DEF Settings, CarriedByFlags
      <4>3. opts[s] = "many" => cleanArgs(opts)[s] = "one"
        BY <4>1, <4>2 DEF cleanArgs, Primary
      <4>4. QED
        BY <1>1, <1>4, <4>3, CleanReads DEF Pins
    <3>3. QED
      BY <1>2, <1>4, <2>3, <3>1, <3>2
  <2>4. QED
    BY <2>2, <2>3
<1>5. QED
  BY <1>3, <1>4 DEF DressInv, OptionsTypeOK

\* The inductive invariant holds.
THEOREM DressInvariance == OptionsSpec => []DressInv
<1>1. QED
  BY InitDressed, DressInductive, PTL DEF OptionsSpec

\* Whatever a profile pins, and whoever fails on the way: a page sees nothing changed
\* that the profile did not pin, a look-up never replaces what it did, the policy hides
\* the host's address, and no script is patched in where none is asked for
\* (fingerprint.go, webrtc.go, manager.go applyAutoGeo).
THEOREM OptionsProfileDecides == OptionsSpec => []ProfileDecides
<1>1. DressInv => PinnedWins
  BY DEF DressInv, Chosen, PinnedWins
<1>2. DressInv => ProfileDecides
  BY <1>1, UnpinnedUntouched, PolicyHides, PageDomainOff DEF ProfileDecides, DressInv
<1>3. QED
  BY <1>2, DressInvariance, PTL

\* Whatever a profile pins: an opened page reads all of it, or the notice says what it
\* does not; the notice is true and the confirmation page agrees with it
\* (launch_cdp.go overrides, chrome.go cleanArgs, confirm.go CleanModeDropped).
THEOREM OptionsDressedOrTold == OptionsSpec => []DressedOrTold
<1>1. DressInv => DressedOrTold
  BY OpenDressed, NoticeHolds, PageMarks DEF DressedOrTold
<1>2. QED
  BY <1>1, DressInvariance, PTL
=============================================================================
