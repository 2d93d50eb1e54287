------------------------------ MODULE CdpClient ------------------------------
(***************************************************************************)
(* The DevTools client (internal/infra/cdp): calls of Client.Send, by one  *)
(* goroutine or several, the reader goroutine that hands each reply to its *)
(* waiter, failAll, Close, and the browser at the other end.  Every call   *)
(* of Send is a member of Sends; its channel is chan[s], of capacity one.  *)
(***************************************************************************)
EXTENDS Naturals, Functions

CONSTANTS Sends, None

ASSUME SendsAssumption == None \notin Sends

VARIABLES
  pc,        \* pc[s]: where the call is
  id,        \* id[s]: the id of its request, 0 before it has one
  chan,      \* chan[s]: the reply in its channel, or None
  result,    \* result[s]: what it returned, or None
  cancelled, \* the calls whose context is done
  nextID,
  pending,   \* the waiter of each request id
  closed,
  conn,      \* the websocket is up
  browser,   \* ids of the requests the browser has not answered
  frames,    \* replies on the wire
  reader,    \* "read", "deliver", "leaving" or "done" (the channel done is closed)
  held       \* the reply being delivered and its waiter

vars == <<pc, id, chan, result, cancelled, nextID, pending, closed, conn, browser,
          frames, reader, held>>
wire == <<browser, frames>>
calls == <<pc, id, chan, result, cancelled>>

\* A reply is the id of its frame; 0 stands for an error wrapping ErrClosed.
Closed == 0
NoWaiter == [i \in {} |-> None]

Init ==
  /\ pc = [s \in Sends |-> "idle"]
  /\ id = [s \in Sends |-> 0]
  /\ chan = [s \in Sends |-> None]
  /\ result = [s \in Sends |-> None]
  /\ cancelled = {}
  /\ nextID = 0
  /\ pending = NoWaiter
  /\ closed = FALSE
  /\ conn = TRUE
  /\ browser = {} /\ frames = {}
  /\ reader = "read" /\ held = None

Return(s, r) ==
  /\ pc' = [pc EXCEPT ![s] = "returned"]
  /\ result' = [result EXCEPT ![s] = r]

-----------------------------------------------------------------------------
(* Send *)

\* Under the mutex: a fresh id, a channel, an entry in pending.
Register(s) ==
  /\ pc[s] = "idle" /\ ~closed
  /\ nextID' = nextID + 1
  /\ id' = [id EXCEPT ![s] = nextID']
  /\ pending' = [i \in DOMAIN pending \cup {nextID'} |-> IF i = nextID' THEN s ELSE pending[i]]
  /\ pc' = [pc EXCEPT ![s] = "write"]
  /\ UNCHANGED <<chan, result, cancelled, closed, conn, wire, reader, held>>

RefuseClosed(s) ==
  /\ pc[s] = "idle" /\ closed
  /\ Return(s, Closed)
  /\ UNCHANGED <<id, chan, cancelled, nextID, pending, closed, conn, wire, reader, held>>

Write(s) ==
  /\ pc[s] = "write" /\ conn
  /\ pc' = [pc EXCEPT ![s] = "wait"]
  /\ browser' = browser \cup {id[s]}
  /\ UNCHANGED <<id, chan, result, cancelled, nextID, pending, closed, conn, frames, reader, held>>

\* The entry stays in pending.
WriteFails(s) ==
  /\ pc[s] = "write" /\ (~conn \/ s \in cancelled)
  /\ Return(s, Closed)
  /\ UNCHANGED <<id, chan, cancelled, nextID, pending, closed, conn, wire, reader, held>>

\* The three cases of the select; Go picks any that is ready.
Receive(s) ==
  /\ pc[s] = "wait" /\ chan[s] # None
  /\ Return(s, chan[s])
  /\ UNCHANGED <<id, chan, cancelled, nextID, pending, closed, conn, wire, reader, held>>

GiveUp(s) ==
  /\ pc[s] = "wait" /\ (s \in cancelled \/ reader = "done")
  /\ Return(s, Closed)
  /\ UNCHANGED <<id, chan, cancelled, nextID, pending, closed, conn, wire, reader, held>>

CancelContext(s) ==
  /\ pc[s] \in {"write", "wait"} /\ s \notin cancelled
  /\ cancelled' = cancelled \cup {s}
  /\ UNCHANGED <<pc, id, chan, result, nextID, pending, closed, conn, wire, reader, held>>

-----------------------------------------------------------------------------
(* read *)

\* Wrong on purpose, as every ...Mutant below: takes replies for answers to the oldest request.
ReadInOrderMutant ==
  /\ reader = "read"
  /\ \E i \in frames :
       /\ frames' = frames \ {i}
       /\ IF i \in DOMAIN pending
          THEN \E oldest \in DOMAIN pending :
                 /\ \A j \in DOMAIN pending : oldest <= j
                 /\ reader' = "deliver"
                 /\ held' = [waiter |-> pending[oldest], reply |-> i]
                 /\ pending' = Restrict(pending, DOMAIN pending \ {oldest})
          ELSE UNCHANGED <<reader, held, pending>>
  /\ UNCHANGED <<calls, nextID, closed, conn, browser>>

\* A frame is decoded and its waiter taken out of pending, under the mutex; a
\* reply nobody waits for is dropped.
Read ==
  /\ reader = "read"
  /\ \E i \in frames :
       /\ frames' = frames \ {i}
       /\ IF i \in DOMAIN pending
          THEN /\ reader' = "deliver"
               /\ held' = [waiter |-> pending[i], reply |-> i]
               /\ pending' = Restrict(pending, DOMAIN pending \ {i})
          ELSE UNCHANGED <<reader, held, pending>>
  /\ UNCHANGED <<calls, nextID, closed, conn, browser>>

\* ch <- reply, after the mutex was released.
Deliver ==
  /\ reader = "deliver" /\ chan[held.waiter] = None
  /\ chan' = [chan EXCEPT ![held.waiter] = held.reply]
  /\ reader' = "read" /\ held' = None
  /\ UNCHANGED <<pc, id, result, cancelled, nextID, pending, closed, conn, wire>>

\* A failed read is ignored.
FailAllMutant == reader = "read" /\ ~conn /\ UNCHANGED vars

\* conn.Read failed: failAll sends to every waiter without leaving the mutex.
FailAll ==
  /\ reader = "read" /\ ~conn
  /\ \A i \in DOMAIN pending : chan[pending[i]] = None
  /\ closed' = TRUE
  /\ chan' = [s \in Sends |-> IF \E i \in DOMAIN pending : pending[i] = s THEN Closed ELSE chan[s]]
  /\ pending' = NoWaiter
  /\ reader' = "leaving"
  /\ UNCHANGED <<pc, id, result, cancelled, nextID, conn, wire, held>>

\* The deferred close(c.done).
CloseDone ==
  /\ reader = "leaving" /\ reader' = "done"
  /\ UNCHANGED <<calls, nextID, pending, closed, conn, wire, held>>

-----------------------------------------------------------------------------
(* Close, and the other end *)

\* The flag is set under the mutex, conn.Close runs after it.
Close ==
  /\ ~closed /\ closed' = TRUE
  /\ UNCHANGED <<calls, nextID, pending, conn, wire, reader, held>>

\* conn.Close of a caller that set the flag, or Chrome is gone.
ConnectionEnds ==
  /\ conn /\ conn' = FALSE
  /\ UNCHANGED <<calls, nextID, pending, closed, wire, reader, held>>

\* The browser answers, in any order; what it sent can be read after it is gone.
Answer ==
  /\ conn
  /\ \E i \in browser : browser' = browser \ {i} /\ frames' = frames \cup {i}
  /\ UNCHANGED <<calls, nextID, pending, closed, conn, reader, held>>

-----------------------------------------------------------------------------
SendStep(s) ==
  \/ Register(s) \/ RefuseClosed(s) \/ Write(s) \/ WriteFails(s) \/ Receive(s) \/ GiveUp(s)

ReaderStep == Read \/ Deliver \/ FailAll \/ CloseDone

Next ==
  \/ \E s \in Sends : SendStep(s) \/ CancelContext(s)
  \/ ReaderStep \/ Close \/ ConnectionEnds \/ Answer

Spec == Init /\ [][Next]_vars

\* The reader goroutine runs, a call in progress runs on when it can, and Close
\* goes on to conn.Close.  No browser need answer and nobody need call Send.
FairSpec ==
  /\ Spec
  /\ WF_vars(ReaderStep)
  /\ WF_vars(closed /\ ConnectionEnds)
  /\ \A s \in Sends : WF_vars(Write(s) \/ WriteFails(s)) /\ WF_vars(Receive(s) \/ GiveUp(s))

-----------------------------------------------------------------------------
\* Types of the variables.
TypeOK ==
  /\ pc \in [Sends -> {"idle", "write", "wait", "returned"}]
  /\ id \in [Sends -> Nat]
  /\ chan \in [Sends -> Nat \cup {None}]
  /\ result \in [Sends -> Nat \cup {None}]
  /\ cancelled \subseteq Sends
  /\ nextID \in Nat
  /\ DOMAIN pending \subseteq 1..nextID
  /\ \A i \in DOMAIN pending : pending[i] \in Sends
  /\ closed \in BOOLEAN /\ conn \in BOOLEAN
  /\ browser \subseteq 1..nextID /\ frames \subseteq 1..nextID
  /\ reader \in {"read", "deliver", "leaving", "done"}
  /\ held = None \/ held \in [waiter : Sends, reply : 1..nextID]

\* A call that returns a reply returns the browser's answer to its own request,
\* whatever order the answers come in and whoever else is calling.
OwnReply == \A s \in Sends : result[s] \notin {None, Closed} => result[s] = id[s]

\* The reader never waits for a caller: a channel it is about to send to, on its
\* own or holding the mutex in failAll, is empty, although its caller may be gone.
ReaderNeverBlocks ==
  /\ reader = "deliver" => chan[held.waiter] = None
  /\ \A i \in DOMAIN pending : chan[pending[i]] = None

\* Once the reader has left, no call is left registered and none can register.
NobodyLeftBehind ==
  reader \in {"leaving", "done"} => closed /\ DOMAIN pending = {}

\* The invariants of the run in one: types, replies, a free reader, a clean end.
ReplySafety == TypeOK /\ OwnReply /\ ReaderNeverBlocks /\ NobodyLeftBehind

\* Every call in progress when the connection ends, or started later, returns.
SendReturns ==
  \A s \in Sends : (~conn \/ closed) /\ pc[s] \in {"write", "wait"} ~> pc[s] = "returned"
=============================================================================
