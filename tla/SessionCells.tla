---------------------------- MODULE SessionCells ----------------------------
(***************************************************************************)
(* What the session commands promise about one profile: two cells, the     *)
(* local working copy and the shared bundle, each empty or holding one     *)
(* whole session, and a hand that carries a session from one to the other. *)
(* A session is the set of browsing it contains.  The local cell is wiped, *)
(* file by file, to be filled from the hand or for good.  A wipe that is   *)
(* stopped before the cell is filled or clean tears the session, and       *)
(* nothing else does; nothing is promised while it is torn.                *)
(***************************************************************************)
CONSTANT Tokens

VARIABLES
  local,  \* {s} while the cell holds the session s, {} while it is empty
  shared, \* the same
  hand,   \* the same
  wiping, \* of the local session some files are gone, and somebody is at it
  torn

cells == <<local, shared, hand, wiping, torn>>

Session == SUBSET Tokens
Empty == {}

Init ==
  /\ local = Empty /\ hand = Empty /\ ~wiping /\ ~torn
  /\ shared = Empty \/ \E s \in Session : shared = {s}

Fetch == shared # Empty /\ hand' = shared /\ UNCHANGED <<local, shared, wiping, torn>>
Take == local # Empty /\ hand' = local /\ UNCHANGED <<local, shared, wiping, torn>>
Share == hand # Empty /\ shared' = hand /\ hand' = Empty /\ UNCHANGED <<local, wiping, torn>>
Drop == hand' = Empty /\ UNCHANGED <<local, shared, wiping, torn>>

Wipe == local' = Empty /\ wiping' /\ UNCHANGED <<shared, hand, torn>>
Purge == local' = Empty /\ ~wiping' /\ UNCHANGED <<shared, hand, torn>>
Place ==
  /\ wiping /\ ~wiping' /\ local' = hand /\ hand' = Empty
  /\ UNCHANGED <<shared, torn>>
Tear ==
  /\ wiping /\ ~wiping' /\ torn' /\ hand' = Empty
  /\ UNCHANGED <<local, shared>>

Fresh == local = Empty /\ ~wiping /\ local' = {{}} /\ UNCHANGED <<shared, hand, wiping, torn>>
Browse ==
  /\ \E s \in local, t \in Session : s \subseteq t /\ local' = {t}
  /\ UNCHANGED <<shared, hand, wiping, torn>>
Receive == (\E s \in Session : shared' = {s}) /\ UNCHANGED <<local, hand, wiping, torn>>
Discard == shared' = Empty /\ UNCHANGED <<local, hand, wiping, torn>>

Next ==
  \/ torn
  \/ Fetch \/ Take \/ Share \/ Drop
  \/ Wipe \/ Purge \/ Place \/ Tear
  \/ Fresh \/ Browse \/ Receive \/ Discard

Spec == Init /\ [][Next]_cells
=============================================================================
