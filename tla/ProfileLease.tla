---------------------------- MODULE ProfileLease ----------------------------
(***************************************************************************)
(* What the session manager promises about a profile, whatever goroutines  *)
(* do: a lease on the profile's data directory.  One session holds it at a *)
(* time; restoring, browsing and packing happen one after the other and    *)
(* only under the lease; and it is given back only when the data browsed   *)
(* under it was packed, or packing it was given up.  This is what          *)
(* ErrAlreadyRunning and Status.Active (manager.go) stand for.             *)
(***************************************************************************)
CONSTANTS Profiles, Sessions, None

VARIABLES
  holder, \* holder[p]: the session that may use data/<p>/, or None
  work,   \* work[p]: the activities in progress in that directory
  debt    \* debt[p]: browsing data not yet offered to the bundle

leaseVars == <<holder, work, debt>>

Activities == {"restoring", "browsing", "saving"}

Init ==
  /\ holder = [p \in Profiles |-> None]
  /\ work = [p \in Profiles |-> {}]
  /\ debt = [p \in Profiles |-> FALSE]

Acquire(p, s) ==
  /\ holder[p] = None
  /\ holder' = [holder EXCEPT ![p] = s]
  /\ UNCHANGED <<work, debt>>

\* Browsing creates data that has to be saved; nothing else does.
Begin(p, a) ==
  /\ holder[p] # None /\ work[p] = {}
  /\ a = "restoring" => ~debt[p]
  /\ work' = [work EXCEPT ![p] = {a}]
  /\ debt' = [debt EXCEPT ![p] = @ \/ a = "browsing"]
  /\ UNCHANGED holder

End(p, a) ==
  /\ holder[p] # None /\ work[p] = {a}
  /\ work' = [work EXCEPT ![p] = {}]
  /\ debt' = [debt EXCEPT ![p] = @ /\ a # "saving"]
  /\ UNCHANGED holder

\* Encryption is not configured: the data stays in the directory.
GiveUpSave(p) ==
  /\ holder[p] # None /\ work[p] = {}
  /\ debt' = [debt EXCEPT ![p] = FALSE]
  /\ UNCHANGED <<holder, work>>

Release(p) ==
  /\ work[p] = {} /\ ~debt[p]
  /\ holder' = [holder EXCEPT ![p] = None]
  /\ UNCHANGED <<work, debt>>

Next ==
  \E p \in Profiles :
    \/ \E s \in Sessions : Acquire(p, s)
    \/ \E a \in Activities : Begin(p, a) \/ End(p, a)
    \/ GiveUpSave(p)
    \/ Release(p)

Spec == Init /\ [][Next]_leaseVars
=============================================================================
