----------------------------- MODULE ProfileMap -----------------------------
(***************************************************************************)
(* What profiles.toml is to its users: a map from names to profiles that   *)
(* changes one profile at a time.  Store's Add, Put and Remove (store.go)  *)
(* promise each of these changes in one piece.                             *)
(***************************************************************************)
CONSTANTS Names, Profile, Absent

VARIABLE profiles

Init == profiles \in [Names -> {Absent} \cup Profile]

Add(n, p) == profiles[n] = Absent /\ profiles' = [profiles EXCEPT ![n] = p]

Put(n, p) == profiles' = [profiles EXCEPT ![n] = p]

Remove(n) == profiles[n] # Absent /\ profiles' = [profiles EXCEPT ![n] = Absent]

Next == \E n \in Names : Remove(n) \/ \E p \in Profile : Add(n, p) \/ Put(n, p)

Spec == Init /\ [][Next]_profiles
=============================================================================
