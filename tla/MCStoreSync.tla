---------------------------- MODULE MCStoreSync -----------------------------
(* Two machines editing the same files. *)
EXTENDS StoreSync, TLC

MCShared == [m \in Machines |-> Files]

-----------------------------------------------------------------------------
(* A sentence of the repository that the code does not keep.  No run checks   *)
(* it: put into the configuration, it leads TLC to what the README describes. *)

\* git.go:115 "Sync commits any local store changes, pulls with rebase, and pushes
\* to origin": what a machine has changed reaches the remote if it keeps syncing.
EveryEditReachesRemote ==
  \A m \in Machines : \A n \in 1..MaxEdits :
    count[m] >= n ~> \E e \in remote : e.by = m /\ e.n = n
=============================================================================
