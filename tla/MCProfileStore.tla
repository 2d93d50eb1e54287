--------------------------- MODULE MCProfileStore ---------------------------
(* Operations of one process, as in the dashboard, or each of its own process. *)
EXTENDS ProfileStore, TLC

CONSTANTS p1, p2, c1, c2

OneProcess == [c \in Clients |-> p1]
TwoProcesses == [c \in Clients |-> IF c = c1 THEN p1 ELSE p2]

\* Only for OneProcess.
StoreSymmetry == Permutations(Clients) \cup Permutations(Names)

-----------------------------------------------------------------------------
(* Sentences of the repository that the code does not keep.  No run checks them: *)
(* put into the configuration (the first with TwoProcesses), each leads TLC to   *)
(* what the README describes.                                                    *)

\* profile.go:236 "change a profile's settings; only the flags given are touched":
\* an edit does not undo settings another command saved meanwhile.
EditKeepsOtherFields ==
  [][\A c \in Clients, n \in Names :
       Rename(c) /\ task[c].kind = "edit" /\ task[c].name = n /\ doc[n] # Absent =>
         \E f \in Fields : \A g \in Fields \ {f} : g \in doc'[n] <=> g \in doc[n]]_vars

\* store.go:179 "The encrypted secret and session bundle are shared artifacts of
\* the profile, so they go with it": with no operation in progress, a name
\* without a profile has neither.
RemovedMeansBare ==
  (\A c \in Clients : task[c] = NoTask) =>
    \A n \in Names : doc[n] = Absent => secret[n] = "none" /\ ~bundle[n]

\* reencrypt.go:176 "A secret that is truncated mid-write is gone for good ... so
\* the rename is worth the extra file": a truncated secret exists at most while
\* an operation is still writing it.
NoTornSecretAtRest ==
  \A n \in Names :
    secret[n] = "torn" => \E c \in Clients : task[c].pc = "write" /\ task[c].name = n
=============================================================================
