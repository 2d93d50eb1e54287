---------------------------- MODULE MCRecipients ----------------------------
(* Two people with a key each, and a secret and a bundle. *)
EXTENDS Recipients

CONSTANTS a1, a2, k1, k2

MCIdentity == [a \in Actors |-> IF a = a1 THEN k1 ELSE k2]

-----------------------------------------------------------------------------
(* Sentences of the repository that the code does not keep.  No run checks them: *)
(* put into the configuration, each leads TLC to                                 *)
(* what the README describes.                                                    *)

\* crypt.go:54 "Configured reports whether at least one recipient is available":
\* with a recipient available, saving works.
AvailableMeansConfigured == lines \cap Keys # {} => Configured

\* crypto.go:81 "AddRecipient appends a recipient key ... It returns whether the key
\* was newly added": a key it reports as added is a recipient.
AddedIsListed ==
  [][\A a \in Actors, key \in Keys : Append(a, key) => key \in lines']_vars

\* reencrypt.go:177 "A secret that is truncated mid-write is gone for good", so files are
\* renamed into place: no command that was stopped leaves a secret cut.
NoSecretCutAtRest ==
  (\A a \in Actors : pc[a] = "idle") => \A x \in Secrets : readers[x] # Cut

\* OkMeansShared is not kept either when commands overlap (Overlap = TRUE).
=============================================================================
