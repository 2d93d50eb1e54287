-------------------------- MODULE MCSessionBundle ---------------------------
(* One profile: a dashboard and a command, one after the other. *)
EXTENDS SessionBundle, TLC

TokenSymmetry == Permutations(Tokens)

-----------------------------------------------------------------------------
(* Sentences of the repository that the code does not keep.  No run checks them: *)
(* put into the configuration (the last with Overlap), each leads TLC to         *)
(* what the README describes.                                                    *)

\* crypto.go:35 "Failing loudly beats extracting a truncated prefix, which would
\* look like a successful restore and hand Chrome a corrupt profile": no Chrome
\* runs on, and no bundle is packed from, a directory restored or removed only in part.
NoPartialProfile ==
  /\ \A a \in Actors : pc[a] = "browsing" => work # None /\ work.whole
  /\ bundle # None => bundle.whole

\* README.md:135 "their copy decrypts the proxy and the session bundle and resumes
\* the account": a bundle that was saved can be unpacked again.
SavedBundlesUnpack == bundle # None => ~bundle.link

\* README.md:141 "open keeps yours and says so - run profile pull to take
\* theirs": what the shared bundle holds and the working copy does not is still
\* in the bundle after the session that kept the local copy has been saved.
TheirsStaysPullable ==
  [][\A a \in Actors :
       PackRename(a) /\ cmd[a] = "open" /\ bundle # None => bundle.seen \subseteq bundle'.seen]_vars

\* reencrypt.go:123 "only the age envelope is replaced": re-encrypting a bundle
\* does not change the session it holds.
ReencryptKeepsPayload ==
  [][\A a \in Actors :
       RecryptRename(a) /\ bundle # None => bundle'.seen = bundle.seen]_vars
=============================================================================
