---------------------------- MODULE MCDashboard ----------------------------
(* Opens, forms, reloads and other writers over a few names. *)
EXTENDS Dashboard, TLC

-----------------------------------------------------------------------------
(* Sentences of the repository that the code does not keep.  No run checks   *)
(* them: put into the configuration, each leads TLC to what the README        *)
(* describes.                                                                 *)

\* model.go:187 handleProfiles "applies a reloaded profile list": of two reloads
\* the older may come last, and take a profile off that the form just created.
CreatedStaysListed ==
  [][\A n \in ToSet(listed) \cap stored \cap stored' : n \in ToSet(listed')]_vars

\* form.go:178 "created profile", where a proxy that failed is said to have: the end of
\* another process's removal of that name may still take the proxy of the new profile.
CreatedHasItsProxy ==
  meant \cap stored \subseteq secrets \cup told \cup (IF form.saving THEN {form.name} ELSE {})
=============================================================================
