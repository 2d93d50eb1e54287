--------------------------- MODULE MCChromeLaunch ---------------------------
(* Sessions of a dashboard, and a command with a debugging port beside them. *)
EXTENDS ChromeLaunch, TLC

-----------------------------------------------------------------------------
(* Sentences of the repository that the code does not keep.  No run checks   *)
(* them: put into the configuration, they lead TLC to what the README tells. *)

\* chrome.go:95 "Only one browser ever owns a profile dir at a time": also when its
\* hamzad was killed or hung up on, when launchCDP returned with an error and its Chrome
\* runs on, and when a command opens a profile beside the dashboard.
OneBrowserAtAll == \A k, l \in Launches : Live(k) /\ Live(l) => k = l

\* launch_cdp.go:27 "identity before environment, patches before navigation": no
\* page of a CDP session is requested before every override is in place.  The start
\* page is on Chrome's command line, and loads first.
DressedBeforeLoad ==
  [][\A l \in Cdp : loaded'[l] /\ ~loaded[l] => applied[l] = NumOverrides]_vars
=============================================================================
