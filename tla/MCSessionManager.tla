-------------------------- MODULE MCSessionManager --------------------------
(* One profile, opened twice, with every interleaving of the loop and shutdown. *)
EXTENDS SessionManager, TLC

-----------------------------------------------------------------------------
(* Sentences of the repository that the code does not keep.  No run checks them: *)
(* put into the configuration, each leads TLC to                                 *)
(* what the README describes.                                                    *)

\* tui.go:68 "Close every browser and flush session bundles before the process
\* exits, however the program ends."
ExitClosesEveryBrowser ==
  phase = "exited" => \A s \in Sessions : pc[s] # "browsing"

\* manager.go:302 "CloseAll cancels every live session and waits for their
\* goroutines to finish": while it waits, every live session is cancelled.
CloseAllCancelsEveryLive ==
  phase = "waiting" => \A p \in Profiles : Busy(p) => ctxDone[current[p]]
=============================================================================
