-------------------------- MODULE MCLaunchOptions ---------------------------
(* Profiles that pin up to MaxPinned settings. *)
EXTENDS LaunchOptions

-----------------------------------------------------------------------------
(* Sentences of the repository that the code does not keep.  No run checks   *)
(* them: put into the configuration, they lead TLC to what the README tells. *)

\* confirm.go:101 says the notice names the overrides a launch without DevTools
\* cannot apply. It does not name the languages after the first.
NoticeIsComplete ==
  stage = "open" /\ ~cdp =>
    \A s \in Settings \ {"startURL"} : Pins(opts, s) /\ Reads(s) # opts[s] => s \in notice

\* confirm_html.go:139-140 "the field is informational and never fails the check": the
\* row of the exit address compares it with the name of the proxy's server.
ExitIsInformational == stage = "open" => ExitMark # "bad"
=============================================================================
