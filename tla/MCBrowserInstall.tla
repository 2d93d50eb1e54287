-------------------------- MODULE MCBrowserInstall --------------------------
(* Two processes and two versions. *)
EXTENDS BrowserInstall, TLC

InstallSymmetry == Permutations(Procs) \cup Permutations(Versions)

-----------------------------------------------------------------------------
(* Sentences of the repository that the code does not keep.  No run checks them: *)
(* put into the configuration, each leads TLC to what the README describes.      *)

\* browser.go:142 "List returns the installed versions".
ListedIsInstalled == \A v \in Listed : Installed(v)

\* browser.go:119-121 "a partial install reports as missing instead of failing
\* later inside the launcher": what ExecPath resolves while nobody removes it is
\* whole.
ResolvedIsWhole ==
  \A v \in Versions : Installed(v) /\ ~Removing(v) => dir[v] = Parts

\* browser.go:135 "%q is incomplete, reinstall it": installing over an incomplete
\* directory, with no other command running, publishes the build.
ReinstallRepairs ==
  [][\A p \in Procs :
       PublishRefused(p) /\ (\A q \in Procs \ {p} : command[q] = "idle") => Installed(version[p])]_cacheVars
=============================================================================
