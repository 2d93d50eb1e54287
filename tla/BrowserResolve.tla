--------------------------- MODULE BrowserResolve ---------------------------
(***************************************************************************)
(* Which browser is installed, and which one a launch runs                 *)
(* (internal/infra/browser resolve.go, browser.go, metadata.go, verify.go; *)
(* internal/infra/chrome/resolve.go; internal/cmd/browser/browser.go).     *)
(*                                                                         *)
(* A version is the sequence of its numbers.  A cache maps the versions    *)
(* that have a directory to what is in it: "whole", "no binary" or "no     *)
(* metadata", or "temporary" where a killed install left one under another *)
(* name.  BrowserInstall changes it.                                       *)
(***************************************************************************)
EXTENDS Integers, Sequences, FiniteSets

CONSTANT Unset

\* A part that is missing, or no number, counts as 0.
versionPart(v, i) == IF i <= Len(v) THEN v[i] ELSE 0

\* The first part that differs decides.
lessVersion(a, b) ==
  \E i \in 1..(IF Len(a) > Len(b) THEN Len(a) ELSE Len(b)) :
    /\ versionPart(a, i) < versionPart(b, i)
    /\ \A j \in 1..(i - 1) : versionPart(a, j) = versionPart(b, j)

\* What List reads: directories with metadata, those that killed installs left too.
Listed(cache) == {v \in DOMAIN cache : cache[v] # "no metadata"}

\* The last after an unstable sort: any of the highest.
Newest(cache) == {v \in Listed(cache) : \A w \in Listed(cache) : ~lessVersion(v, w)}

ExecPath(cache, v) == v \in DOMAIN cache /\ cache[v] = "whole"

\* Wrong on purpose: a pinned version that is missing is made good by another.
chromeResolveMutant(configured, pinned, found, cache) ==
  IF configured # Unset THEN {configured}
  ELSE IF pinned # Unset /\ ExecPath(cache, pinned) THEN {pinned}
  ELSE IF found # Unset THEN {found}
  ELSE {v \in Newest(cache) : ExecPath(cache, v)}
\* The binaries Resolve may answer with; none is ErrNoBrowser or
\* ErrVersionNotInstalled.  configured and found are paths, named by themselves.
chromeResolve(configured, pinned, found, cache) ==
  IF configured # Unset THEN {configured}
  ELSE IF pinned # Unset THEN {v \in {pinned} : ExecPath(cache, v)}
  ELSE IF found # Unset THEN {found}
  ELSE {v \in Newest(cache) : ExecPath(cache, v)}

\* spec is a version, or else a channel, "" being the stable one.  A manifest, Unset
\* when it cannot be fetched, maps channels to [version, platforms]; a host of no known
\* platform has Unset.
browserResolve(spec, manifest, platform) ==
  LET channel == IF spec.channel = "" THEN "stable" ELSE spec.channel IN
  IF platform = Unset THEN Unset
  ELSE IF spec.version # Unset THEN spec.version
  ELSE IF manifest = Unset \/ channel \notin DOMAIN manifest THEN Unset
  ELSE IF platform \notin manifest[channel].platforms THEN Unset
  ELSE manifest[channel].version

With(cache, v) == [w \in DOMAIN cache \cup {v} |-> IF w = v THEN "whole" ELSE cache[w]]

\* The rename over a directory that is not an install fails.
Install(v, served, cache) ==
  IF ExecPath(cache, v) THEN [ok |-> TRUE, cache |-> cache]
  ELSE IF v \notin served \/ (v \in DOMAIN cache /\ cache[v] # "temporary")
  THEN [ok |-> FALSE, cache |-> cache]
  ELSE [ok |-> TRUE, cache |-> With(cache, v)]

\* browser install; what Verify finds wrong is a warning.
installCommand(spec, manifest, platform, served, cache) ==
  LET v == browserResolve(spec, manifest, platform) IN
  IF v = Unset THEN [ok |-> FALSE, cache |-> cache] ELSE Install(v, served, cache)

-----------------------------------------------------------------------------
(* Properties. *)

\* What the sort of List needs for Newest to be a highest version (browser.go:167):
\* lessVersion is a strict order, and versions it does not tell apart can stand for
\* each other in any comparison.
OrdersVersions(a, b, c) ==
  /\ ~lessVersion(a, a)
  /\ lessVersion(a, b) /\ lessVersion(b, c) => lessVersion(a, c)
  /\ ~lessVersion(a, b) /\ ~lessVersion(b, a) => (lessVersion(a, c) <=> lessVersion(b, c))

\* A pinned version is that version or an error, never what else there is
\* (resolve.go:26-29); installing v changes no launch with a browser that is
\* configured, pinned to another version or found on the system, and of the others
\* none from an older build to an older one still.
PinsAndUpgrades(configured, pinned, found, cache, v) ==
  LET answers == chromeResolve(configured, pinned, found, cache)
      later == chromeResolve(configured, pinned, found, With(cache, v)) IN
  /\ configured = Unset /\ pinned # Unset => answers \subseteq {pinned}
  /\ configured # Unset \/ pinned \notin {Unset, v} \/ (pinned = Unset /\ found # Unset) => later = answers
  /\ configured = Unset /\ pinned = Unset /\ found = Unset =>
       \A old \in answers, new \in later : ~lessVersion(new, old)

\* An install that reports success has put a build there that can be pinned, the one
\* that was named, and it can be asked for again without the network (install.go:33);
\* one that fails has changed nothing, and no install touches another version.
InstalledCanBePinned(spec, manifest, platform, served, cache) ==
  LET done == installCommand(spec, manifest, platform, served, cache)
      v == browserResolve(spec, manifest, platform) IN
  /\ done.ok =>
       /\ \A found \in {Unset, "found"} : chromeResolve(Unset, v, found, done.cache) = {v}
       /\ spec.version # Unset =>
            /\ v = spec.version
            /\ installCommand(spec, Unset, platform, {}, done.cache) = done
  /\ ~done.ok => done.cache = cache
  /\ \A w \in DOMAIN cache : w # v => w \in DOMAIN done.cache /\ done.cache[w] = cache[w]
=============================================================================
