---------------------------- MODULE LaunchOptions ----------------------------
(***************************************************************************)
(* From a profile to what a page can see of it: the launch options a       *)
(* session is opened with, the flags and DevTools commands Chrome gets,    *)
(* and the notice of what a launch leaves out                              *)
(* (internal/infra/chrome chrome.go, launch_cdp.go, fingerprint.go,        *)
(* confirm.go, confirm_html.go, webrtc.go; openOptions in                  *)
(* internal/cmd/profile/open.go and buildOptions in                        *)
(* internal/infra/manager/manager.go).                                     *)
(*                                                                         *)
(* A value is named by where it comes from: "own" (the profile), "exit"    *)
(* (the proxy's exit address), "host" (the machine and its browser); a     *)
(* languages list is "one" or "many" entries long.                         *)
(***************************************************************************)
EXTENDS Naturals, Sequences, FiniteSets, Functions

CONSTANTS MaxPinned \* bound: settings a profile pins

ASSUME LaunchAssumption == MaxPinned \in Nat

Settings == {"userAgent", "platform", "acceptLanguage", "languages", "timezone",
             "geolocation", "screen", "canvasNoise", "webgl",
             "hardwareConcurrency", "deviceMemory", "startURL"}
Modes == {"", "disable_non_proxied_udp", "default"}

VARIABLES
  stage,
  profile, \* profile[s]: the value the stored profile pins, "" when it leaves s alone
  mode,    \* its webrtc_mode
  proxied, \* it has a proxy secret
  cdp,     \* the session is opened with a debugging port
  autoGeo, \* the session is opened with --auto-geo
  opts,    \* the launch options; CDP mode fills its copy in further
  notice,  \* the settings announced as not applied
  flags,   \* what the command line and the environment of Chrome carry
  policy,  \* --webrtc-ip-handling-policy
  queue,   \* commands applyOverrides has still to send
  engine,  \* the settings the DevTools session overrides
  pageOn,  \* the Page domain is enabled
  script,  \* what the registered script patches
  patched  \* what it patched in the document on screen

optionsVars == <<stage, profile, mode, proxied, cdp, autoGeo, opts, notice, flags,
                 policy, queue, engine, pageOn, script, patched>>
given == <<profile, mode, proxied, cdp, autoGeo>>
chrome == <<flags, policy, engine, pageOn, script, patched>>

Pins(o, s) == o[s] # ""
Primary(list) == IF list = "" THEN "" ELSE "one"

CarriedByFlags == {"userAgent", "timezone"}
cleanArgs(o) ==
  [s \in Settings |-> IF s \in CarriedByFlags THEN o[s]
                      ELSE IF s = "languages" THEN Primary(o[s]) ELSE ""]

webRTCPolicy(m, p) ==
  IF m # "" THEN m ELSE IF p THEN "disable_non_proxied_udp" ELSE ""

\* The settings a launch without DevTools is known to leave out.
CleanModeDropped(o) ==
  {s \in {"platform", "geolocation", "screen", "acceptLanguage", "canvasNoise",
          "webgl", "hardwareConcurrency", "deviceMemory"} : Pins(o, s)}

patchScript(o) ==
  {s \in {"deviceMemory", "languages", "webgl", "screen", "canvasNoise"} : Pins(o, s)}

needsUserAgentBackfill(o) ==
  ~Pins(o, "userAgent") /\ (Pins(o, "platform") \/ Pins(o, "acceptLanguage"))

Command(method, sets) == [method |-> method, sets |-> sets]
When(condition, commands) == IF condition THEN commands ELSE <<>>

\* setLocaleOverride and setDeviceMetricsOverride change no signal listed here:
\* the locale is not navigator.languages, the viewport is not screen.
identityOverrides(o) ==
  When(Pins(o, "userAgent"),
       <<Command("setUserAgentOverride",
                 {s \in {"userAgent", "acceptLanguage", "platform"} : Pins(o, s)})>>)
  \o When(Pins(o, "languages"), <<Command("setLocaleOverride", {})>>)

environmentOverrides(o) ==
  When(Pins(o, "timezone"), <<Command("setTimezoneOverride", {"timezone"})>>)
  \o When(Pins(o, "geolocation"), <<Command("setPermission", {}),
                                    Command("setGeolocationOverride", {"geolocation"})>>)
  \o When(Pins(o, "screen"), <<Command("setDeviceMetricsOverride", {})>>)
  \o When(Pins(o, "hardwareConcurrency"),
          <<Command("setHardwareConcurrencyOverride", {"hardwareConcurrency"})>>)

overrides(o) ==
  identityOverrides(o) \o environmentOverrides(o)
  \o When(patchScript(o) # {},
          <<Command("Page.enable", {}), Command("Page.addScript", patchScript(o))>>)
  \o <<Command("Page.navigate", {})>>

\* What a page in the browser reads of s, with no second DevTools client attached.
Reads(s) ==
  IF s \in patched \cup engine THEN opts[s]
  ELSE IF flags[s] # "" THEN flags[s] ELSE "host"

\* Where the traffic of the session comes out.
Located == IF proxied THEN "exit" ELSE "host"

\* The address WebRTC shows a page: it goes around a proxy unless confined to it.
Address == IF proxied /\ policy = "disable_non_proxied_udp" THEN "exit" ELSE "host"

\* The confirmation page, which a profile without a start URL opens on: of the rows
\* it fills at once, what expectedConfig expects and how classify marks them.
Rows == {"userAgent", "platform", "timezone", "languages", "screen",
         "hardwareConcurrency", "deviceMemory", "webgl"}
classify(expected, actual) ==
  IF expected = "" THEN "na" ELSE IF expected = actual THEN "ok" ELSE "bad"
Mark(s) == classify(opts[s], Reads(s))
\* The row of the proxy expects what Describe says of it and reads the exit address.
ExitMark == classify(IF proxied THEN "server via scheme" ELSE "", Located)

OptionsInit ==
  /\ stage = "build"
  /\ \E pinned \in SUBSET Settings, n \in {"one", "many"} :
       /\ Cardinality(pinned) <= MaxPinned
       /\ profile = [s \in Settings |-> IF s \notin pinned THEN ""
                                        ELSE IF s = "languages" THEN n ELSE "own"]
  /\ mode \in Modes
  /\ proxied \in BOOLEAN /\ cdp \in BOOLEAN /\ autoGeo \in BOOLEAN
  /\ opts = [s \in Settings |-> ""]
  /\ notice = {} /\ queue = <<>>
  /\ flags = [s \in Settings |-> ""] /\ policy = ""
  /\ engine = {} /\ pageOn = FALSE /\ script = {} /\ patched = {}

------------------------------------------------------------------------------
(* Options. *)

\* A start URL given for this session wins over the profile's.
openOptions ==
  /\ stage = "build"
  /\ \E url \in {"", "own"} :
       opts' = [profile EXCEPT !["startURL"] = IF url # "" THEN url ELSE @]
  /\ stage' = IF autoGeo THEN "geo" ELSE "announce"
  /\ UNCHANGED <<given, notice, queue, chrome>>

\* The profile is gone, its secret cannot be decrypted, no browser is found.
OptionsFail ==
  /\ stage = "build"
  /\ stage' = "failed"
  /\ UNCHANGED <<given, opts, notice, queue, chrome>>

\* Wrong on purpose, as every ...Mutant below: the lookup wins over the profile.
applyAutoGeoMutant ==
  /\ stage = "geo"
  /\ opts' = [opts EXCEPT !["timezone"] = Located,
                          !["geolocation"] = IF @ = "" THEN Located ELSE @]
  /\ stage' = "announce"
  /\ UNCHANGED <<given, notice, queue, chrome>>
applyAutoGeo ==
  /\ stage = "geo"
  /\ opts' = [opts EXCEPT !["timezone"] = IF @ = "" THEN Located ELSE @,
                          !["geolocation"] = IF @ = "" THEN Located ELSE @]
  /\ stage' = "announce"
  /\ UNCHANGED <<given, notice, queue, chrome>>

\* The relay or the lookup fails, and the session with it.
GeoFails ==
  /\ stage = "geo"
  /\ stage' = "failed"
  /\ UNCHANGED <<given, opts, notice, queue, chrome>>

Announce ==
  /\ stage = "announce"
  /\ notice' = IF cdp THEN {} ELSE CleanModeDropped(opts)
  /\ stage' = "launch"
  /\ UNCHANGED <<given, opts, queue, chrome>>

------------------------------------------------------------------------------
(* Launch. *)

\* Chrome opens on the start page, with what the flags and the environment say.
Start ==
  /\ stage = "launch"
  /\ flags' = cleanArgs(opts)
  /\ policy' = webRTCPolicy(mode, proxied)
  /\ stage' = IF cdp THEN "backfill" ELSE "open"
  /\ UNCHANGED <<given, opts, notice, queue, engine, pageOn, script, patched>>

StartFails ==
  /\ stage = "launch"
  /\ stage' = "failed"
  /\ UNCHANGED <<given, opts, notice, queue, chrome>>

\* The platform and the language have no user agent to travel with.
backfillUserAgentMutant ==
  /\ stage = "backfill"
  /\ queue' = overrides(opts)
  /\ stage' = "dress"
  /\ UNCHANGED <<given, opts, notice, chrome>>
\* The browser's own user-agent, to carry the platform and the language on.
backfillUserAgent ==
  /\ stage = "backfill"
  /\ opts' = IF needsUserAgentBackfill(opts)
             THEN [opts EXCEPT !["userAgent"] = "host"] ELSE opts
  /\ queue' = overrides(opts')
  /\ stage' = "dress"
  /\ UNCHANGED <<given, notice, chrome>>

\* One command. A script added while the Page domain is off is never run, and
\* one that is on runs in the documents loaded after it.
Send ==
  /\ stage = "dress"
  /\ LET c == Head(queue) IN
       /\ engine' = IF c.method = "Page.addScript" THEN engine ELSE engine \cup c.sets
       /\ pageOn' = (pageOn \/ c.method = "Page.enable")
       /\ script' = IF c.method = "Page.addScript" /\ pageOn THEN c.sets ELSE script
       /\ patched' = IF c.method = "Page.navigate" THEN script ELSE patched
  /\ queue' = Tail(queue)
  /\ stage' = IF queue' = <<>> THEN "open" ELSE "dress"
  /\ UNCHANGED <<given, opts, notice, flags, policy>>

\* The connection is closed, which reverts what it had set; the browser stays.
SendFails ==
  /\ stage \in {"backfill", "dress"}
  /\ engine' = {} /\ script' = {} /\ queue' = <<>>
  /\ stage' = "undressed"
  /\ UNCHANGED <<given, opts, notice, flags, policy, pageOn, patched>>

OptionsNext ==
  \/ openOptions \/ OptionsFail \/ applyAutoGeo \/ GeoFails \/ Announce
  \/ Start \/ StartFails \/ backfillUserAgent \/ Send \/ SendFails

OptionsSpec == OptionsInit /\ [][OptionsNext]_optionsVars

------------------------------------------------------------------------------
(* Properties. *)

Values == {"", "own", "exit", "host", "one", "many"}

\* The options, the notice and the browser's state have their types.
OptionsTypeOK ==
  /\ stage \in {"build", "geo", "announce", "launch", "backfill", "dress", "open",
             "undressed", "failed"}
  /\ profile \in [Settings -> Values] /\ opts \in [Settings -> Values]
  /\ flags \in [Settings -> Values]
  /\ mode \in Modes /\ policy \in Modes
  /\ {proxied, cdp, autoGeo, pageOn} \subseteq BOOLEAN
  /\ (notice \cup engine \cup script \cup patched) \subseteq Settings
  /\ \A i \in DOMAIN queue : queue[i].sets \subseteq Settings

\* Once a session is open under DevTools a page reads every value the options
\* ask for; without DevTools it does, or the user has been told that it does
\* not, a list of several languages excepted (confirm.go:101-108).
OpenIsDressed ==
  stage = "open" =>
    \A s \in Settings \ {"startURL"} :
      Pins(opts, s) => \/ Reads(s) = opts[s]
                       \/ ~cdp /\ (s \in notice \/ opts[s] = "many")

\* A notice is never raised over a value a page does read.
NoticeIsTrue ==
  \A s \in notice : Reads(s) = "host"

\* The confirmation page fails exactly the rows that the notice has announced - its
\* list and the notice's are kept apart in the code - and none under DevTools: "a
\* mismatch means the spoof did not apply" (confirm.go:39-40).
PageAgrees ==
  stage = "open" /\ ~Pins(opts, "startURL") =>
    \A s \in Rows : Mark(s) = "bad" <=> s \in notice \/ (~cdp /\ opts[s] = "many")

\* What the user asked for a page reads, or the user is told the truth about it, on
\* the page too.
DressedOrTold == OpenIsDressed /\ NoticeIsTrue /\ PageAgrees

\* What neither the profile nor the lookup asked for stays the machine's own:
\* the user-agent filled in to carry a platform changes nothing else
\* (launch_cdp.go:199-200).
OnlyPinnedChanges ==
  \A s \in Settings \ {"startURL"} :
    stage \in {"open", "dress", "undressed"} /\ ~Pins(profile, s)
      => Reads(s) \in (IF autoGeo /\ s \in {"timezone", "geolocation"}
                       THEN {"host", "exit"} ELSE {"host"})

\* A lookup never replaces what the profile pins, through every later step.
PinnedWins ==
  stage \notin {"build", "failed"} =>
    \A s \in Settings : Pins(profile, s) => opts[s] = profile[s]

\* A page never learns the host's address from a proxied profile that left the
\* policy to the program, dressed or not (webrtc.go:52-61).
AddressHidden ==
  stage \in {"backfill", "dress", "open", "undressed"} /\ proxied
    => (Address = "exit" <=> mode \in {"", "disable_non_proxied_udp"})

\* A session whose profile asks for no patch leaves the Page domain off
\* (fingerprint.go:62-64).
NothingToFind == pageOn => \E s \in Settings : Pins(profile, s) /\ s \in patchScript(profile)

\* The profile decides what a launch changes and what it leaves alone, and what of
\* that can be noticed: these invariants in one.
ProfileDecides == OptionsTypeOK /\ OnlyPinnedChanges /\ PinnedWins /\ AddressHidden /\ NothingToFind
=============================================================================
