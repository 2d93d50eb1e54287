# Verification of hamzad

hamzad keeps browser profiles (fingerprint, proxy, cookies) in a git-shared
store, opens them in Chrome, and encrypts what a session leaves behind for the
people who share the store. This directory holds TLA+ models of it, the TLC
configurations that check them on small instances, and theorems about most of
them, checked by TLAPS. Everything is translated from the Go source; comments in
the modules name the functions. Paths below are relative to `src/internal`.

    tlc -workers 2 -config MCSessionManager.cfg MCSessionManager
    tlapm SessionManagerProofs.tla

`PROJECT.json` lists the runs with their properties, the lines each definition
models, one mutation of the model for each property that makes it fail, the
hazards the properties are aimed at, and the line each of them is about.

## 1. Inventory

| Part | Source | State | Operations | Interacts with |
|---|---|---|---|---|
| Session manager | `infra/manager/manager.go` | map name → session (status, cancel, error), mutex, wait group, observer | Open, Close, CloseAll, emit, the goroutine around `chrome.Launch`, fail, restore, save | store, launch, dashboard (observer → `program.Send`) |
| Dashboard | `cmd/tui/{tui,model,form,select}.go` | rows, cursor, profile list, form, modal, status line | keys, ticks, session events, reload, submit | manager (Open in a `tea.Cmd`, Close on the loop), store |
| Passphrase prompt | `cmd/tui/passphrase.go`, `infra/crypt/keychain.go` | gate, cached passphrase, modal, keychain item | prompt, begin, submit, dismiss | manager goroutines ↔ loop (channel) |
| Profile store | `infra/store/store.go`, `cmd/profile/profile.go` | `profiles.toml`, mutex | Add, Put, Remove, load, save; add, edit, geo, remove | secrets, bundles, data directories |
| Secrets and bundles | `infra/store/crypto.go`, `cmd/profile/open.go` | `secrets/*.age`, `data/*.tar.age`, `data/*/` | SetProxy, Proxy, PackBundle, UnpackBundle, pull, push | crypt, launch |
| Recipients, re-encryption | `infra/store/reencrypt.go`, `infra/crypt/crypt.go`, `cmd/store/store.go` | `recipients.txt`, the recipients of each artifact | AddRecipient, Reencrypt, encrypt, decrypt | every writer of an artifact |
| Sync | `infra/store/git.go` | checkout, remote | Sync, InitRepo | git |
| Launch | `infra/chrome/{chrome,launch_cdp,stop*}.go` | Chrome process, its locks, relay, DevTools session | Launch (clean and CDP), wait, stop, kill | relay, DevTools client, manager |
| Launch options, spoofing | `infra/chrome/{confirm,confirm_html,fingerprint,webrtc}.go`, `openOptions`, `buildOptions` | options, flags, commands, patch script | build, override, announce, confirm | geolocation, relay |
| DevTools client | `infra/cdp/cdp.go` | pending map, id counter, closed flag, reader goroutine | Dial, Send, read, failAll, Close | launch, Chrome |
| Proxy relay | `infra/proxy/runner.go` | listener, sing-box instance, registry mutex | Start, WithRelay, Close | launch, geolocation |
| Proxy parsing | `infra/proxy/spec.go`, `ValidateProxySpec` in `domain/profile` | none | ParseSpec, Describe | launch, form, add, edit |
| Browser cache | `infra/browser/{install,browser,metadata}.go` | one directory per version, temp directories | Install, Remove, List, ExecPath | launch |
| Browser resolution | `infra/browser/{resolve,verify}.go`, `infra/chrome/resolve.go`, `cmd/browser/browser.go` | none | pick a build, pick a binary, try it | browser cache, launch |
| Configuration | `infra/config/config.go`, `cmd/root.go` | none after the start | Load, Resolve, loadConfig | every command |
| Profile settings | `domain/profile/profile.go`, `cmd/profile/profile.go` | none | Validate, applyFlags, editAction, addCommand | store, launch |
| Terminal prompt | `infra/crypt/prompt.go` | the accepted passphrase | askChecked | decryptions of one command |
| Bookmarks, geolocation | `infra/chrome/bookmarks.go`, `infra/geo` | none that outlives a call | seed, look up | launch |

What is hard in it, and what correct means:

* *Session manager.* Opens, closes, ends, ticks and shutdown interleave, and
  sessions are looked up by name. Correct: one session per data directory; a
  session that counts as closed has offered its data to the bundle; an end is
  final; rows settle on the truth; neither the loop nor a shutdown hangs.
* *Store.* Read-modify-write of one document, several goroutines and processes,
  kills between steps. Correct: an atomic map; a removal is complete and takes
  only what is its own.
* *Bundles.* A restore clears and fills in place; a save replaces. Correct: no
  partial session is browsed or shared; local data is never overwritten by open.
* *Recipients.* The set of readers is fixed when a file is written. Correct:
  success means everything is shared; nothing is sealed for nobody.
* *Sync.* Another machine pushes in between; a rebase conflicts. Correct:
  success means shared; no edit is lost.
* *Launch.* Chrome crashes, hangs and outlives its parent; overrides last as long
  as a DevTools session. Correct: one browser per directory, packed after its
  exit, dressed before it loads a page, gone when cancelled.
* *Dashboard.* Reloads answer late, rows lag behind the list, a prompt comes up in
  the middle of typing, other processes write. Correct: a key acts on the profile
  it was aimed at; a form stores exactly what it asked for or says so; the list
  settles on the store.
* *DevTools client, relay, browser cache, prompt.* Replies out of order, a lost
  port race, a killed install, several prompts at once.
* *Inputs.* Bundles, proxy links, versions, configuration layers, flags, typed
  passphrases and key files are pure decisions with many branches, several of them
  taken twice in the code by different functions. Correct: what one function
  accepts the next one accepts; nothing asked for is lost or shown.

`PROJECT.json` lists these hazards line by line.

## 2. Modules

| Module | Models | Abstract specification |
|---|---|---|
| `SessionManager` | manager with the loop and shutdown that drive it | `ProfileLease` |
| `ProfileStore` | profile list, secrets and bundles as files | `ProfileMap` |
| `SessionBundle` | working copy and bundle of one profile | `SessionCells` |
| `BundleTree` | the entries of a bundle | `Identity`, `Restorable` |
| `Recipients` | who can read what | |
| `RecipientArgs` | arguments of recipients add and init | |
| `StoreSync` | several checkouts and a remote | |
| `ChromeLaunch` | Launch and the Chrome processes | |
| `LaunchOptions` | settings from the profile to the page | |
| `CdpClient` | DevTools client | |
| `RelayStart` | relays, ports, registry mutex | |
| `BrowserInstall` | cache of Chrome builds | |
| `PassphraseBridge` | prompt, keychain wrapper, modal | |
| `Dashboard` | list, cursor, form, status line, reloads; composes `PassphraseBridge` | |
| `TerminalPrompt` | the prompt of a command | |
| `ProxySpec` | proxy specifications and what is shown of them | |
| `BrowserResolve` | versions, builds, the binary of a launch | |
| `ConfigLayers` | settings and the store's directory | `Layers` |
| `ProfileFlags` | add, edit and Validate | |
| `Inputs` | the seven stateless modules as one specification | |
| `SessionManagerProofs`, `ProfileStoreProofs`, `SessionBundleProofs`, `DashboardProofs`, `InputsProofs` | theorems about the module named |
| `DevToolsProofs` | theorems about `CdpClient` and `LaunchOptions` | |
| `LaunchProofs` | theorems about `ChromeLaunch`, `RelayStart` and `BrowserInstall` | |
| `SharedStoreProofs` | theorems about `Recipients` and `StoreSync` | |

Each `MC…` module extends its module with the constants and symmetries of its
run. Symmetry is used only for interchangeable values that no definition
singles out, and in no run with a liveness property. An `MC…` module may end with
sentences of the repository that the code does not keep (section 3).

### SessionManager

A session object is identified with the call of Open that allocates it. `pc[s]`
follows the goroutine of the call: the `tea.Cmd` that restores and builds options
and then the `wg.Go` goroutine around `chrome.Launch`. `current[p]` is
`m.sessions[p]`; `status`, `hasCancel`, `ctxDone`, `launchErr` are the session's
fields and its context. Critical sections of `mu` are one step each, with one
exception: `emit` reads under the lock and then blocks in `program.Send`, so it is
split into `EmitRead`, `EmitUnlock` and `Notify`, the last of which needs the loop
to be ready. The loop handles one message at a time; a key or tick that calls the
manager is split at the mutex. `CloseAllCancel`, `CloseAllWait` and `Exit` are the
deferred CloseAll of `run`. `unsaved`, `hasBundle` and `localDir` are what the
steps leave on disk, as far as the decisions of restore and save depend on it.

`ProfileLease` is a lock on data directories: acquired, used for one activity at a
time, given back when the data browsed under it was packed or packing was given
up. The refinement (`LeaseSpec`) says that the map of sessions and their statuses
is such a lock.

### ProfileStore

A client is an operation in progress: `task[c]` is its kind, stage and local
variables. Every file operation is a step of its own, so a kill (`Crash`) or an
I/O error (`Fails`) can come between any two. `held[p]` is `Store.mu` of process
`p`; `ProcOf` says which operations share one. The commands above the store are
included where they matter: `edit` reads before it locks, `add` and the form store
a proxy after adding, a purge follows the removals. A profile is the set of its
settings that differ from the default.

### SessionBundle

The two copies of one profile's browsing data. A copy is abstracted to the sessions
it contains, whether all its files are there, and whether it holds the absolute
symlink of a killed Chrome. A launch first seeds the bookmark bar (`Seed`), so that
one which then fails leaves local data behind. Actors run open, pull, push, remove
and reencrypt, dashboards several at once; teammates' saves arrive through `Sync`.
`os.RemoveAll`, in a restore and in `remove --purge`, unlinks file by file
(`Unlink`) and may fail or be killed on the way; what it leaves is local data to the
next open. `SessionCells` has two cells that hold one whole session or nothing, a
hand that carries one from cell to cell, and a flag for the only thing that spoils
them: a restore or a purge that stopped half-way. `CellsSpec` says that faults,
kills and orphaned browsers do nothing worse. Commands come one after the other
unless `Overlap`.

### Recipients

`readers[x]` is the recipient set an artifact was written with. A bundle is replaced
by a rename (`Replace`); a secret is truncated in place and then written
(`Truncate`, `WriteSecret`), and nobody can read it (`Cut`) in between, or at all if
SetProxy is killed there. Reencrypt lists the artifacts, opens each, seals it again
for the lines recipients.txt holds at that moment, renames it, and reports. The list
is edited by AddRecipient (which accepts lines by prefix) and, at any moment, by
hand. `Overlap` allows commands at the same time.

### StoreSync

A checkout and the remote are sets of edits. A sync is commit, ls-remote,
pull --rebase, push; each may fail on the network, a rebase stops when both sides
touched a file git cannot merge, and a push is refused unless it extends the
remote. What git does is modelled from its behaviour and marked external.

### ChromeLaunch

Launches on one directory, each with its Chrome process, SingletonLock, debugging
port, relay and DevTools session. Some are sessions of a dashboard, and `Manager.Open`
sees to it that only one of them is in progress; the others are commands (`Commands`), a
hamzad process each, which ask nobody (`Overlap`). os/exec signals a cancelled
process from its own goroutine, so Terminate and Kill do not need Launch to be
waiting, but they need hamzad: it may end at any point (`HamzadEnds`: only os.Interrupt
is caught), and it ends with the error when launchCDP's overrides fail. The Chrome it
leaves has lost its relay, answers to nobody, and is outside the safety properties, by
name (`Abandoned`).

### LaunchOptions

A sequential model over a large set of inputs: every profile of up to
`MaxPinned` settings, with or without proxy, DevTools port and auto-geo. A value is
named by its origin. `cleanArgs`, `overrides`, `patchScript` and `CleanModeDropped`
are operators with the names of the functions; `Reads` is the
reference: what a page script reads under the flags, overrides and patches in
force. `Rows`, `classify` and `Mark` are the confirmation page: what it expects, from
`expectedConfig`, and how it marks what it reads. Its list of settings and the
notice's are separate in the code; `PageAgrees` compares them.

### Dashboard, PassphraseBridge

`PassphraseBridge` has the gate, the cache, the modal and the keychain wrapper in
front of them; a passphrase is right or wrong. `Dashboard` EXTENDS it: its openers
are the goroutines that `openCmd` starts, its modal is over the dashboard's views
(`KeyIn`), and its loop handles a `passphraseRequestMsg` like any other message.
The view's state is that of the Bubble Tea model: the profile list, the rows last
given to the table (which lag behind it until `refreshRows`), the cursor as an
index, the form, the status line. A `reloadCmd` goroutine reads the store
(`ReloadReads`) and its message is handled later (`handleProfiles`), with other
messages and other goroutines in between. The form adds the profile and then
stores its proxy (`submitForm`, `submitProxy`), and other processes, which add and
remove profiles, write the document (`OtherAdds`, `OtherRemoves`) and the secret later
or never (`OtherFinishes`). Sessions themselves are `SessionManager`'s.

### Inputs and the modules it combines

The parts without state of their own are operators. `Inputs` puts them into a
specification with one variable: a step asks one question of one part, and the
invariants judge the answer, against a reference that is not built like the code:

* `BundleTree`: a tree is a set of entries, each with what the walk saw and what
  the copy met a moment later; the reference is the identity of a tree (all but
  caches and sockets) and what of it can be restored. The cache rule, tar's
  refusal of a file that changed, and the limits of `extractTar` are the code's.
* `ProxySpec`: from what `url.Parse` makes of a link to the outbound; the reference
  is what the link asks for and what of it is secret.
* `BrowserResolve`: versions as sequences of numbers, missing parts counting as
  zero; the order, the newest install, the binary of a launch, and `browser
  install` in terms of them.
* `ConfigLayers`: partial functions from settings to values, laid over each other;
  the reference is the highest layer that names a setting.
* `ProfileFlags`: the flags of add and edit; a value is good or bad.
* `TerminalPrompt`: the answers a person types, one after the other, and the prompts
  of a command that consume them.
* `RecipientArgs`: keys and key files as arguments, added one after the other to a
  recipients.txt, which ends with a newline or in the middle of its last line, where
  the first key is then written; and the same arguments again with what was wrong put
  right.

### CdpClient, RelayStart, BrowserInstall

`CdpClient`: calls of Send with channels of capacity one, the pending map, the
reader, failAll, Close, and a browser that answers in any order. `RelayStart`: the
reservation of a port, its release, the later bind, and other programs in between;
the kernel answers that an address is in use for a port that was taken and for want
of any, and both are retried. `BrowserInstall`: a directory is the set of its parts
(binary, metadata, other files), extracted into a temp directory and renamed; a
removal unlinks part by part.

## 3. Runs

| Run | Question | Bounds | States |
|---|---|---|---|
| `session_manager` | exclusion, saved before closed, rows, final ends, the lease, shutdown; cancelled sessions end, the loop responds | 1 profile, 2 Opens | 193 150 |
| `profile_store` | atomic map, no lost update, contained removal | 2 operations at a time of one process, 2 names, 1 kill | 1 166 559 |
| `session_bundle` | refinement of the two cells, open keeps local data, clearing only for a readable bundle | 1 dashboard and 1 command in turn, 3 sessions, 2 kills, all faults | 360 622 |
| `chrome_launch` | packing, exclusion within the dashboard, relay, locks; a cancelled launch ends | 2 sessions of a dashboard, and a command with DevTools and one override beside them | 608 380 |
| `launch_options` | dressed or told, on the page as in the notice; the profile decides, nothing given away | profiles with up to 4 pinned settings | 466 926 |
| `recipients` | success means shared, access kept, nothing sealed for nobody | 2 people, a secret and a bundle, 1 malformed line, 1 kill | 60 984 |
| `store_sync` | success means shared, nothing dropped, work reaches the remote | 2 machines, 2 files, 2 edits each | 71 629 |
| `dashboard` | cursor on a row, no profile quietly without its proxy, no lost request, working answers, one unlock; keys act where they were aimed; the list settles, every prompt returns | 3 names, opened by up to 3 openers asking twice, or up to 3 acts (forms, reloads, other writers); where there are both, 1 of each; with and without keychain | 271 110 |
| `cdp_client` | right replies, free reader, clean end; Send returns | 3 calls | 202 411 |
| `relay_start` | own address, no leaks, retries; every start returns | 2 starts, 2 ports, 3 ports taken by others | 37 372 |
| `browser_install` | published whole, only remove uninstalls, true outcomes | 2 processes, 2 versions, 4 commands, 2 kills | 34 232 |
| `inputs` | round trip of bundles, proxies honoured and hidden, browsers, layers, edits, passphrases, recipients | trees of 2 entries and the directories above them; links of 10 schemes; 5 versions, 3 in a cache; 2 keys per layer; 2 flags per command; 6 typed answers; 2 arguments of 2 keys, put right with any of them, for files with and without a newline at the end | 351 129 |

The conjunctions a configuration checks (`BundleSafety`, `LaunchSafety`,
`DressedOrTold`, …) are defined from named parts, each with its own comment.

Why the bounds are enough to meet the interesting cases: two actors are what each
race needs, and where a third one is affordable (launches, calls, openers) it
meets a queue that two others have filled. Two Opens of one profile are one that
is still ending and one that is coming; that nothing new happens with more Opens
or profiles is what the theorems of section 4 say of the safety properties. Two
names are one that an operation is about and one it must leave alone. Three
browsing sessions tell ours, theirs and a later one apart. One kill suffices for
every single point of failure, two for a restart that is killed as well. Two edits
on each of two machines let one be published between another's pull and push.
Three ports taken by others are as many as one start tries. Four pinned settings
are more than any two conditions of the code read together. Of the inputs, every
part looks at pairs at most: an entry and one it must not be confused with, two
layers that name one setting, a flag and one it excludes; sizes are one below, on
and above the limit; the six answers are two prompts of three tries. Runs whose system ends
(bounded commands, launches or calls used up) allow deadlock in their
configuration; the others check it.

Nothing in the code keeps two hamzad processes off one store, and most promises
above are for commands that take turns. `Overlap` (`Recipients`, `SessionBundle`) and
`TwoProcesses` (`ProfileStore`) lift that: `RecipientSafety` and `BundleSafety` still
hold then, while `ReadersKept`, `CellsSpec`, `OpenKeepsLocal`, `MapSpec` and
`SaveKeepsOthers` do not. The runs keep the restriction, by name, so that they show
what the code does guarantee. `RemoveSparesReAdded` in particular is about one process;
`Dashboard` has the removal in another one, and excepts the names it was still
removing (`raced`). `chrome_launch` has no such restriction: a command runs beside the
dashboard, and the properties say what is left then. With `Overlap = FALSE` they say of
commands, too, that there is one browser at a time; the theorems of section 4 hold
for both.

### Where the code disagrees with what it says of itself

No run expects a violation. Sentences of the repository that the code does not
keep, found on the way, are stated at the end of the `MC…` modules, with the lines
they quote; put into the configuration, TLC finds the behaviour in a few seconds.

| Sentence | What happens |
|---|---|
| `MCSessionManager!ExitClosesEveryBrowser`, `CloseAllCancelsEveryLive` | an Open in progress escapes CloseAll: the process exits over its browser, or waits for one nobody told to quit |
| `SaveKeepsOthers` with `TwoProcesses` | two processes on one store overwrite each other's document |
| `MCProfileStore!EditKeepsOtherFields` | edit writes back settings it read earlier (two processes, two fields) |
| `MCProfileStore!RemovedMeansBare`, `NoTornSecretAtRest` | an interrupted remove leaves artifacts for the next profile of the name; SetProxy truncates in place |
| `MCSessionBundle!NoPartialProfile` | a restore or a `remove --purge` that stops half-way leaves what is taken for local data, browsed and packed |
| `MCSessionBundle!SavedBundlesUnpack` | a killed Chrome's absolute symlink is packed and makes the bundle impossible to unpack |
| `MCSessionBundle!TheirsStaysPullable` | the save after "keeping the local session" replaces the bundle the user may pull |
| `MCSessionBundle!ReencryptKeepsPayload` with `Overlap` | reencrypt renames an older session over one saved meanwhile |
| `OkMeansShared`, a part of `ReadersKept`, with `Overlap` | a save that began earlier undoes a re-encryption that reported success |
| `MCRecipients!NoSecretCutAtRest` | SetProxy killed between truncating the secret and writing it takes the proxy from everybody |
| `MCRecipients!AvailableMeansConfigured`, `AddedIsListed` | one bad line switches saving off; an appended key is glued to the last line |
| `MCStoreSync!EveryEditReachesRemote` | a conflict leaves a rebase in progress, and no later sync works |
| `MCChromeLaunch!OneBrowserAtAll` | hamzad that is killed, or returns with the error of an override, leaves Chrome running, and the next launch clears its lock; so does a command beside the dashboard |
| `MCChromeLaunch!DressedBeforeLoad` | under DevTools the start page is on Chrome's command line and loads before the first override is sent |
| `MCLaunchOptions!NoticeIsComplete` | the languages after the first are dropped and not announced |
| `MCLaunchOptions!ExitIsInformational` | the page compares the exit address with the name of the proxy's server, and fails that row |
| `MCDashboard!CreatedStaysListed` | an older reload that answers late takes a profile off the list that the form created |
| `MCDashboard!CreatedHasItsProxy` | the end of another process's removal takes the proxy of a profile the form has just created under that name |
| `MCInputs!PackedUnpacks` | a file over the limit, or an absolute link, is packed and refused ever after |
| `MCInputs!NothingDropped`, `ShadowsocksNeedsPassword`, `ServerIsNamed` | an unknown vless security means no TLS, an unknown transport none; `ss://cipher:@host:port` and `socks5://:1080` are taken |
| `MCInputs!TrojanMayGoWithoutTLS` | a trojan link that says `security=none` gets TLS all the same |
| `MCInputs!EmptyIsDefault` | `identity_path = ""`, which the sample file ships as the default, names a key file with no name |
| `MCInputs!InstallIsEnough` | a newer version that has no binary hides an older one that has |
| `MCInputs!AsksOnce` | a command asks again for every artifact after a prompt that gave up |
| `MCBrowserInstall!ListedIsInstalled`, `ResolvedIsWhole`, `ReinstallRepairs` | temp directories are listed as installs; a half-removed build resolves, and cannot be reinstalled |

### Fairness

Weak fairness on the steps of goroutines that run, as Go's scheduler gives it;
strong fairness where a mutex or a channel is contended, because Go's mutex hands
over to a starving waiter and blocked senders are served in turn. No key press, no
closing of a window, no answer of a browser and no command is assumed to happen,
with two named exceptions: in `dashboard` somebody answers or dismisses a modal
on the screen, and in `store_sync` somebody keeps running `store sync` on a network
that works every now and then. In `chrome_launch` the grace timer runs out, so Kill
is fair though Chrome may ignore SIGTERM; both signals come from a goroutine of
hamzad, so neither is enabled, and nothing is promised, once hamzad has ended. The
dashboard's loop finishes a form it has begun to store (`Saves`).

## 4. Theorems

The theorems hold for every value of the constants that meets the named assumption
of the module: the bounds of section 3 (openings, commands, edits, kills) are
arbitrary there. The properties are seldom inductive as they stand; each proof
module defines the invariant that is, proves it with one case per action, and names
it `Invariance` (`PromptInvariance`, `RelayInvariance`, `CacheInvariance`, `SyncInvariance`
where a module has more than one).

`SessionManagerProofs`, for any sets of profiles and Open calls, from
`NoneAssumption` alone. `fail` and `emit` reach sessions by name, so a step of one
call could touch another's session. The invariant `IInv` adds the link that rules
this out:

* `Ownership`: whoever occupies a profile's directory is the session the map lists
  for it, with an active status;
* `CurrentOwned`: the map lists sessions under their own profile;
* `DebtHeld`: unsaved data has a session that is browsing or about to save;
* `RowsTracked`: a row that is out of date has an announcement or refresh under way.

From it follow `TypeCorrect`, `DirectoryExclusion` (`OneSessionPerDir`),
`SavedBeforeClosed` (`NotLiveMeansSaved`), `RowsCurrent` (`RowsSettle`) and `FinalEnd`
(`EndIsFinal`). `DrainedClosed` (`DrainClosesCollected`) needs besides that whatever
CloseAll can collect has been claimed, and that its context stays done (`Collected`).
`ImplementsLease` is the refinement: every step is one of `ProfileLease` or leaves it
alone, where the lease's holder is read off the map of sessions and the statuses.

`ProfileStoreProofs`, for any clients, names, settings and kills, from
`StoreAssumption`. Apart from `TypeCorrect` the theorems assume `SingleProcess`: all
operations share a process, as in the dashboard. Without it they are false: TLC
finds the lost update with `ProcOf <- TwoProcesses`. The argument is the lock's:
whoever is between Lock and Unlock holds the mutex (`Holding`), so what it loaded is
still what the file holds when it renames (`Fresh`), and a profile being removed
stays absent until its artifacts are gone (`Gone`). From it: `Atomicity` (the store
implements `ProfileMap`), `NoLostUpdate` and `RemoveIsContained`.

`SessionBundleProofs`, for any processes and browsing sessions, from
`BundleAssumption`. However commands overlap, a process has a copy in its hands
exactly between reading one and writing it (`InHands`), so that it never clears a
directory for a bundle it could not read (`BundleIsSafe`). The other two theorems
assume `~Overlap`, as the run does: nothing in the code keeps two processes off one
profile, and TLC finds both false without it. Then an open restores only into
nothing (`OpenRestoresNothing`), and nobody else writes to a directory that is being
extracted to, a browser whose hamzad was killed included (`ExtractsAlone`): that
is `LocalIsKept` (`OpenKeepsLocal`), and it makes every step one of `SessionCells`
(`ImplementsCells`), with one lemma for each group of commands. Emptying the
working directory is the cells' `Wipe`, and only a restore or a purge that stops after
it began is their `Tear`.

`SharedStoreProofs`, about who can read the store and how it travels. For any keys,
artifacts, people and kills, and however commands overlap, whoever is about to write
an artifact writes it for somebody (`Writing`), hence `ReadableByOne`
(`RecipientSafety`). `ReadersKeptWhenSolo` (`ReadersKept`) assumes `~Overlap`, and
excepts the step in which SetProxy cuts a secret: it rests on where a reencrypt in
progress has each artifact (`Rotation`): listed, failed, in hand, or sealed for all
who are listed. `SyncIsSafe` holds for any machines, files and edits: what a sync
set out to share stays in its checkout's history until it returns, and the remote
only grows.

`LaunchProofs`, for any number of launches on a directory, with or without a
debugging port, and any overrides, whenever hamzad ends. Nothing in Launch asks
whether a Chrome is running, so the exclusion of browsers rests on where Launch may
be while its Chrome lives (`ChromeWithin`) and on one Launch at a time (`OneLaunch`)
among those that are `Apart`: the sessions of one dashboard, of which
`SessionManager` shows it, and commands only if they take turns. A Chrome that
hamzad left is excepted by name. `LaunchIsSafe` (`LaunchSafety`) and
`LaunchStepsHold` (`LaunchSteps`) follow, the latter with whose lock a launch can
find (`LockFresh`). For relays, `StartRelaySafety` holds for any launches and ports,
too few of them included: a start gives its port up between choosing and using it,
and the invariant says in which stages the port it chose is the one it listens on,
and that it listens on no other. For the cache of builds, `CacheStepsHold` holds for
any processes, versions and kills: what an install's temp directory holds follows
from how far the install is (`TempFilled`), so only a whole one is renamed into
place.

`DevToolsProofs`, what goes over the DevTools connection. For any calls of Send,
from `SendsAssumption`, the map of waiters is one-to-one, and a reply in the
reader's hands has left it (`Waiting`, `Handing`); hence `CdpReplySafety`
(`ReplySafety`). For any profile, with or without proxy, DevTools and a look-up,
what the session has set together with the commands still queued is what the options
pin (`Dressing`, a part of `DressInvariance`): a command that succeeds moves from
one to the other, and one that fails closes the connection, which reverts what was
set. Hence `OptionsProfileDecides` (`ProfileDecides`) and `OptionsDressedOrTold`
(`DressedOrTold`).

`DashboardProofs`, for any finite sets of profiles and openers. The prompt's
invariant says that the gate is held from entering it to the answer (`GateHeld`),
that a request on its way or on the screen is the only one (`OneRequest`), and that
whoever waits found nothing remembered (`Remembered`): `PromptIsSafe`
(`PromptSafety`). The dashboard's, on top of it, says that rows are a prefix of the
list (`RowsLag`), which is why refreshing them moves no cursor, and that only a
removal that was under way when a profile was created (`raced`) deletes its secret:
`DashboardIsSafe` (`DashboardSafety`) and `AimIsKept` (`AimKept`). `List`, the names
in order, is the one increasing sequence of all of them; `ListExists` shows by
induction on their number that there is one.

`InputsProofs`, for every input: whatever sets `Inputs` is given for its
constants, and however long versions, lists, trees and layers are. Each theorem is an
invariant of `Inputs` and rests on lemmas about the operators alone.

* `LayeredConfiguration` follows from the definition of laying one function over
  another (`LayerOrder`, `StoreChoice`).
* `ExactEdits` compares `editAction` with what the flags name, setting by setting
  (`EditNamed`, `AddThenEdit`); it assumes that a stored profile has all settings and
  no proxy among them (`StoredAssumption`), which Put guarantees.
* For `StableBrowsers` the first part in which two versions differ decides between
  them (`LeastNatural`, `VersionParts`), so that `lessVersion` is a strict order for
  versions of any length (`VersionOrder`, from `VersionsAssumption`); the newest install
  is then a maximum, and an install cannot lower it (`BrowserChoice`), and what an
  install reports can be pinned (`InstallChoice`).
* `HonouredProxies` takes the schemes one by one (`SocksReaches` and its like): what a
  field of an outbound is follows from the last of the parts laid over each other that
  has it (`Overlay`, `OneField`). That nothing secret is shown needs that nobody's
  password is the name of their proxy or its scheme (`LinksAssumption`).
* For `WholeBundles` a path is in a cache by the place at which it has the cache's name
  (`CacheAt`), so that what is below it is too (`CacheBelow`), and nothing that is
  archived needs a directory that is not; `TreesAssumption` says what a tree is.
* `HandledKeys` follows the prompts and the keys of a command step by step, by
  induction up to their number (`UpTo`, `Recursion`, `Along`). A prompt that is not the
  last finds three answers to read (`ThreeLeft`), and what it remembers, it remembers
  for good (`PromptEffect`, `PassphraseTyped`). What adding does to the list adds up
  (`Adds`, `AddsOn`), with a newline at the file's end (`AddsWhole`) or without, as long
  as nothing is new (`AddsNone`) and after the first new key was written on the last
  line (`AddsOnto`). That adding again after a failure makes up for it compares three
  runs: over what is wrong, over the same put right, and over that again from where the
  first one ended. The last two meet where the first one fails (`Alike`, `AddedAgain`).
  `TypedAssumption` and `ArgumentsAssumption` say that these are sequences.

Only model-checked: liveness, as fairness and ENABLED are out of the prover's
reach: `NothingHangs`, `CancelEnds`, `WorkReachesRemote`, `SendReturns`, `StartReturns`,
`ListSettles` and `PromptReturns`. Every invariant, every action
property and every refinement of the runs is stated by a theorem.

## 5. Not modelled

`url.Parse`, base64, JSON, TOML, tar, zip, gzip and age themselves (the models start
from their results or end at their inputs), HTTP, the text of the fingerprint
scripts, the layout of the confirmation page and its late rows, the bookmark
document, the geolocation service, the keychain tool of macOS, `Verify`'s trial run
of an installed browser (a warning), the command tree, rendering, and the Windows
variants of stopping a process. They are I/O or formatting without state shared
between actors.

Of the parts that are modelled, not covered: the choice of a page target in
`AttachToPage`, the character rules behind "good" and "bad" values (NaN in a
location among them), and the preset lists of the form.

## 6. Plan

Done: session manager, store, bundles and what is in them, launch, recipients, sync,
dashboard with prompt, relay, DevTools client, browser cache, launch options with
the confirmation page, and the stateless parts (`Inputs`); proofs of every safety
property of every module and of the three refinements.

Left, models: `SessionManager` composed with `Dashboard` (opens that wait for the
modal while the loop closes sessions or quits); `AttachToPage` with several targets;
the geolocation lookup's answers.
