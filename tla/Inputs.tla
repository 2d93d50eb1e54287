------------------------------- MODULE Inputs -------------------------------
(***************************************************************************)
(* The parts of the program without state of their own, in one             *)
(* specification: a behaviour puts one question to one of them, and the    *)
(* invariants judge the answer.  MCInputs says which questions are put     *)
(* when TLC checks them; InputsProofs proves some for all questions.       *)
(***************************************************************************)
EXTENDS BundleTree, ProxySpec, BrowserResolve, ConfigLayers, ProfileFlags, TerminalPrompt,
        RecipientArgs

CONSTANTS Trees,    \* BundleTree: what a user-data directory may hold
          Links,    \* ProxySpec: what a user writes,
          Raws,     \*   or pastes
          Versions, \* BrowserResolve: of a cache,
          Caches,   \*   whole ones,
          Manifests, \*  and of the builds to be had
          Files, Envs, FlagSets, \* ConfigLayers: the layers
          Commands, \* ProfileFlags: the flags of an add or an edit,
          Stored,   \*   and the profiles these are for
          Typed,    \* TerminalPrompt: what a person types
          Words,    \* RecipientArgs: of a line,
          Lists, Arguments \*   recipients.txt, and what is to be added

ASSUME TreesAssumption == \A tree \in Trees : tree \subseteq Entries

ASSUME StoredAssumption ==
  \A p \in Stored : p = [s \in Settings |-> p[s]] /\ p["proxy"] = ""

\* Nobody's password is the name of their proxy or its scheme, from which it could not
\* be told on a screen.
ASSUME LinksAssumption == \A u \in Links : Secrets(u) \cap {u.host, u.scheme} = {}

ASSUME VersionsAssumption == Versions \subseteq Seq(Nat)

ASSUME TypedAssumption == Typed \subseteq Seq(Answers)

\* A line and a key are words, whatever these may be, and what ends a file with no newline
\* is there.
ASSUME ArgumentsAssumption ==
  /\ Lists \subseteq [lines : Seq(Seq(Words)), tail : Tails]
  /\ \A file \in Lists : file.tail = "key" => file.lines # <<>>
  /\ Arguments \subseteq Seq([ok : BOOLEAN, keys : Seq(Seq(Words))])

VARIABLE question

Init == question = [of |-> "nothing"]

AskTree == \E tree \in Trees : question' = [of |-> "tree", tree |-> tree]
AskLink == \E u \in Links : question' = [of |-> "link", link |-> u]
AskRaw == \E fields \in Raws : question' = [of |-> "raw", fields |-> fields]
AskVersions ==
  \E a, b, c \in Versions : question' = [of |-> "versions", a |-> a, b |-> b, c |-> c]
AskBrowser ==
  \E cache \in Caches, v \in Versions, pinned \in Versions \cup {Unset} :
  \E configured \in {Unset, "configured"}, found \in {Unset, "found"} :
    question' = [of |-> "browser", configured |-> configured, pinned |-> pinned,
                 found |-> found, cache |-> cache, v |-> v]
AskInstall ==
  \E channel \in {"", "stable", "beta", "nightly"}, version \in Versions \cup {Unset} :
  \E manifest \in Manifests \cup {Unset}, platform \in {"linux64", Unset} :
  \E served \in {Versions, {}}, cache \in Caches :
    question' = [of |-> "install", spec |-> [channel |-> channel, version |-> version],
                 manifest |-> manifest, platform |-> platform, served |-> served, cache |-> cache]
AskConfig ==
  \E file \in Files, env \in Envs, flags \in FlagSets, legacy \in BOOLEAN :
    question' = [of |-> "config", file |-> file, env |-> env, flags |-> flags, legacy |-> legacy]
AskEdit ==
  \E stored \in Stored, secret \in {"", "old"}, cmd \in Commands, configured \in BOOLEAN :
    question' = [of |-> "edit", stored |-> stored, secret |-> secret, cmd |-> cmd,
                 configured |-> configured]
AskAdd ==
  \E cmd \in Commands, edit \in Commands, configured \in BOOLEAN :
    question' = [of |-> "add", cmd |-> cmd, edit |-> edit, configured |-> configured]
AskPrompt ==
  \E source \in {"terminal", "askpass", "nowhere"}, intact \in BOOLEAN, answers \in Typed :
    question' = [of |-> "prompt", source |-> source, intact |-> intact, answers |-> answers]
AskRecipients ==
  \E file \in Lists, args \in Arguments, own \in {a \in Arguments : Len(a) <= 1} :
  \E right \in (UNION {Named(a) : a \in Arguments}) \ Refusable :
    question' = [of |-> "recipients", file |-> file, args |-> args, own |-> own,
                 right |-> right]

Next ==
  /\ question.of = "nothing"
  /\ \/ AskTree \/ AskLink \/ AskRaw \/ AskVersions \/ AskBrowser \/ AskInstall \/ AskConfig
     \/ AskEdit \/ AskAdd \/ AskPrompt \/ AskRecipients

Spec == Init /\ [][Next]_question

-----------------------------------------------------------------------------
(* Properties. *)

\* A save and a restore of any of the trees give the identity back or an error
\* (tarDir and extractTar in crypto.go).
BundlesRoundTrip == question.of = "tree" => RoundTrips(question.tree)

\* Every link becomes an outbound that does what it asks, or an error, and is shown
\* without its credentials (ParseSpec and Describe in spec.go).
ProxiesAreHonoured ==
  /\ question.of = "link" => ReachesUpstream(question.link) /\ ShownWithoutSecrets(question.link)
  /\ question.of = "raw" => RawWithoutSecrets(question.fields)

\* Versions are ordered, a pinned one is never replaced, installing one never takes a
\* launch back, and what was installed can be pinned (lessVersion in metadata.go,
\* chrome/resolve.go, browser/resolve.go).
BrowsersAreChosen ==
  /\ question.of = "versions" => OrdersVersions(question.a, question.b, question.c)
  /\ question.of = "browser" =>
       PinsAndUpgrades(question.configured, question.pinned, question.found,
                       question.cache, question.v)
  /\ question.of = "install" =>
       InstalledCanBePinned(question.spec, question.manifest, question.platform,
                            question.served, question.cache)

\* The highest layer wins and decides on the store (Load and Resolve in config.go,
\* loadConfig in root.go).
LayersAreHeeded ==
  question.of = "config" =>
    /\ HighestLayerWins(question.file, question.env, question.flags, question.legacy)
    /\ StoreAskedFor(question.file, question.env, question.flags, question.legacy)

\* An edit changes what it names or nothing (editAction in profile.go), and what add
\* stores can be edited.
EditsAreExact ==
  /\ question.of = "edit" =>
       EditsWhatIsNamed(question.stored, question.secret, question.cmd, question.configured)
  /\ question.of = "add" => AddedCanBeEdited(question.cmd, question.edit, question.configured)

\* A passphrase that is typed in time is used and kept for the next decrypt, and listing
\* recipients only ever adds to them, but for a last line without a newline (askChecked in
\* prompt.go, addRecipients in store.go, AddRecipient in crypto.go).
KeysAreHandled ==
  /\ question.of = "prompt" => TypedOnce(question.source, question.intact, question.answers)
  /\ question.of = "recipients" =>
       /\ ListGrows(question.file, question.args, question.right)
       /\ OwnKeyFirst(question.own, question.args)
=============================================================================
