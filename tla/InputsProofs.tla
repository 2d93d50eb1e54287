---------------------------- MODULE InputsProofs ----------------------------
(* What the stateless parts promise of every input, whatever sets are given *)
(* to Inputs for its constants. *)
EXTENDS Inputs, SequenceTheorems, WellFoundedInduction, TLAPS

\* Every setting has the value of the highest layer that names it (config.go:168).
LEMMA LayerOrder ==
  ASSUME NEW file, NEW env, NEW flags, NEW legacy
  PROVE  HighestLayerWins(file, env, flags, legacy)
<1> DEFINE layer == Layers(file, env, flags)
           first(s, n) == /\ s \in DOMAIN layer[n]
                          /\ \A k \in 1..(n - 1) : s \notin DOMAIN layer[k]
                          /\ loadConfig(file, env, flags, legacy).config[s] = layer[n][s]
<1> SUFFICES ASSUME NEW s \in Keys
             PROVE  \E n \in 1..4 : first(s, n)
  BY DEF HighestLayerWins
<1>1. DOMAIN Default = Keys
  BY DEF Default
<1>2. /\ layer[1] = ByFlags(env, flags) /\ layer[2] = env
      /\ layer[3] = file /\ layer[4] = Default
  BY DEF Layers
<1>3. loadConfig(file, env, flags, legacy).config[s]
        = IF s \in DOMAIN layer[1] THEN layer[1][s]
          ELSE IF s \in DOMAIN env THEN env[s]
          ELSE IF s \in DOMAIN file THEN file[s] ELSE Default[s]
  BY <1>2 DEF loadConfig, Load, Over
<1>a. CASE s \in DOMAIN layer[1]
  <2>1. first(s, 1)
    BY <1>a, <1>3
  <2> QED BY <2>1
<1>b. CASE s \notin DOMAIN layer[1] /\ s \in DOMAIN layer[2]
  <2>1. first(s, 2)
    BY <1>b, <1>2, <1>3
  <2> QED BY <2>1
<1>c. CASE s \notin DOMAIN layer[1] /\ s \notin DOMAIN layer[2] /\ s \in DOMAIN layer[3]
  <2>1. first(s, 3)
    BY <1>c, <1>2, <1>3
  <2> QED BY <2>1
<1>d. CASE /\ s \notin DOMAIN layer[1] /\ s \notin DOMAIN layer[2] /\ s \notin DOMAIN layer[3]
  <2>1. \A k \in 1..3 : s \notin DOMAIN layer[k]
    BY <1>d
  <2>2. loadConfig(file, env, flags, legacy).config[s] = Default[s]
    BY <1>d, <1>2, <1>3
  <2>3. first(s, 4)
    BY <2>1, <2>2, <1>1, <1>2
  <2> QED BY <2>3
<1> QED BY <1>a, <1>b, <1>c, <1>d

\* The store is the one that was asked for, and nothing else moves it (config.go:113).
LEMMA StoreChoice ==
  ASSUME NEW file, NEW env, NEW flags, NEW legacy \in BOOLEAN
  PROVE  StoreAskedFor(file, env, flags, legacy)
<1> DEFINE asked == loadConfig(file, env, flags, legacy).config
           OnlyStores(layer) == [s \in DOMAIN layer \cap {"store", "store_dir"} |-> layer[s]]
           less == loadConfig(OnlyStores(file), OnlyStores(env), OnlyStores(flags), legacy).config
<1>1. /\ loadConfig(file, env, flags, legacy).store = Resolve(asked, legacy)
      /\ loadConfig(OnlyStores(file), OnlyStores(env), OnlyStores(flags), legacy).store = Resolve(less, legacy)
  BY DEF loadConfig
<1>2. ASSUME NEW s \in {"store", "store_dir"}
      PROVE  less[s] = asked[s]
  <2>1. s \in Keys /\ FlagOf(s) = s
    BY DEF Keys, FlagOf
  <2>2. ASSUME NEW layer
        PROVE  /\ s \in DOMAIN OnlyStores(layer) <=> s \in DOMAIN layer
               /\ s \in DOMAIN layer => OnlyStores(layer)[s] = layer[s]
    OBVIOUS
  <2>3. \A e, f : /\ s \in FlagsSet(e, f) <=> s \in DOMAIN f \cup DOMAIN e
                  /\ s \in FlagsSet(e, f) =>
                       ByFlags(e, f)[s] = IF s \in DOMAIN f THEN f[s] ELSE e[s]
    BY <2>1 DEF FlagsSet, ByFlags
  <2>4. \A a, e, f, l : loadConfig(a, e, f, l).config[s] =
          IF s \in FlagsSet(e, f) THEN ByFlags(e, f)[s]
          ELSE IF s \in DOMAIN e THEN e[s] ELSE IF s \in DOMAIN a THEN a[s] ELSE Default[s]
    BY <2>1 DEF loadConfig, Over, ByFlags, Load
  <2> QED BY <2>2, <2>3, <2>4
<1> HIDE DEF less
<1>3. Resolve(asked, legacy) = Resolve(less, legacy)
  BY <1>2 DEF Resolve
<1>4. Resolve(asked, legacy) = loadConfig(OnlyStores(file), OnlyStores(env), OnlyStores(flags), legacy).store
  BY <1>1, <1>3
<1> HIDE DEF asked, OnlyStores
<1>5. LET store == Resolve(asked, legacy) IN
      /\ store.ok =>
           /\ store.dir.kind = "root" <=> legacy /\ asked["store"] = "" /\ asked["store_dir"] = ""
           /\ store.dir.kind = "named" => asked["store_dir"] = "" /\ store.dir.name \in ValidNames
      /\ ~store.ok => asked["store"] \notin ValidNames
  BY DefaultStoreAssumption DEF Resolve, StorePath
<1> QED BY <1>1, <1>4, <1>5 DEF StoreAskedFor, asked, OnlyStores

-----------------------------------------------------------------------------
\* A stored profile that is edited is changed where the flags name it, or not at all
\* (profile.go:109, 281).
LEMMA EditNamed ==
  ASSUME NEW stored, stored = [s \in Settings |-> stored[s]], stored["proxy"] = "",
         NEW secret, NEW cmd, NEW configured \in BOOLEAN
  PROVE  EditsWhatIsNamed(stored, secret, cmd, configured)
<1> DEFINE p == applyFlags(stored, cmd)
           left == editAction(stored, secret, cmd, configured)
           bad == \/ "proxy" \in DOMAIN cmd /\ NoProxy(cmd)
                  \/ ~applyEdit(stored, cmd).ok
                  \/ p["proxy"] # "" /\ ~configured
           needsKey == "proxy" \in DOMAIN cmd /\ cmd["proxy"] # ""
<1>1. \A s \in Settings : p[s] = IF s \in DOMAIN cmd THEN cmd[s] ELSE stored[s]
  BY DEF applyFlags
<1>2. "proxy" \in Settings /\ Checked \subseteq Settings
  BY DEF Settings, Checked
<1>3. p["proxy"] # "" <=> needsKey
  BY <1>1, <1>2
<1>4. applyEdit(stored, cmd).ok
        <=> /\ \A s \in {"screen", "geo", "proxy"} : s \in DOMAIN cmd => cmd[s] # "bad"
            /\ \A s \in Checked : (IF s \in DOMAIN cmd THEN cmd[s] ELSE stored[s]) # "bad"
  BY <1>1, <1>2 DEF applyEdit, parseScreen, parseGeo, ParseSpec, Validate
<1>5. left = IF bad THEN Left(FALSE, stored, secret)
             ELSE Left(TRUE, p, applyProxyChange(cmd, p, secret))
  BY DEF editAction, applyEdit
<1>0. ASSUME NEW ok, NEW q, NEW x
      PROVE  /\ Left(ok, q, x).ok = ok /\ Left(ok, q, x).secret = x
             /\ Left(ok, q, x).profile = [q EXCEPT !["proxy"] = ""]
  BY DEF Left
<1>6. left.ok <=> ~bad
  <2> HIDE DEF bad, left, p
  <2>1. CASE bad
    BY <2>1, <1>5, <1>0
  <2>2. CASE ~bad
    BY <2>2, <1>5, <1>0
  <2> QED BY <2>1, <2>2
<1>7. ~bad <=> /\ WellFormed(cmd)
               /\ \A s \in Checked \ DOMAIN cmd : stored[s] # "bad"
               /\ needsKey => configured
  <2>1. (\A s \in Checked : (IF s \in DOMAIN cmd THEN cmd[s] ELSE stored[s]) # "bad")
          <=> /\ \A s \in Checked : s \in DOMAIN cmd => cmd[s] # "bad"
              /\ \A s \in Checked \ DOMAIN cmd : stored[s] # "bad"
    OBVIOUS
  <2>2. WellFormed(cmd)
          <=> /\ \A s \in {"screen", "geo", "proxy"} : s \in DOMAIN cmd => cmd[s] # "bad"
              /\ \A s \in Checked : s \in DOMAIN cmd => cmd[s] # "bad"
              /\ ~("proxy" \in DOMAIN cmd /\ NoProxy(cmd))
    BY Zenon DEF WellFormed
  <2> HIDE DEF p
  <2> QED BY <2>1, <2>2, <1>3, <1>4
<1>8. ASSUME ~bad
      PROVE  /\ \A s \in Settings \ {"proxy"} :
                  left.profile[s] = IF s \in DOMAIN cmd THEN cmd[s] ELSE stored[s]
             /\ left.secret = IF NoProxy(cmd) THEN ""
                              ELSE IF "proxy" \in DOMAIN cmd THEN cmd["proxy"] ELSE secret
  <2>1. left.profile = [p EXCEPT !["proxy"] = ""] /\ left.secret = applyProxyChange(cmd, p, secret)
    <3>1. left = Left(TRUE, p, applyProxyChange(cmd, p, secret))
      BY <1>5, <1>8
    <3> HIDE DEF left, p
    <3> QED BY Zenon, <3>1 DEF Left
  <2> HIDE DEF left
  <2>2. \A s \in Settings \ {"proxy"} : left.profile[s] = p[s]
    BY <2>1 DEF applyFlags
  <2>3. applyProxyChange(cmd, p, secret) = IF NoProxy(cmd) THEN ""
                                          ELSE IF "proxy" \in DOMAIN cmd THEN cmd["proxy"] ELSE secret
    BY <1>1, <1>2 DEF applyProxyChange
  <2> HIDE DEF p
  <2>4. \A s \in Settings \ {"proxy"} :
          left.profile[s] = IF s \in DOMAIN cmd THEN cmd[s] ELSE stored[s]
    BY <2>2, <1>1
  <2> QED BY Zenon, <2>1, <2>3, <2>4
<1>9. ASSUME bad
      PROVE  left.profile = stored /\ left.secret = secret
  <2>1. [stored EXCEPT !["proxy"] = ""] = stored
    BY <1>2
  <2>2. left = Left(FALSE, stored, secret)
    BY <1>5, <1>9
  <2> HIDE DEF left, bad
  <2>3. /\ Left(FALSE, stored, secret).profile = [stored EXCEPT !["proxy"] = ""]
        /\ Left(FALSE, stored, secret).secret = secret
    BY Zenon DEF Left
  <2> QED BY Zenon, <2>1, <2>2, <2>3
<1> HIDE DEF bad, left
<1> QED BY <1>6, <1>7, <1>8, <1>9 DEF EditsWhatIsNamed, left

\* What add stores an edit can change, whatever either is asked.
LEMMA AddThenEdit ==
  ASSUME NEW cmd, NEW edit, NEW configured \in BOOLEAN
  PROVE  AddedCanBeEdited(cmd, edit, configured)
<1> DEFINE p == applyFlags(Empty, cmd)
           added == addCommand("", cmd, configured, FALSE)
<1> SUFFICES ASSUME added.ok, WellFormed(edit), configured
             PROVE  editAction(added.profile, added.secret, edit, configured).ok
  BY DEF AddedCanBeEdited
<1>1. Validate(p) /\ added.profile = [p EXCEPT !["proxy"] = ""]
  BY DEF addCommand, Left
<1>2. added.profile = [s \in Settings |-> added.profile[s]]
  BY <1>1 DEF applyFlags
<1>3. added.profile["proxy"] = "" /\ \A s \in Checked : added.profile[s] # "bad"
  BY <1>1 DEF applyFlags, Validate, Settings, Checked
<1>4. EditsWhatIsNamed(added.profile, added.secret, edit, configured)
  BY <1>2, <1>3, EditNamed
<1> QED BY <1>3, <1>4 DEF EditsWhatIsNamed

-----------------------------------------------------------------------------
\* A set of numbers that has one has a least one.
LEMMA LeastNatural ==
  ASSUME NEW T \in SUBSET Nat, T # {}
  PROVE  \E x \in T : \A y \in T : x <= y
<1> DEFINE R == {ss \in Nat \X Nat : ss[1] < ss[2]}
<1>1. \E x \in T : \A y \in T : ~(<<y, x>> \in R)
  <2>1. IsWellFoundedOn(R, Nat)
    BY Zenon, NatLessThanWellFounded DEF OpToRel
  <2> HIDE DEF R
  <2> QED BY <2>1, WFMin
<1>2. \A x, y \in Nat : y < x => <<y, x>> \in R
  OBVIOUS
<1> HIDE DEF R
<1>3. PICK x \in T : \A y \in T : ~(<<y, x>> \in R)
  BY <1>1
<1>4. \A y \in T : x <= y
  <2> SUFFICES ASSUME NEW y \in T PROVE x <= y
    OBVIOUS
  <2>1. x \in Nat /\ y \in Nat /\ ~(y < x)
    BY <1>2, <1>3
  <2> QED BY <2>1
<1> QED BY <1>4

\* What is missing from a version counts as 0 (resolve.go, compareVersions).
LEMMA VersionParts ==
  \A v \in Seq(Nat), i \in Nat \ {0} : /\ versionPart(v, i) \in Nat
                                       /\ i > Len(v) => versionPart(v, i) = 0
  BY DEF versionPart

\* lessVersion is a strict order of which the versions it cannot tell apart are
\* those with the same numbers (metadata.go:43-71).
LEMMA VersionOrder ==
  ASSUME NEW a \in Seq(Nat), NEW b \in Seq(Nat), NEW c \in Seq(Nat)
  PROVE  OrdersVersions(a, b, c)
<1> DEFINE Before(v, w, i) == /\ versionPart(v, i) < versionPart(w, i)
                              /\ \A j \in 1..(i - 1) : versionPart(v, j) = versionPart(w, j)
           P == Nat \ {0}
<1>1. \A v, w \in Seq(Nat) : lessVersion(v, w) <=> \E i \in P : Before(v, w, i)
  <2> SUFFICES ASSUME NEW v \in Seq(Nat), NEW w \in Seq(Nat)
               PROVE  lessVersion(v, w) <=> \E i \in P : Before(v, w, i)
    OBVIOUS
  <2> DEFINE n == IF Len(v) > Len(w) THEN Len(v) ELSE Len(w)
  <2>1. n \in Nat /\ n >= Len(v) /\ n >= Len(w)
    OBVIOUS
  <2> HIDE DEF n
  <2>2. \A i \in P : Before(v, w, i) => i \in 1..n
    <3> SUFFICES ASSUME NEW i \in P, i > n
                 PROVE  ~Before(v, w, i)
      BY <2>1
    <3>1. i > Len(v) /\ i > Len(w)
      BY <2>1
    <3>2. versionPart(v, i) = 0 /\ versionPart(w, i) = 0
      BY <3>1, VersionParts
    <3> QED BY <3>2
  <2>3. lessVersion(v, w) <=> \E i \in 1..n : Before(v, w, i)
    BY DEF lessVersion, n
  <2>4. \A i \in 1..n : i \in P
    BY <2>1
  <2> HIDE DEF Before, P
  <2> QED BY <2>2, <2>3, <2>4
<1>2. ~lessVersion(a, a)
  <2>1. \A i \in P : versionPart(a, i) \in Nat
    BY VersionParts
  <2>2. \A i \in P : ~Before(a, a, i)
    BY <2>1
  <2> HIDE DEF Before
  <2> QED BY <2>2, <1>1
<1>3. ASSUME lessVersion(a, b), lessVersion(b, c)
      PROVE  lessVersion(a, c)
  <2>1. PICK i \in P : Before(a, b, i)
    BY <1>3, <1>1
  <2>2. PICK k \in P : Before(b, c, k)
    BY <1>3, <1>1
  <2>3. CASE i <= k
    <3>1. versionPart(a, i) < versionPart(c, i)
      <4>1. /\ versionPart(a, i) \in Nat /\ versionPart(b, i) \in Nat
            /\ versionPart(c, i) \in Nat
        BY VersionParts
      <4>2. i = k \/ i \in 1..(k - 1)
        BY <2>3
      <4> QED BY <4>1, <4>2, <2>1, <2>2
    <3>2. \A j \in 1..(i - 1) : j \in 1..(k - 1)
      BY <2>3
    <3>3. Before(a, c, i)
      BY <3>1, <3>2, <2>1, <2>2
    <3> HIDE DEF Before
    <3> QED BY <3>3, <1>1
  <2>4. CASE k < i
    <3>1. k \in 1..(i - 1) /\ \A j \in 1..(k - 1) : j \in 1..(i - 1)
      BY <2>4
    <3>2. Before(a, c, k)
      BY <3>1, <2>1, <2>2
    <3> HIDE DEF Before
    <3> QED BY <3>2, <1>1
  <2> QED BY <2>3, <2>4
<1>4. ASSUME ~lessVersion(a, b), ~lessVersion(b, a)
      PROVE  lessVersion(a, c) <=> lessVersion(b, c)
  <2> DEFINE T == {i \in P : versionPart(a, i) # versionPart(b, i)}
  <2>1. T = {}
    <3> SUFFICES ASSUME T # {} PROVE FALSE
      OBVIOUS
    <3>1. PICK i \in T : \A y \in T : i <= y
      <4>1. T \in SUBSET Nat
        OBVIOUS
      <4> HIDE DEF T
      <4> QED BY <4>1, LeastNatural
    <3>2. i \in P /\ \A j \in 1..(i - 1) : versionPart(a, j) = versionPart(b, j)
      BY <3>1
    <3>3. versionPart(a, i) \in Nat /\ versionPart(b, i) \in Nat
      BY <3>2, VersionParts
    <3>5. versionPart(a, i) # versionPart(b, i)
      BY <3>1
    <3>4. Before(a, b, i) \/ Before(b, a, i)
      BY <3>2, <3>3, <3>5
    <3> HIDE DEF Before
    <3> QED BY <3>2, <3>4, <1>1, <1>4
  <2>2. \A i \in P : versionPart(a, i) = versionPart(b, i)
    BY <2>1
  <2>3. \A i \in P : Before(a, c, i) <=> Before(b, c, i)
    BY <2>2, VersionParts
  <2> HIDE DEF Before
  <2> QED BY <2>3, <1>1
<1> QED BY <1>2, <1>3, <1>4 DEF OrdersVersions

\* A pin holds, and a new build never takes a launch back (chrome/resolve.go:26-29).
LEMMA BrowserChoice ==
  ASSUME NEW configured, NEW pinned, NEW found, NEW cache, NEW v
  PROVE  PinsAndUpgrades(configured, pinned, found, cache, v)
<1> DEFINE after == With(cache, v)
           answers == chromeResolve(configured, pinned, found, cache)
           later == chromeResolve(configured, pinned, found, after)
<1>1. \A w : w # v => (ExecPath(after, w) <=> ExecPath(cache, w))
  BY DEF ExecPath, With
<1>2. Listed(cache) \subseteq Listed(after)
  BY DEF Listed, With
<1> HIDE DEF after
<1>3. configured = Unset /\ pinned # Unset => answers \subseteq {pinned}
  BY DEF chromeResolve
<1>4. configured # Unset \/ pinned \notin {Unset, v} \/ (pinned = Unset /\ found # Unset)
        => later = answers
  BY <1>1 DEF chromeResolve
<1>5. ASSUME configured = Unset, pinned = Unset, found = Unset,
             NEW old \in answers, NEW new \in later
      PROVE  ~lessVersion(new, old)
  <2>1. old \in Listed(cache) /\ new \in Newest(after)
    BY <1>5 DEF chromeResolve, Newest
  <2> QED BY <2>1, <1>2 DEF Newest
<1> QED BY <1>3, <1>4, <1>5 DEF PinsAndUpgrades, after

\* What browser install says it installed can be pinned (install.go:33).
LEMMA InstallChoice ==
  ASSUME NEW spec, NEW manifest, NEW platform, NEW served, NEW cache
  PROVE  InstalledCanBePinned(spec, manifest, platform, served, cache)
<1> DEFINE done == installCommand(spec, manifest, platform, served, cache)
           v == browserResolve(spec, manifest, platform)
<1>1. CASE v = Unset
  <2>1. done = [ok |-> FALSE, cache |-> cache]
    BY <1>1 DEF installCommand
  <2> QED BY <2>1 DEF InstalledCanBePinned
<1>2. CASE v # Unset
  <2>1. done = Install(v, served, cache)
    BY <1>2 DEF installCommand
  <2>2. ASSUME done.ok PROVE ExecPath(done.cache, v)
    BY <2>1, <2>2 DEF Install, ExecPath, With
  <2>3. ASSUME done.ok, NEW found
        PROVE  chromeResolve(Unset, v, found, done.cache) = {v}
    BY <1>2, <2>2, <2>3 DEF chromeResolve
  <2>4. ASSUME done.ok, spec.version # Unset
        PROVE  /\ v = spec.version
               /\ installCommand(spec, Unset, platform, {}, done.cache) = done
    <3>1. v = spec.version /\ browserResolve(spec, Unset, platform) = v
      BY <1>2, <2>4 DEF browserResolve
    <3>2. Install(v, {}, done.cache) = [ok |-> TRUE, cache |-> done.cache]
      BY <2>2, <2>4 DEF Install
    <3>3. PICK after, ok : done = [ok |-> ok, cache |-> after]
      <4>1. \/ done = [ok |-> TRUE, cache |-> cache]
            \/ done = [ok |-> FALSE, cache |-> cache]
            \/ done = [ok |-> TRUE, cache |-> With(cache, v)]
        BY <2>1 DEF Install
      <4> HIDE DEF done
      <4> QED BY <4>1
    <3>4. done = [ok |-> TRUE, cache |-> done.cache]
      <4>1. done.ok = TRUE
        BY <2>1, <2>4 DEF Install
      <4> HIDE DEF done
      <4> QED BY <3>3, <4>1
    <3> QED BY <3>1, <3>2, <3>4, <1>2 DEF installCommand
  <2>5. ~done.ok => done.cache = cache
    BY <2>1 DEF Install
  <2>6. \A w \in DOMAIN cache :
            w # v => w \in DOMAIN done.cache /\ done.cache[w] = cache[w]
    BY <2>1 DEF Install, With
  <2> QED BY <2>3, <2>4, <2>5, <2>6 DEF InstalledCanBePinned
<1> QED BY <1>1, <1>2

-----------------------------------------------------------------------------
(* Proxy specifications. *)

\* What stands on the left of ++ stays, what stands on the right is added.
LEMMA Overlay ==
  ASSUME NEW f, NEW g
  PROVE  /\ DOMAIN (f ++ g) = DOMAIN f \cup DOMAIN g
         /\ \A x \in DOMAIN f : (f ++ g)[x] = f[x]
         /\ \A x \in DOMAIN g : x \notin DOMAIN f => (f ++ g)[x] = g[x]
BY DEF ++

\* One field is itself and no other.
LEMMA OneField ==
  ASSUME NEW name, NEW value
  PROVE  DOMAIN Field(name, value) = {name} /\ Field(name, value)[name] = value
BY DEF Field

\* Fields that are left out are none.
LEMMA LeftOut ==
  ASSUME NEW condition \in BOOLEAN, NEW fields
  PROVE  /\ condition => Fields(condition, fields) = fields
         /\ ~condition => DOMAIN Fields(condition, fields) = {}
<1>1. DOMAIN << >> = {}
  OBVIOUS
<1> QED BY <1>1 DEF Fields

\* Every outbound begins with the link's server.
LEMMA BaseFacts ==
  ASSUME NEW kind, NEW u
  PROVE  /\ DOMAIN base(kind, u) = {"type", "server", "server_port"}
         /\ base(kind, u)["server"] = u.host
         /\ base(kind, u)["server_port"] = u.port
<1> DEFINE one == Field("type", kind)
           two == Field("server", u.host)
           three == Field("server_port", u.port)
<1>1. /\ DOMAIN one = {"type"} /\ DOMAIN two = {"server"} /\ DOMAIN three = {"server_port"}
      /\ two["server"] = u.host /\ three["server_port"] = u.port
  BY OneField
<1>2. base(kind, u) = (one ++ two) ++ three
  BY DEF base
<1> HIDE DEF one, two, three
<1>3. /\ DOMAIN (one ++ two) = DOMAIN one \cup DOMAIN two
      /\ \A x \in DOMAIN two : x \notin DOMAIN one => (one ++ two)[x] = two[x]
  BY Overlay
<1>4. DOMAIN (one ++ two) = {"type", "server"} /\ (one ++ two)["server"] = u.host
  BY <1>1, <1>3
<1> QED BY <1>1, <1>2, <1>4, Overlay

\* The account of a socks or http link, if it has one.
LEMMA AccountFacts ==
  ASSUME NEW u
  PROVE  /\ DOMAIN UserPass(u) \subseteq {"username", "password"}
         /\ u.user # None => /\ DOMAIN UserPass(u) = {"username", "password"}
                             /\ UserPass(u)["username"] = u.user.text
                             /\ UserPass(u)["password"] = Password(u)
<1> DEFINE name == Field("username", u.user.text)  word == Field("password", Password(u))
<1>1. /\ DOMAIN name = {"username"} /\ DOMAIN word = {"password"}
      /\ name["username"] = u.user.text /\ word["password"] = Password(u)
  BY OneField
<1>2. UserPass(u) = Fields(u.user # None, name ++ word)
  BY DEF UserPass
<1> HIDE DEF name, word
<1>3. /\ DOMAIN (name ++ word) = DOMAIN name \cup DOMAIN word
      /\ \A x \in DOMAIN name : (name ++ word)[x] = name[x]
      /\ \A x \in DOMAIN word : x \notin DOMAIN name => (name ++ word)[x] = word[x]
  BY Overlay
<1>4. /\ DOMAIN (name ++ word) = {"username", "password"}
      /\ (name ++ word)["username"] = u.user.text
      /\ (name ++ word)["password"] = Password(u)
  BY <1>1, <1>3
<1> QED BY <1>2, <1>4, LeftOut

\* A transport is one field.
LEMMA TransportField == ASSUME NEW u PROVE DOMAIN transportOptions(u) \subseteq {"transport"}
<1>1. \A v : DOMAIN Field("transport", v) = {"transport"}
  BY OneField
<1>2. DOMAIN << >> = {}
  OBVIOUS
<1> QED BY <1>1, <1>2 DEF transportOptions, Fields

\* TLS options carry the fingerprint of the link, if it names one (spec.go:287-290).
LEMMA FingerprintKept ==
  ASSUME NEW u
  PROVE  "utls" \in DOMAIN tlsOptions(u) <=> Get(u.q, "fp") # ""
<1> DEFINE Opt(name, condition, value) == Fields(condition, Field(name, value))
           a == Field("server_name", ServerName(u))
           b == Opt("alpn", Get(u.q, "alpn") # "", Get(u.q, "alpn"))
           c == Opt("insecure", Get(u.q, "allowInsecure") = "1" \/ Get(u.q, "insecure") = "true",
                    "true")
           d == Opt("utls", Get(u.q, "fp") # "", Get(u.q, "fp"))
           e == Opt("reality", Get(u.q, "pbk") # "", <<Get(u.q, "pbk"), Get(u.q, "sid")>>)
<1>1. tlsOptions(u) = (((a ++ b) ++ c) ++ d) ++ e
  BY DEF tlsOptions
<1>2. \A name, value : \A condition \in BOOLEAN :
        DOMAIN Opt(name, condition, value) = IF condition THEN {name} ELSE {}
  BY OneField, LeftOut
<1> HIDE DEF Opt
<1>3. /\ DOMAIN a = {"server_name"}
      /\ DOMAIN b \subseteq {"alpn"} /\ DOMAIN c \subseteq {"insecure"}
      /\ DOMAIN d = IF Get(u.q, "fp") # "" THEN {"utls"} ELSE {}
      /\ DOMAIN e \subseteq {"reality"}
  BY <1>2, OneField
<1> HIDE DEF a, b, c, d, e
<1>4. DOMAIN tlsOptions(u) = DOMAIN a \cup DOMAIN b \cup DOMAIN c \cup DOMAIN d \cup DOMAIN e
  <2> DEFINE ab == a ++ b  abc == ab ++ c  abcd == abc ++ d
  <2>1. DOMAIN ab = DOMAIN a \cup DOMAIN b
    BY Overlay
  <2> HIDE DEF ab
  <2>2. DOMAIN abc = DOMAIN ab \cup DOMAIN c
    BY Overlay
  <2> HIDE DEF abc
  <2>3. DOMAIN abcd = DOMAIN abc \cup DOMAIN d
    BY Overlay
  <2> HIDE DEF abcd
  <2>4. DOMAIN (abcd ++ e) = DOMAIN abcd \cup DOMAIN e
    BY Overlay
  <2>5. tlsOptions(u) = abcd ++ e
    BY <1>1 DEF abcd, abc, ab
  <2> QED BY <2>1, <2>2, <2>3, <2>4, <2>5
<1> QED BY <1>3, <1>4

\* An outbound that goes to the server of the link.
Served(u, out) ==
  /\ {"server", "server_port"} \subseteq DOMAIN out
  /\ out["server"] = u.host /\ out["server_port"] = u.port

\* What is added to an outbound does not send it elsewhere.
LEMMA ServedStays ==
  ASSUME NEW u, NEW out, NEW more, Served(u, out)
  PROVE  Served(u, out ++ more)
<1>1. /\ DOMAIN (out ++ more) = DOMAIN out \cup DOMAIN more
      /\ \A f \in DOMAIN out : (out ++ more)[f] = out[f]
  BY Overlay
<1> QED BY <1>1 DEF Served

\* An outbound begins by going to the link's server.
LEMMA BaseServed ==
  ASSUME NEW kind, NEW u
  PROVE  DOMAIN base(kind, u) = {"type", "server", "server_port"} /\ Served(u, base(kind, u))
BY BaseFacts DEF Served

\* What ReachesUpstream asks of an outbound.
Reaches(u, out) ==
  /\ Served(u, out)
  /\ Asked(u) \subseteq Values(out)
  /\ u.scheme \in {"https", "trojan"} => "tls" \in DOMAIN out
  /\ "tls" \in DOMAIN out /\ u.scheme # "https" =>
       (Get(u.q, "fp") # "" <=> "utls" \in DOMAIN out["tls"])

\* The account of a link is in an outbound that has it in its fields.
LEMMA AccountAsked ==
  ASSUME NEW u, NEW out, u.scheme \notin {"trojan", "vless", "ss"},
         u.user # None => /\ {"username", "password"} \subseteq DOMAIN out
                          /\ out["username"] = u.user.text
                          /\ out["password"] = Password(u)
  PROVE  Asked(u) \subseteq Values(out)
<1>1. CASE u.user = None
  <2>1. Asked(u) = {}
    BY <1>1 DEF Asked
  <2> QED BY <2>1
<1>2. CASE u.user # None
  <2>1. Asked(u) = {u.user.text, u.pass} \ {None}
    BY <1>2 DEF Asked
  <2>2. out["username"] \in Values(out) /\ out["password"] \in Values(out)
    BY <1>2 DEF Values
  <2> QED BY <1>2, <2>1, <2>2 DEF Password
<1> QED BY <1>1, <1>2

\* socks5, and socks4 without an account (spec.go, socksOutbound).
LEMMA SocksReaches ==
  ASSUME NEW u, NEW version, socksOutbound(u, version).ok,
         u.scheme \in {"socks5", "socks5h", "socks", "socks4", "socks4a"}
  PROVE  Reaches(u, socksOutbound(u, version).out)
<1> DEFINE start == base("socks", u)  v == Field("version", version)  account == UserPass(u)
           out == (start ++ v) ++ account
<1>1. socksOutbound(u, version).out = out
  BY DEF socksOutbound, Refused, Outbound
<1>2. /\ DOMAIN start = {"type", "server", "server_port"} /\ Served(u, start)
      /\ DOMAIN v = {"version"}
  BY BaseServed, OneField
<1>3. /\ DOMAIN account \subseteq {"username", "password"}
      /\ u.user # None => /\ DOMAIN account = {"username", "password"}
                          /\ account["username"] = u.user.text
                          /\ account["password"] = Password(u)
  BY AccountFacts
<1> HIDE DEF start, v, account
<1>4. Served(u, out)
  BY <1>2, ServedStays
<1>5. DOMAIN (start ++ v) = {"type", "server", "server_port", "version"}
  <2>1. DOMAIN (start ++ v) = DOMAIN start \cup DOMAIN v
    BY Overlay
  <2> QED BY <2>1, <1>2
<1>6. /\ DOMAIN out = DOMAIN (start ++ v) \cup DOMAIN account
      /\ \A f \in DOMAIN account : f \notin DOMAIN (start ++ v) => out[f] = account[f]
  BY Overlay
<1> HIDE DEF out
<1>7. Asked(u) \subseteq Values(out)
  <2>1. u.user # None => /\ {"username", "password"} \subseteq DOMAIN out
                         /\ out["username"] = u.user.text
                         /\ out["password"] = Password(u)
    BY <1>3, <1>5, <1>6
  <2> QED BY <2>1, AccountAsked
<1>8. "tls" \notin DOMAIN out
  BY <1>3, <1>5, <1>6
<1> QED BY <1>1, <1>4, <1>7, <1>8 DEF Reaches

\* http and https, the latter under TLS (spec.go, httpOutbound).
LEMMA HttpReaches ==
  ASSUME NEW u, u.scheme \in {"http", "https"}
  PROVE  Reaches(u, httpOutbound(u).out)
<1> DEFINE start == base("http", u)  account == UserPass(u)
           tls == Fields(u.scheme = "https", Field("tls", Field("server_name", u.host)))
           out == (start ++ account) ++ tls
<1>1. httpOutbound(u).out = out
  BY DEF httpOutbound, Outbound
<1>2. DOMAIN start = {"type", "server", "server_port"} /\ Served(u, start)
  BY BaseServed
<1>3. /\ DOMAIN account \subseteq {"username", "password"}
      /\ u.user # None => /\ DOMAIN account = {"username", "password"}
                          /\ account["username"] = u.user.text
                          /\ account["password"] = Password(u)
  BY AccountFacts
<1>4. DOMAIN tls = IF u.scheme = "https" THEN {"tls"} ELSE {}
  <2>1. DOMAIN Field("tls", Field("server_name", u.host)) = {"tls"}
    BY OneField
  <2> QED BY <2>1, LeftOut
<1> HIDE DEF start, tls, account
<1>5. Served(u, out)
  BY <1>2, ServedStays
<1>6. /\ DOMAIN (start ++ account) = DOMAIN start \cup DOMAIN account
      /\ \A f \in DOMAIN account : f \notin DOMAIN start => (start ++ account)[f] = account[f]
  BY Overlay
<1>7. /\ DOMAIN out = DOMAIN (start ++ account) \cup DOMAIN tls
      /\ \A f \in DOMAIN (start ++ account) : out[f] = (start ++ account)[f]
  BY Overlay
<1> HIDE DEF out
<1>8. Asked(u) \subseteq Values(out)
  <2>1. u.user # None => /\ {"username", "password"} \subseteq DOMAIN out
                         /\ out["username"] = u.user.text
                         /\ out["password"] = Password(u)
    BY <1>2, <1>3, <1>6, <1>7
  <2> QED BY <2>1, AccountAsked
<1>9. "tls" \in DOMAIN out <=> u.scheme = "https"
  BY <1>2, <1>3, <1>4, <1>6, <1>7
<1> QED BY <1>1, <1>5, <1>8, <1>9 DEF Reaches

\* trojan, always under TLS (spec.go, trojanOutbound).
LEMMA TrojanReaches ==
  ASSUME NEW u, u.scheme = "trojan", trojanOutbound(u).ok
  PROVE  Reaches(u, trojanOutbound(u).out)
<1> DEFINE start == base("trojan", u)  word == Field("password", u.user.text)
           tls == Field("tls", tlsOptions(u))  transport == transportOptions(u)
           some == (start ++ word) ++ tls  out == some ++ transport
<1>1. trojanOutbound(u).out = out /\ u.user # None
  BY DEF trojanOutbound, Outbound, Refused
<1>2. /\ DOMAIN start = {"type", "server", "server_port"} /\ Served(u, start)
      /\ DOMAIN word = {"password"} /\ word["password"] = u.user.text
      /\ DOMAIN tls = {"tls"} /\ tls["tls"] = tlsOptions(u)
  BY BaseServed, OneField
<1> HIDE DEF start, word, tls, transport
<1>3. Served(u, out)
  BY <1>2, ServedStays
<1>4. /\ DOMAIN (start ++ word) = DOMAIN start \cup DOMAIN word
      /\ \A f \in DOMAIN word : f \notin DOMAIN start => (start ++ word)[f] = word[f]
  BY Overlay
<1>5. /\ DOMAIN some = DOMAIN (start ++ word) \cup DOMAIN tls
      /\ \A f \in DOMAIN (start ++ word) : some[f] = (start ++ word)[f]
      /\ \A f \in DOMAIN tls : f \notin DOMAIN (start ++ word) => some[f] = tls[f]
  BY Overlay
<1> HIDE DEF some
<1>6. DOMAIN some \subseteq DOMAIN out /\ \A f \in DOMAIN some : out[f] = some[f]
  BY Overlay
<1> HIDE DEF out
<1>7. /\ {"password", "tls"} \subseteq DOMAIN out
      /\ out["password"] = u.user.text /\ out["tls"] = tlsOptions(u)
  BY <1>2, <1>4, <1>5, <1>6
<1>8. Asked(u) \subseteq Values(out)
  <2>1. Asked(u) = {u.user.text}
    BY <1>1 DEF Asked
  <2> QED BY <2>1, <1>7 DEF Values
<1>9. Get(u.q, "fp") # "" <=> "utls" \in DOMAIN out["tls"]
  BY <1>7, FingerprintKept
<1> QED BY <1>1, <1>3, <1>7, <1>8, <1>9 DEF Reaches

\* vless, under TLS where its security says so (spec.go, vlessOutbound).
LEMMA VlessReaches ==
  ASSUME NEW u, u.scheme = "vless", vlessOutbound(u).ok
  PROVE  Reaches(u, vlessOutbound(u).out)
<1> DEFINE start == base("vless", u)  id == Field("uuid", u.user.text)
           flow == Fields(Get(u.q, "flow") # "", Field("flow", Get(u.q, "flow")))
           tls == Fields(Get(u.q, "security") \in {"tls", "reality", "xtls"},
                         Field("tls", tlsOptions(u)))
           transport == transportOptions(u)
           ident == start ++ id  some == ident ++ flow  more == some ++ tls
           out == more ++ transport
<1>1. vlessOutbound(u).out = out /\ u.user # None
  BY DEF vlessOutbound, Outbound, Refused
<1>2. /\ DOMAIN start = {"type", "server", "server_port"} /\ Served(u, start)
      /\ DOMAIN id = {"uuid"} /\ id["uuid"] = u.user.text
  BY BaseServed, OneField
<1>3. /\ DOMAIN flow \subseteq {"flow"} /\ DOMAIN tls \subseteq {"tls"}
      /\ "tls" \in DOMAIN tls => tls["tls"] = tlsOptions(u)
  <2>1. \A name, value : DOMAIN Field(name, value) = {name} /\ Field(name, value)[name] = value
    BY OneField
  <2>2. DOMAIN << >> = {}
    OBVIOUS
  <2> QED BY <2>1, <2>2 DEF Fields
<1>4. DOMAIN transport \subseteq {"transport"}
  BY TransportField
<1> HIDE DEF start, id, flow, tls, transport
<1>5. Served(u, out)
  BY <1>2, ServedStays
<1>6. /\ DOMAIN ident = DOMAIN start \cup DOMAIN id
      /\ \A f \in DOMAIN id : f \notin DOMAIN start => ident[f] = id[f]
  BY Overlay
<1> HIDE DEF ident
<1>7. /\ DOMAIN some = DOMAIN ident \cup DOMAIN flow
      /\ \A f \in DOMAIN ident : some[f] = ident[f]
  BY Overlay
<1> HIDE DEF some
<1>8. /\ DOMAIN more = DOMAIN some \cup DOMAIN tls
      /\ \A f \in DOMAIN some : more[f] = some[f]
      /\ \A f \in DOMAIN tls : f \notin DOMAIN some => more[f] = tls[f]
  BY Overlay
<1> HIDE DEF more
<1>9. /\ DOMAIN out = DOMAIN more \cup DOMAIN transport
      /\ \A f \in DOMAIN more : out[f] = more[f]
  BY Overlay
<1> HIDE DEF out
<1>10. "uuid" \in DOMAIN out /\ out["uuid"] = u.user.text
  BY <1>2, <1>6, <1>7, <1>8, <1>9
<1>11. "tls" \in DOMAIN out => out["tls"] = tlsOptions(u)
  BY <1>2, <1>3, <1>4, <1>6, <1>7, <1>8, <1>9
<1>12. Asked(u) \subseteq Values(out)
  <2>1. Asked(u) = {u.user.text}
    BY <1>1 DEF Asked
  <2> QED BY <2>1, <1>10 DEF Values
<1>13. "tls" \in DOMAIN out => (Get(u.q, "fp") # "" <=> "utls" \in DOMAIN out["tls"])
  BY <1>11, FingerprintKept
<1> QED BY <1>1, <1>5, <1>12, <1>13 DEF Reaches

\* shadowsocks, in the clear or encoded (spec.go, shadowsocksOutbound).
LEMMA ShadowsocksReaches ==
  ASSUME NEW u, u.scheme = "ss", shadowsocksOutbound(u).ok
  PROVE  Reaches(u, shadowsocksOutbound(u).out)
<1> DEFINE start == base("shadowsocks", u)
           method == Field("method", Decoded(u)[1])  word == Field("password", Decoded(u)[2])
           some == start ++ method  out == some ++ word
<1>1. shadowsocksOutbound(u).out = out /\ u.user # None
  BY DEF shadowsocksOutbound, Outbound, Refused
<1>2. /\ DOMAIN start = {"type", "server", "server_port"} /\ Served(u, start)
      /\ DOMAIN method = {"method"} /\ method["method"] = Decoded(u)[1]
      /\ DOMAIN word = {"password"} /\ word["password"] = Decoded(u)[2]
  BY BaseServed, OneField
<1> HIDE DEF start, method, word
<1>3. Served(u, out)
  BY <1>2, ServedStays
<1>4. /\ DOMAIN some = DOMAIN start \cup DOMAIN method
      /\ \A f \in DOMAIN method : f \notin DOMAIN start => some[f] = method[f]
  BY Overlay
<1> HIDE DEF some
<1>5. /\ DOMAIN out = DOMAIN some \cup DOMAIN word
      /\ \A f \in DOMAIN some : out[f] = some[f]
      /\ \A f \in DOMAIN word : f \notin DOMAIN some => out[f] = word[f]
  BY Overlay
<1> HIDE DEF out
<1>6. /\ {"method", "password"} \subseteq DOMAIN out /\ "tls" \notin DOMAIN out
      /\ out["method"] = Decoded(u)[1] /\ out["password"] = Decoded(u)[2]
  BY <1>2, <1>4, <1>5
<1>7. Asked(u) \subseteq {Decoded(u)[1], Decoded(u)[2]}
  <2>1. CASE u.pass = None
    <3>1. Asked(u) = {u.user.method, u.user.password}
      BY <2>1, <1>1 DEF Asked
    <3>2. Decoded(u)[1] = u.user.method /\ Decoded(u)[2] = u.user.password
      BY <2>1 DEF Decoded
    <3> QED BY <3>1, <3>2
  <2>2. CASE u.pass # None
    <3>1. Asked(u) = {u.user.text, u.pass} \ {None}
      BY <2>2, <1>1 DEF Asked
    <3>2. Decoded(u)[1] = u.user.text /\ Decoded(u)[2] = u.pass
      BY <2>2 DEF Decoded
    <3> QED BY <3>1, <3>2
  <2> QED BY <2>1, <2>2
<1>8. {Decoded(u)[1], Decoded(u)[2]} \subseteq Values(out)
  BY <1>6 DEF Values
<1> QED BY <1>1, <1>3, <1>6, <1>7, <1>8 DEF Reaches
\* Whatever the link, the outbound made of it does what it asks.
LEMMA LinkReaches == ASSUME NEW u PROVE ReachesUpstream(u)
<1> SUFFICES ASSUME fromURL(u).ok PROVE Reaches(u, fromURL(u).out)
  BY DEF ReachesUpstream, Reaches, Served
<1>1. hostPort(u)
  BY DEF fromURL, Refused
<1>2. CASE u.scheme \in {"socks5", "socks5h", "socks"}
  <2>1. fromURL(u) = socksOutbound(u, "5")
    BY <1>1, <1>2 DEF fromURL
  <2> QED BY <1>2, <2>1, SocksReaches
<1>3. CASE u.scheme = "socks4"
  <2>1. fromURL(u) = socksOutbound(u, "4")
    BY <1>1, <1>3 DEF fromURL
  <2> QED BY <1>3, <2>1, SocksReaches
<1>4. CASE u.scheme = "socks4a"
  <2>1. fromURL(u) = socksOutbound(u, "4a")
    BY <1>1, <1>4 DEF fromURL
  <2> QED BY <1>4, <2>1, SocksReaches
<1>5. CASE u.scheme \in {"http", "https"}
  <2>1. fromURL(u) = httpOutbound(u)
    BY <1>1, <1>5 DEF fromURL
  <2> QED BY <1>5, <2>1, HttpReaches
<1>6. CASE u.scheme = "trojan"
  <2>1. fromURL(u) = trojanOutbound(u)
    BY <1>1, <1>6 DEF fromURL
  <2> QED BY <1>6, <2>1, TrojanReaches
<1>7. CASE u.scheme = "vless"
  <2>1. fromURL(u) = vlessOutbound(u)
    BY <1>1, <1>7 DEF fromURL
  <2> QED BY <1>7, <2>1, VlessReaches
<1>8. CASE u.scheme = "ss"
  <2>1. fromURL(u) = shadowsocksOutbound(u)
    BY <1>1, <1>8 DEF fromURL
  <2> QED BY <1>8, <2>1, ShadowsocksReaches
<1>9. u.scheme \in {"socks5", "socks5h", "socks", "socks4", "socks4a", "http", "https",
                    "trojan", "vless", "ss"}
  <2>1. ASSUME u.scheme \notin {"socks5", "socks5h", "socks", "socks4", "socks4a", "http",
                               "https", "trojan", "vless", "ss"}
        PROVE  fromURL(u) = Refused
    BY <1>1, <2>1 DEF fromURL
  <2> QED BY <2>1 DEF Refused
<1> QED BY <1>2, <1>3, <1>4, <1>5, <1>6, <1>7, <1>8, <1>9

\* A refusal is not taken for an outbound.
LEMMA RefusedNotOk == ~Refused.ok
BY DEF Refused

\* What is shown of a link that was accepted is where it goes (spec.go:366-370).
LEMMA LinkShown == ASSUME NEW u \in Links PROVE ShownWithoutSecrets(u)
<1> SUFFICES ASSUME fromURL(u).ok
             PROVE  /\ ValidateProxySpec(u) /\ u.host \in Describe(u)
                    /\ Describe(u) \cap (Credentials(u) \ {None, ""}) = {}
  BY DEF ShownWithoutSecrets
<1>1. hostPort(u)
  BY DEF fromURL, Refused
<1>2. u.scheme # ""
  <2> SUFFICES ASSUME u.scheme = "" PROVE FALSE
    OBVIOUS
  <2>1. fromURL(u) = Refused
    BY <1>1 DEF fromURL
  <2> QED BY Zenon, <2>1, RefusedNotOk
<1>3. u.host # None /\ u.port # None
  BY <1>1 DEF hostPort
<1>4. Describe(u) = {u.host, u.scheme}
  BY <1>3 DEF Describe
<1>5. Credentials(u) = Secrets(u)
  BY <1>3 DEF Credentials
<1>6. Secrets(u) \cap {u.host, u.scheme} = {}
  BY LinksAssumption
<1> QED BY <1>2, <1>3, <1>4, <1>5, <1>6 DEF ValidateProxySpec

\* What is shown of a raw outbound is where it goes (spec.go:361-363).
LEMMA RawShown == ASSUME NEW fields PROVE RawWithoutSecrets(fields)
BY DEF RawWithoutSecrets, parseRawJSON, DescribeRaw, Outbound, Refused

-----------------------------------------------------------------------------
(* Session bundles. *)

\* The names caches have.
Names ==
  {"Cache", "Code Cache", "GPUCache", "DawnGraphiteCache", "DawnWebGPUCache",
   "GraphiteDawnCache", "ShaderCache", "GrShaderCache", "component_crx_cache",
   "optimization_guide_model_store", "optimization_guide_hint_cache_store",
   "Service Worker", "CacheStorage", "ScriptCache"}

\* The caches are sequences of one or two names.
LEMMA CacheDirs == \A c \in cacheDirs : c \in Seq(Names) /\ Len(c) \in {1, 2}
<1>1. \A a, b \in Names : <<a>> \in Seq(Names) /\ Len(<<a>>) = 1
                          /\ <<a, b>> \in Seq(Names) /\ Len(<<a, b>>) = 2
  OBVIOUS
<1> SUFFICES ASSUME NEW c \in cacheDirs PROVE c \in Seq(Names) /\ Len(c) \in {1, 2}
  OBVIOUS
<1>2. (\E a \in Names : c = <<a>>) \/ (\E a, b \in Names : c = <<a, b>>)
  BY DEF cacheDirs, Names
<1> QED BY <1>1, <1>2

\* A stretch of a sequence is another one if each of its elements is.
LEMMA Stretch ==
  ASSUME NEW S, NEW s \in Seq(S), NEW c \in Seq(S), NEW i \in Nat \ {0},
         i + Len(c) - 1 <= Len(s)
  PROVE  SubSeq(s, i, i + Len(c) - 1) = c <=> \A k \in 1..Len(c) : s[i + k - 1] = c[k]
<1> DEFINE n == i + Len(c) - 1  t == SubSeq(s, i, n)
<1>1. Len(c) \in Nat /\ Len(s) \in Nat /\ n \in Int
  OBVIOUS
<1>2. \A k \in i..n : s[k] \in S
  BY <1>1
<1>3. /\ t \in Seq(S) /\ Len(t) = IF i <= n THEN n - i + 1 ELSE 0
      /\ \A k \in 1..(n - i + 1) : t[k] = s[i + k - 1]
  BY <1>1, <1>2, SubSeqProperties
<1>4. n - i + 1 = Len(c) /\ Len(t) = Len(c)
  BY <1>1, <1>3
<1> HIDE DEF n, t
<1>5. t = c <=> \A k \in 1..Len(c) : t[k] = c[k]
  BY <1>3, <1>4, SeqEqual
<1> QED BY <1>3, <1>4, <1>5 DEF n, t

\* A cache is the head of a path, or of the rest of it, where InCache looks for it.
LEMMA CacheAt ==
  ASSUME NEW p \in Seq(STRING), NEW c \in cacheDirs
  PROVE  /\ IsPrefix(c, p) <=> 1 + Len(c) - 1 <= Len(p) /\ SubSeq(p, 1, 1 + Len(c) - 1) = c
         /\ Len(p) > 1 /\ IsPrefix(c, Tail(p))
              <=> 2 + Len(c) - 1 <= Len(p) /\ SubSeq(p, 2, 2 + Len(c) - 1) = c
<1> DEFINE S == STRING \cup Names
<1>1. p \in Seq(S) /\ c \in Seq(S) /\ Len(c) \in {1, 2} /\ Len(p) \in Nat
  BY CacheDirs
<1> HIDE DEF S
<1>2. SubSeq(c, 1, Len(c)) = c
  BY <1>1, SubSeqFull
<1>3. IsPrefix(c, p) <=> 1 + Len(c) - 1 <= Len(p) /\ SubSeq(p, 1, 1 + Len(c) - 1) = c
  <2>1. 1 + Len(c) - 1 = Len(c)
    BY <1>1
  <2> QED BY <1>2, <2>1 DEF IsPrefix
<1>4. ASSUME Len(p) > 1
      PROVE  IsPrefix(c, Tail(p))
               <=> 2 + Len(c) - 1 <= Len(p) /\ SubSeq(p, 2, 2 + Len(c) - 1) = c
  <2> DEFINE t == Tail(p)
  <2>1. t \in Seq(S) /\ Len(t) = Len(p) - 1 /\ \A k \in 1..Len(t) : t[k] = p[k + 1]
    BY <1>1, <1>4, HeadTailProperties
  <2>2. Len(c) <= Len(t) <=> 2 + Len(c) - 1 <= Len(p)
    BY <1>1, <2>1
  <2>3. IsPrefix(c, t) <=> Len(c) <= Len(t) /\ SubSeq(t, 1, Len(c)) = c
    BY <1>2 DEF IsPrefix
  <2> HIDE DEF t
  <2>4. ASSUME Len(c) <= Len(t)
        PROVE  SubSeq(t, 1, Len(c)) = c <=> SubSeq(p, 2, 2 + Len(c) - 1) = c
    <3>1. SubSeq(t, 1, Len(c)) = c <=> \A k \in 1..Len(c) : t[k] = c[k]
      <4>1. 1 + Len(c) - 1 = Len(c) /\ \A k \in 1..Len(c) : 1 + k - 1 = k
        BY <1>1
      <4>2. SubSeq(t, 1, 1 + Len(c) - 1) = c <=> \A k \in 1..Len(c) : t[1 + k - 1] = c[k]
        BY <1>1, <2>1, <2>4, <4>1, Stretch
      <4> QED BY <4>1, <4>2
    <3>2. SubSeq(p, 2, 2 + Len(c) - 1) = c <=> \A k \in 1..Len(c) : p[2 + k - 1] = c[k]
      BY <1>1, <2>2, <2>4, Stretch
    <3>3. \A k \in 1..Len(c) : t[k] = p[2 + k - 1]
      BY <1>1, <2>1, <2>4
    <3> QED BY <3>1, <3>2, <3>3
  <2> QED BY <2>2, <2>3, <2>4 DEF t
<1>5. 2 + Len(c) - 1 <= Len(p) => Len(p) > 1
  BY <1>1
<1> QED BY <1>3, <1>4, <1>5

\* isCachePath looks where the caches are (crypto.go:236-262).
LEMMA CacheByName == ASSUME NEW p \in Seq(STRING) PROVE isCachePath(p) <=> InCache(p)
<1>1. matchesCacheDir(p)
        <=> \E c \in cacheDirs : 1 + Len(c) - 1 <= Len(p) /\ SubSeq(p, 1, 1 + Len(c) - 1) = c
  BY CacheAt DEF matchesCacheDir
<1>2. Len(p) > 1 /\ matchesCacheDir(Tail(p))
        <=> \E c \in cacheDirs : 2 + Len(c) - 1 <= Len(p) /\ SubSeq(p, 2, 2 + Len(c) - 1) = c
  BY CacheAt DEF matchesCacheDir
<1> QED BY <1>1, <1>2 DEF isCachePath, InCache

\* What is below a cache is in it.
LEMMA CacheBelow ==
  ASSUME NEW p \in Seq(STRING), NEW n \in 1..Len(p), InCache(SubSeq(p, 1, n))
  PROVE  InCache(p)
<1> DEFINE q == SubSeq(p, 1, n)
<1>1. q \in Seq(STRING) /\ Len(q) = n /\ \A k \in 1..n : q[k] = p[k]
  <2>1. \A k \in 1..n : p[k] \in STRING
    OBVIOUS
  <2> QED BY <2>1, SubSeqProperties
<1> HIDE DEF q
<1>2. PICK c \in cacheDirs, i \in {1, 2} :
        i + Len(c) - 1 <= Len(q) /\ SubSeq(q, i, i + Len(c) - 1) = c
  BY DEF InCache, q
<1> DEFINE S == STRING \cup Names
<1>3. p \in Seq(S) /\ q \in Seq(S) /\ c \in Seq(S) /\ Len(c) \in {1, 2} /\ Len(p) \in Nat
  BY <1>1, CacheDirs
<1> HIDE DEF S
<1>4. i + Len(c) - 1 <= Len(p)
  BY <1>1, <1>2, <1>3
<1>5. \A k \in 1..Len(c) : q[i + k - 1] = c[k]
  BY <1>2, <1>3, Stretch
<1>6. \A k \in 1..Len(c) : p[i + k - 1] = q[i + k - 1]
  BY <1>1, <1>2, <1>3
<1>7. SubSeq(p, i, i + Len(c) - 1) = c
  <2>1. (\A k \in 1..Len(c) : p[i + k - 1] = c[k]) /\ i \in Nat \ {0}
    BY <1>5, <1>6
  <2> QED BY <1>3, <1>4, <2>1, Stretch
<1> QED BY <1>4, <1>7 DEF InCache
\* The walk leaves out the caches and the sockets and nothing else (crypto.go:296-330).
LEMMA ArchivedIdentity ==
  ASSUME NEW tree, tree \subseteq Entries
  PROVE  Archived(tree) = {e \in tree : e.kind # "irregular" /\ ~InCache(e.path)}
<1>1. ASSUME NEW e \in tree
      PROVE  (\A n \in 1..(Len(e.path) - 1) : ~isCachePath(SubSeq(e.path, 1, n)))
               /\ ~isCachePath(e.path) <=> ~InCache(e.path)
  <2>1. e.path \in Seq(STRING)
    BY DEF Entries
  <2>2. isCachePath(e.path) <=> InCache(e.path)
    BY <2>1, CacheByName
  <2>3. ASSUME NEW n \in 1..(Len(e.path) - 1), isCachePath(SubSeq(e.path, 1, n))
        PROVE  InCache(e.path)
    <3>1. n \in 1..Len(e.path) /\ SubSeq(e.path, 1, n) \in Seq(STRING)
      BY <2>1
    <3> QED BY <2>1, <2>3, <3>1, CacheByName, CacheBelow
  <2> QED BY <2>2, <2>3
<1> QED BY <1>1 DEF Archived, Walked

\* What extraction refuses is what cannot be restored (crypto.go:440-490).
LEMMA RefusedUnrestorable ==
  ASSUME NEW tree, tree \subseteq Entries
  PROVE  (\A e \in Identity(tree) : extractEntry(e)) <=> Restorable(tree)
<1>1. ASSUME NEW e \in Identity(tree)
      PROVE  extractEntry(e)
               <=> /\ e.kind # "absolute link"
                   /\ e.kind = "link" => e.size <= Len(e.path) - 1
                   /\ e.kind = "file" => e.size <= Limit
  <2>1. /\ e.kind \in {"dir", "file", "link", "absolute link"}
        /\ e.path \in Seq(STRING) /\ e.size \in Nat
    <3>1. PICK x \in tree : /\ x.kind # "irregular"
                            /\ e = [path |-> x.path, kind |-> x.kind, size |-> x.size]
      BY DEF Identity
    <3>2. /\ x.kind \in {"dir", "file", "link", "absolute link", "irregular"}
          /\ x.path \in Seq(STRING) /\ x.size \in Nat
      BY DEF Entries
    <3>3. e.path = x.path /\ e.kind = x.kind /\ e.size = x.size
      BY <3>1
    <3> QED BY <3>1, <3>2, <3>3
  <2>2. Len(e.path) \in Nat /\ Limit \in Nat
    <3>1. Limit \in Nat
      BY LimitAssumption
    <3>2. Len(e.path) \in Nat
      BY <2>1, LenProperties
    <3> QED BY <3>1, <3>2
  <2>3. CASE e.kind = "dir"
    BY <2>3 DEF extractEntry
  <2>4. CASE e.kind \in {"link", "absolute link"}
    <3>1. e.kind # "dir" /\ e.kind # "file"
      BY <2>4
    <3>2. extractEntry(e) <=> checkSymlink(e)
      BY <2>4, <3>1 DEF extractEntry
    <3>3. e.size < Len(e.path) <=> e.size <= Len(e.path) - 1
      <4>1. \A m, n \in Nat : m < n <=> m <= n - 1
        OBVIOUS
      <4> QED BY <2>1, <2>2, <4>1
    <3> QED BY <2>4, <3>1, <3>2, <3>3 DEF checkSymlink
  <2>5. CASE e.kind = "file"
    <3>1. extractEntry(e) <=> writeRegular(e)
      BY <2>5 DEF extractEntry
    <3> QED BY <2>1, <2>2, <2>5, <3>1 DEF writeRegular, Smaller
  <2> QED BY <2>1, <2>3, <2>4, <2>5
<1> QED BY <1>1 DEF Restorable

\* Any tree comes back whole or not at all (tarDir and extractTar in crypto.go).
LEMMA TreeRoundTrip ==
  ASSUME NEW tree, tree \subseteq Entries
  PROVE  RoundTrips(tree)
<1> DEFINE archive == tarDir(tree)  back == extractTar(archive)
<1>1. Archived(tree) = {e \in tree : e.kind # "irregular" /\ ~InCache(e.path)}
  BY ArchivedIdentity
<1>2. archive.ok <=> ~TarFails(tree)
  BY DEF tarDir
<1>3. archive.ok => archive.entries = Identity(tree)
  BY <1>1 DEF tarDir, Identity
<1>4. /\ back.ok <=> \A e \in archive.entries : extractEntry(e)
      /\ back.ok \in BOOLEAN
      /\ back.ok => back.entries = archive.entries
  BY DEF extractTar
<1> HIDE DEF archive, back
<1>5. archive.ok /\ back.ok => back.entries = Identity(tree)
  BY <1>3, <1>4
<1>6. ASSUME archive.ok, NEW e \in tree, ~InCache(e.path), e.kind = "file"
      PROVE  e.now = e.size
  BY <1>1, <1>2, <1>6 DEF TarFails
<1>7. ASSUME archive.ok PROVE back.ok = Restorable(tree)
  <2>1. back.ok <=> Restorable(tree)
    BY <1>3, <1>4, <1>7, RefusedUnrestorable
  <2>2. Restorable(tree) \in BOOLEAN
    BY DEF Restorable
  <2> QED BY <1>4, <2>1, <2>2
<1>8. ASSUME \A e \in tree : e.now = e.size PROVE archive.ok
  <2>1. \A e \in tree : e.now # Gone
    BY <1>8, LimitAssumption DEF Entries
  <2>2. Walked(tree) \subseteq tree /\ Archived(tree) \subseteq tree
    BY <1>1 DEF Walked
  <2> QED BY <1>2, <1>8, <2>1, <2>2 DEF TarFails
<1> QED BY <1>5, <1>6, <1>7, <1>8 DEF RoundTrips, archive, back

-----------------------------------------------------------------------------
(* Computations by steps. *)

\* Induction up to a bound, over a set: the prover cannot instantiate an operator.
LEMMA UpTo ==
  ASSUME NEW N \in Nat, NEW T, 0 \in T, \A n \in 0..(N - 1) : n \in T => n + 1 \in T
  PROVE  0..N \subseteq T
<1> SUFFICES ASSUME 0..N \ T # {} PROVE FALSE
  OBVIOUS
<1>1. PICK x \in 0..N \ T : \A y \in 0..N \ T : x <= y
  <2>1. 0..N \ T \in SUBSET Nat
    OBVIOUS
  <2> QED BY <2>1, LeastNatural
<1>2. x # 0 /\ x \in Nat
  OBVIOUS
<1>3. x - 1 \in 0..(N - 1) /\ x - 1 \in T
  BY <1>1, <1>2
<1>4. x - 1 + 1 = x
  BY <1>2
<1> QED BY <1>1, <1>3, <1>4

\* What each step makes of the last, up to a bound.
Unrolls(f, N, S, start, step) ==
  /\ f \in [0..N -> S]
  /\ f[0] = start /\ \A n \in 1..N : f[n] = step[n][f[n - 1]]

\* What is computed step by step up to a bound can be computed.
LEMMA Recursion ==
  ASSUME NEW N \in Nat, NEW S, NEW start \in S, NEW step \in [1..N -> [S -> S]]
  PROVE  \E f : Unrolls(f, N, S, start, step)
<1> DEFINE Upto(f, n) == f[0] = start /\ \A k \in 1..n : f[k] = step[k][f[k - 1]]
           T == {n \in 0..N : \E f \in [0..n -> S] : Upto(f, n)}
<1>1. 0 \in T
  <2> DEFINE f == [n \in 0..0 |-> start]
  <2>1. f \in [0..0 -> S] /\ f[0] = start
    OBVIOUS
  <2> HIDE DEF f
  <2>2. Upto(f, 0) /\ 0 \in 0..N
    BY <2>1
  <2> QED BY <2>1, <2>2
<1>2. ASSUME NEW n \in 0..(N - 1), n \in T PROVE n + 1 \in T
  <2>1. PICK f \in [0..n -> S] : Upto(f, n)
    BY <1>2
  <2> DEFINE last == step[n + 1][f[n]]
             g == [k \in 0..(n + 1) |-> IF k = n + 1 THEN last ELSE f[k]]
  <2>2. last \in S
    <3>1. n + 1 \in 1..N /\ f[n] \in S
      OBVIOUS
    <3> QED BY <3>1
  <2>3. g \in [0..(n + 1) -> S]
    BY <2>2
  <2>4. /\ \A k \in 0..n : g[k] = f[k]
        /\ g[n + 1] = last
    OBVIOUS
  <2> HIDE DEF g
  <2>5. g[0] = start
    BY <2>1, <2>4
  <2>6. ASSUME NEW k \in 1..(n + 1) PROVE g[k] = step[k][g[k - 1]]
    <3>1. CASE k = n + 1
      <4>1. k - 1 = n /\ n \in 0..n
        BY <3>1
      <4> QED BY <2>4, <3>1, <4>1
    <3>2. CASE k # n + 1
      <4>1. k \in 1..n /\ k \in 0..n /\ k - 1 \in 0..n
        BY <3>2
      <4> QED BY <2>1, <2>4, <4>1
    <3> QED BY <3>1, <3>2
  <2>7. Upto(g, n + 1) /\ n + 1 \in 0..N
    BY <2>5, <2>6
  <2> QED BY <2>3, <2>7
<1>3. N \in T
  <2> HIDE DEF T
  <2>1. 0..N \subseteq T
    BY <1>1, <1>2, UpTo
  <2> QED BY <2>1
<1>4. PICK f \in [0..N -> S] : Upto(f, N)
  BY <1>3
<1> QED BY <1>4 DEF Unrolls

\* What holds from each step of a computation to the next holds from each to the end.
LEMMA Along ==
  ASSUME NEW N \in Nat, NEW S, NEW f \in [0..N -> S], NEW R,
         \A x \in S : <<x, x>> \in R,
         \A x, y, z \in S : <<x, y>> \in R /\ <<y, z>> \in R => <<x, z>> \in R,
         \A n \in 1..N : <<f[n - 1], f[n]>> \in R
  PROVE  \A n \in 0..N : <<f[n], f[N]>> \in R
<1> SUFFICES ASSUME NEW n \in 0..N PROVE <<f[n], f[N]>> \in R
  OBVIOUS
<1> DEFINE T == {k \in 0..N : k >= n => <<f[n], f[k]>> \in R}
<1>1. 0 \in T
  <2>1. 0 >= n => n = 0
    OBVIOUS
  <2>2. f[0] \in S /\ 0 \in 0..N
    OBVIOUS
  <2> QED BY <2>1, <2>2
<1>2. ASSUME NEW k \in 0..(N - 1), k \in T PROVE k + 1 \in T
  <2>1. k + 1 \in 0..N /\ k + 1 \in 1..N /\ k + 1 - 1 = k /\ k \in 0..N
    OBVIOUS
  <2>2. f[n] \in S /\ f[k] \in S /\ f[k + 1] \in S
    BY <2>1
  <2>3. <<f[k], f[k + 1]>> \in R
    <3>1. PICK m \in 1..N : m = k + 1 /\ m - 1 = k
      BY <2>1
    <3>2. <<f[m - 1], f[m]>> \in R
      OBVIOUS
    <3> QED BY Zenon, <3>1, <3>2
  <2>4. CASE k >= n
    <3>1. <<f[n], f[k]>> \in R
      BY <1>2, <2>4
    <3> QED BY <2>1, <2>2, <2>3, <3>1
  <2>5. CASE ~(k >= n)
    <3>1. k + 1 >= n => k + 1 = n
      BY <2>5
    <3> QED BY <2>1, <2>2, <3>1
  <2> QED BY <2>4, <2>5
<1> HIDE DEF T
<1>3. 0..N \subseteq T
  BY <1>1, <1>2, UpTo
<1> QED BY <1>3 DEF T

-----------------------------------------------------------------------------
(* Passphrases typed at a terminal. *)

\* The passphrase that is remembered before one was typed.
Nothing == ""

\* What a prompt starts from and leaves.
PromptStates ==
  [cached : {Nothing, "right"}, rest : Seq(Answers), got : {Nothing, "right", "error"},
   reads : 0..3]

\* Nothing is none of the outcomes.
LEMMA NothingElse == Nothing # "right" /\ Nothing # "error"
BY DEF Nothing

\* A prompt reads up to the first answer that is not wrong, and three at most (prompt.go:69).
LEMMA AttemptsFacts ==
  ASSUME NEW answers, NEW intact \in BOOLEAN
  PROVE  LET n == Attempts(answers, intact) IN
         /\ n \in 1..3
         /\ n = 3 \/ ~Rejected(answers[n], intact)
         /\ \A i \in 1..(n - 1) : Rejected(answers[i], intact)
<1> DEFINE Good(n) == /\ n = 3 \/ ~Rejected(answers[n], intact)
                      /\ \A i \in 1..(n - 1) : Rejected(answers[i], intact)
<1>1. \E n \in 1..3 : Good(n)
  <2>1. CASE ~Rejected(answers[1], intact)
    <3>1. Good(1)
      BY <2>1
    <3> QED BY <3>1
  <2>2. CASE Rejected(answers[1], intact) /\ ~Rejected(answers[2], intact)
    <3>1. \A i \in 1..(2 - 1) : i = 1
      OBVIOUS
    <3>2. Good(2)
      BY <2>2, <3>1
    <3> QED BY <3>2
  <2>3. CASE Rejected(answers[1], intact) /\ Rejected(answers[2], intact)
    <3>1. \A i \in 1..(3 - 1) : i = 1 \/ i = 2
      OBVIOUS
    <3>2. Good(3)
      BY <2>3, <3>1
    <3> QED BY <3>2
  <2> QED BY <2>1, <2>2, <2>3
<1>2. Attempts(answers, intact) = CHOOSE n \in 1..3 : Good(n)
  BY DEF Attempts, passphraseAttempts
<1> HIDE DEF Good
<1>3. Attempts(answers, intact) \in 1..3 /\ Good(Attempts(answers, intact))
  BY <1>1, <1>2
<1> QED BY <1>3 DEF Good

\* What one prompt of a command does to what the next one starts from.
PromptEffect(source, intact, s, t) ==
  /\ t.got \in {"right", "error"}
  /\ t.cached = IF t.got = "right" THEN "right" ELSE Nothing
  /\ s.cached = "right" => t.got = "right" /\ t.reads = 0
  /\ s.cached = Nothing /\ (source = "nowhere" \/ ~intact) => t.got = "error"
  /\ source = "nowhere" => t.reads = 0
  /\ Len(s.rest) >= 3 => /\ s.rest = SubSeq(s.rest, 1, t.reads) \o t.rest
                         /\ Len(t.rest) >= Len(s.rest) - 3
  /\ source # "nowhere" /\ intact =>
       (t.got = "right" <=>
          \/ s.cached # Nothing
          \/ \E i \in 1..3 : s.rest[i] = "right" /\ \A j \in 1..(i - 1) : s.rest[j] = "wrong")

\* What has been read and what has not make up what there was.
LEMMA ReadOff ==
  ASSUME NEW S, NEW rest \in Seq(S), NEW n \in 0..Len(rest)
  PROVE  /\ rest = SubSeq(rest, 1, n) \o SubSeq(rest, n + 1, Len(rest))
         /\ Len(SubSeq(rest, n + 1, Len(rest))) = Len(rest) - n
         /\ SubSeq(rest, n + 1, Len(rest)) \in Seq(S)
<1>1. Len(rest) \in Nat /\ \A i \in 1..Len(rest) : rest[i] \in S
  BY LenProperties
<1>2. rest = SubSeq(rest, 1, n) \o SubSeq(rest, n + 1, Len(rest))
  <2>1. SubSeq(rest, 1, n) \o SubSeq(rest, n + 1, Len(rest)) = SubSeq(rest, 1, Len(rest))
    <3>1. 1 \in 1..(Len(rest) + 1) /\ n \in (1 - 1)..Len(rest) /\ Len(rest) \in n..Len(rest)
      BY <1>1
    <3> QED BY <3>1, ConcatAdjacentSubSeq
  <2> QED BY <2>1, SubSeqFull
<1>3. /\ SubSeq(rest, n + 1, Len(rest)) \in Seq(S)
      /\ Len(SubSeq(rest, n + 1, Len(rest)))
           = IF n + 1 <= Len(rest) THEN Len(rest) - (n + 1) + 1 ELSE 0
  <2>1. \A i \in (n + 1)..Len(rest) : rest[i] \in S
    BY <1>1
  <2> QED BY <1>1, <2>1, SubSeqProperties
<1>4. Len(SubSeq(rest, n + 1, Len(rest))) = Len(rest) - n
  <2>1. PICK l \in Nat : l = Len(rest) /\ n \in 0..l
    BY <1>1
  <2>2. PICK m : /\ m = Len(SubSeq(rest, n + 1, Len(rest)))
                 /\ m = IF n + 1 <= l THEN l - (n + 1) + 1 ELSE 0
    BY <1>3, <2>1
  <2>3. m = l - n
    BY <2>1, <2>2
  <2> QED BY Zenon, <2>1, <2>2, <2>3
<1> QED BY Zenon, <1>2, <1>3, <1>4

\* Reading nothing leaves everything.
LEMMA ReadNothing ==
  ASSUME NEW S, NEW rest \in Seq(S) PROVE rest = SubSeq(rest, 1, 0) \o rest
<1>1. SubSeq(rest, 1, 0) = <<>>
  BY SubSeqEmpty
<1>2. <<>> \o rest = rest
  BY ConcatEmptySeq
<1> QED BY <1>1, <1>2

\* A prompt keeps to its promises (prompt.go:41-84).
LEMMA PromptStep ==
  ASSUME NEW source \in {"terminal", "askpass", "nowhere"}, NEW intact \in BOOLEAN,
         NEW s \in PromptStates
  PROVE  /\ prompt(source, intact, s) \in PromptStates
         /\ PromptEffect(source, intact, s, prompt(source, intact, s))
<1> DEFINE t == prompt(source, intact, s)
<1>0. Nothing # "right" /\ Nothing # "error"
  BY NothingElse
<1>1. PICK cached \in {Nothing, "right"}, rest \in Seq(Answers) :
        s.cached = cached /\ s.rest = rest
  BY DEF PromptStates
<1>2. /\ Len(rest) \in Nat
      /\ \A i \in 1..Len(rest) : rest[i] \in Answers
  BY LenProperties
<1> DEFINE n == Attempts(rest, intact)
           left == SubSeq(rest, n + 1, Len(rest))
           got == IF rest[n] = "right" /\ intact THEN "right" ELSE "error"
<1>3. /\ n \in 1..3
      /\ n = 3 \/ ~Rejected(rest[n], intact)
      /\ \A i \in 1..(n - 1) : Rejected(rest[i], intact)
  BY AttemptsFacts
<1> HIDE DEF n
<1>4. left \in Seq(Answers)
  <2>1. n + 1 \in Int /\ Len(rest) \in Int
    BY <1>2, <1>3
  <2>2. \A i \in (n + 1)..Len(rest) : rest[i] \in Answers
    BY <1>2, <1>3
  <2> QED BY <2>1, <2>2, SubSeqProperties
<1>5. ASSUME NEW g \in {"right", "error"}, t = [s EXCEPT !.got = g, !.reads = 0]
      PROVE  /\ t \in PromptStates /\ t.cached = cached /\ t.rest = rest
             /\ t.got = g /\ t.reads = 0
  <2>1. 0 \in 0..3
    OBVIOUS
  <2> HIDE DEF t
  <2> QED BY <1>1, <1>5, <2>1 DEF PromptStates
<1>6. rest = SubSeq(rest, 1, 0) \o rest
  BY ReadNothing
<1>7. Len(rest) >= Len(rest) - 3
  BY <1>2
<1>8. CASE cached = "right"
  <2>1. t = [s EXCEPT !.got = "right", !.reads = 0]
    <3>1. s.cached # Nothing => prompt(source, intact, s) = [s EXCEPT !.got = s.cached, !.reads = 0]
      BY DEF Nothing, prompt
    <3> QED BY <1>0, <1>1, <1>8, <3>1
  <2>2. /\ t \in PromptStates /\ t.cached = cached /\ t.rest = rest
        /\ t.got = "right" /\ t.reads = 0
    BY <1>5, <2>1
  <2> HIDE DEF t
  <2>3. PromptEffect(source, intact, s, t)
    BY <1>1, <1>0, <1>6, <1>7, <1>8, <2>2 DEF PromptEffect
  <2> QED BY <2>2, <2>3 DEF t
<1>9. CASE cached = Nothing /\ source = "nowhere"
  <2>1. t = [s EXCEPT !.got = "error", !.reads = 0]
    <3>1. askChecked(source, intact, s) = [s EXCEPT !.got = "error", !.reads = 0]
      BY <1>9 DEF askChecked
    <3>2. [s EXCEPT !.got = "error", !.reads = 0].got = "error"
      BY DEF PromptStates
    <3>3. s.cached = Nothing /\ askChecked(source, intact, s).got = "error"
            => prompt(source, intact, s) = askChecked(source, intact, s)
      BY DEF Nothing, prompt
    <3> QED BY <1>1, <1>9, <3>1, <3>2, <3>3
  <2>2. /\ t \in PromptStates /\ t.cached = cached /\ t.rest = rest
        /\ t.got = "error" /\ t.reads = 0
    BY <1>5, <2>1
  <2> HIDE DEF t
  <2>3. PromptEffect(source, intact, s, t)
    BY <1>1, <1>0, <1>6, <1>7, <1>9, <2>2 DEF PromptEffect
  <2> QED BY <2>2, <2>3 DEF t
<1>10. CASE cached = Nothing /\ source # "nowhere"
  <2>1. askChecked(source, intact, s) = [cached |-> Nothing, rest |-> left, got |-> got, reads |-> n]
    BY <1>1, <1>10 DEF askChecked, PromptState, n
  <2>2. got \in {"right", "error"} /\ (~intact => got = "error")
    OBVIOUS
  <2> HIDE DEF got, left
  <2>3. t = [cached |-> IF got = "right" THEN "right" ELSE Nothing, rest |-> left,
             got |-> got, reads |-> n]
    <3> DEFINE read == askChecked(source, intact, s)
    <3>1. /\ read.got = "error" => t = read
          /\ read.got = "right" => t = [read EXCEPT !.cached = "right"]
      BY <1>1, <1>10 DEF Nothing, prompt
    <3> HIDE DEF read, t
    <3>2. read = [cached |-> Nothing, rest |-> left, got |-> got, reads |-> n]
      BY <2>1 DEF read
    <3>3. CASE got = "right"
      BY <3>1, <3>2, <3>3
    <3>4. CASE got = "error"
      <4>1. read.got = "error" /\ got # "right"
        BY <3>2, <3>4
      <4> QED BY <3>1, <3>2, <4>1
    <3> QED BY <2>2, <3>3, <3>4
  <2> HIDE DEF t
  <2>4. /\ t.cached = IF got = "right" THEN "right" ELSE Nothing
        /\ t.rest = left /\ t.got = got /\ t.reads = n
    BY <2>3
  <2>5. t \in PromptStates
    <3>1. n \in 0..3
      BY <1>3
    <3> QED BY <1>4, <2>2, <2>3, <3>1 DEF PromptStates
  <2>6. ASSUME Len(rest) >= 3
        PROVE  rest = SubSeq(rest, 1, n) \o left /\ Len(left) >= Len(rest) - 3
    <3>1. n \in 0..Len(rest)
      BY <1>2, <1>3, <2>6
    <3>2. rest = SubSeq(rest, 1, n) \o left /\ Len(left) = Len(rest) - n
      BY <3>1, ReadOff DEF left
    <3> QED BY <1>2, <1>3, <3>2
  <2>7. ASSUME intact
        PROVE  got = "right" <=>
                 \E i \in 1..3 : rest[i] = "right" /\ \A j \in 1..(i - 1) : rest[j] = "wrong"
    <3>1. ASSUME got = "right"
          PROVE  rest[n] = "right" /\ \A j \in 1..(n - 1) : rest[j] = "wrong"
      BY <1>3, <3>1 DEF Rejected, got
    <3>2. ASSUME NEW i \in 1..3, rest[i] = "right", \A j \in 1..(i - 1) : rest[j] = "wrong"
          PROVE  i = n
      <4>1. ~(n < i)
        <5> SUFFICES ASSUME n < i PROVE FALSE
          OBVIOUS
        <5>1. rest[n] = "wrong" /\ n # 3
          BY <1>3, <3>2
        <5> QED BY <5>1, <1>3, <2>7 DEF Rejected
      <4>2. ~(i < n)
        <5> SUFFICES ASSUME i < n PROVE FALSE
          OBVIOUS
        <5>1. rest[i] = "wrong"
          BY <1>3, <3>2 DEF Rejected
        <5> QED BY <5>1, <3>2
      <4> QED BY <4>1, <4>2, <1>3
    <3> QED BY <1>3, <2>7, <3>1, <3>2 DEF got
  <2>8. PromptEffect(source, intact, s, t)
    BY <1>0, <1>1, <1>10, <2>2, <2>4, <2>6, <2>7 DEF PromptEffect
  <2> QED BY <2>5, <2>8 DEF t
<1> QED BY <1>8, <1>9, <1>10
\* A command starts with nothing remembered and nothing read.
LEMMA FreshFacts ==
  ASSUME NEW answers
  PROVE  FreshPrompt(answers).cached = Nothing /\ FreshPrompt(answers).rest = answers
BY DEF FreshPrompt, PromptState, Nothing

\* The prompts of a command are one after the other what prompt makes of the last.
LEMMA PromptRun ==
  ASSUME NEW source \in {"terminal", "askpass", "nowhere"}, NEW intact \in BOOLEAN,
         NEW answers \in Seq(Answers), NEW s, s = Prompts(source, intact, answers)
  PROVE  LET N == Len(answers) \div 3 IN
         /\ s \in [0..N -> PromptStates]
         /\ s[0] = FreshPrompt(answers)
         /\ \A n \in 1..N : s[n] = prompt(source, intact, s[n - 1])
<1> DEFINE N == Len(answers) \div 3
           next == [n \in 1..N |-> [x \in PromptStates |-> prompt(source, intact, x)]]
           Run(f) == f = [n \in 0..N |-> IF n = 0 THEN FreshPrompt(answers)
                                         ELSE prompt(source, intact, f[n - 1])]
<1>1. N \in Nat
  <2>1. Len(answers) \in Nat
    BY LenProperties
  <2> QED BY <2>1
<1>2. FreshPrompt(answers) \in PromptStates
  BY DEF FreshPrompt, PromptState, PromptStates, Nothing
<1>3. next \in [1..N -> [PromptStates -> PromptStates]]
  <2>1. \A x \in PromptStates : prompt(source, intact, x) \in PromptStates
    BY PromptStep
  <2> QED BY <2>1
<1> HIDE DEF N
<1>4. PICK f \in [0..N -> PromptStates] :
        f[0] = FreshPrompt(answers) /\ \A n \in 1..N : f[n] = next[n][f[n - 1]]
  <2> HIDE DEF next
  <2>1. \E f : Unrolls(f, N, PromptStates, FreshPrompt(answers), next)
    BY Zenon, <1>1, <1>2, <1>3, Recursion
  <2> QED BY <2>1 DEF Unrolls
<1>5. Run(f)
  <2>1. ASSUME NEW n \in 0..N
        PROVE  f[n] = IF n = 0 THEN FreshPrompt(answers) ELSE prompt(source, intact, f[n - 1])
    <3>1. CASE n = 0
      BY <1>4, <3>1
    <3>2. CASE n # 0
      <4>1. n \in 1..N /\ n - 1 \in 0..N
        BY <1>1, <3>2
      <4>2. f[n - 1] \in PromptStates
        BY <1>4, <4>1
      <4> QED BY <1>4, <3>2, <4>1, <4>2
    <3> QED BY <3>1, <3>2
  <2> QED BY <2>1
<1>6. s = CHOOSE g : Run(g)
  BY DEF Prompts, passphraseAttempts, N
<1> HIDE DEF Run
<1>7. Run(s)
  BY <1>5, <1>6
<1>8. /\ s[0] = FreshPrompt(answers) /\ s = [n \in 0..N |-> s[n]]
      /\ \A n \in 1..N : s[n] = prompt(source, intact, s[n - 1])
  <2>1. ASSUME NEW n \in 1..N PROVE n \in 0..N /\ n # 0
    BY <1>1
  <2>2. 0 \in 0..N
    BY <1>1
  <2> QED BY <1>7, <2>1, <2>2 DEF Run
<1>9. \A n \in 0..N : s[n] \in PromptStates
  <2> DEFINE T == {n \in 0..N : s[n] \in PromptStates}
  <2>1. 0 \in T
    BY <1>1, <1>2, <1>8
  <2>2. ASSUME NEW n \in 0..(N - 1), n \in T PROVE n + 1 \in T
    <3>1. n + 1 \in 1..N /\ n + 1 \in 0..N /\ n + 1 - 1 = n
      BY <1>1
    <3>2. s[n + 1] = prompt(source, intact, s[n])
      <4>1. ASSUME NEW m, m \in 1..N, m - 1 = n PROVE s[m] = prompt(source, intact, s[n])
        BY Zenon, <1>8, <4>1
      <4>2. PICK m \in 1..N : m = n + 1
        BY <3>1
      <4>3. m - 1 = n
        BY <1>1, <4>2
      <4>4. s[m] = prompt(source, intact, s[n])
        BY Zenon, <4>1, <4>3
      <4> QED BY Zenon, <4>2, <4>4
    <3>3. s[n] \in PromptStates
      BY <2>2
    <3>4. s[n + 1] \in PromptStates
      BY <3>2, <3>3, PromptStep
    <3> QED BY <3>1, <3>4
  <2> HIDE DEF T
  <2>3. 0..N \subseteq T
    BY <1>1, <2>1, <2>2, UpTo
  <2> QED BY <2>3 DEF T
<1> QED BY <1>8, <1>9 DEF N

\* A prompt that is not the last finds three answers.
LEMMA ThreeLeft ==
  ASSUME NEW L \in Nat, NEW N \in Nat, NEW n \in Nat, NEW l \in Nat,
         3 * N <= L, l >= L - 3 * n
  PROVE  /\ n < N => l >= 3
         /\ \A m \in Nat : m >= l - 3 => m >= L - 3 * (n + 1)
OBVIOUS

\* Whoever types whatever, a passphrase is typed once (prompt.go).
LEMMA PassphraseTyped ==
  ASSUME NEW source \in {"terminal", "askpass", "nowhere"}, NEW intact \in BOOLEAN,
         NEW answers \in Seq(Answers)
  PROVE  TypedOnce(source, intact, answers)
<1> DEFINE N == Len(answers) \div 3  s == Prompts(source, intact, answers)
<1>1. PICK L \in Nat : L = Len(answers)
  BY LenProperties
<1>2. N \in Nat /\ 3 * N <= L
  BY <1>1
<1>3. /\ s \in [0..N -> PromptStates] /\ s[0] = FreshPrompt(answers)
      /\ \A n \in 1..N : s[n] = prompt(source, intact, s[n - 1])
  BY PromptRun
<1> HIDE DEF N, s
<1>4. ASSUME NEW n \in 1..N
      PROVE  /\ n - 1 \in 0..N /\ n \in 0..N /\ s[n - 1] \in PromptStates /\ s[n] \in PromptStates
             /\ PromptEffect(source, intact, s[n - 1], s[n])
  <2>1. n - 1 \in 0..N /\ n \in 0..N
    BY <1>2
  <2>2. s[n - 1] \in PromptStates /\ s[n] \in PromptStates
    BY <1>3, <2>1
  <2>3. s[n] = prompt(source, intact, s[n - 1])
    BY <1>3
  <2> QED BY <2>1, <2>2, <2>3, PromptStep
<1>5. s[0].cached = Nothing /\ s[0].rest = answers
  BY <1>3, FreshFacts
<1>6. \A n \in 0..N : Len(s[n].rest) \in Nat /\ Len(s[n].rest) >= L - 3 * n
  <2> DEFINE T == {n \in 0..N : Len(s[n].rest) \in Nat /\ Len(s[n].rest) >= L - 3 * n}
  <2>1. 0 \in T
    BY <1>1, <1>2, <1>5
  <2>2. ASSUME NEW n \in 0..(N - 1), n \in T PROVE n + 1 \in T
    <3>1. n + 1 \in 1..N /\ n + 1 \in 0..N /\ n + 1 - 1 = n
      BY <1>2
    <3>2. PromptEffect(source, intact, s[n], s[n + 1]) /\ s[n + 1] \in PromptStates
      BY <1>4, <3>1
    <3>3. PICK l \in Nat : l = Len(s[n].rest) /\ l >= L - 3 * n
      BY <2>2
    <3>4. /\ l >= 3
          /\ \A m \in Nat : m >= l - 3 => m >= L - 3 * (n + 1)
      <4>1. n \in Nat /\ n < N
        BY <1>2
      <4> QED BY <1>2, <3>3, <4>1, ThreeLeft
    <3>5. Len(s[n + 1].rest) >= l - 3
      BY <3>2, <3>3, <3>4 DEF PromptEffect
    <3>6. Len(s[n + 1].rest) \in Nat
      <4>1. s[n + 1].rest \in Seq(Answers)
        BY <3>2 DEF PromptStates
      <4> QED BY <4>1, LenProperties
    <3>7. PICK m \in Nat : m = Len(s[n + 1].rest)
      BY <3>6
    <3>8. m >= L - 3 * (n + 1)
      BY <3>4, <3>5, <3>7
    <3> QED BY <3>1, <3>7, <3>8
  <2> HIDE DEF T
  <2>3. 0..N \subseteq T
    BY <1>2, <2>1, <2>2, UpTo
  <2> QED BY <2>3 DEF T
<1>7. ASSUME source = "nowhere" \/ ~intact, NEW n \in 0..N PROVE s[n].cached = Nothing
  <2> DEFINE T == {k \in 0..N : s[k].cached = Nothing}
  <2>1. 0 \in T
    BY <1>2, <1>5
  <2>2. ASSUME NEW k \in 0..(N - 1), k \in T PROVE k + 1 \in T
    <3>1. k + 1 \in 1..N /\ k + 1 \in 0..N /\ k + 1 - 1 = k
      BY <1>2
    <3>2. PromptEffect(source, intact, s[k], s[k + 1])
      BY <1>4, <3>1
    <3>3. s[k + 1].cached = Nothing
      BY <1>7, <2>2, <3>2 DEF PromptEffect
    <3> QED BY <3>1, <3>3
  <2> HIDE DEF T
  <2>3. 0..N \subseteq T
    BY <1>2, <2>1, <2>2, UpTo
  <2> QED BY <2>3 DEF T
<1>8. ASSUME NEW n \in 1..N, s[n].got = "right", NEW k \in 0..N, k > n
      PROVE  s[k].got = "right" /\ s[k].reads = 0
  <2> DEFINE T == {i \in 0..N : i > n => s[i].got = "right" /\ s[i].reads = 0}
  <2>1. 0 \in T
    BY <1>2
  <2>2. ASSUME NEW i \in 0..(N - 1), i \in T PROVE i + 1 \in T
    <3>1. i + 1 \in 1..N /\ i + 1 \in 0..N /\ i + 1 - 1 = i
      BY <1>2
    <3>2. CASE i + 1 > n
      <4>1. s[i].got = "right"
        <5>1. i > n \/ i = n
          BY <1>2, <3>2
        <5> QED BY <1>8, <2>2, <5>1
      <4>2. i \in 1..N
        BY <1>2, <3>2
      <4>3. PromptEffect(source, intact, s[i - 1], s[i])
        BY <1>4, <4>2
      <4>4. s[i].cached = "right"
        BY <4>1, <4>3 DEF PromptEffect
      <4>5. PromptEffect(source, intact, s[i], s[i + 1])
        BY <1>4, <3>1
      <4> QED BY <3>1, <4>4, <4>5 DEF PromptEffect
    <3>3. CASE ~(i + 1 > n)
      BY <3>1, <3>3
    <3> QED BY <3>2, <3>3
  <2> HIDE DEF T
  <2>3. 0..N \subseteq T
    BY <1>2, <2>1, <2>2, UpTo
  <2> QED BY <1>8, <2>3 DEF T
<1>9. ASSUME NEW n \in 1..N
      PROVE  /\ s[n].got \in {"right", "error"}
             /\ s[n].reads <= passphraseAttempts
             /\ source = "nowhere" \/ ~intact => s[n].got = "error"
             /\ source = "nowhere" => s[n].reads = 0
             /\ s[n - 1].rest = SubSeq(s[n - 1].rest, 1, s[n].reads) \o s[n].rest
             /\ s[n].got = "right" => \A k \in 0..N : k > n => s[k].got = "right" /\ s[k].reads = 0
             /\ source # "nowhere" /\ intact =>
                  (s[n].got = "right" <=>
                     \/ s[n - 1].cached # Nothing
                     \/ \E i \in 1..passphraseAttempts :
                          /\ s[n - 1].rest[i] = "right"
                          /\ \A j \in 1..(i - 1) : s[n - 1].rest[j] = "wrong")
  <2>1. /\ n - 1 \in 0..N /\ s[n] \in PromptStates
        /\ PromptEffect(source, intact, s[n - 1], s[n])
    BY <1>4
  <2>2. s[n].reads <= 3
    <3>1. s[n].reads \in 0..3
      BY <2>1 DEF PromptStates
    <3> QED BY <3>1
  <2>3. Len(s[n - 1].rest) >= 3
    <3>1. PICK l \in Nat : l = Len(s[n - 1].rest) /\ l >= L - 3 * (n - 1)
      BY <1>6, <2>1
    <3>2. l >= 3
      <4>1. n - 1 \in Nat /\ n - 1 < N
        BY <1>2
      <4> QED BY <1>2, <3>1, <4>1, ThreeLeft
    <3> QED BY <3>1, <3>2
  <2>4. source = "nowhere" \/ ~intact => s[n - 1].cached = Nothing
    BY <1>7, <2>1
  <2> QED BY <1>8, <2>1, <2>2, <2>3, <2>4 DEF PromptEffect, passphraseAttempts
<1>10. DOMAIN s \ {0} = 1..N /\ DOMAIN s = 0..N
  BY <1>2, <1>3
<1> QED BY <1>9, <1>10 DEF TypedOnce, s, Nothing

-----------------------------------------------------------------------------
(* Recipients named in a command. *)

\* The lines of a list that is longer begin with those of the other.
Longer(s, t) == Len(s) <= Len(t) /\ \A i \in 1..Len(s) : t[i] = s[i]

\* Lines that are written on others are of K again.
Glues(K) == \A x, y \in K : x \o y \in K

\* A recipients.txt with lines of K, and what adding keys of K goes through.
FileOf(file, K) ==
  file.lines \in Seq(K) /\ file.tail \in Tails /\ (file.tail = "key" => file.lines # <<>>)
Runs(K) == {r \in [lines : Seq(K), tail : Tails, added : Nat, ok : BOOLEAN] : FileOf(r, K)}

\* Wherever a line is not the last one, without a newline, it is kept.
Kept(r, t) ==
  /\ Len(r.lines) <= Len(t.lines)
  /\ \A i \in 1..Len(r.lines) : i \notin Unended(r) => t.lines[i] = r.lines[i]

\* What adding the named keys does to a file that ends with a newline,
AddsWhole(r, t, named) ==
  /\ t.tail = "none"
  /\ Longer(r.lines, t.lines)
  /\ IsInjective(r.lines) => IsInjective(t.lines)
  /\ t.added + Len(r.lines) = r.added + Len(t.lines)
  /\ ToSet(t.lines) \cap Refusable = ToSet(r.lines) \cap Refusable
  /\ t.ok => ToSet(t.lines) = ToSet(r.lines) \cup named

\* to one that does not, while there is nothing new,
AddsNone(r, t, named) ==
  t.lines = r.lines /\ t.tail = r.tail /\ (t.ok => named \subseteq ToSet(r.lines))

\* and from the first new one on.
AddsOnto(r, t, named) ==
  /\ r.added < t.added /\ t.tail = "none"
  /\ t.added + Len(r.lines) = r.added + Len(t.lines) + 1
  /\ Kept(r, t)
  /\ t.ok => \A x, y \in named \ (ToSet(t.lines) \cup LastOf(r)) : x = y

\* What adding keys, the named ones of readable arguments, does to a file.
Adds(r, t, readable, named) ==
  /\ t.ok <=> r.ok /\ readable /\ named \cap Refusable = {}
  /\ ~r.ok => t = r
  /\ r.tail = "none" => AddsWhole(r, t, named)
  /\ r.tail # "none" => IF t.added = r.added THEN AddsNone(r, t, named) ELSE AddsOnto(r, t, named)

\* A function over the numbers up to n is a sequence.
LEMMA ListSeq ==
  ASSUME NEW S, NEW n \in Nat, NEW f \in [1..n -> S]
  PROVE  f \in Seq(S) /\ Len(f) = n
OBVIOUS

\* A list that is longer has the other one as its prefix.
LEMMA PrefixOfLonger ==
  ASSUME NEW S, NEW s \in Seq(S), NEW t \in Seq(S), Longer(s, t)
  PROVE  IsPrefix(s, t)
<1>1. /\ Len(s) \in Nat /\ Len(t) \in Nat /\ Len(s) <= Len(t)
      /\ \A i \in 1..Len(s) : s[i] \in S /\ t[i] = s[i]
  BY LenProperties DEF Longer
<1>2. SubSeq(s, 1, Len(s)) = s
  BY SubSeqFull
<1> DEFINE u == SubSeq(t, 1, Len(s))
<1>3. /\ u \in Seq(S)
      /\ Len(u) = IF 1 <= Len(s) THEN Len(s) - 1 + 1 ELSE 0
      /\ \A i \in 1..(Len(s) - 1 + 1) : u[i] = t[1 + i - 1]
  <2>1. \A i \in 1..Len(s) : t[i] \in S
    BY <1>1
  <2> QED BY <1>1, <2>1, SubSeqProperties
<1> HIDE DEF u
<1>4. Len(u) = Len(s) /\ \A i \in 1..Len(s) : s[i] = u[i]
  BY <1>1, <1>3
<1>5. s = u
  BY <1>3, <1>4, SeqEqual
<1> QED BY <1>1, <1>2, <1>5 DEF IsPrefix, u

\* A list is no longer than itself, and what is longer than a longer one is longer.
LEMMA LongerStill ==
  ASSUME NEW K
  PROVE  /\ \A r \in Seq(K) : Longer(r, r)
         /\ \A r, s, t \in Seq(K) : Longer(r, s) /\ Longer(s, t) => Longer(r, t)
<1>1. \A r \in Seq(K) : Len(r) \in Nat
  BY LenProperties
<1> QED BY <1>1 DEF Longer

\* A longer list has all that the other one has.
LEMMA LongerHas ==
  ASSUME NEW K, NEW r \in Seq(K), NEW t \in Seq(K), Longer(r, t)
  PROVE  ToSet(r) \subseteq ToSet(t)
<1>1. DOMAIN r = 1..Len(r) /\ DOMAIN t = 1..Len(t) /\ Len(r) \in Nat /\ Len(t) \in Nat
  BY LenProperties
<1>2. \A i \in 1..Len(r) : i \in 1..Len(t) /\ t[i] = r[i]
  BY <1>1 DEF Longer
<1> QED BY <1>1, <1>2 DEF ToSet

\* What is kept of a file without a newline at its end is in the other one or its last.
LEMMA KeptHas ==
  ASSUME NEW K, NEW r \in Runs(K), NEW t \in Runs(K), Kept(r, t)
  PROVE  ToSet(r.lines) \subseteq ToSet(t.lines) \cup LastOf(r)
<1>1. /\ DOMAIN r.lines = 1..Len(r.lines) /\ DOMAIN t.lines = 1..Len(t.lines)
      /\ Len(r.lines) \in Nat /\ Len(t.lines) \in Nat
  BY LenProperties DEF Runs
<1>2. \A i \in 1..Len(r.lines) : i \in 1..Len(t.lines)
  BY <1>1 DEF Kept
<1>3. \A i \in 1..Len(r.lines) : i \in Unended(r) \/ t.lines[i] = r.lines[i]
  BY DEF Kept
<1> QED BY <1>1, <1>2, <1>3 DEF ToSet, LastOf

\* Adding to a file that ends with a newline is added up,
LEMMA AddsWholeOn ==
  ASSUME NEW K, NEW r \in Runs(K), NEW s \in Runs(K), NEW t \in Runs(K), NEW A, NEW B,
         t.ok => s.ok, AddsWhole(r, s, A), AddsWhole(s, t, B)
  PROVE  AddsWhole(r, t, A \cup B)
<1>1. r.lines \in Seq(K) /\ s.lines \in Seq(K) /\ t.lines \in Seq(K)
  BY DEF Runs
<1>2. Longer(r.lines, t.lines)
  BY <1>1, LongerStill DEF AddsWhole
<1>3. t.added + Len(r.lines) = r.added + Len(t.lines)
  <2>1. \A w \in Seq(K) : Len(w) \in Nat
    BY LenProperties
  <2>2. PICK l, m, n \in Nat : l = Len(r.lines) /\ m = Len(s.lines) /\ n = Len(t.lines)
    BY <1>1, <2>1
  <2>3. PICK x, y, z \in Nat : x = r.added /\ y = s.added /\ z = t.added
    BY DEF Runs
  <2>4. y + l = x + m /\ z + m = y + n
    BY <2>2, <2>3 DEF AddsWhole
  <2>5. z + l = x + n
    BY <2>4
  <2> QED BY <2>2, <2>3, <2>5
<1> QED BY <1>2, <1>3 DEF AddsWhole

\* and to one that does not.
LEMMA AddsOntoOn ==
  ASSUME NEW K, NEW r \in Runs(K), NEW s \in Runs(K), NEW t \in Runs(K), NEW A, NEW B,
         t.ok => s.ok, r.tail # "none",
         \/ s.added = r.added /\ AddsNone(r, s, A) /\ t.added # s.added /\ AddsOnto(s, t, B)
         \/ AddsOnto(r, s, A) /\ AddsWhole(s, t, B)
  PROVE  t.added # r.added /\ AddsOnto(r, t, A \cup B)
<1>1. PICK l, m, n \in Nat : l = Len(r.lines) /\ m = Len(s.lines) /\ n = Len(t.lines)
  <2>1. \A w \in Seq(K) : Len(w) \in Nat
    BY LenProperties
  <2>2. r.lines \in Seq(K) /\ s.lines \in Seq(K) /\ t.lines \in Seq(K)
    BY DEF Runs
  <2> QED BY <2>1, <2>2
<1>2. PICK x, y, z \in Nat : x = r.added /\ y = s.added /\ z = t.added
  BY DEF Runs
<1>3. CASE s.added = r.added /\ AddsNone(r, s, A) /\ t.added # s.added /\ AddsOnto(s, t, B)
  <2>1. s.lines = r.lines /\ s.tail = r.tail /\ s.added = r.added
    BY <1>3 DEF AddsNone
  <2>2. Unended(s) = Unended(r) /\ LastOf(s) = LastOf(r)
    BY <2>1 DEF Unended, LastOf
  <2>3. Kept(r, t)
    BY <1>3, <2>1, <2>2 DEF AddsOnto, Kept
  <2>4. ToSet(r.lines) \subseteq ToSet(t.lines) \cup LastOf(r)
    BY <2>3, KeptHas
  <2>5. t.ok => /\ A \subseteq ToSet(r.lines)
                /\ \A c, d \in B \ (ToSet(t.lines) \cup LastOf(r)) : c = d
    BY <1>3, <2>2 DEF AddsNone, AddsOnto
  <2>6. t.ok => \A c, d \in (A \cup B) \ (ToSet(t.lines) \cup LastOf(r)) : c = d
    BY <2>4, <2>5
  <2>7. /\ r.added < t.added /\ t.tail = "none"
        /\ t.added + Len(r.lines) = r.added + Len(t.lines) + 1
    BY <1>3, <2>1 DEF AddsOnto
  <2>8. t.added # r.added
    BY <1>2, <2>7
  <2> QED BY <2>3, <2>6, <2>7, <2>8 DEF AddsOnto
<1>4. CASE AddsOnto(r, s, A) /\ AddsWhole(s, t, B)
  <2>1. y + l = x + m + 1 /\ x < y /\ z + m = y + n /\ l <= m /\ m <= n
    BY <1>1, <1>2, <1>4 DEF AddsOnto, AddsWhole, Kept, Longer
  <2>2. x < z /\ z + l = x + n + 1 /\ z # x /\ l <= n
    BY <2>1
  <2>3. Kept(r, t)
    <3>1. \A i \in 1..l : i \in 1..m
      BY <2>1
    <3>2. \A i \in 1..l : i \notin Unended(r) => s.lines[i] = r.lines[i]
      BY <1>1, <1>4 DEF AddsOnto, Kept
    <3>3. \A i \in 1..m : t.lines[i] = s.lines[i]
      BY <1>1, <1>4 DEF AddsWhole, Longer
    <3> QED BY <1>1, <2>2, <3>1, <3>2, <3>3 DEF Kept
  <2>4. t.ok => /\ ToSet(t.lines) = ToSet(s.lines) \cup B
                /\ \A c, d \in A \ (ToSet(s.lines) \cup LastOf(r)) : c = d
    BY <1>4 DEF AddsWhole, AddsOnto
  <2>5. t.ok => \A c, d \in (A \cup B) \ (ToSet(t.lines) \cup LastOf(r)) : c = d
    BY <2>4
  <2>6. t.tail = "none"
    BY <1>4 DEF AddsWhole
  <2> QED BY <1>1, <1>2, <2>2, <2>3, <2>5, <2>6 DEF AddsOnto
<1> QED BY <1>3, <1>4

\* Adding is added up.
LEMMA AddsOn ==
  ASSUME NEW K, NEW r \in Runs(K), NEW s \in Runs(K), NEW t \in Runs(K),
         NEW a, NEW b, NEW c, c <=> a /\ b, NEW A, NEW B,
         Adds(r, s, a, A), Adds(s, t, b, B)
  PROVE  Adds(r, t, c, A \cup B)
<1>1. /\ t.ok <=> r.ok /\ c /\ (A \cup B) \cap Refusable = {}
      /\ t.ok => s.ok
      /\ ~r.ok => t = r
  BY DEF Adds
<1>2. ASSUME r.tail = "none" PROVE AddsWhole(r, t, A \cup B)
  <2>1. AddsWhole(r, s, A)
    BY <1>2 DEF Adds
  <2>2. AddsWhole(s, t, B)
    BY <2>1 DEF Adds, AddsWhole
  <2> QED BY <1>1, <2>1, <2>2, AddsWholeOn
<1>3. ASSUME r.tail # "none"
      PROVE  IF t.added = r.added THEN AddsNone(r, t, A \cup B) ELSE AddsOnto(r, t, A \cup B)
  <2>1. CASE s.added = r.added
    <3>1. AddsNone(r, s, A)
      BY <1>3, <2>1 DEF Adds
    <3>2. s.tail # "none"
      BY <1>3, <3>1 DEF AddsNone
    <3>3. CASE t.added = s.added
      <4>1. AddsNone(s, t, B)
        BY <3>2, <3>3 DEF Adds
      <4>2. AddsNone(r, t, A \cup B)
        BY <1>1, <3>1, <4>1 DEF AddsNone
      <4> QED BY <2>1, <3>3, <4>2
    <3>4. CASE t.added # s.added
      <4>1. AddsOnto(s, t, B)
        BY <3>2, <3>4 DEF Adds
      <4>2. t.added # r.added /\ AddsOnto(r, t, A \cup B)
        BY <1>1, <1>3, <2>1, <3>1, <3>4, <4>1, AddsOntoOn
      <4> QED BY <4>2
    <3> QED BY <3>3, <3>4
  <2>2. CASE s.added # r.added
    <3>1. AddsOnto(r, s, A)
      BY <1>3, <2>2 DEF Adds
    <3>2. AddsWhole(s, t, B)
      BY <3>1 DEF Adds, AddsOnto
    <3>3. t.added # r.added /\ AddsOnto(r, t, A \cup B)
      BY <1>1, <1>3, <3>1, <3>2, AddsOntoOn
    <3> QED BY <3>3
  <2> QED BY <2>1, <2>2
<1> QED BY <1>1, <1>2, <1>3 DEF Adds

\* Adding nothing changes nothing.
LEMMA AddsNothing == ASSUME NEW K, NEW r \in Runs(K) PROVE Adds(r, r, TRUE, {})
<1>1. r.lines \in Seq(K) /\ Len(r.lines) \in Nat /\ r.added \in Nat /\ r.ok \in BOOLEAN
  BY LenProperties DEF Runs
<1>2. Longer(r.lines, r.lines)
  BY <1>1, LongerStill
<1>3. r.tail = "none" => AddsWhole(r, r, {})
  BY <1>1, <1>2 DEF AddsWhole
<1>4. AddsNone(r, r, {})
  BY DEF AddsNone
<1> QED BY <1>1, <1>3, <1>4 DEF Adds

\* What a key is written to has a newline at its end.
Ended(lines, added) == [lines |-> lines, tail |-> "none", added |-> added, ok |-> TRUE]

\* It can be gone on from.
LEMMA EndedRuns ==
  ASSUME NEW K, NEW lines \in Seq(K), NEW added \in Nat
  PROVE  LET t == Ended(lines, added) IN
         t \in Runs(K) /\ t.lines = lines /\ t.tail = "none" /\ t.added = added /\ t.ok
<1> DEFINE t == Ended(lines, added)
<1>1. t.lines = lines /\ t.tail = "none" /\ t.added = added /\ t.ok
  BY DEF Ended
<1>2. t \in [lines : Seq(K), tail : Tails, added : Nat, ok : BOOLEAN]
  BY DEF Ended, Tails
<1> HIDE DEF t
<1>3. FileOf(t, K)
  BY <1>1 DEF FileOf, Tails
<1> QED BY <1>1, <1>2, <1>3 DEF Runs, t

\* A key that is new to a file with a newline at its end is another line of it.
LEMMA KeyAppended ==
  ASSUME NEW K, NEW r \in Runs(K), NEW t \in Runs(K),
         NEW key \in K \ (Refusable \cup ToSet(r.lines)),
         t.ok, t.tail = "none", t.added = r.added + 1, t.lines = Append(r.lines, key)
  PROVE  AddsWhole(r, t, {key})
<1> DEFINE lines == r.lines  more == Append(lines, key)
<1>1. lines \in Seq(K) /\ Len(lines) \in Nat /\ DOMAIN lines = 1..Len(lines) /\ r.added \in Nat
  BY LenProperties DEF Runs
<1>2. /\ more \in Seq(K) /\ Len(more) = Len(lines) + 1
      /\ \A i \in 1..Len(lines) : more[i] = lines[i]
      /\ more[Len(lines) + 1] = key
  BY <1>1, AppendProperties
<1>3. DOMAIN more = 1..(Len(lines) + 1)
  BY <1>2, LenProperties
<1>4. t.lines = more /\ key \notin ToSet(lines) /\ key \notin Refusable
  OBVIOUS
<1> HIDE DEF more
<1>5. Longer(lines, more)
  BY <1>1, <1>2 DEF Longer
<1>6. \A i \in 1..(Len(lines) + 1) : i \in 1..Len(lines) \/ i = Len(lines) + 1
  BY <1>1
<1>7. ToSet(more) = ToSet(lines) \cup {key}
  <2>1. \A i \in 1..Len(lines) : i \in 1..(Len(lines) + 1)
    BY <1>1
  <2>2. Len(lines) + 1 \in 1..(Len(lines) + 1)
    BY <1>1
  <2> HIDE DEF lines
  <2> QED BY <1>1, <1>2, <1>3, <1>6, <2>1, <2>2 DEF ToSet
<1>8. ASSUME IsInjective(lines) PROVE IsInjective(more)
  <2>1. \A i \in 1..Len(lines) : lines[i] # key
    BY <1>1, <1>4 DEF ToSet
  <2>2. \A i, j \in 1..Len(lines) : lines[i] = lines[j] => i = j
    BY <1>1, <1>8 DEF IsInjective
  <2> HIDE DEF lines
  <2> QED BY <1>2, <1>3, <1>6, <2>1, <2>2 DEF IsInjective
<1>9. t.added + Len(lines) = r.added + Len(more)
  <2>1. PICK l \in Nat, x \in Nat : l = Len(lines) /\ x = r.added
    BY <1>1
  <2>2. t.added = x + 1 /\ Len(more) = l + 1
    BY <1>2, <2>1
  <2>3. (x + 1) + l = x + (l + 1)
    OBVIOUS
  <2> QED BY <2>1, <2>2, <2>3
<1> QED BY <1>4, <1>5, <1>7, <1>8, <1>9 DEF AddsWhole

\* One that is new to a file without is lost, and a last line that is a key with it.
LEMMA KeyWrittenOn ==
  ASSUME NEW K, Glues(K), NEW r \in Runs(K), NEW key \in K, r.tail # "none",
         NEW t, t = Added(Written(r, key), r.added + 1, TRUE)
  PROVE  t \in Runs(K) /\ t.added # r.added /\ AddsOnto(r, t, {key})
<1>1. PICK lines \in Seq(K) : lines = r.lines
  BY DEF Runs
<1>2. PICK n \in Nat : n = Len(lines) /\ DOMAIN lines = 1..n /\ lines \in [1..n -> K]
  BY LenProperties
<1>3. PICK x \in Nat : x = r.added
  BY DEF Runs
<1>4. r.tail \in {"key", "comment"} /\ (r.tail = "key" => lines # <<>>)
  BY <1>1 DEF Runs, FileOf, Tails
<1>5. PICK more : more = Written(r, key).lines
  OBVIOUS
<1>6. /\ more \in Seq(K) /\ Len(more) = n
      /\ \A i \in 1..n : i \notin Unended(r) => more[i] = lines[i]
  <2>1. CASE r.tail = "comment"
    <3>1. more = lines
      BY <1>1, <1>5, <2>1 DEF Written
    <3> QED BY <1>2, <3>1
  <2>2. CASE r.tail = "key"
    <3>1. n \in 1..n
      <4>1. n # 0
        BY <1>2, <1>4, <2>2, EmptySeq
      <4> QED BY <4>1
    <3>2. PICK last \in K : last = lines[n] \o key
      BY <1>2, <3>1 DEF Glues
    <3>3. more = [lines EXCEPT ![n] = last]
      BY <1>1, <1>2, <1>5, <2>2, <3>2 DEF Written
    <3>4. n \in Unended(r)
      BY <1>1, <1>2, <2>2 DEF Unended
    <3>5. more = [i \in 1..n |-> IF i = n THEN last ELSE lines[i]]
      BY <1>2, <3>3
    <3>6. more \in [1..n -> K]
      BY <1>2, <3>5
    <3>7. more \in Seq(K) /\ Len(more) = n
      BY <3>6, ListSeq
    <3>8. \A i \in 1..n : i \notin Unended(r) => more[i] = lines[i]
      BY <3>4, <3>5
    <3> QED BY <3>7, <3>8
  <2> QED BY <1>4, <2>1, <2>2
<1>7. t = Ended(more, x + 1)
  BY <1>3, <1>5 DEF Added, Written, Ended
<1>8. more \in Seq(K) /\ x + 1 \in Nat
  BY <1>6
<1>9. t \in Runs(K) /\ t.lines = more /\ t.added = x + 1 /\ t.tail = "none" /\ t.ok
  <2>1. /\ Ended(more, x + 1) \in Runs(K)
        /\ Ended(more, x + 1).lines = more /\ Ended(more, x + 1).tail = "none"
        /\ Ended(more, x + 1).added = x + 1 /\ Ended(more, x + 1).ok
    BY <1>8, EndedRuns
  <2> QED BY Zenon, <1>7, <2>1
<1>10. Kept(r, t)
  <2>1. n <= n /\ Len(t.lines) = n /\ Len(r.lines) = n
    <3>1. n <= n
      OBVIOUS
    <3>2. Len(t.lines) = n /\ Len(r.lines) = n
      BY Zenon, <1>1, <1>2, <1>6, <1>9
    <3> QED BY <3>1, <3>2
  <2>2. \A i \in 1..n : i \notin Unended(r) => t.lines[i] = r.lines[i]
    BY <1>1, <1>6, <1>9
  <2> QED BY <2>1, <2>2 DEF Kept
<1>11. r.added < t.added /\ t.added # r.added /\ t.added + Len(r.lines) = r.added + Len(t.lines) + 1
  <2>1. x < x + 1 /\ x + 1 # x /\ (x + 1) + n = x + n + 1
    OBVIOUS
  <2> QED BY <1>1, <1>2, <1>3, <1>6, <1>9, <2>1
<1>12. \A c, d \in {key} \ (ToSet(t.lines) \cup LastOf(r)) : c = d
  OBVIOUS
<1> QED BY <1>9, <1>10, <1>11, <1>12 DEF AddsOnto

\* One key is written, is there, or is refused (crypto.go:81-112).
LEMMA OneKey ==
  ASSUME NEW K, Glues(K), NEW r \in Runs(K), NEW key \in K
  PROVE  /\ AddRecipient(r, key) \in Runs(K)
         /\ Adds(r, AddRecipient(r, key), TRUE, {key})
         /\ r.ok /\ r.tail = "none" /\ key \notin Refusable =>
              /\ AddRecipient(r, key).ok
              /\ AddRecipient(r, key).lines
                   = IF key \in ToSet(r.lines) THEN r.lines ELSE Append(r.lines, key)
<1> DEFINE t == AddRecipient(r, key)
<1>1. /\ r.lines \in Seq(K) /\ r.added \in Nat /\ r.ok \in BOOLEAN
      /\ r = [lines |-> r.lines, tail |-> r.tail, added |-> r.added, ok |-> r.ok]
  BY DEF Runs
<1>2. Adds(r, r, TRUE, {})
  BY AddsNothing
<1>3. CASE ~r.ok
  <2>1. t = r
    BY <1>3 DEF AddRecipient
  <2>2. (r.tail = "none" => AddsWhole(r, r, {})) /\ (r.tail # "none" => AddsNone(r, r, {}))
    BY <1>2 DEF Adds
  <2>3. /\ r.tail = "none" => AddsWhole(r, r, {key})
        /\ r.tail # "none" => AddsNone(r, r, {key})
    BY <1>3, <2>2 DEF AddsWhole, AddsNone
  <2> QED BY <1>3, <2>1, <2>3 DEF Adds
<1>4. CASE r.ok /\ key \in Refusable
  <2>1. t = [r EXCEPT !.ok = FALSE]
    BY <1>4 DEF AddRecipient
  <2>2. t \in Runs(K) /\ t.lines = r.lines /\ t.tail = r.tail /\ t.added = r.added /\ ~t.ok
    BY <2>1 DEF Runs, FileOf
  <2>3. (r.tail = "none" => AddsWhole(r, r, {})) /\ (r.tail # "none" => AddsNone(r, r, {}))
    BY <1>2 DEF Adds
  <2>4. /\ r.tail = "none" => AddsWhole(r, t, {key})
        /\ r.tail # "none" => AddsNone(r, t, {key})
    BY <2>2, <2>3 DEF AddsWhole, AddsNone
  <2> QED BY <1>4, <2>2, <2>4 DEF Adds
<1>5. CASE r.ok /\ key \notin Refusable /\ key \in ToSet(r.lines)
  <2>1. t = r
    BY <1>5 DEF AddRecipient
  <2>2. (r.tail = "none" => AddsWhole(r, r, {})) /\ (r.tail # "none" => AddsNone(r, r, {}))
    BY <1>2 DEF Adds
  <2>3. /\ r.tail = "none" => AddsWhole(r, r, {key})
        /\ r.tail # "none" => AddsNone(r, r, {key})
    BY <1>5, <2>2 DEF AddsWhole, AddsNone
  <2> QED BY <1>5, <2>1, <2>3 DEF Adds
<1>6. CASE r.ok /\ key \notin Refusable /\ key \notin ToSet(r.lines)
  <2>1. t = Added(Written(r, key), r.added + 1, TRUE)
    BY <1>6 DEF AddRecipient
  <2>2. CASE r.tail = "none"
    <3>1. t = Ended(Append(r.lines, key), r.added + 1)
      BY <2>1, <2>2 DEF Added, Written, Ended
    <3>2. Append(r.lines, key) \in Seq(K) /\ r.added + 1 \in Nat
      BY <1>1, AppendProperties
    <3> HIDE DEF t
    <3>3. t \in Runs(K)
      BY Zenon, <3>1, <3>2, EndedRuns
    <3>4. /\ t.ok /\ t.tail = "none" /\ t.added = r.added + 1 /\ t.lines = Append(r.lines, key)
      BY Zenon, <3>1, <3>2, EndedRuns
    <3>5. AddsWhole(r, t, {key})
      BY <1>6, <3>3, <3>4, KeyAppended
    <3> QED BY <1>6, <2>2, <3>3, <3>4, <3>5 DEF Adds, t
  <2>3. CASE r.tail # "none"
    <3>1. t \in Runs(K) /\ t.added # r.added /\ AddsOnto(r, t, {key})
      BY <2>1, <2>3, KeyWrittenOn
    <3>2. t.ok
      BY <2>1 DEF Added
    <3> QED BY <1>6, <2>3, <3>1, <3>2 DEF Adds
  <2> QED BY <2>2, <2>3
<1> QED BY <1>3, <1>4, <1>5, <1>6

\* The lists that an addition goes through.
KeyRun(f, r, keys, K) ==
  /\ f \in [0..Len(keys) -> Runs(K)]
  /\ f[0] = r /\ f[Len(keys)] = AddKeys(r, keys)
  /\ \A n \in 1..Len(keys) : f[n] = AddRecipient(f[n - 1], keys[n])

\* It goes through them.
LEMMA KeysRun ==
  ASSUME NEW K, Glues(K), NEW r \in Runs(K), NEW keys \in Seq(K)
  PROVE  \E f : KeyRun(f, r, keys, K)
<1> DEFINE N == Len(keys)
           next == [n \in 1..N |-> [x \in Runs(K) |-> AddRecipient(x, keys[n])]]
           Run(f) == f = [n \in 0..N |-> IF n = 0 THEN r ELSE AddRecipient(f[n - 1], keys[n])]
           s == CHOOSE g : Run(g)
<1>1. N \in Nat /\ \A n \in 1..N : keys[n] \in K
  BY LenProperties
<1>2. AddKeys(r, keys) = s[N]
  BY DEF AddKeys
<1>3. next \in [1..N -> [Runs(K) -> Runs(K)]]
  BY <1>1, OneKey
<1> HIDE DEF N, s
<1>4. PICK f : Unrolls(f, N, Runs(K), r, next)
  <2> HIDE DEF next
  <2> QED BY Zenon, <1>1, <1>3, Recursion
<1>5. /\ f \in [0..N -> Runs(K)]
      /\ f[0] = r /\ \A n \in 1..N : f[n] = next[n][f[n - 1]]
  BY <1>4 DEF Unrolls
<1>6. \A n \in 1..N : f[n] = AddRecipient(f[n - 1], keys[n])
  <2> SUFFICES ASSUME NEW n \in 1..N PROVE f[n] = AddRecipient(f[n - 1], keys[n])
    OBVIOUS
  <2>1. n - 1 \in 0..N
    BY <1>1
  <2>2. f[n - 1] \in Runs(K)
    BY <1>5, <2>1
  <2> QED BY <1>5, <2>2
<1> HIDE DEF next
<1>7. Run(f)
  <2>1. ASSUME NEW n \in 0..N
        PROVE  f[n] = IF n = 0 THEN r ELSE AddRecipient(f[n - 1], keys[n])
    <3>1. n = 0 \/ n \in 1..N
      BY <1>1
    <3>2. n \in 1..N => n # 0
      BY <1>1
    <3> QED BY <1>5, <1>6, <3>1, <3>2
  <2> QED BY <1>5, <2>1
<1> HIDE DEF Run
<1>8. Run(s)
  BY <1>7 DEF s
<1>9. s = f
  <2>1. ASSUME NEW g, Run(g) PROVE g = f
    <3>1. /\ g = [n \in 0..N |-> g[n]] /\ f = [n \in 0..N |-> f[n]]
          /\ g[0] = r
      BY <1>1, <1>5, <2>1 DEF Run
    <3>2. \A n \in 1..N : g[n] = AddRecipient(g[n - 1], keys[n])
      <4>1. \A n \in 1..N : n \in 0..N /\ n # 0
        BY <1>1
      <4> QED BY <2>1, <4>1 DEF Run
    <3> DEFINE T == {n \in 0..N : g[n] = f[n]}
    <3>3. 0 \in T
      BY <1>1, <1>5, <3>1
    <3>4. ASSUME NEW n \in 0..(N - 1), n \in T PROVE n + 1 \in T
      <4>1. PICK m \in 1..N : m = n + 1 /\ m - 1 = n /\ m \in 0..N
        BY <1>1
      <4>2. g[m - 1] = f[m - 1]
        BY Zenon, <3>4, <4>1
      <4>3. g[m] = f[m]
        BY Zenon, <1>6, <3>2, <4>2
      <4> QED BY <4>1, <4>3
    <3> HIDE DEF T
    <3>5. 0..N \subseteq T
      BY <1>1, <3>3, <3>4, UpTo
    <3>6. \A n \in 0..N : g[n] = f[n]
      BY <3>5 DEF T
    <3> QED BY <3>1, <3>6
  <2> QED BY <1>8, <2>1
<1> QED BY <1>1, <1>2, <1>5, <1>6, <1>9 DEF KeyRun, N

\* A file that goes through several keys.
Onwards(K) ==
  {p \in Runs(K) \X Runs(K) :
     /\ p[1].tail = "none" => p[2].tail = "none" /\ Longer(p[1].lines, p[2].lines)
     /\ ~p[1].ok => p[2] = p[1]}

\* That is an order.
LEMMA OnwardsOrder ==
  ASSUME NEW K
  PROVE  /\ \A x \in Runs(K) : <<x, x>> \in Onwards(K)
         /\ \A x, y, z \in Runs(K) :
              <<x, y>> \in Onwards(K) /\ <<y, z>> \in Onwards(K) => <<x, z>> \in Onwards(K)
<1>1. \A x \in Runs(K) : x.lines \in Seq(K)
  BY DEF Runs
<1>2. ASSUME NEW x \in Runs(K) PROVE <<x, x>> \in Onwards(K)
  BY <1>1, LongerStill DEF Onwards
<1>3. ASSUME NEW x \in Runs(K), NEW y \in Runs(K), NEW z \in Runs(K),
             <<x, y>> \in Onwards(K), <<y, z>> \in Onwards(K)
      PROVE  <<x, z>> \in Onwards(K)
  <2>1. /\ x.tail = "none" => /\ y.tail = "none" /\ Longer(x.lines, y.lines)
                              /\ z.tail = "none" /\ Longer(y.lines, z.lines)
        /\ ~x.ok => y = x /\ z = x
    BY <1>3 DEF Onwards
  <2>2. x.tail = "none" => Longer(x.lines, z.lines)
    BY <1>1, <2>1, LongerStill
  <2> QED BY <2>1, <2>2 DEF Onwards
<1> QED BY <1>2, <1>3

\* Every key of a run is added to what the last one left, and leads to the end.
LEMMA KeysAdd ==
  ASSUME NEW K, Glues(K), NEW r \in Runs(K), NEW keys \in Seq(K)
  PROVE  /\ AddKeys(r, keys) \in Runs(K)
         /\ Adds(r, AddKeys(r, keys), TRUE, ToSet(keys))
         /\ \A f : KeyRun(f, r, keys, K) =>
              \A n \in 0..Len(keys) : <<f[n], AddKeys(r, keys)>> \in Onwards(K)
<1> DEFINE N == Len(keys)  named(n) == {keys[i] : i \in 1..n}
<1>1. N \in Nat /\ DOMAIN keys = 1..N /\ \A n \in 1..N : keys[n] \in K
  BY LenProperties
<1>a. named(N) = ToSet(keys)
  BY <1>1 DEF ToSet
<1>b. named(0) = {}
  OBVIOUS
<1>c. \A n \in Nat : named(n + 1) = named(n) \cup {keys[n + 1]}
  <2> SUFFICES ASSUME NEW n \in Nat PROVE named(n + 1) = named(n) \cup {keys[n + 1]}
    OBVIOUS
  <2>1. 1..(n + 1) = 1..n \cup {n + 1}
    OBVIOUS
  <2> QED BY <2>1
<1> HIDE DEF N, named
<1>2. ASSUME NEW f, KeyRun(f, r, keys, K)
      PROVE  /\ AddKeys(r, keys) \in Runs(K)
             /\ Adds(r, AddKeys(r, keys), TRUE, ToSet(keys))
             /\ \A n \in 0..N : <<f[n], AddKeys(r, keys)>> \in Onwards(K)
  <2>1. /\ f \in [0..N -> Runs(K)] /\ f[0] = r /\ f[N] = AddKeys(r, keys)
        /\ \A n \in 1..N : f[n] = AddRecipient(f[n - 1], keys[n])
    BY <1>2 DEF KeyRun, N
  <2>2. \A n \in 0..N : f[n] \in Runs(K)
    BY <2>1
  <2>3. ASSUME NEW n \in 1..N PROVE n - 1 \in 0..N /\ Adds(f[n - 1], f[n], TRUE, {keys[n]})
    <3>1. n - 1 \in 0..N
      BY <1>1
    <3>2. Adds(f[n - 1], AddRecipient(f[n - 1], keys[n]), TRUE, {keys[n]})
      BY <1>1, <2>2, <3>1, OneKey
    <3> QED BY <2>1, <3>1, <3>2
  <2> DEFINE T == {n \in 0..N : Adds(r, f[n], TRUE, named(n))}
  <2>4. 0 \in T
    <3>1. Adds(f[0], f[0], TRUE, {})
      BY <2>1, AddsNothing
    <3> QED BY <1>1, <1>b, <2>1, <3>1
  <2>5. ASSUME NEW n \in 0..(N - 1), n \in T PROVE n + 1 \in T
    <3>1. PICK m \in 1..N : m = n + 1 /\ m - 1 = n /\ m \in 0..N /\ n \in 0..N /\ n \in Nat
      BY <1>1
    <3>2. Adds(f[m - 1], f[m], TRUE, {keys[m]})
      BY <2>3
    <3>3. Adds(f[n], f[m], TRUE, {keys[m]})
      BY Zenon, <3>1, <3>2
    <3>4. Adds(r, f[m], TRUE, named(n) \cup {keys[m]})
      BY <2>2, <2>5, <3>1, <3>3, AddsOn
    <3>5. named(m) = named(n) \cup {keys[m]}
      BY <1>c, <3>1
    <3>6. Adds(r, f[m], TRUE, named(m))
      BY <3>4, <3>5
    <3> QED BY <3>1, <3>6
  <2> HIDE DEF T
  <2>6. 0..N \subseteq T
    BY <1>1, <2>4, <2>5, UpTo
  <2>7. Adds(r, f[N], TRUE, named(N))
    <3>1. N \in T
      BY <1>1, <2>6
    <3> QED BY Zenon, <3>1 DEF T
  <2>8. ASSUME NEW n \in 1..N PROVE <<f[n - 1], f[n]>> \in Onwards(K)
    <3>1. n - 1 \in 0..N /\ n \in 0..N
      BY <1>1
    <3> QED BY <2>2, <2>3, <3>1 DEF Onwards, Adds, AddsWhole
  <2>9. \A n \in 0..N : <<f[n], f[N]>> \in Onwards(K)
    BY <1>1, <2>1, <2>8, OnwardsOrder, Along
  <2> QED BY <1>1, <1>a, <2>1, <2>2, <2>7, <2>9
<1> QED BY <1>2, KeysRun DEF N

\* What an argument starts from: a file that cannot be read ends it at once.
Started(r, arg) == [r EXCEPT !.ok = r.ok /\ arg.ok]

\* And starts the keys it names from there.
LEMMA ArgumentStarts ==
  ASSUME NEW K, NEW r \in Runs(K), NEW arg
  PROVE  /\ Started(r, arg) \in Runs(K) /\ Adds(r, Started(r, arg), arg.ok, {})
         /\ AddArgument(r, arg) = AddKeys(Started(r, arg), arg.keys)
<1>1. /\ Started(r, arg) \in Runs(K)
      /\ Started(r, arg).lines = r.lines /\ Started(r, arg).tail = r.tail
      /\ Started(r, arg).added = r.added
      /\ Started(r, arg).ok <=> r.ok /\ arg.ok
      /\ ~r.ok => Started(r, arg) = r
  BY DEF Runs, FileOf, Started
<1>2. Adds(r, r, TRUE, {})
  BY AddsNothing
<1>3. /\ r.tail = "none" => AddsWhole(r, Started(r, arg), {})
      /\ r.tail # "none" => AddsNone(r, Started(r, arg), {})
  <2>1. (r.tail = "none" => AddsWhole(r, r, {})) /\ (r.tail # "none" => AddsNone(r, r, {}))
    BY <1>2 DEF Adds
  <2> QED BY <1>1, <2>1 DEF AddsWhole, AddsNone
<1>4. Adds(r, Started(r, arg), arg.ok, {})
  BY <1>1, <1>3 DEF Adds
<1> QED BY <1>1, <1>4 DEF AddArgument, Started

\* The same of one argument.
LEMMA ArgumentAdds ==
  ASSUME NEW K, Glues(K), NEW r \in Runs(K), NEW arg, arg.ok \in BOOLEAN, arg.keys \in Seq(K)
  PROVE  /\ AddArgument(r, arg) \in Runs(K)
         /\ Adds(r, AddArgument(r, arg), arg.ok, ToSet(arg.keys))
<1> DEFINE start == Started(r, arg)
<1>1. /\ start \in Runs(K) /\ Adds(r, start, arg.ok, {})
      /\ AddArgument(r, arg) = AddKeys(start, arg.keys)
  BY ArgumentStarts
<1> HIDE DEF start
<1>2. /\ AddKeys(start, arg.keys) \in Runs(K)
      /\ Adds(start, AddKeys(start, arg.keys), TRUE, ToSet(arg.keys))
  BY <1>1, KeysAdd
<1>3. Adds(r, AddKeys(start, arg.keys), arg.ok, {} \cup ToSet(arg.keys))
  BY <1>1, <1>2, AddsOn
<1>4. Adds(r, AddKeys(start, arg.keys), arg.ok, ToSet(arg.keys))
  <2>1. {} \cup ToSet(arg.keys) = ToSet(arg.keys)
    OBVIOUS
  <2> QED BY <1>3, <2>1
<1> QED BY <1>1, <1>2, <1>4

\* Arguments that are keys of K, or files with such keys.
ArgumentsOf(args, K) ==
  /\ args \in Seq(ToSet(args))
  /\ \A i \in DOMAIN args : args[i].ok \in BOOLEAN /\ args[i].keys \in Seq(K)

\* The lists that adding arguments goes through.
ArgumentRun(f, file, args, K) ==
  /\ f \in [0..Len(args) -> Runs(K)]
  /\ f[0] = Added(file, 0, TRUE) /\ f[Len(args)] = addRecipients(file, args)
  /\ \A n \in 1..Len(args) : f[n] = AddArgument(f[n - 1], args[n])

\* It goes through them.
LEMMA ArgumentsRun ==
  ASSUME NEW K, Glues(K), NEW file, FileOf(file, K), NEW args, ArgumentsOf(args, K)
  PROVE  \E f : ArgumentRun(f, file, args, K)
<1> DEFINE N == Len(args)
           r == Added(file, 0, TRUE)
           next == [n \in 1..N |-> [x \in Runs(K) |-> AddArgument(x, args[n])]]
           Run(f) == f = [n \in 0..N |-> IF n = 0 THEN r ELSE AddArgument(f[n - 1], args[n])]
           s == CHOOSE g : Run(g)
<1>1. N \in Nat /\ \A n \in 1..N : args[n].ok \in BOOLEAN /\ args[n].keys \in Seq(K)
  BY LenProperties DEF ArgumentsOf
<1>a. r \in Runs(K)
  BY DEF Added, Runs, FileOf
<1>2. addRecipients(file, args) = s[N]
  BY DEF addRecipients
<1> HIDE DEF r
<1>3. next \in [1..N -> [Runs(K) -> Runs(K)]]
  <2>1. ASSUME NEW n \in 1..N, NEW x \in Runs(K) PROVE AddArgument(x, args[n]) \in Runs(K)
    <3>1. PICK arg : arg = args[n]
      OBVIOUS
    <3>2. arg.ok \in BOOLEAN /\ arg.keys \in Seq(K)
      BY <1>1, <3>1
    <3>3. AddArgument(x, arg) \in Runs(K)
      BY <3>2, ArgumentAdds
    <3> QED BY <3>1, <3>3
  <2> QED BY <2>1
<1> HIDE DEF N, s
<1>4. PICK f : Unrolls(f, N, Runs(K), r, next)
  <2> HIDE DEF next
  <2> QED BY Zenon, <1>1, <1>a, <1>3, Recursion
<1>5. /\ f \in [0..N -> Runs(K)]
      /\ f[0] = r /\ \A n \in 1..N : f[n] = next[n][f[n - 1]]
  BY <1>4 DEF Unrolls
<1>6. \A n \in 1..N : f[n] = AddArgument(f[n - 1], args[n])
  <2> SUFFICES ASSUME NEW n \in 1..N PROVE f[n] = AddArgument(f[n - 1], args[n])
    OBVIOUS
  <2>1. n - 1 \in 0..N
    BY <1>1
  <2>2. f[n - 1] \in Runs(K)
    BY <1>5, <2>1
  <2> QED BY <1>5, <2>2
<1> HIDE DEF next
<1>7. Run(f)
  <2>1. ASSUME NEW n \in 0..N
        PROVE  f[n] = IF n = 0 THEN r ELSE AddArgument(f[n - 1], args[n])
    <3>1. n = 0 \/ n \in 1..N
      BY <1>1
    <3>2. n \in 1..N => n # 0
      BY <1>1
    <3> QED BY <1>5, <1>6, <3>1, <3>2
  <2> QED BY <1>5, <2>1
<1> HIDE DEF Run
<1>8. Run(s)
  BY <1>7 DEF s
<1>9. s = f
  <2>1. ASSUME NEW g, Run(g) PROVE g = f
    <3>1. /\ g = [n \in 0..N |-> g[n]] /\ f = [n \in 0..N |-> f[n]]
          /\ g[0] = r
      BY <1>1, <1>5, <2>1 DEF Run
    <3>2. \A n \in 1..N : g[n] = AddArgument(g[n - 1], args[n])
      <4>1. \A n \in 1..N : n \in 0..N /\ n # 0
        BY <1>1
      <4> QED BY <2>1, <4>1 DEF Run
    <3> DEFINE T == {n \in 0..N : g[n] = f[n]}
    <3>3. 0 \in T
      BY <1>1, <1>5, <3>1
    <3>4. ASSUME NEW n \in 0..(N - 1), n \in T PROVE n + 1 \in T
      <4>1. PICK m \in 1..N : m = n + 1 /\ m - 1 = n /\ m \in 0..N
        BY <1>1
      <4>2. g[m - 1] = f[m - 1]
        BY Zenon, <3>4, <4>1
      <4>3. g[m] = f[m]
        BY Zenon, <1>6, <3>2, <4>2
      <4> QED BY <4>1, <4>3
    <3> HIDE DEF T
    <3>5. 0..N \subseteq T
      BY <1>1, <3>3, <3>4, UpTo
    <3>6. \A n \in 0..N : g[n] = f[n]
      BY <3>5 DEF T
    <3> QED BY <3>1, <3>6
  <2> QED BY <1>8, <2>1
<1> QED BY <1>1, <1>2, <1>5, <1>6, <1>9 DEF ArgumentRun, N, r

\* Every argument of a run is added to what the last one left, and leads to the end.
LEMMA ArgumentsAdd ==
  ASSUME NEW K, Glues(K), NEW file, FileOf(file, K), NEW args, ArgumentsOf(args, K)
  PROVE  /\ addRecipients(file, args) \in Runs(K)
         /\ Adds(Added(file, 0, TRUE), addRecipients(file, args), Readable(args), Named(args))
         /\ \A f : ArgumentRun(f, file, args, K) =>
              \A n \in 0..Len(args) : <<f[n], addRecipients(file, args)>> \in Onwards(K)
<1> DEFINE N == Len(args)  r == Added(file, 0, TRUE)
           readable(n) == \A i \in 1..n : args[i].ok
           named(n) == UNION {ToSet(args[i].keys) : i \in 1..n}
<1>1. /\ N \in Nat /\ DOMAIN args = 1..N
      /\ \A n \in 1..N : args[n].ok \in BOOLEAN /\ args[n].keys \in Seq(K)
  BY LenProperties DEF ArgumentsOf
<1>a. named(N) = Named(args) /\ (readable(N) <=> Readable(args))
  BY <1>1 DEF Named, Readable
<1>b. named(0) = {} /\ readable(0)
  OBVIOUS
<1>c. \A n \in Nat : /\ named(n + 1) = named(n) \cup ToSet(args[n + 1].keys)
                     /\ readable(n + 1) <=> readable(n) /\ args[n + 1].ok
  <2> SUFFICES ASSUME NEW n \in Nat
               PROVE  /\ named(n + 1) = named(n) \cup ToSet(args[n + 1].keys)
                      /\ readable(n + 1) <=> readable(n) /\ args[n + 1].ok
    OBVIOUS
  <2>1. 1..(n + 1) = 1..n \cup {n + 1}
    OBVIOUS
  <2> QED BY <2>1
<1>e. r \in Runs(K)
  BY DEF Added, Runs, FileOf
<1> HIDE DEF N, r, named, readable
<1>2. ASSUME NEW f, ArgumentRun(f, file, args, K)
      PROVE  /\ addRecipients(file, args) \in Runs(K)
             /\ Adds(r, addRecipients(file, args), Readable(args), Named(args))
             /\ \A n \in 0..N : <<f[n], addRecipients(file, args)>> \in Onwards(K)
  <2>1. /\ f \in [0..N -> Runs(K)] /\ f[0] = r /\ f[N] = addRecipients(file, args)
        /\ \A n \in 1..N : f[n] = AddArgument(f[n - 1], args[n])
    BY <1>2 DEF ArgumentRun, N, r
  <2>2. \A n \in 0..N : f[n] \in Runs(K)
    BY <2>1
  <2>3. ASSUME NEW n \in 1..N
        PROVE  n - 1 \in 0..N /\ Adds(f[n - 1], f[n], args[n].ok, ToSet(args[n].keys))
    <3>1. n - 1 \in 0..N
      BY <1>1
    <3>2. Adds(f[n - 1], AddArgument(f[n - 1], args[n]), args[n].ok, ToSet(args[n].keys))
      <4>1. PICK arg, x : arg = args[n] /\ x = f[n - 1]
        OBVIOUS
      <4>2. arg.ok \in BOOLEAN /\ arg.keys \in Seq(K) /\ x \in Runs(K)
        BY <1>1, <2>2, <3>1, <4>1
      <4>3. Adds(x, AddArgument(x, arg), arg.ok, ToSet(arg.keys))
        BY <4>2, ArgumentAdds
      <4> QED BY Zenon, <4>1, <4>3
    <3> QED BY <2>1, <3>1, <3>2
  <2> DEFINE T == {n \in 0..N : Adds(r, f[n], readable(n), named(n))}
  <2>4. 0 \in T
    <3>1. Adds(r, r, TRUE, {})
      BY <1>e, AddsNothing
    <3>2. Adds(r, f[0], readable(0), named(0))
      BY <1>b, <2>1, <3>1 DEF Adds
    <3> QED BY <1>1, <3>2
  <2>5. ASSUME NEW n \in 0..(N - 1), n \in T PROVE n + 1 \in T
    <3>1. PICK m \in 1..N : m = n + 1 /\ m - 1 = n /\ m \in 0..N /\ n \in 0..N /\ n \in Nat
      BY <1>1
    <3>2. Adds(f[m - 1], f[m], args[m].ok, ToSet(args[m].keys))
      BY <2>3
    <3>3. Adds(f[n], f[m], args[m].ok, ToSet(args[m].keys))
      BY Zenon, <3>1, <3>2
    <3>4. Adds(r, f[m], readable(m), named(n) \cup ToSet(args[m].keys))
      <4>1. /\ f[n] \in Runs(K) /\ f[m] \in Runs(K)
            /\ Adds(r, f[n], readable(n), named(n))
            /\ readable(m) <=> readable(n) /\ args[m].ok
        BY <1>c, <2>2, <2>5, <3>1
      <4> QED BY <1>e, <3>3, <4>1, AddsOn
    <3>5. named(m) = named(n) \cup ToSet(args[m].keys)
      BY <1>c, <3>1
    <3>6. Adds(r, f[m], readable(m), named(m))
      BY <3>4, <3>5
    <3> QED BY <3>1, <3>6
  <2> HIDE DEF T
  <2>6. 0..N \subseteq T
    BY <1>1, <2>4, <2>5, UpTo
  <2>7. Adds(r, f[N], readable(N), named(N))
    <3>1. N \in T
      BY <1>1, <2>6
    <3> QED BY Zenon, <3>1 DEF T
  <2>8. ASSUME NEW n \in 1..N PROVE <<f[n - 1], f[n]>> \in Onwards(K)
    <3>1. n - 1 \in 0..N /\ n \in 0..N
      BY <1>1
    <3> QED BY <2>2, <2>3, <3>1 DEF Onwards, Adds, AddsWhole
  <2>9. \A n \in 0..N : <<f[n], f[N]>> \in Onwards(K)
    BY <1>1, <2>1, <2>8, OnwardsOrder, Along
  <2>10. Adds(r, addRecipients(file, args), Readable(args), Named(args))
    BY <1>a, <2>1, <2>7 DEF Adds
  <2> QED BY <1>1, <2>1, <2>2, <2>9, <2>10
<1> QED BY <1>2, ArgumentsRun DEF N, r

\* Of three runs on files with a newline at the end, one over what is wrong (a), one over
\* the same put right (b), and one over that from what the first one left, the lines F
\* (c): how far they are alike.
Alike(a, b, c, F) ==
  /\ a.tail = "none" /\ b.tail = "none" /\ c.tail = "none"
  /\ b.ok /\ c.ok
  /\ a.ok => b.lines = a.lines /\ c.lines = F
  /\ ~a.ok => b.lines = c.lines
\* And what the first has yet to add is in F.
Within(a, F) == a.tail = "none" => Longer(a.lines, F) /\ (~a.ok => a.lines = F)

\* A key that is put right.
PutRight(key, right) == IF key \in Refusable THEN right ELSE key

\* An argument, and the same put right.
Corrects(put, arg, right, K) ==
  /\ arg.ok \in BOOLEAN /\ arg.keys \in Seq(K)
  /\ put.ok /\ put.keys \in Seq(K)
  /\ Len(put.keys) = Len(arg.keys)
  /\ \A i \in 1..Len(arg.keys) : put.keys[i] = PutRight(arg.keys[i], right)

\* The three stay alike over one key,
LEMMA KeyAgain ==
  ASSUME NEW K, Glues(K), NEW a \in Runs(K), NEW b \in Runs(K), NEW c \in Runs(K), NEW F \in Seq(K),
         NEW key \in K, NEW right \in K \ Refusable,
         Alike(a, b, c, F), Within(AddRecipient(a, key), F)
  PROVE  Alike(AddRecipient(a, key), AddRecipient(b, PutRight(key, right)),
               AddRecipient(c, PutRight(key, right)), F)
<1> DEFINE put == PutRight(key, right)
           x == AddRecipient(a, key)  y == AddRecipient(b, put)  z == AddRecipient(c, put)
<1>1. put \in K /\ put \notin Refusable /\ (key \notin Refusable => put = key)
  BY DEF PutRight
<1> SUFFICES Alike(x, y, z, F)
  OBVIOUS
<1>x. Within(x, F)
  OBVIOUS
<1> HIDE DEF put
<1>2. /\ y.ok /\ y.lines = IF put \in ToSet(b.lines) THEN b.lines ELSE Append(b.lines, put)
      /\ z.ok /\ z.lines = IF put \in ToSet(c.lines) THEN c.lines ELSE Append(c.lines, put)
  <2>1. b.ok /\ c.ok /\ b.tail = "none" /\ c.tail = "none"
    BY DEF Alike
  <2> QED BY <1>1, <2>1, OneKey
<1>a. x.tail = "none" /\ y.tail = "none" /\ z.tail = "none"
  <2>1. a.tail = "none" /\ b.tail = "none" /\ c.tail = "none"
    BY DEF Alike
  <2>2. Adds(a, x, TRUE, {key}) /\ Adds(b, y, TRUE, {put}) /\ Adds(c, z, TRUE, {put})
    BY <1>1, OneKey
  <2> QED BY <2>1, <2>2 DEF Adds, AddsWhole
<1>3. /\ x \in Runs(K)
      /\ x.ok <=> a.ok /\ key \notin Refusable
      /\ x.ok => ToSet(x.lines) = ToSet(a.lines) \cup {key}
      /\ ~a.ok => x = a
  <2>1. x \in Runs(K) /\ Adds(a, x, TRUE, {key}) /\ a.tail = "none"
    BY OneKey DEF Alike
  <2> QED BY <2>1 DEF Adds, AddsWhole
<1> HIDE DEF x, y, z
<1>4. CASE ~a.ok
  BY <1>2, <1>3, <1>4, <1>a DEF Alike
<1>5. CASE a.ok /\ key \in Refusable
  <2>1. x.lines = a.lines /\ ~x.ok
    <3>1. x = [a EXCEPT !.ok = FALSE]
      BY <1>5 DEF AddRecipient, x
    <3> QED BY <3>1 DEF Runs
  <2>2. b.lines = F /\ c.lines = F
    BY <1>5, <1>a, <1>x, <2>1 DEF Alike, Within
  <2> QED BY <1>2, <1>a, <2>1, <2>2 DEF Alike
<1>6. CASE a.ok /\ key \notin Refusable
  <2>1. x.ok /\ x.lines = IF key \in ToSet(a.lines) THEN a.lines ELSE Append(a.lines, key)
    <3>1. a.tail = "none"
      BY DEF Alike
    <3> HIDE DEF AddRecipient
    <3>2. AddRecipient(a, key).ok
      BY <1>6, <3>1, OneKey
    <3>3. AddRecipient(a, key).lines
            = IF key \in ToSet(a.lines) THEN a.lines ELSE Append(a.lines, key)
      BY <1>6, <3>1, OneKey
    <3> QED BY <3>2, <3>3 DEF x
  <2>2. b.lines = a.lines /\ c.lines = F /\ put = key
    BY <1>1, <1>6 DEF Alike
  <2>3. key \in ToSet(F)
    <3>1. x.lines \in Seq(K)
      BY <1>3 DEF Runs
    <3>2. ToSet(x.lines) \subseteq ToSet(F)
      BY <1>a, <1>x, <3>1, LongerHas DEF Within
    <3> QED BY <1>3, <2>1, <3>2
  <2> QED BY <1>2, <1>a, <2>1, <2>2, <2>3 DEF Alike
<1> QED BY <1>4, <1>5, <1>6

\* over several,
LEMMA KeysAgain ==
  ASSUME NEW K, Glues(K), NEW a \in Runs(K), NEW b \in Runs(K), NEW c \in Runs(K), NEW F \in Seq(K),
         NEW keys \in Seq(K), NEW put \in Seq(K), NEW right \in K \ Refusable,
         Len(put) = Len(keys), \A i \in 1..Len(keys) : put[i] = PutRight(keys[i], right),
         Alike(a, b, c, F), Within(AddKeys(a, keys), F)
  PROVE  Alike(AddKeys(a, keys), AddKeys(b, put), AddKeys(c, put), F)
<1>1. PICK N \in Nat : N = Len(keys)
  BY LenProperties
<1>2. \A n \in 1..N : keys[n] \in K
  BY <1>1, LenProperties
<1>3. PICK f : KeyRun(f, a, keys, K)
  BY KeysRun
<1>4. PICK g : KeyRun(g, b, put, K)
  BY KeysRun
<1>5. PICK h : KeyRun(h, c, put, K)
  BY KeysRun
<1>6. /\ f[0] = a /\ g[0] = b /\ h[0] = c
      /\ f[N] = AddKeys(a, keys) /\ g[N] = AddKeys(b, put) /\ h[N] = AddKeys(c, put)
      /\ \A n \in 0..N : f[n] \in Runs(K) /\ g[n] \in Runs(K) /\ h[n] \in Runs(K)
      /\ \A n \in 1..N : /\ f[n] = AddRecipient(f[n - 1], keys[n])
                         /\ g[n] = AddRecipient(g[n - 1], put[n])
                         /\ h[n] = AddRecipient(h[n - 1], put[n])
  BY <1>1, <1>3, <1>4, <1>5 DEF KeyRun
<1>7. ASSUME NEW n \in 0..N PROVE Within(f[n], F)
  <2>1. <<f[n], f[N]>> \in Onwards(K)
    BY <1>1, <1>3, <1>6, KeysAdd
  <2>2. /\ f[n].tail = "none" => f[N].tail = "none" /\ Longer(f[n].lines, f[N].lines)
        /\ ~f[n].ok => f[N] = f[n]
    BY <2>1 DEF Onwards
  <2>3. f[n].lines \in Seq(K) /\ f[N].lines \in Seq(K)
    <3>1. f[n] \in Runs(K) /\ f[N] \in Runs(K)
      BY <1>1, <1>6
    <3> QED BY <3>1 DEF Runs
  <2>4. f[N].tail = "none" => Longer(f[N].lines, F) /\ (~f[N].ok => f[N].lines = F)
    BY <1>6 DEF Within
  <2>5. f[n].tail = "none" => Longer(f[n].lines, F)
    BY <2>2, <2>3, <2>4, LongerStill
  <2> QED BY <2>2, <2>4, <2>5 DEF Within
<1> DEFINE T == {n \in 0..N : Alike(f[n], g[n], h[n], F)}
<1>8. 0 \in T
  BY <1>1, <1>6
<1>9. ASSUME NEW n \in 0..(N - 1), n \in T PROVE n + 1 \in T
  <2>1. PICK m \in 1..N : m = n + 1 /\ m - 1 = n /\ m \in 0..N /\ n \in 0..N
    BY <1>1
  <2>2. PICK x, y, z : x = f[n] /\ y = g[n] /\ z = h[n]
    OBVIOUS
  <2>3. /\ f[m] = AddRecipient(x, keys[m])
        /\ g[m] = AddRecipient(y, put[m]) /\ h[m] = AddRecipient(z, put[m])
    BY Zenon, <1>6, <2>1, <2>2
  <2>4. x \in Runs(K) /\ y \in Runs(K) /\ z \in Runs(K) /\ Alike(x, y, z, F)
    BY <1>6, <1>9, <2>1, <2>2
  <2>5. keys[m] \in K /\ put[m] = PutRight(keys[m], right)
    BY <1>1, <1>2, <2>1
  <2>6. Within(AddRecipient(x, keys[m]), F)
    BY <1>7, <2>1, <2>3
  <2>7. Alike(AddRecipient(x, keys[m]), AddRecipient(y, PutRight(keys[m], right)),
              AddRecipient(z, PutRight(keys[m], right)), F)
    BY <2>4, <2>5, <2>6, KeyAgain
  <2>8. Alike(f[m], g[m], h[m], F)
    BY Zenon, <2>3, <2>5, <2>7
  <2> QED BY <2>1, <2>8
<1> HIDE DEF T
<1>10. 0..N \subseteq T
  BY <1>1, <1>8, <1>9, UpTo
<1>11. Alike(f[N], g[N], h[N], F)
  <2>1. N \in T
    BY <1>1, <1>10
  <2> QED BY <2>1 DEF T
<1> QED BY <1>6, <1>11

\* What is put right is the same arguments otherwise.
LEMMA CorrectedFacts ==
  ASSUME NEW K, NEW args, ArgumentsOf(args, K), NEW right \in K \ Refusable
  PROVE  LET c == Corrected(args, right) IN
         /\ ArgumentsOf(c, K) /\ Len(c) = Len(args)
         /\ \A i \in 1..Len(args) : Corrects(c[i], args[i], right, K)
<1> DEFINE c == Corrected(args, right)
           put(i) == [j \in DOMAIN args[i].keys |->
                        IF args[i].keys[j] \in Refusable THEN right ELSE args[i].keys[j]]
<1>1. PICK N \in Nat : N = Len(args) /\ DOMAIN args = 1..N
  BY LenProperties DEF ArgumentsOf
<1>2. c = [i \in 1..N |-> [ok |-> TRUE, keys |-> put(i)]]
  BY <1>1 DEF Corrected
<1>3. ASSUME NEW i \in 1..N
      PROVE  /\ put(i) \in Seq(K) /\ Len(put(i)) = Len(args[i].keys)
             /\ \A j \in 1..Len(args[i].keys) : put(i)[j] = PutRight(args[i].keys[j], right)
  <2>1. PICK keys \in Seq(K) : keys = args[i].keys
    BY <1>1 DEF ArgumentsOf
  <2>2. PICK n \in Nat : /\ n = Len(keys) /\ DOMAIN keys = 1..n
                         /\ \A j \in 1..n : keys[j] \in K
    BY LenProperties
  <2>3. put(i) = [j \in 1..n |-> IF keys[j] \in Refusable THEN right ELSE keys[j]]
    BY <2>1, <2>2
  <2> HIDE DEF put
  <2>4. put(i) \in [1..n -> K]
    BY <2>2, <2>3
  <2>5. put(i) \in Seq(K) /\ Len(put(i)) = n
    BY <2>4, ListSeq
  <2>6. \A j \in 1..n : put(i)[j] = PutRight(keys[j], right)
    BY <2>3 DEF PutRight
  <2> QED BY <2>1, <2>2, <2>5, <2>6
<1> HIDE DEF c, put
<1>4. \A i \in 1..N : c[i].ok = TRUE /\ c[i].keys = put(i)
  BY <1>2
<1>5. DOMAIN c = 1..N
  BY <1>2
<1>6. c \in Seq(ToSet(c)) /\ Len(c) = N
  <2>1. c \in [1..N -> ToSet(c)]
    BY <1>2, <1>5 DEF ToSet
  <2> QED BY <2>1, ListSeq
<1>7. ArgumentsOf(c, K)
  BY <1>3, <1>4, <1>5, <1>6 DEF ArgumentsOf
<1>8. \A i \in 1..N : Corrects(c[i], args[i], right, K)
  BY <1>1, <1>3, <1>4 DEF ArgumentsOf, Corrects
<1> QED BY <1>1, <1>6, <1>7, <1>8 DEF c

\* The three runs stay alike over one argument,
LEMMA ArgumentAgain ==
  ASSUME NEW K, Glues(K), NEW a \in Runs(K), NEW b \in Runs(K), NEW c \in Runs(K), NEW F \in Seq(K),
         NEW arg, NEW put, NEW right \in K \ Refusable, Corrects(put, arg, right, K),
         Alike(a, b, c, F), Within(AddArgument(a, arg), F)
  PROVE  Alike(AddArgument(a, arg), AddArgument(b, put), AddArgument(c, put), F)
<1>1. PICK x \in Runs(K) : x = Started(a, arg)
  BY ArgumentStarts
<1>2. PICK keys \in Seq(K), fixed \in Seq(K) : keys = arg.keys /\ fixed = put.keys
  BY DEF Corrects
<1>3. AddArgument(a, arg) = AddKeys(x, keys)
  BY <1>1, <1>2, ArgumentStarts
<1>4. ASSUME NEW s \in Runs(K), s.ok
      PROVE  AddArgument(s, put) = AddKeys(s, fixed)
  <2>1. Started(s, put) = s
    BY <1>4 DEF Started, Runs, Corrects
  <2> QED BY <1>2, <2>1, ArgumentStarts
<1>5. AddArgument(b, put) = AddKeys(b, fixed) /\ AddArgument(c, put) = AddKeys(c, fixed)
  BY <1>4 DEF Alike
<1>6. Adds(x, AddKeys(x, keys), TRUE, ToSet(keys))
  BY KeysAdd
<1>7. Alike(x, b, c, F)
  <2>1. x.lines = a.lines /\ x.tail = a.tail /\ (x.ok <=> a.ok /\ arg.ok)
    BY <1>1 DEF Started, Runs
  <2>0. arg.ok \in BOOLEAN
    BY DEF Corrects
  <2>2. CASE a.ok /\ arg.ok
    BY <2>1, <2>2 DEF Alike
  <2>3. CASE ~a.ok
    BY <2>1, <2>3 DEF Alike
  <2>4. CASE a.ok /\ ~arg.ok
    <3>1. AddKeys(x, keys) = x /\ ~x.ok
      BY <1>6, <2>1, <2>4 DEF Adds
    <3>2. x.lines = F
      BY <1>3, <2>1, <3>1 DEF Within, Alike
    <3> QED BY <2>1, <2>4, <3>1, <3>2 DEF Alike
  <2> QED BY <2>2, <2>3, <2>4
<1>8. Alike(AddKeys(x, keys), AddKeys(b, fixed), AddKeys(c, fixed), F)
  <2>1. Within(AddKeys(x, keys), F)
    BY <1>3
  <2>2. Len(fixed) = Len(keys) /\ \A i \in 1..Len(keys) : fixed[i] = PutRight(keys[i], right)
    BY <1>2 DEF Corrects
  <2> QED BY <1>7, <2>1, <2>2, KeysAgain
<1> QED BY <1>3, <1>5, <1>8

\* and over all of them: adding again lists what adding it right at first lists
\* (store.go:90).
LEMMA AddedAgain ==
  ASSUME NEW K, Glues(K), NEW file, FileOf(file, K), NEW args, ArgumentsOf(args, K),
         NEW right \in K \ Refusable, file.tail = "none"
  PROVE  LET put == Corrected(args, right) IN
         addRecipients(addRecipients(file, args), put).lines = addRecipients(file, put).lines
<1> DEFINE r == addRecipients(file, args)
           F == r.lines
           put == Corrected(args, right)
<1>1. PICK N \in Nat : N = Len(args)
  BY LenProperties DEF ArgumentsOf
<1>2. /\ ArgumentsOf(put, K) /\ Len(put) = N
      /\ \A i \in 1..N : Corrects(put[i], args[i], right, K)
  BY <1>1, CorrectedFacts
<1>3. r \in Runs(K) /\ Adds(Added(file, 0, TRUE), r, Readable(args), Named(args))
  BY ArgumentsAdd
<1>4. F \in Seq(K) /\ FileOf(r, K) /\ r.tail = "none"
  <2>1. Added(file, 0, TRUE).tail = "none"
    BY DEF Added
  <2> QED BY <1>3, <2>1 DEF Runs, Adds, AddsWhole
<1> HIDE DEF r, put
<1>5. PICK f : ArgumentRun(f, file, args, K)
  BY ArgumentsRun
<1>6. PICK g : ArgumentRun(g, file, put, K)
  BY <1>2, ArgumentsRun
<1>7. PICK h : ArgumentRun(h, r, put, K)
  BY <1>2, <1>4, ArgumentsRun
<1>8. /\ f[0] = Added(file, 0, TRUE) /\ g[0] = Added(file, 0, TRUE) /\ h[0] = Added(r, 0, TRUE)
      /\ f[N] = r /\ g[N] = addRecipients(file, put)
      /\ h[N] = addRecipients(r, put)
      /\ \A n \in 0..N : f[n] \in Runs(K) /\ g[n] \in Runs(K) /\ h[n] \in Runs(K)
      /\ \A n \in 1..N : /\ f[n] = AddArgument(f[n - 1], args[n])
                         /\ g[n] = AddArgument(g[n - 1], put[n])
                         /\ h[n] = AddArgument(h[n - 1], put[n])
  BY <1>1, <1>2, <1>5, <1>6, <1>7 DEF ArgumentRun, r
<1>9. f[N].lines = F
  BY <1>8
<1>10. ASSUME NEW n \in 0..N PROVE Within(f[n], F)
  <2>1. <<f[n], f[N]>> \in Onwards(K)
    BY <1>1, <1>5, <1>8, ArgumentsAdd DEF r
  <2> QED BY <1>9, <2>1 DEF Onwards, Within
<1> DEFINE T == {n \in 0..N : Alike(f[n], g[n], h[n], F)}
<1>11. 0 \in T
  <2>1. Alike(f[0], g[0], h[0], F)
    BY <1>4, <1>8 DEF Alike, Added
  <2> QED BY <1>1, <2>1
<1>12. ASSUME NEW n \in 0..(N - 1), n \in T PROVE n + 1 \in T
  <2>1. PICK m \in 1..N : m = n + 1 /\ m - 1 = n /\ m \in 0..N /\ n \in 0..N
    BY <1>1
  <2>2. PICK x, y, z, arg, fixed : /\ x = f[n] /\ y = g[n] /\ z = h[n]
                                   /\ arg = args[m] /\ fixed = put[m]
    OBVIOUS
  <2>3. /\ f[m] = AddArgument(x, arg)
        /\ g[m] = AddArgument(y, fixed) /\ h[m] = AddArgument(z, fixed)
    BY Zenon, <1>8, <2>1, <2>2
  <2>4. x \in Runs(K) /\ y \in Runs(K) /\ z \in Runs(K) /\ Alike(x, y, z, F)
    BY <1>8, <1>12, <2>1, <2>2
  <2>5. Corrects(fixed, arg, right, K)
    BY <1>2, <2>2
  <2>6. Within(AddArgument(x, arg), F)
    BY <1>10, <2>1, <2>3
  <2>7. Alike(AddArgument(x, arg), AddArgument(y, fixed), AddArgument(z, fixed), F)
    BY <1>4, <2>4, <2>5, <2>6, ArgumentAgain
  <2>8. Alike(f[m], g[m], h[m], F)
    BY Zenon, <2>3, <2>7
  <2> QED BY <2>1, <2>8
<1> HIDE DEF T
<1>13. 0..N \subseteq T
  BY <1>1, <1>11, <1>12, UpTo
<1>14. Alike(f[N], g[N], h[N], F)
  <2>1. N \in T
    BY <1>1, <1>13
  <2> QED BY <2>1 DEF T
<1>15. h[N].lines = g[N].lines
  BY <1>9, <1>14 DEF Alike
<1> QED BY <1>8, <1>15 DEF r, put

\* Adding recipients keeps the list whole, however often it is tried (store.go:90).
LEMMA ListKept ==
  ASSUME NEW K, Glues(K), NEW file, FileOf(file, K), NEW args, ArgumentsOf(args, K),
         NEW right \in K \ Refusable
  PROVE  ListGrows(file, args, right)
<1> DEFINE r == addRecipients(file, args)  start == Added(file, 0, TRUE)
           again == addRecipients(r, args)
<1>1. r \in Runs(K) /\ Adds(start, r, Readable(args), Named(args))
  BY ArgumentsAdd
<1>2. FileOf(r, K)
  BY <1>1 DEF Runs
<1>3. again \in Runs(K) /\ Adds(Added(r, 0, TRUE), again, Readable(args), Named(args))
  BY <1>2, ArgumentsAdd
<1>4. Added(r, 0, TRUE).lines = r.lines /\ Added(r, 0, TRUE).tail = r.tail /\ Added(r, 0, TRUE).ok
  BY DEF Added
<1>5. r.lines = file.lines /\ r.tail = file.tail => again = r
  BY DEF addRecipients, Added
<1>6. file.tail = "none" => addRecipients(r, Corrected(args, right)).lines
                              = addRecipients(file, Corrected(args, right)).lines
  BY AddedAgain
<1> HIDE DEF r, again
<1>7. start.lines = file.lines /\ start.tail = file.tail /\ start.added = 0 /\ start.ok
  BY DEF Added
<1> HIDE DEF start
<1>8. /\ r.lines \in Seq(K) /\ r.added \in Nat /\ Len(r.lines) \in Nat
      /\ file.lines \in Seq(K) /\ Len(file.lines) \in Nat
      /\ DOMAIN r.lines = 1..Len(r.lines) /\ DOMAIN file.lines = 1..Len(file.lines)
  <2>1. r.lines \in Seq(K) /\ r.added \in Nat /\ file.lines \in Seq(K)
    BY <1>1 DEF Runs, FileOf
  <2> QED BY <2>1, LenProperties
<1>9. r.ok <=> Acceptable(args)
  BY <1>1, <1>7 DEF Adds, Acceptable
<1>10. CASE file.tail = "none"
  <2>1. AddsWhole(start, r, Named(args))
    BY <1>1, <1>7, <1>10 DEF Adds
  <2>2. \A i \in DOMAIN file.lines : i \in DOMAIN r.lines /\ r.lines[i] = file.lines[i]
    BY <1>7, <1>8, <2>1 DEF AddsWhole, Longer
  <2>3. r.added = Len(r.lines) - Len(file.lines)
    <3>1. PICK l \in Nat, m \in Nat, x \in Nat :
            l = Len(file.lines) /\ m = Len(r.lines) /\ x = r.added
      BY <1>8
    <3>2. x + l = 0 + m
      BY <1>7, <2>1, <3>1 DEF AddsWhole
    <3>3. x = m - l
      BY <3>2
    <3> QED BY <3>1, <3>3
  <2>4. r.ok => ToSet(r.lines) = ToSet(file.lines) \cup Named(args)
    BY <1>7, <2>1 DEF AddsWhole
  <2>5. r.ok => Named(args) \subseteq ToSet(again.lines)
    <3>1. AddsWhole(Added(r, 0, TRUE), again, Named(args))
      BY <1>3, <1>4, <2>1 DEF Adds, AddsWhole
    <3>2. again.ok <=> Acceptable(args)
      BY <1>3, <1>4 DEF Adds, Acceptable
    <3> QED BY <1>9, <3>1, <3>2 DEF AddsWhole
  <2>6. /\ IsInjective(file.lines) => IsInjective(r.lines)
        /\ ToSet(r.lines) \cap Refusable = ToSet(file.lines) \cap Refusable
    BY <1>7, <2>1 DEF AddsWhole
  <2>7. r.ok => \A x, y \in Named(args) \ (ToSet(r.lines) \cup LastOf(file)) : x = y
    BY <2>4
  <2> QED BY <1>6, <1>9, <1>10, <2>2, <2>3, <2>4, <2>5, <2>6, <2>7 DEF ListGrows, r, again
<1>11. CASE file.tail # "none" /\ r.added = 0
  <2>1. AddsNone(start, r, Named(args))
    BY <1>1, <1>7, <1>11 DEF Adds
  <2>2. /\ r.lines = file.lines /\ again = r
        /\ r.ok => Named(args) \subseteq ToSet(r.lines)
    BY <1>5, <1>7, <2>1 DEF AddsNone
  <2>3. r.added = Len(r.lines) - Len(file.lines) /\ ~(r.added > 0)
    BY <1>8, <1>11, <2>2
  <2> QED BY <1>9, <1>11, <2>2, <2>3 DEF ListGrows, r, again
<1>12. CASE file.tail # "none" /\ r.added # 0
  <2>1. AddsOnto(start, r, Named(args))
    BY <1>1, <1>7, <1>12 DEF Adds
  <2>2. Unended(start) = Unended(file) /\ LastOf(start) = LastOf(file)
    BY <1>7 DEF Unended, LastOf
  <2>3. \A i \in DOMAIN file.lines \ Unended(file) :
          i \in DOMAIN r.lines /\ r.lines[i] = file.lines[i]
    BY <1>7, <1>8, <2>1, <2>2 DEF AddsOnto, Kept
  <2>4. r.added > 0 /\ r.added = Len(r.lines) - Len(file.lines) + 1
    <3>1. PICK l \in Nat, m \in Nat, x \in Nat :
            l = Len(file.lines) /\ m = Len(r.lines) /\ x = r.added
      BY <1>8
    <3>2. x + l = 0 + m + 1
      BY <1>7, <2>1, <3>1 DEF AddsOnto
    <3>3. x = m - l + 1
      BY <3>2
    <3>4. x > 0
      BY <1>12, <3>1
    <3> QED BY <3>1, <3>3, <3>4
  <2>5. r.ok => \A x, y \in Named(args) \ (ToSet(r.lines) \cup LastOf(file)) : x = y
    BY <2>1, <2>2 DEF AddsOnto
  <2>6. r.ok => Named(args) \subseteq ToSet(again.lines)
    <3>1. AddsWhole(Added(r, 0, TRUE), again, Named(args))
      BY <1>3, <1>4, <2>1 DEF Adds, AddsOnto
    <3>2. again.ok <=> Acceptable(args)
      BY <1>3, <1>4 DEF Adds, Acceptable
    <3> QED BY <1>9, <3>1, <3>2 DEF AddsWhole
  <2> QED BY <1>9, <1>12, <2>3, <2>4, <2>5, <2>6 DEF ListGrows, r, again
<1> QED BY <1>10, <1>11, <1>12

\* The first key of an empty list is all there is in it.
LEMMA FirstKey ==
  ASSUME NEW key, key \notin Refusable
  PROVE  AddRecipient(Added(NoFile, 0, TRUE), key).lines = <<key>>
<1> DEFINE r == Added(NoFile, 0, TRUE)
<1>1. r.ok /\ r.lines = <<>> /\ r.tail = "none" /\ ToSet(<<>>) = {}
  BY DEF Added, NoFile, ToSet
<1> HIDE DEF r
<1>2. AddRecipient(r, key) = Added(Written(r, key), r.added + 1, TRUE)
  BY <1>1 DEF AddRecipient
<1>3. Written(r, key).lines = Append(<<>>, key)
  BY <1>1 DEF Written
<1>4. Added(Written(r, key), r.added + 1, TRUE).lines = Written(r, key).lines
  BY DEF Added
<1>5. Append(<<>>, key) = <<key>>
  OBVIOUS
<1> QED BY Zenon, <1>2, <1>3, <1>4, <1>5 DEF r

\* The user's own key is listed first (store.go:146).
LEMMA OwnKeyListed ==
  ASSUME NEW K, Glues(K), NEW own, ArgumentsOf(own, K), NEW extra, ArgumentsOf(extra, K)
  PROVE  OwnKeyFirst(own, extra)
<1> SUFFICES ASSUME own # <<>>, own[1].ok, own[1].keys # <<>>, own[1].keys[1] \notin Refusable
             PROVE  LET r == seedRecipients(NoFile, own, extra) IN
                    r.lines # <<>> /\ r.lines[1] = own[1].keys[1]
  BY DEF OwnKeyFirst
<1> DEFINE args == own \o extra  first == own[1]  empty == Added(NoFile, 0, TRUE)
<1>1. /\ Len(own) \in Nat /\ Len(extra) \in Nat /\ Len(own) >= 1
      /\ DOMAIN own = 1..Len(own) /\ DOMAIN extra = 1..Len(extra)
  <2>1. own \in Seq(ToSet(own)) /\ extra \in Seq(ToSet(extra))
    BY DEF ArgumentsOf
  <2> QED BY <2>1, LenProperties, EmptySeq
<1>2. /\ ArgumentsOf(args, K) /\ Len(args) \in Nat /\ Len(args) >= 1 /\ args[1] = own[1]
  <2> DEFINE S == ToSet(own) \cup ToSet(extra)
  <2>1. own \in Seq(S) /\ extra \in Seq(S)
    <3>1. own \in Seq(ToSet(own)) /\ extra \in Seq(ToSet(extra))
      BY DEF ArgumentsOf
    <3> QED BY <3>1, SeqMonotonic
  <2>2. /\ args \in Seq(S) /\ Len(args) = Len(own) + Len(extra)
        /\ \A i \in 1..(Len(own) + Len(extra)) :
             args[i] = IF i <= Len(own) THEN own[i] ELSE extra[i - Len(own)]
    BY <2>1, ConcatProperties
  <2> HIDE DEF args, S
  <2>3. DOMAIN args = 1..Len(args) /\ Len(args) \in Nat
    BY <2>2, LenProperties
  <2>4. args \in Seq(ToSet(args))
    <3>1. args \in [1..Len(args) -> ToSet(args)]
      <4>1. args \in [1..Len(args) -> S]
        BY <2>2, LenProperties
      <4>2. \A i \in 1..Len(args) : args[i] \in ToSet(args)
        BY <2>3 DEF ToSet
      <4> QED BY <4>1, <4>2
    <3> QED BY <2>3, <3>1, ListSeq
  <2>5. ASSUME NEW i \in DOMAIN args
        PROVE  args[i].ok \in BOOLEAN /\ args[i].keys \in Seq(K)
    <3>1. i \in 1..(Len(own) + Len(extra))
      BY <2>2, <2>3
    <3>2. CASE i <= Len(own)
      <4>1. args[i] = own[i] /\ i \in DOMAIN own
        BY <1>1, <2>2, <3>1, <3>2
      <4> QED BY <4>1 DEF ArgumentsOf
    <3>3. CASE ~(i <= Len(own))
      <4>1. args[i] = extra[i - Len(own)] /\ i - Len(own) \in DOMAIN extra
        BY <1>1, <2>2, <3>1, <3>3
      <4> QED BY <4>1 DEF ArgumentsOf
    <3> QED BY <3>2, <3>3
  <2>6. Len(args) >= 1 /\ args[1] = own[1]
    BY <1>1, <2>2
  <2> QED BY <2>3, <2>4, <2>5, <2>6 DEF ArgumentsOf
<1> HIDE DEF args
<1>3. empty \in Runs(K) /\ FileOf(NoFile, K) /\ empty.tail = "none"
  <2>1. empty = [lines |-> <<>>, tail |-> "none", added |-> 0, ok |-> TRUE]
    BY DEF Added, NoFile
  <2>2. FileOf(NoFile, K)
    BY DEF FileOf, NoFile, Tails
  <2>3. <<>> \in Seq(K) /\ 0 \in Nat
    OBVIOUS
  <2> HIDE DEF empty
  <2>4. empty.lines = <<>> /\ empty.tail = "none"
    BY <2>1
  <2>5. empty \in [lines : Seq(K), tail : Tails, added : Nat, ok : BOOLEAN]
    BY <2>1, <2>3 DEF Tails
  <2>6. FileOf(empty, K)
    BY <2>3, <2>4 DEF FileOf, Tails
  <2> QED BY <2>2, <2>4, <2>5, <2>6 DEF Runs
<1>4. PICK f : ArgumentRun(f, NoFile, args, K)
  BY <1>2, <1>3, ArgumentsRun
<1>5. PICK keys \in Seq(K) : keys = first.keys
  BY <1>1 DEF ArgumentsOf
<1>6. Len(keys) \in Nat /\ Len(keys) >= 1 /\ keys[1] \in K
  <2>1. keys # <<>>
    BY <1>5
  <2> QED BY <2>1, LenProperties, EmptySeq
<1>7. PICK g : KeyRun(g, empty, keys, K)
  BY <1>3, KeysRun
<1>8. f[1] = AddKeys(empty, keys)
  <2>1. f[0] = empty /\ \A n \in 1..Len(args) : f[n] = AddArgument(f[n - 1], args[n])
    BY <1>4 DEF ArgumentRun
  <2>a. PICK m \in 1..Len(args) : m = 1 /\ m - 1 = 0
    BY <1>2
  <2>2. f[1] = AddArgument(empty, first)
    BY Zenon, <1>2, <2>1, <2>a
  <2>3. Started(empty, first) = empty
    BY DEF Started, Added
  <2>4. AddArgument(empty, first) = AddKeys(Started(empty, first), first.keys)
    BY <1>3, ArgumentStarts
  <2> QED BY <1>5, <2>2, <2>3, <2>4
<1>9. g[1] \in Runs(K) /\ g[1].lines = <<keys[1]>> /\ g[1].tail = "none"
  <2>1. /\ g[0] = empty /\ g[1] \in Runs(K)
        /\ \A n \in 1..Len(keys) : g[n] = AddRecipient(g[n - 1], keys[n])
    BY <1>6, <1>7 DEF KeyRun
  <2>a. PICK m \in 1..Len(keys) : m = 1 /\ m - 1 = 0
    BY <1>6
  <2>2. g[1] = AddRecipient(empty, keys[1])
    BY Zenon, <2>1, <2>a
  <2>3. AddRecipient(empty, keys[1]).lines = <<keys[1]>>
    BY <1>5, FirstKey
  <2>4. AddRecipient(empty, keys[1]).tail = "none"
    <3> HIDE DEF empty
    <3>1. Adds(empty, AddRecipient(empty, keys[1]), TRUE, {keys[1]})
      BY <1>3, <1>6, OneKey
    <3> QED BY <1>3, <3>1 DEF Adds, AddsWhole
  <2> QED BY <2>1, <2>2, <2>3, <2>4
<1> DEFINE r == addRecipients(NoFile, args)
<1>10. <<g[1], AddKeys(empty, keys)>> \in Onwards(K) /\ AddKeys(empty, keys) \in Runs(K)
  <2>1. 1 \in 0..Len(keys)
    BY <1>6
  <2> HIDE DEF empty
  <2> QED BY <1>3, <1>7, <2>1, KeysAdd
<1>11. <<f[1], r>> \in Onwards(K) /\ r \in Runs(K)
  <2>1. 1 \in 0..Len(args)
    BY <1>2
  <2> QED BY <1>2, <1>3, <1>4, <2>1, ArgumentsAdd
<1> HIDE DEF r, empty
<1>12. Longer(<<keys[1]>>, r.lines) /\ r.lines \in Seq(K)
  <2>1. Longer(g[1].lines, f[1].lines) /\ Longer(f[1].lines, r.lines)
    BY <1>8, <1>9, <1>10, <1>11 DEF Onwards
  <2>2. g[1].lines \in Seq(K) /\ f[1].lines \in Seq(K) /\ r.lines \in Seq(K)
    BY <1>8, <1>9, <1>10, <1>11 DEF Runs
  <2> QED BY <1>9, <2>1, <2>2, LongerStill
<1>13. r.lines # <<>> /\ r.lines[1] = keys[1]
  BY <1>12 DEF Longer
<1> QED BY <1>5, <1>13 DEF r, seedRecipients, args

\* A line written on another is words again.
LEMMA WordsGlue == \A W : Glues(Seq(W))
BY ConcatProperties DEF Glues

\* The arguments of Inputs are of keys that are words.
LEMMA ArgumentsNamed == \A a \in Arguments : ArgumentsOf(a, Seq(Words))
<1> SUFFICES ASSUME NEW a \in Arguments PROVE ArgumentsOf(a, Seq(Words))
  OBVIOUS
<1> DEFINE K == Seq(Words)  S == [ok : BOOLEAN, keys : Seq(K)]
<1>1. a \in Seq(S)
  BY ArgumentsAssumption
<1> HIDE DEF K
<1>2. /\ Len(a) \in Nat /\ DOMAIN a = 1..Len(a) /\ a \in [1..Len(a) -> S]
      /\ \A i \in 1..Len(a) : a[i] \in S
  <2> HIDE DEF S
  <2> QED BY <1>1, LenProperties
<1>3. \A i \in DOMAIN a : a[i].ok \in BOOLEAN /\ a[i].keys \in Seq(K)
  BY <1>2
<1>4. a \in Seq(ToSet(a))
  <2> HIDE DEF S
  <2>1. \A i \in 1..Len(a) : a[i] \in ToSet(a)
    BY <1>2 DEF ToSet
  <2>2. a \in [1..Len(a) -> ToSet(a)]
    BY <1>2, <2>1
  <2> QED BY <1>2, <2>2, ListSeq
<1> QED BY <1>3, <1>4 DEF ArgumentsOf, K

-----------------------------------------------------------------------------
\* What each action asks about.
LEMMA Subjects ==
  /\ AskTree => question'.of = "tree"
  /\ AskLink => question'.of = "link"
  /\ AskRaw => question'.of = "raw"
  /\ AskVersions => question'.of = "versions"
  /\ AskBrowser => question'.of = "browser"
  /\ AskConfig => question'.of = "config"
  /\ AskEdit => question'.of = "edit"
  /\ AskAdd => question'.of = "add"
  /\ AskInstall => question'.of = "install"
  /\ AskPrompt => question'.of = "prompt"
  /\ AskRecipients => question'.of = "recipients"
<1>1. ASSUME AskTree PROVE question'.of = "tree"
  BY <1>1 DEF AskTree
<1>2. ASSUME AskLink PROVE question'.of = "link"
  BY <1>2 DEF AskLink
<1>3. ASSUME AskRaw PROVE question'.of = "raw"
  BY <1>3 DEF AskRaw
<1>4. ASSUME AskVersions PROVE question'.of = "versions"
  BY <1>4 DEF AskVersions
<1>5. ASSUME AskBrowser PROVE question'.of = "browser"
  BY <1>5 DEF AskBrowser
<1>6. ASSUME AskConfig PROVE question'.of = "config"
  BY <1>6 DEF AskConfig
<1>7. ASSUME AskEdit PROVE question'.of = "edit"
  <2>1. PICK stored \in Stored, secret \in {"", "old"}, cmd \in Commands, configured \in BOOLEAN :
          question' = [of |-> "edit", stored |-> stored, secret |-> secret, cmd |-> cmd,
                       configured |-> configured]
    BY <1>7 DEF AskEdit
  <2> QED BY <2>1
<1>8. ASSUME AskAdd PROVE question'.of = "add"
  BY <1>8 DEF AskAdd
<1>9. ASSUME AskInstall PROVE question'.of = "install"
  <2>1. PICK channel \in {"", "stable", "beta", "nightly"}, version \in Versions \cup {Unset},
             manifest \in Manifests \cup {Unset}, platform \in {"linux64", Unset},
             served \in {Versions, {}}, cache \in Caches :
          question' = [of |-> "install", spec |-> [channel |-> channel, version |-> version],
                       manifest |-> manifest, platform |-> platform, served |-> served,
                       cache |-> cache]
    BY <1>9 DEF AskInstall
  <2> QED BY <2>1
<1>10. ASSUME AskPrompt PROVE question'.of = "prompt"
  BY <1>10 DEF AskPrompt
<1>11. ASSUME AskRecipients PROVE question'.of = "recipients"
  <2>1. PICK file \in Lists, args \in Arguments, own \in {a \in Arguments : Len(a) <= 1},
             right \in (UNION {Named(a) : a \in Arguments}) \ Refusable :
          question' = [of |-> "recipients", file |-> file, args |-> args, own |-> own,
                       right |-> right]
    BY <1>11 DEF AskRecipients
  <2> QED BY <2>1
<1> QED BY <1>1, <1>2, <1>3, <1>4, <1>5, <1>6, <1>7, <1>8, <1>9, <1>10, <1>11

\* Whatever the file, the environment and the flags say, the highest layer wins and
\* the store is the one that was asked for (Load and Resolve in config.go).
THEOREM LayeredConfiguration == Spec => []LayersAreHeeded
<1>1. Init => LayersAreHeeded
  BY DEF Init, LayersAreHeeded
<1>2. LayersAreHeeded /\ [Next]_question => LayersAreHeeded'
  <2> SUFFICES ASSUME LayersAreHeeded, [Next]_question
               PROVE  LayersAreHeeded'
    OBVIOUS
  <2>1. CASE AskConfig
    <3>1. PICK file \in Files, env \in Envs, flags \in FlagSets, legacy \in BOOLEAN :
            question' = [of |-> "config", file |-> file, env |-> env, flags |-> flags,
                         legacy |-> legacy]
      BY <2>1 DEF AskConfig
    <3>2. /\ question'.file = file /\ question'.env = env
          /\ question'.flags = flags /\ question'.legacy = legacy
      BY <3>1
    <3>3. HighestLayerWins(file, env, flags, legacy) /\ StoreAskedFor(file, env, flags, legacy)
      BY LayerOrder, StoreChoice
    <3> QED BY Zenon, <3>2, <3>3 DEF LayersAreHeeded
  <2>2. CASE AskTree \/ AskLink \/ AskRaw \/ AskVersions \/ AskBrowser \/ AskEdit \/ AskAdd
             \/ AskInstall \/ AskPrompt \/ AskRecipients
    <3>1. question'.of # "config"
      BY <2>2, Subjects
    <3> QED BY <3>1 DEF LayersAreHeeded
  <2>3. CASE UNCHANGED question
    BY <2>3 DEF LayersAreHeeded
  <2> QED BY <2>1, <2>2, <2>3 DEF Next
<1> QED BY <1>1, <1>2, PTL DEF Spec

\* Whatever flags are given to a profile with whatever settings, an edit is exact
\* (editAction in profile.go).
THEOREM ExactEdits == Spec => []EditsAreExact
<1>1. Init => EditsAreExact
  BY DEF Init, EditsAreExact
<1>2. EditsAreExact /\ [Next]_question => EditsAreExact'
  <2> SUFFICES ASSUME EditsAreExact, [Next]_question
               PROVE  EditsAreExact'
    OBVIOUS
  <2>1. CASE AskEdit
    <3>1. PICK stored \in Stored, secret \in {"", "old"}, cmd \in Commands, configured \in BOOLEAN :
            question' = [of |-> "edit", stored |-> stored, secret |-> secret, cmd |-> cmd,
                         configured |-> configured]
      BY <2>1 DEF AskEdit
    <3>2. /\ question'.of = "edit" /\ question'.stored = stored /\ question'.secret = secret
          /\ question'.cmd = cmd /\ question'.configured = configured
      BY <3>1
    <3>3. EditsWhatIsNamed(stored, secret, cmd, configured)
      BY EditNamed, StoredAssumption
    <3>4. "edit" # "add"
      OBVIOUS
    <3> QED BY Zenon, <3>2, <3>3, <3>4 DEF EditsAreExact
  <2>2. CASE AskAdd
    <3>1. PICK cmd \in Commands, edit \in Commands, configured \in BOOLEAN :
            question' = [of |-> "add", cmd |-> cmd, edit |-> edit, configured |-> configured]
      BY <2>2 DEF AskAdd
    <3>2. /\ question'.of = "add" /\ question'.cmd = cmd /\ question'.edit = edit
          /\ question'.configured = configured
      BY <3>1
    <3>3. AddedCanBeEdited(cmd, edit, configured)
      BY AddThenEdit
    <3>4. "edit" # "add"
      OBVIOUS
    <3> QED BY Zenon, <3>2, <3>3, <3>4 DEF EditsAreExact
  <2>3. CASE AskTree \/ AskLink \/ AskRaw \/ AskVersions \/ AskBrowser \/ AskConfig
             \/ AskInstall \/ AskPrompt \/ AskRecipients
    <3>1. question'.of \notin {"edit", "add"}
      BY <2>3, Subjects
    <3> QED BY <3>1 DEF EditsAreExact
  <2>4. CASE UNCHANGED question
    BY <2>4 DEF EditsAreExact
  <2> QED BY <2>1, <2>2, <2>3, <2>4 DEF Next
<1> QED BY <1>1, <1>2, PTL DEF Spec

\* Whatever versions there are, in whatever state, they are ordered and the choice of
\* a browser keeps to the pin and never goes back; what was installed can be pinned
\* (lessVersion, chrome/resolve.go, browser/resolve.go).
THEOREM StableBrowsers == Spec => []BrowsersAreChosen
<1>1. Init => BrowsersAreChosen
  BY DEF Init, BrowsersAreChosen
<1>2. BrowsersAreChosen /\ [Next]_question => BrowsersAreChosen'
  <2> SUFFICES ASSUME BrowsersAreChosen, [Next]_question
               PROVE  BrowsersAreChosen'
    OBVIOUS
  <2>1. CASE AskVersions
    <3>1. PICK a \in Versions, b \in Versions, c \in Versions :
            question' = [of |-> "versions", a |-> a, b |-> b, c |-> c]
      BY <2>1 DEF AskVersions
    <3>2. /\ question'.of = "versions" /\ question'.a = a /\ question'.b = b /\ question'.c = c
      BY <3>1
    <3>3. OrdersVersions(a, b, c)
      BY VersionOrder, VersionsAssumption
    <3>4. "versions" \notin {"browser", "install"}
      OBVIOUS
    <3> QED BY Zenon, <3>2, <3>3, <3>4 DEF BrowsersAreChosen
  <2>2. CASE AskBrowser
    <3>1. PICK cache \in Caches, v \in Versions, pinned \in Versions \cup {Unset},
               configured \in {Unset, "configured"}, found \in {Unset, "found"} :
            question' = [of |-> "browser", configured |-> configured, pinned |-> pinned,
                         found |-> found, cache |-> cache, v |-> v]
      BY <2>2 DEF AskBrowser
    <3>2. /\ question'.of = "browser" /\ question'.configured = configured
          /\ question'.pinned = pinned /\ question'.found = found
          /\ question'.cache = cache /\ question'.v = v
      BY <3>1
    <3>3. PinsAndUpgrades(configured, pinned, found, cache, v)
      BY BrowserChoice
    <3>4. "browser" \notin {"versions", "install"}
      OBVIOUS
    <3> QED BY Zenon, <3>2, <3>3, <3>4 DEF BrowsersAreChosen
  <2>3. CASE AskInstall
    <3>1. PICK channel \in {"", "stable", "beta", "nightly"}, version \in Versions \cup {Unset},
               manifest \in Manifests \cup {Unset}, platform \in {"linux64", Unset},
               served \in {Versions, {}}, cache \in Caches :
            question' = [of |-> "install", spec |-> [channel |-> channel, version |-> version],
                         manifest |-> manifest, platform |-> platform, served |-> served,
                         cache |-> cache]
      BY <2>3 DEF AskInstall
    <3>2. /\ question'.of = "install" /\ question'.spec = [channel |-> channel, version |-> version]
          /\ question'.manifest = manifest /\ question'.platform = platform
          /\ question'.served = served /\ question'.cache = cache
      BY <3>1
    <3>3. InstalledCanBePinned([channel |-> channel, version |-> version], manifest, platform,
                               served, cache)
      BY InstallChoice
    <3>4. "install" \notin {"versions", "browser"}
      OBVIOUS
    <3> QED BY Zenon, <3>2, <3>3, <3>4 DEF BrowsersAreChosen
  <2>4. CASE AskTree \/ AskLink \/ AskRaw \/ AskConfig \/ AskEdit \/ AskAdd
             \/ AskPrompt \/ AskRecipients
    <3>1. question'.of \notin {"versions", "browser", "install"}
      BY <2>4, Subjects
    <3> QED BY <3>1 DEF BrowsersAreChosen
  <2>5. CASE UNCHANGED question
    BY <2>5 DEF BrowsersAreChosen
  <2> QED BY <2>1, <2>2, <2>3, <2>4, <2>5 DEF Next
<1> QED BY <1>1, <1>2, PTL DEF Spec

\* Whatever links and raw outbounds users write, a link that is taken goes where it
\* says with all the upstream asks for, or is refused, and what is shown of it is none
\* of its credentials (ParseSpec and Describe in spec.go).
THEOREM HonouredProxies == Spec => []ProxiesAreHonoured
<1>1. Init => ProxiesAreHonoured
  BY DEF Init, ProxiesAreHonoured
<1>2. ProxiesAreHonoured /\ [Next]_question => ProxiesAreHonoured'
  <2> SUFFICES ASSUME ProxiesAreHonoured, [Next]_question
               PROVE  ProxiesAreHonoured'
    OBVIOUS
  <2>1. CASE AskLink
    <3>1. PICK u \in Links : question' = [of |-> "link", link |-> u]
      BY <2>1 DEF AskLink
    <3>2. question'.of = "link" /\ question'.link = u
      BY <3>1
    <3>3. ReachesUpstream(u) /\ ShownWithoutSecrets(u)
      BY LinkReaches, LinkShown
    <3>4. "link" # "raw"
      OBVIOUS
    <3> QED BY Zenon, <3>2, <3>3, <3>4 DEF ProxiesAreHonoured
  <2>2. CASE AskRaw
    <3>1. PICK fields \in Raws : question' = [of |-> "raw", fields |-> fields]
      BY <2>2 DEF AskRaw
    <3>2. question'.of = "raw" /\ question'.fields = fields
      BY <3>1
    <3>3. RawWithoutSecrets(fields)
      BY RawShown
    <3>4. "link" # "raw"
      OBVIOUS
    <3> QED BY Zenon, <3>2, <3>3, <3>4 DEF ProxiesAreHonoured
  <2>3. CASE AskTree \/ AskVersions \/ AskBrowser \/ AskInstall \/ AskConfig \/ AskEdit
             \/ AskAdd \/ AskPrompt \/ AskRecipients
    <3>1. question'.of \notin {"link", "raw"}
      BY <2>3, Subjects
    <3> QED BY <3>1 DEF ProxiesAreHonoured
  <2>4. CASE UNCHANGED question
    BY <2>4 DEF ProxiesAreHonoured
  <2> QED BY <2>1, <2>2, <2>3, <2>4 DEF Next
<1> QED BY <1>1, <1>2, PTL DEF Spec

\* Whatever a user-data directory holds, a save and a restore of it give the identity
\* back or an error (tarDir and extractTar in crypto.go).
THEOREM WholeBundles == Spec => []BundlesRoundTrip
<1>1. Init => BundlesRoundTrip
  BY DEF Init, BundlesRoundTrip
<1>2. BundlesRoundTrip /\ [Next]_question => BundlesRoundTrip'
  <2> SUFFICES ASSUME BundlesRoundTrip, [Next]_question
               PROVE  BundlesRoundTrip'
    OBVIOUS
  <2>1. CASE AskTree
    <3>1. PICK tree \in Trees : question' = [of |-> "tree", tree |-> tree]
      BY <2>1 DEF AskTree
    <3>2. question'.tree = tree
      BY <3>1
    <3>3. RoundTrips(tree)
      BY TreesAssumption, TreeRoundTrip
    <3> QED BY Zenon, <3>2, <3>3 DEF BundlesRoundTrip
  <2>2. CASE AskLink \/ AskRaw \/ AskVersions \/ AskBrowser \/ AskInstall \/ AskConfig
             \/ AskEdit \/ AskAdd \/ AskPrompt \/ AskRecipients
    <3>1. question'.of # "tree"
      BY <2>2, Subjects
    <3> QED BY <3>1 DEF BundlesRoundTrip
  <2>3. CASE UNCHANGED question
    BY <2>3 DEF BundlesRoundTrip
  <2> QED BY <2>1, <2>2, <2>3 DEF Next
<1> QED BY <1>1, <1>2, PTL DEF Spec

\* Whatever is typed and named, a passphrase that is typed in time is used and kept, none
\* that is wrong reaches a decrypt, and listing recipients only ever adds to them, even
\* when it is done again after a failure, but for a last line without a newline, which
\* the first of them is written on (askChecked in prompt.go, addRecipients in store.go,
\* AddRecipient in crypto.go).
THEOREM HandledKeys == Spec => []KeysAreHandled
<1>1. Init => KeysAreHandled
  BY DEF Init, KeysAreHandled
<1>2. KeysAreHandled /\ [Next]_question => KeysAreHandled'
  <2> SUFFICES ASSUME KeysAreHandled, [Next]_question
               PROVE  KeysAreHandled'
    OBVIOUS
  <2>1. CASE AskPrompt
    <3>1. PICK source \in {"terminal", "askpass", "nowhere"}, intact \in BOOLEAN, answers \in Typed :
            question' = [of |-> "prompt", source |-> source, intact |-> intact,
                         answers |-> answers]
      BY <2>1 DEF AskPrompt
    <3>2. /\ question'.of = "prompt" /\ question'.source = source
          /\ question'.intact = intact /\ question'.answers = answers
      BY <3>1
    <3>3. TypedOnce(source, intact, answers)
      <4>1. answers \in Seq(Answers)
        BY TypedAssumption
      <4> QED BY <4>1, PassphraseTyped
    <3>4. "prompt" # "recipients"
      OBVIOUS
    <3> QED BY Zenon, <3>2, <3>3, <3>4 DEF KeysAreHandled
  <2>2. CASE AskRecipients
    <3>1. PICK file \in Lists, args \in Arguments, own \in {a \in Arguments : Len(a) <= 1},
               right \in (UNION {Named(a) : a \in Arguments}) \ Refusable :
            question' = [of |-> "recipients", file |-> file, args |-> args, own |-> own,
                         right |-> right]
      BY <2>2 DEF AskRecipients
    <3>2. /\ question'.of = "recipients" /\ question'.file = file
          /\ question'.args = args /\ question'.own = own /\ question'.right = right
      BY <3>1
    <3> DEFINE K == Seq(Words)
    <3>3. Glues(K) /\ \A a \in Arguments : ArgumentsOf(a, K)
      BY WordsGlue, ArgumentsNamed
    <3>4. FileOf(file, K) /\ right \in K \ Refusable
      <4>1. FileOf(file, K)
        BY ArgumentsAssumption DEF FileOf
      <4>2. PICK a \in Arguments : right \in Named(a)
        OBVIOUS
      <4>3. PICK i \in DOMAIN a : right \in ToSet(a[i].keys)
        BY <4>2 DEF Named
      <4> HIDE DEF K
      <4>4. a[i].keys \in Seq(K)
        BY <3>3 DEF ArgumentsOf
      <4>5. PICK keys \in Seq(K) : right \in ToSet(keys)
        BY <4>3, <4>4
      <4>6. right \in K
        BY <4>5, LenProperties DEF ToSet
      <4> QED BY <4>1, <4>6
    <3> HIDE DEF K
    <3>5. ListGrows(file, args, right) /\ OwnKeyFirst(own, args)
      BY <3>3, <3>4, ListKept, OwnKeyListed
    <3>6. "prompt" # "recipients"
      OBVIOUS
    <3> QED BY Zenon, <3>2, <3>5, <3>6 DEF KeysAreHandled
  <2>3. CASE AskTree \/ AskLink \/ AskRaw \/ AskVersions \/ AskBrowser \/ AskInstall \/ AskConfig
             \/ AskEdit \/ AskAdd
    <3>1. question'.of \notin {"prompt", "recipients"}
      BY <2>3, Subjects
    <3> QED BY <3>1 DEF KeysAreHandled
  <2>4. CASE UNCHANGED question
    BY <2>4 DEF KeysAreHandled
  <2> QED BY <2>1, <2>2, <2>3, <2>4 DEF Next
<1> QED BY <1>1, <1>2, PTL DEF Spec
=============================================================================
