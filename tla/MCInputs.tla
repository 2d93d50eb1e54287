------------------------------ MODULE MCInputs ------------------------------
(* Inputs over small sets, in which every branch of the code is taken. *)
EXTENDS Inputs

\* Trees of two entries and the directories above them.
Paths ==
  {<<"First Run">>, <<"Cache">>, <<"Cache", "f">>, <<"Default", "Cookies">>,
   <<"Default", "Cache", "f">>, <<"Default", "Code Cache">>,
   <<"Default", "Service Worker", "Database">>,
   <<"Default", "Service Worker", "CacheStorage", "f">>, <<"Service Worker", "ScriptCache">>,
   <<"Default", "Extensions", "Cache", "f">>}
Entry(path, kind, size, now) == [path |-> path, kind |-> kind, size |-> size, now |-> now]
Leaves ==
  {Entry(p, "file", n, n) : p \in Paths, n \in {0, Limit, Limit + 1}}
    \cup {Entry(p, "file", 1, n) : p \in Paths, n \in {0, 2, Gone}}
    \cup {Entry(p, "link", n, n) : p \in Paths, n \in 0..3}
    \cup {Entry(p, k, 0, n) : p \in Paths, k \in {"dir", "absolute link", "irregular"}, n \in {0, Gone}}
Above(e) == {Entry(SubSeq(e.path, 1, n), "dir", 0, 0) : n \in 1..(Len(e.path) - 1)}
Apart(a, b) == ~IsPrefix(a.path, b.path) /\ ~IsPrefix(b.path, a.path)
SmallTrees ==
  {{a} \cup Above(a) : a \in Leaves}
    \cup {{ab[1], ab[2]} \cup Above(ab[1]) \cup Above(ab[2]) :
            ab \in {xy \in Leaves \X Leaves : Apart(xy[1], xy[2])}}

\* Links of every scheme and of some that are not known.
Users ==
  {None} \cup {[text |-> "", method |-> None, password |-> None],
               [text |-> "user", method |-> None, password |-> None],
               [text |-> "encoded", method |-> "cipher", password |-> "key"],
               [text |-> "encoded", method |-> "cipher", password |-> ""]}
Queries ==
  {<< >>, "security" :> "tls", "security" :> "none",
   "security" :> "reality" @@ "pbk" :> "public key" @@ "fp" :> "chrome",
   "security" :> "tls" @@ "fp" :> "chrome" @@ "type" :> "ws" @@ "path" :> "/p",
   "peer" :> "front" @@ "allowInsecure" :> "1" @@ "type" :> "grpc" @@ "serviceName" :> "s",
   "security" :> "Utls" @@ "type" :> "httpupgrade"}
SmallLinks ==
  {u \in [scheme : {"socks5", "socks4", "socks4a", "http", "https", "trojan", "vless", "ss", "ftp", ""},
           host : {None, "", "host"}, port : {None, 1080, 65536}, user : Users,
           pass : {None, "", "secret"}, q : Queries] :
     u.user = None => u.pass = None}
SmallRaws == UNION {[D -> {"a", "b"}] : D \in SUBSET {"type", "server", "password"}}

SmallVersions == {<<1>>, <<1, 0>>, <<1, 1>>, <<2, 0, 1>>, <<10>>}
SmallCaches ==
  UNION {[V -> {"whole", "temporary", "no binary", "no metadata"}] : V \in SUBSET {<<1>>, <<1, 1>>, <<10>>}}

SmallManifests ==
  UNION {[D -> [version : {<<1>>, <<1, 1>>}, platforms : {{}, {"linux64"}}]] : D \in {{"stable"}, {"beta"}}}
    \cup {[channel \in {"stable", "beta"} |->
            [version |-> IF channel = "beta" THEN <<2, 0, 1>> ELSE <<10>>, platforms |-> {"linux64"}]]}

\* Layers that each name up to two keys.
UpToTwo(names, values) == UNION {[D -> values] : D \in {S \in SUBSET names : Cardinality(S) <= 2}}
SmallFiles == UpToTwo({"store", "store_dir", "identity_path"}, {"", "work"})
SmallEnvs == UpToTwo({"store", "store_dir", "identity", "identity_path"}, {"", "home"})
SmallFlagSets == UpToTwo({"store", "store_dir", "identity"}, {"", "../x", "play"})

\* Up to two flags, and profiles of which one setting may be bad.
SmallCommands ==
  UpToTwo({"notes", "timezone", "webrtc-mode", "screen", "geo", "proxy", "no-proxy"}, {"", "new", "bad"})
SmallStored ==
  {[Empty EXCEPT !["notes"] = "old", ![s] = v] :
     s \in {"timezone", "webrtc-mode", "geo"}, v \in {"", "old", "bad"}}

\* Two prompts of three tries.
SmallTyped == [1..6 -> Answers]

\* Up to two arguments of up to two keys, and files with and without a newline at the end.
SmallWords == {"age1 a", "ssh-b", "typo"}
SmallRefusable == {<<"typo">>}
SmallKeys == [1..1 -> SmallWords]
SmallArgument ==
  {[ok |-> TRUE, keys |-> k] : k \in UNION {[1..n -> SmallKeys] : n \in 0..2}}
    \cup {[ok |-> FALSE, keys |-> <<>>]}
SmallArguments == UNION {[1..n -> SmallArgument] : n \in 0..2}
SmallLists ==
  {file \in [lines : {<<>>, <<<<"age1 a">>>>, <<<<"ssh-b">>, <<"typo">>>>}, tail : Tails] :
     file.tail = "key" => file.lines # <<>>}

-----------------------------------------------------------------------------
(* What documents say and the code does not keep. *)

\* "their copy decrypts the proxy and the session bundle and resumes the account"
\* (README.md:135): what tarDir accepts, extractTar takes.  A file over the limit and
\* a link out of the directory are packed and refused for ever after.
PackedUnpacks ==
  question.of = "tree" /\ tarDir(question.tree).ok => extractTar(tarDir(question.tree)).ok

\* "Reject them rather than let sing-box drop them and the connection fail for a reason
\* nobody can see" (spec.go:153, of socks4 accounts): a security or a transport that is
\* not known is dropped.
NothingDropped ==
  question.of = "link" /\ fromURL(question.link).ok =>
    LET q == question.link.q  out == fromURL(question.link).out IN
    /\ question.link.scheme = "vless" /\ Get(q, "security") \notin {"", "none"} => "tls" \in DOMAIN out
    /\ question.link.scheme \in {"vless", "trojan"} /\ Get(q, "type") \notin {"", "tcp"} =>
         "transport" \in DOMAIN out

\* "TLS is on unless the link explicitly says otherwise" (spec.go:204): what a trojan
\* link says of its security is not read.
TrojanMayGoWithoutTLS ==
  question.of = "link" /\ question.link.scheme = "trojan" /\ fromURL(question.link).ok =>
    (Get(question.link.q, "security") = "none" <=> "tls" \notin DOMAIN fromURL(question.link).out)

\* "Defaults to ~/.ssh/id_ed25519.  identity_path = """ (config.example.toml:29-32): a
\* file with that line has no key, whose "" crypt.go:216 then reads.
EmptyIsDefault ==
  question.of = "config" =>
    LET above == DOMAIN question.env \cup DOMAIN question.flags
        c == loadConfig(question.file, question.env, question.flags, question.legacy).config IN
    above \cap {"identity", "identity_path"} = {} => c["identity_path"] # ""

\* "shadowsocks link needs method:password" (spec.go:262): only the encoded form is
\* asked for both, cipher:@host:port is taken.
ShadowsocksNeedsPassword ==
  question.of = "link" /\ question.link.scheme = "ss" /\ fromURL(question.link).ok =>
    fromURL(question.link).out["password"] # ""

\* "needs host:port" (spec.go:125): socks5://:1080 has no host and is taken.
ServerIsNamed ==
  question.of = "link" /\ fromURL(question.link).ok => fromURL(question.link).out["server"] # ""

\* "so `browser install` alone is enough on a machine with no system Chrome"
\* (chrome/resolve.go:23): not with a higher version beside it that has no binary.
InstallIsEnough ==
  question.of = "browser" =>
    \/ question.configured # Unset \/ question.pinned # Unset
    \/ \A v \in DOMAIN question.cache : ~ExecPath(question.cache, v)
    \/ chromeResolve(Unset, Unset, question.found, question.cache) # {}

\* "so a command asks for it at most once" (store.go:49): a prompt that gave up is
\* not remembered, and the next artifact asks three times more.
AsksOnce ==
  question.of = "prompt" =>
    LET s == Prompts(question.source, question.intact, question.answers) IN
    \A n, k \in DOMAIN s \ {0} : s[n].reads > 0 /\ s[k].reads > 0 => n = k
=============================================================================
