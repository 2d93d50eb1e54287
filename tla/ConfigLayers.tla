---------------------------- MODULE ConfigLayers ----------------------------
(***************************************************************************)
(* How the configuration of a command is put together                      *)
(* (internal/infra/config/config.go; loadConfig in internal/cmd/root.go).  *)
(*                                                                         *)
(* A layer maps the keys it names to values; naming one with "" sets it.   *)
(* A file that is missing is an empty layer; env is what HAMZAD_ variables *)
(* say, flags the command line.  A root flag reads the variable of its own *)
(* name too, which differs from the setting's for the identity: HAMZAD_    *)
(* IDENTITY is the flag's, HAMZAD_IDENTITY_PATH the setting's, named here  *)
(* "identity" and "identity_path".                                         *)
(***************************************************************************)
EXTENDS Naturals, Sequences

CONSTANT ValidNames \* the store names that storeNameRE matches

ASSUME DefaultStoreAssumption == "default" \in ValidNames

Keys == {"store", "store_dir", "identity_path", "keychain"}
Default == [s \in Keys |-> IF s = "identity_path" THEN "ssh key" ELSE ""]

\* Keys that are no setting are ignored by Unmarshal.
Over(upper, lower) == [s \in Keys |-> IF s \in DOMAIN upper THEN upper[s] ELSE lower[s]]

Load(file, env) == Over(env, Over(file, Default))

FlagOf(s) == IF s = "identity_path" THEN "identity" ELSE s
\* cmd.IsSet: on the command line or, failing that, in the flag's variable.
FlagsSet(env, flags) == {s \in Keys : FlagOf(s) \in DOMAIN flags \cup DOMAIN env}
ByFlags(env, flags) ==
  [s \in FlagsSet(env, flags) |->
     IF FlagOf(s) \in DOMAIN flags THEN flags[FlagOf(s)] ELSE env[FlagOf(s)]]

\* A directory is of one of three kinds: a named store, one that was given, the root.
StorePath(name) == [kind |-> "named", name |-> name]

\* Wrong on purpose: the old layout is adopted whatever store was named.
ResolveMutant(c, legacy) ==
  IF c["store_dir"] # "" THEN [ok |-> TRUE, dir |-> [kind |-> "given", name |-> c["store_dir"]]]
  ELSE IF legacy THEN [ok |-> TRUE, dir |-> [kind |-> "root", name |-> ""]]
  ELSE [ok |-> c["store"] \in {""} \cup ValidNames,
        dir |-> StorePath(IF c["store"] = "" THEN "default" ELSE c["store"])]
\* legacy: the config root holds a profiles.toml.
Resolve(c, legacy) ==
  IF c["store_dir"] # "" THEN [ok |-> TRUE, dir |-> [kind |-> "given", name |-> c["store_dir"]]]
  ELSE IF c["store"] = "" /\ legacy THEN [ok |-> TRUE, dir |-> [kind |-> "root", name |-> ""]]
  ELSE [ok |-> c["store"] \in {""} \cup ValidNames,
        dir |-> StorePath(IF c["store"] = "" THEN "default" ELSE c["store"])]

loadConfig(file, env, flags, legacy) ==
  LET c == Over(ByFlags(env, flags), Load(file, env)) IN
  [config |-> c, store |-> Resolve(c, legacy)]

-----------------------------------------------------------------------------
(* Properties. *)

\* From the highest to the lowest, with the flag's own variable between the flags
\* and the rest of the environment.
Layers(file, env, flags) ==
  <<ByFlags(env, flags), env, file, Default>>

\* Later layers win (config.go:168, root.go:92): every setting has the value of the
\* highest layer that names it, whichever the others are and even if that value is "":
\* what names no store makes the default one, what names no key makes no key.
HighestLayerWins(file, env, flags, legacy) ==
  \A s \in Keys :
    \E n \in 1..4 :
      LET layer == Layers(file, env, flags) IN
      /\ s \in DOMAIN layer[n]
      /\ \A k \in 1..(n - 1) : s \notin DOMAIN layer[k]
      /\ loadConfig(file, env, flags, legacy).config[s] = layer[n][s]

\* A command works on the store that was asked for: one in the old layout is never
\* orphaned (config.go:113-115) nor taken for another that was named, a name that
\* could leave the config root gets none, and no other setting, in whatever layer,
\* moves the store.
StoreAskedFor(file, env, flags, legacy) ==
  LET asked == loadConfig(file, env, flags, legacy).config
      store == loadConfig(file, env, flags, legacy).store
      OnlyStores(layer) == [s \in DOMAIN layer \cap {"store", "store_dir"} |-> layer[s]] IN
  /\ store.ok =>
       /\ store.dir.kind = "root" <=> legacy /\ asked["store"] = "" /\ asked["store_dir"] = ""
       /\ store.dir.kind = "named" => asked["store_dir"] = "" /\ store.dir.name \in ValidNames
  /\ ~store.ok => asked["store"] \notin ValidNames
  /\ store = loadConfig(OnlyStores(file), OnlyStores(env), OnlyStores(flags), legacy).store
=============================================================================
