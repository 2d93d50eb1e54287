---------------------------- MODULE ProfileFlags ----------------------------
(***************************************************************************)
(* From the flags of profile add and edit to the profile that is stored    *)
(* (internal/cmd/profile/profile.go; Validate in internal/domain/profile/  *)
(* profile.go).  ProfileStore has the steps of the writes.                 *)
(*                                                                         *)
(* cmd maps the flags that were given to their values: "" clears, "new" is *)
(* a good value, "bad" one that is none.  A profile maps its settings to   *)
(* values; a stored one, or one edited by hand, may hold a "bad" one.  Its *)
(* proxy is "" in the document, which never holds it.                      *)
(***************************************************************************)
EXTENDS Naturals

CONSTANT FreeSettings \* those nothing is checked of: notes, user-agent, lang, ...

ASSUME FreeAssumption ==
  FreeSettings \cap {"proxy", "timezone", "webrtc-mode", "screen", "geo", "no-proxy"} = {}

Checked == {"timezone", "webrtc-mode"}
Settings == FreeSettings \cup Checked \cup {"screen", "geo", "proxy"}
Empty == [s \in Settings |-> ""]

\* --no-proxy=false counts as not given.
NoProxy(cmd) == "no-proxy" \in DOMAIN cmd /\ cmd["no-proxy"] = "new"

\* Wrong on purpose: a flag that was not given clears its setting.
applyFlagsMutant(p, cmd) ==
  [s \in Settings |-> IF s \in DOMAIN cmd THEN cmd[s] ELSE IF s \in Checked THEN "" ELSE p[s]]
applyFlags(p, cmd) == [s \in Settings |-> IF s \in DOMAIN cmd THEN cmd[s] ELSE p[s]]

\* A number may be negative and a screen of no size is one.
parseScreen(cmd) == "screen" \in DOMAIN cmd => cmd["screen"] # "bad"
\* "nan" is a float, and neither below -90 nor above 90.
parseGeo(cmd) == "geo" \in DOMAIN cmd => cmd["geo"] # "bad"
ParseSpec(spec) == spec # "bad"
Validate(p) == \A s \in Checked : p[s] # "bad"

applyEdit(p, cmd) ==
  LET q == applyFlags(p, cmd) IN
  [ok |-> parseScreen(cmd) /\ parseGeo(cmd) /\ ParseSpec(q["proxy"]) /\ Validate(q), profile |-> q]

\* What a command leaves behind: whether it succeeded, the document's entry and the
\* proxy in the secret.  The document has no proxy (toml:"-").
Left(ok, p, secret) == [ok |-> ok, profile |-> [p EXCEPT !["proxy"] = ""], secret |-> secret]

applyProxyChange(cmd, p, secret) ==
  IF NoProxy(cmd) THEN "" ELSE IF "proxy" \in DOMAIN cmd THEN p["proxy"] ELSE secret

\* Every check comes before the first write.
editAction(stored, secret, cmd, configured) ==
  LET edited == applyEdit(stored, cmd)
      p == edited.profile IN
  IF \/ "proxy" \in DOMAIN cmd /\ NoProxy(cmd)
     \/ ~edited.ok
     \/ p["proxy"] # "" /\ ~configured
  THEN Left(FALSE, stored, secret) ELSE Left(TRUE, p, applyProxyChange(cmd, p, secret))

\* Add validates, and refuses a name that is taken, before it writes; a secret that a
\* removed profile of the name left behind stays when no proxy is given.
addCommand(secret, cmd, configured, taken) ==
  LET p == applyFlags(Empty, cmd) IN
  IF \/ ~parseScreen(cmd) \/ ~ParseSpec(p["proxy"]) \/ ~Validate(p)
     \/ p["proxy"] # "" /\ ~configured
     \/ taken
  THEN Left(FALSE, Empty, secret)
  ELSE Left(TRUE, p, IF p["proxy"] # "" THEN p["proxy"] ELSE secret)

-----------------------------------------------------------------------------
(* Properties. *)

WellFormed(cmd) ==
  /\ \A s \in DOMAIN cmd \cap ({"screen", "geo", "proxy"} \cup Checked) : cmd[s] # "bad"
  /\ ~("proxy" \in DOMAIN cmd /\ NoProxy(cmd))

\* Edit changes the settings it names and no other (profile.go:109), the proxy among
\* them wherever it is stored, or changes nothing and says so (profile.go:281); it
\* says so only if the flags or what they leave standing is wrong, so that naming
\* each bad setting repairs a profile, and all that refuse nothing are stored.
EditsWhatIsNamed(stored, secret, cmd, configured) ==
  LET left == editAction(stored, secret, cmd, configured)
      needsKey == "proxy" \in DOMAIN cmd /\ cmd["proxy"] # "" IN
  /\ left.ok <=> /\ WellFormed(cmd)
                 /\ \A s \in Checked \ DOMAIN cmd : stored[s] # "bad"
                 /\ needsKey => configured
  /\ left.ok =>
       /\ \A s \in Settings \ {"proxy"} :
            left.profile[s] = IF s \in DOMAIN cmd THEN cmd[s] ELSE stored[s]
       /\ left.secret = IF NoProxy(cmd) THEN "" ELSE IF "proxy" \in DOMAIN cmd THEN cmd["proxy"] ELSE secret
  /\ ~left.ok => left.profile = stored /\ left.secret = secret

\* What add stores can be edited: a profile made by commands alone is never refused
\* for a setting the edit does not name.
AddedCanBeEdited(cmd, edit, configured) ==
  LET added == addCommand("", cmd, configured, FALSE) IN
  added.ok /\ WellFormed(edit) /\ configured =>
    editAction(added.profile, added.secret, edit, configured).ok
=============================================================================
