------------------------------ MODULE ProxySpec ------------------------------
(***************************************************************************)
(* From a profile's proxy string to a sing-box outbound, and to what is    *)
(* shown of it (internal/infra/proxy/spec.go; ValidateProxySpec in         *)
(* internal/domain/profile/profile.go).                                    *)
(*                                                                         *)
(* A link is what url.Parse makes of the string: [scheme, host, port,      *)
(* user, pass, q], where host = None has no authority and "" a port alone, *)
(* port is a number or None, pass = None has no colon, and q maps query    *)
(* parameters to values.  A user is None or [text, method, password]: what *)
(* is written there, and what that is base64 of, None if it is not.  A raw *)
(* JSON outbound, and the outbound made of any spec, maps the fields it    *)
(* has to their values.                                                    *)
(***************************************************************************)
EXTENDS Naturals

CONSTANT None

\* "" is absent as well as empty, as with q.Get.
Get(q, key) == IF key \in DOMAIN q THEN q[key] ELSE ""
\* TLC's :> and @@, which the proof system has no definition of.
Field(name, value) == [f \in {name} |-> value]
some ++ more ==
  [f \in DOMAIN some \cup DOMAIN more |-> IF f \in DOMAIN some THEN some[f] ELSE more[f]]
Fields(condition, fields) == IF condition THEN fields ELSE << >>
Refused == [ok |-> FALSE, out |-> << >>]
Outbound(fields) == [ok |-> TRUE, out |-> fields]

hostPort(u) == u.host # None /\ u.port # None /\ u.port \in 0..65535

base(kind, u) == Field("type", kind) ++ Field("server", u.host) ++ Field("server_port", u.port)
Password(u) == IF u.pass = None THEN "" ELSE u.pass
UserPass(u) ==
  Fields(u.user # None, Field("username", u.user.text) ++ Field("password", Password(u)))

\* peer is what older links call sni; no link parameter switches TLS off.
ServerName(u) ==
  IF Get(u.q, "sni") # "" THEN Get(u.q, "sni")
  ELSE IF Get(u.q, "peer") # "" THEN Get(u.q, "peer") ELSE u.host
\* Wrong on purpose: the fingerprint is dropped.
tlsOptionsMutant(u) == Field("server_name", ServerName(u))
tlsOptions(u) ==
  Field("server_name", ServerName(u))
  ++ Fields(Get(u.q, "alpn") # "", Field("alpn", Get(u.q, "alpn")))
  ++ Fields(Get(u.q, "allowInsecure") = "1" \/ Get(u.q, "insecure") = "true",
            Field("insecure", "true"))
  ++ Fields(Get(u.q, "fp") # "", Field("utls", Get(u.q, "fp")))
  ++ Fields(Get(u.q, "pbk") # "",
            Field("reality", <<Get(u.q, "pbk"), Get(u.q, "sid")>>))

transportOptions(u) ==
  Fields(Get(u.q, "type") \in {"ws", "grpc", "http"},
    Field("transport",
      Field("type", Get(u.q, "type"))
      ++ Fields(Get(u.q, "type") # "grpc" /\ Get(u.q, "path") # "", Field("path", Get(u.q, "path")))
      ++ Fields(Get(u.q, "type") # "grpc" /\ Get(u.q, "host") # "", Field("host", Get(u.q, "host")))
      ++ Fields(Get(u.q, "type") = "grpc" /\ Get(u.q, "serviceName") # "",
                Field("service_name", Get(u.q, "serviceName")))))

socksOutbound(u, version) ==
  IF version # "5" /\ u.user # None THEN Refused
  ELSE Outbound(base("socks", u) ++ Field("version", version) ++ UserPass(u))

httpOutbound(u) ==
  Outbound(base("http", u) ++ UserPass(u)
           ++ Fields(u.scheme = "https", Field("tls", Field("server_name", u.host))))

trojanOutbound(u) ==
  IF u.user = None \/ u.user.text = "" THEN Refused
  ELSE Outbound(base("trojan", u) ++ Field("password", u.user.text)
                ++ Field("tls", tlsOptions(u)) ++ transportOptions(u))

vlessOutbound(u) ==
  IF u.user = None \/ u.user.text = "" THEN Refused
  ELSE Outbound(base("vless", u) ++ Field("uuid", u.user.text)
                ++ Fields(Get(u.q, "flow") # "", Field("flow", Get(u.q, "flow")))
                ++ Fields(Get(u.q, "security") \in {"tls", "reality", "xtls"},
                          Field("tls", tlsOptions(u)))
                ++ transportOptions(u))

\* method:password, in the clear or encoded.
Decoded(u) == IF u.pass # None THEN <<u.user.text, u.pass>> ELSE <<u.user.method, u.user.password>>
shadowsocksOutbound(u) ==
  IF u.user = None THEN Refused
  ELSE IF u.pass = None /\ (u.user.method = None \/ u.user.password = "") THEN Refused
  ELSE Outbound(base("shadowsocks", u)
                ++ Field("method", Decoded(u)[1]) ++ Field("password", Decoded(u)[2]))

fromURL(u) ==
  IF ~hostPort(u) THEN Refused
  ELSE CASE u.scheme \in {"socks5", "socks5h", "socks"} -> socksOutbound(u, "5")
         [] u.scheme = "socks4" -> socksOutbound(u, "4")
         [] u.scheme = "socks4a" -> socksOutbound(u, "4a")
         [] u.scheme \in {"http", "https"} -> httpOutbound(u)
         [] u.scheme = "trojan" -> trojanOutbound(u)
         [] u.scheme = "vless" -> vlessOutbound(u)
         [] u.scheme = "ss" -> shadowsocksOutbound(u)
         [] OTHER -> Refused

\* A raw outbound is taken verbatim if it has a type.
parseRawJSON(fields) == IF "type" \in DOMAIN fields THEN Outbound(fields) ELSE Refused

\* What Describe puts on a screen; a URL's port comes with its host.
Describe(u) == IF u.host = None THEN {} ELSE {u.host, u.scheme}
DescribeRaw(fields) ==
  IF "type" \notin DOMAIN fields THEN {}
  ELSE {Get(fields, "server"), fields["type"]}

\* The domain's own, shallower check of a link.
ValidateProxySpec(u) == u.scheme # "" /\ u.host # None

-----------------------------------------------------------------------------
(* Properties. *)

\* What a link is to be kept secret for; the form without an @ hides it in the host.
Secrets(u) ==
  ((IF u.user = None THEN {} ELSE {u.user.text, u.user.password}) \cup {u.pass}) \ {None, ""}
Credentials(u) == Secrets(u) \cup (IF u.port = None THEN {u.host} ELSE {})

\* What the upstream will ask for.  After the user of a trojan or vless link there
\* is nothing more.
Asked(u) ==
  CASE u.user = None -> {}
    [] u.scheme \in {"trojan", "vless"} -> {u.user.text}
    [] u.scheme = "ss" /\ u.pass = None -> {u.user.method, u.user.password}
    [] OTHER -> {u.user.text, u.pass} \ {None}
Values(out) == {out[f] : f \in DOMAIN out \cap {"username", "password", "uuid", "method"}}

\* An outbound goes to the link's server with all the upstream asks for, under TLS
\* where the link's scheme needs it and the link does not say otherwise (spec.go:204),
\* and under the TLS identity it names (spec.go:287-290); a user whom the protocol cannot carry is refused, not dropped.
ReachesUpstream(u) ==
  LET out == fromURL(u).out IN
  fromURL(u).ok =>
    /\ out["server"] = u.host /\ out["server_port"] = u.port
    /\ Asked(u) \subseteq Values(out)
    /\ u.scheme = "https" => "tls" \in DOMAIN out
    /\ u.scheme = "trojan" /\ Get(u.q, "security") # "none" => "tls" \in DOMAIN out
    /\ "tls" \in DOMAIN out /\ u.scheme # "https" =>
         (Get(u.q, "fp") # "" <=> "utls" \in DOMAIN out["tls"])

\* A spec that profile add accepts passes the check of every later Put, is named on
\* the screen by its server, and none of its credentials are (spec.go:366-370).
ShownWithoutSecrets(u) ==
  fromURL(u).ok =>
    /\ ValidateProxySpec(u)
    /\ u.host \in Describe(u)
    /\ Describe(u) \cap (Credentials(u) \ {None, ""}) = {}

\* A raw outbound is handed on as it was written, and shows nothing but where it
\* goes (spec.go:361-363).
RawWithoutSecrets(fields) ==
  parseRawJSON(fields).ok =>
    /\ parseRawJSON(fields).out = fields
    /\ DescribeRaw(fields) \subseteq {Get(fields, "server"), fields["type"]}
=============================================================================
