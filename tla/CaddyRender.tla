----------------------------- MODULE CaddyRender -----------------------------
(***************************************************************************)
(* The Caddyfile of the objects (internal/caddyrender): Render of one      *)
(* reading of the store, as the sites it writes and the reasons for which  *)
(* it writes nothing at all.                                               *)
(*                                                                         *)
(* db is kind -> id -> [key, spec]; spec is written as in TypeSpecs.       *)
(* Render goes through the routes in the order of their keys and gives up  *)
(* at the first that fails; here the reasons are kept as a set, and the    *)
(* one that is reported is one of them.  The global block, indentation and *)
(* quoting are left out.                                                   *)
(***************************************************************************)
EXTENDS Naturals, Sequences, SequencesExt

(* Object.String, Number, Bool, Strings: a field that is missing, or of    *)
(* another form, reads as nothing.                                         *)
Has(o, key, form)  == key \in DOMAIN o.spec /\ o.spec[key].form = form
Read(o, key, form) == IF Has(o, key, form) THEN o.spec[key].v ELSE <<>>
First(s)           == IF s = <<>> THEN "" ELSE s[1]
Texts(o, key)      == Read(o, key, "array")
TextOf(o, key)     == First(Read(o, key, "text"))
NumberOf(o, key)   == First(Read(o, key, "number"))
IsSet(o, key)      == First(Read(o, key, "switch")) = "true"

InstalledProtocols == {"http", "https", "grpc", "websocket"}

-----------------------------------------------------------------------------
(* Addresses                                                               *)

Positive(t) == t \notin {"", "0"}

(* routePort: the route's own, or the first port of the entrypoint. *)
RoutePort(rt, ep) ==
  LET ports == SelectSeq(Texts(ep, "ports"), Positive)
  IN IF Positive(NumberOf(rt, "port")) THEN NumberOf(rt, "port")
     ELSE IF ports # <<>> THEN ports[1] ELSE ""

DefaultPort(proto) == CASE proto = "http" -> "80" [] proto = "https" -> "443" [] OTHER -> "none"

(* siteAddr: only the first root counts.  Without one the host stands      *)
(* alone, whatever the protocol and the port, and a route that has neither *)
(* listens on the port.                                                    *)
SiteAddr(rt, ep, db) ==
  LET proto == TextOf(ep, "protocol")
      sub   == TextOf(rt, "subdomain")
      roots == Texts(rt, "roots")
      port  == RoutePort(rt, ep)
      root  == db["domain"][roots[1]].key
  IN IF roots = <<>> /\ sub # "" THEN [http |-> FALSE, host |-> sub, port |-> ""]
     ELSE IF roots = <<>> THEN [http |-> FALSE, host |-> "", port |-> port]
     ELSE [http |-> proto = "http",
           host |-> IF sub = "" THEN root ELSE sub \o "." \o root,
           port |-> IF port = DefaultPort(proto) THEN "" ELSE port]

(* An entry of an array that is empty is said not to exist. *)
Missing(kind, id) == IF id = "" THEN "empty reference" ELSE kind

AddressFailures(rt, ep, db) ==
  LET roots == Texts(rt, "roots") IN
  IF roots = <<>>
  THEN IF TextOf(rt, "subdomain") = "" /\ RoutePort(rt, ep) = "" THEN {"no address"} ELSE {}
  ELSE IF roots[1] \notin DOMAIN db["domain"] THEN {Missing("domain", roots[1])} ELSE {}

-----------------------------------------------------------------------------
(* Directives                                                              *)

(* hashes: the users with a stored password. *)
MiddlewareFailures(mw, db, hashes) ==
  LET type  == TextOf(mw, "type")
      users == ToSet(Texts(mw, "users"))
  IN CASE type = "basic_auth" ->
            IF users = {} THEN {"no users"}
            ELSE {IF u \notin DOMAIN db["user"] THEN Missing("user", u) ELSE "password" :
                    u \in {w \in users : w \notin DOMAIN db["user"] \/ w \notin hashes}}
       [] type = "headers" -> IF "malformed" \in ToSet(Texts(mw, "set")) THEN {"header"} ELSE {}
       [] type = "rewrite" -> IF "body" \in DOMAIN mw.spec THEN {"rewrite.body"} ELSE {}
       [] OTHER -> IF type \in {"websocket", "encode", "code"} THEN {} ELSE {"middleware type"}

(* The lines a middleware gives: its directive and what it takes from its  *)
(* fields; none when the fields ask for nothing.                           *)
MiddlewareLines(mw) ==
  LET type == TextOf(mw, "type")
      Directive(fields) == IF \A i \in DOMAIN fields : fields[i] = <<>> THEN <<>>
                           ELSE <<<<type>> \o FlattenSeq(fields)>>
  IN CASE type = "encode"     -> IF Texts(mw, "formats") = <<>> THEN <<>>
                                 ELSE Directive(<<Texts(mw, "formats"),
                                                  Read(mw, "minLength", "number")>>)
       [] type = "headers"    -> Directive(<<Texts(mw, "set"), Texts(mw, "delete")>>)
       [] type = "basic_auth" -> Directive(<<Texts(mw, "users")>>)
       [] type = "rewrite"    -> Directive(<<SelectSeq(Read(mw, "uri", "text"), LAMBDA t : t # "")>>)
       [] type = "code"       -> Directive(<<SelectSeq(Read(mw, "code", "text"), LAMBDA t : t # "")>>)
       [] OTHER               -> <<>>

(* upstreamLines: by the type of the service; the route's own backend      *)
(* without one.                                                            *)
ServiceType(rt, db) ==
  LET s == TextOf(rt, "service") IN
  IF s = "" \/ TextOf(db["service"][s], "type") = "" THEN "reverse_proxy"
  ELSE TextOf(db["service"][s], "type")

UpstreamFailures(rt, db) ==
  LET s == TextOf(rt, "service")
      svc == db["service"][s]
      Needs(key) == IF TextOf(svc, key) # "" THEN {}
                    ELSE IF key \in DOMAIN svc.spec /\ ~Has(svc, key, "text") THEN {"not a text"}
                    ELSE {key}
  IN IF s # "" /\ s \notin DOMAIN db["service"] THEN {"service"}
     ELSE CASE ServiceType(rt, db) = "reverse_proxy" -> {}
            [] ServiceType(rt, db) = "file_server" -> Needs("root")
            [] ServiceType(rt, db) = "respond"     -> Needs("body")
            [] ServiceType(rt, db) = "redirect"    -> Needs("to")
            [] OTHER -> {"service type"}

UpstreamLines(rt, db) ==
  LET s    == TextOf(rt, "service")
      svc  == db["service"][s]
      host == TextOf(rt, "backend.host")
      port == NumberOf(rt, "backend.port")
  IN CASE ServiceType(rt, db) = "reverse_proxy" ->
            IF host = "" \/ port = "" THEN <<<<"respond", "500">>>>
            ELSE <<<<"reverse_proxy", host, port>>>>
       [] ServiceType(rt, db) = "file_server" ->
            <<<<"root", TextOf(svc, "root")>>>> \o
            (IF IsSet(svc, "browse") THEN <<<<"file_server", "browse">>>> ELSE <<>>)
       [] ServiceType(rt, db) = "respond" ->
            <<IF NumberOf(svc, "status") \in {"", "0", "200"} THEN <<"respond", TextOf(svc, "body")>>
              ELSE <<"respond", "/" \o NumberOf(svc, "status"), TextOf(svc, "body")>>>>
       [] OTHER                            -> <<<<"redir", TextOf(svc, "to")>>>>

(* routeLines: the middlewares in their order, tls, the upstream. *)
TLSLines(rt) ==
  CASE TextOf(rt, "tls") = "off" -> <<<<"tls", "internal">>>>
    [] TextOf(rt, "tls") \in {"", "auto"} -> <<>>
    [] OTHER -> <<<<"tls", TextOf(rt, "tls")>>>>

RouteLines(rt, db) ==
  FlattenSeq([i \in DOMAIN Texts(rt, "middlewares") |->
                MiddlewareLines(db["middleware"][Texts(rt, "middlewares")[i]])])
    \o TLSLines(rt) \o UpstreamLines(rt, db)

-----------------------------------------------------------------------------
(* Render                                                                  *)

Active(db) == {r \in DOMAIN db["route"] : IsSet(db["route"][r], "enabled")}

RouteFailures(rt, db, hashes) ==
  LET e   == TextOf(rt, "entrypoint")
      mws == ToSet(Texts(rt, "middlewares"))
  IN IF e \notin DOMAIN db["entrypoint"] THEN {"entrypoint"}
     ELSE IF TextOf(db["entrypoint"][e], "protocol") \notin InstalledProtocols THEN {"protocol"}
     ELSE {Missing("middleware", m) : m \in mws \ DOMAIN db["middleware"]}
            \cup (UNION {MiddlewareFailures(db["middleware"][m], db, hashes) :
                           m \in mws \cap DOMAIN db["middleware"]})
            \cup UpstreamFailures(rt, db)
            \cup AddressFailures(rt, db["entrypoint"][e], db)

Site(r, db) ==
  LET rt == db["route"][r]
      ep == db["entrypoint"][TextOf(rt, "entrypoint")]
  IN [addr |-> SiteAddr(rt, ep, db), of |-> r, lines |-> RouteLines(rt, db)]

(* One bad route, or two at one address, and there is no file. *)
Render(db, hashes) ==
  LET bad   == UNION {RouteFailures(db["route"][r], db, hashes) : r \in Active(db)}
      sites == {Site(r, db) : r \in Active(db)}
      twice == \E a, b \in sites : a.of # b.of /\ a.addr = b.addr
  IN IF bad # {} THEN [failures |-> bad, sites |-> {}]
     ELSE IF twice THEN [failures |-> {"address taken"}, sites |-> {}]
     ELSE [failures |-> {}, sites |-> sites]
=============================================================================
