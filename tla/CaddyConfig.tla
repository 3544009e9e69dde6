----------------------------- MODULE CaddyConfig -----------------------------
(***************************************************************************)
(* The Caddyfile the gateway writes (internal/adapter/caddy), as a set of  *)
(* site blocks computed from one reading of the stored facts.              *)
(*                                                                         *)
(* Names of hosts are sequences of labels, so that "sub.root" is sub \o    *)
(* root and a managed root domain is a suffix.  The body of a fragment is  *)
(* abstracted to its form, the variables it uses and the subdirectives of  *)
(* reverse_proxy it gives; the text of a line is the name of the fragment  *)
(* with the values put into it.                                            *)
(*                                                                         *)
(* env is what Generate is given besides the services:                     *)
(*   frags    user and built-in fragments, id -> [form, uses, gives, code]  *)
(*   vars     user variables, name -> value                                *)
(*   apps     applications, id -> name                                     *)
(*   dns      managed root domains with a credential                       *)
(*   certs    hosts whose two certificate files exist                      *)
(*   options  [http, https : main port or 0, moreHttp, moreHttps : ports]  *)
(***************************************************************************)
EXTENDS Naturals, Sequences, SequencesExt

IsHTTPProto(p) == p \in {"", "https", "http"}

(* A domain row [proto, sub, root, port]; port 0 is "no custom port".       *)
Host(d) == d.sub \o d.root

SiteAddress(d) == [http |-> d.proto = "http", host |-> Host(d), port |-> d.port]

-----------------------------------------------------------------------------
(* Fragments                                                               *)

SkipVerify == "frag-skip-verify"
LogConfig  == "frag-log-config"

Template(form, uses, gives, default, hidden) ==
  [form |-> form, uses |-> uses, gives |-> gives, code |-> 0,
   default |-> default, hidden |-> hidden]

BuiltinFragmentCatalog ==
  [f \in {"frag-gzip", "frag-basic-auth", SkipVerify, LogConfig, "frag-block-common",
          "frag-static-cache", "frag-websocket"} |->
     CASE f = SkipVerify        -> Template("proxy", {}, {"transport"}, FALSE, FALSE)
       [] f = LogConfig         -> Template("site", {"GB_LOG_FILE"}, {}, TRUE, FALSE)
       [] f = "frag-websocket"  -> Template("proxy", {}, {}, TRUE, FALSE)
       [] f = "frag-basic-auth" -> Template("site", {}, {}, FALSE, TRUE)
       [] f = "frag-static-cache" -> Template("site", {}, {}, FALSE, FALSE)
       [] OTHER                 -> Template("site", {}, {}, TRUE, FALSE)]

(* seedDefaultFragments: what the request names and every fragment that is *)
(* on by default, save those it excludes that are not hidden.              *)
SeedDefaultFragments(named, exclude, frags) ==
  named \cup {f \in DOMAIN frags : frags[f].default /\ (f \in exclude => frags[f].hidden)}

(* serviceFragments: the fragments a service is written with. *)
ServiceFragments(svc, frags) ==
  LET chosen == (svc.frags \cap DOMAIN frags) \ svc.excl
  IN IF svc.upProto = "https" THEN chosen \cup ({SkipVerify} \cap DOMAIN frags)
                              ELSE chosen \ {SkipVerify}

(* Names of GateBox's own are always defined: interpolateVars leaves one   *)
(* it does not know as it is.                                              *)
Reserved == {"GB_APP", "GB_SERVICE", "GB_LOG_FILE", "GB_SUB_DOMAIN", "GB_UNKNOWN"}

AppName(svc, env) == IF svc.app \in DOMAIN env.apps THEN env.apps[svc.app] ELSE ""

(* ServiceLogPath: an empty name of the application falls back to "default". *)
LogFile(svc, env) ==
  <<IF AppName(svc, env) = "" THEN "default" ELSE AppName(svc, env), svc.name>>

Value(v, svc, d, env) ==
  CASE v = "GB_APP"        -> AppName(svc, env)
    [] v = "GB_SERVICE"    -> svc.name
    [] v = "GB_LOG_FILE"   -> LogFile(svc, env)
    [] v = "GB_SUB_DOMAIN" -> Host(d)
    [] v = "GB_UNKNOWN"    -> v
    [] OTHER               -> env.vars[v]

(* interpolateVars fails on a user variable that is not defined. *)
Defined(uses, env) == uses \subseteq DOMAIN env.vars \cup Reserved

(* parseFragment: a block of reverse_proxy without arguments, or lines of  *)
(* the site; a mixture, arguments or a missing brace are errors.           *)
Parses(body, env) == Defined(body.uses, env) /\ body.form \in {"empty", "site", "proxy"}

Line(f, svc, d, env) ==
  <<f, env.frags[f].code, [v \in env.frags[f].uses |-> Value(v, svc, d, env)]>>

-----------------------------------------------------------------------------
(* Blocks                                                                  *)

(* rootDomainOf and tlsFilesExist: the tls line is written only for https  *)
(* rows whose root domain is, or is under, one with a credential, once the *)
(* files of the host are there.                                            *)
WritesTLS(d, env) ==
  /\ d.proto = "https"
  /\ \E root \in env.dns : IsSuffix(root, d.root)
  /\ Host(d) \in env.certs

(* writeReverseProxy: fragments first, then the health probe and the tls   *)
(* transport unless a fragment brings its own.                             *)
ReverseProxy(svc, d, applied, env) ==
  LET proxy == {f \in applied : env.frags[f].form = "proxy"}
      given == UNION {env.frags[f].gives : f \in proxy}
  IN [to     |-> svc.up,
      lines  |-> {Line(f, svc, d, env) : f \in proxy},
      health |-> svc.health /\ "health_uri" \notin given,
      tls    |-> svc.upProto = "https" /\ "transport" \notin given]

NoProxy == [to |-> <<>>, lines |-> {}, health |-> FALSE, tls |-> FALSE]

(* writeFileServer: the root directory, with its variables put in. *)
FileRoot(svc, d, env) == [v \in svc.rootUses |-> Value(v, svc, d, env)]

(* writeSiteBlockAt *)
SiteBlock(addr, key, i, svc, env) ==
  LET d       == svc.rows[i]
      applied == ServiceFragments(svc, env.frags)
  IN [addr   |-> addr,
      of     |-> <<key, i>>,
      tls    |-> WritesTLS(d, env),
      site   |-> {Line(f, svc, d, env) : f \in {g \in applied : env.frags[g].form = "site"}},
      extra  |-> svc.extra,
      proxy  |-> IF svc.type = "reverse_proxy" /\ svc.up # <<>>
                 THEN ReverseProxy(svc, d, applied, env) ELSE NoProxy,
      files  |-> IF svc.type = "file_server" THEN FileRoot(svc, d, env) ELSE <<>>]

(* writeServiceBlocks: the main port, and the further ports of its         *)
(* protocol; rows of other protocols are left to the extensions.           *)
Addresses(d, options) ==
  LET more == CASE d.proto = "https" -> options.moreHttps
                [] d.proto = "http"  -> options.moreHttp
                [] OTHER             -> {}
  IN {SiteAddress(d)} \cup {[SiteAddress(d) EXCEPT !.port = p] : p \in more}

ServiceBlocks(key, svc, env) ==
  UNION {{SiteBlock(a, key, i, svc, env) : a \in Addresses(svc.rows[i], env.options)} :
           i \in {j \in DOMAIN svc.rows : IsHTTPProto(svc.rows[j].proto)}}

(* What makes Generate give up, for all services at once. *)
HasWebRow(svc) == \E i \in DOMAIN svc.rows : IsHTTPProto(svc.rows[i].proto)
Unwritable(svc, env) ==
  \/ svc.rows = <<>>
  \/ /\ HasWebRow(svc)
     /\ \/ \E f \in ServiceFragments(svc, env.frags) : ~Parses(env.frags[f], env)
        \/ svc.type \notin {"reverse_proxy", "file_server"}
        \/ svc.type = "file_server" /\ ~Defined(svc.rootUses, env)

(* Two rows that are written at one address: caddy validate refuses the    *)
(* file.  A row whose own port is one of the further ports is written      *)
(* twice by itself.                                                        *)
Twice(svc, d, options) ==
  d.port # 0 /\ d.port \in (CASE d.proto = "https" -> options.moreHttps
                             [] d.proto = "http"   -> options.moreHttp
                             [] OTHER              -> {})
Ambiguous(services, blocks, env) ==
  \/ \E b, c \in blocks : b.of # c.of /\ b.addr = c.addr
  \/ \E k \in DOMAIN services : \E i \in DOMAIN services[k].rows :
       services[k].enabled /\ Twice(services[k], services[k].rows[i], env.options)

(* Generate and caddy validate on what was read: the configuration, or     *)
(* that there is none.                                                     *)
Enabled(services) == {k \in DOMAIN services : services[k].enabled}
Generate(services, env) ==
  LET blocks == UNION {ServiceBlocks(k, services[k], env) : k \in Enabled(services)}
  IN IF \/ \E k \in Enabled(services) : Unwritable(services[k], env)
        \/ Ambiguous(services, blocks, env)
     THEN [ok |-> FALSE, ports |-> <<0, 0>>, blocks |-> {}]
     ELSE [ok |-> TRUE, ports |-> <<env.options.http, env.options.https>>, blocks |-> blocks]
=============================================================================
