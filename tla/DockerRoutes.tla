----------------------------- MODULE DockerRoutes -----------------------------
(***************************************************************************)
(* Services derived from the labels of containers (internal/gateway/       *)
(* derive.go, proxyableContainers and deriveDockerServices of the gateway  *)
(* handler).  They are never stored: each reading of the facts derives     *)
(* them again.                                                             *)
(*                                                                         *)
(* A container is [project, service, state, ports, labels]; ports are the  *)
(* tcp mappings [internal, host], host 0 when not published.  labels:      *)
(*   sites    partial function from site numbers to addresses; NoSite is   *)
(*            a value no address can be read from                          *)
(*   rp       partial function from Shared and site numbers to the value   *)
(*            of reverse_proxy: [tpl, proto, port]                         *)
(*   frags    partial function from Shared and site numbers to names       *)
(*   upPort   the label gatebox.upstream_port, 0 when there is none        *)
(*   extras   paths of the other caddy.* labels, as sequences of names     *)
(***************************************************************************)
EXTENDS CaddyConfig, FiniteSetsExt, Integers

(* The labels without a number; the numbers of sites start at 0. *)
Shared == -1
NoSite == [proto |-> "", host |-> <<>>, port |-> 0]

-----------------------------------------------------------------------------
(* parseSiteAddr: [proto://]host[:port]; a protocol of its own needs no    *)
(* host.  A value it rejects leaves the site without an address.           *)
ParseSite(addr) ==
  IF addr.host = <<>> /\ IsHTTPProto(addr.proto) THEN NoSite ELSE addr

(* parseContainerLabels: a site is made by its address label and by any    *)
(* label of its own, whichever comes first.                                *)
Sites(labels) ==
  LET numbers == (DOMAIN labels.sites \cup DOMAIN labels.rp \cup DOMAIN labels.frags) \ {Shared}
  IN [n \in numbers |-> IF n \in DOMAIN labels.sites THEN ParseSite(labels.sites[n])
                                                     ELSE NoSite]

(* A site's own label, else the shared one, else none. *)
Own(f, n, none) ==
  IF n \in DOMAIN f THEN f[n] ELSE IF Shared \in DOMAIN f THEN f[Shared] ELSE none

(* uniqueHostPort and hostForUpstream: port 0 when there is no answer. *)
HostPorts(c) == {p.host : p \in {q \in c.ports : q.host > 0}}
UniqueHostPort(c) == IF \E p \in HostPorts(c) : HostPorts(c) = {p}
                     THEN CHOOSE p \in HostPorts(c) : TRUE ELSE 0
HostForUpstream(c, port) ==
  IF port = 0 THEN UniqueHostPort(c)
  ELSE LET mapped == {p \in c.ports : p.internal = port /\ p.host > 0}
       IN IF mapped = {} THEN 0 ELSE (CHOOSE p \in mapped : TRUE).host

(* resolveSiteUpstream: where the site's requests go. *)
Upstream(ok, port, proto) ==
  [ok |-> ok, up |-> IF port = 0 THEN <<>> ELSE <<port>>, proto |-> proto]
Refused == Upstream(FALSE, 0, "")
To(port, proto) == IF port = 0 THEN Refused ELSE Upstream(TRUE, port, proto)
NoProxyLabel == [tpl |-> FALSE, proto |-> "none", port |-> 0]
ResolveSiteUpstream(c, n) ==
  LET rp == Own(c.labels.rp, n, NoProxyLabel) IN
  CASE rp # NoProxyLabel /\ rp.tpl -> To(HostForUpstream(c, rp.port),
                                        IF rp.proto = "" THEN "http" ELSE rp.proto)
    [] rp # NoProxyLabel /\ ~rp.tpl  -> Upstream(TRUE, 0, "")
    [] rp = NoProxyLabel /\ c.labels.upPort = 0     -> To(UniqueHostPort(c), "http")
    [] rp = NoProxyLabel /\ c.labels.upPort > 65535 -> Refused
    [] OTHER -> To(c.labels.upPort, "http")

-----------------------------------------------------------------------------
(* Directives                                                              *)

GlobalOptions == {"email", "admin", "log"}

(* expandDirective: each name but the last opens a block, one brace closes *)
(* each of them.  Options of the whole server are dropped.                 *)
Opens(path)  == [i \in 1..Len(path) |->
                   [depth |-> i - 1, text |-> path[i], opens |-> i < Len(path)]]
Closes(path) == [i \in 1..Len(path) - 1 |->
                   [depth |-> Len(path) - 1 - i, text |-> "}", opens |-> FALSE]]
ExpandDirective(path) ==
  IF Head(path) \in GlobalOptions THEN <<>> ELSE Opens(path) \o Closes(path)

(* sort.Strings on the lines of all directives together: a tab sorts       *)
(* before every letter and a closing brace after them, so that deeper      *)
(* lines come first and braces last.  Lines of one depth keep the order of *)
(* the labels.                                                             *)
SortLines(lines) ==
  SortSeq(lines, LAMBDA a, b :
            \/ a.depth > b.depth
            \/ a.depth = b.depth /\ a.text # "}" /\ b.text = "}")

Directives(labels) ==
  FlattenSeq([i \in 1..Len(labels.extras) |-> ExpandDirective(labels.extras[i])])

Extras(labels, passthrough) ==
  SortLines(Directives(labels) \o
            (IF passthrough THEN ExpandDirective(<<"reverse_proxy">>) ELSE <<>>))

-----------------------------------------------------------------------------
(* Services                                                                *)

(* matchRootDomain: the longest managed root that is a suffix. *)
RootsOf(host, roots) == {r \in roots : IsSuffix(r, host)}
LongestRoot(host, roots) ==
  CHOOSE r \in RootsOf(host, roots) : \A q \in RootsOf(host, roots) : Len(q) <= Len(r)

(* toDomain *)
Row(spec, roots) ==
  IF ~IsHTTPProto(spec.proto)
  THEN [proto |-> spec.proto, sub |-> <<>>, root |-> <<>>, port |-> 0]
  ELSE IF RootsOf(spec.host, roots) = {}
  THEN [proto |-> spec.proto, sub |-> spec.host, root |-> <<>>, port |-> spec.port]
  ELSE LET root == LongestRoot(spec.host, roots) IN
       [proto |-> spec.proto, root |-> root, port |-> spec.port,
        sub |-> SubSeq(spec.host, 1, Len(spec.host) - Len(root))]

(* resolveFragmentIDs: the default ones and those of the names that exist. *)
ResolveFragments(names, frags, defaults) == defaults \cup (names \cap DOMAIN frags)

(* The key the overrides of the gateway page are stored under: replicas of *)
(* one compose service share it.                                           *)
DerivedID(c, spec) == <<c.project, c.service, spec.host, spec.port, spec.proto>>

(* deriveSite and derivedService: a container that does not run, or whose  *)
(* port cannot be told, is shown and not served.                           *)
DeriveSite(c, n, frags, defaults, roots) ==
  LET spec   == Sites(c.labels)[n]
      names  == Own(c.labels.frags, n, {})
      target == IF c.state = "running" THEN ResolveSiteUpstream(c, n) ELSE Refused
      passes == target.ok /\ target.up = <<>>
  IN [id |-> DerivedID(c, spec), app |-> c.project, name |-> c.service,
      type |-> "reverse_proxy", rows |-> <<Row(spec, roots)>>,
      up |-> target.up, upProto |-> target.proto, health |-> TRUE, rootUses |-> {},
      enabled |-> target.ok, excl |-> {},
      frags |-> ResolveFragments(names, frags, defaults),
      extra |-> Extras(c.labels, passes)]

(* deriveDockerServices: every site with an address of every container,    *)
(* but for those stopped on the gateway page.                              *)
SitesOf(containers) ==
  {k \in UNION {{<<c, n>> : n \in DOMAIN Sites(containers[c].labels)} :
                   c \in DOMAIN containers} :
     Sites(containers[k[1]].labels)[k[2]] # NoSite}
DeriveDockerServices(containers, frags, defaults, roots, stopped) ==
  [k \in SitesOf(containers) |->
     LET svc == DeriveSite(containers[k[1]], k[2], frags, defaults, roots)
     IN [svc EXCEPT !.enabled = @ /\ svc.id \notin stopped]]
=============================================================================
