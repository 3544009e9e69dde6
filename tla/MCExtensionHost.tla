--------------------------- MODULE MCExtensionHost ---------------------------
(* An instance of ExtensionHost for TLC.                                   *)
EXTENDS ExtensionHost

CONSTANTS
  Requested,   (* bound: requests to the manager, per scope                *)
  Mishaps      (* bound: restarts, failed reads and changes of the index   *)

Manifest(id, version, consumes, produces, scopes) ==
  [id |-> id, version |-> version, api |-> TRUE, host |-> TRUE, compiles |-> TRUE,
   consumes |-> consumes, produces |-> produces, scopes |-> scopes]
(* A built-in plugin; a resolver that turns domains into addresses, whose  *)
(* second version also asks to be told of certificates and writes domains, *)
(* so that it is on a cycle with acme; a later one for a newer GateBox.    *)
MCBuiltin == {Manifest("caddy-l4", 1, {}, {}, {"gateway:read"})}
Dns1 == Manifest("dns", 1, {"domain"}, {"ip"}, {"domain:read"})
Dns2 == Manifest("dns", 2, {"cert"}, {"domain", "ip"}, {"domain:read"})
L4     == Manifest("caddy-l4", 2, {}, {}, {"*"})
Newer  == [Dns2 EXCEPT !.version = 3, !.host = FALSE]
Broken == [Dns1 EXCEPT !.version = 4, !.compiles = FALSE]
MCIndexes == {{}, {L4, Broken}, {Dns1, Dns2}, {Dns1, Newer}}
MCCore ==
  {[id |-> "caddy", consumes |-> {"service", "port", "fragment", "variable", "domain", "cert"},
    produces |-> {}],
   [id |-> "acme", consumes |-> {"domain", "credential"}, produces |-> {"cert"}],
   [id |-> "docker", consumes |-> {"variable", "port"}, produces |-> {"label", "service"}]}
MCRank == [i \in {"acme", "caddy", "caddy-l4", "dns", "docker"} |->
             CASE i = "acme" -> 1 [] i = "caddy" -> 2 [] i = "caddy-l4" -> 3
               [] i = "dns" -> 4 [] i = "docker" -> 5]
MCRequested == [requests |-> 3, polling |-> 3]
MCMishaps   == [requests |-> 2, polling |-> 1]
Served(on) == [rows |-> {[host |-> "h", root |-> "r"]}, enabled |-> on]
MCContents ==
  {[services |-> {Served(on)}, domains |-> ds] :
     on \in BOOLEAN, ds \in {{}, {[name |-> "r", credential |-> "k"]}}}

-----------------------------------------------------------------------------
VARIABLES
  scope,      (* "requests" to the manager, or "polling" beside them       *)
  requested,  (* requests so far                                           *)
  mishaps,    (* restarts, failed reads and changes of the index so far    *)
  edits,      (* changes of the content so far                             *)
  calm        (* one Refresh at a time so far, and each has read the states*)

mcvars == <<vars, scope, requested, mishaps, edits, calm>>

MCInit == Init /\ scope \in {"requests", "polling"} /\ requested = 0 /\ mishaps = 0 /\ edits = 0 /\ calm = TRUE
Mishap == Publish \/ Restart \/ \E t \in Threads : ListFails(t)
Busy == {t \in Threads : ~Idle(t)}
MCNext ==
  /\ Next
  /\ scope = "requests" => <<content', poll'>> = <<content, poll>>
  /\ scope = "polling" => Cardinality(Busy') <= 1
  /\ requested' = requested + Cardinality({t \in Threads : Idle(t) /\ refresh'[t].at = "unregister"})
  /\ requested' <= Requested[scope]
  /\ mishaps' = mishaps + (IF Mishap THEN 1 ELSE 0)
  /\ mishaps' <= Mishaps[scope]
  /\ edits' = edits + (IF content' # content THEN 1 ELSE 0)
  /\ edits' <= 2
  /\ UNCHANGED scope
  /\ calm' = (calm /\ Cardinality(Busy') <= 1 /\ ~\E t \in Threads : ListFails(t))
MCSpec == MCInit /\ [][MCNext]_mcvars

-----------------------------------------------------------------------------
(* At rest the registry has, of the plugins in the catalog, exactly those  *)
(* that are enabled, in the version of the catalog: whatever requests,     *)
(* restarts and new indexes came before.                                   *)
RegistryFollows ==
  calm /\ Busy = {} =>
    {m \in registry : m.id \in IdsOf(catalog)} =
      {m \in catalog : stored[m.id] = "enabled" /\ m.compiles}

(* Whichever components a run is over, and whatever the enabled plugins    *)
(* declare, each comes after those it consumes from, unless it is on a     *)
(* cycle or behind one; and certificates always come before Caddy.         *)
Circular(c, ids, arrows) ==
  \E S \in SUBSET ids : c \in S /\ \A d \in S : \E p \in S \ {d} : <<p, d>> \in arrows
Before(seq, a, b) == \E i, j \in DOMAIN seq : i < j /\ seq[i] = a /\ seq[j] = b
OrderFollowsEdges ==
  LET arrows == Arrows(Descriptors) IN
  \A ids \in SUBSET IdsOf(Descriptors) :
    LET seq == Order(ids, arrows, Rank) IN
    /\ Len(seq) = Cardinality(ids) /\ ids = {seq[i] : i \in DOMAIN seq}
    /\ \A a \in arrows :
         a[1] \in ids /\ a[2] \in ids => Circular(a[2], ids, arrows) \/ Before(seq, a[1], a[2])
    /\ {"acme", "caddy"} \subseteq ids => Before(seq, "acme", "caddy")

(* A backend is kept waiting only if it was told the rows its request has  *)
(* read: no change of the rows falls between two polls, and none is noticed*)
(* without being told.                                                     *)
WaitersAreInformed ==
  \A p \in Pollers : poll[p].at = "waiting" => poll[p].told.rows = poll[p].read
=============================================================================
