---------------------------- MODULE ExtensionHost ----------------------------
(***************************************************************************)
(* The extension platform: which plugins the manager knows                 *)
(* (internal/plugin, internal/source), what they contribute to the         *)
(* registry (internal/extension) and to the dependency graph, and the      *)
(* projection their backends poll (handler/projection.go).                 *)
(*                                                                         *)
(* A plugin's id is the one the index lists it under.  What a request does *)
(* to the stored state of one plugin is one step; its parts, the artifacts *)
(* and the backends as processes are module PluginLifecycle.  The manager  *)
(* has no lock: the parts of Refresh of different requests interleave.     *)
(***************************************************************************)
EXTENDS FactGraph

CONSTANTS
  Builtin,      (* manifests that come with the program                    *)
  Indexes,      (* what the published index may offer: sets of manifests   *)
  CoreDesc,     (* descriptors of the built-in components                  *)
  Rank,         (* the order of the ids of components and plugins          *)
  Contents,     (* what the domains projection may be built from           *)
  Threads,      (* goroutines serving requests                             *)
  Pollers       (* backends of plugins that poll the projection            *)

Manifests == Builtin \cup UNION Indexes
IdsOf(ms) == {m.id : m \in ms}

(* A manifest is [id, version, api, host, compiles, consumes, produces,    *)
(* scopes]: whether it asks for no newer extension API and GateBox than    *)
(* there are, and whether its templates can be parsed.                     *)
ASSUME ExtensionAssumption ==
  \A m, n \in Builtin : m.id = n.id => m = n

(* There are finitely many components and plugins; acme comes before caddy *)
(* in the order of the ids, and makes the certificates caddy asks for.     *)
ASSUME RankAssumption ==
  /\ IsFiniteSet(CoreDesc) /\ IsFiniteSet(Manifests)
  /\ \A i \in IdsOf(CoreDesc) \cup IdsOf(Manifests) : Rank[i] \in Nat
ASSUME CoreAssumption ==
  /\ Rank["acme"] < Rank["caddy"]
  /\ \E d, e \in CoreDesc :
       d.id = "acme" /\ e.id = "caddy" /\ "cert" \in d.produces \cap e.consumes

VARIABLES
  index,      (* manifests the published index offers                      *)
  catalog,    (* those the manager knows                                   *)
  stored,     (* per id its state in the bucket plugins                    *)
  registry,   (* the manifests of the plugins that are registered          *)
  refresh,    (* per goroutine where it is in Refresh, and what it read    *)
  content,    (* what the projection is built from                         *)
  poll        (* per backend its request and what it was last told         *)

host == <<index, catalog, stored, registry, refresh>>
vars == <<host, content, poll>>

NoRefresh == [at |-> "idle", states |-> <<>>]
NoAnswer  == [rev |-> <<>>, rows |-> {}]
Silent    == [at |-> "idle", read |-> {}, told |-> NoAnswer]

-----------------------------------------------------------------------------
(* The catalog                                                             *)

Compatible(m) == m.api /\ m.host

(* Latest: the greatest version of each plugin of the index. *)
Latest(ms) == {m \in ms : \A n \in ms : n.id = m.id => n.version <= m.version}

(* Built-in plugins stay; of the others the latest version, unless it asks *)
(* for a newer GateBox.                                                    *)
Merge(ms) ==
  Builtin \cup {m \in Latest(ms) : m.id \notin IdsOf(Builtin) /\ Compatible(m)}

Find(id) == {m \in catalog : m.id = id}

(* The store publishes, or withdraws, versions. *)
Publish ==
  /\ index' \in Indexes
  /\ index' # index
  /\ UNCHANGED <<catalog, stored, registry, refresh, content, poll>>

-----------------------------------------------------------------------------
(* Refresh                                                                 *)

Idle(t) == refresh[t].at = "idle"
Start(t) == refresh' = [refresh EXCEPT ![t].at = "unregister"]

(* Wrong: the registry is left as it is. *)
RefreshCatalogOnly(t) ==
  /\ Idle(t)
  /\ catalog' = Merge(index)
  /\ UNCHANGED <<index, stored, registry, refresh, content, poll>>

(* RefreshOnline, once the index has been fetched and its signature holds; *)
(* otherwise nothing changes.                                              *)
RefreshOnline(t) ==
  /\ Idle(t)
  /\ catalog' = Merge(index)
  /\ Start(t)
  /\ UNCHANGED <<index, stored, registry, content, poll>>

(* Install, Enable, Disable, Remove and Purge of a plugin of the catalog.  *)
Outcome(id, request) ==
  [install |-> {"installed", "error"},
   enable  |-> IF stored[id] \in {"missing", "available"} THEN {} ELSE {"enabled", "error"},
   disable |-> {"disabled"},
   remove  |-> {IF stored[id] = "missing" THEN "missing" ELSE "available"},
   purge   |-> {"missing"}][request]
Requests == {"install", "enable", "disable", "remove", "purge"}

(* All but the first stop the plugin's backend; Enable starts a new one.   *)
Change(t, id, request) ==
  /\ Idle(t)
  /\ Find(id) # {}
  /\ \E s \in Outcome(id, request) : stored' = [stored EXCEPT ![id] = s]
  /\ Start(t)
  /\ poll' = IF id \in Pollers /\ request # "install" THEN [poll EXCEPT ![id] = Silent] ELSE poll
  /\ UNCHANGED <<index, catalog, registry, content>>

Unregister(t) ==
  /\ refresh[t].at = "unregister"
  /\ registry' = {m \in registry : m.id \notin IdsOf(catalog)}
  /\ refresh' = [refresh EXCEPT ![t].at = "list"]
  /\ UNCHANGED <<index, catalog, stored, content, poll>>

ListStates(t) ==
  /\ refresh[t].at = "list"
  /\ refresh' = [refresh EXCEPT ![t] = [at |-> "register", states |-> stored]]
  /\ UNCHANGED <<index, catalog, stored, registry, content, poll>>

(* No provider is registered until the next Refresh. *)
ListFails(t) ==
  /\ refresh[t].at = "list"
  /\ refresh' = [refresh EXCEPT ![t] = NoRefresh]
  /\ UNCHANGED <<index, catalog, stored, registry, content, poll>>

Register(t) ==
  /\ refresh[t].at = "register"
  /\ LET new == {m \in catalog : m.compiles /\ refresh[t].states[m.id] = "enabled"}
     IN registry' = {m \in registry : m.id \notin IdsOf(new)} \cup new
  /\ refresh' = [refresh EXCEPT ![t] = NoRefresh]
  /\ UNCHANGED <<index, catalog, stored, content, poll>>

(* GateBox ends and starts again: NewManager with the built-in catalog,    *)
(* then RefreshOnline, which may fail; requests are served after that.     *)
Restart ==
  /\ \E reached \in BOOLEAN : catalog' = IF reached THEN Merge(index) ELSE Builtin
  /\ registry' = {m \in catalog' : m.compiles /\ stored[m.id] = "enabled"}
  /\ refresh' = [t \in Threads |-> NoRefresh]
  /\ poll' = [p \in Pollers |-> Silent]
  /\ UNCHANGED <<index, stored, content>>

(* Descriptors: the built-in components and the enabled plugins of the     *)
(* catalog, whatever is registered.                                        *)
Descriptors ==
  CoreDesc \cup {[id |-> m.id, consumes |-> m.consumes, produces |-> m.produces] :
                   m \in {n \in catalog : stored[n.id] = "enabled"}}

-----------------------------------------------------------------------------
(* The projection                                                          *)

(* PermissionsOfToken and hasAPIScope: the scopes are those of the catalog,*)
(* none for a plugin the catalog has lost.                                 *)
Allowed(p, scope) == \E m \in Find(p) : m.scopes \cap {scope, "*"} # {}

(* The rows of the enabled services, each with the credential of its root. *)
Projected(c) ==
  {[host |-> r.host, root |-> r.root,
    credential |-> {d.credential : d \in {e \in c.domains : e.name = r.root}}] :
     r \in UNION {s.rows : s \in {q \in c.services : q.enabled}}}

(* projectionRevision is a hash of the rows: equal for equal rows. *)
Revision(rows) == <<rows>>

(* Other requests write what the projection is built from, or containers   *)
(* come and go.                                                            *)
Edit ==
  /\ content' \in Contents
  /\ content' # content
  /\ UNCHANGED <<host, poll>>

Answer(rev, rows) == [rev |-> rev, rows |-> rows]

(* GET projection/domains?since=&wait=, from the backend of an enabled     *)
(* plugin: one that has the current revision waits, another is answered.   *)
Ask(p) ==
  /\ poll[p].at = "idle" /\ stored[p] = "enabled" /\ Allowed(p, "domain:read")
  /\ LET rows == Projected(content) IN
     poll' = [poll EXCEPT ![p] =
       IF @.told.rev = Revision(rows) THEN [@ EXCEPT !.at = "waiting", !.read = rows]
       ELSE [@ EXCEPT !.told = Answer(Revision(rows), rows)]]
  /\ UNCHANGED <<host, content>>

(* Wrong: the new revision is answered with the rows read before.          *)
NoticeOldRows(p) ==
  /\ poll[p].at = "waiting"
  /\ LET rows == Projected(content) IN
     /\ Revision(rows) # Revision(poll[p].read)
     /\ poll' = [poll EXCEPT ![p].at = "idle",
                             ![p].told = Answer(Revision(rows), poll[p].read)]
  /\ UNCHANGED <<host, content>>

(* Every half second the rows are read again; others than those of the     *)
(* request are the answer.                                                 *)
Notice(p) ==
  /\ poll[p].at = "waiting"
  /\ LET rows == Projected(content) IN
     /\ Revision(rows) # Revision(poll[p].read)
     /\ poll' = [poll EXCEPT ![p].at = "idle", ![p].told = Answer(Revision(rows), rows)]
  /\ UNCHANGED <<host, content>>

(* The time is up, or the rows cannot be read: what was read first. *)
TimeUp(p) ==
  /\ poll[p].at = "waiting"
  /\ poll' = [poll EXCEPT ![p].at = "idle",
                          ![p].told = Answer(Revision(poll[p].read), poll[p].read)]
  /\ UNCHANGED <<host, content>>

-----------------------------------------------------------------------------
Init ==
  /\ index \in Indexes
  /\ catalog = Builtin
  /\ stored = [id \in IdsOf(Manifests) |-> "missing"]
  /\ registry = {}
  /\ refresh = [t \in Threads |-> NoRefresh]
  /\ content \in Contents
  /\ poll = [p \in Pollers |-> Silent]

Host ==
  \/ Publish \/ Restart
  \/ \E t \in Threads :
       \/ RefreshOnline(t) \/ Unregister(t) \/ ListStates(t) \/ ListFails(t) \/ Register(t)
       \/ \E id \in IdsOf(Manifests), r \in Requests : Change(t, id, r)
Projection == Edit \/ \E p \in Pollers : Ask(p) \/ Notice(p) \/ TimeUp(p)
Next == Host \/ Projection

Spec == Init /\ [][Next]_vars
=============================================================================
