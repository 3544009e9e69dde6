------------------------------- MODULE Gateway -------------------------------
(***************************************************************************)
(* The gateway's requests (internal/handler/gateway_api.go,                *)
(* gateway_ports.go and the domains and credentials of api.go) on the      *)
(* stored facts, and the reconcile run that turns the facts into what      *)
(* Caddy runs.                                                             *)
(*                                                                         *)
(* A handler first reads and checks, then makes one or several writes,     *)
(* each a Bolt transaction of its own, and asks for a reconcile run after  *)
(* the last one.  Checks and writes of different requests interleave: a    *)
(* request that has been checked is a list of writes still to be made.  A  *)
(* request that is refused at once changes nothing and is not a step.      *)
(***************************************************************************)
EXTENDS DockerRoutes, FactGraph

CONSTANTS
  Clients,        (* goroutines serving requests                           *)
  Ids,            (* bound: the ids newID draws, one after the other       *)
  AppNames,       (* names of applications that clients send               *)
  ServiceInputs,  (* bodies of services that clients send                  *)
  Strays,         (* ids clients send that nothing stored has              *)
  FragmentBodies, (* bodies of fragments that clients send                 *)
  VarKeys,        (* keys of variables that clients send                   *)
  Values,         (* values of variables and credentials                   *)
  OtherProtocols, (* protocols besides http and https                      *)
  PortSets,       (* lists of ports that clients send                      *)
  RootNames,      (* names of root domains that clients send               *)
  Daemons,        (* what the Docker daemon may run: functions from        *)
                  (* containers to their records                           *)
  Start,          (* ports of the start-up configuration:                  *)
                  (* [http, https, moreHttps]                              *)
  Certs,          (* hosts whose certificate files exist                   *)
  Faults          (* faults considered: "write", "docker", "load", "crash" *)

Tables == {"app", "service", "fragment", "toggle", "variable", "stopped", "port",
           "domain", "credential"}
Builtins == DOMAIN BuiltinFragmentCatalog
Stored == "stored" (* what stored services are listed under, as no container is *)

ASSUME GatewayAssumption ==
  /\ Ids \in Seq(ToSet(Ids)) /\ \A m, n \in DOMAIN Ids : Ids[m] = Ids[n] => m = n
  /\ Start.moreHttps \subseteq Nat /\ IsFiniteSet(Start.moreHttps)
  /\ \A d \in Daemons : Stored \notin DOMAIN d
  /\ Faults \subseteq {"write", "docker", "load", "crash"}

VARIABLES
  db,          (* the buckets: for each table a function from its keys      *)
  lastId,      (* ids drawn so far: newID never repeats one                *)
  containers,  (* what the Docker daemon runs                              *)
  job,         (* per client the writes its request still has to make      *)
  wanted,      (* a reconcile run has been asked for and has not begun     *)
  run,         (* the reconcile run under way and what it has read         *)
  loaded,      (* the configuration Caddy runs                             *)
  result       (* how the last run ended                                   *)

vars == <<db, lastId, containers, job, wanted, run, loaded, result>>

-----------------------------------------------------------------------------
(* The store                                                               *)

With(f, k, v) == [x \in DOMAIN f \cup {k} |-> IF x = k THEN v ELSE f[x]]
Over(f, g) == [x \in DOMAIN f \cup DOMAIN g |-> IF x \in DOMAIN f THEN f[x] ELSE g[x]]

Put(t, k, v) == [op |-> "put", table |-> t, key |-> k, row |-> v]
Drop(t, k)   == [op |-> "drop", table |-> t, key |-> k]
Write(d, w)  ==
  [d EXCEPT ![w.table] = IF w.op = "drop" THEN Restrict(@, DOMAIN @ \ {w.key})
                                          ELSE With(@, w.key, w.row)]

Empty == [t \in Tables |-> <<>>]

ID(n) == Ids[lastId + n]

Apps == DOMAIN db["app"]
Services == DOMAIN db["service"]
ServicesOf(app) == {s \in Services : db["service"][s].app = app}

-----------------------------------------------------------------------------
(* What a reconcile run makes of the facts                                 *)

(* User fragments and the catalog, with the stored toggles for what the    *)
(* catalog says of defaults.                                               *)
Fragments(d) == Over(BuiltinFragmentCatalog, d["fragment"])
Toggled(d) ==
  [f \in DOMAIN Fragments(d) |->
     IF f \in DOMAIN d["toggle"]
     THEN [Fragments(d)[f] EXCEPT !.default = d["toggle"][f].default,
                                  !.hidden  = d["toggle"][f].hidden]
     ELSE Fragments(d)[f]]
Seed(d, named, exclude) == SeedDefaultFragments(named, exclude, Toggled(d))

(* The credentials: what one says is a value, its encryption is in Store. *)
Credentials(d) == DOMAIN d["credential"]

(* buildDNSMap: domains whose credential exists. *)
DNSMap(d) == {d["domain"][i].name :
                i \in {j \in DOMAIN d["domain"] :
                         d["domain"][j].credential \in Credentials(d)}}
RootsIn(d) == {d["domain"][i].name : i \in DOMAIN d["domain"]}

(* listAllServices: stored services, and those derived from containers. *)
ListAllServices(d, daemon) ==
  Over([k \in {<<Stored, s>> : s \in DOMAIN d["service"]} |-> d["service"][k[2]]],
       DeriveDockerServices(daemon, Fragments(d), Seed(d, {}, {}), RootsIn(d),
                            DOMAIN d["stopped"]))

(* caddyPortOptions: the start-up configuration as long as no port is      *)
(* stored, then the stored ports only; 0 means the standard port.          *)
On(d, p) == p \in DOMAIN d["port"] /\ d["port"][p].enabled
Main(d, p, standard) == IF On(d, p) THEN Head(d["port"][p].ports) ELSE standard
More(d, p) == IF On(d, p) THEN ToSet(Tail(d["port"][p].ports)) ELSE {}
Or(port, standard) == IF port = 0 THEN standard ELSE port
PortOptions(d) ==
  IF DOMAIN d["port"] = {}
  THEN [http |-> Or(Start.http, 80), https |-> Or(Start.https, 443),
        moreHttp |-> {}, moreHttps |-> Start.moreHttps]
  ELSE [http |-> Main(d, "http", 80), https |-> Main(d, "https", 443),
        moreHttp |-> More(d, "http"), moreHttps |-> More(d, "https")]

(* collectNonHTTPRules: one rule per protocol and first upstream. *)
NonHTTPRules(services, d) ==
  UNION {{<<p, services[k].up[1], d["port"][p].ports>> :
            k \in {j \in Enabled(services) :
                     /\ services[j].type = "reverse_proxy" /\ services[j].up # <<>>
                     /\ \E i \in DOMAIN services[j].rows : services[j].rows[i].proto = p}} :
         p \in {q \in OtherProtocols : On(d, q)}}

Env(d) ==
  [frags |-> Fragments(d), vars |-> d["variable"], apps |-> d["app"], dns |-> DNSMap(d),
   certs |-> Certs, options |-> PortOptions(d)]

Configuration(services, d) ==
  [file |-> Generate(services, Env(d)), rules |-> NonHTTPRules(services, d)]

Current == Configuration(ListAllServices(db, containers), db)

(* listGroups: the groups of the page.  Services of an application that is *)
(* gone are collected under a name that no group of the result has.        *)
GroupOf(svc, d) ==
  IF svc.app = "" THEN "_default"
  ELSE IF svc.app \in DOMAIN d["app"] THEN svc.app ELSE "_orphan"
ListGroups(d) ==
  [g \in DOMAIN d["app"] \cup {"_default"} |->
     {s \in DOMAIN d["service"] : GroupOf(d["service"][s], d) = g}]

-----------------------------------------------------------------------------
(* What the dependency graph shows                                         *)

(* serviceFact: an id, or the name of a root domain, is a sequence here. *)
ServiceFact(k, svc, origin) ==
  Fact("service", k, origin, <<>>,
       [appId       |-> {svc.app} \ {""},
        rootDomain  |-> {svc.rows[i].root : i \in DOMAIN svc.rows} \ {<<>>},
        fragmentIds |-> svc.frags])
DomainFact(id, dom) ==
  Fact("domain", <<id>>, "user", dom.name, [credentialId |-> {dom.credential} \ {""}])
Unlinked(d, kind, table) == {Fact(kind, k, "user", <<>>, NoReferences) : k \in DOMAIN d[table]}

(* snapshotFacts: what is stored, and the services derived from containers.*)
SnapshotFacts(d, daemon) ==
  LET all == ListAllServices(d, daemon) IN
  UNION {
    {IF k[1] = Stored THEN ServiceFact(k, all[k], "user")
                      ELSE ServiceFact(all[k].id, all[k], "docker") : k \in DOMAIN all},
    {DomainFact(i, d["domain"][i]) : i \in DOMAIN d["domain"]},
    Unlinked(d, "credential", "credential"), Unlinked(d, "fragment", "fragment"),
    Unlinked(d, "variable", "variable"), Unlinked(d, "port", "port"), Unlinked(d, "app", "app")}

-----------------------------------------------------------------------------
(* Requests                                                                *)

Idle(c) == job[c].todo = <<>>
NoJob   == [req |-> "none", todo |-> <<>>, undo |-> <<>>, triggers |-> FALSE]

(* The checks of a request have passed. *)
Begin(c, req, todo, undo, triggers) ==
  /\ Idle(c)
  /\ job' = [job EXCEPT ![c] = [req |-> req, todo |-> todo, undo |-> undo,
                                triggers |-> triggers]]
  /\ UNCHANGED <<db, containers, wanted, run, loaded, result>>
Change(c, req, todo) == Begin(c, req, todo, <<>>, TRUE) /\ UNCHANGED lastId

DrawIds(n) == lastId + n <= Len(Ids) /\ lastId' = lastId + n

(* serviceInput.validate: a service without a type passes. *)
Valid(in) ==
  /\ in.type \in {"reverse_proxy", "file_server", ""}
  /\ in.type = "reverse_proxy" => in.up # <<>>
  /\ in.rows # <<>>
  /\ \A i \in DOMAIN in.rows :
       /\ in.rows[i].proto # ""
       /\ IsHTTPProto(in.rows[i].proto) => in.rows[i].root # <<>>
       /\ ~IsHTTPProto(in.rows[i].proto) => in.type = "reverse_proxy"

ToService(d, in, app, enabled) ==
  [app |-> app, name |-> in.name, type |-> in.type, rows |-> in.rows, up |-> in.up,
   upProto |-> IF in.type = "reverse_proxy" /\ in.upProto = "" THEN "http" ELSE in.upProto,
   health |-> in.type = "reverse_proxy" /\ in.health, rootUses |-> in.rootUses,
   enabled |-> enabled, frags |-> Seed(d, in.named, in.excl), excl |-> in.excl,
   extra |-> <<>>]

(* POST /gateway/apps: the application first, then its services one by one.*)
(* One that is invalid, or cannot be saved, takes the application away     *)
(* again and leaves the services saved before it.                          *)
CreateApp(c, name, ins) ==
  \E saved \in 0..Len(ins) :
    LET app   == ID(1)
        saves == <<Put("app", app, name)>> \o
                 [i \in 1..saved |-> Put("service", ID(1 + i), ToService(db, ins[i], app, TRUE))]
        undo  == <<Drop("app", app)>>
    IN /\ \A i \in 1..saved : Valid(ins[i])
       /\ DrawIds(1 + saved)
       /\ \/ saved = Len(ins) /\ Begin(c, "createApp", saves, undo, TRUE)
          \/ /\ saved < Len(ins) /\ ~Valid(ins[saved + 1])
             /\ Begin(c, "refusedApp", saves \o undo, undo, FALSE)

(* PUT /gateway/apps/{id}: no run is asked for. *)
UpdateApp(c, app, name) ==
  /\ app \in Apps
  /\ Begin(c, "updateApp", <<Put("app", app, name)>>, <<>>, FALSE)
  /\ UNCHANGED lastId

(* DELETE /gateway/apps/{id}: refused while a service of it is enabled;    *)
(* then the services listed by the check go one by one.                    *)
DeleteApp(c, app) ==
  /\ app \in Apps
  /\ \A s \in ServicesOf(app) : ~db["service"][s].enabled
  /\ Change(c, "deleteApp",
            <<Drop("app", app)>> \o [i \in 1..Cardinality(ServicesOf(app)) |->
                                       Drop("service", SetToSeq(ServicesOf(app))[i])])

(* POST /gateway/apps/{appId}/services and POST /gateway/services. *)
CreateService(c, app, in) ==
  /\ app = "" \/ app \in Apps
  /\ Valid(in)
  /\ DrawIds(1)
  /\ Begin(c, "createService", <<Put("service", ID(1), ToService(db, in, app, TRUE))>>,
           <<>>, TRUE)

(* Wrong: an edited service is enabled, as a new one is. *)
UpdateServiceOn(c, s, app, in) ==
  /\ s \in Services
  /\ Valid(in)
  /\ Change(c, "updateService", <<Put("service", s, ToService(db, in, app, TRUE))>>)

(* PUT /gateway/services/{id}: whether it is enabled is kept as it was     *)
(* read; the application is not looked up, there may be none of that id.   *)
UpdateService(c, s, app, in) ==
  /\ s \in Services
  /\ Valid(in)
  /\ Change(c, "updateService",
            <<Put("service", s, ToService(db, in, app, db["service"][s].enabled))>>)

DeleteService(c, s) ==
  /\ s \in Services
  /\ ~db["service"][s].enabled
  /\ Change(c, "deleteService", <<Drop("service", s)>>)

(* POST /gateway/services/{id}/start and /stop: the whole record is        *)
(* written back as it was read; nothing is done when it is so already.     *)
SetServiceEnabled(c, s, on) ==
  /\ s \in Services
  /\ db["service"][s].enabled # on
  /\ Change(c, IF on THEN "start" ELSE "stop",
            <<Put("service", s, [db["service"][s] EXCEPT !.enabled = on])>>)

(* The same for a derived service, by its id: an override is stored. *)
DerivedIDs == {DerivedID(containers[k[1]], Sites(containers[k[1]].labels)[k[2]]) :
                 k \in SitesOf(containers)}
SetDerivedEnabled(c, id, on) ==
  /\ id \in DerivedIDs
  /\ Change(c, IF on THEN "start" ELSE "stop",
            <<IF on THEN Drop("stopped", id) ELSE Put("stopped", id, TRUE)>>)

(* POST .../restart of a service or of the ports, and SyncDockerLabels. *)
Restart(c) ==
  /\ Idle(c)
  /\ wanted' = TRUE
  /\ UNCHANGED <<db, lastId, containers, job, run, loaded, result>>

CreateFragment(c, b) ==
  /\ DrawIds(1)
  /\ Begin(c, "createFragment", <<Put("fragment", ID(1), b)>>, <<>>, TRUE)

(* PUT /gateway/fragments/{id}: of a built-in one only the defaults. *)
UpdateFragment(c, f, b) ==
  \/ /\ f \in Builtins
     /\ Change(c, "updateFragment",
               <<Put("toggle", f, [default |-> b.default, hidden |-> b.hidden])>>)
  \/ /\ f \in DOMAIN db["fragment"]
     /\ Change(c, "updateFragment", <<Put("fragment", f, b)>>)

(* Wrong: a fragment is deleted whoever names it. *)
DeleteFragmentAnyway(c, f) ==
  /\ f \in DOMAIN db["fragment"]
  /\ Change(c, "deleteFragment", <<Drop("fragment", f)>>)

(* DELETE /gateway/fragments/{id}: refused while a stored service names it.*)
DeleteFragment(c, f) ==
  /\ f \in DOMAIN db["fragment"]
  /\ \A s \in Services : f \notin db["service"][s].frags
  /\ Change(c, "deleteFragment", <<Drop("fragment", f)>>)

CreateVariable(c, k, v) ==
  /\ k \notin DOMAIN db["variable"]
  /\ Change(c, "createVariable", <<Put("variable", k, v)>>)
UpdateVariable(c, k, v) ==
  /\ k \in DOMAIN db["variable"]
  /\ Change(c, "updateVariable", <<Put("variable", k, v)>>)
DeleteVariable(c, k) ==
  /\ k \in DOMAIN db["variable"]
  /\ Change(c, "deleteVariable", <<Drop("variable", k)>>)

(* GET /gateway/ports: seedDefaultPorts writes http and https as they were *)
(* configured, if no port is stored.                                       *)
Binding(ports, enabled, builtin) == [ports |-> ports, enabled |-> enabled, builtin |-> builtin]
SeedDefaultPorts(c) ==
  /\ DOMAIN db["port"] = {}
  /\ Begin(c, "seedPorts",
           <<Put("port", "http", Binding(<<Or(Start.http, 80)>>, TRUE, TRUE)),
             Put("port", "https", Binding(<<Or(Start.https, 443)>> \o SetToSeq(Start.moreHttps),
                                          TRUE, TRUE))>>, <<>>, FALSE)
  /\ UNCHANGED lastId

(* checkPortConflict *)
NoConflict(p, ports) ==
  \A q \in DOMAIN db["port"] \ {p} : ToSet(ports) \cap ToSet(db["port"][q].ports) = {}

CreatePort(c, p, ports, enabled) ==
  /\ p \in OtherProtocols
  /\ p \notin DOMAIN db["port"]
  /\ NoConflict(p, ports)
  /\ Change(c, "createPort", <<Put("port", p, Binding(ports, enabled, FALSE))>>)
(* Wrong: only a new protocol is checked for conflicts. *)
UpdatePortAnyway(c, p, ports, enabled) ==
  /\ p \in DOMAIN db["port"]
  /\ Change(c, "updatePort", <<Put("port", p, Binding(ports, enabled, db["port"][p].builtin))>>)

UpdatePort(c, p, ports, enabled) ==
  /\ p \in DOMAIN db["port"]
  /\ NoConflict(p, ports)
  /\ Change(c, "updatePort", <<Put("port", p, Binding(ports, enabled, db["port"][p].builtin))>>)
DeletePort(c, p) ==
  /\ p \in DOMAIN db["port"]
  /\ ~db["port"][p].builtin
  /\ Change(c, "deletePort", <<Drop("port", p)>>)

(* Whether there is such a credential is not looked up. *)
Domain(name, cred) == [name |-> name, credential |-> cred]
CreateDomain(c, name, cred) ==
  /\ DrawIds(1)
  /\ Begin(c, "createDomain", <<Put("domain", ID(1), Domain(name, cred))>>, <<>>, TRUE)
UpdateDomain(c, d, name, cred) ==
  /\ d \in DOMAIN db["domain"]
  /\ Change(c, "updateDomain", <<Put("domain", d, Domain(name, cred))>>)

(* DELETE /domains/{id}: refused while a row of a stored service is under  *)
(* it (domainReferenced).                                                  *)
DomainReferenced(name) ==
  \E s \in Services : \E i \in DOMAIN db["service"][s].rows :
    db["service"][s].rows[i].root = name
DeleteDomain(c, d) ==
  /\ d \in DOMAIN db["domain"]
  /\ ~DomainReferenced(db["domain"][d].name)
  /\ Change(c, "deleteDomain", <<Drop("domain", d)>>)

(* What is asked for after these is a run of acme alone, which does not    *)
(* touch what Caddy runs: here it is as if none were asked for.  Nothing   *)
(* looks whether a domain names the credential.                            *)
ChangeOfAcme(c, req, todo) == Begin(c, req, todo, <<>>, FALSE)
CreateCredential(c, v) ==
  /\ DrawIds(1)
  /\ ChangeOfAcme(c, "createCredential", <<Put("credential", ID(1), v)>>)
UpdateCredential(c, k, v) ==
  /\ k \in Credentials(db)
  /\ ChangeOfAcme(c, "updateCredential", <<Put("credential", k, v)>>)
  /\ UNCHANGED lastId
DeleteCredential(c, k) ==
  /\ k \in Credentials(db)
  /\ ChangeOfAcme(c, "deleteCredential", <<Drop("credential", k)>>)
  /\ UNCHANGED lastId

-----------------------------------------------------------------------------
(* Writes                                                                  *)

(* The next write of a request; after the last one the request asks for a  *)
(* run and is answered.                                                    *)
Step(c) ==
  LET j == job[c] IN
  /\ ~Idle(c)
  /\ db' = Write(db, Head(j.todo))
  /\ IF Len(j.todo) = 1
     THEN job' = [job EXCEPT ![c] = NoJob] /\ wanted' = (wanted \/ j.triggers)
     ELSE job' = [job EXCEPT ![c].todo = Tail(@)] /\ UNCHANGED wanted
  /\ UNCHANGED <<lastId, containers, run, loaded, result>>

(* A write fails: the request is answered with an error, after what it     *)
(* does to undo the earlier ones, and no run is asked for.                 *)
WriteFails(c) ==
  /\ "write" \in Faults
  /\ ~Idle(c)
  /\ LET j == job[c] IN
     job' = [job EXCEPT ![c] = IF j.undo = <<>> THEN NoJob
                               ELSE [j EXCEPT !.todo = j.undo, !.undo = <<>>,
                                              !.triggers = FALSE]]
  /\ UNCHANGED <<db, lastId, containers, wanted, run, loaded, result>>

-----------------------------------------------------------------------------
(* The reconcile run                                                       *)

NoRun == [at |-> "idle", services |-> <<>>, config |-> <<>>]

(* ReconcileCaddy lists the services, stored and derived, ... *)
BeginRun(daemon) ==
  /\ run.at = "idle"
  /\ wanted
  /\ wanted' = FALSE
  /\ run' = [NoRun EXCEPT !.at = "services", !.services = ListAllServices(db, daemon)]
  /\ UNCHANGED <<db, lastId, containers, job, loaded, result>>
ReadServices == BeginRun(containers)

(* ... as if no container ran when Docker does not answer, ... *)
ReadWithoutDocker == "docker" \in Faults /\ containers # <<>> /\ BeginRun(<<>>)

(* ... then everything else, generates the file ... *)
ReadFacts ==
  /\ run.at = "services"
  /\ run' = [NoRun EXCEPT !.at = "load", !.config = Configuration(run.services, db)]
  /\ UNCHANGED <<db, lastId, containers, job, wanted, loaded, result>>

(* Wrong: the wish for a run is dropped when the run ends, not when it     *)
(* begins to read.                                                         *)
LoadAndForget ==
  /\ run.at = "load"
  /\ run' = NoRun
  /\ wanted' = FALSE
  /\ IF run.config.file.ok THEN loaded' = run.config /\ result' = "ok"
                           ELSE result' = "failed" /\ UNCHANGED loaded
  /\ UNCHANGED <<db, lastId, containers, job>>

(* ... and loads it, unless it could not be generated or was refused. *)
Load ==
  /\ run.at = "load"
  /\ run' = NoRun
  /\ IF run.config.file.ok THEN loaded' = run.config /\ result' = "ok"
                           ELSE result' = "failed" /\ UNCHANGED loaded
  /\ UNCHANGED <<db, lastId, containers, job, wanted>>

LoadFails ==
  /\ "load" \in Faults
  /\ run.at = "load"
  /\ run' = NoRun
  /\ result' = "failed"
  /\ UNCHANGED <<db, lastId, containers, job, wanted, loaded>>

(* The reconciler's period has passed. *)
Tick ==
  /\ ~wanted
  /\ wanted' = TRUE
  /\ UNCHANGED <<db, lastId, containers, job, run, loaded, result>>

(* Containers start, stop or change outside GateBox. *)
DaemonChanges ==
  /\ containers' \in Daemons
  /\ containers' # containers
  /\ UNCHANGED <<db, lastId, job, wanted, run, loaded, result>>

(* GateBox ends and starts again; Caddy goes on with what it runs. *)
Crash ==
  /\ "crash" \in Faults
  /\ job' = [c \in Clients |-> NoJob]
  /\ wanted' = FALSE
  /\ run' = NoRun
  /\ UNCHANGED <<db, lastId, containers, loaded, result>>

-----------------------------------------------------------------------------
NoConfiguration == [file |-> [ok |-> TRUE, ports |-> <<0, 0>>, blocks |-> {}], rules |-> {}]

Init ==
  /\ db = Empty
  /\ lastId = 0
  /\ containers \in Daemons
  /\ job = [c \in Clients |-> NoJob]
  /\ wanted = FALSE
  /\ run = NoRun
  /\ loaded = NoConfiguration
  /\ result = "none"

AppRequest(c) ==
  \/ \E name \in AppNames, n \in 0..2 : \E ins \in [1..n -> ServiceInputs] :
       CreateApp(c, name, ins)
  \/ \E app \in Apps, name \in AppNames : UpdateApp(c, app, name)
  \/ \E app \in Apps : DeleteApp(c, app)
ServiceRequest(c) ==
  \/ \E app \in Apps \cup {""}, in \in ServiceInputs : CreateService(c, app, in)
  \/ \E s \in Services, app \in Apps \cup {""} \cup Strays, in \in ServiceInputs :
       UpdateService(c, s, app, in)
  \/ \E s \in Services : DeleteService(c, s)
  \/ \E s \in Services, on \in BOOLEAN : SetServiceEnabled(c, s, on)
  \/ \E id \in DerivedIDs, on \in BOOLEAN : SetDerivedEnabled(c, id, on)
  \/ Restart(c)
FragmentRequest(c) ==
  \/ \E b \in FragmentBodies : CreateFragment(c, b)
  \/ \E f \in Builtins \cup DOMAIN db["fragment"], b \in FragmentBodies : UpdateFragment(c, f, b)
  \/ \E f \in DOMAIN db["fragment"] : DeleteFragment(c, f)
  \/ \E k \in VarKeys, v \in Values : CreateVariable(c, k, v) \/ UpdateVariable(c, k, v)
  \/ \E k \in VarKeys : DeleteVariable(c, k)
PortRequest(c) ==
  \/ SeedDefaultPorts(c)
  \/ \E p \in OtherProtocols \cup {"http", "https"}, ports \in PortSets, on \in BOOLEAN :
       CreatePort(c, p, ports, on) \/ UpdatePort(c, p, ports, on)
  \/ \E p \in OtherProtocols \cup {"http", "https"} : DeletePort(c, p)
DomainRequest(c) ==
  \/ \E name \in RootNames, k \in Credentials(db) \cup {""} \cup Strays :
       \/ CreateDomain(c, name, k)
       \/ \E d \in DOMAIN db["domain"] : UpdateDomain(c, d, name, k)
  \/ \E d \in DOMAIN db["domain"] : DeleteDomain(c, d)
  \/ \E v \in Values : CreateCredential(c, v)
  \/ \E k \in Credentials(db) :
       DeleteCredential(c, k) \/ \E v \in Values : UpdateCredential(c, k, v)

Reconcile == ReadServices \/ ReadWithoutDocker \/ ReadFacts \/ Load \/ LoadFails \/ Tick
Next ==
  \/ \E c \in Clients :
       \/ AppRequest(c) \/ ServiceRequest(c) \/ FragmentRequest(c)
       \/ PortRequest(c) \/ DomainRequest(c)
       \/ Step(c) \/ WriteFails(c)
  \/ Reconcile
  \/ DaemonChanges
  \/ Crash

Spec == Init /\ [][Next]_vars
=============================================================================
