------------------------------ MODULE MCGateway ------------------------------
(* Instances of Gateway for TLC.  One run looks at several scopes: the     *)
(* initial state chooses which requests clients send.                      *)
EXTENDS Gateway

CONSTANTS
  Scopes,    (* requests that are looked at together                          *)
  Requests,  (* bound: requests that are begun, per scope                     *)
  Mishaps    (* bound: failed writes, refused loads, crashes and changes of   *)
             (* the daemon                                                    *)

ASSUME ServedAssumption == Len(Ids) >= 2 (* of an application and its service *)

Https(sub, root) == [proto |-> "https", sub |-> sub, root |-> root, port |-> 0]
Input(name, type, rows, up) ==
  [name |-> name, type |-> type, rows |-> rows, up |-> up, upProto |-> "",
   health |-> TRUE, rootUses |-> {}, named |-> {}, excl |-> {}]

MCRoots == {<<"r">>, <<"s", "r">>}
Web   == Input("web", "reverse_proxy", <<Https(<<"a">>, <<"r">>)>>, <<8080>>)
Bare  == Input("bare", "reverse_proxy", <<>>, <<8080>>)
Files == [Input("files", "file_server", <<Https(<<"f">>, <<"r">>)>>, <<>>)
            EXCEPT !.rootUses = {"V"}, !.excl = {"frag-gzip"}]
Mine  == [Input("mine", "reverse_proxy",
                <<[Https(<<"m">>, <<"r">>) EXCEPT !.proto = "http", !.port = 8443]>>, <<8081>>)
            EXCEPT !.named = {"1"}, !.upProto = "https"]
Mqtt  == Input("mqtt", "reverse_proxy",
               <<[proto |-> "mqtt", sub |-> <<>>, root |-> <<>>, port |-> 0]>>, <<1883>>)
MCInputs == {Web, Bare, Files, Mine, Mqtt}

MCBodies == {[form |-> "site", uses |-> {"V"}, gives |-> {}, code |-> 1,
              default |-> FALSE, hidden |-> FALSE],
             [form |-> "proxy", uses |-> {}, gives |-> {"health_uri"}, code |-> 2,
              default |-> TRUE, hidden |-> FALSE]}

Container(state, ports, labels) ==
  [project |-> "p", service |-> "w", state |-> state, ports |-> ports, labels |-> labels]
Site(host) == [proto |-> "https", host |-> host, port |-> 0]
TwoSites == (0 :> Site(<<"d", "s", "r">>)) @@ (1 :> Site(<<"e">>))
OneSite  == 0 :> Site(<<"d", "s", "r">>)
Port(internal, host) == [internal |-> internal, host |-> host]
(* Two published ports, of which only the second site names one; nothing   *)
(* published under that label; two replicas of one service; a reverse      *)
(* proxy that is passed on as it is, with a nested directive.              *)
ByPort == [sites |-> TwoSites, rp |-> 1 :> [tpl |-> TRUE, proto |-> "", port |-> 80],
           frags |-> Shared :> {"frag-static-cache"}, upPort |-> 0, extras |-> <<>>]
Plain  == [sites |-> OneSite, rp |-> <<>>, frags |-> <<>>, upPort |-> 0, extras |-> <<>>]
Passed == [Plain EXCEPT !.rp = Shared :> [tpl |-> FALSE, proto |-> "", port |-> 0],
                        !.extras = <<<<"handle", "respond">>>>]
TwoPublished == "c1" :> Container("running", {Port(80, 8000), Port(81, 8001)}, ByPort)
MCDaemons ==
  {<<>>,
   TwoPublished,
   "c1" :> Container("exited", {Port(80, 8000), Port(81, 8001)}, ByPort),
   [c \in {"c1", "c2"} |-> Container("running", {Port(80, 8000)}, Plain)],
   "c1" :> Container("running", {}, Passed)}
MCIds   == <<"1", "2", "3", "4">>
MCPorts == {<<80>>, <<8443, 9443>>}
MCCerts == {<<"a", "r">>, <<"d", "s", "r">>}
MCRequests == [apps |-> 2, fragments |-> 3, ports |-> 2, docker |-> 2]
MCMishaps  == [apps |-> 1, fragments |-> 0, ports |-> 1, docker |-> 1]
MCStart == [http |-> 0, https |-> 8443, moreHttps |-> {9443}]

-----------------------------------------------------------------------------
VARIABLES
  scope,    (* the requests looked at                                      *)
  unseen,   (* the facts have changed since the last run began, by a step  *)
            (* after which the code asks for no run of Caddy               *)
  calm,     (* so far requests came one at a time, named fragments and     *)
            (* applications that exist, and neither failed nor were        *)
            (* refused half-way                                            *)
  begun,    (* requests begun so far                                       *)
  mishaps,  (* how many of these there have been                             *)
  answered  (* whether the last answer about a service left it enabled     *)

mcvars == <<vars, scope, unseen, calm, begun, mishaps,
            answered>>

Asked(requests) == \A c \in Clients : job'[c].req \in requests \cup {"none"}
Named(names) ==
  \A c \in Clients : \A i \in DOMAIN job'[c].todo :
    LET w == job'[c].todo[i] IN w.table = "service" /\ w.op = "put" => w.row.name \in names
(* The requests of each scope; what follows them is that of every scope.    *)
Sends(c) ==
  \/ /\ scope = "apps"
     /\ AppRequest(c) \/ ServiceRequest(c)
     /\ Asked({"createApp", "refusedApp", "updateApp", "deleteApp", "createService",
               "updateService", "deleteService", "start", "stop"})
     /\ Named({"web"})
  \/ /\ scope = "fragments"
     /\ ServiceRequest(c) \/ FragmentRequest(c)
     /\ Asked({"createService", "deleteService", "stop", "createFragment",
               "updateFragment", "deleteFragment", "createVariable", "updateVariable",
               "deleteVariable"})
     /\ Named({"files", "mine"})
     /\ \A i \in DOMAIN job'[c].todo : job'[c].todo[i].key \notin Builtins \ {"frag-gzip"}
  \/ /\ scope = "ports"
     /\ (\E in \in ServiceInputs : CreateService(c, "", in)) \/ PortRequest(c)
     /\ Asked({"createService", "seedPorts", "createPort", "updatePort", "deletePort"})
     /\ Named({"mine", "mqtt"})
  \/ /\ scope = "docker"
     /\ \/ \E id \in DerivedIDs, on \in BOOLEAN : SetDerivedEnabled(c, id, on)
        \/ DomainRequest(c)
     /\ Asked({"start", "stop", "createDomain", "updateDomain", "deleteDomain",
               "createCredential", "updateCredential", "deleteCredential"})
Moves ==
  \/ \E c \in Clients : Sends(c) \/ Step(c) \/ WriteFails(c)
  \/ Reconcile
  \/ scope = "docker" /\ DaemonChanges
  \/ Crash

Mishap == ReadWithoutDocker \/ LoadFails \/ DaemonChanges \/ Crash \/ \E c \in Clients : WriteFails(c)
Silent ==
  \/ \E c \in Clients :
       /\ \/ job[c].req \in {"updateApp", "refusedApp", "seedPorts", "createCredential",
                            "updateCredential", "deleteCredential"}
          \/ job[c].req = "createApp" /\ ~job[c].triggers
       /\ Step(c)
  \/ \E c \in Clients : WriteFails(c)
  \/ ReadWithoutDocker
  \/ DaemonChanges
  \/ Crash
Overlap == \E c, d \in Clients : c # d /\ ~Idle(d) /\ Idle(c) /\ job'[c].req # "none"
Unknown ==
  \E c \in Clients : \E i \in DOMAIN job'[c].todo :
    LET w == job'[c].todo[i] IN
    /\ w.table = "service" /\ w.op = "put"
    /\ \/ ~(w.row.frags \subseteq DOMAIN Fragments(db))
       \/ job'[c].req = "updateService" /\ w.row.app \notin Apps \cup {""}
Trouble ==
  \/ Overlap
  \/ Unknown
  \/ \E c \in Clients : WriteFails(c) \/ job'[c].req = "refusedApp"
  \/ Crash /\ \E c \in Clients : ~Idle(c)

Answers ==
  LET done == {c \in Clients : ~Idle(c) /\ job'[c] = NoJob}
      told == {c \in done : job[c].req \in {"start", "stop"} /\ job[c].todo[1].table = "service"}
  IN IF \E c \in told : Step(c)
     THEN LET c == CHOOSE d \in told : TRUE
          IN With(answered, job[c].todo[1].key, job[c].req = "start")
     ELSE answered

(* Requests about applications start from one that has been created with a *)
(* service and is served.                                                  *)
Served ==
  LET d == [Empty EXCEPT !["app"] = With(<<>>, Ids[1], "A"),
                         !["service"] =
                           With(<<>>, Ids[2], ToService(Empty, Web, Ids[1], TRUE))]
  IN /\ db = d
     /\ lastId = 2
     /\ containers = <<>>
     /\ job = [c \in Clients |-> NoJob]
     /\ wanted = FALSE
     /\ run = NoRun
     /\ loaded = Configuration(ListAllServices(d, <<>>), d)
     /\ result = "ok"
MCInit ==
  /\ scope \in Scopes
  /\ IF scope = "apps" THEN Served ELSE Init
  /\ scope # "docker" => containers = <<>>
  /\ scope = "docker" => containers = TwoPublished
  /\ unseen = FALSE
  /\ calm = TRUE
  /\ begun = 0
  /\ mishaps = 0
  /\ answered = <<>>
MCNext ==
  /\ Moves
  /\ begun' = begun + Cardinality({c \in Clients : Idle(c) /\ job'[c].req # "none"})
  /\ begun' <= Requests[scope]
  /\ mishaps' = mishaps + (IF Mishap THEN 1 ELSE 0)
  /\ mishaps' <= Mishaps[scope]
  /\ unseen' = (Silent \/ (unseen /\ ~ReadServices))
  /\ calm' = (calm /\ ~Trouble)
  /\ answered' = Answers
  /\ UNCHANGED scope
MCSpec == MCInit /\ [][MCNext]_mcvars

-----------------------------------------------------------------------------
Quiet == wanted = FALSE /\ run.at = "idle" /\ \A c \in Clients : Idle(c)

(* At rest after a run that succeeded, Caddy runs the configuration of the *)
(* facts as they are now, whatever was written while the run read them:    *)
(* every request that changes what a file is made of asks for a run after  *)
(* its last write.  Excepted, until the next run, are the steps after      *)
(* which the code asks for no run of Caddy (the new name of an             *)
(* application, a credential, which has acme alone run although Caddy's    *)
(* file has tls lines for the domains with one, a batch that is refused    *)
(* half-way, a failed write, a change in Docker, a crash) and a run in     *)
(* which Docker did not answer.                                            *)
QuietConfigIsCurrent ==
  Quiet /\ ~unseen /\ result = "ok" => loaded = Current

(* While requests come one at a time and none breaks off, a service is     *)
(* enabled exactly if the last start or stop that was answered said so:    *)
(* editing a service does not start what was stopped.                      *)
CalmStopsAreKept ==
  calm => \A s \in Services \cap DOMAIN answered : Quiet =>
            db["service"][s].enabled = answered[s]

(* In the same circumstances no service is lost to the pages: it is in a   *)
(* group of the list, and the dependency graph has an edge for its         *)
(* application and for every fragment of the user's it names.  That holds  *)
(* only as long as no PUT names an application that does not exist, which  *)
(* nothing refuses: see ServicesAreShown.                                  *)
CalmReferencesResolve ==
  calm /\ (\A c \in Clients : Idle(c)) =>
    LET facts == SnapshotFacts(db, containers)
        edges == RefEdges(facts)
    IN /\ UNION Range(ListGroups(db)) = Services
       /\ \A f \in {g \in facts : g.ref[1] = "service" /\ g.origin = "user"} :
            \A k \in {"appId", "fragmentIds"} : \A t \in f.targets[k] \ Builtins :
              \E e \in edges : e.from = f.ref /\ e.field = k /\ e.to[2] = t

(* And no two protocols are bound to one port, unless the start-up         *)
(* configuration has bound them so: nothing compares its ports.            *)
StartDisjoint == Or(Start.http, 80) \notin {Or(Start.https, 443)} \cup Start.moreHttps
CalmPortsDisjoint ==
  calm /\ StartDisjoint =>
    \A p, q \in DOMAIN db["port"] :
      p # q => ToSet(db["port"][p].ports) \cap ToSet(db["port"][q].ports) = {}

(* gateway_api.go:159, listGroups: a service whose application is gone is  *)
(* shown among the ungrouped ones, so that every service is in some group. *)
ServicesAreShown ==
  (\A c \in Clients : Idle(c)) => UNION Range(ListGroups(db)) = Services
=============================================================================
