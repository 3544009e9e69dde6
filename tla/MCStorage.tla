------------------------------ MODULE MCStorage ------------------------------
(* What GateBox keeps, for TLC: the objects and the password hashes beside *)
(* them; the migration of the old tables to objects; the key, what is      *)
(* sealed with it and the variables; the settings file of the Docker       *)
(* daemon; and gatebox.conf.  They share no state of the model: a          *)
(* behaviour is one of one part, the others stay as they start.            *)
EXTENDS Integers, ObjectStore, TypeSpecs, TLC

CONSTANTS
  Starts, Touches,                       (* see MCMigration                *)
  Registries, NamesAllowed, NamesReserved, VariableValues, NotTouched, ComposeFiles,
  Secrets, MaxKeys, MaxRequests, NoValue, (* see Store                     *)
  Settings, Foreign, MaxUpdates,         (* see DaemonConfig               *)
  ConfFiles, ConfEnvs, ConfForms, NoConf, MaxPuts, MaxStarts (* see ConfFile                   *)

MCAllowed  == {<<"x">>}
MCReserved == {<<"GB_DATA_DIR">>, <<"GB_SUB_DOMAIN">>, <<"GB_SER", 1, 1>>, <<"GB_SER", 2, 1>>}
(* Two services, the first without a site and with a port of its own; one  *)
(* service without either.                                                 *)
MCFiles ==
  {<<[site |-> NoValue, ports |-> <<NoValue>>], [site |-> "s", ports |-> <<"8080">>]>>,
   <<[site |-> NoValue, ports |-> <<>>]>>}

(* gatebox.conf before the first start: none; the one the server makes,    *)
(* with a port; one with a key twice and another's lines between; and one  *)
(* of the user's alone.                                                    *)
ConfLine(k, v) == [key |-> k, value |-> v]
MCConfFiles ==
  {NoConf,
   <<ConfLine("other", <<>>), ConfLine("http", <<8080>>), ConfLine("https", <<0>>),
     ConfLine("extra", <<9443, -1>>), ConfLine("other", <<1>>)>>,
   <<ConfLine("https", <<443>>), ConfLine("other", <<1>>), ConfLine("https", <<70000>>),
     ConfLine("other", <<2>>)>>,
   <<ConfLine("other", <<3>>)>>}
NoEnv == [k \in {"http", "https", "extra"} |-> <<>>]
MCConfEnvs == {NoEnv, [NoEnv EXCEPT !["http"] = <<8000>>], [NoEnv EXCEPT !["https"] = <<-1>>]}
ConfForm(http, https, extra) ==
  [k \in {"http", "https", "extra"} |->
     CASE k = "http" -> <<http>> [] k = "https" -> <<https>> [] k = "extra" -> extra]
MCConfForms == {ConfForm(0, 0, <<>>), ConfForm(8081, 8443, <<9443, 9444>>), ConfForm(80, 65536, <<>>)}

-----------------------------------------------------------------------------
(* The objects.  A behaviour is about objects that refer to one another,   *)
(* one request at a time; or about users and hosts, with two requests at a *)
(* time beside the heartbeat, restarts and failing secret writes.          *)

(* "Edge" and "edge" have the same slug. *)
MCKeys == {"edge", "Edge", "nas"}
MCSlug == [k \in Keys |-> IF k = "Edge" THEN "edge" ELSE k]

KindsOf == [references |-> {"dns-credential", "domain", "route"}, accounts |-> {"user", "host"}]

VARIABLES
  part,  (* what the behaviour is about                                    *)
  calm   (* no write or removal of a secret has failed, the process has    *)
         (* not died with a request under way and no two requests have     *)
         (* overlapped                                                     *)
mcvars == <<vars, part, calm>>

Fault   == \/ \E c \in Clients : PutSecretFails(c) \/ MoveSecretFails(c) \/ DropSecretFails(c)
           \/ Crash /\ \E c \in Clients : ~Idle(c)

MCInit ==
  /\ Init /\ calm = TRUE /\ part \in DOMAIN KindsOf
MCNext ==
  \/ /\ part = "references"
     /\ LET c == CHOOSE c \in Clients : TRUE IN c \in Clients /\ Request(c)
     /\ \A o \in DOMAIN body' : o[1] \in KindsOf[part] \/ o = Edge
     /\ UNCHANGED <<part, calm>>
  \/ /\ part = "accounts"
     /\ \/ /\ \E c \in Clients : Request(c)
           /\ calm' = (calm /\ \A c \in Clients : Idle(c))
        \/ /\ (\E c \in Clients : Continue(c)) \/ EdgeMissing \/ CreateEdge \/ Crash
           /\ calm' = (calm /\ ~Fault)
     /\ \A o \in DOMAIN body' : o[1] \in KindsOf[part]
     /\ UNCHANGED part
MCSpec == MCInit /\ [][MCNext]_mcvars

(* While no secret write failed, no request was cut off by a crash and no  *)
(* two requests, of whatever user or host, overlapped, a password hash is  *)
(* stored exactly for the users whose status says so, whenever no request  *)
(* is under way: a sequence of creates, renames, new passwords and deletes *)
(* orphans, loses or forgets none.  (Two requests about one user may       *)
(* orphan a hash, see README.)                                             *)
CalmSecretsMatchUsers == calm => SecretsMatchUsers

-----------------------------------------------------------------------------
(* The old tables of two installations, and what users save after they are *)
(* migrated.                                                               *)

(* The texts whose id is not the text itself. *)
TextSlug(t) == CASE t = "GZIP" -> "gzip" [] t = "Aria" -> "aria"
               [] t = "home.cn" -> "home-cn" [] t = "my.home.cn" -> "my-home-cn"
               [] t = "my-home.cn" -> "my-home-cn" [] t = "!" -> ""
               [] OTHER -> t

Domain(n, c)     == [name |-> n, credential |-> c]
Binding(p, ns)   == [protocol |-> p, ports |-> ns]
Fragment(id, n)  == [id |-> id, name |-> n, code |-> "code of " \o id]
Row(p, sub, root, port) == [protocol |-> p, sub |-> sub, root |-> root, port |-> port]
Proxy(id, name, frags, rows) ==
  [id |-> id, name |-> name, type |-> "reverse_proxy", up |-> <<"nas", "6880">>, root |-> "",
   frags |-> frags, enabled |-> TRUE, rows |-> rows]
FileSite(id, name, rows) ==
  [Proxy(id, name, <<>>, rows) EXCEPT !.type = "file_server", !.up = <<>>, !.root = "/srv"]

Web == <<Binding("http", <<"80">>), Binding("https", <<"443">>)>>
Tables(domains, bindings, frags, services) ==
  [domains |-> domains, bindings |-> bindings, frags |-> frags, services |-> services]

(* Two services of one name, two protocols, a port of its own, fragments   *)
(* in order, a domain the table does not list.                             *)
Plain ==
  Tables(<<Domain("home.cn", FALSE)>>, Web, <<Fragment("f1", "GZIP"), Fragment("f2", "hdr")>>,
    <<Proxy("s1", "Aria", <<"f2", "f1">>,
        <<Row("https", "aria", "home.cn", ""), Row("http", "aria", "home.cn", "8080")>>),
      FileSite("s2", "Aria", <<Row("", "", "my.home.cn", "")>>)>>)

(* Names that clash, a fragment that is gone, a credential, main ports     *)
(* that are not the usual ones.                                            *)
Clashes ==
  Tables(<<Domain("my-home.cn", TRUE), Domain("my.home.cn", FALSE), Domain("home.cn", FALSE)>>,
    <<Binding("http", <<"8080">>), Binding("https", <<"8443">>), Binding("test", <<"1">>)>>,
    <<Fragment("f1", "GZIP"), Fragment("f3", "gzip")>>,
    <<Proxy("s1", "Aria", <<"f1", "f9">>, <<Row("https", "aria", "my.home.cn", "")>>),
      Proxy("s2", "!", <<>>, <<Row("https", "flare", "home.cn", "443"), Row("http", "flare", "home.cn", "")>>),
      [Proxy("s3", "web", <<"f3">>, <<Row("https", "aria", "home.cn", "")>>) EXCEPT !.enabled = FALSE]>>)

OldTables == {Plain, Clashes}

(* What users save: the service of another type, with and without what the *)
(* renderer needs, a middleware of another type, a user, a route of their  *)
(* own, a protocol that is not installed.                                  *)
Saved(kind, spec) == [kind |-> kind, spec |-> spec]
Named(n) == [name |-> Text(n)]
MCEdits ==
  {Saved("service", Named("Aria") @@ [type |-> Text(t)] @@ more) :
     t \in {"file_server", "respond", "l4_proxy"},
     more \in {[root |-> Text("/srv")], [body |-> Text("hello")], [backend |-> Text("nas")]}}
  \cup
  {Saved("service", Named("Aria") @@ [type |-> Text("file_server"), root |-> Number("80")])}
  \cup
  {Saved("middleware", Named("GZIP") @@ [type |-> Text("basic_auth")] @@ us) :
     us \in {[users |-> Array(<<"ann">>)], [users |-> Array(<<>>)]}}
  \cup
  {Saved("user", Named("ann"))}
  \cup
  {Saved("route", Named("own") @@
     [service |-> Text("aria"), entrypoint |-> Text("https"), subdomain |-> Text("own"),
      middlewares |-> Array(mws), enabled |-> Switch(TRUE)]
     @@ ("backend.host" :> Text("nas")) @@ ("backend.port" :> Number("80"))) :
     mws \in {<<"gzip">>, <<"gzip", "">>}}
  \cup
  {Saved("entrypoint", [protocol |-> Text("udp"), ports |-> Array(<<"53">>)])}

-----------------------------------------------------------------------------
VARIABLES
  tables, db, migration, backup, starts, touches, touched, whole, settled,
  keyFile, proc, made, sealed, req, variables, moved, meta, quota, wish, cleared, given, mishap,
  file, running, upd, updates, slip, unread,
  text, env, config, server, put, puts, begun, others, form, fresh, crossed

objects    == <<vars, calm>>
migrating  == <<tables, db, migration, backup, starts, touches, touched, whole, settled>>
opened     == <<keyFile, proc, made, sealed, req, variables, moved, meta, quota, wish, cleared,
                given, mishap>>
daemonfile == <<file, running, upd, updates, slip, unread>>
conffile   == <<text, env, config, server, put, puts, begun, others, form, fresh, crossed>>

Moved == INSTANCE MCMigration
  WITH old <- tables, job <- migration, Slug <- TextSlug, Legacy <- OldTables, Edits <- MCEdits,
       Forces <- BOOLEAN
ASSUME MigrationAssumption == Moved!WellFormed
Opened == INSTANCE Store
  WITH Ids <- Registries, Names <- NamesAllowed, Reserved <- NamesReserved,
       OldNames <- NamesAllowed \cup {<<"GB_SUB_DOMAIN">>}, Files <- ComposeFiles,
       Values <- VariableValues, Untouched <- NotTouched,
       old <- moved, left <- quota, settled <- cleared
ASSUME StoreAssumption == Opened!Distinct
Daemon == INSTANCE DaemonConfig
  WITH left <- updates, mishap <- slip
Conf == INSTANCE ConfFile
  WITH OldFiles <- ConfFiles, Envs <- ConfEnvs, Forms <- ConfForms, starts <- begun, given <- form
ASSUME ConfAssumption == Conf!WellFormed

AllInit ==
  /\ Init /\ calm = TRUE
  /\ part \in DOMAIN KindsOf \cup {"migration", "store", "daemon", "conf"}
  /\ Moved!MCInit /\ (part # "migration" => tables = CHOOSE t \in OldTables : TRUE)
  /\ Opened!Init
  /\ part # "store" => \A k \in DOMAIN variables : variables[k] = NoValue /\ moved[k] = NoValue
  /\ Daemon!Init /\ (part # "daemon" => running = CHOOSE s \in Settings : TRUE)
  /\ Conf!Init /\ (part # "conf" => text = NoConf /\ env = NoEnv)
AllNext ==
  \/ MCNext /\ UNCHANGED <<migrating, opened, daemonfile, conffile>>
  \/ /\ part = "migration" /\ Moved!MCNext
     /\ UNCHANGED <<part, objects, opened, daemonfile, conffile>>
  \/ /\ part = "store" /\ Opened!Next
     /\ UNCHANGED <<part, objects, migrating, daemonfile, conffile>>
  \/ /\ part = "daemon" /\ Daemon!Next
     /\ UNCHANGED <<part, objects, migrating, opened, conffile>>
  \/ /\ part = "conf" /\ Conf!Next
     /\ UNCHANGED <<part, objects, migrating, opened, daemonfile>>
AllSpec == AllInit /\ [][AllNext]_<<part, objects, migrating, opened, daemonfile, conffile>>

-----------------------------------------------------------------------------
(* MCMigration: a run that comes to its end has written all it planned and *)
(* the sites are served as before, what Validate accepts can be rendered,  *)
(* and a second run changes nothing.                                       *)
MigrationKeepsSites == part = "migration" => Moved!DoneIsComplete /\ Moved!SitesSurvive
ValidObjectsRender  == part = "migration" => Moved!ValidObjectsRender
SecondRunIsQuiet    == Moved!SecondRunIsQuiet

(* Store: what is sealed can be opened and is what was given last; the old *)
(* variables move once, and none stands in for a built-in one.             *)
SmoothSecretsKept == part = "store" => Opened!SmoothSecretsKept
VariablesMoveOnce == part = "store" => Opened!VariablesMoveOnce

(* DaemonConfig and ConfFile: what others wrote in the file stays, unless  *)
(* a read of daemon.json has failed, and the page and the program that     *)
(* reads the file agree with it.                                           *)
SettingsKept ==
  /\ part = "daemon" => Daemon!SettingsKept
  /\ part = "conf" => Conf!ConfKept
=============================================================================
