----------------------------- MODULE Migration41 -----------------------------
(***************************************************************************)
(* The migration of the old tables to objects (internal/migration and the  *)
(* command migrate41): Build reads the domains, port bindings, fragments   *)
(* and services of the old gateway and plans objects; Apply writes them    *)
(* one by one.  A run may be killed between two writes and is run again;   *)
(* GateBox itself runs only while no migration does (the lock of the       *)
(* database), and its users may then save and delete objects.              *)
(*                                                                         *)
(* A row of the tables:                                                    *)
(*   domain    [name, credential : BOOLEAN]                                *)
(*   binding   [protocol, ports]                                           *)
(*   fragment  [id, name, code]                                            *)
(*   service   [id, name, type, up : <<host, port>> or <<>>, root, frags,  *)
(*              enabled, rows], a row being [protocol, sub, root, port]    *)
(*             with port "" when it has none of its own                    *)
(* The ways of writing an upstream (with a scheme, without a port) are one *)
(* here, and descriptions, health paths and defaults are left out.         *)
(***************************************************************************)
EXTENDS TypeSpecs, Naturals, FiniteSets, SequencesExt, TLC

CONSTANTS
  Legacy,       (* the contents of the old tables: a set of                *)
                (* [domains, bindings, frags, services], each a sequence   *)
  Slug(_),      (* text -> id                                              *)
  Forces,       (* values of the flag --force                              *)
  Edits         (* objects users save: [kind, spec]                        *)

(* Tables are sequences of rows; a field that is saved has one text, or an *)
(* array of them.                                                          *)
IsSequence(s) == s \in Seq(ToSet(s))
WellFormed ==
  /\ \A o \in Legacy :
       /\ \A rows \in {o.domains, o.bindings, o.frags, o.services} : IsSequence(rows)
       /\ \A svc \in ToSet(o.services) : IsSequence(svc.rows)
  /\ \A o \in Edits : \A key \in DOMAIN o.spec :
       IF o.spec[key].form = "array" THEN IsSequence(o.spec[key].v)
                                     ELSE o.spec[key].v = <<o.spec[key].v[1]>>

VARIABLES
  old,      (* the tables                                                  *)
  db,       (* kind -> id -> [key, spec, source]                           *)
  job,      (* the run: [at : "none" | "apply" | "done", force, plan, i,   *)
            (*           failed : set of <<kind, id>>]                     *)
  backup    (* what the last backup holds, <<>> when there is none         *)
vars == <<old, db, job, backup>>

(* A function with one more value, and one with what another adds. *)
With(f, k, v) == [x \in DOMAIN f \cup {k} |-> IF x = k THEN v ELSE f[x]]
Also(f, g)    == [x \in DOMAIN f \cup DOMAIN g |-> IF x \in DOMAIN f THEN f[x] ELSE g[x]]

Migrated == {"domain", "entrypoint", "middleware", "route", "service", "user"}

-----------------------------------------------------------------------------
(* Build.  p is the plan under construction: the objects in the order they *)
(* are added, the sources of those that clash (and got another id, or were *)
(* dropped), what cannot be mapped, and the middleware of each fragment.   *)

EmptyPlan == [objects |-> <<>>, renamed |-> {}, dropped |-> {}, unmappable |-> {}, mids |-> <<>>]

Seen(p, kind, id) == \E i \in DOMAIN p.objects : p.objects[i].kind = kind /\ p.objects[i].id = id
SourceOf(p, kind, id) ==
  (CHOOSE o \in ToSet(p.objects) : o.kind = kind /\ o.id = id).source

(* add: the second object with an id is dropped, and said to be. *)
Add(p, kind, id, source, key, spec) ==
  IF Seen(p, kind, id)
  THEN [p EXCEPT !.dropped = @ \cup {source, SourceOf(p, kind, id)}]
  ELSE [p EXCEPT !.objects = Append(@, [kind |-> kind, id |-> id, source |-> source,
                                        key |-> key, spec |-> spec])]

(* A mutant: ids are looked up among the stored objects as well. *)
FreeIdInStore(p, kind, id) ==
  LET Taken(x) == Seen(p, kind, x) \/ x \in DOMAIN db[kind]
      Suffixed(n) == id \o "-" \o ToString(n)
      free == {n \in 2 .. Len(p.objects) + 9 : ~Taken(Suffixed(n))}
  IN IF ~Taken(id) THEN id ELSE Suffixed(CHOOSE n \in free : \A m \in free : n <= m)

(* unique: the first free id among id, id-2, id-3 ... *)
FreeId(p, kind, id) ==
  IF ~Seen(p, kind, id) THEN id
  ELSE LET Suffixed(n) == id \o "-" \o ToString(n)
           free == {n \in 2 .. Len(p.objects) + 2 : ~Seen(p, kind, Suffixed(n))}
       IN Suffixed(CHOOSE n \in free : \A m \in free : n <= m)
NoteClash(p, kind, id, source) ==
  IF Seen(p, kind, id)
  THEN [p EXCEPT !.renamed = @ \cup {source, SourceOf(p, kind, id)}] ELSE p

(* p goes through steps 1 .. n. *)
Through(step(_, _), p, n) ==
  LET after[i \in 0 .. n] == IF i = 0 THEN p ELSE step(after[i - 1], i) IN after[n]

Unmappable(p, source) == [p EXCEPT !.unmappable = @ \cup {source}]

PlanDomain(p, d) ==
  LET source == <<"domains", d.name>> IN
  IF Slug(d.name) = "" THEN Unmappable(p, source)
  ELSE Add(IF d.credential THEN Unmappable(p, source) ELSE p,
           "domain", Slug(d.name), source, d.name, [name |-> Text(d.name)])

Network(proto) == CASE proto \in {"udp", "quic"} -> "udp"
                    [] proto \in {"tcp", "http", "https", "grpc", "websocket", ""} -> "tcp"
                    [] OTHER -> "both"
Entrypoint(proto, ports) ==
  [protocol |-> Text(proto), ports |-> Array(ports), network |-> Text(Network(proto)),
   enabled |-> Switch(TRUE)]

(* planEntrypoints: the protocol has to be in the catalog; whether its     *)
(* component is installed is not asked here.                               *)
PlanEntrypoint(p, b) ==
  LET source == <<"port_bindings", b.protocol>> IN
  IF Slug(b.protocol) = "" \/ b.protocol \notin DynamicOptions("entrypoint")
  THEN Unmappable(p, source)
  ELSE Add(p, "entrypoint", Slug(b.protocol), source, Slug(b.protocol),
           Entrypoint(b.protocol, b.ports))

(* planFragments: the fragment is known by its middleware even when that   *)
(* is dropped for another of the same id.                                  *)
PlanFragment(p, f) ==
  LET source == <<"fragments", f.id>>
      id     == IF Slug(f.name) # "" THEN Slug(f.name) ELSE Slug(f.id)
      spec   == [name |-> Text(f.name), type |-> Text("code"), code |-> Text(f.code)]
  IN IF id = "" THEN Unmappable(p, source)
     ELSE Add([p EXCEPT !.mids = With(@, f.id, id)], "middleware", id, source, f.name, spec)

(* backendOf: a file server has no upstream, but a route needs a backend. *)
HasBackend(svc) == svc.type = "file_server" \/ svc.up # <<>>
BackendSpec(svc) ==
  LET at == IF svc.type = "file_server" THEN <<"127.0.0.1", "1">> ELSE svc.up
  IN With(With(<<>>, "backend.host", Text(at[1])), "backend.port", Number(at[2]))

(* ensureBuiltinEntrypoint, for a protocol no binding was planned for. *)
EnsureEntrypoint(p, proto) ==
  IF Seen(p, "entrypoint", Slug(proto)) THEN p
  ELSE Add(p, "entrypoint", Slug(proto), <<"implicit", proto>>, Slug(proto),
           Entrypoint(proto, <<IF proto = "http" THEN "80" ELSE "443">>))

EnsureDomain(p, root) ==
  IF root = "" \/ Slug(root) = "" \/ Seen(p, "domain", Slug(root)) THEN p
  ELSE Add(p, "domain", Slug(root), <<"route", root>>, root, [name |-> Text(root)])

(* resolveFragments *)
Gone(p, svc)        == {<<"fragments", f>> : f \in ToSet(svc.frags) \ DOMAIN p.mids}
Middlewares(p, svc) == LET known == SelectSeq(svc.frags, LAMBDA f : f \in DOMAIN p.mids)
                       IN [i \in DOMAIN known |-> p.mids[known[i]]]

RouteName(svc, i) ==
  LET d == svc.rows[i] IN
  CASE d.sub # "" -> d.sub
    [] d.sub = "" /\ d.root # "" -> d.root
    [] OTHER -> svc.name \o "-" \o ToString(i)

(* A mutant: the port of a row is lost. *)
RouteSpecWithoutPort(p, svc, svcId, i) ==
  Also([name |-> Text(RouteName(svc, i)), service |-> Text(svcId),
   subdomain |-> Text(svc.rows[i].sub),
   entrypoint |-> Text(Slug(IF svc.rows[i].protocol = "" THEN "https" ELSE svc.rows[i].protocol)),
   enabled |-> Switch(svc.enabled),
   tls |-> Text(IF svc.rows[i].protocol = "http" THEN "off" ELSE "auto"),
   roots |-> Array(IF svc.rows[i].root = "" THEN <<>> ELSE <<Slug(svc.rows[i].root)>>),
   middlewares |-> Array(Middlewares(p, svc))], BackendSpec(svc))

RouteSpec(p, svc, svcId, i) ==
  LET d     == svc.rows[i]
      proto == IF d.protocol = "" THEN "https" ELSE d.protocol
      spec  == Also([name |-> Text(RouteName(svc, i)), service |-> Text(svcId),
                     subdomain |-> Text(d.sub), entrypoint |-> Text(Slug(proto)),
                     enabled |-> Switch(svc.enabled),
                     tls |-> Text(IF d.protocol = "http" THEN "off" ELSE "auto"),
                     roots |-> Array(IF d.root = "" THEN <<>> ELSE <<Slug(d.root)>>),
                     middlewares |-> Array(Middlewares(p, svc))], BackendSpec(svc))
  IN IF d.port = "" THEN spec ELSE With(spec, "port", Number(d.port))

(* planRoute *)
PlanRoute(p, svc, svcId, i) ==
  LET d      == svc.rows[i]
      source == <<"services", svc.id>>
      slug   == Slug(RouteName(svc, i))
      named  == NoteClash(p, "route", slug, source)
      based  == EnsureDomain(EnsureEntrypoint(named, IF d.protocol = "" THEN "https" ELSE d.protocol),
                             d.root)
      noted  == [based EXCEPT !.unmappable = @ \cup Gone(p, svc)]
  IN IF slug = "" THEN Unmappable(p, source)
     ELSE IF d.root # "" /\ Slug(d.root) = "" THEN Unmappable(based, source)
     ELSE Add(noted, "route", FreeId(p, "route", slug), source, RouteName(svc, i),
              RouteSpec(p, svc, svcId, i))

PlanRoutes(p, svc, svcId) ==
  Through(LAMBDA q, i : PlanRoute(q, svc, svcId, i), p, Len(svc.rows))

PlanService(p, svc) ==
  LET source == <<"services", svc.id>>
      slug   == IF Slug(svc.name) # "" THEN Slug(svc.name) ELSE Slug(svc.id)
      id     == FreeId(p, "service", slug)
      base   == Also([name |-> Text(svc.name), type |-> Text(svc.type)], BackendSpec(svc))
      spec   == IF svc.type = "file_server" THEN With(base, "root", Text(svc.root)) ELSE base
      stored == Add(NoteClash(p, "service", slug, source), "service", id, source, svc.name, spec)
  IN IF \/ ~HasBackend(svc)
        \/ svc.type = "file_server" /\ svc.root = ""
        \/ svc.type \notin {"reverse_proxy", "file_server"}
        \/ slug = ""
     THEN Unmappable(p, source)
     ELSE IF svc.rows = <<>> THEN Unmappable(stored, source)
     ELSE PlanRoutes(stored, svc, id)

(* Build: domains first, then what refers to them. *)
PlanDomains(p, rows)     == Through(LAMBDA q, i : PlanDomain(q, rows[i]), p, Len(rows))
PlanEntrypoints(p, rows) == Through(LAMBDA q, i : PlanEntrypoint(q, rows[i]), p, Len(rows))
PlanFragments(p, rows)   == Through(LAMBDA q, i : PlanFragment(q, rows[i]), p, Len(rows))
PlanServices(p, rows)    == Through(LAMBDA q, i : PlanService(q, rows[i]), p, Len(rows))
Build(o) ==
  PlanServices(
    PlanFragments(
      PlanEntrypoints(
        PlanDomains(EmptyPlan, o.domains), o.bindings), o.frags), o.services)

(* Plan.Sort: by kind, so that routes are written before their services.   *)
(* (Within a kind it goes by id, here by the order of planning.)           *)
AppendIf(s, o, kind)  == IF o.kind = kind THEN Append(s, o) ELSE s
OfKind(objects, kind) ==
  Through(LAMBDA s, i : AppendIf(s, objects[i], kind), <<>>, Len(objects))
Sorted(objects) ==
  OfKind(objects, "domain") \o OfKind(objects, "entrypoint") \o OfKind(objects, "middleware")
    \o OfKind(objects, "route") \o OfKind(objects, "service")

-----------------------------------------------------------------------------
(* The command                                                             *)

Stored(d) == UNION {{<<k, id>> : id \in DOMAIN d[k]} : k \in Migrated}
Target(o) == <<o.kind, o.id>>
NoJob     == [at |-> "none", force |-> FALSE, plan |-> <<>>, i |-> 0, failed |-> {}, keep |-> {}]

Init ==
  /\ old \in Legacy
  /\ db = [k \in Migrated |-> <<>>]
  /\ job = NoJob
  /\ backup = <<>>

(* Back up, open the database, build the plan.  What is stored already is  *)
(* kept; the decision is taken here, for the whole run.                    *)
Start(force) ==
  /\ job.at # "apply"
  /\ backup' = <<db>>
  /\ job' = [at |-> "apply", force |-> force, plan |-> Sorted(Build(old).objects), i |-> 1,
             failed |-> {}, keep |-> Stored(db)]
  /\ UNCHANGED <<old, db>>

(* Apply, one object.  A reference counts as satisfied when its object is  *)
(* planned, whether or not it passes Validate itself.                      *)
Known == Stored(db) \cup {Target(o) : o \in ToSet(job.plan)}
Accepts(o) == Validate(o.kind, o.spec, Known) = {}

Skipped(o) == Target(o) \in job.keep /\ ~job.force
Stores(kind, id, key, spec, source) ==
  [db EXCEPT ![kind] = With(@, id, [key |-> key, spec |-> spec, source |-> source])]
Put(o) == Stores(o.kind, o.id, o.key, o.spec, o.source)

WriteNext ==
  /\ job.at = "apply"
  /\ job.i <= Len(job.plan)
  /\ LET o == job.plan[job.i] IN
     /\ db' = IF Skipped(o) \/ ~Accepts(o) THEN db ELSE Put(o)
     /\ job' = [job EXCEPT !.i = @ + 1,
                           !.failed = IF Skipped(o) \/ Accepts(o) THEN @ ELSE @ \cup {Target(o)}]
  /\ UNCHANGED <<old, backup>>

Finish ==
  /\ job.at = "apply"
  /\ job.i > Len(job.plan)
  /\ job' = [job EXCEPT !.at = "done"]
  /\ UNCHANGED <<old, db, backup>>

(* The command is killed, or a write fails with the process: what was      *)
(* written stays.                                                          *)
Kill ==
  /\ job.at = "apply"
  /\ job' = NoJob
  /\ UNCHANGED <<old, db, backup>>

(* The backup is copied back. *)
Restore ==
  /\ job.at # "apply"
  /\ backup # <<>>
  /\ db' = backup[1]
  /\ job' = NoJob
  /\ UNCHANGED <<old, backup>>

(* A user of the restarted GateBox saves an object that passes Validate;   *)
(* a key cannot be changed this way.                                       *)
UserSaves(o) ==
  /\ job.at # "apply"
  /\ Validate(o.kind, o.spec, Stored(db)) = {}
  /\ LET key == o.spec[KeyField(o.kind)].v[1]
         id  == Slug(key)
     IN /\ id \in DOMAIN db[o.kind] => db[o.kind][id].spec # o.spec
        /\ db' = Stores(o.kind, id, key, o.spec, <<"user">>)
  /\ job' = NoJob
  /\ UNCHANGED <<old, backup>>

(* Or deletes one that no field of a schema refers to. *)
Refers(o, kind, id) ==
  \E f \in Schema[o.kind] :
    kind \in f.refs /\ f.key \in DOMAIN o.spec /\ id \in ToSet(o.spec[f.key].v)
InUse(kind, id) ==
  \E k \in Migrated : \E r \in DOMAIN db[k] : Refers([kind |-> k, spec |-> db[k][r].spec], kind, id)

UserDeletes(kind, id) ==
  /\ job.at # "apply"
  /\ id \in DOMAIN db[kind]
  /\ ~InUse(kind, id)
  /\ db' = [db EXCEPT ![kind] = [j \in DOMAIN @ \ {id} |-> @[j]]]
  /\ job' = NoJob
  /\ UNCHANGED <<old, backup>>

Next ==
  \/ \E force \in Forces : Start(force)
  \/ WriteNext
  \/ Finish
  \/ Kill
  \/ Restore
  \/ \E kind \in Migrated : \E id \in DOMAIN db[kind] : UserDeletes(kind, id)
  \/ \E o \in Edits : UserSaves(o)

Spec == Init /\ [][Next]_vars
=============================================================================
