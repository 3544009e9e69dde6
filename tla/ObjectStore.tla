----------------------------- MODULE ObjectStore -----------------------------
(***************************************************************************)
(* The V4.1 object layer (internal/objects on internal/repository): typed  *)
(* objects that refer to one another by id, the write-only password store  *)
(* kept beside them, and the system-made edge host.                        *)
(*                                                                         *)
(* Every write to the objects is one Bolt write transaction                *)
(* (Store.UpdateObjects), hence one step here.  What the service does      *)
(* outside that transaction (hash and store a password, move or drop a     *)
(* secret, undo a half-made user) is a step of its own: requests run       *)
(* concurrently and the process may die between two of them.  A request    *)
(* the service refuses changes nothing and is not a step.                  *)
(***************************************************************************)
EXTENDS Naturals, FiniteSets

CONSTANTS
  Kinds,       (* object kinds in use                                      *)
  Ids,         (* object ids, i.e. slugs of main keys                      *)
  Keys,        (* main-key texts clients send                              *)
  Slug,        (* [Keys -> Ids], the id Slug() makes of a key              *)
  Passwords,   (* passwords that pass checkPassword                        *)
  NoSecret,    (* "no secret stored"                                       *)
  Clients,     (* goroutines serving object requests                       *)
  ForceFlags,  (* values of ?force= that clients send with DELETE          *)
  Faults       (* faults considered: "crash", "secretWrite"                *)

EdgeHostID == "edge"

ASSUME ConstantsAssumption ==
  /\ Ids # {}
  /\ Slug \in [Keys -> Ids]
  /\ NoSecret \notin Passwords
  /\ ForceFlags \subseteq BOOLEAN
  /\ Faults \subseteq {"crash", "secretWrite"}
  /\ "host" \in Kinds => EdgeHostID \in Keys /\ Slug[EdgeHostID] = EdgeHostID

Object == Kinds \X Ids
User(u) == <<"user", u>>
Edge    == <<"host", EdgeHostID>>

(* The reference fields of model/*.yaml as <<from, to>>: those of a kind's *)
(* schema, which ReferenceTargets returns, and those a catalog type adds   *)
(* (basic_auth.users), which only Validate looks at.                       *)
SchemaRefs  == {<<"route", "service">>, <<"route", "domain">>, <<"route", "entrypoint">>,
                <<"route", "middleware">>, <<"domain", "dns-credential">>}
CatalogRefs == {<<"middleware", "user">>}
ScalarRefs  == {<<"route", "service">>, <<"route", "entrypoint">>,
                <<"domain", "dns-credential">>}

(* What one request body can carry: references to existing or unknown ids, *)
(* one at most in a field that is not an array, and the role of a host.    *)
Targets(kind) == {t \in Object : <<kind, t[1]>> \in SchemaRefs \cup CatalogRefs}
SpecRefs ==
  [kind \in Kinds |->
     {R \in SUBSET Targets(kind) :
        \A t, u \in R : t[1] = u[1] /\ <<kind, t[1]>> \in ScalarRefs => t = u}]
Roles(kind) == IF kind = "host" THEN {"edge", "worker"} ELSE {"-"}

Body  == [key : Keys, refs : SUBSET Object, role : {"edge", "worker", "-"},
          passwordSet : BOOLEAN]
Steps == {"idle", "put", "mark", "undo", "drop", "move", "unmove"}
Job   == [at : Steps, id : Ids, to : Ids, pw : Passwords \cup {NoSecret}, new : BOOLEAN]

VARIABLES
  body,      (* the objects bucket: a function from the live objects to Body *)
  secret,    (* the secrets bucket: [Ids -> Passwords or NoSecret], users only *)
  job,       (* what the goroutine of each request still has to do           *)
  heartbeat  (* refreshEdgePresence: "idle", or "create" after its Get found *)
             (* no edge host                                                 *)

vars == <<body, secret, job, heartbeat>>

live == DOMAIN body

NoJob == [at |-> "idle", id |-> CHOOSE i \in Ids : TRUE, to |-> CHOOSE i \in Ids : TRUE,
          pw |-> NoSecret, new |-> FALSE]

(* server.New runs EnsureEdge before it serves the first request. *)
NewEdge == [key |-> EdgeHostID, refs |-> {}, role |-> "edge", passwordSet |-> FALSE]
WithEdge(b) ==
  IF "host" \in Kinds /\ Edge \notin DOMAIN b
  THEN [o \in DOMAIN b \cup {Edge} |-> IF o = Edge THEN NewEdge ELSE b[o]]
  ELSE b

Init ==
  /\ body = WithEdge([o \in {} |-> NewEdge])
  /\ secret = [u \in Ids |-> NoSecret]
  /\ job = [c \in Clients |-> NoJob]
  /\ heartbeat = "idle"

-----------------------------------------------------------------------------
(* Helpers of the transactions.                                            *)

(* Service.validate: every reference names an object of the base, the      *)
(* object being written excluded.                                          *)
Valid(refs, self) == refs \subseteq live \ {self}

(* Service.inboundRefs: who refers to o through a schema field. *)
InboundRefs(o) == {x \in live \ {o} : o \in body[x].refs /\ <<x[1], o[1]>> \in SchemaRefs}

(* Service.rewriteRefs: o becomes n in the schema reference fields of x. *)
RewriteRefs(x, o, n) ==
  IF <<x[1], o[1]>> \in SchemaRefs /\ o \in body[x].refs
  THEN [body[x] EXCEPT !.refs = (@ \ {o}) \cup {n}]
  ELSE body[x]

Insert(o, b) == body' = [x \in live \cup {o} |-> IF x = o THEN b ELSE body[x]]
Remove(S)    == body' = [x \in live \ S |-> body[x]]

Idle(c)       == job[c].at = "idle"
Finish(c)     == job' = [job EXCEPT ![c] = NoJob]
GoTo(c, step) == job' = [job EXCEPT ![c].at = step]
Begin(c, step, u, v, p, isNew) ==
  job' = [job EXCEPT ![c] = [at |-> step, id |-> u, to |-> v, pw |-> p, new |-> isNew]]

-----------------------------------------------------------------------------
(* Requests                                                                *)

(* POST /objects/{kind}: Create, or CreateUser, which goes on to hash and  *)
(* store the password after the object is written.                         *)
Create(c, kind, k, refs, role) ==
  LET o == <<kind, Slug[k]>> IN
  /\ Idle(c)
  /\ o \notin live
  /\ Valid(refs, o)
  /\ Insert(o, [key |-> k, refs |-> refs, role |-> role, passwordSet |-> FALSE])
  /\ IF kind = "user" THEN \E p \in Passwords : Begin(c, "put", o[2], o[2], p, TRUE)
                      ELSE UNCHANGED job
  /\ UNCHANGED <<secret, heartbeat>>

(* PUT /objects/{kind}/{id}: assertEdgeRole, then the transaction of       *)
(* Update; with a password in the body SetPassword follows.                *)
Update(c, o, k, refs, role, p) ==
  /\ Idle(c)
  /\ o = Edge => role = "edge"
  /\ o \in live
  /\ k = body[o].key
  /\ Valid(refs, o)
  /\ Insert(o, [body[o] EXCEPT !.key = k, !.refs = refs, !.role = role])
  /\ IF o[1] = "user" /\ p # NoSecret THEN Begin(c, "put", o[2], o[2], p, FALSE)
                                      ELSE UNCHANGED job
  /\ UNCHANGED <<secret, heartbeat>>

(* PATCH /objects/{kind}/{id}/key: one transaction renames the object and  *)
(* rewrites the schema references to it; the secret read inside it is      *)
(* moved afterwards.  A key with the same slug is answered without a write.*)
Rename(c, o, k) ==
  LET n == <<o[1], Slug[k]>>
      pw == IF o[1] = "user" THEN secret[o[2]] ELSE NoSecret
  IN
  /\ Idle(c)
  /\ o \in live
  /\ n # o /\ n \notin live
  /\ Valid(body[o].refs, o)
  /\ body' = [x \in (live \ {o}) \cup {n} |->
                IF x = n THEN [body[o] EXCEPT !.key = k] ELSE RewriteRefs(x, o, n)]
  /\ IF pw # NoSecret THEN Begin(c, "move", o[2], n[2], pw, FALSE) ELSE UNCHANGED job
  /\ UNCHANGED <<secret, heartbeat>>

(* Wrong: a forced delete that keeps the objects referring to its target. *)
VictimsWithoutCascade(o) == {o}

(* The objects one Delete transaction removes: the object and, with force, *)
(* the objects that refer to it directly.                                  *)
Victims(o) == {o} \cup InboundRefs(o)

(* Wrong: the password hash of a user that is deleted is forgotten. *)
DeleteOnly(c, o, force) ==
  /\ Idle(c)
  /\ o # Edge
  /\ o \in live
  /\ InboundRefs(o) = {} \/ force
  /\ Remove(Victims(o))
  /\ UNCHANGED <<secret, job, heartbeat>>

(* DELETE /objects/{kind}/{id}?force=.  Nothing that refers to an object   *)
(* holds a secret, so only the secret of a deleted user is left to drop.   *)
Delete(c, o, force) ==
  /\ Idle(c)
  /\ o # Edge
  /\ o \in live
  /\ InboundRefs(o) = {} \/ force
  /\ Remove(Victims(o))
  /\ IF o[1] = "user" THEN Begin(c, "drop", o[2], o[2], NoSecret, FALSE) ELSE UNCHANGED job
  /\ UNCHANGED <<secret, heartbeat>>

-----------------------------------------------------------------------------
(* The rest of a request, after its transaction                            *)

(* setPassword: PutSecret of the bcrypt hash. *)
PutSecret(c) ==
  /\ job[c].at = "put"
  /\ secret' = [secret EXCEPT ![job[c].id] = job[c].pw]
  /\ GoTo(c, "mark")
  /\ UNCHANGED <<body, heartbeat>>

(* PutSecret fails: CreateUser takes the user back, SetPassword gives up.  *)
PutSecretFails(c) ==
  /\ "secretWrite" \in Faults
  /\ job[c].at = "put"
  /\ IF job[c].new THEN GoTo(c, "undo") ELSE Finish(c)
  /\ UNCHANGED <<body, secret, heartbeat>>

(* setPassword: SetStatus(passwordSet). *)
MarkPasswordSet(c) ==
  LET o == User(job[c].id) IN
  /\ job[c].at = "mark"
  /\ \/ /\ o \in live
        /\ Insert(o, [body[o] EXCEPT !.passwordSet = TRUE])
        /\ Finish(c)
     \/ /\ o \notin live    \* ErrNotFound
        /\ IF job[c].new THEN GoTo(c, "undo") ELSE Finish(c)
        /\ UNCHANGED body
  /\ UNCHANGED <<secret, heartbeat>>

(* CreateUser after a failed setPassword: Delete(user, force), its error dropped. *)
UndoCreateUser(c) ==
  LET o == User(job[c].id) IN
  /\ job[c].at = "undo"
  /\ \/ o \in live /\ Remove(Victims(o)) /\ GoTo(c, "drop")
     \/ o \notin live /\ UNCHANGED body /\ Finish(c)
  /\ UNCHANGED <<secret, heartbeat>>

(* Delete: DeleteSecret of what the transaction removed. *)
DropSecret(c) ==
  /\ job[c].at = "drop"
  /\ secret' = [secret EXCEPT ![job[c].id] = NoSecret]
  /\ Finish(c)
  /\ UNCHANGED <<body, heartbeat>>

(* Rename: PutSecret under the new id, then DeleteSecret of the old one. *)
MoveSecret(c) ==
  /\ job[c].at = "move"
  /\ secret' = [secret EXCEPT ![job[c].to] = job[c].pw]
  /\ GoTo(c, "unmove")
  /\ UNCHANGED <<body, heartbeat>>

MoveSecretFails(c) ==
  /\ "secretWrite" \in Faults
  /\ job[c].at = "move"
  /\ Finish(c)
  /\ UNCHANGED <<body, secret, heartbeat>>

DropMovedSecret(c) ==
  /\ job[c].at = "unmove"
  /\ secret' = [secret EXCEPT ![job[c].id] = NoSecret]
  /\ Finish(c)
  /\ UNCHANGED <<body, heartbeat>>

(* Delete and Rename drop the error of DeleteSecret: the hash stays. *)
DropSecretFails(c) ==
  /\ "secretWrite" \in Faults
  /\ job[c].at \in {"drop", "unmove"} /\ secret[job[c].id] # NoSecret
  /\ Finish(c)
  /\ UNCHANGED <<body, secret, heartbeat>>

-----------------------------------------------------------------------------
(* The heartbeat goroutine and the process                                 *)

(* EnsureEdge: Get, and Create when it found nothing.  The status it then  *)
(* sets (online, lastSeen) is not modelled.                                *)
EdgeMissing ==
  /\ "host" \in Kinds
  /\ heartbeat = "idle"
  /\ Edge \notin live
  /\ heartbeat' = "create"
  /\ UNCHANGED <<body, secret, job>>

CreateEdge ==
  /\ heartbeat = "create"
  /\ body' = WithEdge(body)
  /\ heartbeat' = "idle"
  /\ UNCHANGED <<secret, job>>

(* The process dies and starts again: goroutines are gone, both buckets    *)
(* stay, and EnsureEdge runs before the first request.                     *)
Crash ==
  /\ "crash" \in Faults
  /\ body' = WithEdge(body)
  /\ job' = [c \in Clients |-> NoJob]
  /\ heartbeat' = "idle"
  /\ UNCHANGED secret

Request(c) ==
  \/ \E kind \in Kinds, k \in Keys :
       \E refs \in SpecRefs[kind], role \in Roles(kind) : Create(c, kind, k, refs, role)
  \/ \E o \in live, k \in Keys, p \in Passwords \cup {NoSecret} :
       \E refs \in SpecRefs[o[1]], role \in Roles(o[1]) : Update(c, o, k, refs, role, p)
  \/ \E o \in live, k \in Keys : Rename(c, o, k)
  \/ \E o \in live, force \in ForceFlags : Delete(c, o, force)

Continue(c) ==
  \/ PutSecret(c) \/ PutSecretFails(c) \/ MarkPasswordSet(c) \/ UndoCreateUser(c)
  \/ DropSecret(c) \/ MoveSecret(c) \/ MoveSecretFails(c) \/ DropMovedSecret(c)
  \/ DropSecretFails(c)

Next ==
  \/ \E c \in Clients : Request(c) \/ Continue(c)
  \/ EdgeMissing \/ CreateEdge \/ Crash

Spec == Init /\ [][Next]_vars
-----------------------------------------------------------------------------
(* Properties                                                              *)

(* The buckets and the request goroutines hold values of their types; in   *)
(* particular a secret is moved to an id, never to a key.                  *)
TypeOK ==
  /\ live \subseteq Object
  /\ \A o \in live : body[o] \in Body
  /\ secret \in [Ids -> Passwords \cup {NoSecret}]
  /\ job \in [Clients -> Job]
  /\ heartbeat \in {"idle", "create"}

(* An object's id is the slug of its key: creates, updates and renames     *)
(* keep ids and keys together (the reason Update refuses a new key).       *)
IdIsSlugOfKey == \A o \in live : o[2] = Slug[body[o].key]

SchemaDangling(x, o) ==
  /\ x \in live /\ o \notin live
  /\ o \in body[x].refs /\ <<x[1], o[1]>> \in SchemaRefs

(* No stored object refers to a missing object through a schema field:     *)
(* Create and Update refuse dangling values, Rename rewrites them, and a   *)
(* forced Delete, its comment says, takes the referring objects along and  *)
(* leaves no dangling reference without saying so (service.go:329).  The   *)
(* code takes the direct ones only: what refers to those is left dangling, *)
(* and its kind is not in the answer.                                      *)
NoDanglingSchemaRefs == \A x \in live, o \in Object : ~SchemaDangling(x, o)

(* What NoDanglingSchemaRefs comes down to in the code.  When an object    *)
(* disappears, a reference to it stays behind only if it was swept along   *)
(* by a forced delete of another one: renames, direct deletes and the      *)
(* undoing of a user leave none.                                           *)
OnlyCascadeDangles ==
  [][\A o \in live \ live', x \in live' :
       /\ o \in body'[x].refs
       /\ <<x[1], o[1]>> \in SchemaRefs
       => \E t \in live \ live' : t # o /\ t \in body[o].refs]_vars

Quiet == \A c \in Clients : Idle(c)

(* Between requests, a password hash is stored exactly for the users whose *)
(* status says so: none is orphaned by a delete, lost by a rename or       *)
(* forgotten by a create.                                                  *)
SecretsMatchUsers ==
  Quiet => \A u \in Ids :
    secret[u] # NoSecret <=> User(u) \in live /\ body[User(u)].passwordSet
=============================================================================
