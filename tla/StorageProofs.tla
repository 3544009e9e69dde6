---------------------------- MODULE StorageProofs ----------------------------
(* What the objects, the store, daemon.json and gatebox.conf keep, for all
   values of the constants: the objects, their status and the secrets beside
   them hold together; secrets can be read and are those given last; the old
   variables move once; the fields and lines of others stay, and what was set
   is what is shown and used. Each part of MCStorage only moves its own
   variables, so the invariants are those of the parts. *)
EXTENDS MCStorage, TLAPS, WellFoundedInduction

-----------------------------------------------------------------------------
(* Objects: ObjectStore, for all kinds, ids, keys, clients and faults. *)

(* A request's references are objects. *)
LEMMA SpecRefsAreObjects ==
  ASSUME NEW kind \in Kinds, NEW refs \in SpecRefs[kind]
  PROVE  refs \in SUBSET Object
BY DEF SpecRefs, Targets

LEMMA RolesTyped ==
  ASSUME NEW kind, NEW role \in Roles(kind)
  PROVE  role \in {"edge", "worker", "-"}
BY DEF Roles

LEMMA NoJobTyped == NoJob \in Job
BY ConstantsAssumption DEF NoJob, Job, Steps

(* The steps a request goroutine records keep job a function to Job. *)
LEMMA BeginTyped ==
  ASSUME job \in [Clients -> Job], NEW c, NEW step \in Steps, NEW u \in Ids, NEW v \in Ids,
         NEW p \in Passwords \cup {NoSecret}, NEW isNew \in BOOLEAN,
         Begin(c, step, u, v, p, isNew)
  PROVE  job' \in [Clients -> Job]
<1>1. [at |-> step, id |-> u, to |-> v, pw |-> p, new |-> isNew] \in Job
  BY DEF Job
<1> QED BY <1>1 DEF Begin

LEMMA GoToTyped ==
  ASSUME job \in [Clients -> Job], NEW c \in Clients, NEW step \in Steps, GoTo(c, step)
  PROVE  job' \in [Clients -> Job]
<1>1. job[c] \in Job /\ [job[c] EXCEPT !.at = step] \in Job
  BY DEF Job
<1> QED BY <1>1 DEF GoTo

LEMMA FinishTyped ==
  ASSUME job \in [Clients -> Job], NEW c, Finish(c)
  PROVE  job' \in [Clients -> Job]
BY NoJobTyped DEF Finish

(* A rewritten body is a body. *)
LEMMA RewriteRefsTyped ==
  ASSUME TypeOK, NEW x \in live, NEW o \in Object, NEW n \in Object
  PROVE  RewriteRefs(x, o, n) \in Body
<1>1. body[x] \in Body
  BY DEF TypeOK
<1>2. (body[x].refs \ {o}) \cup {n} \in SUBSET Object
  BY <1>1 DEF Body
<1> QED BY <1>1, <1>2 DEF RewriteRefs, Body

LEMMA WithEdgeTyped ==
  ASSUME NEW b, DOMAIN b \subseteq Object, \A o \in DOMAIN b : b[o] \in Body
  PROVE  /\ DOMAIN b \subseteq DOMAIN WithEdge(b)
         /\ DOMAIN WithEdge(b) \subseteq Object
         /\ \A o \in DOMAIN b : WithEdge(b)[o] = b[o]
         /\ \A o \in DOMAIN WithEdge(b) : WithEdge(b)[o] \in Body
         /\ \A o \in DOMAIN WithEdge(b) \ DOMAIN b : WithEdge(b)[o] = NewEdge /\ o = Edge
<1>1. CASE "host" \in Kinds /\ Edge \notin DOMAIN b
  <2>1. Edge \in Object /\ NewEdge \in Body
    BY <1>1, ConstantsAssumption DEF Edge, NewEdge, Object, Body, EdgeHostID
  <2>2. WithEdge(b) = [o \in DOMAIN b \cup {Edge} |-> IF o = Edge THEN NewEdge ELSE b[o]]
    BY <1>1 DEF WithEdge
  <2> QED BY <1>1, <2>1, <2>2
<1>2. CASE ~("host" \in Kinds /\ Edge \notin DOMAIN b)
  BY <1>2 DEF WithEdge
<1> QED BY <1>1, <1>2

-----------------------------------------------------------------------------
(* Types.                                                                   *)

LEMMA TypeInit == Init => TypeOK
<1> SUFFICES ASSUME Init PROVE TypeOK
  OBVIOUS
<1> DEFINE empty == [o \in {} |-> NewEdge]
<1>1. DOMAIN empty = {} 
  OBVIOUS
<1>2. DOMAIN WithEdge(empty) \subseteq Object /\ \A o \in DOMAIN WithEdge(empty) : WithEdge(empty)[o] \in Body
  <2> HIDE DEF empty
  <2> QED BY <1>1, WithEdgeTyped
<1> QED BY <1>2, NoJobTyped DEF Init, TypeOK, live

LEMMA TypeStep == TypeOK /\ [Next]_vars => TypeOK'
<1> SUFFICES ASSUME TypeOK, [Next]_vars PROVE TypeOK'
  OBVIOUS
<1> USE DEF TypeOK, live
<1>1. ASSUME NEW c \in Clients, NEW kind \in Kinds, NEW k \in Keys,
             NEW refs \in SpecRefs[kind], NEW role \in Roles(kind),
             Create(c, kind, k, refs, role)
      PROVE  TypeOK'
  <2>1. <<kind, Slug[k]>> \in Object /\ Slug[k] \in Ids
    BY ConstantsAssumption DEF Object
  <2>2. [key |-> k, refs |-> refs, role |-> role, passwordSet |-> FALSE] \in Body
    BY SpecRefsAreObjects, RolesTyped DEF Body
  <2>3. job' \in [Clients -> Job]
    <3>1. CASE kind = "user"
      <4>1. PICK p \in Passwords : Begin(c, "put", Slug[k], Slug[k], p, TRUE)
        BY <1>1, <3>1 DEF Create
      <4> QED BY <2>1, <4>1, BeginTyped DEF Steps
    <3>2. CASE kind # "user"
      BY <1>1, <3>2 DEF Create
    <3> QED BY <3>1, <3>2
  <2> QED BY <1>1, <2>1, <2>2, <2>3 DEF Create, Insert
<1>2. ASSUME NEW c \in Clients, NEW o \in live, NEW k \in Keys,
             NEW p \in Passwords \cup {NoSecret},
             NEW refs \in SpecRefs[o[1]], NEW role \in Roles(o[1]),
             Update(c, o, k, refs, role, p)
      PROVE  TypeOK'
  <2>1. o \in Object /\ o[1] \in Kinds /\ o[2] \in Ids
    BY DEF Object
  <2>2. [body[o] EXCEPT !.key = k, !.refs = refs, !.role = role] \in Body
    <3>1. body[o] \in Body
      OBVIOUS
    <3>2. refs \in SUBSET Object
      BY <2>1, SpecRefsAreObjects
    <3>3. role \in {"edge", "worker", "-"}
      BY RolesTyped
    <3> QED BY <3>1, <3>2, <3>3 DEF Body
  <2>3. job' \in [Clients -> Job]
    BY <1>2, <2>1, BeginTyped DEF Update, Steps
  <2> QED BY <1>2, <2>1, <2>2, <2>3 DEF Update, Insert
<1>3. ASSUME NEW c \in Clients, NEW o \in live, NEW k \in Keys, Rename(c, o, k)
      PROVE  TypeOK'
  <2> DEFINE n == <<o[1], Slug[k]>>
  <2>1. o \in Object /\ o[2] \in Ids /\ n \in Object /\ n[2] = Slug[k] /\ Slug[k] \in Ids
    BY ConstantsAssumption DEF Object
  <2>2. [body[o] EXCEPT !.key = k] \in Body
    BY DEF Body
  <2>3. \A x \in live : RewriteRefs(x, o, n) \in Body
    BY <2>1, RewriteRefsTyped
  <2>4. job' \in [Clients -> Job]
    BY <1>3, <2>1, BeginTyped DEF Rename, Steps
  <2>5. body' = [x \in (live \ {o}) \cup {n} |->
                   IF x = n THEN [body[o] EXCEPT !.key = k] ELSE RewriteRefs(x, o, n)]
        /\ UNCHANGED <<secret, heartbeat>>
    BY <1>3 DEF Rename
  <2> HIDE DEF n
  <2> QED BY <2>1, <2>2, <2>3, <2>4, <2>5
<1>4. ASSUME NEW c \in Clients, NEW o \in live, NEW force \in ForceFlags, Delete(c, o, force)
      PROVE  TypeOK'
  <2>1. o[2] \in Ids
    BY DEF Object
  <2>2. job' \in [Clients -> Job]
    BY <1>4, <2>1, BeginTyped DEF Delete, Steps
  <2> QED BY <1>4, <2>2 DEF Delete, Remove
<1>5. ASSUME NEW c \in Clients, Continue(c)
      PROVE  TypeOK'
  <2>1. job[c] \in Job
    OBVIOUS
  <2>2. CASE PutSecret(c)
    BY <2>1, <2>2, GoToTyped DEF PutSecret, Job, Steps
  <2>3. CASE PutSecretFails(c)
    BY <2>3, GoToTyped, FinishTyped DEF PutSecretFails, Steps
  <2>4. CASE MarkPasswordSet(c)
    <3>1. job' \in [Clients -> Job]
      BY <2>4, GoToTyped, FinishTyped DEF MarkPasswordSet, Steps
    <3> DEFINE o == User(job[c].id)
    <3>2. CASE o \in live /\ Insert(o, [body[o] EXCEPT !.passwordSet = TRUE])
      <4>1. [body[o] EXCEPT !.passwordSet = TRUE] \in Body
        BY <3>2 DEF Body
      <4>2. UNCHANGED <<secret, heartbeat>>
        BY <2>4 DEF MarkPasswordSet
      <4> HIDE DEF o
      <4> QED BY <3>1, <3>2, <4>1, <4>2 DEF Insert
    <3>3. CASE UNCHANGED body
      BY <2>4, <3>1, <3>3 DEF MarkPasswordSet
    <3> QED BY <2>4, <3>2, <3>3 DEF MarkPasswordSet
  <2>5. CASE UndoCreateUser(c)
    BY <2>5, GoToTyped, FinishTyped DEF UndoCreateUser, Remove, Steps
  <2>6. CASE DropSecret(c)
    BY <2>1, <2>6, FinishTyped DEF DropSecret, Job
  <2>7. CASE MoveSecret(c)
    BY <2>1, <2>7, GoToTyped DEF MoveSecret, Job, Steps
  <2>8. CASE MoveSecretFails(c)
    BY <2>8, FinishTyped DEF MoveSecretFails
  <2>9. CASE DropMovedSecret(c)
    BY <2>1, <2>9, FinishTyped DEF DropMovedSecret, Job
  <2>10. CASE DropSecretFails(c)
    BY <2>10, FinishTyped DEF DropSecretFails
  <2> QED BY <1>5, <2>2, <2>3, <2>4, <2>5, <2>6, <2>7, <2>8, <2>9, <2>10 DEF Continue
<1>6. CASE EdgeMissing
  BY <1>6 DEF EdgeMissing
<1>7. CASE CreateEdge
  BY <1>7, WithEdgeTyped DEF CreateEdge
<1>8. CASE Crash
  BY <1>8, WithEdgeTyped, NoJobTyped DEF Crash
<1>9. CASE UNCHANGED vars
  BY <1>9 DEF vars
<1> QED BY <1>1, <1>2, <1>3, <1>4, <1>5, <1>6, <1>7, <1>8, <1>9 DEF Next, Request

(* TypeOK: the buckets keep their types, whatever is sent, in whatever      *)
(* order and whatever fails (Service.Create, Update, Rename, Delete,        *)
(* SetPassword, EnsureEdge, a restart).                                     *)
THEOREM TypeCorrect == Spec => []TypeOK
BY TypeInit, TypeStep, PTL DEF Spec
-----------------------------------------------------------------------------
(* What a step can do to the objects.  Every proof below goes through these *)
(* three facts about the transactions.                                      *)

(* A forced or unforced delete of t removes t and its direct referrers. *)
Deletes(t) == t \in live /\ Remove(Victims(t))
Renames(o, n) ==
  /\ o \in live /\ n \in Object /\ n \notin live /\ n[1] = o[1]
  /\ body[o].refs \subseteq live \ {o}
  /\ DOMAIN body' = (live \ {o}) \cup {n}
  /\ body'[n].refs = body[o].refs
  /\ \A x \in live \ {o} : body'[x] = RewriteRefs(x, o, n)

(* A write of o puts valid references in it and touches nothing else. *)
Writes(o) ==
  /\ DOMAIN body' = live \cup {o}
  /\ \A x \in live \ {o} : body'[x] = body[x]
  /\ body'[o].refs \subseteq live

(* Statuses and the edge host: no reference changes. *)
KeepsRefs ==
  /\ live \subseteq DOMAIN body'
  /\ \A x \in live : body'[x].refs = body[x].refs /\ body'[x].key = body[x].key
  /\ \A x \in DOMAIN body' \ live :
        x = Edge /\ body'[x].refs = {} /\ x[2] = Slug[body'[x].key]

LEMMA ContinueEffect ==
  ASSUME TypeOK, NEW c \in Clients, Continue(c)
  PROVE  KeepsRefs \/ \E u \in Ids : Deletes(User(u))
<1> DEFINE o == User(job[c].id)
<1>1. CASE UNCHANGED body
  BY <1>1 DEF KeepsRefs, live
<1>2. CASE o \in live /\ Insert(o, [body[o] EXCEPT !.passwordSet = TRUE])
  <2>1. \A x \in live : body[x] \in Body
    BY DEF TypeOK
  <2>2. DOMAIN body' = live /\ \A x \in live :
           body'[x] = IF x = o THEN [body[o] EXCEPT !.passwordSet = TRUE] ELSE body[x]
    <3> HIDE DEF o
    <3> QED BY <1>2 DEF Insert
  <2>3. [body[o] EXCEPT !.passwordSet = TRUE].refs = body[o].refs
        /\ [body[o] EXCEPT !.passwordSet = TRUE].key = body[o].key
    BY <1>2, <2>1 DEF Body
  <2> HIDE DEF o
  <2> QED BY <2>2, <2>3 DEF KeepsRefs
<1>3. CASE o \in live /\ Remove(Victims(o))
  BY <1>3 DEF Deletes, TypeOK, Job
<1> QED
  BY <1>1, <1>2, <1>3
  DEF Continue, PutSecret, PutSecretFails, MarkPasswordSet, UndoCreateUser, DropSecret,
      MoveSecret, MoveSecretFails, DropMovedSecret, DropSecretFails

LEMMA EdgeEffect ==
  ASSUME TypeOK, EdgeMissing \/ CreateEdge \/ Crash
  PROVE  KeepsRefs
<1>1. CASE body' = body
  BY <1>1 DEF KeepsRefs, live
<1>2. CASE body' = WithEdge(body)
  <2>1. CASE "host" \in Kinds /\ Edge \notin live
    <3>1. body' = [x \in live \cup {Edge} |-> IF x = Edge THEN NewEdge ELSE body[x]]
      BY <1>2, <2>1 DEF WithEdge, live
    <3>2. Edge[2] = Slug[NewEdge.key] /\ NewEdge.refs = {}
      BY <2>1, ConstantsAssumption DEF Edge, NewEdge
    <3> QED BY <2>1, <3>1, <3>2 DEF KeepsRefs
  <2>2. CASE ~("host" \in Kinds /\ Edge \notin live)
    BY <1>1, <1>2, <2>2 DEF WithEdge, live
  <2> QED BY <2>1, <2>2
<1> QED BY <1>1, <1>2 DEF EdgeMissing, CreateEdge, Crash

LEMMA RenameEffect ==
  ASSUME TypeOK, NEW c \in Clients, NEW o \in live, NEW k \in Keys, Rename(c, o, k)
  PROVE  /\ Renames(o, <<o[1], Slug[k]>>)
         /\ body'[<<o[1], Slug[k]>>].key = k
<1> DEFINE n == <<o[1], Slug[k]>>
           b == [body[o] EXCEPT !.key = k]
<1>1. n \in Object /\ n[1] = o[1] /\ n # o /\ n \notin live
  BY ConstantsAssumption DEF Rename, Object, TypeOK
<1>2. body' = [x \in (live \ {o}) \cup {n} |-> IF x = n THEN b ELSE RewriteRefs(x, o, n)]
      /\ body[o].refs \subseteq live \ {o}
  BY DEF Rename, Valid
<1>3. b.refs = body[o].refs /\ b.key = k
  BY DEF TypeOK, Body
<1> HIDE DEF n, b
<1>4. Renames(o, n) /\ body'[n].key = k
  BY <1>1, <1>2, <1>3 DEF Renames
<1> QED BY <1>4 DEF n

LEMMA CreateEffect ==
  ASSUME TypeOK, NEW c, NEW kind \in Kinds, NEW k \in Keys, NEW refs, NEW role,
         Create(c, kind, k, refs, role)
  PROVE  /\ Writes(<<kind, Slug[k]>>)
         /\ body'[<<kind, Slug[k]>>].key = k
<1> DEFINE o == <<kind, Slug[k]>>
           b == [key |-> k, refs |-> refs, role |-> role, passwordSet |-> FALSE]
<1>1. body' = [x \in live \cup {o} |-> IF x = o THEN b ELSE body[x]] /\ refs \subseteq live
  BY DEF Create, Insert, Valid
<1>2. b.refs = refs /\ b.key = k
  OBVIOUS
<1> HIDE DEF o, b
<1>3. Writes(o) /\ body'[o].key = k
  BY <1>1, <1>2 DEF Writes
<1> QED BY <1>3 DEF o

LEMMA UpdateEffect ==
  ASSUME TypeOK, NEW c, NEW o \in live, NEW k, NEW refs, NEW role, NEW p,
         Update(c, o, k, refs, role, p)
  PROVE  Writes(o) /\ body'[o].key = body[o].key
<1> DEFINE b == [body[o] EXCEPT !.key = k, !.refs = refs, !.role = role]
<1>1. body' = [x \in live \cup {o} |-> IF x = o THEN b ELSE body[x]] /\ refs \subseteq live
      /\ k = body[o].key
  BY DEF Update, Insert, Valid
<1>2. b.refs = refs /\ b.key = k
  BY DEF TypeOK, Body
<1> HIDE DEF b
<1> QED BY <1>1, <1>2 DEF Writes

(* A request goroutine, the heartbeat and a restart do nothing else. *)
LEMMA StepEffect ==
  ASSUME TypeOK, [Next]_vars
  PROVE  \/ KeepsRefs
         \/ \E o \in Object : /\ Writes(o)
                              /\ o[2] = Slug[body'[o].key] \/ (o \in live /\ body'[o].key = body[o].key)
         \/ \E o, n \in Object : Renames(o, n) /\ n[2] = Slug[body'[n].key]
         \/ \E t \in Object : /\ Deletes(t)
                              /\ t[1] = "user" \/ InboundRefs(t) = {} \/ TRUE \in ForceFlags
<1>1. ASSUME NEW c \in Clients, NEW kind \in Kinds, NEW k \in Keys,
             NEW refs \in SpecRefs[kind], NEW role \in Roles(kind),
             Create(c, kind, k, refs, role)
      PROVE  \E o \in Object : Writes(o) /\ o[2] = Slug[body'[o].key]
  <2>1. <<kind, Slug[k]>> \in Object
    BY ConstantsAssumption DEF Object
  <2> QED BY <1>1, <2>1, CreateEffect
<1>2. ASSUME NEW c \in Clients, NEW o \in live, NEW k \in Keys,
             NEW p \in Passwords \cup {NoSecret},
             NEW refs \in SpecRefs[o[1]], NEW role \in Roles(o[1]),
             Update(c, o, k, refs, role, p)
      PROVE  o \in Object /\ Writes(o) /\ o \in live /\ body'[o].key = body[o].key
  BY <1>2, UpdateEffect DEF TypeOK
<1>3. ASSUME NEW c \in Clients, NEW o \in live, NEW k \in Keys, Rename(c, o, k)
      PROVE  \E n \in Object : Renames(o, n) /\ n[2] = Slug[body'[n].key]
  <2>1. <<o[1], Slug[k]>> \in Object
    BY <1>3, RenameEffect DEF Renames
  <2> QED BY <1>3, <2>1, RenameEffect
<1>4. ASSUME NEW c \in Clients, NEW o \in live, NEW force \in ForceFlags, Delete(c, o, force)
      PROVE  Deletes(o) /\ (InboundRefs(o) = {} \/ TRUE \in ForceFlags)
  BY <1>4, ConstantsAssumption DEF Delete, Deletes
<1>5. ASSUME NEW u \in Ids, Deletes(User(u))
      PROVE  User(u) \in Object /\ User(u)[1] = "user"
  BY <1>5 DEF Deletes, User, TypeOK
<1>6. CASE UNCHANGED vars
  BY <1>6 DEF vars, KeepsRefs, live
<1>7. live \subseteq Object
  BY DEF TypeOK
<1>8. CASE \E c \in Clients : Request(c)
  BY <1>1, <1>2, <1>3, <1>4, <1>7, <1>8, ZenonT(30) DEF Request
<1>9. CASE \E c \in Clients : Continue(c)
  BY <1>5, <1>9, ContinueEffect
<1>10. CASE EdgeMissing \/ CreateEdge \/ Crash
  BY <1>10, EdgeEffect
<1> QED BY <1>6, <1>8, <1>9, <1>10 DEF Next

-----------------------------------------------------------------------------
(* IdIsSlugOfKey: creates, updates, renames and the system-made edge host   *)
(* keep every object's id the slug of its key.                              *)

THEOREM IdsFollowKeys == Spec => []IdIsSlugOfKey
<1>1. Init => IdIsSlugOfKey
  <2> SUFFICES ASSUME Init PROVE IdIsSlugOfKey
    OBVIOUS
  <2>1. \A o \in live : o = Edge /\ body[o] = NewEdge /\ "host" \in Kinds
    BY DEF Init, WithEdge, live
  <2> QED BY <2>1, ConstantsAssumption DEF IdIsSlugOfKey, Edge, NewEdge
<1>2. TypeOK /\ IdIsSlugOfKey /\ [Next]_vars => IdIsSlugOfKey'
  <2> SUFFICES ASSUME TypeOK, IdIsSlugOfKey, [Next]_vars PROVE IdIsSlugOfKey'
    OBVIOUS
  <2> USE DEF IdIsSlugOfKey, live
  <2>1. CASE KeepsRefs
    BY <2>1 DEF KeepsRefs
  <2>2. ASSUME NEW o \in Object, Writes(o),
               o[2] = Slug[body'[o].key] \/ (o \in live /\ body'[o].key = body[o].key)
        PROVE  IdIsSlugOfKey'
    BY <2>2 DEF Writes
  <2>3. ASSUME NEW o \in Object, NEW n \in Object, Renames(o, n), n[2] = Slug[body'[n].key]
        PROVE  IdIsSlugOfKey'
    <3>1. \A x \in live \ {o} : body'[x].key = body[x].key
      BY <2>3 DEF Renames, RewriteRefs, TypeOK, Body
    <3> QED BY <2>3, <3>1 DEF Renames
  <2>4. ASSUME NEW t \in Object, Deletes(t)
        PROVE  IdIsSlugOfKey'
    BY <2>4 DEF Deletes, Remove
  <2> QED BY <2>1, <2>2, <2>3, <2>4, StepEffect
<1> QED BY <1>1, <1>2, TypeCorrect, PTL DEF Spec

-----------------------------------------------------------------------------
(* Referential integrity of the schema fields.                              *)

LEMMA RewriteRefsEffect ==
  ASSUME TypeOK, NEW x \in live, NEW o, NEW n
  PROVE  /\ RewriteRefs(x, o, n).refs \subseteq body[x].refs \cup {n}
         /\ <<x[1], o[1]>> \in SchemaRefs /\ o # n => o \notin RewriteRefs(x, o, n).refs
BY DEF RewriteRefs, TypeOK, Body

(* No schema reference points to a user: deleting one cascades to nothing. *)
LEMMA UsersAreNotSchemaTargets ==
  ASSUME NEW t, t[1] = "user"
  PROVE  InboundRefs(t) = {}
BY DEF InboundRefs, SchemaRefs

(* NoDanglingSchemaRefs for every base in which no client forces a delete:  *)
(* the checks of Create, Update and Delete and the rewriting of Rename are  *)
(* enough, whatever the order of the requests and whatever fails.           *)
THEOREM UnforcedRefsResolve ==
  ASSUME ForceFlags = {FALSE}
  PROVE  Spec => []NoDanglingSchemaRefs
<1>1. Init => NoDanglingSchemaRefs
  BY DEF Init, WithEdge, live, NoDanglingSchemaRefs, SchemaDangling, NewEdge
<1>2. TypeOK /\ NoDanglingSchemaRefs /\ [Next]_vars => NoDanglingSchemaRefs'
  <2> SUFFICES ASSUME TypeOK, NoDanglingSchemaRefs, [Next]_vars,
                      NEW x \in live', NEW o \in Object, SchemaDangling(x, o)'
               PROVE  FALSE
    BY DEF NoDanglingSchemaRefs
  <2>0. /\ x \in DOMAIN body' /\ o \notin DOMAIN body'
        /\ o \in body'[x].refs /\ <<x[1], o[1]>> \in SchemaRefs
    BY DEF SchemaDangling, live
  <2>1. \A y \in live : o \in body[y].refs /\ <<y[1], o[1]>> \in SchemaRefs => o \in live
    BY DEF NoDanglingSchemaRefs, SchemaDangling
  <2>2. CASE KeepsRefs
    BY <2>0, <2>1, <2>2 DEF KeepsRefs
  <2>3. ASSUME NEW w \in Object, Writes(w)
        PROVE  FALSE
    BY <2>0, <2>1, <2>3 DEF Writes
  <2>4. ASSUME NEW w \in Object, NEW n \in Object, Renames(w, n)
        PROVE  FALSE
    <3>1. CASE x = n
      BY <2>0, <2>4, <3>1 DEF Renames
    <3>2. CASE x # n
      <4>1. x \in live \ {w} /\ body'[x] = RewriteRefs(x, w, n)
        BY <2>0, <2>4, <3>2 DEF Renames
      <4>2. o # n
        BY <2>0, <2>4 DEF Renames
      <4>3. o \in body[x].refs
        <5>1. RewriteRefs(x, w, n).refs \subseteq body[x].refs \cup {n}
          BY <4>1, RewriteRefsEffect
        <5> QED BY <2>0, <4>1, <4>2, <5>1
      <4>4. o = w
        BY <2>0, <2>1, <2>4, <4>1, <4>3 DEF Renames
      <4> QED BY <2>0, <4>1, <4>2, <4>4, RewriteRefsEffect
    <3> QED BY <3>1, <3>2
  <2>5. ASSUME NEW t \in Object, Deletes(t), t[1] = "user" \/ InboundRefs(t) = {}
        PROVE  FALSE
    <3>1. InboundRefs(t) = {}
      BY <2>5, UsersAreNotSchemaTargets
    <3>2. DOMAIN body' = live \ {t} /\ \A y \in live \ {t} : body'[y] = body[y]
      BY <2>5, <3>1 DEF Deletes, Remove, Victims
    <3>3. x \in live \ {t} /\ o \in body[x].refs /\ o = t
      BY <2>0, <2>1, <3>2
    <3> QED BY <2>0, <3>1, <3>3 DEF InboundRefs
  <2>6. TRUE \notin ForceFlags
    OBVIOUS
  <2> QED BY <2>2, <2>3, <2>4, <2>5, <2>6, StepEffect
<1> QED BY <1>1, <1>2, TypeCorrect, PTL DEF Spec

(* OnlyCascadeDangles, forced deletes included: an object that disappears   *)
(* leaves a schema reference behind only when it was swept along by the     *)
(* deletion of an object it referred to itself.                             *)
THEOREM DanglesOnlyByCascade == Spec => OnlyCascadeDangles
<1> DEFINE Swept ==
      \A o \in live \ live', x \in live' :
        /\ o \in body'[x].refs
        /\ <<x[1], o[1]>> \in SchemaRefs
        => \E t \in live \ live' : t # o /\ t \in body[o].refs
<1>1. TypeOK /\ [Next]_vars => [Swept]_vars
  <2> SUFFICES ASSUME TypeOK, [Next]_vars,
                      NEW o \in live \ live', NEW x \in live',
                      o \in body'[x].refs, <<x[1], o[1]>> \in SchemaRefs
               PROVE  \E t \in live \ live' : t # o /\ t \in body[o].refs
    OBVIOUS
  <2>0. x \in DOMAIN body' /\ o \notin DOMAIN body' /\ o \in live
    BY DEF live
  <2>1. CASE KeepsRefs
    BY <2>0, <2>1 DEF KeepsRefs
  <2>2. ASSUME NEW w \in Object, Writes(w)
        PROVE  FALSE
    BY <2>0, <2>2 DEF Writes
  <2>3. ASSUME NEW w \in Object, NEW n \in Object, Renames(w, n)
        PROVE  FALSE
    <3>1. o = w /\ o # n
      BY <2>0, <2>3 DEF Renames
    <3>2. CASE x = n
      BY <2>3, <3>1, <3>2 DEF Renames
    <3>3. CASE x # n
      BY <2>0, <2>3, <3>1, <3>3, RewriteRefsEffect DEF Renames
    <3> QED BY <3>2, <3>3
  <2>4. ASSUME NEW t \in Object, Deletes(t)
        PROVE  t \in live \ live' /\ t # o /\ t \in body[o].refs
    <3>1. /\ DOMAIN body' = live \ Victims(t)
          /\ \A y \in live \ Victims(t) : body'[y] = body[y]
          /\ t \in live /\ t \in Victims(t)
      BY <2>4 DEF Deletes, Remove, Victims
    <3>2. o \in Victims(t) /\ x \in live \ Victims(t) /\ body'[x] = body[x]
      BY <2>0, <3>1
    <3>3. o # t
      BY <3>2 DEF Victims, InboundRefs
    <3>4. o \in InboundRefs(t)
      BY <3>2, <3>3 DEF Victims
    <3> QED BY <3>1, <3>3, <3>4 DEF InboundRefs, live
  <2> QED BY <2>1, <2>2, <2>3, <2>4, StepEffect
<1> QED BY <1>1, TypeCorrect, PTL DEF Spec, OnlyCascadeDangles

-----------------------------------------------------------------------------
(* Secrets match users.  While requests came one at a time and nothing      *)
(* failed, the one request under way knows whose secret it still has to     *)
(* bring in line: every other id matches.                                   *)

Match(u) == secret[u] # NoSecret <=> User(u) \in live /\ body[User(u)].passwordSet

InHand(c) ==
  LET u == job[c].id
      n == job[c].to
      at == job[c].at
  IN /\ \A v \in Ids \ {u, n} : Match(v)
     /\ at \in {"put", "mark"} => n = u /\ User(u) \in live /\ job[c].pw # NoSecret
     /\ at = "mark" => secret[u] # NoSecret
     /\ at = "drop" => n = u /\ User(u) \notin live
     /\ at \in {"move", "unmove"} =>
          /\ u # n /\ User(u) \notin live /\ User(n) \in live
          /\ body[User(n)].passwordSet /\ job[c].pw # NoSecret
     /\ at = "unmove" => secret[n] # NoSecret
     /\ at # "undo"

OneRequest == \A c, d \in Clients : ~Idle(c) /\ ~Idle(d) => c = d
Held ==
  /\ OneRequest
  /\ Quiet => \A u \in Ids : Match(u)
  /\ \A c \in Clients : ~Idle(c) => InHand(c)

(* The users of the base, as far as their secrets are concerned, but for   *)
(* those in S.                                                             *)
KeepsUsers(S) ==
  \A u \in Ids \ S : /\ User(u) \in live' <=> User(u) \in live
                     /\ User(u) \in live => body'[User(u)].passwordSet = body[User(u)].passwordSet

LEMMA UserFacts ==
  /\ \A u, v : User(u) = User(v) <=> u = v
  /\ \A u : User(u) # Edge
  /\ \A o \in Object : o[1] = "user" => o = User(o[2]) /\ o[2] \in Ids
  /\ \A o, u : o \in Object /\ o = User(u) => o[1] = "user" /\ o[2] = u
  /\ \A u : User(u)[1] = "user" /\ User(u)[2] = u
  /\ \A o : <<"user", o>> \notin SchemaRefs
BY DEF User, Edge, Object, SchemaRefs

LEMMA MatchKept ==
  ASSUME NEW S, KeepsUsers(S), NEW u \in Ids \ S, secret'[u] = secret[u]
  PROVE  Match(u) <=> Match(u)'
BY DEF KeepsUsers, Match

(* A step that is none of a user's leaves all as it is. *)
LEMMA StillHeld ==
  ASSUME TypeOK, Held, KeepsUsers({}), UNCHANGED <<job, secret>>
  PROVE  Held'
<1>1. \A u \in Ids : Match(u) <=> Match(u)'
  BY MatchKept
<1>2. \A c \in Clients : Idle(c)' <=> Idle(c)
  BY DEF Idle
<1>3. ASSUME TRUE, NEW c \in Clients, ~Idle(c) PROVE InHand(c)'
  <2>1. InHand(c)
    BY <1>3 DEF Held
  <2>2. \A u \in Ids : /\ User(u) \in live' <=> User(u) \in live
                       /\ User(u) \in live => body'[User(u)].passwordSet = body[User(u)].passwordSet
    BY DEF KeepsUsers
  <2>3. job[c].id \in Ids /\ job[c].to \in Ids
    BY DEF TypeOK, Job
  <2> QED BY <1>1, <2>1, <2>2, <2>3 DEF InHand
<1> QED BY <1>1, <1>2, <1>3 DEF Held, OneRequest, Quiet

(* A request's first step, taken while no other request is under way: what *)
(* it leaves to do concerns the ids of its job only.                       *)
LEMMA RequestHeld ==
  ASSUME TypeOK, Held, Quiet, NEW c \in Clients, NEW j \in Job, j.at # "idle",
         job' = [job EXCEPT ![c] = j], secret' = secret, InHand(c)'
  PROVE  Held'
<1>1. job'[c] = j /\ \A d \in Clients : d # c => job'[d] = job[d]
  BY DEF TypeOK
<1>2. \A d \in Clients : ~Idle(d)' => d = c
  BY <1>1 DEF Quiet, Idle
<1>3. OneRequest'
  BY <1>2 DEF OneRequest
<1>4. ~Quiet'
  BY <1>1 DEF Quiet, Idle
<1> QED BY <1>2, <1>3, <1>4 DEF Held

LEMMA RequestsHold ==
  ASSUME TypeOK, Held, Quiet, NEW c \in Clients, Request(c)
  PROVE  Held'
<1>0. /\ \A u \in Ids : Match(u)
      /\ live \subseteq Object /\ \A o \in live : body[o] \in Body
      /\ job \in [Clients -> Job] /\ secret \in [Ids -> Passwords \cup {NoSecret}]
      /\ live = DOMAIN body /\ live' = DOMAIN body' /\ NoSecret \notin Passwords
  BY ConstantsAssumption DEF Held, TypeOK, live
<1>1. ASSUME NEW kind \in Kinds, NEW k \in Keys, NEW refs \in SpecRefs[kind],
             NEW role \in Roles(kind), Create(c, kind, k, refs, role)
      PROVE  Held'
  <2> DEFINE o == <<kind, Slug[k]>>
             b == [key |-> k, refs |-> refs, role |-> role, passwordSet |-> FALSE]
  <2>1. o \notin live /\ secret' = secret /\ o \in Object /\ Slug[k] \in Ids
        /\ body' = [x \in live \cup {o} |-> IF x = o THEN b ELSE body[x]]
    BY <1>1, ConstantsAssumption DEF Create, Insert, Object
  <2>2. KeepsUsers({Slug[k]})
    BY <1>0, <2>1, UserFacts DEF KeepsUsers
  <2>3. CASE kind = "user"
    <3>1. PICK p \in Passwords : Begin(c, "put", Slug[k], Slug[k], p, TRUE)
      BY <1>1, <2>3 DEF Create
    <3> DEFINE j == [at |-> "put", id |-> Slug[k], to |-> Slug[k], pw |-> p, new |-> TRUE]
    <3>2. j \in Job /\ job' = [job EXCEPT ![c] = j] /\ job'[c] = j
      BY <1>0, <2>1, <3>1 DEF Begin, Job, Steps
    <3>3. User(Slug[k]) \in live'
      BY <1>0, <2>1, <2>3 DEF User
    <3>4. \A v \in Ids \ {Slug[k]} : Match(v)'
      BY <1>0, <2>1, <2>2, MatchKept
    <3>5. InHand(c)'
      BY <1>0, <3>2, <3>3, <3>4 DEF InHand
    <3> QED BY <2>1, <3>2, <3>5, RequestHeld
  <2>4. CASE kind # "user"
    <3>1. KeepsUsers({})
      <4>1. \A u : User(u) # o
        BY <2>4 DEF User
      <4> QED BY <1>0, <2>1, <4>1 DEF KeepsUsers
    <3> QED BY <1>1, <2>1, <2>4, <3>1, StillHeld DEF Create
  <2> QED BY <2>3, <2>4
<1>2. ASSUME NEW o \in live, NEW k \in Keys, NEW p \in Passwords \cup {NoSecret},
             NEW refs \in SpecRefs[o[1]], NEW role \in Roles(o[1]),
             Update(c, o, k, refs, role, p)
      PROVE  Held'
  <2> DEFINE b == [body[o] EXCEPT !.key = k, !.refs = refs, !.role = role]
  <2>1. secret' = secret /\ o \in Object /\ o[2] \in Ids
        /\ body' = [x \in live \cup {o} |-> IF x = o THEN b ELSE body[x]]
    BY <1>0, <1>2 DEF Update, Insert, Object
  <2>2. b.passwordSet = body[o].passwordSet
    BY <1>0 DEF Body
  <2>3. KeepsUsers({})
    <3> HIDE DEF b
    <3> QED BY <1>0, <2>1, <2>2 DEF KeepsUsers
  <2>4. CASE o[1] = "user" /\ p # NoSecret
    <3> DEFINE j == [at |-> "put", id |-> o[2], to |-> o[2], pw |-> p, new |-> FALSE]
    <3>1. j \in Job /\ job' = [job EXCEPT ![c] = j] /\ job'[c] = j
      BY <1>0, <1>2, <2>1, <2>4 DEF Update, Begin, Job, Steps
    <3>2. User(o[2]) \in live'
      BY <1>0, <2>1, <2>4, UserFacts
    <3>3. \A v \in Ids : Match(v)'
      BY <1>0, <2>1, <2>3, MatchKept
    <3>4. InHand(c)'
      BY <2>4, <3>1, <3>2, <3>3 DEF InHand
    <3> QED BY <2>1, <3>1, <3>4, RequestHeld
  <2>5. CASE ~(o[1] = "user" /\ p # NoSecret)
    BY <1>2, <2>1, <2>3, <2>5, StillHeld DEF Update
  <2> QED BY <2>4, <2>5
<1>3. ASSUME NEW o \in live, NEW k \in Keys, Rename(c, o, k)
      PROVE  Held'
  <2> DEFINE n == <<o[1], Slug[k]>>
             pw == IF o[1] = "user" THEN secret[o[2]] ELSE NoSecret
  <2>1. /\ secret' = secret /\ o \in Object /\ o[2] \in Ids /\ Slug[k] \in Ids
        /\ n # o /\ n \notin live
        /\ body' = [x \in (live \ {o}) \cup {n} |->
                      IF x = n THEN [body[o] EXCEPT !.key = k] ELSE RewriteRefs(x, o, n)]
        /\ IF pw # NoSecret THEN Begin(c, "move", o[2], n[2], pw, FALSE) ELSE UNCHANGED job
    BY <1>0, <1>3, ConstantsAssumption DEF Rename, Object
  <2>2. \A x \in live : RewriteRefs(x, o, n).passwordSet = body[x].passwordSet
    BY <1>0 DEF RewriteRefs, Body
  <2>3. [body[o] EXCEPT !.key = k].passwordSet = body[o].passwordSet
    BY <1>0 DEF Body
  <2>4. /\ live' = (live \ {o}) \cup {n}
        /\ \A x \in live \ {o} : x # n /\ body'[x].passwordSet = body[x].passwordSet
        /\ body'[n].passwordSet = body[o].passwordSet
    BY <1>0, <2>1, <2>2, <2>3
  <2>5. n[1] = o[1] /\ n[2] = Slug[k]
    OBVIOUS
  <2> HIDE DEF n
  <2>6. CASE o[1] = "user"
    <3>1. o = User(o[2]) /\ n = User(Slug[k]) /\ o[2] # Slug[k]
      BY <2>1, <2>6, UserFacts DEF n, User
    <3>2. KeepsUsers({o[2], Slug[k]})
      BY <2>4, <3>1, UserFacts DEF KeepsUsers
    <3>3. \A v \in Ids \ {o[2], Slug[k]} : Match(v)'
      BY <1>0, <2>1, <3>2, MatchKept
    <3>4. Match(o[2]) /\ User(o[2]) \in live /\ pw = secret[o[2]]
      BY <1>0, <2>1, <2>6, <3>1
    <3>5. CASE pw # NoSecret
      <4> DEFINE j == [at |-> "move", id |-> o[2], to |-> Slug[k], pw |-> secret[o[2]], new |-> FALSE]
      <4>1. j \in Job /\ job' = [job EXCEPT ![c] = j] /\ job'[c] = j
        BY <1>0, <2>1, <2>5, <3>4, <3>5 DEF Begin, Job, Steps
      <4>2. /\ User(o[2]) \notin live' /\ User(Slug[k]) \in live'
            /\ body'[User(Slug[k])].passwordSet
        BY <2>1, <2>4, <3>1, <3>4, <3>5 DEF Match
      <4>3. InHand(c)'
        BY <3>1, <3>3, <3>4, <3>5, <4>1, <4>2 DEF InHand
      <4> QED BY <2>1, <4>1, <4>3, RequestHeld
    <3>6. CASE pw = NoSecret
      <4>1. job' = job /\ ~body[o].passwordSet /\ secret[o[2]] = NoSecret
        BY <2>1, <3>1, <3>4, <3>6 DEF Match
      <4>2. secret[Slug[k]] = NoSecret
        BY <1>0, <2>1, <3>1 DEF Match
      <4>3. Match(o[2])' /\ Match(Slug[k])'
        BY <2>1, <2>4, <3>1, <4>1, <4>2 DEF Match
      <4>4. \A v \in Ids : Match(v)'
        BY <3>3, <4>3
      <4>5. Quiet' /\ \A d \in Clients : Idle(d)'
        BY <4>1 DEF Quiet, Idle
      <4> QED BY <4>4, <4>5 DEF Held, OneRequest
    <3> QED BY <3>5, <3>6
  <2>7. CASE o[1] # "user"
    <3>1. KeepsUsers({})
      <4>1. \A u : User(u) # o /\ User(u) # n
        BY <2>5, <2>7, UserFacts
      <4> QED BY <2>4, <4>1 DEF KeepsUsers
    <3> QED BY <2>1, <2>7, <3>1, StillHeld
  <2> QED BY <2>6, <2>7
<1>4. ASSUME NEW o \in live, NEW force \in ForceFlags, Delete(c, o, force)
      PROVE  Held'
  <2>1. /\ secret' = secret /\ o \in Object /\ o[2] \in Ids
        /\ body' = [x \in live \ Victims(o) |-> body[x]]
        /\ IF o[1] = "user" THEN Begin(c, "drop", o[2], o[2], NoSecret, FALSE)
                            ELSE UNCHANGED job
    BY <1>0, <1>4 DEF Delete, Remove, Object
  <2>2. \A u : User(u) \in Victims(o) => User(u) = o
    BY UserFacts DEF Victims, InboundRefs
  <2>3. live' = live \ Victims(o) /\ \A x \in live' : body'[x] = body[x]
    BY <1>0, <2>1
  <2>4. CASE o[1] = "user"
    <3> DEFINE j == [at |-> "drop", id |-> o[2], to |-> o[2], pw |-> NoSecret, new |-> FALSE]
    <3>1. j \in Job /\ job' = [job EXCEPT ![c] = j] /\ job'[c] = j
      BY <1>0, <2>1, <2>4 DEF Begin, Job, Steps
    <3>2. o = User(o[2]) /\ User(o[2]) \notin live'
      BY <2>1, <2>3, <2>4, UserFacts DEF Victims
    <3>3. KeepsUsers({o[2]})
      BY <2>2, <2>3, <3>2, UserFacts DEF KeepsUsers
    <3>4. \A v \in Ids \ {o[2]} : Match(v)'
      BY <1>0, <2>1, <3>3, MatchKept
    <3>5. InHand(c)'
      BY <3>1, <3>2, <3>4 DEF InHand
    <3> QED BY <2>1, <3>1, <3>5, RequestHeld
  <2>5. CASE o[1] # "user"
    <3>1. KeepsUsers({})
      BY <2>2, <2>3, <2>5, UserFacts DEF KeepsUsers
    <3> QED BY <2>1, <2>5, <3>1, StillHeld
  <2> QED BY <2>4, <2>5
<1> QED BY <1>1, <1>2, <1>3, <1>4 DEF Request

(* The last step of a request: every id is in line again. *)
LEMMA FinishedHeld ==
  ASSUME TypeOK, Held, NEW c \in Clients, ~Idle(c), Finish(c), \A u \in Ids : Match(u)'
  PROVE  Held'
<1>1. job'[c].at = "idle" /\ \A d \in Clients : d # c => job'[d] = job[d]
  BY DEF Finish, TypeOK, NoJob
<1>2. \A d \in Clients : Idle(d)'
  BY <1>1 DEF Held, OneRequest, Idle
<1> QED BY <1>2 DEF Held, OneRequest, Quiet

(* A step of a request that goes on. *)
LEMMA GoneOnHeld ==
  ASSUME TypeOK, Held, NEW c \in Clients, ~Idle(c), NEW step \in Steps, step # "idle",
         GoTo(c, step), InHand(c)'
  PROVE  Held'
<1>1. job'[c].at = step /\ \A d \in Clients : d # c => job'[d] = job[d]
  BY DEF GoTo, TypeOK, Job
<1>2. \A d \in Clients : ~Idle(d)' => d = c
  BY <1>1 DEF Held, OneRequest, Idle
<1>3. ~Quiet'
  BY <1>1 DEF Quiet, Idle
<1> QED BY <1>2, <1>3 DEF Held, OneRequest

LEMMA ContinueHolds ==
  ASSUME TypeOK, Held, NEW c \in Clients, Continue(c), ~PutSecretFails(c), ~MoveSecretFails(c),
         ~DropSecretFails(c)
  PROVE  Held'
<1>a. job[c] \in Job
  BY DEF TypeOK
<1>b. PICK u \in Ids, n \in Ids : u = job[c].id /\ n = job[c].to
  BY <1>a DEF Job
<1>0. /\ live \subseteq Object /\ \A o \in live : body[o] \in Body
      /\ job \in [Clients -> Job] /\ secret \in [Ids -> Passwords \cup {NoSecret}]
      /\ live = DOMAIN body /\ live' = DOMAIN body'
  BY DEF TypeOK, live, Job
<1>1. ~Idle(c) /\ InHand(c)
  <2>1. ~Idle(c)
    BY DEF Continue, Idle, PutSecret, MarkPasswordSet, UndoCreateUser, DropSecret, MoveSecret,
           DropMovedSecret
  <2> QED BY <2>1 DEF Held
<1>2. ASSUME body' = body PROVE KeepsUsers({})
  BY <1>0, <1>2 DEF KeepsUsers
<1>3. CASE PutSecret(c)
  <2>1. /\ job[c].at = "put" /\ body' = body /\ GoTo(c, "mark")
        /\ secret' = [secret EXCEPT ![u] = job[c].pw]
    BY <1>3, <1>b DEF PutSecret
  <2>2. n = u /\ User(u) \in live /\ job[c].pw # NoSecret /\ \A v \in Ids \ {u, n} : Match(v)
    BY <1>1, <1>b, <2>1 DEF InHand
  <2>3. job'[c].at = "mark" /\ job'[c].id = u /\ job'[c].to = n /\ job'[c].pw = job[c].pw
    BY <1>0, <1>b, <2>1 DEF GoTo, Job
  <2>4. \A v \in Ids \ {u, n} : Match(v)'
    BY <1>0, <1>2, <2>1, <2>2, MatchKept
  <2>5. InHand(c)'
    BY <1>0, <2>1, <2>2, <2>3, <2>4 DEF InHand
  <2> QED BY <1>1, <2>1, <2>5, GoneOnHeld DEF Steps
<1>4. CASE MarkPasswordSet(c)
  <2> DEFINE o == User(u)
  <2>1. /\ job[c].at = "mark" /\ secret' = secret /\ n = u /\ o \in live /\ secret[u] # NoSecret
        /\ \A v \in Ids \ {u} : Match(v)
    BY <1>1, <1>4, <1>b DEF MarkPasswordSet, InHand
  <2>2. Finish(c) /\ body' = [x \in live \cup {o} |->
                       IF x = o THEN [body[o] EXCEPT !.passwordSet = TRUE] ELSE body[x]]
    BY <1>4, <1>b, <2>1 DEF MarkPasswordSet, Insert
  <2>3. [body[o] EXCEPT !.passwordSet = TRUE].passwordSet
    BY <1>0, <2>1 DEF Body
  <2>4. /\ live' = live /\ body'[o].passwordSet
        /\ \A x \in live : x # o => body'[x] = body[x]
    BY <1>0, <2>1, <2>2, <2>3
  <2>5. KeepsUsers({u})
    BY <2>4, UserFacts DEF KeepsUsers
  <2>6. \A v \in Ids \ {u} : Match(v)'
    BY <2>1, <2>5, MatchKept
  <2>7. Match(u)'
    BY <2>1, <2>4 DEF Match
  <2> QED BY <1>1, <2>2, <2>6, <2>7, FinishedHeld
<1>5. CASE UndoCreateUser(c)
  BY <1>1, <1>5 DEF UndoCreateUser, InHand
<1>6. CASE DropSecret(c)
  <2>1. /\ body' = body /\ Finish(c) /\ secret' = [secret EXCEPT ![u] = NoSecret]
        /\ n = u /\ User(u) \notin live /\ \A v \in Ids \ {u} : Match(v)
    BY <1>1, <1>6, <1>b DEF DropSecret, InHand
  <2>2. \A v \in Ids \ {u} : Match(v)'
    BY <1>0, <1>2, <2>1, MatchKept
  <2>3. Match(u)'
    BY <1>0, <2>1 DEF Match
  <2> QED BY <1>1, <2>1, <2>2, <2>3, FinishedHeld
<1>7. CASE MoveSecret(c)
  <2>1. /\ job[c].at = "move" /\ body' = body /\ GoTo(c, "unmove")
        /\ secret' = [secret EXCEPT ![n] = job[c].pw]
        /\ u # n /\ User(u) \notin live /\ User(n) \in live
        /\ body[User(n)].passwordSet /\ job[c].pw # NoSecret
        /\ \A v \in Ids \ {u, n} : Match(v)
    BY <1>1, <1>7, <1>b DEF MoveSecret, InHand
  <2>2. job'[c].at = "unmove" /\ job'[c].id = u /\ job'[c].to = n /\ job'[c].pw = job[c].pw
    BY <1>0, <1>b, <2>1 DEF GoTo, Job
  <2>3. \A v \in Ids \ {u, n} : Match(v)'
    BY <1>0, <1>2, <2>1, MatchKept
  <2>4. secret'[n] # NoSecret
    BY <1>0, <2>1
  <2>5. InHand(c)'
    BY <1>0, <2>1, <2>2, <2>3, <2>4 DEF InHand
  <2> QED BY <1>1, <2>1, <2>5, GoneOnHeld DEF Steps
<1>8. CASE DropMovedSecret(c)
  <2>1. /\ job[c].at = "unmove" /\ body' = body /\ Finish(c)
        /\ secret' = [secret EXCEPT ![u] = NoSecret]
        /\ u # n /\ User(u) \notin live /\ User(n) \in live
        /\ body[User(n)].passwordSet /\ secret[n] # NoSecret
        /\ \A v \in Ids \ {u, n} : Match(v)
    BY <1>1, <1>8, <1>b DEF DropMovedSecret, InHand
  <2>2. \A v \in Ids \ {u, n} : Match(v)'
    BY <1>0, <1>2, <2>1, MatchKept
  <2>3. Match(u)' /\ Match(n)'
    BY <1>0, <2>1 DEF Match
  <2> QED BY <1>1, <2>1, <2>2, <2>3, FinishedHeld
<1> QED BY <1>3, <1>4, <1>5, <1>6, <1>7, <1>8 DEF Continue

(* EnsureEdge makes a host, and no user. *)
LEMMA EdgeKeepsUsers ==
  ASSUME TypeOK, body' = WithEdge(body)
  PROVE  KeepsUsers({})
<1>1. /\ live \subseteq DOMAIN WithEdge(body)
      /\ \A o \in live : WithEdge(body)[o] = body[o]
      /\ \A o \in DOMAIN WithEdge(body) \ live : o = Edge
  BY WithEdgeTyped DEF TypeOK, live
<1>2. live' = DOMAIN WithEdge(body)
  BY DEF live
<1> QED BY <1>1, <1>2, UserFacts DEF KeepsUsers

(* The behaviours about references know no users; requests change calm only *)
(* in the others.                                                           *)
NoUsers ==
  /\ part = "references" => Quiet /\ \A u \in Ids : User(u) \notin live /\ secret[u] = NoSecret
CalmHeld == NoUsers /\ (calm => Held)

LEMMA NothingFaultsQuietly ==
  ASSUME TypeOK, Held, Crash, \A c \in Clients : Idle(c)
  PROVE  Held'
<1>1. KeepsUsers({}) /\ secret' = secret
  BY EdgeKeepsUsers DEF Crash
<1>2. \A c \in Clients : Idle(c)'
  BY DEF Crash, Idle, NoJob
<1>3. \A u \in Ids : Match(u)'
  BY <1>1, MatchKept DEF Held, Quiet
<1> QED BY <1>2, <1>3 DEF Held, OneRequest, Quiet

LEMMA CalmStep == TypeOK /\ CalmHeld /\ [MCNext]_mcvars => CalmHeld'
<1> SUFFICES ASSUME TypeOK, CalmHeld, [MCNext]_mcvars PROVE CalmHeld'
  OBVIOUS
<1>1. ASSUME part = "references", NEW c \in Clients, Request(c), UNCHANGED <<part, calm>>,
             \A o \in DOMAIN body' : o[1] \in KindsOf[part] \/ o = Edge
      PROVE  CalmHeld'
  <2>0. KindsOf["references"] = {"dns-credential", "domain", "route"}
    BY DEF KindsOf
  <2>1. /\ Quiet /\ \A u \in Ids : User(u) \notin live /\ secret[u] = NoSecret
        /\ live \subseteq Object /\ live' = DOMAIN body'
    BY <1>1 DEF CalmHeld, NoUsers, TypeOK, live
  <2>2. \A u : User(u) \notin live'
    BY <1>1, <2>0, <2>1, UserFacts
  <2>3. \A o \in live : o[1] # "user"
    BY <2>1, UserFacts
  <2>4. job' = job /\ secret' = secret
    <3>1. ASSUME NEW kind \in Kinds, NEW k \in Keys, NEW refs \in SpecRefs[kind],
                 NEW role \in Roles(kind), Create(c, kind, k, refs, role)
          PROVE  job' = job /\ secret' = secret
      <4>1. <<kind, Slug[k]>> \in live'
        BY <2>1, <3>1 DEF Create, Insert
      <4>2. kind # "user"
        BY <2>2, <4>1 DEF User
      <4> QED BY <3>1, <4>2 DEF Create
    <3>2. ASSUME NEW o \in live, NEW k \in Keys, Rename(c, o, k)
          PROVE  job' = job /\ secret' = secret
      BY <2>3, <3>2 DEF Rename
    <3> QED BY <1>1, <2>3, <3>1, <3>2 DEF Request, Update, Delete
  <2>5. NoUsers'
    BY <2>1, <2>2, <2>4 DEF NoUsers, Quiet, Idle
  <2>6. KeepsUsers({})
    BY <2>1, <2>2 DEF KeepsUsers
  <2> QED BY <1>1, <2>4, <2>5, <2>6, StillHeld DEF CalmHeld
<1>2. ASSUME part # "references", UNCHANGED part,
             \/ \E c \in Clients : Request(c) /\ (calm' = (calm /\ \A d \in Clients : Idle(d)))
             \/ /\ (\E c \in Clients : Continue(c)) \/ EdgeMissing \/ CreateEdge \/ Crash
                /\ calm' = (calm /\ ~Fault)
      PROVE  CalmHeld'
  <2>0. NoUsers'
    BY <1>2 DEF NoUsers
  <2> SUFFICES ASSUME calm' PROVE Held'
    BY <2>0 DEF CalmHeld
  <2>1. calm /\ Held
    BY <1>2 DEF CalmHeld
  <2>2. ASSUME NEW c \in Clients, Request(c), \A d \in Clients : Idle(d)
        PROVE  Held'
    BY <2>1, <2>2, RequestsHold DEF Quiet
  <2>3. ASSUME NEW c \in Clients, Continue(c), ~Fault PROVE Held'
    BY <2>1, <2>3, ContinueHolds DEF Fault
  <2>4. CASE EdgeMissing
    <3>1. KeepsUsers({})
      BY <2>4 DEF EdgeMissing, KeepsUsers, live
    <3> QED BY <2>1, <2>4, <3>1, StillHeld DEF EdgeMissing
  <2>5. CASE CreateEdge
    BY <2>1, <2>5, EdgeKeepsUsers, StillHeld DEF CreateEdge
  <2>6. ASSUME Crash, ~Fault PROVE Held'
    BY <2>1, <2>6, NothingFaultsQuietly DEF Fault
  <2> QED BY <1>2, <2>2, <2>3, <2>4, <2>5, <2>6
<1>3. CASE UNCHANGED mcvars
  <2>1. KeepsUsers({}) /\ UNCHANGED <<job, secret, body, part, calm>>
    BY <1>3 DEF mcvars, vars, KeepsUsers, live
  <2>2. NoUsers'
    BY <2>1 DEF NoUsers, CalmHeld, Quiet, Idle, live
  <2> QED BY <2>1, <2>2, StillHeld DEF CalmHeld
<1>4. CASE MCNext
  <2>1. CASE /\ part = "references"
             /\ \E c \in Clients : Request(c)
             /\ \A o \in DOMAIN body' : o[1] \in KindsOf[part] \/ o = Edge
             /\ UNCHANGED <<part, calm>>
    BY <1>1, <2>1
  <2>2. CASE /\ part = "accounts"
             /\ \/ /\ \E c \in Clients : Request(c)
                   /\ calm' = (calm /\ \A c \in Clients : Idle(c))
                \/ /\ (\E c \in Clients : Continue(c)) \/ EdgeMissing \/ CreateEdge \/ Crash
                   /\ calm' = (calm /\ ~Fault)
             /\ UNCHANGED part
    BY <1>2, <2>2
  <2> QED BY <1>4, <2>1, <2>2 DEF MCNext
<1> QED BY <1>3, <1>4

LEMMA CalmInit ==
  ASSUME Init, calm
  PROVE  CalmHeld
<1>1. live \subseteq {Edge} /\ job = [c \in Clients |-> NoJob] /\ \A u \in Ids : secret[u] = NoSecret
  BY DEF Init, WithEdge, live
<1>2. \A u : User(u) \notin live
  BY <1>1, UserFacts
<1>3. \A c \in Clients : Idle(c)
  BY <1>1 DEF Idle, NoJob
<1> QED BY <1>1, <1>2, <1>3 DEF CalmHeld, NoUsers, Held, OneRequest, Quiet, Match

LEMMA HeldMatches == CalmHeld => CalmSecretsMatchUsers
BY DEF CalmHeld, Held, Match, CalmSecretsMatchUsers, SecretsMatchUsers

LEMMA MCImplements == MCSpec => Spec
<1>1. MCInit => Init
  BY DEF MCInit
<1>2. [MCNext]_mcvars => [Next]_vars
  <2>1. ASSUME MCNext PROVE Next
    BY <2>1 DEF MCNext, Next
  <2> QED BY <2>1 DEF mcvars
<1> QED BY <1>1, <1>2, PTL DEF MCSpec, Spec

(* CalmSecretsMatchUsers: for all ids, keys, passwords and clients, with    *)
(* heartbeats and restarts between requests, a password hash is stored      *)
(* exactly for the users whose status says so whenever no request is under  *)
(* way, as long as requests came one at a time and no secret write failed   *)
(* (CreateUser, SetPassword, Rename, Delete).                               *)
THEOREM CalmSecretsMatch == MCSpec => []CalmSecretsMatchUsers
<1>1. MCInit => CalmHeld
  BY CalmInit DEF MCInit
<1> QED BY <1>1, CalmStep, HeldMatches, MCImplements, TypeCorrect, PTL DEF MCSpec

-----------------------------------------------------------------------------
(* The parts beside the objects. *)

(* A step of any part is a step of the store, of the daemon's file and of
   gatebox.conf, or leaves them alone. *)
LEMMA PartsStep ==
  [AllNext]_<<part, objects, migrating, opened, daemonfile, conffile>> =>
    [Opened!Next]_opened /\ [Daemon!Next]_daemonfile /\ [Conf!Next]_conffile
BY DEF AllNext

-----------------------------------------------------------------------------
(* The key, its file and the process have values of their types. *)
TypeOfProcess ==
    /\ proc \in [at : {"down", "key", "write", "migrate", "up"}, key : Int]
    /\ keyFile \in Int
    /\ made \in Nat
    /\ proc.at = "write" => proc.key # Opened!NoFile

LEMMA ProcessTyped == TypeOfProcess /\ [Opened!Next]_opened => TypeOfProcess'
<1> SUFFICES ASSUME TypeOfProcess, [Opened!Next]_opened
             PROVE  TypeOfProcess'
  OBVIOUS
<1> USE DEF TypeOfProcess, Opened!NoFile, Opened!Blank
<1>1. CASE \/ Opened!Open \/ Opened!LoadKey \/ Opened!CreateKey \/ Opened!WriteKey
           \/ Opened!WriteKeyFails \/ Opened!MigrateVariables \/ Opened!Crash
  BY <1>1 DEF Opened!Open, Opened!LoadKey, Opened!CreateKey, Opened!WriteKey,
     Opened!WriteKeyFails, Opened!MigrateVariables, Opened!Crash, Opened!Failed
<1>2. CASE UNCHANGED <<proc, keyFile, made>>
  BY <1>2
<1>3. CASE Opened!ClearVariableMigration \/ UNCHANGED opened
  BY <1>3, <1>2 DEF Opened!ClearVariableMigration, opened
<1>4. ASSUME NEW i \in Registries,
             \/ \E s \in Secrets : Opened!CreateRegistry(i, s)
             \/ Opened!DeleteRegistry(i)
             \/ \E c \in Clients, s \in Secrets \union {NoValue} : Opened!UpdateRegistry(c, i, s)
      PROVE  TypeOfProcess'
  BY <1>4, <1>2 DEF Opened!CreateRegistry, Opened!DeleteRegistry, Opened!UpdateRegistry
<1>5. ASSUME NEW c \in Clients, Opened!SaveRegistry(c)
      PROVE  TypeOfProcess'
  BY <1>5, <1>2 DEF Opened!SaveRegistry
<1>6. ASSUME NEW k \in Opened!AllNames,
             Opened!DeleteVariable(k) \/ \E v \in VariableValues : Opened!CreateVariable(k,
             v) \/ Opened!UpdateVariable(k, v)
      PROVE  TypeOfProcess'
  BY <1>6, <1>2 DEF Opened!CreateVariable, Opened!UpdateVariable, Opened!DeleteVariable,
     Opened!Write
<1> QED
  BY <1>1, <1>3, <1>4, <1>5, <1>6 DEF Opened!Next

(* Who has written what, and that nobody is served before the move is over. *)
Moving ==
    /\ proc.at = "up" => meta.migrated
    /\ ~meta.migrated => /\ \A k \in Opened!AllNames : wish[k] = NotTouched
                         /\ cleared = {}
TypeOfVariables ==
    /\ variables \in [Opened!AllNames -> VariableValues \union {NoValue}]
    /\ moved \in [Opened!AllNames -> VariableValues \union {NoValue}]
    /\ wish \in [Opened!AllNames -> VariableValues \union {NoValue, NotTouched}]
    /\ meta \in [migrated : BOOLEAN, report : SUBSET Opened!AllNames]
ReservedFree == \A k \in NamesReserved : variables[k] = NoValue
VariablesInv == TypeOfVariables /\ Moving /\ ReservedFree /\ Opened!MovedOnce

(* Steps that leave the variables alone, and do not end the move. *)
LEMMA VariablesAlone ==
  ASSUME VariablesInv, UNCHANGED <<variables, moved, meta, wish, cleared>>,
         proc'.at = "up" => proc.at = "up"
  PROVE  VariablesInv'
BY DEF VariablesInv, TypeOfVariables, Moving, ReservedFree, Opened!MovedOnce

LEMMA WriteKeeps ==
  ASSUME Opened!Distinct, VariablesInv, NEW k \in Opened!AllNames,
         NEW v \in VariableValues \union {NoValue},
         Opened!Write(k, v), k \in NamesReserved => v = NoValue
  PROVE  VariablesInv'
<1> USE DEF VariablesInv
<1>1. variables' = [variables EXCEPT ![k] = v] /\ wish' = [wish EXCEPT ![k] = v]
  BY DEF Opened!Write
<1>2. UNCHANGED <<proc, moved, meta, cleared>> /\ meta.migrated
  BY DEF Opened!Write, Opened!Serve, Moving
<1>3. TypeOfVariables'
  BY <1>1, <1>2 DEF TypeOfVariables
<1>4. Moving' /\ ReservedFree'
  BY <1>1, <1>2 DEF Moving, ReservedFree, TypeOfVariables, Opened!AllNames
<1>5. Opened!MovedOnce'
  <2>1. wish'[k] = v /\ variables'[k] = v /\ v # NotTouched
    BY <1>1 DEF TypeOfVariables, Opened!Distinct
  <2>2. \A x \in Opened!AllNames : x # k => wish'[x] = wish[x] /\ variables'[x] = variables[x]
    BY <1>1 DEF TypeOfVariables
  <2> QED
    BY <1>2, <2>1, <2>2 DEF Opened!MovedOnce
<1> QED
  BY <1>3, <1>4, <1>5

LEMMA MigrateKeeps ==
  ASSUME Opened!Distinct, VariablesInv, Opened!MigrateVariables
  PROVE  VariablesInv'
<1> USE DEF VariablesInv
<1>1. CASE meta.migrated
  BY <1>1 DEF Opened!MigrateVariables, TypeOfVariables, Moving, ReservedFree, Opened!MovedOnce
<1>2. CASE ~meta.migrated
  <2>1. Opened!Migrate /\ UNCHANGED <<moved, wish, cleared>>
    BY <1>2 DEF Opened!MigrateVariables
  <2>2. TypeOfVariables' /\ meta'.migrated
    BY <2>1 DEF Opened!Migrate, TypeOfVariables
  <2>3. Moving'
    BY <2>2 DEF Moving
  <2>4. ReservedFree'
    BY <2>1 DEF Opened!Migrate, ReservedFree, Opened!ValidVariableKey, Opened!Distinct,
       Opened!AllNames
  <2>5. Opened!MovedOnce'
    BY <1>2, <2>1 DEF Opened!Migrate, Opened!MovedOnce, Moving
  <2> QED
    BY <2>2, <2>3, <2>4, <2>5
<1> QED
  BY <1>1, <1>2

(* Whatever the names, values and old variables are, and however often the
   process dies on its way up, the old variables move once, none is lost, and
   none stands in for a built-in one. *)
THEOREM VariablesMove == AllSpec => []VariablesMoveOnce
<1> USE StoreAssumption
<1>1. AllInit => TypeOfProcess /\ VariablesInv
  BY DEF AllInit, Opened!Init, TypeOfProcess, VariablesInv, TypeOfVariables, Moving, ReservedFree,
     Opened!MovedOnce,
         Opened!AllNames, Opened!NoFile
<1>2. TypeOfProcess /\ VariablesInv /\ [Opened!Next]_opened => VariablesInv'
  <2> SUFFICES ASSUME TypeOfProcess, VariablesInv, [Opened!Next]_opened
               PROVE  VariablesInv'
    OBVIOUS
  <2>1. ASSUME NEW k \in Opened!AllNames, NEW v \in VariableValues,
               Opened!CreateVariable(k, v) \/ Opened!UpdateVariable(k, v)
        PROVE  VariablesInv'
    <3>1. k \notin NamesReserved
      BY <2>1 DEF Opened!CreateVariable, Opened!UpdateVariable, Opened!ValidVariableKey,
         VariablesInv, ReservedFree,
                  Opened!Distinct
    <3> QED
      BY <2>1, <3>1, WriteKeeps DEF Opened!CreateVariable, Opened!UpdateVariable
  <2>2. ASSUME NEW k \in Opened!AllNames, Opened!DeleteVariable(k)
        PROVE  VariablesInv'
    BY <2>2, WriteKeeps DEF Opened!DeleteVariable
  <2>3. CASE Opened!ClearVariableMigration
    <3>1. UNCHANGED <<variables, moved, wish, proc>> /\ meta.migrated
      BY <2>3 DEF Opened!ClearVariableMigration, Opened!Serve, VariablesInv, Moving
    <3>2. cleared' = cleared \union meta.report /\ meta' = [meta EXCEPT !.report = {}]
      BY <2>3 DEF Opened!ClearVariableMigration
    <3>3. meta'.migrated /\ meta'.report = {}
      BY <3>1, <3>2 DEF VariablesInv, TypeOfVariables
    <3>4. TypeOfVariables' /\ Moving' /\ ReservedFree'
      BY <3>1, <3>2, <3>3 DEF VariablesInv, TypeOfVariables, Moving, ReservedFree
    <3>5. Opened!MovedOnce'
      BY <3>1, <3>2, <3>3 DEF VariablesInv, Opened!MovedOnce
    <3> QED
      BY <3>4, <3>5 DEF VariablesInv
  <2>4. CASE Opened!MigrateVariables
    BY <2>4, MigrateKeeps
  <2>5. CASE \/ Opened!Open \/ Opened!LoadKey \/ Opened!CreateKey \/ Opened!WriteKey
             \/ Opened!WriteKeyFails \/ Opened!Crash
    BY <2>5, VariablesAlone
    DEF Opened!Open, Opened!LoadKey, Opened!CreateKey, Opened!WriteKey, Opened!WriteKeyFails,
        Opened!Crash, Opened!Failed, Opened!stored, TypeOfProcess
  <2>6. ASSUME NEW i \in Registries, NEW c \in Clients, NEW s \in Secrets \union {NoValue},
               Opened!UpdateRegistry(c, i, s)
        PROVE  VariablesInv'
    BY <2>6, VariablesAlone DEF Opened!UpdateRegistry
  <2>7. CASE UNCHANGED opened
    BY <2>7, VariablesAlone DEF opened
  <2>8. ASSUME NEW i \in Registries,
               Opened!DeleteRegistry(i) \/ \E s \in Secrets : Opened!CreateRegistry(i, s)
        PROVE  VariablesInv'
    BY <2>8, VariablesAlone DEF Opened!DeleteRegistry, Opened!CreateRegistry
  <2>9. ASSUME NEW c \in Clients, Opened!SaveRegistry(c)
        PROVE  VariablesInv'
    BY <2>9, VariablesAlone DEF Opened!SaveRegistry
  <2> QED
    BY <2>1, <2>2, <2>3, <2>4, <2>5, <2>6, <2>7, <2>8, <2>9 DEF Opened!Next
<1>3. VariablesInv => VariablesMoveOnce
  BY DEF VariablesMoveOnce, VariablesInv, Opened!VariablesMoveOnce, ReservedFree,
     Opened!BuiltinsStand, Opened!Interpolated
<1> QED
  BY <1>1, <1>2, <1>3, ProcessTyped, PartsStep, PTL DEF AllSpec

-----------------------------------------------------------------------------
(* Registries: what is sealed was sealed with the key in the file, the key of
   the process is the one in the file once it is past writing it, and while
   no mishap has happened an update under way is alone and has read what was
   given last. *)
TypeOfRegistries ==
    /\ sealed \in [Registries -> Opened!Record \union {NoValue}]
    /\ req \in [Clients -> Opened!Update \union {NoValue}]
    /\ given \in [Registries -> Secrets \union {NoValue}]
    /\ mishap \in BOOLEAN
Sealing ==
    ~mishap =>
      /\ \A i \in Opened!Registered : sealed[i].key = keyFile /\ sealed[i].secret = given[i]
      /\ keyFile = Opened!NoFile \/ proc.at = "write" => Opened!Registered = {}
      /\ proc.at \in {"migrate", "up"} => proc.key = keyFile /\ keyFile # Opened!NoFile
Updating ==
    ~mishap =>
      \A c \in Clients : req[c] # NoValue =>
        /\ proc.at = "up"
        /\ req[c].id \in Opened!Registered
        /\ req[c].secret = IF req[c].gave = NoValue THEN given[req[c].id] ELSE req[c].gave
        /\ \A d \in Clients : req[d] # NoValue => c = d
RegistriesInv == TypeOfRegistries /\ Sealing /\ Updating

(* The process on its way up serves nobody. *)
LEMMA StartKeeps ==
  ASSUME TypeOfProcess, RegistriesInv,
         \/ Opened!Open \/ Opened!LoadKey \/ Opened!CreateKey \/ Opened!WriteKey
         \/ Opened!WriteKeyFails \/ Opened!MigrateVariables \/ Opened!Crash
  PROVE  RegistriesInv'
<1> USE DEF RegistriesInv, TypeOfProcess, TypeOfRegistries, Sealing, Updating, Opened!Registered
<1>1. CASE Opened!Open
  BY <1>1 DEF Opened!Open, Opened!stored
<1>2. CASE Opened!LoadKey
  BY <1>2 DEF Opened!LoadKey, Opened!stored
<1>3. CASE Opened!CreateKey
  <2>1. UNCHANGED <<sealed, req, given>> /\ mishap' \in BOOLEAN
    BY <1>3 DEF Opened!CreateKey, Opened!stored
  <2>2. ~mishap' => ~mishap /\ keyFile = Opened!NoFile /\ proc.at = "key" /\ proc'.at = "write"
    BY <1>3 DEF Opened!CreateKey
  <2> QED
    BY <2>1, <2>2
<1>4. CASE Opened!WriteKey
  BY <1>4 DEF Opened!WriteKey, Opened!stored
<1>5. CASE Opened!WriteKeyFails
  BY <1>5 DEF Opened!WriteKeyFails, Opened!Failed, Opened!stored
<1>6. CASE Opened!MigrateVariables
  BY <1>6 DEF Opened!MigrateVariables
<1>7. CASE Opened!Crash
  BY <1>7 DEF Opened!Crash, Opened!Failed
<1> QED
  BY <1>1, <1>2, <1>3, <1>4, <1>5, <1>6, <1>7

LEMMA CreateKeeps ==
  ASSUME Opened!Distinct, TypeOfProcess, RegistriesInv,
         NEW i \in Registries, NEW s \in Secrets, Opened!CreateRegistry(i, s)
  PROVE  RegistriesInv'
<1> USE DEF RegistriesInv
<1>1. sealed' = [sealed EXCEPT ![i] = [key |-> proc.key, secret |-> s]]
  BY DEF Opened!CreateRegistry, Opened!encrypt
<1>2. given' = [given EXCEPT ![i] = s] /\ UNCHANGED <<keyFile, proc, req, mishap>>
  BY DEF Opened!CreateRegistry
<1>3. proc.at = "up" /\ i \notin Opened!Registered /\ proc.key \in Int
  BY DEF Opened!CreateRegistry, Opened!Serve, Opened!Registered, TypeOfProcess
<1>4. TypeOfRegistries'
  BY <1>1, <1>2, <1>3 DEF TypeOfRegistries, Opened!Record
<1>5. Opened!Registered' = Opened!Registered \union {i}
  BY <1>1, <1>3 DEF Opened!Registered, TypeOfRegistries, Opened!Distinct, Opened!Record
<1>6. Sealing'
  <2>1. sealed'[i].key = proc.key /\ sealed'[i].secret = s /\ given'[i] = s
    BY <1>1, <1>2 DEF TypeOfRegistries
  <2>2. \A j \in Opened!Registered : sealed'[j] = sealed[j] /\ given'[j] = given[j]
    BY <1>1, <1>2, <1>3 DEF TypeOfRegistries, Opened!Registered
  <2>3. ~mishap => keyFile # Opened!NoFile /\ proc.key = keyFile
    BY <1>3 DEF Sealing
  <2> QED
    BY <1>2, <1>3, <1>5, <2>1, <2>2, <2>3 DEF Sealing
<1>7. Updating'
  BY <1>2, <1>3, <1>5 DEF Updating, TypeOfRegistries
<1> QED
  BY <1>4, <1>6, <1>7

LEMMA UpdateKeeps ==
  ASSUME Opened!Distinct, TypeOfProcess, RegistriesInv,
         NEW c \in Clients, NEW i \in Registries, NEW s \in Secrets \union {NoValue},
         Opened!UpdateRegistry(c, i, s)
  PROVE  RegistriesInv'
<1> USE DEF RegistriesInv
<1> DEFINE known == Opened!GetRegistry(i)
<1>1. req' = [req EXCEPT ![c] =
                [id |-> i, gave |-> s, secret |-> IF s = NoValue THEN known ELSE s]]
  BY DEF Opened!UpdateRegistry
<1>2. UNCHANGED <<keyFile, proc, sealed, given>> /\ proc.at = "up" /\ known # NoValue
  BY DEF Opened!UpdateRegistry, Opened!Serve
<1>3. /\ i \in Opened!Registered /\ sealed[i] \in Opened!Record
      /\ known = sealed[i].secret /\ known \in Secrets
  BY <1>2 DEF Opened!GetRegistry, Opened!decrypt, Opened!Registered, TypeOfRegistries, Opened!Record
<1>4. mishap' \in BOOLEAN /\ (~mishap' => ~mishap /\ \A d \in Clients : req[d] = NoValue)
  BY DEF Opened!UpdateRegistry, TypeOfRegistries
<1>5. TypeOfRegistries' /\ Opened!Registered' = Opened!Registered
  BY <1>1, <1>2, <1>3, <1>4 DEF TypeOfRegistries, Opened!Update, Opened!Registered
<1>6. Sealing'
  BY <1>2, <1>4, <1>5 DEF Sealing
<1>7. Updating'
  <2>1. req'[c].id = i /\ req'[c].gave = s /\ req'[c].secret = IF s = NoValue THEN known ELSE s
    BY <1>1 DEF TypeOfRegistries
  <2>2. \A d \in Clients : d # c => req'[d] = req[d]
    BY <1>1 DEF TypeOfRegistries
  <2>3. ~mishap => known = given[i]
    BY <1>3 DEF Sealing
  <2> QED
    BY <1>2, <1>3, <1>4, <1>5, <2>1, <2>2, <2>3 DEF Updating
<1> QED
  BY <1>5, <1>6, <1>7

LEMMA SaveKeeps ==
  ASSUME Opened!Distinct, TypeOfProcess, RegistriesInv, NEW c \in Clients, Opened!SaveRegistry(c)
  PROVE  RegistriesInv'
<1> USE DEF RegistriesInv
<1> DEFINE u == req[c]
<1>1. u \in Opened!Update /\ proc.at = "up" /\ proc.key \in Int
  BY DEF Opened!SaveRegistry, TypeOfRegistries, TypeOfProcess
<1>u. u.id \in Registries /\ u.gave \in Secrets \union {NoValue} /\ u.secret \in Secrets
  BY <1>1 DEF Opened!Update
<1>2. /\ sealed' = [sealed EXCEPT ![u.id] = [key |-> proc.key, secret |-> u.secret]]
      /\ req' = [req EXCEPT ![c] = NoValue]
      /\ given' = IF u.gave = NoValue THEN given ELSE [given EXCEPT ![u.id] = u.gave]
      /\ UNCHANGED <<keyFile, proc, mishap>>
  BY DEF Opened!SaveRegistry, Opened!encrypt
<1>3. TypeOfRegistries'
  BY <1>1, <1>2 DEF TypeOfRegistries, Opened!Record, Opened!Update
<1>4. Opened!Registered' = Opened!Registered \union {u.id}
  BY <1>1, <1>2 DEF Opened!Registered, TypeOfRegistries, Opened!Distinct, Opened!Record,
     Opened!Update
<1>5. sealed'[u.id].key = proc.key /\ sealed'[u.id].secret = u.secret
  BY <1>1, <1>2 DEF TypeOfRegistries, Opened!Update
<1>6. \A j \in Registries : j # u.id => sealed'[j] = sealed[j] /\ given'[j] = given[j]
  BY <1>1, <1>2 DEF TypeOfRegistries, Opened!Update
<1>7. ~mishap => /\ u.secret = given'[u.id]
                 /\ u.id \in Opened!Registered
                 /\ \A d \in Clients : req'[d] = NoValue
  <2> SUFFICES ASSUME ~mishap
               PROVE  /\ u.secret = given'[u.id]
                      /\ u.id \in Opened!Registered
                      /\ \A d \in Clients : req'[d] = NoValue
    OBVIOUS
  <2>1. u # NoValue
    BY DEF Opened!SaveRegistry
  <2>2. /\ u.id \in Opened!Registered
        /\ u.secret = IF u.gave = NoValue THEN given[u.id] ELSE u.gave
        /\ \A d \in Clients : req[d] # NoValue => c = d
    BY <2>1 DEF Updating
  <2>3. u.secret = given'[u.id]
    BY <1>1, <1>2, <2>2 DEF TypeOfRegistries, Opened!Update
  <2>4. \A d \in Clients : req'[d] = NoValue
    BY <1>2, <2>2 DEF TypeOfRegistries
  <2> QED
    BY <2>2, <2>3, <2>4
<1>8. Sealing'
  BY <1>1, <1>2, <1>4, <1>5, <1>6, <1>7 DEF Sealing, Opened!Registered
<1>9. Updating'
  BY <1>2, <1>7 DEF Updating
<1> QED
  BY <1>3, <1>8, <1>9

LEMMA DeleteKeeps ==
  ASSUME TypeOfProcess, RegistriesInv, NEW i \in Registries, Opened!DeleteRegistry(i)
  PROVE  RegistriesInv'
<1> USE DEF RegistriesInv
<1>1. sealed' = [sealed EXCEPT ![i] = NoValue] /\ UNCHANGED <<keyFile, proc, req, given>>
  BY DEF Opened!DeleteRegistry
<1>2. mishap' \in BOOLEAN /\ (~mishap' => ~mishap /\ \A d \in Clients : req[d] = NoValue)
  BY DEF Opened!DeleteRegistry, TypeOfRegistries
<1>3. TypeOfRegistries'
  BY <1>1, <1>2 DEF TypeOfRegistries
<1>4. /\ Opened!Registered' = Opened!Registered \ {i}
      /\ \A j \in Opened!Registered' : sealed'[j] = sealed[j]
  BY <1>1 DEF Opened!Registered, TypeOfRegistries
<1>5. Sealing' /\ Updating'
  BY <1>1, <1>2, <1>4 DEF Sealing, Updating
<1> QED
  BY <1>3, <1>5

LEMMA RegistriesAlone ==
  ASSUME RegistriesInv, UNCHANGED <<sealed, req, given, mishap, keyFile, proc>>
  PROVE  RegistriesInv'
BY DEF RegistriesInv, TypeOfRegistries, Sealing, Updating, Opened!Registered

(* For any number of registries, clients and secrets, and however often the
   process dies between making the key's file and writing it, or a restart
   follows an update: a store that is open can read every secret, and what it
   reads is what was given last, as long as no key file was unreadable and no
   two updates met. *)
THEOREM SecretsAreKept == AllSpec => []SmoothSecretsKept
<1> USE StoreAssumption
<1>1. AllInit => TypeOfProcess /\ RegistriesInv
  <2> SUFFICES ASSUME AllInit PROVE TypeOfProcess /\ RegistriesInv
    OBVIOUS
  <2>1. TypeOfProcess
    BY DEF AllInit, Opened!Init, TypeOfProcess, Opened!NoFile
  <2>2. TypeOfRegistries
    BY DEF AllInit, Opened!Init, TypeOfRegistries
  <2>3. Sealing /\ Updating
    BY DEF AllInit, Opened!Init, Sealing, Updating, Opened!Registered
  <2> QED
    BY <2>1, <2>2, <2>3 DEF RegistriesInv
<1>2. TypeOfProcess /\ RegistriesInv /\ [Opened!Next]_opened => RegistriesInv'
  <2> SUFFICES ASSUME TypeOfProcess, RegistriesInv, [Opened!Next]_opened
               PROVE  RegistriesInv'
    OBVIOUS
  <2>1. CASE \/ Opened!Open \/ Opened!LoadKey \/ Opened!CreateKey \/ Opened!WriteKey
             \/ Opened!WriteKeyFails \/ Opened!MigrateVariables \/ Opened!Crash
    BY <2>1, StartKeeps
  <2>2. ASSUME NEW i \in Registries, NEW s \in Secrets, Opened!CreateRegistry(i, s)
        PROVE  RegistriesInv'
    BY <2>2, CreateKeeps
  <2>3. ASSUME NEW i \in Registries, NEW c \in Clients, NEW s \in Secrets \union {NoValue},
               Opened!UpdateRegistry(c, i, s)
        PROVE  RegistriesInv'
    BY <2>3, UpdateKeeps
  <2>4. ASSUME NEW c \in Clients, Opened!SaveRegistry(c)
        PROVE  RegistriesInv'
    BY <2>4, SaveKeeps
  <2>5. ASSUME NEW i \in Registries, Opened!DeleteRegistry(i)
        PROVE  RegistriesInv'
    BY <2>5, DeleteKeeps
  <2>6. ASSUME NEW k \in Opened!AllNames,
               Opened!DeleteVariable(k) \/ \E v \in VariableValues : Opened!CreateVariable(k,
               v) \/ Opened!UpdateVariable(k, v)
        PROVE  RegistriesInv'
    BY <2>6, RegistriesAlone DEF Opened!CreateVariable, Opened!UpdateVariable,
       Opened!DeleteVariable, Opened!Write
  <2>7. CASE Opened!ClearVariableMigration \/ UNCHANGED opened
    BY <2>7, RegistriesAlone DEF Opened!ClearVariableMigration, opened
  <2> QED
    BY <2>1, <2>2, <2>3, <2>4, <2>5, <2>6, <2>7 DEF Opened!Next
<1>3. RegistriesInv => Opened!SmoothSecretsKept
  <2> SUFFICES ASSUME RegistriesInv
               PROVE  Opened!SmoothSecretsKept
    OBVIOUS
  <2>1. Opened!SecretsReadable
    BY DEF RegistriesInv, TypeOfRegistries, Sealing, Opened!SecretsReadable, Opened!ListFails,
       Opened!decrypt,
           Opened!Registered, Opened!Record, Opened!Distinct
  <2>2. Opened!SecretIsLastGiven
    BY DEF RegistriesInv, Sealing, Opened!SecretIsLastGiven
  <2> QED
    BY <2>1, <2>2 DEF Opened!SmoothSecretsKept
<1>4. Opened!SmoothSecretsKept => SmoothSecretsKept
  BY DEF SmoothSecretsKept
<1> QED
  BY <1>1, <1>2, <1>3, <1>4, ProcessTyped, PartsStep, PTL DEF AllSpec

-----------------------------------------------------------------------------
(* What the file says, and a request carries, of the other fields: the user's,
   or nothing once a read has failed. *)
Others == IF unread THEN {Foreign, "nothing"} ELSE {Foreign}
Updates ==
    {Daemon!Idle} \cup [at : {"read"}, wl : Settings]
           \cup [at : {"truncate", "write", "reload"}, wl : Settings, rest : Others]

FileTyped == /\ file \in [text : {"json", "empty", "garbled"}, wl : Settings, rest : Others]
             /\ upd \in [Clients -> Updates]
             /\ slip \in BOOLEAN /\ unread \in BOOLEAN

(* Without a mishap there is one request at most, and its place says what is
   in the file. *)
OneAtATime ==
    ~slip => \A c, d \in Clients : upd[c] /= Daemon!Idle /\ upd[d] /= Daemon!Idle => c = d
FileFollows ==
    ~slip =>
      /\ (\A c \in Clients : upd[c].at \in {"idle", "read", "truncate"}) =>
           file.text = "json" /\ running = file.wl
      /\ \A c \in Clients : /\ upd[c].at = "write" => file.text = "empty"
                            /\ upd[c].at = "reload" => file.text = "json"

FileInv == FileTyped /\ OneAtATime /\ FileFollows

(* With any number of requests, crashes, failing writes and signals, the fields of
   others are in every file that can be read, unless a read has failed; and without such an event the
   page, the file and the daemon agree whenever no update is under way. *)
LEMMA DaemonFileKept == AllSpec => []Daemon!SettingsKept
<1>1. AllInit => FileInv
  <2> SUFFICES ASSUME AllInit PROVE FileInv
    OBVIOUS
  <2> USE DEF AllInit, Daemon!Init
  <2>1. FileTyped
    BY DEF FileTyped, Updates, Others
  <2>2. \A c \in Clients : upd[c] = Daemon!Idle /\ upd[c].at = "idle"
    BY DEF Daemon!Idle
  <2> QED
    BY <2>1, <2>2 DEF FileInv, OneAtATime, FileFollows
<1>2. FileInv /\ [Daemon!Next]_daemonfile => FileInv'
  <2> SUFFICES ASSUME FileInv, [Daemon!Next]_daemonfile
               PROVE  FileInv'
    OBVIOUS
  <2> USE DEF FileInv, FileTyped, OneAtATime, FileFollows, Updates, Others, Daemon!Idle
  <2>1. ASSUME NEW c \in Clients, NEW wl \in Settings, Daemon!Update(c, wl)
        PROVE  FileInv'
    \* Without a mishap it is the only one.
    <3> DEFINE new == [at |-> "read", wl |-> wl]
    <3>1. /\ new \in Updates /\ new.at = "read"
          /\ UNCHANGED file /\ UNCHANGED running /\ UNCHANGED unread
          /\ upd' = [upd EXCEPT ![c] = new]
      BY <2>1 DEF Daemon!Update
    <3>2. /\ slip' \in BOOLEAN
          /\ ~slip' => ~slip /\ Daemon!Busy = {}
      BY <2>1 DEF Daemon!Update
    <3>3. Daemon!Busy = {} => \A d \in Clients : upd[d] = Daemon!Idle
      BY DEF Daemon!Busy
    <3> HIDE DEF new
    <3>4. FileTyped'
      BY <3>1, <3>2
    <3>5. ~slip' => OneAtATime' /\ FileFollows'
      BY <3>1, <3>2, <3>3
    <3> QED
      BY <3>4, <3>5
  <2>2. ASSUME NEW c \in Clients, Daemon!ReadFile(c)
        PROVE  FileInv'
    BY <2>2 DEF Daemon!ReadFile
  <2>3. ASSUME NEW c \in Clients, Daemon!Truncate(c)
        PROVE  FileInv'
    BY <2>3 DEF Daemon!Truncate
  <2>4. ASSUME NEW c \in Clients, Daemon!WriteFile(c)
        PROVE  FileInv'
    BY <2>4 DEF Daemon!WriteFile
  <2>5. ASSUME NEW c \in Clients, Daemon!Reload(c)
        PROVE  FileInv'
    BY <2>5 DEF Daemon!Reload
  <2>6. ASSUME NEW c \in Clients, Daemon!ReloadFails(c)
        PROVE  FileInv'
    BY <2>6 DEF Daemon!ReloadFails
  <2>7. CASE Daemon!Crash
    BY <2>7 DEF Daemon!Crash
  <2>8. CASE UNCHANGED daemonfile
    BY <2>8 DEF daemonfile
  <2>9. ASSUME NEW c \in Clients, Daemon!ReadFails(c)
        PROVE  FileInv'
    BY <2>9 DEF Daemon!ReadFails
  <2>10. ASSUME NEW c \in Clients, Daemon!WriteFails(c)
         PROVE  FileInv'
    BY <2>10 DEF Daemon!WriteFails
  <2> QED
    BY <2>1, <2>2, <2>3, <2>4, <2>5, <2>6, <2>7, <2>8, <2>9, <2>10 DEF Daemon!Next
<1>3. FileInv => Daemon!SettingsKept
  BY DEF FileInv, FileTyped, FileFollows, Daemon!SettingsKept, Daemon!Busy, Daemon!View, Updates,
     Others, Daemon!Idle
<1> QED
  BY <1>1, <1>2, <1>3, PartsStep, PTL DEF AllSpec

-----------------------------------------------------------------------------
(* Induction over numbers, as the existence of a least one. *)
LEMMA Least == \A T \in SUBSET Nat : T # {} => \E m \in T : \A n \in T : m <= n
<1> SUFFICES ASSUME NEW T \in SUBSET Nat, T # {}
             PROVE  \E m \in T : \A n \in T : m <= n
  OBVIOUS
<1> DEFINE R == {ss \in Nat \X Nat : ss[1] < ss[2]}
<1>1. IsWellFoundedOn(R, Nat)
  BY NatLessThanWellFounded DEF OpToRel
<1> HIDE DEF R
<1>2. PICK m \in T : \A n \in T : ~(<<n, m>> \in R)
  BY <1>1, WFMin
<1>3. \A n \in T : ~(n < m)
  BY <1>2 DEF R
<1> QED
  BY <1>3

LEMMA MaxIs ==
  ASSUME NEW n \in Nat, NEW T \in SUBSET (1 .. n), T # {}
  PROVE  Conf!Max(T) \in T /\ \A i \in T : i <= Conf!Max(T)
<1> DEFINE D == {n - i : i \in T}
<1>1. D \in SUBSET Nat /\ D # {}
  <2>1. \A i \in T : i \in Int /\ n - i \in Nat
    OBVIOUS
  <2> QED
    BY <2>1
<1>2. PICK m \in D : \A d \in D : m <= d
  BY <1>1, Least
<1>3. PICK i \in T : m = n - i
  OBVIOUS
<1>4. ASSUME NEW j \in T PROVE i >= j
  <2>1. n - j \in D
    OBVIOUS
  <2>2. n - i <= n - j
    BY <1>2, <1>3, <2>1
  <2> QED
    BY <2>2
<1> QED
  BY <1>4 DEF Conf!Max

LEMMA UpTo ==
  ASSUME NEW N \in Nat, NEW T, 0 \in T, \A n \in 1 .. N : n - 1 \in T => n \in T
  PROVE  \A n \in 0 .. N : n \in T
<1> DEFINE U == {n \in 0 .. N : n \notin T}
<1> SUFFICES ASSUME U # {} PROVE FALSE
  OBVIOUS
<1>1. PICK m \in U : \A n \in U : m <= n
  <2>1. U \in SUBSET Nat
    OBVIOUS
  <2> QED
    BY <2>1, Least
<1>2. m \in 1 .. N
  OBVIOUS
<1>3. m - 1 \in U
  BY <1>2
<1> QED
  BY <1>1, <1>2, <1>3

(* A list of valid ports is read as it is. *)
LEMMA ValidList ==
  ASSUME NEW v \in Seq(Int), \A i \in DOMAIN v : v[i] \in 1 .. Conf!MaxPort
  PROVE  Conf!confIntList(v) = v
<1> DEFINE N == Len(v)
           P == 1 .. Conf!MaxPort
<1>0. N \in Nat /\ \A n \in 1 .. N : v[n] \in P
  OBVIOUS
<1>1. PICK g : g = [n \in 0 .. N |-> SubSeq(v, 1, n)]
  OBVIOUS
<1>2. \A n \in 1 .. N : SubSeq(v, 1, n) = Append(SubSeq(v, 1, n - 1), v[n])
  OBVIOUS
<1>3. /\ g[0] = <<>> /\ g[N] = v
      /\ \A n \in 1 .. N : g[n] = Append(g[n - 1], v[n])
  <2>1. \A n \in 0 .. N : g[n] = SubSeq(v, 1, n)
    BY <1>1
  <2>2. g[0] = <<>> /\ g[N] = v
    BY <1>0, <2>1
  <2>3. ASSUME NEW n \in 1 .. N PROVE g[n] = Append(g[n - 1], v[n])
    <3>1. n \in 0 .. N /\ n - 1 \in 0 .. N
      BY <1>0
    <3> QED
      BY <1>2, <2>1, <3>1
  <2> QED
    BY <2>2, <2>3
<1> HIDE DEF N, P
<1>4. ASSUME NEW n \in 0 .. N
      PROVE  g[n] = IF n = 0 THEN <<>>
                    ELSE IF v[n] \in P THEN Append(g[n - 1], v[n]) ELSE g[n - 1]
  <2>1. n # 0 => n \in 1 .. N
    BY <1>0
  <2> QED
    BY <1>0, <1>3, <2>1
<1>5. g = [n \in 0 .. N |-> IF n = 0 THEN <<>>
                            ELSE IF v[n] \in P THEN Append(g[n - 1], v[n]) ELSE g[n - 1]]
  <2>1. g = [n \in 0 .. N |-> g[n]]
    BY <1>1
  <2> QED
    BY <1>4, <2>1, Zenon
<1>6. PICK f : /\ f = [n \in 0 .. N |->
                        IF n = 0 THEN <<>>
                        ELSE IF v[n] \in P THEN Append(f[n - 1], v[n]) ELSE f[n - 1]]
               /\ Conf!confIntList(v) = f[N]
  BY <1>5, Zenon DEF Conf!confIntList, N, P
<1>7. f[0] = <<>> /\ \A n \in 1 .. N : f[n] = Append(f[n - 1], v[n])
  <2>1. \A n \in 0 .. N : f[n] = IF n = 0 THEN <<>>
                            ELSE IF v[n] \in P THEN Append(f[n - 1], v[n]) ELSE f[n - 1]
    BY <1>6, Zenon
  <2>2. 0 \in 0 .. N /\ \A n \in 1 .. N : n \in 0 .. N /\ n # 0
    BY <1>0
  <2> QED
    BY <1>0, <2>1, <2>2, Zenon
<1>8. \A n \in 0 .. N : n \in {k \in Nat : f[k] = g[k]}
  <2>1. 0 \in {k \in Nat : f[k] = g[k]}
    BY <1>3, <1>7
  <2>2. \A n \in 1 .. N : n - 1 \in {k \in Nat : f[k] = g[k]} => n \in {k \in Nat : f[k] = g[k]}
    <3> SUFFICES ASSUME NEW n \in 1 .. N, f[n - 1] = g[n - 1]
                 PROVE  n \in Nat /\ f[n] = g[n]
      OBVIOUS
    <3>1. n \in Nat
      BY <1>0
    <3> QED
      BY <3>1, <1>3, <1>7, Zenon
  <2> QED
    BY <1>0, <2>1, <2>2, UpTo
<1>9. N \in 0 .. N
  BY <1>0
<1>10. f[N] = g[N]
  BY <1>8, <1>9
<1> QED
  BY <1>3, <1>6, <1>10, Zenon

(* What two sequences consist of, their concatenation consists of. *)
LEMMA Concatenated ==
  ASSUME NEW S, NEW s \in Seq(S), NEW t \in Seq(S)
  PROVE  /\ s \o t \in Seq(S)
         /\ \A i \in DOMAIN s : i \in DOMAIN (s \o t) /\ (s \o t)[i] = s[i]
         /\ \A j \in DOMAIN t : \E i \in DOMAIN (s \o t) : (s \o t)[i] = t[j]
         /\ \A i \in DOMAIN (s \o t) : i \in DOMAIN s \/ \E j \in DOMAIN t : (s \o t)[i] = t[j]
<1>1. s \o t \in Seq(S) /\ Len(s \o t) = Len(s) + Len(t)
  OBVIOUS
<1>2. \A i \in 1 .. Len(s) : (s \o t)[i] = s[i]
  OBVIOUS
<1>3. \A j \in 1 .. Len(t) : (s \o t)[j + Len(s)] = t[j]
  OBVIOUS
<1>4. Len(s) \in Nat /\ Len(t) \in Nat
  OBVIOUS
<1>5. DOMAIN s = 1 .. Len(s) /\ DOMAIN t = 1 .. Len(t) /\ DOMAIN (s \o t) = 1 .. Len(s) + Len(t)
  BY <1>1
<1>6. \A j \in 1 .. Len(t) : j + Len(s) \in 1 .. Len(s) + Len(t)
  BY <1>4
<1>7. \A i \in 1 .. Len(s) + Len(t) :
        i \in 1 .. Len(s) \/ (i - Len(s) \in 1 .. Len(t) /\ i = (i - Len(s)) + Len(s))
  BY <1>4
<1>8. \A i \in DOMAIN s : i \in DOMAIN (s \o t) /\ (s \o t)[i] = s[i]
  BY <1>2, <1>4, <1>5
<1>9. \A j \in DOMAIN t : \E i \in DOMAIN (s \o t) : (s \o t)[i] = t[j]
  BY <1>3, <1>5, <1>6
<1>10. \A i \in DOMAIN (s \o t) : i \in DOMAIN s \/ \E j \in DOMAIN t : (s \o t)[i] = t[j]
  BY <1>3, <1>5, <1>7
<1> QED
  BY <1>1, <1>8, <1>9, <1>10

(* The lines that a file gets for its missing keys. *)
LEMMA MissingLines ==
  ASSUME NEW lines, NEW sent \in Conf!Values
  PROVE  /\ Conf!Missing(lines, sent) \in Seq(Conf!Lines)
         /\ \A i \in DOMAIN Conf!Missing(lines, sent) :
              \E k \in Conf!Settable : Conf!Missing(lines, sent)[i] = Conf!Line(k, sent[k])
         /\ \A k \in Conf!Settable : Conf!With(lines, k) = {} =>
              \E i \in DOMAIN Conf!Missing(lines, sent) :
                Conf!Missing(lines, sent)[i] = Conf!Line(k, sent[k])
<1> DEFINE L(k) == Conf!Line(k, sent[k])
           New(k) == IF Conf!With(lines, k) = {} THEN <<L(k)>> ELSE <<>>
           S == {L(k) : k \in Conf!Settable}
<1>1. Conf!Settable = {"http", "https", "extra"}
  BY DEF Conf!Settable, Conf!Ports
<1>2. S \subseteq Conf!Lines
  BY DEF Conf!Lines, Conf!Line, Conf!Values
<1>3. ASSUME NEW k \in Conf!Settable
      PROVE  /\ New(k) \in Seq(S)
             /\ Conf!With(lines, k) = {} => \E i \in DOMAIN New(k) : New(k)[i] = L(k)
  <2> DEFINE T == <<L(k)>>
  <2>1. L(k) \in S
    OBVIOUS
  <2> HIDE DEF L
  <2>2. T \in Seq(S) /\ <<>> \in Seq(S) /\ 1 \in DOMAIN T /\ T[1] = L(k)
    <3> HIDE DEF S
    <3> QED
      BY <2>1
  <2> HIDE DEF S
  <2> QED
    BY <2>2
<1> HIDE DEF New, S
<1> DEFINE A == New("http") \o New("extra")
           B == A \o New("https")
<1>4. A \in Seq(S) /\ B \in Seq(S)
  BY <1>1, <1>3
<1>5. \A i \in DOMAIN B : B[i] \in S
  BY <1>4
<1>6. \A k \in Conf!Settable : Conf!With(lines, k) = {} => \E i \in DOMAIN B : B[i] = L(k)
  <2> HIDE DEF L
  <2>1. /\ \A i \in DOMAIN New("http") : i \in DOMAIN A /\ A[i] = New("http")[i]
        /\ \A j \in DOMAIN New("extra") : \E i \in DOMAIN A : A[i] = New("extra")[j]
    <3>1. New("http") \in Seq(S) /\ New("extra") \in Seq(S)
      BY <1>1, <1>3
    <3>2. \A i \in DOMAIN New("http") : i \in DOMAIN A /\ A[i] = New("http")[i]
      BY <3>1, Concatenated
    <3>3. \A j \in DOMAIN New("extra") : \E i \in DOMAIN A : A[i] = New("extra")[j]
      BY <3>1, Concatenated
    <3> QED
      BY <3>2, <3>3
  <2>2. ASSUME NEW k \in {"http", "extra"}, Conf!With(lines, k) = {}
        PROVE  \E i \in DOMAIN A : A[i] = L(k)
    <3>1. PICK i \in DOMAIN New(k) : New(k)[i] = L(k)
      BY <2>2, <1>1, <1>3
    <3> HIDE DEF A
    <3> QED
      BY <2>1, <3>1
  <2> HIDE DEF A
  <2>3. /\ \A i \in DOMAIN A : i \in DOMAIN B /\ B[i] = A[i]
        /\ \A j \in DOMAIN New("https") : \E i \in DOMAIN B : B[i] = New("https")[j]
    <3>1. New("https") \in Seq(S)
      BY <1>1, <1>3
    <3> QED
      BY <3>1, <1>4, Concatenated
  <2> HIDE DEF B
  <2>4. ASSUME Conf!With(lines, "https") = {} PROVE \E i \in DOMAIN B : B[i] = L("https")
    BY <2>3, <2>4, <1>1, <1>3
  <2>5. ASSUME NEW k \in {"http", "extra"}, Conf!With(lines, k) = {}
        PROVE  \E i \in DOMAIN B : B[i] = L(k)
    BY <2>2, <2>3, <2>5
  <2> QED
    BY <1>1, <2>4, <2>5
<1>7. Conf!Missing(lines, sent) = B
  BY DEF Conf!Missing, New
<1>8. B \in Seq(Conf!Lines)
  <2> HIDE DEF B
  <2> QED
    BY <1>2, <1>4
<1> HIDE DEF B
<1> QED
  BY <1>5, <1>6, <1>7, <1>8 DEF S

(* Every key of a file that is written has the value that was sent, and the
   other lines are where they were. *)
LEMMA Upserted ==
  ASSUME NEW lines \in Seq(Conf!Lines), NEW sent \in Conf!Values
  PROVE  /\ Conf!upsertConf(lines, sent) \in Seq(Conf!Lines)
         /\ Conf!Others(Conf!upsertConf(lines, sent)) = Conf!Others(lines)
         /\ Conf!readFile(Conf!upsertConf(lines, sent)) = sent
<1> DEFINE A == [i \in DOMAIN lines |->
                   IF lines[i].key \in Conf!Settable
                   THEN Conf!Line(lines[i].key, sent[lines[i].key]) ELSE lines[i]]
           M == Conf!Missing(lines, sent)
           u == A \o M
<1>1. Conf!upsertConf(lines, sent) = u
  BY DEF Conf!upsertConf
<1>2. A \in Seq(Conf!Lines)
  <2>1. ASSUME NEW i \in DOMAIN lines PROVE A[i] \in Conf!Lines
    <3>1. lines[i] \in Conf!Lines
      OBVIOUS
    <3>2. ASSUME NEW k \in Conf!Settable PROVE Conf!Line(k, sent[k]) \in Conf!Lines
      BY DEF Conf!Lines, Conf!Values, Conf!Line
    <3> QED
      BY <3>1, <3>2
  <2>2. DOMAIN lines = 1 .. Len(lines) /\ Len(lines) \in Nat
    OBVIOUS
  <2>3. A = [i \in 1 .. Len(lines) |-> A[i]]
    BY <2>2
  <2> HIDE DEF A
  <2> QED
    BY <2>1, <2>2, <2>3
<1>3. /\ DOMAIN A = DOMAIN lines
      /\ \A i \in DOMAIN lines :
           IF lines[i].key \in Conf!Settable
           THEN A[i].key = lines[i].key /\ A[i].value = sent[lines[i].key]
           ELSE A[i] = lines[i]
  BY DEF Conf!Line
<1>4. /\ M \in Seq(Conf!Lines)
      /\ \A i \in DOMAIN M : M[i].key \in Conf!Settable /\ M[i].value = sent[M[i].key]
      /\ \A k \in Conf!Settable : Conf!With(lines, k) = {} => \E i \in DOMAIN M : M[i].key = k
  <2>1. \A k : Conf!Line(k, sent[k]).key = k /\ Conf!Line(k, sent[k]).value = sent[k]
    BY DEF Conf!Line
  <2> QED
    BY <2>1, MissingLines
<1> HIDE DEF A, M
<1>5. /\ u \in Seq(Conf!Lines)
      /\ \A i \in DOMAIN A : i \in DOMAIN u /\ u[i] = A[i]
      /\ \A j \in DOMAIN M : \E i \in DOMAIN u : u[i] = M[j]
      /\ \A i \in DOMAIN u : i \in DOMAIN A \/ \E j \in DOMAIN M : u[i] = M[j]
  BY <1>2, <1>4, Concatenated
<1> HIDE DEF u
<1>6. ASSUME NEW i \in DOMAIN u, u[i].key \in Conf!Settable
      PROVE  u[i].value = sent[u[i].key]
  <2>1. CASE i \in DOMAIN A
    <3>1. u[i] = A[i] /\ i \in DOMAIN lines
      BY <2>1, <1>3, <1>5
    <3> QED
      BY <3>1, <1>3, <1>6
  <2>2. CASE \E j \in DOMAIN M : u[i] = M[j]
    BY <2>2, <1>4
  <2> QED
    BY <2>1, <2>2, <1>5
<1>7. ASSUME NEW k \in Conf!Settable
      PROVE  \E i \in DOMAIN u : u[i].key = k
  <2>1. CASE Conf!With(lines, k) = {}
    BY <2>1, <1>4, <1>5
  <2>2. CASE Conf!With(lines, k) # {}
    <3>1. PICK i \in DOMAIN lines : lines[i].key = k
      BY <2>2 DEF Conf!With
    <3> QED
      BY <3>1, <1>3, <1>5
  <2> QED
    BY <2>1, <2>2
<1>8. Conf!readFile(u) = sent
  <2>1. ASSUME NEW k \in Conf!Settable
        PROVE  Conf!readFile(u)[k] = sent[k]
    <3> DEFINE T == Conf!With(u, k)
    <3>1. T # {} /\ T \subseteq 1 .. Len(u) /\ Len(u) \in Nat
      BY <1>5, <1>7 DEF Conf!With
    <3>2. \A i \in T : i \in DOMAIN u /\ u[i].key = k
      BY DEF Conf!With
    <3> HIDE DEF T
    <3>3. Conf!Max(T) \in T
      BY <3>1, MaxIs
    <3>4. Conf!readFile(u)[k] = u[Conf!Max(T)].value
      BY <3>1 DEF Conf!readFile, T
    <3> QED
      BY <1>6, <3>2, <3>3, <3>4
  <2>2. Conf!readFile(u) = [k \in Conf!Settable |-> Conf!readFile(u)[k]]
    BY Zenon DEF Conf!readFile
  <2>3. sent = [k \in Conf!Settable |-> sent[k]]
    BY DEF Conf!Values
  <2> QED
    BY <2>1, <2>2, <2>3
<1>9. Conf!Others(u) = Conf!Others(lines)
  <2>1. ASSUME NEW i \in DOMAIN u, u[i].key \notin Conf!Settable
        PROVE  i \in DOMAIN lines /\ lines[i] = u[i]
    BY <2>1, <1>3, <1>4, <1>5
  <2>2. ASSUME NEW i \in DOMAIN lines, lines[i].key \notin Conf!Settable
        PROVE  i \in DOMAIN u /\ lines[i] = u[i]
    BY <2>2, <1>3, <1>5
  <2>3. Conf!Others(u) \subseteq Conf!Others(lines)
    BY <2>1 DEF Conf!Others
  <2>4. Conf!Others(lines) \subseteq Conf!Others(u)
    BY <2>2 DEF Conf!Others
  <2> QED
    BY <2>3, <2>4
<1> QED
  BY <1>1, <1>5, <1>8, <1>9

(* A form in the range of ports is shown as it is, and what the server makes
   of it where the environment is silent is what was sent. *)
LEMMA Shown ==
  ASSUME NEW sent \in Conf!Values, \A k \in Conf!Ports : Len(sent[k]) = 1, Conf!InRange(sent)
  PROVE  /\ \A lines : Conf!readFile(lines) = sent => Conf!getGatewaySettings(lines) = sent
         /\ \A k \in Conf!Settable :
              \/ Conf!IsNumber(env[k]) \/ (k = "extra" /\ env[k] # <<>>)
              \/ Conf!Config(sent)[k] = sent[k]
<1>1. Conf!Settable = {"http", "https", "extra"} /\ Conf!Ports = {"http", "https"}
  BY DEF Conf!Settable, Conf!Ports
<1>2. ASSUME NEW k \in Conf!Ports
      PROVE  /\ Conf!IsNumber(sent[k]) /\ sent[k][1] \in 0 .. Conf!MaxPort
             /\ sent[k] = <<sent[k][1]>>
  <2>1. sent[k] \in Seq(Int) /\ Len(sent[k]) = 1
    BY <1>1 DEF Conf!Values
  <2>2. sent[k][1] \in 0 .. Conf!MaxPort
    BY DEF Conf!InRange
  <2>3. sent[k][1] # Conf!Text
    BY <2>2 DEF Conf!Text
  <2>4. sent[k] = <<sent[k][1]>>
    BY <2>1
  <2> QED
    BY <2>1, <2>2, <2>3, <2>4 DEF Conf!IsNumber
<1>3. Conf!confIntList(sent["extra"]) = sent["extra"]
  <2>1. sent["extra"] \in Seq(Int)
    BY <1>1 DEF Conf!Values
  <2>2. \A i \in DOMAIN sent["extra"] : sent["extra"][i] \in 1 .. Conf!MaxPort
    BY DEF Conf!InRange
  <2> QED
    BY <2>1, <2>2, ValidList
<1>4. sent = [k \in Conf!Settable |-> sent[k]]
  BY DEF Conf!Values
<1>5. ASSUME NEW lines, Conf!readFile(lines) = sent
      PROVE  Conf!getGatewaySettings(lines) = sent
  <2>1. \A k \in Conf!Ports : Conf!confInt(sent[k]) = sent[k][1]
    BY <1>2 DEF Conf!confInt
  <2>2. \A k \in Conf!Settable :
          sent[k] = IF k \in Conf!Ports THEN <<Conf!confInt(sent[k])>>
                                        ELSE Conf!confIntList(sent[k])
    BY <1>1, <1>2, <1>3, <2>1
  <2> QED
    BY <1>4, <1>5, <2>2 DEF Conf!getGatewaySettings, Conf!readConfKV
<1>6. ASSUME NEW k \in Conf!Settable, ~Conf!IsNumber(env[k]), ~(k = "extra" /\ env[k] # <<>>)
      PROVE  Conf!Config(sent)[k] = sent[k]
  <2>1. CASE k \in Conf!Ports
    BY <2>1, <1>2, <1>6 DEF Conf!Config, Conf!sourceInt
  <2>2. CASE k = "extra"
    BY <2>2, <1>1, <1>3, <1>6 DEF Conf!Config, Conf!sourceIntList
  <2> QED
    BY <1>1, <2>1, <2>2
<1> QED
  BY <1>5, <1>6
-----------------------------------------------------------------------------
(* gatebox.conf: as long as requests have not met and none was cut off, one
   request at most is under way, and the file holds what was stored last but
   for the moment in which a request has emptied it; what that request is to
   write holds what it was sent. *)
ConfTyped ==
    /\ server \in {"down", "create", "default", "up"}
    /\ env \in ConfEnvs
    /\ text \in Seq(Conf!Lines) \cup {NoConf}
    /\ form \in ConfForms \cup {NoConf}
    /\ put \in [Clients -> {Conf!Idle} \cup [at : {"read"}, form : ConfForms]
                           \cup [at : {"truncate", "write"}, form : ConfForms,
                                 lines : Seq(Conf!Lines)]]
ConfControl ==
    /\ \A c \in Clients : put[c] # Conf!Idle => server = "up" /\ Conf!InRange(put[c].form)
    /\ server = "create" => text = NoConf
    /\ text = NoConf => server \in {"down", "create"}
    /\ form # NoConf => Conf!InRange(form)
Untouched == form = NoConf /\ others = Conf!Others(Conf!Default)
Holds(lines, sent) == Conf!Others(lines) = others /\ (sent # NoConf => Conf!readFile(lines) = sent)
Emptied == \E c \in Clients : put[c].at = "write"
ConfFollows ==
    ~crossed =>
      /\ \A c, d \in Clients : put[c] # Conf!Idle /\ put[d] # Conf!Idle => c = d
      /\ \A c \in Clients : put[c].at \in {"truncate", "write"} => Holds(put[c].lines, put[c].form)
      /\ text = NoConf \/ server = "default" => Untouched
      /\ Emptied => text = <<>>
      /\ ~Emptied /\ text # NoConf /\ server # "default" => Holds(text, form)
      /\ fresh /\ form # NoConf => config = Conf!Config(form)
ConfInv == ConfTyped /\ ConfControl /\ ConfFollows

LEMMA ConfStarts == AllInit => ConfInv
<1> SUFFICES ASSUME AllInit PROVE ConfInv
  OBVIOUS
<1>1. Conf!Init
  BY DEF AllInit
<1>2. ConfTyped
  BY <1>1, ConfAssumption DEF ConfTyped, Conf!Init, Conf!WellFormed
<1> QED
  BY <1>1, <1>2 DEF Conf!Init, ConfInv, ConfControl, ConfFollows, Untouched, Holds, Emptied,
     Conf!Idle

LEMMA DefaultTyped == Conf!Default \in Seq(Conf!Lines)
<1>1. \A v \in Seq(Int) : \A k \in Conf!Settable \cup {"other"} : Conf!Line(k, v) \in Conf!Lines
  BY DEF Conf!Line, Conf!Lines
<1>2. <<>> \in Seq(Int) /\ <<0>> \in Seq(Int) /\ <<Conf!Text>> \in Seq(Int)
  BY DEF Conf!Text
<1>3. {"other", "http", "https", "extra"} = Conf!Settable \cup {"other"}
  BY DEF Conf!Settable, Conf!Ports
<1> HIDE DEF Conf!Text
<1>4. /\ Conf!Line("other", <<>>) \in Conf!Lines /\ Conf!Line("http", <<0>>) \in Conf!Lines
      /\ Conf!Line("https", <<0>>) \in Conf!Lines /\ Conf!Line("extra", <<>>) \in Conf!Lines
      /\ Conf!Line("other", <<Conf!Text>>) \in Conf!Lines
  BY <1>1, <1>2, <1>3
<1> QED
  BY <1>4 DEF Conf!Default

(* The server starts, makes the file or stops. *)
LEMMA ServerKeeps ==
  ConfInv /\ (Conf!Load \/ Conf!CreateConf \/ Conf!WriteDefaultConf \/ Conf!Stop) => ConfInv'
<1> SUFFICES ASSUME ConfInv, Conf!Load \/ Conf!CreateConf \/ Conf!WriteDefaultConf \/ Conf!Stop
             PROVE  ConfInv'
  OBVIOUS
<1> USE DEF ConfInv, ConfTyped, ConfControl, ConfFollows, Untouched, Holds, Emptied
<1>1. CASE Conf!Load
  <2>1. \A c \in Clients : put[c] = Conf!Idle
    BY <1>1 DEF Conf!Load
  <2>2. ~Emptied
    BY <2>1 DEF Conf!Idle
  <2>3. config' = Conf!Config(Conf!readFile(IF text = NoConf THEN <<>> ELSE text)) /\ env' = env
    BY <1>1 DEF Conf!Load
  <2>4. ~crossed /\ form # NoConf => config' = Conf!Config(form)
    BY <2>2, <2>3, <1>1 DEF Conf!Load
  <2>5. ~crossed /\ form # NoConf => (config = Conf!Config(form))'
    BY <2>4, <1>1 DEF Conf!Load, Conf!Config, Conf!sourceInt, Conf!sourceIntList
  <2> QED
    BY <1>1, <2>1, <2>2, <2>5 DEF Conf!Load
<1>2. CASE Conf!CreateConf
  <2>1. \A c \in Clients : put[c] = Conf!Idle
    BY <1>2 DEF Conf!CreateConf
  <2>2. ~Emptied'
    BY <2>1, <1>2 DEF Conf!Idle, Conf!CreateConf
  <2>3. <<>> \in Seq(Conf!Lines) /\ <<>> # NoConf
    <3>1. <<>> \in Seq(Conf!Lines)
      OBVIOUS
    <3> QED
      BY <3>1, ConfAssumption, Zenon DEF Conf!WellFormed
  <2>4. ConfTyped' /\ ConfControl'
    BY <1>2, <2>1, <2>3 DEF Conf!CreateConf
  <2> QED
    BY <1>2, <2>1, <2>2, <2>3, <2>4 DEF Conf!CreateConf, Conf!Idle
<1>3. CASE Conf!WriteDefaultConf
  <2>1. \A c \in Clients : put[c] = Conf!Idle
    BY <1>3 DEF Conf!WriteDefaultConf
  <2>2. ~Emptied'
    BY <2>1, <1>3 DEF Conf!Idle, Conf!WriteDefaultConf
  <2>3. Conf!Default \in Seq(Conf!Lines)
    BY DefaultTyped
  <2>4. Conf!Default # NoConf
    BY <2>3, ConfAssumption DEF Conf!WellFormed
  <2>5. ConfTyped' /\ ConfControl'
    BY <1>3, <2>1, <2>3, <2>4 DEF Conf!WriteDefaultConf
  <2> QED
    BY <1>3, <2>1, <2>2, <2>4, <2>5 DEF Conf!WriteDefaultConf, Conf!Idle
<1>4. CASE Conf!Stop
  <2>1. \A c \in Clients : put'[c] = Conf!Idle
    BY <1>4 DEF Conf!Stop
  <2>2. ~Emptied'
    BY <2>1 DEF Conf!Idle
  <2>3. ConfTyped' /\ ConfControl'
    BY <1>4, <2>1 DEF Conf!Stop
  <2>4. ASSUME ~crossed'
        PROVE  ~crossed /\ server = "up" /\ ~Emptied
    <3>1. crossed' = (crossed \/ Conf!Busy # {} \/ server # "up")
      BY <1>4 DEF Conf!Stop
    <3>2. ~crossed /\ Conf!Busy = {} /\ server = "up"
      BY <2>4, <3>1, Zenon
    <3>3. \A c \in Clients : put[c] = Conf!Idle
      BY <3>2 DEF Conf!Busy
    <3>4. ~Emptied
      BY <3>3 DEF Conf!Idle
    <3> QED
      BY <3>2, <3>4
  <2>5. (Conf!Config(form))' = Conf!Config(form)
    BY <1>4 DEF Conf!Stop, Conf!Config, Conf!sourceInt, Conf!sourceIntList
  <2> QED
    BY <1>4, <2>1, <2>2, <2>3, <2>4, <2>5 DEF Conf!Stop, Conf!Idle
<1> QED
  BY <1>1, <1>2, <1>3, <1>4

(* A request reads the file, empties it and writes it. *)
LEMMA RequestKeeps ==
  ASSUME ConfInv, NEW c \in Clients,
         \/ \E f \in ConfForms : Conf!putGatewaySettings(c, f)
         \/ Conf!ReadConf(c) \/ Conf!TruncateConf(c) \/ Conf!WriteConf(c)
  PROVE  ConfInv'
<1> USE DEF ConfInv, ConfTyped, ConfControl, ConfFollows, Untouched, Holds, Emptied
<1>1. Conf!Config(form)' = Conf!Config(form')
  <2>1. env' = env
    BY DEF Conf!putGatewaySettings, Conf!ReadConf, Conf!TruncateConf, Conf!WriteConf
  <2> QED
    BY <2>1 DEF Conf!Config, Conf!sourceInt, Conf!sourceIntList
<1>2. ASSUME NEW f \in ConfForms, Conf!putGatewaySettings(c, f)
      PROVE  ConfInv'
  <2>1. put[c] = Conf!Idle /\ put' = [put EXCEPT ![c] = [at |-> "read", form |-> f]]
    BY <1>2 DEF Conf!putGatewaySettings
  <2>2. \A d \in Clients : d # c => put'[d] = put[d]
    BY <2>1
  <2>3. put'[c] = [at |-> "read", form |-> f] /\ put'[c] # Conf!Idle
    BY <2>1 DEF Conf!Idle
  <2>4. ConfTyped' /\ ConfControl'
    BY <1>2, <2>1, <2>2, <2>3 DEF Conf!putGatewaySettings
  <2>5. Emptied' <=> Emptied
    BY <2>1, <2>2, <2>3 DEF Conf!Idle
  <2>6. ~crossed' => ~crossed /\ \A d \in Clients : put[d] = Conf!Idle
    <3>1. crossed' = (crossed \/ Conf!Busy # {})
      BY <1>2 DEF Conf!putGatewaySettings
    <3> QED
      BY <3>1, Zenon DEF Conf!Busy
  <2> QED
    BY <1>1, <1>2, <2>2, <2>3, <2>4, <2>5, <2>6 DEF Conf!putGatewaySettings
<1>3. CASE Conf!ReadConf(c)
  <2> DEFINE u == Conf!upsertConf(text, put[c].form)
             new == [at |-> "truncate", form |-> put[c].form, lines |-> u]
  <2>1. put[c].at = "read" /\ put' = [put EXCEPT ![c] = new]
    BY <1>3 DEF Conf!ReadConf
  <2>2. put[c] # Conf!Idle /\ put[c].form \in ConfForms /\ text \in Seq(Conf!Lines) /\ server = "up"
    BY <2>1 DEF Conf!Idle
  <2>3. /\ u \in Seq(Conf!Lines) /\ Conf!Others(u) = Conf!Others(text)
        /\ Conf!readFile(u) = put[c].form
    BY <2>2, Upserted, ConfAssumption DEF Conf!WellFormed
  <2> HIDE DEF u
  <2>4. \A d \in Clients : d # c => put'[d] = put[d]
    BY <2>1
  <2>5. put'[c] = new /\ put'[c] # Conf!Idle
    BY <2>1 DEF Conf!Idle
  <2>6. ConfTyped' /\ ConfControl'
    BY <1>3, <2>1, <2>2, <2>3, <2>4, <2>5 DEF Conf!ReadConf
  <2>7. Emptied' <=> Emptied
    BY <2>1, <2>4, <2>5
  <2>8. ~crossed => Conf!Others(text) = others
    <3>1. ~crossed => ~Emptied
      BY <2>1, <2>2 DEF Conf!Idle
    <3>2. text # NoConf
      BY <2>2, ConfAssumption DEF Conf!WellFormed
    <3> QED
      BY <2>2, <3>1, <3>2
  <2> QED
    BY <1>1, <1>3, <2>2, <2>3, <2>4, <2>5, <2>6, <2>7, <2>8 DEF Conf!ReadConf
<1>4. CASE Conf!TruncateConf(c)
  <2>1. put[c].at = "truncate" /\ put' = [put EXCEPT ![c].at = "write"] /\ text' = <<>>
    BY <1>4 DEF Conf!TruncateConf
  <2>2. /\ put[c] # Conf!Idle /\ server = "up"
        /\ put[c] \in [at : {"truncate", "write"}, form : ConfForms, lines : Seq(Conf!Lines)]
    BY <2>1 DEF Conf!Idle
  <2>3. \A d \in Clients : d # c => put'[d] = put[d]
    BY <2>1
  <2>4. /\ put'[c] \in [at : {"write"}, form : ConfForms, lines : Seq(Conf!Lines)]
        /\ put'[c].form = put[c].form /\ put'[c].lines = put[c].lines
    BY <2>1, <2>2
  <2>5. <<>> \in Seq(Conf!Lines) /\ <<>> # NoConf
    <3>1. <<>> \in Seq(Conf!Lines)
      OBVIOUS
    <3> QED
      BY <3>1, ConfAssumption, Zenon DEF Conf!WellFormed
  <2>6. Emptied'
    BY <2>4
  <2>7. put'[c] # Conf!Idle
    BY <2>4 DEF Conf!Idle
  <2>8. ConfTyped' /\ ConfControl'
    BY <1>4, <2>1, <2>2, <2>3, <2>4, <2>5 DEF Conf!TruncateConf
  <2> QED
    BY <1>1, <1>4, <2>1, <2>2, <2>3, <2>4, <2>5, <2>6, <2>7, <2>8 DEF Conf!TruncateConf
<1>5. CASE Conf!WriteConf(c)
  <2>1. put[c].at = "write" /\ put' = [put EXCEPT ![c] = Conf!Idle] /\ form' = put[c].form
    BY <1>5 DEF Conf!WriteConf
  <2>2. /\ put[c] # Conf!Idle /\ server = "up" /\ Emptied
        /\ put[c].form \in ConfForms /\ put[c].lines \in Seq(Conf!Lines)
    BY <2>1 DEF Conf!Idle
  <2>3. \A d \in Clients : d # c => put'[d] = put[d]
    BY <2>1
  <2>4. put'[c] = Conf!Idle
    BY <2>1
  <2>5. text \in Seq(Conf!Lines)
    BY <2>2
  <2>6. PICK i \in {Len(text) + 1} \cup 2 .. Len(text) :
          text' = put[c].lines \o SubSeq(text, i, Len(text))
    BY <1>5 DEF Conf!WriteConf
  <2>7. SubSeq(text, i, Len(text)) \in Seq(Conf!Lines)
    BY <2>5, <2>6
  <2>8. text' \in Seq(Conf!Lines) /\ text' # NoConf
    <3>1. text' \in Seq(Conf!Lines)
      BY <2>2, <2>6, <2>7
    <3> QED
      BY <3>1, ConfAssumption, Zenon DEF Conf!WellFormed
  <2>9. ConfTyped' /\ ConfControl'
    BY <1>5, <2>1, <2>2, <2>3, <2>4, <2>8 DEF Conf!WriteConf
  <2>10. ~crossed => text' = put[c].lines
    <3> SUFFICES ASSUME text = <<>> PROVE text' = put[c].lines
      BY <2>2
    <3>1. i = 1 /\ SubSeq(text, i, Len(text)) = <<>>
      BY <2>6
    <3> QED
      BY <2>2, <2>6, <3>1
  <2>11. ~crossed => ~Emptied'
    BY <2>2, <2>3, <2>4 DEF Conf!Idle
  <2>12. ~crossed => Holds(text, form)'
    BY <1>5, <2>1, <2>2, <2>10 DEF Conf!WriteConf
  <2> QED
    BY <1>5, <2>2, <2>3, <2>4, <2>8, <2>9, <2>11, <2>12 DEF Conf!WriteConf, Conf!Idle
<1> QED
  BY <1>2, <1>3, <1>4, <1>5

(* Whatever the file, the environment and the forms are, the settings page and
   the server that reads gatebox.conf agree with it, and so does the file of
   the Docker daemon (settings.go:135-181, daemon_config.go). *)
THEOREM SettingsAreKept == AllSpec => []SettingsKept
<1>1. ConfInv /\ [Conf!Next]_conffile => ConfInv'
  <2> SUFFICES ASSUME ConfInv, [Conf!Next]_conffile
               PROVE  ConfInv'
    OBVIOUS
  <2>1. CASE UNCHANGED conffile
    <3>1. (Conf!Config(form))' = Conf!Config(form)
      BY <2>1 DEF conffile, Conf!Config, Conf!sourceInt, Conf!sourceIntList
    <3> QED
      BY <2>1, <3>1 DEF conffile, ConfInv, ConfTyped, ConfControl, ConfFollows, Untouched, Holds,
                        Emptied
  <2> QED
    BY <2>1, ServerKeeps, RequestKeeps DEF Conf!Next
<1>2. ConfInv => Conf!ConfKept
  <2> SUFFICES ASSUME ConfInv, ~crossed, Conf!Busy = {}, server = "up"
               PROVE  /\ Conf!Others(text) = others
                      /\ form # NoConf =>
                           /\ Conf!getGatewaySettings(text) = form
                           /\ fresh => \A k \in Conf!Settable :
                                \/ Conf!IsNumber(env[k]) \/ (k = "extra" /\ env[k] # <<>>)
                                \/ config[k] = form[k]
    BY DEF Conf!ConfKept
  <2>1. \A c \in Clients : put[c] = Conf!Idle
    BY DEF Conf!Busy
  <2>2. ~Emptied /\ text # NoConf
    BY <2>1 DEF Emptied, Conf!Idle, ConfInv, ConfControl
  <2>3. Holds(text, form) /\ (fresh /\ form # NoConf => config = Conf!Config(form))
    BY <2>2 DEF ConfInv, ConfFollows
  <2>4. ASSUME form # NoConf
        PROVE  /\ form \in Conf!Values /\ Conf!InRange(form)
               /\ \A k \in Conf!Ports : Len(form[k]) = 1
    BY <2>4, ConfAssumption DEF ConfInv, ConfTyped, ConfControl, Conf!WellFormed
  <2> QED
    BY <2>3, <2>4, Shown DEF Holds
<1>3. Daemon!SettingsKept /\ Conf!ConfKept => SettingsKept
  BY DEF SettingsKept
<1> QED
  BY <1>1, <1>2, <1>3, ConfStarts, DaemonFileKept, PartsStep, PTL DEF AllSpec

-----------------------------------------------------------------------------
(* The migration: what Build plans, for all tables; what Validate accepts   *)
(* and Render can do with it; and the runs, with users between them.        *)


(* What a value of a source field looks like: one text, or the texts of an array. *)
ValueOK(key, value) ==
  /\ value.form # "array" => \E t : value.v = <<t>>
  /\ key \in {"roots", "users"} /\ value.form = "array" => \E S : value.v \in Seq(S)
SpecOK(spec) == \A key \in DOMAIN spec : ValueOK(key, spec[key])

(* The kinds Build plans objects of, and what its plans are made of. *)
PlannedKinds == {"domain", "entrypoint", "middleware", "route", "service"}
PlannedOK(o) == o.kind \in PlannedKinds /\ SpecOK(o.spec)
ListOK(s) == \E S : s \in Seq(S) /\ \A o \in S : PlannedOK(o)
IsPlan(p) ==
  /\ p = [objects |-> p.objects, renamed |-> p.renamed, dropped |-> p.dropped,
          unmappable |-> p.unmappable, mids |-> p.mids]
  /\ ListOK(p.objects)

(* The steps of Build, over the rows x of one table. *)
PlanStep(w, x, q, i) ==
  CASE w = "domains" -> Moved!PlanDomain(q, x[i])
    [] w = "bindings" -> Moved!PlanEntrypoint(q, x[i])
    [] w = "frags" -> Moved!PlanFragment(q, x[i])
    [] w = "services" -> Moved!PlanService(q, x[i])
    [] w = "rows" -> Moved!PlanRoute(q, x.svc, x.id, i)
    [] w = "kind" -> Moved!AppendIf(q, x.objects[i], x.kind)

Fits(w, x, q) == IF w = "kind" THEN ListOK(q) ELSE IsPlan(q)
WalkIs(w, x, p, N, f) == f = [i \in 0 .. N |-> IF i = 0 THEN p ELSE PlanStep(w, x, f[i - 1], i)]

(* The function by which Through goes over the rows exists, and what every  *)
(* step keeps is kept to the end.                                           *)
LEMMA Walked ==
  ASSUME NEW w, NEW x, NEW p, NEW N \in Nat
  PROVE  \E f : WalkIs(w, x, p, N, f)
<1> DEFINE T == {n \in 0 .. N : \E f : WalkIs(w, x, p, n, f)}
<1>1. 0 \in T
  <2>1. PICK f : f = [i \in 0 .. 0 |-> p]
    OBVIOUS
  <2>2. f = [i \in 0 .. 0 |-> IF i = 0 THEN p ELSE PlanStep(w, x, f[i - 1], i)]
    BY <2>1
  <2> QED
    BY <2>2 DEF WalkIs
<1>2. ASSUME NEW n \in 1 .. N, n - 1 \in T PROVE n \in T
  <2>1. PICK f : f = [i \in 0 .. n - 1 |-> IF i = 0 THEN p ELSE PlanStep(w, x, f[i - 1], i)]
    BY <1>2 DEF WalkIs
  <2>2. PICK g : g = [i \in 0 .. n |-> IF i = n THEN PlanStep(w, x, f[n - 1], n) ELSE f[i]]
    OBVIOUS
  <2>3. ASSUME NEW i \in 0 .. n
        PROVE  g[i] = IF i = 0 THEN p ELSE PlanStep(w, x, g[i - 1], i)
    <3>1. i # 0 => g[i - 1] = f[i - 1]
      BY <2>2
    <3>2. CASE i = n
      BY <2>2, <3>1, <3>2
    <3>3. CASE i # n
      <4>1. i \in 0 .. n - 1
        BY <3>3
      <4>2. f[i] = IF i = 0 THEN p ELSE PlanStep(w, x, f[i - 1], i)
        BY <2>1, <4>1
      <4> QED
        BY <2>2, <3>1, <3>3, <4>2
    <3> QED
      BY <3>2, <3>3
  <2>4. g = [i \in 0 .. n |-> g[i]]
    BY <2>2
  <2>5. g = [i \in 0 .. n |-> IF i = 0 THEN p ELSE PlanStep(w, x, g[i - 1], i)]
    BY <2>3, <2>4, Zenon
  <2> QED
    BY <2>5 DEF WalkIs
<1> HIDE DEF T
<1>3. N \in T
  BY <1>1, <1>2, UpTo
<1> QED
  BY <1>3 DEF T

LEMMA WalkKeeps ==
  ASSUME NEW w, NEW x, NEW p, NEW N \in Nat, NEW f, Fits(w, x, p), WalkIs(w, x, p, N, f),
         \A q : \A i \in 1 .. N : Fits(w, x, q) => Fits(w, x, PlanStep(w, x, q, i))
  PROVE  Fits(w, x, f[N])
<1> DEFINE T == {n \in 0 .. N : Fits(w, x, f[n])}
<1>1. f[0] = p /\ \A n \in 1 .. N : f[n] = PlanStep(w, x, f[n - 1], n)
  <2>1. \A n \in 0 .. N : f[n] = IF n = 0 THEN p ELSE PlanStep(w, x, f[n - 1], n)
    BY Zenon DEF WalkIs
  <2>2. 0 \in 0 .. N /\ \A n \in 1 .. N : n \in 0 .. N /\ n # 0
    OBVIOUS
  <2> QED
    BY <2>1, <2>2, Zenon
<1>2. 0 \in T
  BY <1>1
<1>3. \A n \in 1 .. N : n - 1 \in T => n \in T
  BY <1>1
<1> HIDE DEF T
<1>4. N \in T
  BY <1>2, <1>3, UpTo
<1> QED
  BY <1>4 DEF T

(* Each table is gone through row by row (planDomains, planEntrypoints,     *)
(* planFragments, planServices, and the routes of a service).               *)
LEMMA DomainsPlanned ==
  ASSUME NEW rows, Len(rows) \in Nat, NEW p, IsPlan(p),
         \A q : \A i \in 1 .. Len(rows) : IsPlan(q) => IsPlan(Moved!PlanDomain(q, rows[i]))
  PROVE  IsPlan(Moved!PlanDomains(p, rows))
<1>1. PICK f : WalkIs("domains", rows, p, Len(rows), f)
  BY Walked
<1>2. \A q, i : PlanStep("domains", rows, q, i) = Moved!PlanDomain(q, rows[i])
  BY DEF PlanStep
<1>3. \A g : WalkIs("domains", rows, p, Len(rows), g) <=>
        g = [i \in 0 .. Len(rows) |-> IF i = 0 THEN p ELSE Moved!PlanDomain(g[i - 1], rows[i])]
  BY <1>2, Zenon DEF WalkIs
<1>4. PICK g : /\ g = [i \in 0 .. Len(rows) |-> IF i = 0 THEN p ELSE Moved!PlanDomain(g[i - 1], rows[i])]
               /\ Moved!PlanDomains(p, rows) = g[Len(rows)]
  BY <1>1, <1>3, Zenon DEF Moved!Through, Moved!PlanDomains
<1>5. WalkIs("domains", rows, p, Len(rows), g)
  BY <1>3, <1>4
<1>6. Fits("domains", rows, g[Len(rows)])
  BY <1>2, <1>5, WalkKeeps DEF Fits
<1> QED
  BY <1>4, <1>6 DEF Fits

LEMMA EntrypointsPlanned ==
  ASSUME NEW rows, Len(rows) \in Nat, NEW p, IsPlan(p),
         \A q : \A i \in 1 .. Len(rows) : IsPlan(q) => IsPlan(Moved!PlanEntrypoint(q, rows[i]))
  PROVE  IsPlan(Moved!PlanEntrypoints(p, rows))
<1>1. PICK f : WalkIs("bindings", rows, p, Len(rows), f)
  BY Walked
<1>2. \A q, i : PlanStep("bindings", rows, q, i) = Moved!PlanEntrypoint(q, rows[i])
  BY DEF PlanStep
<1>3. \A g : WalkIs("bindings", rows, p, Len(rows), g) <=>
        g = [i \in 0 .. Len(rows) |-> IF i = 0 THEN p ELSE Moved!PlanEntrypoint(g[i - 1], rows[i])]
  BY <1>2, Zenon DEF WalkIs
<1>4. PICK g : /\ g = [i \in 0 .. Len(rows) |-> IF i = 0 THEN p ELSE Moved!PlanEntrypoint(g[i - 1], rows[i])]
               /\ Moved!PlanEntrypoints(p, rows) = g[Len(rows)]
  BY <1>1, <1>3, Zenon DEF Moved!Through, Moved!PlanEntrypoints
<1>5. WalkIs("bindings", rows, p, Len(rows), g)
  BY <1>3, <1>4
<1>6. Fits("bindings", rows, g[Len(rows)])
  BY <1>2, <1>5, WalkKeeps DEF Fits
<1> QED
  BY <1>4, <1>6 DEF Fits

LEMMA FragmentsPlanned ==
  ASSUME NEW rows, Len(rows) \in Nat, NEW p, IsPlan(p),
         \A q : \A i \in 1 .. Len(rows) : IsPlan(q) => IsPlan(Moved!PlanFragment(q, rows[i]))
  PROVE  IsPlan(Moved!PlanFragments(p, rows))
<1>1. PICK f : WalkIs("frags", rows, p, Len(rows), f)
  BY Walked
<1>2. \A q, i : PlanStep("frags", rows, q, i) = Moved!PlanFragment(q, rows[i])
  BY DEF PlanStep
<1>3. \A g : WalkIs("frags", rows, p, Len(rows), g) <=>
        g = [i \in 0 .. Len(rows) |-> IF i = 0 THEN p ELSE Moved!PlanFragment(g[i - 1], rows[i])]
  BY <1>2, Zenon DEF WalkIs
<1>4. PICK g : /\ g = [i \in 0 .. Len(rows) |-> IF i = 0 THEN p ELSE Moved!PlanFragment(g[i - 1], rows[i])]
               /\ Moved!PlanFragments(p, rows) = g[Len(rows)]
  BY <1>1, <1>3, Zenon DEF Moved!Through, Moved!PlanFragments
<1>5. WalkIs("frags", rows, p, Len(rows), g)
  BY <1>3, <1>4
<1>6. Fits("frags", rows, g[Len(rows)])
  BY <1>2, <1>5, WalkKeeps DEF Fits
<1> QED
  BY <1>4, <1>6 DEF Fits

LEMMA ServicesPlanned ==
  ASSUME NEW rows, Len(rows) \in Nat, NEW p, IsPlan(p),
         \A q : \A i \in 1 .. Len(rows) : IsPlan(q) => IsPlan(Moved!PlanService(q, rows[i]))
  PROVE  IsPlan(Moved!PlanServices(p, rows))
<1>1. PICK f : WalkIs("services", rows, p, Len(rows), f)
  BY Walked
<1>2. \A q, i : PlanStep("services", rows, q, i) = Moved!PlanService(q, rows[i])
  BY DEF PlanStep
<1>3. \A g : WalkIs("services", rows, p, Len(rows), g) <=>
        g = [i \in 0 .. Len(rows) |-> IF i = 0 THEN p ELSE Moved!PlanService(g[i - 1], rows[i])]
  BY <1>2, Zenon DEF WalkIs
<1>4. PICK g : /\ g = [i \in 0 .. Len(rows) |-> IF i = 0 THEN p ELSE Moved!PlanService(g[i - 1], rows[i])]
               /\ Moved!PlanServices(p, rows) = g[Len(rows)]
  BY <1>1, <1>3, Zenon DEF Moved!Through, Moved!PlanServices
<1>5. WalkIs("services", rows, p, Len(rows), g)
  BY <1>3, <1>4
<1>6. Fits("services", rows, g[Len(rows)])
  BY <1>2, <1>5, WalkKeeps DEF Fits
<1> QED
  BY <1>4, <1>6 DEF Fits

(* The rows of one service. *)
RowsOf(svc, id) == [svc |-> svc, id |-> id]
LEMMA RoutesPlanned ==
  ASSUME NEW svc, NEW id, Len(svc.rows) \in Nat, NEW p, IsPlan(p),
         \A q, i : IsPlan(q) => IsPlan(Moved!PlanRoute(q, svc, id, i))
  PROVE  IsPlan(Moved!PlanRoutes(p, svc, id))
<1>1. PICK f : WalkIs("rows", RowsOf(svc, id), p, Len(svc.rows), f)
  BY Walked
<1>2. \A q, i : PlanStep("rows", RowsOf(svc, id), q, i) = Moved!PlanRoute(q, svc, id, i)
  BY DEF PlanStep, RowsOf
<1>3. \A g : WalkIs("rows", RowsOf(svc, id), p, Len(svc.rows), g) <=>
        g = [i \in 0 .. Len(svc.rows) |-> IF i = 0 THEN p ELSE Moved!PlanRoute(g[i - 1], svc, id, i)]
  BY <1>2, Zenon DEF WalkIs
<1>4. PICK g : /\ g = [i \in 0 .. Len(svc.rows) |-> IF i = 0 THEN p ELSE Moved!PlanRoute(g[i - 1], svc, id, i)]
               /\ Moved!PlanRoutes(p, svc, id) = g[Len(svc.rows)]
  BY <1>1, <1>3, Zenon DEF Moved!Through, Moved!PlanRoutes
<1>5. WalkIs("rows", RowsOf(svc, id), p, Len(svc.rows), g)
  BY <1>3, <1>4
<1>6. Fits("rows", RowsOf(svc, id), g[Len(svc.rows)])
  BY <1>2, <1>5, WalkKeeps DEF Fits
<1> QED
  BY <1>4, <1>6 DEF Fits

(* What a plan loses nothing by: marks, and objects that are added. *)
LEMMA EmptyOK == ListOK(<<>>)
<1> SUFFICES \E S : <<>> \in Seq(S) /\ \A o \in S : PlannedOK(o)
  BY DEF ListOK
<1>1. PICK S : S = {}
  OBVIOUS
<1>2. <<>> \in Seq(S) /\ \A o \in S : PlannedOK(o)
  BY <1>1
<1> HIDE <1>1
<1> QED
  BY <1>2, Zenon

LEMMA PlanFields ==
  ASSUME NEW p, IsPlan(p), NEW x
  PROVE  /\ [p EXCEPT !.objects = x] = [objects |-> x, renamed |-> p.renamed, dropped |-> p.dropped,
                                       unmappable |-> p.unmappable, mids |-> p.mids]
         /\ IsPlan([p EXCEPT !.dropped = x])
         /\ IsPlan([p EXCEPT !.renamed = x])
         /\ IsPlan([p EXCEPT !.unmappable = x])
         /\ IsPlan([p EXCEPT !.mids = x])
<1>1. [p EXCEPT !.objects = x] = [objects |-> x, renamed |-> p.renamed, dropped |-> p.dropped,
                                       unmappable |-> p.unmappable, mids |-> p.mids]
  BY DEF IsPlan
<1>2. IsPlan([p EXCEPT !.dropped = x]) BY DEF IsPlan
<1>3. IsPlan([p EXCEPT !.renamed = x]) BY DEF IsPlan
<1>4. IsPlan([p EXCEPT !.unmappable = x]) BY DEF IsPlan
<1>5. IsPlan([p EXCEPT !.mids = x]) BY DEF IsPlan
<1> QED BY <1>1, <1>2, <1>3, <1>4, <1>5

LEMMA Added ==
  ASSUME NEW p, IsPlan(p), NEW kind \in PlannedKinds, NEW id, NEW source, NEW key, NEW spec, SpecOK(spec)
  PROVE  IsPlan(Moved!Add(p, kind, id, source, key, spec))
<1>1. PICK o : o = [kind |-> kind, id |-> id, source |-> source, key |-> key, spec |-> spec]
  OBVIOUS
<1>2. PICK S : p.objects \in Seq(S) /\ \A e \in S : PlannedOK(e)
  BY DEF IsPlan, ListOK
<1>3. PICK list : list = Append(p.objects, o)
  OBVIOUS
<1>4. ListOK(list)
  <2>1. PlannedOK(o)
    BY <1>1 DEF PlannedOK
  <2>2. list \in Seq(S \cup {o})
    BY <1>2, <1>3
  <2> QED
    BY <1>2, <2>1, <2>2 DEF ListOK
<1>5. IsPlan([p EXCEPT !.objects = list])
  BY <1>4, PlanFields, SMTT(30) DEF IsPlan
<1>6. IsPlan([p EXCEPT !.dropped = @ \cup {source, Moved!SourceOf(p, kind, id)}])
  BY PlanFields
<1> QED
  BY <1>1, <1>3, <1>5, <1>6 DEF Moved!Add

LEMMA Marked ==
  ASSUME NEW p, IsPlan(p), NEW x, NEW kind, NEW id
  PROVE  /\ IsPlan(Moved!Unmappable(p, x))
         /\ IsPlan(Moved!NoteClash(p, kind, id, x))
         /\ IsPlan([p EXCEPT !.unmappable = @ \cup x])
<1>1. IsPlan(Moved!Unmappable(p, x))
  BY PlanFields DEF Moved!Unmappable
<1>2. IsPlan(Moved!NoteClash(p, kind, id, x))
  BY PlanFields DEF Moved!NoteClash
<1>3. IsPlan([p EXCEPT !.unmappable = @ \cup x])
  BY PlanFields
<1> QED
  BY <1>1, <1>2, <1>3

(* The fields Build writes have the form fields have. *)
LEMMA SpecsJoined ==
  ASSUME NEW f, SpecOK(f)
  PROVE  /\ \A g : SpecOK(g) => SpecOK(Moved!Also(f, g))
         /\ \A k, v : ValueOK(k, v) => SpecOK(Moved!With(f, k, v))
BY DEF SpecOK, Moved!Also, Moved!With

LEMMA ValuesOK ==
  /\ \A k, t : ValueOK(k, Moved!Text(t)) /\ ValueOK(k, Moved!Number(t)) /\ ValueOK(k, Moved!Switch(t))
  /\ \A k, s : k \notin {"roots", "users"} => ValueOK(k, Moved!Array(s))
  /\ \A k, t : ValueOK(k, Moved!Array(<<t>>))
  /\ \A k : ValueOK(k, Moved!Array(<<>>))
<1>1. \A k, t : ValueOK(k, Moved!Text(t)) /\ ValueOK(k, Moved!Number(t))
  BY DEF ValueOK, Moved!Text, Moved!Number
<1>2. \A k, t : ValueOK(k, Moved!Switch(t))
  BY DEF ValueOK, Moved!Switch
<1>3. \A k, s : k \notin {"roots", "users"} => ValueOK(k, Moved!Array(s))
  BY DEF ValueOK, Moved!Array
<1>4. \A k, t : ValueOK(k, Moved!Array(<<t>>))
  <2> SUFFICES ASSUME NEW k, NEW t PROVE ValueOK(k, Moved!Array(<<t>>))
    OBVIOUS
  <2>1. <<t>> \in Seq({t})
    OBVIOUS
  <2> QED
    BY <2>1 DEF ValueOK, Moved!Array
<1>5. \A k : ValueOK(k, Moved!Array(<<>>))
  <2>1. <<>> \in Seq({})
    OBVIOUS
  <2> QED
    BY <2>1 DEF ValueOK, Moved!Array
<1> QED
  BY <1>1, <1>2, <1>3, <1>4, <1>5

LEMMA SpecsOK ==
  /\ \A t : SpecOK([name |-> Moved!Text(t)])
  /\ \A t, s : SpecOK(Moved!Entrypoint(t, s))
  /\ \A t, u, s : SpecOK([name |-> Moved!Text(t), type |-> Moved!Text(u), code |-> Moved!Text(s)])
  /\ \A t, u : SpecOK([name |-> Moved!Text(t), type |-> Moved!Text(u)])
  /\ \A a, b, c, d, e, f, g, h : ValueOK("roots", g) =>
       SpecOK([name |-> Moved!Text(a), service |-> Moved!Text(b), subdomain |-> Moved!Text(c), entrypoint |-> Moved!Text(d),
               enabled |-> Moved!Switch(e), tls |-> Moved!Text(f), roots |-> g, middlewares |-> Moved!Array(h)])
<1>1. \A t : SpecOK([name |-> Moved!Text(t)])
  BY ValuesOK DEF SpecOK
<1>2. \A t, s : SpecOK(Moved!Entrypoint(t, s))
  <2>1. \A a, b, c, d : SpecOK([protocol |-> Moved!Text(a), ports |-> Moved!Array(b), network |-> Moved!Text(c),
                                enabled |-> Moved!Switch(d)])
    BY ValuesOK DEF SpecOK
  <2> QED
    BY <2>1, Zenon DEF Moved!Entrypoint
<1>3. \A t, u, s : SpecOK([name |-> Moved!Text(t), type |-> Moved!Text(u), code |-> Moved!Text(s)])
  BY ValuesOK DEF SpecOK
<1>4. \A t, u : SpecOK([name |-> Moved!Text(t), type |-> Moved!Text(u)])
  BY ValuesOK DEF SpecOK
<1>5. \A a, b, c, d, e, f, g, h : ValueOK("roots", g) =>
       SpecOK([name |-> Moved!Text(a), service |-> Moved!Text(b), subdomain |-> Moved!Text(c), entrypoint |-> Moved!Text(d),
               enabled |-> Moved!Switch(e), tls |-> Moved!Text(f), roots |-> g, middlewares |-> Moved!Array(h)])
  BY ValuesOK DEF SpecOK
<1> QED
  BY <1>1, <1>2, <1>3, <1>4, <1>5

LEMMA BackendOK == \A svc : SpecOK(Moved!BackendSpec(svc))
<1>1. SpecOK(<<>>)
  BY DEF SpecOK
<1>2. \A t, u : SpecOK(Moved!With(Moved!With(<<>>, "backend.host", Moved!Text(t)), "backend.port", Moved!Number(u)))
  <2> SUFFICES ASSUME NEW t, NEW u
               PROVE  SpecOK(Moved!With(Moved!With(<<>>, "backend.host", Moved!Text(t)), "backend.port", Moved!Number(u)))
    OBVIOUS
  <2>1. PICK f : f = Moved!With(<<>>, "backend.host", Moved!Text(t))
    OBVIOUS
  <2>2. SpecOK(f)
    BY <1>1, <2>1, SpecsJoined, ValuesOK
  <2>3. SpecOK(Moved!With(f, "backend.port", Moved!Number(u)))
    BY <2>2, SpecsJoined, ValuesOK
  <2> QED
    BY <2>1, <2>3
<1> QED
  BY <1>2 DEF Moved!BackendSpec

LEMMA RouteSpecOK == \A p, svc, id, i : SpecOK(Moved!RouteSpec(p, svc, id, i))
<1> SUFFICES ASSUME NEW p, NEW svc, NEW id, NEW i PROVE SpecOK(Moved!RouteSpec(p, svc, id, i))
  OBVIOUS
<1> DEFINE R(a, b, c, d, e, f, g, h) ==
  [name |-> Moved!Text(a), service |-> Moved!Text(b), subdomain |-> Moved!Text(c), entrypoint |-> Moved!Text(d),
   enabled |-> Moved!Switch(e), tls |-> Moved!Text(f), roots |-> Moved!Array(g), middlewares |-> Moved!Array(h)]
<1>1. ASSUME NEW a, NEW b, NEW c, NEW d, NEW e, NEW f, NEW g, NEW h, NEW n, ValueOK("roots", Moved!Array(g))
      PROVE  /\ SpecOK(Moved!Also(R(a, b, c, d, e, f, g, h), Moved!BackendSpec(svc)))
             /\ SpecOK(Moved!With(Moved!Also(R(a, b, c, d, e, f, g, h), Moved!BackendSpec(svc)),
                                   "port", Moved!Number(n)))
  <2>1. PICK r : r = R(a, b, c, d, e, f, g, h)
    OBVIOUS
  <2>2. SpecOK(r)
    BY <1>1, <2>1, SpecsOK
  <2>3. PICK s : s = Moved!Also(r, Moved!BackendSpec(svc))
    OBVIOUS
  <2>4. SpecOK(s)
    BY <2>2, <2>3, BackendOK, SpecsJoined
  <2>5. SpecOK(Moved!With(s, "port", Moved!Number(n)))
    BY <2>4, SpecsJoined, ValuesOK
  <2> QED
    BY <2>1, <2>3, <2>4, <2>5
<1>2. \A r : ValueOK("roots", Moved!Array(IF r = "" THEN <<>> ELSE <<TextSlug(r)>>))
  BY ValuesOK, Zenon
<1>3. PICK a, b, c, d, e, f, g, h, n :
        /\ ValueOK("roots", Moved!Array(g))
        /\ Moved!RouteSpec(p, svc, id, i) \in
             {Moved!Also(R(a, b, c, d, e, f, g, h), Moved!BackendSpec(svc)),
              Moved!With(Moved!Also(R(a, b, c, d, e, f, g, h), Moved!BackendSpec(svc)),
                                   "port", Moved!Number(n))}
  <2> DEFINE dd == svc.rows[i]
             proto == IF dd.protocol = "" THEN "https" ELSE dd.protocol
             g == IF dd.root = "" THEN <<>> ELSE <<TextSlug(dd.root)>>
             a == Moved!RouteName(svc, i)
             d == TextSlug(proto)
             f == IF dd.protocol = "http" THEN "off" ELSE "auto"
             h == Moved!Middlewares(p, svc)
  <2>1. ValueOK("roots", Moved!Array(g))
    BY <1>2
  <2>2. Moved!RouteSpec(p, svc, id, i) =
          IF dd.port = "" THEN Moved!Also(R(a, id, dd.sub, d, svc.enabled, f, g, h), Moved!BackendSpec(svc))
          ELSE Moved!With(Moved!Also(R(a, id, dd.sub, d, svc.enabled, f, g, h), Moved!BackendSpec(svc)),
                                   "port", Moved!Number(dd.port))
    BY Zenon DEF Moved!RouteSpec
  <2> HIDE DEF g, a, d, f, h, R
  <2> QED
    BY <2>1, <2>2, Zenon
<1> QED
  BY <1>1, <1>3

(* The steps of Build, one by one. *)
LEMMA DomainKeeps == \A p, d : IsPlan(p) => IsPlan(Moved!PlanDomain(p, d))
<1> SUFFICES ASSUME NEW p, NEW d, IsPlan(p) PROVE IsPlan(Moved!PlanDomain(p, d))
  OBVIOUS
<1>1. \A q, id, source, key, t : IsPlan(q) =>
        /\ IsPlan(Moved!Unmappable(q, source))
        /\ IsPlan(Moved!Add(q, "domain", id, source, key, [name |-> Moved!Text(t)]))
  BY Added, Marked, SpecsOK DEF PlannedKinds
<1> QED
  BY <1>1, Zenon DEF Moved!PlanDomain

LEMMA EntrypointKeeps == \A p, b : IsPlan(p) => IsPlan(Moved!PlanEntrypoint(p, b))
<1> SUFFICES ASSUME NEW p, NEW b, IsPlan(p) PROVE IsPlan(Moved!PlanEntrypoint(p, b))
  OBVIOUS
<1>1. \A id, source, key, t, ns :
        /\ IsPlan(Moved!Unmappable(p, source))
        /\ IsPlan(Moved!Add(p, "entrypoint", id, source, key, Moved!Entrypoint(t, ns)))
  BY Added, Marked, SpecsOK DEF PlannedKinds
<1> QED
  BY <1>1, Zenon DEF Moved!PlanEntrypoint

LEMMA FragmentKeeps == \A p, f : IsPlan(p) => IsPlan(Moved!PlanFragment(p, f))
<1> SUFFICES ASSUME NEW p, NEW f, IsPlan(p) PROVE IsPlan(Moved!PlanFragment(p, f))
  OBVIOUS
<1>1. \A id, source, key, t, u, c :
        /\ IsPlan(Moved!Unmappable(p, source))
        /\ IsPlan(Moved!Add([p EXCEPT !.mids = Moved!With(@, f.id, id)], "middleware", id, source, key,
                     [name |-> Moved!Text(t), type |-> Moved!Text(u), code |-> Moved!Text(c)]))
  <2> SUFFICES ASSUME NEW id, NEW source, NEW key, NEW t, NEW u, NEW c
               PROVE  /\ IsPlan(Moved!Unmappable(p, source))
        /\ IsPlan(Moved!Add([p EXCEPT !.mids = Moved!With(@, f.id, id)], "middleware", id, source, key,
                     [name |-> Moved!Text(t), type |-> Moved!Text(u), code |-> Moved!Text(c)]))
    OBVIOUS
  <2>1. PICK q : q = [p EXCEPT !.mids = Moved!With(@, f.id, id)]
    OBVIOUS
  <2>2. IsPlan(q)
    BY <2>1, PlanFields
  <2>3. PICK r : r = [name |-> Moved!Text(t), type |-> Moved!Text(u), code |-> Moved!Text(c)] /\ SpecOK(r)
    BY SpecsOK
  <2>4. IsPlan(Moved!Add(q, "middleware", id, source, key, r))
    BY <2>2, <2>3, Added DEF PlannedKinds
  <2> QED
    BY <2>1, <2>3, <2>4, Marked
<1> QED
  BY <1>1, Zenon DEF Moved!PlanFragment

LEMMA EnsuredKeeps ==
  /\ \A p, t : IsPlan(p) => IsPlan(Moved!EnsureEntrypoint(p, t))
  /\ \A p, t : IsPlan(p) => IsPlan(Moved!EnsureDomain(p, t))
<1>1. \A q, id, source, key, t, ns : IsPlan(q) =>
        /\ IsPlan(Moved!Add(q, "entrypoint", id, source, key, Moved!Entrypoint(t, ns)))
        /\ IsPlan(Moved!Add(q, "domain", id, source, key, [name |-> Moved!Text(t)]))
  BY Added, SpecsOK DEF PlannedKinds
<1> QED
  BY <1>1, Zenon DEF Moved!EnsureEntrypoint, Moved!EnsureDomain

LEMMA RouteKeeps == \A p, i, svc, id : IsPlan(p) => IsPlan(Moved!PlanRoute(p, svc, id, i))
<1> SUFFICES ASSUME NEW p, NEW i, NEW svc, NEW id, IsPlan(p) PROVE IsPlan(Moved!PlanRoute(p, svc, id, i))
  OBVIOUS
<1>1. \A q, j, source, key : IsPlan(q) => IsPlan(Moved!Add(q, "route", j, source, key, Moved!RouteSpec(p, svc, id, i)))
  BY Added, RouteSpecOK DEF PlannedKinds
<1>2. \A q, t, u, kind, j, x : IsPlan(q) =>
        /\ IsPlan(Moved!EnsureDomain(Moved!EnsureEntrypoint(Moved!NoteClash(q, kind, j, x), t), u))
  BY Marked, EnsuredKeeps
<1>3. \A q, x : IsPlan(q) => IsPlan(Moved!Unmappable(q, x)) /\ IsPlan([q EXCEPT !.unmappable = @ \cup x])
  BY Marked
<1> QED
  BY <1>1, <1>2, <1>3, Zenon DEF Moved!PlanRoute

LEMMA ServiceKeeps ==
  \A p, svc : IsPlan(p) /\ Len(svc.rows) \in Nat => IsPlan(Moved!PlanService(p, svc))
<1> SUFFICES ASSUME NEW p, NEW svc, IsPlan(p), Len(svc.rows) \in Nat PROVE IsPlan(Moved!PlanService(p, svc))
  OBVIOUS
<1>1. \A q, id : IsPlan(q) => IsPlan(Moved!PlanRoutes(q, svc, id))
  BY RoutesPlanned, RouteKeeps
<1>2. \A kind, id, x : IsPlan(Moved!Unmappable(p, x)) /\ IsPlan(Moved!NoteClash(p, kind, id, x))
  BY Marked
<1>3. \A q, x : IsPlan(q) => IsPlan(Moved!Unmappable(q, x))
  BY Marked
<1>4. \A t, u, c : LET base == Moved!Also([name |-> Moved!Text(t), type |-> Moved!Text(u)], Moved!BackendSpec(svc))
                 IN SpecOK(base) /\ SpecOK(Moved!With(base, "root", Moved!Text(c)))
  <2> SUFFICES ASSUME NEW t, NEW u, NEW c
               PROVE LET base == Moved!Also([name |-> Moved!Text(t), type |-> Moved!Text(u)], Moved!BackendSpec(svc))
                 IN SpecOK(base) /\ SpecOK(Moved!With(base, "root", Moved!Text(c)))
    OBVIOUS
  <2>1. PICK r : r = [name |-> Moved!Text(t), type |-> Moved!Text(u)] /\ SpecOK(r)
    BY SpecsOK
  <2>2. PICK b : b = Moved!Also(r, Moved!BackendSpec(svc)) /\ SpecOK(b)
    BY <2>1, BackendOK, SpecsJoined
  <2>3. SpecOK(Moved!With(b, "root", Moved!Text(c)))
    BY <2>2, SpecsJoined, ValuesOK
  <2> QED
    BY <2>1, <2>2, <2>3
<1>5. \A q, id, source, key, spec : IsPlan(q) /\ SpecOK(spec)
        => IsPlan(Moved!Add(q, "service", id, source, key, spec))
  BY Added DEF PlannedKinds
<1>6. PICK spec : /\ SpecOK(spec)
                  /\ spec = LET base == Moved!Also([name |-> Moved!Text(svc.name), type |-> Moved!Text(svc.type)], Moved!BackendSpec(svc))
                            IN IF svc.type = "file_server" THEN Moved!With(base, "root", Moved!Text(svc.root)) ELSE base
  BY <1>4
<1> QED
  BY <1>1, <1>2, <1>3, <1>5, <1>6, Zenon DEF Moved!PlanService

(* The tables are sequences of rows. *)
TablesOK(o) ==
  /\ Len(o.domains) \in Nat /\ Len(o.bindings) \in Nat /\ Len(o.frags) \in Nat
  /\ Len(o.services) \in Nat
  /\ \A i \in 1 .. Len(o.services) : Len(o.services[i].rows) \in Nat

(* Build makes a plan, whatever the tables hold. *)
LEMMA Planned == \A o : TablesOK(o) => IsPlan(Moved!Build(o))
<1> SUFFICES ASSUME NEW o, TablesOK(o) PROVE IsPlan(Moved!Build(o))
  OBVIOUS
<1>1. IsPlan(Moved!EmptyPlan)
  BY EmptyOK DEF IsPlan, Moved!EmptyPlan
<1>2. PICK d : d = Moved!PlanDomains(Moved!EmptyPlan, o.domains) /\ IsPlan(d)
  BY <1>1, DomainsPlanned, DomainKeeps DEF TablesOK
<1>3. PICK e : e = Moved!PlanEntrypoints(d, o.bindings) /\ IsPlan(e)
  BY <1>2, EntrypointsPlanned, EntrypointKeeps DEF TablesOK
<1>4. PICK m : m = Moved!PlanFragments(e, o.frags) /\ IsPlan(m)
  BY <1>3, FragmentsPlanned, FragmentKeeps DEF TablesOK
<1>5. IsPlan(Moved!PlanServices(m, o.services))
  BY <1>4, ServicesPlanned, ServiceKeeps DEF TablesOK
<1> QED
  BY <1>2, <1>3, <1>4, <1>5 DEF Moved!Build

(* Plan.Sort keeps the objects. *)
LEMMA JoinedOK == \A s, t : ListOK(s) /\ ListOK(t) => ListOK(s \o t)
<1> SUFFICES ASSUME NEW s, NEW t, ListOK(s), ListOK(t)
             PROVE  \E S : s \o t \in Seq(S) /\ \A o \in S : PlannedOK(o)
  BY DEF ListOK
<1>1. PICK S : s \in Seq(S) /\ \A o \in S : PlannedOK(o)
  BY DEF ListOK
<1>2. PICK T : t \in Seq(T) /\ \A o \in T : PlannedOK(o)
  BY DEF ListOK
<1>3. s \in Seq(S \cup T) /\ t \in Seq(S \cup T)
  BY <1>1, <1>2
<1>4. s \o t \in Seq(S \cup T) /\ \A o \in S \cup T : PlannedOK(o)
  BY <1>1, <1>2, <1>3
<1> QED
  BY <1>4

(* The objects of one kind. *)
Choice(list, kind) == [objects |-> list, kind |-> kind]
LEMMA KindPlanned ==
  ASSUME NEW list, NEW kind, ListOK(list)
  PROVE  ListOK(Moved!OfKind(list, kind))
<1>1. PICK f : WalkIs("kind", Choice(list, kind), <<>>, Len(list), f)
  <2>1. Len(list) \in Nat
    BY DEF ListOK
  <2> QED
    BY <2>1, Walked
<1>2. \A q, i : PlanStep("kind", Choice(list, kind), q, i) = Moved!AppendIf(q, list[i], kind)
  BY DEF PlanStep, Choice
<1>3. \A g : WalkIs("kind", Choice(list, kind), <<>>, Len(list), g) <=>
        g = [i \in 0 .. Len(list) |-> IF i = 0 THEN <<>> ELSE Moved!AppendIf(g[i - 1], list[i], kind)]
  BY <1>2, Zenon DEF WalkIs
<1>4. PICK g : /\ g = [i \in 0 .. Len(list) |-> IF i = 0 THEN <<>> ELSE Moved!AppendIf(g[i - 1], list[i], kind)]
               /\ Moved!OfKind(list, kind) = g[Len(list)]
  BY <1>1, <1>3, Zenon DEF Moved!Through, Moved!OfKind
<1>5. WalkIs("kind", Choice(list, kind), <<>>, Len(list), g)
  BY <1>3, <1>4
<1>6. Fits("kind", Choice(list, kind), <<>>)
  BY EmptyOK DEF Fits
<1>7. \A q : \A i \in 1 .. Len(list) : Fits("kind", Choice(list, kind), q)
        => Fits("kind", Choice(list, kind), PlanStep("kind", Choice(list, kind), q, i))
  <2> SUFFICES ASSUME NEW q, NEW i \in 1 .. Len(list), ListOK(q)
               PROVE  ListOK(Moved!AppendIf(q, list[i], kind))
    BY <1>2 DEF Fits
  <2>1. PICK S : q \in Seq(S) /\ \A o \in S : PlannedOK(o)
    BY DEF ListOK
  <2>2. PICK o : o = list[i] /\ PlannedOK(o)
    BY DEF ListOK
  <2>3. Append(q, o) \in Seq(S \cup {o})
    BY <2>1
  <2>4. ListOK(Append(q, o))
    BY <2>1, <2>2, <2>3 DEF ListOK
  <2> QED
    BY <2>2, <2>4 DEF Moved!AppendIf
<1>8. Len(list) \in Nat
  BY DEF ListOK
<1>9. Fits("kind", Choice(list, kind), g[Len(list)])
  BY <1>5, <1>6, <1>7, <1>8, WalkKeeps
<1> QED
  BY <1>4, <1>9 DEF Fits

(* The whole plan, in the order in which it is written. *)
LEMMA SortedOK == \A list : ListOK(list) => ListOK(Moved!Sorted(list))
BY KindPlanned, JoinedOK, Zenon DEF Moved!Sorted

(* What Validate may come to say of a stored object: the users of a         *)
(* basic_auth may be gone, since deletes do not look at them.               *)
Dangling == {<<"users", "reference">>}
Sound(kind, spec, known) == Moved!Validate(kind, spec, known) \subseteq Dangling

(* The fields of the models are records of one shape. *)
FieldSet(k, t, q, r, o, i, d, p, g) == [key : {k}, type : {t}, required : {q}, refs : {r}, options : {o},
   item : {i}, dynamic : {d}, pattern : {p}, fields : {g}]

LEMMA PlainField == ASSUME NEW k, NEW t PROVE
  Moved!Field(k, t) \in FieldSet(k, t, FALSE, {}, {}, "any", FALSE, FALSE, {})
BY DEF Moved!Field, FieldSet
LEMMA FieldUpdated ==
  ASSUME NEW k, NEW t, NEW q, NEW r, NEW o, NEW i, NEW d, NEW p, NEW g,
         NEW f \in FieldSet(k, t, q, r, o, i, d, p, g), NEW x, NEW y
 PROVE /\ [f EXCEPT !.dynamic = x] \in FieldSet(k, t, q, r, o, i, x, p, g)
       /\ [f EXCEPT !.options = x] \in FieldSet(k, t, q, r, x, i, d, p, g)
       /\ [f EXCEPT !.item = x] \in FieldSet(k, t, q, r, o, x, d, p, g)
       /\ [f EXCEPT !.pattern = x] \in FieldSet(k, t, q, r, o, i, d, x, g)
       /\ Moved!Must(f) \in FieldSet(k, t, TRUE, r, o, i, d, p, g)
       /\ Moved!Ref(f, x) \in FieldSet(k, t, q, x, o, i, d, p, g)
<1>1. [f EXCEPT !.dynamic = x] \in FieldSet(k, t, q, r, o, i, x, p, g) BY DEF FieldSet
<1>2. [f EXCEPT !.options = x] \in FieldSet(k, t, q, r, x, i, d, p, g) BY DEF FieldSet
<1>3. [f EXCEPT !.item = x] \in FieldSet(k, t, q, r, o, x, d, p, g) BY DEF FieldSet
<1>4. [f EXCEPT !.pattern = x] \in FieldSet(k, t, q, r, o, i, d, x, g) BY DEF FieldSet
<1>5. Moved!Must(f) \in FieldSet(k, t, TRUE, r, o, i, d, p, g) BY DEF FieldSet, Moved!Must
<1>6. Moved!Ref(f, x) \in FieldSet(k, t, q, x, o, i, d, p, g) BY DEF FieldSet, Moved!Ref
<1> QED BY <1>1, <1>2, <1>3, <1>4, <1>5, <1>6
LEMMA FieldFilled ==
  ASSUME NEW k, NEW t, NEW q, NEW r, NEW o, NEW i, NEW d, NEW p, NEW g,
         NEW f \in FieldSet(k, t, q, r, o, i, d, p, g), NEW x, NEW y
 PROVE [f EXCEPT !.required = x, !.fields = y] \in FieldSet(k, t, x, r, o, i, d, p, y)
BY DEF FieldSet

Flat(f) == \A g \in f.fields : g.refs = {}
Bare(f) == (f.refs = {} \/ f.key = "users") /\ f.fields = {}

LEMMA BackendFlat == \A kind : Flat(Moved!Backend(kind))
<1> SUFFICES ASSUME NEW kind PROVE Flat(Moved!Backend(kind)) OBVIOUS
<1>1. PICK y : y = {Moved!Must(Moved!Field("backend.host", "text")), Moved!Must(Moved!Field("backend.port", "number"))}
  OBVIOUS
<1>2. PICK x : x = (kind = "route") OBVIOUS
<1>3. [Moved!Field("backend", "object") EXCEPT !.required = x, !.fields = y]
        \in FieldSet("backend", "object", x, {}, {}, "any", FALSE, FALSE, y)
 BY PlainField, FieldFilled
<1>4. \A g \in y : g.refs = {}
 <2>1. \A k, t : Moved!Must(Moved!Field(k, t)) \in FieldSet(k, t, TRUE, {}, {}, "any", FALSE, FALSE, {})
  BY PlainField, FieldUpdated
 <2>2. \A k, t : Moved!Must(Moved!Field(k, t)).refs = {}
  BY <2>1 DEF FieldSet
 <2> QED BY <1>1, <2>2
<1>5. Moved!Backend(kind) \in FieldSet("backend", "object", x, {}, {}, "any", FALSE, FALSE, y)
 BY <1>1, <1>2, <1>3 DEF Moved!Backend
<1> QED BY <1>4, <1>5 DEF FieldSet, Flat

(* Each way of writing a field. *)
LEMMA FieldForms == \A k, t, r, o :
  /\ Moved!Field(k, t) \in FieldSet(k, t, FALSE, {}, {}, "any", FALSE, FALSE, {})
  /\ Moved!Must(Moved!Field(k, t)) \in FieldSet(k, t, TRUE, {}, {}, "any", FALSE, FALSE, {})
  /\ Moved!Ref(Moved!Field(k, t), r) \in FieldSet(k, t, FALSE, r, {}, "any", FALSE, FALSE, {})
  /\ Moved!Must(Moved!Ref(Moved!Field(k, t), r)) \in FieldSet(k, t, TRUE, r, {}, "any", FALSE, FALSE, {})
  /\ [Moved!Field(k, t) EXCEPT !.options = o] \in FieldSet(k, t, FALSE, {}, o, "any", FALSE, FALSE, {})
  /\ [Moved!Must(Moved!Field(k, t)) EXCEPT !.dynamic = TRUE]
          \in FieldSet(k, t, TRUE, {}, {}, "any", TRUE, FALSE, {})
  /\ [Moved!Must(Moved!Field(k, t)) EXCEPT !.item = o] \in FieldSet(k, t, TRUE, {}, {}, o, FALSE, FALSE, {})
  /\ [Moved!Must(Moved!Field(k, t)) EXCEPT !.pattern = TRUE]
          \in FieldSet(k, t, TRUE, {}, {}, "any", FALSE, TRUE, {})
<1>1. \A k, t : Moved!Field(k, t) \in FieldSet(k, t, FALSE, {}, {}, "any", FALSE, FALSE, {}) BY PlainField
<1>2. \A k, t : Moved!Must(Moved!Field(k, t)) \in FieldSet(k, t, TRUE, {}, {}, "any", FALSE, FALSE, {})
  BY PlainField, FieldUpdated
<1>3. \A k, t, r : Moved!Ref(Moved!Field(k, t), r) \in FieldSet(k, t, FALSE, r, {}, "any", FALSE, FALSE, {})
  BY PlainField, FieldUpdated
<1>4. \A k, t, r : Moved!Must(Moved!Ref(Moved!Field(k, t), r))
        \in FieldSet(k, t, TRUE, r, {}, "any", FALSE, FALSE, {})
  BY <1>3, FieldUpdated
<1>5. \A k, t, o : [Moved!Field(k, t) EXCEPT !.options = o]
        \in FieldSet(k, t, FALSE, {}, o, "any", FALSE, FALSE, {})
  BY PlainField, FieldUpdated
<1>6. \A k, t : [Moved!Must(Moved!Field(k, t)) EXCEPT !.dynamic = TRUE]
        \in FieldSet(k, t, TRUE, {}, {}, "any", TRUE, FALSE, {})
  BY <1>2, FieldUpdated
<1>7. \A k, t, o : [Moved!Must(Moved!Field(k, t)) EXCEPT !.item = o]
        \in FieldSet(k, t, TRUE, {}, {}, o, FALSE, FALSE, {})
  BY <1>2, FieldUpdated
<1>8. \A k, t : [Moved!Must(Moved!Field(k, t)) EXCEPT !.pattern = TRUE]
        \in FieldSet(k, t, TRUE, {}, {}, "any", FALSE, TRUE, {})
  BY <1>2, FieldUpdated
<1> QED BY <1>1, <1>2, <1>3, <1>4, <1>5, <1>6, <1>7, <1>8, ZenonT(30)

LEMMA FormsFlat == \A k, t, r, o :
  /\ Flat(Moved!Field(k, t)) /\ Flat(Moved!Must(Moved!Field(k, t)))
  /\ Flat(Moved!Ref(Moved!Field(k, t), r)) /\ Flat(Moved!Must(Moved!Ref(Moved!Field(k, t), r)))
  /\ Flat([Moved!Field(k, t) EXCEPT !.options = o])
  /\ Flat([Moved!Must(Moved!Field(k, t)) EXCEPT !.dynamic = TRUE])
  /\ Flat([Moved!Must(Moved!Field(k, t)) EXCEPT !.item = o])
  /\ Flat([Moved!Must(Moved!Field(k, t)) EXCEPT !.pattern = TRUE])
<1>1. \A f, k, t, q, r, o, i, d, p : f \in FieldSet(k, t, q, r, o, i, d, p, {}) => Flat(f)
  BY DEF FieldSet, Flat
<1> QED
  BY <1>1, FieldForms, ZenonT(30)

(* No field of an object field refers to anything. *)
LEMMA SchemaFlat == \A kind \in Moved!Migrated : \A f \in Moved!Schema[kind] : Flat(f)
<1>a. \A k, t : Flat(Moved!Field(k, t)) /\ Flat(Moved!Must(Moved!Field(k, t)))
  BY FormsFlat
<1>b. \A k, t, r : Flat(Moved!Ref(Moved!Field(k, t), r)) /\ Flat(Moved!Must(Moved!Ref(Moved!Field(k, t), r)))
  BY FormsFlat
<1>c. \A k, t, o : Flat([Moved!Field(k, t) EXCEPT !.options = o])
  BY FormsFlat
<1>d. \A k, t : Flat([Moved!Must(Moved!Field(k, t)) EXCEPT !.dynamic = TRUE])
  BY FormsFlat
<1>e. \A k, t, o : Flat([Moved!Must(Moved!Field(k, t)) EXCEPT !.item = o])
  BY FormsFlat
<1>f. \A k, t : Flat([Moved!Must(Moved!Field(k, t)) EXCEPT !.pattern = TRUE])
  BY FormsFlat
<1>1. \A f \in Moved!RouteFields : Flat(f)
  BY <1>a, <1>b, <1>c, <1>d, <1>e, <1>f, BackendFlat, SMTT(30) DEF Moved!RouteFields
<1>2. \A f \in Moved!ServiceFields : Flat(f)
  BY <1>a, <1>b, <1>c, <1>d, <1>e, <1>f, BackendFlat DEF Moved!ServiceFields, Moved!TypeField
<1>3. \A f \in Moved!MiddlewareFields : Flat(f)
  BY <1>a, <1>b, <1>c, <1>d, <1>e, <1>f DEF Moved!MiddlewareFields, Moved!TypeField
<1>4. \A f \in Moved!EntrypointFields : Flat(f)
  <2>1. PICK d : /\ d = [Moved!Must(Moved!Field("protocol", "select")) EXCEPT !.dynamic = TRUE]
                 /\ Flat(d)
    BY <1>d
  <2>2. PICK i : i = [Moved!Must(Moved!Field("ports", "array")) EXCEPT !.item = "number"] /\ Flat(i)
    BY <1>e
  <2>3. PICK o : /\ o = [Moved!Field("network", "select") EXCEPT !.options = {"tcp", "udp", "both"}]
                 /\ Flat(o)
    BY <1>c
  <2>4. Moved!EntrypointFields = {d, i, o, Moved!Field("enabled", "switch")}
    BY <2>1, <2>2, <2>3, Zenon DEF Moved!EntrypointFields
  <2> QED
    BY <1>a, <2>1, <2>2, <2>3, <2>4, ZenonT(30)
<1>5. \A f \in Moved!DomainFields : Flat(f)
  BY <1>a, <1>b, <1>c, <1>d, <1>e, <1>f DEF Moved!DomainFields
<1>6. \A f \in Moved!UserFields : Flat(f)
  BY <1>a, <1>b, <1>c, <1>d, <1>e, <1>f DEF Moved!UserFields
<1> QED
  BY <1>1, <1>2, <1>3, <1>4, <1>5, <1>6 DEF Moved!Schema, Moved!Migrated

(* The fields types add refer to nothing but users. *)
LEMMA FormsBare == \A k, t, o :
  /\ Bare(Moved!Field(k, t)) /\ Bare(Moved!Must(Moved!Field(k, t)))
  /\ Bare(Moved!Must(Moved!Ref(Moved!Field("users", t), o)))
  /\ Bare([Moved!Field(k, t) EXCEPT !.options = o])
<1>1. \A f, k, t, q, r, o, i, d, p : f \in FieldSet(k, t, q, r, o, i, d, p, {}) /\ (r = {} \/ k = "users") => Bare(f)
  BY DEF FieldSet, Bare
<1> QED
  BY <1>1, FieldForms, ZenonT(30)

LEMMA TypesBare ==
  \A kind \in DOMAIN Moved!Catalog : \A t \in DOMAIN Moved!Catalog[kind] :
    \A f \in Moved!Catalog[kind][t].fields : Bare(f)
<1>0. \A S : Moved!Type(S).fields = S /\ Moved!Absent.fields = {}
  BY DEF Moved!Type, Moved!Absent
<1>a. \A k, t : Bare(Moved!Field(k, t)) /\ Bare(Moved!Must(Moved!Field(k, t)))
  BY FormsBare
<1>b. \A t, r : Bare(Moved!Must(Moved!Ref(Moved!Field("users", t), r)))
  BY FormsBare
<1>c. \A k, t, o : Bare([Moved!Field(k, t) EXCEPT !.options = o])
  BY FormsBare
<1>1. \A t \in DOMAIN Moved!ServiceTypes : \A f \in Moved!ServiceTypes[t].fields : Bare(f)
  <2> SUFFICES ASSUME NEW t \in DOMAIN Moved!ServiceTypes PROVE \A f \in Moved!ServiceTypes[t].fields : Bare(f)
    OBVIOUS
  <2>1. t \in {"reverse_proxy", "file_server", "redirect", "respond", "l4_proxy"}
    BY DEF Moved!ServiceTypes
  <2>2. CASE t = "reverse_proxy"
    <3>1. PICK a, b : /\ a = [Moved!Field("upstreamProto", "select") EXCEPT !.options = {"http", "https"}]
                      /\ b = Moved!Field("healthUri", "text")
      OBVIOUS
    <3>2. Bare(a) /\ Bare(b)
      BY <1>a, <1>c, <3>1
    <3>3. Moved!ServiceTypes[t] = Moved!Type({a, b})
      BY <2>2, <3>1 DEF Moved!ServiceTypes
    <3> QED
      BY <1>0, <3>2, <3>3
  <2>3. CASE t = "file_server"     BY <2>3, <1>a, <1>0 DEF Moved!ServiceTypes
  <2>4. CASE t = "redirect"        BY <2>4, <1>a, <1>0 DEF Moved!ServiceTypes
  <2>5. CASE t = "respond"         BY <2>5, <1>a, <1>0 DEF Moved!ServiceTypes
  <2>6. CASE t = "l4_proxy"        BY <2>6, <1>0 DEF Moved!ServiceTypes
  <2> QED
    BY <2>1, <2>2, <2>3, <2>4, <2>5, <2>6
<1>2. \A t \in DOMAIN Moved!MiddlewareTypes : \A f \in Moved!MiddlewareTypes[t].fields : Bare(f)
  BY <1>a, <1>b, <1>c, <1>0 DEF Moved!MiddlewareTypes
<1>3. \A t \in DOMAIN Moved!EntrypointProtocols : \A f \in Moved!EntrypointProtocols[t].fields : Bare(f)
  BY FormsBare, <1>0 DEF Moved!EntrypointProtocols
<1> QED
  BY <1>1, <1>2, <1>3 DEF Moved!Catalog

LEMMA AddedFieldsBare ==
  \A kind, spec : \A f \in Moved!FieldsFor(kind, spec) : f \in Moved!Schema[kind] \/ Bare(f)
<1>1. \A kind : \A t \in Moved!DynamicOptions(kind) : \A f \in Moved!Catalog[kind][t].fields : Bare(f)
  BY TypesBare DEF Moved!DynamicOptions
<1> QED
  BY <1>1 DEF Moved!FieldsFor

(* What exists more does no harm; what is gone harms those that refer to it. *)
LEMMA RefsMonotone ==
  ASSUME NEW known, NEW more, known \subseteq more
  PROVE  \A kind, spec : Moved!Validate(kind, spec, more) \subseteq Moved!Validate(kind, spec, known)
<1>1. \A f, u : Moved!BadRef(f, u, more) => Moved!BadRef(f, u, known)
  BY Zenon DEF Moved!BadRef
<1>2. \A kind, f, spec : Moved!ScalarErrors(kind, f, spec, more)
        \subseteq Moved!ScalarErrors(kind, f, spec, known)
  BY <1>1 DEF Moved!ScalarErrors
<1>3. \A kind, f, spec : Moved!FieldErrors(kind, f, spec, more)
        \subseteq Moved!FieldErrors(kind, f, spec, known)
  BY <1>2 DEF Moved!FieldErrors
<1> QED
  BY <1>3, Zenon DEF Moved!Validate

LEMMA RefsGone ==
  ASSUME NEW known, NEW kind \in Moved!Migrated, NEW spec, NEW k, NEW id, NEW less, known \ {<<k, id>>} \subseteq less,
         Sound(kind, spec, known), ~Moved!Refers([kind |-> kind, spec |-> spec], k, id)
  PROVE  Sound(kind, spec, less)
<1>1. ASSUME NEW f \in Moved!Schema[kind], f.key \in DOMAIN spec
      PROVE  Moved!ScalarErrors(kind, f, spec, less) \subseteq Moved!ScalarErrors(kind, f, spec, known)
  <2>1. ASSUME NEW u \in Moved!Range(spec[f.key].v), Moved!BadRef(f, u, less)
        PROVE Moved!BadRef(f, u, known)
    <3>1. ~(k \in f.refs /\ u = id)
      BY <1>1, <2>1 DEF Moved!Refers, Moved!ToSet, Moved!Range
    <3>2. \A kk \in f.refs : <<kk, u>> \in known => <<kk, u>> \in less
      BY <3>1
    <3> QED
      BY <2>1, <3>2, Zenon DEF Moved!BadRef
  <2> QED
    BY <2>1 DEF Moved!ScalarErrors
<1>2. ASSUME NEW f, f.refs = {}, NEW n
      PROVE  Moved!ScalarErrors(kind, f, spec, less) = Moved!ScalarErrors(kind, f, spec, known)
  <2>1. \A u : ~Moved!BadRef(f, u, less) /\ ~Moved!BadRef(f, u, known)
    BY <1>2, Zenon DEF Moved!BadRef
  <2> QED
    BY <2>1 DEF Moved!ScalarErrors
<1>3. ASSUME NEW f \in Moved!Schema[kind]
      PROVE  Moved!FieldErrors(kind, f, spec, less) \subseteq Moved!FieldErrors(kind, f, spec, known)
  <2>1. \A g \in f.fields : Moved!ScalarErrors(kind, g, spec, less) = Moved!ScalarErrors(kind, g, spec, known)
    BY <1>2, SchemaFlat DEF Flat
  <2>2. f.type # "object" /\ Moved!Present(spec, f) => f.key \in DOMAIN spec
    BY DEF Moved!Present, Moved!Given
  <2> QED
    BY <1>1, <2>1, <2>2 DEF Moved!FieldErrors
<1>4. ASSUME NEW f, Bare(f)
      PROVE  Moved!FieldErrors(kind, f, spec, less)
              \subseteq Moved!FieldErrors(kind, f, spec, known) \cup Dangling
  <2>1. Moved!ScalarErrors(kind, f, spec, less)
          \subseteq Moved!ScalarErrors(kind, f, spec, known) \cup Dangling
    <3>1. CASE f.refs = {}
      BY <1>2, <3>1
    <3>2. CASE f.key = "users"
      BY <3>2 DEF Moved!ScalarErrors, Dangling
    <3> QED
      BY <1>4, <3>1, <3>2 DEF Bare
  <2> QED
    BY <1>4, <2>1 DEF Moved!FieldErrors, Bare
<1>5. kind \in DOMAIN Moved!Schema
  BY DEF Moved!Schema, Moved!Migrated
<1> QED
  BY <1>3, <1>4, <1>5, AddedFieldsBare, Zenon DEF Moved!Validate, Sound

(* The empty text, by a name. *)
Empty == ""

(* Definitions in which the empty text occurs. *)
LEMMA GivenIs == \A spec, key : Moved!Given(spec, key) <=>
  key \in DOMAIN spec /\ spec[key].v # <<>> /\ (spec[key].form = "text" => spec[key].v # <<Empty>>)
BY Zenon DEF Moved!Given, Empty

LEMMA FirstIs == \A s : Moved!R!First(s) = IF s = <<>> THEN Empty ELSE s[1]
BY Zenon DEF Moved!R!First, Empty

LEMMA BadRefIs == \A f, u, known : Moved!BadRef(f, u, known)
        <=> u # Empty /\ \E k \in f.refs : <<k, u>> \notin known
BY Zenon DEF Moved!BadRef, Empty

(* What a sound object says of each of its fields. *)
LEMMA FieldSound ==
  ASSUME NEW kind \in Moved!Migrated, NEW spec, NEW known, Sound(kind, spec, known),
         NEW f \in Moved!FieldsFor(kind, spec), f.type # "object"
  PROVE  /\ f.required => Moved!Given(spec, f.key)
         /\ Moved!Given(spec, f.key) =>
              /\ ~Moved!WrongForm(f, spec[f.key])
              /\ f.key # "users" => \A u \in Moved!Range(spec[f.key].v) :
                   /\ f.type = "select" => ~Moved!BadChoice(kind, f, u)
                   /\ ~Moved!BadRef(f, u, known)
<1>1. Moved!FieldErrors(kind, f, spec, known) \subseteq Dangling
  <2>1. kind \in DOMAIN Moved!Schema
    BY DEF Moved!Schema, Moved!Migrated
  <2> QED
    BY <2>1, Zenon DEF Moved!Validate, Sound
<1>2. f.required => Moved!Given(spec, f.key)
  BY <1>1 DEF Moved!FieldErrors, Moved!Present, Dangling
<1>3. ASSUME Moved!Given(spec, f.key)
      PROVE  Moved!ScalarErrors(kind, f, spec, known) \subseteq Dangling
  BY <1>1, <1>3 DEF Moved!FieldErrors, Moved!Present
<1>4. ASSUME Moved!Given(spec, f.key)
      PROVE  ~Moved!WrongForm(f, spec[f.key])
  <2>1. Moved!WrongForm(f, spec[f.key]) => <<f.key, "form">> \in Moved!ScalarErrors(kind, f, spec, known)
    BY DEF Moved!ScalarErrors
  <2> QED
    BY <1>3, <1>4, <2>1 DEF Dangling
<1>5. ASSUME Moved!Given(spec, f.key), f.key # "users", NEW u \in Moved!Range(spec[f.key].v)
      PROVE  (f.type = "select" => ~Moved!BadChoice(kind, f, u)) /\ ~Moved!BadRef(f, u, known)
  <2>1. Moved!ScalarErrors(kind, f, spec, known) = {}
    <3>1. \A e \in Moved!ScalarErrors(kind, f, spec, known) : e[1] = f.key
      BY DEF Moved!ScalarErrors
    <3> QED
      BY <1>3, <1>5, <3>1 DEF Dangling
  <2>2. f.type = "select" /\ Moved!BadChoice(kind, f, u) =>
          <<f.key, "choice">> \in Moved!ScalarErrors(kind, f, spec, known)
    BY <1>5 DEF Moved!ScalarErrors
  <2>3. Moved!BadRef(f, u, known) => <<f.key, "reference">> \in Moved!ScalarErrors(kind, f, spec, known)
    BY <1>5 DEF Moved!ScalarErrors
  <2> QED
    BY <2>1, <2>2, <2>3
<1> QED
  BY <1>2, <1>4, <1>5

(* What is stored, and the fields Validate looks at. *)
LEMMA StoredIs == \A d, k, id : <<k, id>> \in Moved!Stored(d) <=> k \in Moved!Migrated /\ id \in DOMAIN d[k]
BY DEF Moved!Stored

LEMMA SchemaFields == \A kind \in Moved!Migrated : \A spec : Moved!Schema[kind]
        \subseteq Moved!FieldsFor(kind, spec)
BY DEF Moved!FieldsFor

(* What a field of references holds exists, but for empty entries. *)
LEMMA RefSound ==
  ASSUME NEW d, NEW kind \in Moved!Migrated, NEW o, SpecOK(o.spec), Sound(kind, o.spec, Moved!Stored(d)),
         NEW f \in Moved!FieldsFor(kind, o.spec), f.type \in {"reference", "array"}, f.key # "users",
         NEW target, f.refs = {target}, NEW as
  PROVE  \A u \in Moved!R!ToSet(Moved!R!Read(o, f.key, as)) : u = Empty \/ u \in DOMAIN d[target]
<1> SUFFICES ASSUME NEW u \in Moved!R!ToSet(Moved!R!Read(o, f.key, as)), u # Empty
             PROVE  u \in DOMAIN d[target]
  OBVIOUS
<1>1. f.key \in DOMAIN o.spec /\ u \in Moved!Range(o.spec[f.key].v) /\ o.spec[f.key].v # <<>>
  <2>1. PICK read : read = Moved!R!Read(o, f.key, as)
    OBVIOUS
  <2>a. u \in Moved!R!ToSet(read)
    BY <2>1
  <2>b. PICK n \in DOMAIN read : u = read[n]
    BY <2>a DEF Moved!R!ToSet
  <2>2. u \in {read[i] : i \in DOMAIN read} /\ read # <<>>
    BY <2>b
  <2>3. f.key \in DOMAIN o.spec /\ read = o.spec[f.key].v
    BY <2>1, <2>2 DEF Moved!R!Read, Moved!R!Has
  <2> QED
    BY <2>2, <2>3 DEF Moved!Range
<1>2. Moved!Given(o.spec, f.key)
  <2>1. ASSUME o.spec[f.key].v = <<Empty>> PROVE FALSE
    <3>1. \A i \in DOMAIN <<Empty>> : <<Empty>>[i] = Empty
      OBVIOUS
    <3> QED
      BY <1>1, <2>1, <3>1 DEF Moved!Range
  <2> QED
    BY <1>1, <2>1, GivenIs
<1>3. ~Moved!BadRef(f, u, Moved!Stored(d))
  BY <1>1, <1>2, FieldSound
<1> QED
  BY <1>3, BadRefIs, StoredIs

(* A required field that is read as a text is not empty. *)
LEMMA TextSound ==
  ASSUME NEW kind \in Moved!Migrated, NEW o, NEW known, SpecOK(o.spec), Sound(kind, o.spec, known),
         NEW f \in Moved!FieldsFor(kind, o.spec), f.type # "object", f.required
  PROVE  /\ f.key \in DOMAIN o.spec
         /\ o.spec[f.key].form = "text" =>
              /\ Moved!R!TextOf(o, f.key) # Empty
              /\ Moved!R!TextOf(o, f.key) \in Moved!Range(o.spec[f.key].v)
              /\ o.spec[f.key].v = <<Moved!R!TextOf(o, f.key)>>
              /\ Moved!R!TextOf(o, f.key) \in Moved!R!ToSet(Moved!R!Read(o, f.key, "text"))
<1>1. Moved!Given(o.spec, f.key)
  BY FieldSound
<1>2. f.key \in DOMAIN o.spec
  BY <1>1, GivenIs
<1>3. ASSUME o.spec[f.key].form = "text"
      PROVE  /\ Moved!R!TextOf(o, f.key) # Empty
              /\ Moved!R!TextOf(o, f.key) \in Moved!Range(o.spec[f.key].v)
              /\ o.spec[f.key].v = <<Moved!R!TextOf(o, f.key)>>
              /\ Moved!R!TextOf(o, f.key) \in Moved!R!ToSet(Moved!R!Read(o, f.key, "text"))
  <2>1. PICK t : o.spec[f.key].v = <<t>>
    BY <1>2, <1>3 DEF SpecOK, ValueOK
  <2>2. t # Empty
    BY <1>1, <1>3, <2>1, GivenIs
  <2>3. Moved!R!Read(o, f.key, "text") = <<t>>
    BY <1>2, <1>3, <2>1 DEF Moved!R!Read, Moved!R!Has
  <2>4. Moved!R!TextOf(o, f.key) = t
    <3>1. <<t>> # <<>> /\ <<t>>[1] = t
      OBVIOUS
    <3> QED
      BY <2>3, <3>1, FirstIs DEF Moved!R!TextOf
  <2>5. t \in Moved!Range(<<t>>) /\ t \in Moved!R!ToSet(<<t>>)
    BY DEF Moved!Range, Moved!R!ToSet
  <2> QED
    BY <2>1, <2>2, <2>3, <2>4, <2>5
<1> QED
  BY <1>2, <1>3

(* What the fields of each kind are read by. *)
LEMMA RouteRefs ==
  \E e, s, m, r \in Moved!RouteFields :
    /\ e \in FieldSet("entrypoint", "reference", TRUE, {"entrypoint"}, {}, "any", FALSE, FALSE, {})
    /\ s \in FieldSet("service", "reference", FALSE, {"service"}, {}, "any", FALSE, FALSE, {})
    /\ m \in FieldSet("middlewares", "array", FALSE, {"middleware"}, {}, "any", FALSE, FALSE, {})
    /\ r \in FieldSet("roots", "array", FALSE, {"domain"}, {}, "any", FALSE, FALSE, {})
<1>1. PICK e : /\ e = Moved!Must(Moved!Ref(Moved!Field("entrypoint", "reference"), {"entrypoint"}))
               /\ e \in FieldSet("entrypoint", "reference", TRUE, {"entrypoint"}, {}, "any", FALSE, FALSE, {})
  BY FieldForms
<1>2. PICK s : /\ s = Moved!Ref(Moved!Field("service", "reference"), {"service"})
               /\ s \in FieldSet("service", "reference", FALSE, {"service"}, {}, "any", FALSE, FALSE, {})
  BY FieldForms
<1>3. PICK m : /\ m = Moved!Ref(Moved!Field("middlewares", "array"), {"middleware"})
               /\ m \in FieldSet("middlewares", "array", FALSE, {"middleware"}, {}, "any", FALSE, FALSE, {})
  BY FieldForms
<1>4. PICK r : /\ r = Moved!Ref(Moved!Field("roots", "array"), {"domain"})
               /\ r \in FieldSet("roots", "array", FALSE, {"domain"}, {}, "any", FALSE, FALSE, {})
  BY FieldForms
<1>5. e \in Moved!RouteFields /\ s \in Moved!RouteFields /\ m \in Moved!RouteFields /\ r \in Moved!RouteFields
  BY <1>1, <1>2, <1>3, <1>4, Zenon DEF Moved!RouteFields
<1> QED
  BY <1>1, <1>2, <1>3, <1>4, <1>5, Zenon

(* What a route refers to exists. *)
LEMMA RouteSound ==
  ASSUME NEW d, NEW o, SpecOK(o.spec), Sound("route", o.spec, Moved!Stored(d))
  PROVE  /\ Moved!R!TextOf(o, "entrypoint") \in DOMAIN d["entrypoint"]
         /\ Moved!R!TextOf(o, "service") # Empty => Moved!R!TextOf(o, "service") \in DOMAIN d["service"]
         /\ \A m \in Moved!R!ToSet(Moved!R!Texts(o, "middlewares")) : m = Empty \/ m \in DOMAIN d["middleware"]
         /\ Moved!R!Texts(o, "roots") # <<>> =>
              Moved!R!Texts(o, "roots")[1] = Empty \/ Moved!R!Texts(o, "roots")[1] \in DOMAIN d["domain"]
<1>1. PICK e, s, m, r \in Moved!FieldsFor("route", o.spec) :
    /\ e \in FieldSet("entrypoint", "reference", TRUE, {"entrypoint"}, {}, "any", FALSE, FALSE, {})
    /\ s \in FieldSet("service", "reference", FALSE, {"service"}, {}, "any", FALSE, FALSE, {})
    /\ m \in FieldSet("middlewares", "array", FALSE, {"middleware"}, {}, "any", FALSE, FALSE, {})
    /\ r \in FieldSet("roots", "array", FALSE, {"domain"}, {}, "any", FALSE, FALSE, {})
  <2>1. Moved!RouteFields \subseteq Moved!FieldsFor("route", o.spec)
    BY SchemaFields DEF Moved!Schema, Moved!Migrated
  <2> QED
    BY <2>1, RouteRefs
<1>2. "route" \in Moved!Migrated
  BY DEF Moved!Migrated
<1>3. \A u \in Moved!R!ToSet(Moved!R!Read(o, "entrypoint", "text")) : u = Empty \/ u \in DOMAIN d["entrypoint"]
  BY <1>1, <1>2, RefSound DEF FieldSet
<1>4. \A u \in Moved!R!ToSet(Moved!R!Read(o, "service", "text")) : u = Empty \/ u \in DOMAIN d["service"]
  BY <1>1, <1>2, RefSound DEF FieldSet
<1>5. \A u \in Moved!R!ToSet(Moved!R!Read(o, "middlewares", "array")) : u = Empty \/ u \in DOMAIN d["middleware"]
  BY <1>1, <1>2, RefSound DEF FieldSet
<1>6. \A u \in Moved!R!ToSet(Moved!R!Read(o, "roots", "array")) : u = Empty \/ u \in DOMAIN d["domain"]
  BY <1>1, <1>2, RefSound DEF FieldSet
<1>7. Moved!R!TextOf(o, "entrypoint") \in DOMAIN d["entrypoint"]
  <2>0. e.required /\ e.key = "entrypoint" /\ e.type = "reference" /\ e.refs = {"entrypoint"}
    BY <1>1 DEF FieldSet
  <2>1. o.spec["entrypoint"].form = "text"
    <3>1. Moved!Given(o.spec, "entrypoint") /\ ~Moved!WrongForm(e, o.spec["entrypoint"])
      BY <1>1, <1>2, <2>0, FieldSound
    <3> QED
      BY <1>1, <3>1 DEF FieldSet, Moved!WrongForm
  <2>2. /\ Moved!R!TextOf(o, "entrypoint") # Empty
        /\ Moved!R!TextOf(o, "entrypoint") \in Moved!R!ToSet(Moved!R!Read(o, "entrypoint", "text"))
    BY <1>1, <1>2, <2>0, <2>1, TextSound
  <2> QED
    BY <1>3, <2>2
<1>8. ASSUME Moved!R!TextOf(o, "service") # Empty PROVE Moved!R!TextOf(o, "service") \in DOMAIN d["service"]
  <2>1. PICK v : v = Moved!R!Read(o, "service", "text")
    OBVIOUS
  <2>2. v # <<>> /\ Moved!R!TextOf(o, "service") = v[1]
    BY <1>8, <2>1, FirstIs DEF Moved!R!TextOf
  <2>3. \E t : v = <<t>>
    BY <2>1, <2>2 DEF Moved!R!Read, Moved!R!Has, SpecOK, ValueOK
  <2>4. v[1] \in Moved!R!ToSet(v)
    BY <2>3 DEF Moved!R!ToSet
  <2> QED
    BY <1>4, <1>8, <2>1, <2>2, <2>4
<1>9. ASSUME Moved!R!Texts(o, "roots") # <<>>
      PROVE  Moved!R!Texts(o, "roots")[1] \in Moved!R!ToSet(Moved!R!Texts(o, "roots"))
  <2>1. PICK v : v = Moved!R!Texts(o, "roots")
    OBVIOUS
  <2>2. \E S : v \in Seq(S)
    BY <1>9, <2>1 DEF Moved!R!Texts, Moved!R!Read, Moved!R!Has, SpecOK, ValueOK
  <2>3. v # <<>> => 1 \in DOMAIN v
    BY <2>2
  <2> QED
    BY <1>9, <2>1, <2>3 DEF Moved!R!ToSet
<1> QED
  BY <1>5, <1>6, <1>7, <1>8, <1>9 DEF Moved!R!Texts

(* A choice of the catalog is one it offers and that is installed. *)
LEMMA ChoiceSound ==
  ASSUME NEW kind \in Moved!Migrated, NEW o, NEW known, SpecOK(o.spec), Sound(kind, o.spec, known), NEW key,
         key # "users",
         NEW f \in Moved!FieldsFor(kind, o.spec), f
                 \in FieldSet(key, "select", TRUE, {}, {}, "any", TRUE, FALSE, {})
  PROVE  LET t == Moved!R!TextOf(o, key) IN
         /\ Moved!Given(o.spec, key) /\ o.spec[key].v = <<t>>
         /\ t \in Moved!DynamicOptions(kind) /\ Moved!Catalog[kind][t].installed
<1>0. f.required /\ f.key = key /\ f.type = "select" /\ f.refs = {} /\ f.options = {} /\ f.dynamic
  BY DEF FieldSet
<1>1. Moved!Given(o.spec, key) /\ ~Moved!WrongForm(f, o.spec[key])
  BY <1>0, FieldSound
<1>2. o.spec[key].form = "text"
  BY <1>0, <1>1 DEF Moved!WrongForm, Moved!FormOf
<1>3. PICK t : t = Moved!R!TextOf(o, key) /\ t \in Moved!Range(o.spec[key].v) /\ o.spec[key].v = <<t>>
  BY <1>0, <1>2, TextSound
<1>4. ~Moved!BadChoice(kind, f, t)
  BY <1>0, <1>1, <1>3, FieldSound
<1>5. t \in Moved!DynamicOptions(kind) /\ Moved!Catalog[kind][t].installed
  BY <1>0, <1>4, Zenon DEF Moved!BadChoice
<1> QED
  BY <1>1, <1>3, <1>5

(* The protocol of an entrypoint is installed, and the type of a service or *)
(* middleware is in the catalog.                                            *)
LEMMA ProtocolSound ==
  ASSUME NEW o, NEW known, SpecOK(o.spec), Sound("entrypoint", o.spec, known)
  PROVE  Moved!R!TextOf(o, "protocol") \in Moved!R!InstalledProtocols
<1>1. PICK f : /\ f = [Moved!Must(Moved!Field("protocol", "select")) EXCEPT !.dynamic = TRUE]
               /\ f \in FieldSet("protocol", "select", TRUE, {}, {}, "any", TRUE, FALSE, {})
  BY FieldForms
<1>2. f \in Moved!EntrypointFields
  BY <1>1, Zenon DEF Moved!EntrypointFields
<1>3. "entrypoint" \in Moved!Migrated /\ f \in Moved!FieldsFor("entrypoint", o.spec)
  BY <1>2, SchemaFields DEF Moved!Schema, Moved!Migrated
<1>4. PICK t : /\ t = Moved!R!TextOf(o, "protocol")
               /\ t \in Moved!DynamicOptions("entrypoint") /\ Moved!Catalog["entrypoint"][t].installed
  BY <1>1, <1>3, ChoiceSound
<1>5. t \in DOMAIN Moved!EntrypointProtocols /\ Moved!EntrypointProtocols[t].installed
  BY <1>4 DEF Moved!DynamicOptions, Moved!Catalog
<1>6. ~Moved!Absent.installed
  BY DEF Moved!Absent
<1> QED
  BY <1>4, <1>5, <1>6 DEF Moved!EntrypointProtocols, Moved!R!InstalledProtocols

LEMMA TypeSound ==
  ASSUME NEW kind \in {"service", "middleware"}, NEW o, NEW known, SpecOK(o.spec), Sound(kind, o.spec, known)
  PROVE  LET t == Moved!R!TextOf(o, "type") IN
         /\ t \in DOMAIN Moved!Catalog[kind] /\ Moved!Catalog[kind][t].installed
         /\ Moved!Catalog[kind][t].fields \subseteq Moved!FieldsFor(kind, o.spec)
<1>1. PICK f : f = Moved!TypeField /\ f \in FieldSet("type", "select", TRUE, {}, {}, "any", TRUE, FALSE, {})
  BY FieldForms DEF Moved!TypeField
<1>2. f \in Moved!ServiceFields /\ f \in Moved!MiddlewareFields
  BY <1>1, Zenon DEF Moved!ServiceFields, Moved!MiddlewareFields
<1>3. kind \in Moved!Migrated /\ f \in Moved!FieldsFor(kind, o.spec)
  BY <1>2, SchemaFields DEF Moved!Schema, Moved!Migrated
<1>4. PICK t : /\ t = Moved!R!TextOf(o, "type") /\ o.spec["type"].v = <<t>> /\ Moved!Given(o.spec, "type")
               /\ t \in Moved!DynamicOptions(kind) /\ Moved!Catalog[kind][t].installed
  BY <1>1, <1>3, ChoiceSound
<1>5. t \in DOMAIN Moved!Catalog[kind]
  BY <1>4 DEF Moved!DynamicOptions, Moved!Catalog
<1>6. <<t>>[1] = t
  OBVIOUS
<1>7. Moved!Catalog[kind][t].fields \subseteq Moved!FieldsFor(kind, o.spec)
  BY <1>4, <1>6 DEF Moved!FieldsFor
<1> QED
  BY <1>4, <1>5, <1>7

(* A field a type requires can be read, unless it is no text. *)
LEMMA NeedsMet ==
  ASSUME NEW kind \in Moved!Migrated, NEW o, NEW known, SpecOK(o.spec), Sound(kind, o.spec, known), NEW key,
         Moved!Must(Moved!Field(key, "text")) \in Moved!FieldsFor(kind, o.spec)
  PROVE  /\ key \in DOMAIN o.spec
         /\ Moved!R!Has(o, key, "text") => Moved!R!TextOf(o, key) # Empty
<1>1. PICK f : f = Moved!Must(Moved!Field(key, "text")) /\ f
        \in FieldSet(key, "text", TRUE, {}, {}, "any", FALSE, FALSE, {})
  BY FieldForms
<1>2. f.required /\ f.key = key /\ f.type # "object"
  BY <1>1 DEF FieldSet
<1> QED
  BY <1>1, <1>2, TextSound DEF Moved!R!Has

(* The upstream of a route, the empty text by its name. *)
LEMMA UpstreamIs == \A rt, d :
  Moved!R!UpstreamFailures(rt, d) =
    LET s == Moved!R!TextOf(rt, "service")
        svc == d["service"][s]
        Needs(key) == IF Moved!R!TextOf(svc, key) # Empty THEN {}
                    ELSE IF key \in DOMAIN svc.spec /\ ~Moved!R!Has(svc, key, "text") THEN {"not a text"}
                    ELSE {key}
  IN IF s # Empty /\ s \notin DOMAIN d["service"] THEN {"service"}
     ELSE CASE Moved!R!ServiceType(rt, d) = "reverse_proxy" -> {}
            [] Moved!R!ServiceType(rt, d) = "file_server" -> Needs("root")
            [] Moved!R!ServiceType(rt, d) = "respond"     -> Needs("body")
            [] Moved!R!ServiceType(rt, d) = "redirect"    -> Needs("to")
            [] OTHER -> {"service type"}
BY Zenon DEF Moved!R!UpstreamFailures, Empty
LEMMA ServiceTypeIs == \A rt, d :
  Moved!R!ServiceType(rt, d) = LET s == Moved!R!TextOf(rt, "service") IN
  IF s = Empty \/ Moved!R!TextOf(d["service"][s], "type") = Empty THEN "reverse_proxy"
  ELSE Moved!R!TextOf(d["service"][s], "type")
BY Zenon DEF Moved!R!ServiceType, Empty

(* Every object of a reading of the store passes Validate, but for users    *)
(* that are gone.                                                           *)
DbSound(d) ==
  \A k \in Moved!Migrated : \A id \in DOMAIN d[k] :
    SpecOK(d[k][id].spec) /\ Sound(k, d[k][id].spec, Moved!Stored(d))

(* The upstream of a route can be written, but for a text of another form   *)
(* and an empty body.                                                       *)
LEMMA UpstreamSound ==
  ASSUME NEW d, DbSound(d), NEW rt, SpecOK(rt.spec), Sound("route", rt.spec, Moved!Stored(d))
  PROVE  Moved!R!UpstreamFailures(rt, d) \subseteq {"not a text", "body"}
<1>1. PICK s : /\ s = Moved!R!TextOf(rt, "service") /\ (s # Empty => s \in DOMAIN d["service"])
  BY RouteSound
<1>2. CASE s = Empty
  BY <1>1, <1>2, UpstreamIs, ServiceTypeIs
<1>3. CASE s # Empty
  <2>1. PICK svc : svc = d["service"][s] /\ SpecOK(svc.spec) /\ Sound("service", svc.spec, Moved!Stored(d))
    BY <1>1, <1>3 DEF DbSound, Moved!Migrated
  <2>2. PICK t : /\ t = Moved!R!TextOf(svc, "type")
                 /\ t \in DOMAIN Moved!Catalog["service"] /\ Moved!Catalog["service"][t].installed
                 /\ Moved!Catalog["service"][t].fields \subseteq Moved!FieldsFor("service", svc.spec)
    BY <2>1, TypeSound
  <2>3. t \in DOMAIN Moved!ServiceTypes /\ Moved!ServiceTypes[t].installed
        /\ Moved!ServiceTypes[t].fields \subseteq Moved!FieldsFor("service", svc.spec)
    BY <2>2 DEF Moved!Catalog
  <2>4. ~Moved!Absent.installed /\ \A S : Moved!Type(S).fields = S
    BY DEF Moved!Absent, Moved!Type
  <2>5. t \in {"reverse_proxy", "file_server", "redirect", "respond"}
    BY <2>3, <2>4 DEF Moved!ServiceTypes
  <2>6. "service" \in Moved!Migrated
    BY DEF Moved!Migrated
  <2>7. CASE t = "file_server"
    <3>1. Moved!Must(Moved!Field("root", "text")) \in Moved!FieldsFor("service", svc.spec)
      BY <2>3, <2>4, <2>7 DEF Moved!ServiceTypes
    <3>2. "root" \in DOMAIN svc.spec /\ (Moved!R!Has(svc, "root", "text")
            => Moved!R!TextOf(svc, "root") # Empty)
      BY <2>1, <2>6, <3>1, NeedsMet
    <3> QED
      BY <1>1, <1>3, <2>1, <2>2, <2>7, <3>2, UpstreamIs, ServiceTypeIs
  <2>8. CASE t = "redirect"
    <3>1. Moved!Must(Moved!Field("to", "text")) \in Moved!FieldsFor("service", svc.spec)
      BY <2>3, <2>4, <2>8 DEF Moved!ServiceTypes
    <3>2. "to" \in DOMAIN svc.spec /\ (Moved!R!Has(svc, "to", "text") => Moved!R!TextOf(svc, "to") # Empty)
      BY <2>1, <2>6, <3>1, NeedsMet
    <3> QED
      BY <1>1, <1>3, <2>1, <2>2, <2>8, <3>2, UpstreamIs, ServiceTypeIs
  <2> QED
    BY <1>1, <1>3, <2>1, <2>2, <2>5, <2>7, <2>8, UpstreamIs, ServiceTypeIs
<1> QED
  BY <1>2, <1>3

LEMMA MissingIs == \A kind, id : Moved!R!Missing(kind, id) = IF id = Empty THEN "empty reference" ELSE kind
BY Zenon DEF Moved!R!Missing, Empty

(* A basic_auth middleware has users. *)
LEMMA UsersSound ==
  ASSUME NEW mw, NEW known, SpecOK(mw.spec), Sound("middleware", mw.spec, known),
         Moved!R!TextOf(mw, "type") = "basic_auth"
  PROVE  Moved!R!ToSet(Moved!R!Texts(mw, "users")) # {}
<1>1. Moved!Catalog["middleware"]["basic_auth"].fields \subseteq Moved!FieldsFor("middleware", mw.spec)
  BY TypeSound
<1>2. PICK f : /\ f = Moved!Must(Moved!Ref(Moved!Field("users", "array"), {"user"}))
               /\ f \in FieldSet("users", "array", TRUE, {"user"}, {}, "any", FALSE, FALSE, {})
  BY FieldForms
<1>3. Moved!MiddlewareTypes["basic_auth"] = Moved!Type({f})
  BY <1>2 DEF Moved!MiddlewareTypes
<1>4. \A S : Moved!Type(S).fields = S
  BY DEF Moved!Type
<1>5. f \in Moved!FieldsFor("middleware", mw.spec)
  BY <1>1, <1>3, <1>4 DEF Moved!Catalog
<1>6. f.required /\ f.key = "users" /\ f.type = "array"
  BY <1>2 DEF FieldSet
<1>7. Moved!Given(mw.spec, "users") /\ ~Moved!WrongForm(f, mw.spec["users"])
  <2>1. "middleware" \in Moved!Migrated
    BY DEF Moved!Migrated
  <2> QED
    BY <1>5, <1>6, <2>1, FieldSound
<1>8. PICK v : v = mw.spec["users"].v /\ v # <<>> /\ "users" \in DOMAIN mw.spec
  BY <1>7, GivenIs
<1>9. mw.spec["users"].form = "array"
  <2>1. mw.spec["users"].form # "array" => Moved!WrongForm(f, mw.spec["users"])
    BY <1>6 DEF Moved!WrongForm
  <2> QED
    BY <1>7, <2>1
<1>10. Moved!R!Texts(mw, "users") = v
  BY <1>8, <1>9 DEF Moved!R!Texts, Moved!R!Read, Moved!R!Has
<1>11. \E S : v \in Seq(S)
  BY <1>8, <1>9 DEF SpecOK, ValueOK
<1>12. 1 \in DOMAIN v
  BY <1>8, <1>11
<1> QED
  BY <1>10, <1>12 DEF Moved!R!ToSet

(* A middleware fails for the reasons Validate does not know of. *)
LEMMA MiddlewareSound ==
  ASSUME NEW d, NEW hashes, NEW mw, NEW known, SpecOK(mw.spec), Sound("middleware", mw.spec, known)
  PROVE  Moved!R!MiddlewareFailures(mw, d, hashes) \subseteq
           {"user", "empty reference", "password", "header", "rewrite.body"}
<1>1. PICK t : /\ t = Moved!R!TextOf(mw, "type")
               /\ t \in DOMAIN Moved!Catalog["middleware"]
  BY TypeSound
<1>2. t \in {"encode", "basic_auth", "headers", "websocket", "rewrite", "code"}
  BY <1>1 DEF Moved!Catalog, Moved!MiddlewareTypes
<1>3. t = "basic_auth" => Moved!R!ToSet(Moved!R!Texts(mw, "users")) # {}
  BY <1>1, UsersSound
<1>4. \A u : Moved!R!Missing("user", u) \in {"empty reference", "user"}
  BY MissingIs
<1> QED
  BY <1>1, <1>2, <1>3, <1>4 DEF Moved!R!MiddlewareFailures

(* The address of a route, the empty text by its name. *)
LEMMA AddressIs == \A rt, ep, d : Moved!R!AddressFailures(rt, ep, d) =
  LET roots == Moved!R!Texts(rt, "roots") IN
  IF roots = <<>>
  THEN IF Moved!R!TextOf(rt, "subdomain") = Empty /\ Moved!R!RoutePort(rt, ep) = Empty THEN {"no address"} ELSE {}
  ELSE IF roots[1] \notin DOMAIN d["domain"] THEN {Moved!R!Missing("domain", roots[1])} ELSE {}
BY Zenon DEF Moved!R!AddressFailures, Empty

(* One route. *)
LEMMA RouteRenders ==
  ASSUME NEW d, DbSound(d), NEW hashes, NEW rt, SpecOK(rt.spec), Sound("route", rt.spec, Moved!Stored(d))
  PROVE  Moved!R!RouteFailures(rt, d, hashes) \subseteq Moved!Excuses
<1>1. PICK e : e = Moved!R!TextOf(rt, "entrypoint") /\ e \in DOMAIN d["entrypoint"]
  BY RouteSound
<1>2. Moved!R!TextOf(d["entrypoint"][e], "protocol") \in Moved!R!InstalledProtocols
  BY <1>1, ProtocolSound DEF DbSound, Moved!Migrated
<1>3. PICK mws : /\ mws = Moved!R!ToSet(Moved!R!Texts(rt, "middlewares"))
                 /\ \A m \in mws : m = Empty \/ m \in DOMAIN d["middleware"]
  BY RouteSound
<1>4. \A m \in mws \ DOMAIN d["middleware"] : Moved!R!Missing("middleware", m) \in Moved!Excuses
  BY <1>3, MissingIs DEF Moved!Excuses
<1>5. \A m \in mws \cap DOMAIN d["middleware"] :
        Moved!R!MiddlewareFailures(d["middleware"][m], d, hashes) \subseteq Moved!Excuses
  <2>1. \A m \in DOMAIN d["middleware"] :
          Moved!R!MiddlewareFailures(d["middleware"][m], d, hashes) \subseteq
           {"user", "empty reference", "password", "header", "rewrite.body"}
    BY MiddlewareSound DEF DbSound, Moved!Migrated
  <2> QED
    BY <2>1 DEF Moved!Excuses
<1>6. Moved!R!UpstreamFailures(rt, d) \subseteq Moved!Excuses
  <2>1. Moved!R!UpstreamFailures(rt, d) \subseteq {"not a text", "body"}
    BY UpstreamSound
  <2> QED
    BY <2>1 DEF Moved!Excuses
<1>7. Moved!R!AddressFailures(rt, d["entrypoint"][e], d) \subseteq Moved!Excuses
  <2>1. PICK roots : /\ roots = Moved!R!Texts(rt, "roots")
                     /\ roots # <<>> => roots[1] = Empty \/ roots[1] \in DOMAIN d["domain"]
    BY RouteSound
  <2>2. roots[1] = Empty => Moved!R!Missing("domain", roots[1]) = "empty reference"
    BY MissingIs
  <2>3. "no address" \in Moved!Excuses /\ "empty reference" \in Moved!Excuses
    BY DEF Moved!Excuses
  <2> QED
    BY <2>1, <2>2, <2>3, AddressIs
<1> DEFINE Unknown == {Moved!R!Missing("middleware", m) : m \in mws \ DOMAIN d["middleware"]}
           Failing == UNION {Moved!R!MiddlewareFailures(d["middleware"][m], d, hashes) :
                               m \in mws \cap DOMAIN d["middleware"]}
<1>8. Moved!R!RouteFailures(rt, d, hashes) =
        Unknown \cup Failing \cup Moved!R!UpstreamFailures(rt, d)
          \cup Moved!R!AddressFailures(rt, d["entrypoint"][e], d)
  BY <1>1, <1>2, <1>3, Zenon DEF Moved!R!RouteFailures
<1>9. Unknown \subseteq Moved!Excuses /\ Failing \subseteq Moved!Excuses
  BY <1>4, <1>5
<1> HIDE DEF Unknown, Failing
<1> QED
  BY <1>6, <1>7, <1>8, <1>9

(* What Validate accepted can be rendered. *)
LEMMA SoundRenders ==
  ASSUME NEW d, DbSound(d), NEW hashes
  PROVE  Moved!R!Render(d, hashes).failures \subseteq Moved!Excuses
<1>1. \A r \in Moved!R!Active(d) : Moved!R!RouteFailures(d["route"][r], d, hashes) \subseteq Moved!Excuses
  <2> SUFFICES ASSUME NEW r \in Moved!R!Active(d)
               PROVE  Moved!R!RouteFailures(d["route"][r], d, hashes) \subseteq Moved!Excuses
    OBVIOUS
  <2>1. SpecOK(d["route"][r].spec) /\ Sound("route", d["route"][r].spec, Moved!Stored(d))
    BY DEF DbSound, Moved!Migrated, Moved!R!Active
  <2> QED
    BY <2>1, RouteRenders
<1>2. PICK bad : /\ bad = UNION {Moved!R!RouteFailures(d["route"][r], d, hashes) : r \in Moved!R!Active(d)}
                 /\ bad \subseteq Moved!Excuses
  BY <1>1
<1>3. "address taken" \in Moved!Excuses
  BY DEF Moved!Excuses
<1>4. \E sites :
        \/ Moved!R!Render(d, hashes) = [failures |-> bad, sites |-> sites]
        \/ Moved!R!Render(d, hashes) = [failures |-> {"address taken"}, sites |-> sites]
        \/ Moved!R!Render(d, hashes) = [failures |-> {}, sites |-> sites]
  BY <1>2, Zenon DEF Moved!R!Render
<1>5. \A a, b : [failures |-> a, sites |-> b].failures = a
  OBVIOUS
<1> QED
  BY <1>2, <1>3, <1>4, <1>5

(* The objects of a reading of the store, each as Validate left it: all it *)
(* refers to is stored or is one of targets.                               *)
Kept(d, targets) ==
  /\ d = [k \in Moved!Migrated |-> d[k]]
  /\ \A k \in Moved!Migrated : \A id \in DOMAIN d[k] :
       SpecOK(d[k][id].spec) /\ Sound(k, d[k][id].spec, Moved!Stored(d) \cup targets)

(* Nothing is still to come. *)
LEMMA KeptSound == \A d : Kept(d, {}) => DbSound(d)
BY DEF Kept, DbSound

LEMMA NothingKept == \A targets : Kept([k \in Moved!Migrated |-> <<>>], targets)
BY DEF Kept

(* The store after a write, and after a delete. *)
Written(d, kind, id, r) ==
  [k \in Moved!Migrated |-> IF k = kind THEN Moved!With(d[kind], id, r) ELSE d[k]]
Without(d, kind, id) ==
  [k \in Moved!Migrated |-> IF k = kind THEN [j \in DOMAIN d[kind] \ {id} |-> d[kind][j]] ELSE d[k]]

(* What is stored then. *)
LEMMA WrittenStored ==
  ASSUME NEW d, d = [k \in Moved!Migrated |-> d[k]], NEW kind \in Moved!Migrated, NEW id, NEW r,
         NEW e, e = Written(d, kind, id, r)
  PROVE  /\ e = [k \in Moved!Migrated |-> e[k]]
         /\ Moved!Stored(e) = Moved!Stored(d) \cup {<<kind, id>>}
         /\ \A k \in Moved!Migrated : \A j \in DOMAIN e[k] :
              \/ k = kind /\ j = id /\ e[k][j] = r
              \/ j \in DOMAIN d[k] /\ e[k][j] = d[k][j]
<1>1. e = [k \in Moved!Migrated |-> IF k = kind THEN Moved!With(d[kind], id, r) ELSE d[k]]
  BY DEF Written
<1>2. /\ DOMAIN e[kind] = DOMAIN d[kind] \cup {id}
      /\ \A j \in DOMAIN e[kind] : e[kind][j] = IF j = id THEN r ELSE d[kind][j]
  BY <1>1 DEF Moved!With
<1>3. \A k \in Moved!Migrated \ {kind} : e[k] = d[k]
  BY <1>1
<1>4. \A k, j : <<k, j>> \in Moved!Stored(e) <=> <<k, j>> \in Moved!Stored(d) \/ (k = kind /\ j = id)
  BY <1>2, <1>3, StoredIs, ZenonT(30)
<1>5. \A x : /\ x \in Moved!Stored(e) => \E k, j : x = <<k, j>>
             /\ x \in Moved!Stored(d) => \E k, j : x = <<k, j>>
  BY DEF Moved!Stored
<1>6. Moved!Stored(e) = Moved!Stored(d) \cup {<<kind, id>>}
  BY <1>4, <1>5
<1> QED
  BY <1>1, <1>2, <1>3, <1>6

LEMMA DeletedStored ==
  ASSUME NEW d, d = [k \in Moved!Migrated |-> d[k]], NEW kind \in Moved!Migrated, NEW id,
         NEW e, e = Without(d, kind, id)
  PROVE  /\ e = [k \in Moved!Migrated |-> e[k]]
         /\ Moved!Stored(d) \ {<<kind, id>>} \subseteq Moved!Stored(e)
         /\ \A k \in Moved!Migrated : \A j \in DOMAIN e[k] :
              j \in DOMAIN d[k] /\ e[k][j] = d[k][j]
<1>1. e = [k \in Moved!Migrated |-> IF k = kind THEN [j \in DOMAIN d[kind] \ {id} |-> d[kind][j]] ELSE d[k]]
  BY DEF Without
<1>2. \A k, j : <<k, j>> \in Moved!Stored(e) <=> <<k, j>> \in Moved!Stored(d) /\ ~(k = kind /\ j = id)
  BY <1>1, StoredIs
<1>3. \A x : x \in Moved!Stored(d) => \E k, j : x = <<k, j>>
  BY DEF Moved!Stored
<1> QED
  BY <1>1, <1>2, <1>3

(* A write of what passes Validate and a delete of what nothing refers to   *)
(* keep the objects.                                                        *)
LEMMA WrittenKept ==
  ASSUME NEW d, NEW targets, Kept(d, targets), NEW kind \in Moved!Migrated, NEW id, NEW r,
         SpecOK(r.spec), Sound(kind, r.spec, Moved!Stored(d) \cup targets),
         NEW e, e = Written(d, kind, id, r)
  PROVE  Kept(e, targets)
<1>1. d = [k \in Moved!Migrated |-> d[k]]
  BY DEF Kept
<1>2. /\ e = [k \in Moved!Migrated |-> e[k]]
      /\ Moved!Stored(e) = Moved!Stored(d) \cup {<<kind, id>>}
      /\ \A k \in Moved!Migrated : \A j \in DOMAIN e[k] :
              \/ k = kind /\ j = id /\ e[k][j] = r
              \/ j \in DOMAIN d[k] /\ e[k][j] = d[k][j]
  BY <1>1, WrittenStored
<1>3. \A k, spec : Sound(k, spec, Moved!Stored(d) \cup targets)
        => Sound(k, spec, Moved!Stored(e) \cup targets)
  <2>1. Moved!Stored(d) \cup targets \subseteq Moved!Stored(e) \cup targets
    BY <1>2
  <2> QED
    BY <2>1, RefsMonotone DEF Sound
<1> QED
  BY <1>2, <1>3 DEF Kept

LEMMA DeletedKept ==
  ASSUME NEW d, NEW targets, Kept(d, targets), NEW kind \in Moved!Migrated, NEW id,
         \A k \in Moved!Migrated : \A j \in DOMAIN d[k] :
           ~Moved!Refers([kind |-> k, spec |-> d[k][j].spec], kind, id),
         NEW e, e = Without(d, kind, id)
  PROVE  Kept(e, targets)
<1>1. d = [k \in Moved!Migrated |-> d[k]]
  BY DEF Kept
<1>2. /\ e = [k \in Moved!Migrated |-> e[k]]
      /\ Moved!Stored(d) \ {<<kind, id>>} \subseteq Moved!Stored(e)
      /\ \A k \in Moved!Migrated : \A j \in DOMAIN e[k] :
              j \in DOMAIN d[k] /\ e[k][j] = d[k][j]
  BY <1>1, DeletedStored
<1>3. (Moved!Stored(d) \cup targets) \ {<<kind, id>>} \subseteq Moved!Stored(e) \cup targets
  BY <1>2
<1>4. \A k \in Moved!Migrated : \A j \in DOMAIN d[k] :
        SpecOK(d[k][j].spec) /\ Sound(k, d[k][j].spec, Moved!Stored(e) \cup targets)
  BY <1>3, RefsGone DEF Kept
<1> QED
  BY <1>2, <1>4 DEF Kept

(* When all targets are stored, nothing is still to come. *)
LEMMA AllKept ==
  ASSUME NEW d, NEW targets, Kept(d, targets), targets \subseteq Moved!Stored(d)
  PROVE  Kept(d, {})
<1>1. Moved!Stored(d) \cup targets = Moved!Stored(d) \cup {}
  BY Zenon
<1> QED
  BY <1>1 DEF Kept

(* The plan of the tables, and what it is about to store. *)
PlanOf(t) == Moved!Sorted(Moved!Build(t).objects)
TargetsOf(plan) == {Moved!Target(o) : o \in Moved!ToSet(plan)}

(* An object is stored, or not accepted. *)
Decided(o, targets, d) ==
  \/ Moved!Target(o) \in Moved!Stored(d)
  \/ Moved!Validate(o.kind, o.spec, Moved!Stored(d) \cup targets) # {}
(* A run under way: what is stored and what is planned are together what    *)
(* they were at its start; what it has passed is stored or was refused.     *)
UnderWay(plan, targets, d, j, b) ==
  /\ j.plan = plan /\ j.i \in Nat \ {0}
  /\ b = <<b[1]>> /\ j.keep = Moved!Stored(b[1]) /\ j.keep \subseteq Moved!Stored(d)
  /\ Moved!Stored(d) \cup targets = j.keep \cup targets
  /\ \A n \in 1 .. Len(plan) : n < j.i =>
       /\ Decided(plan[n], targets, d)
       /\ Moved!Target(plan[n]) \in Moved!Stored(d) \cup j.failed
JobShape(j) == j = [at |-> j.at, force |-> j.force, plan |-> j.plan, i |-> j.i,
                    failed |-> j.failed, keep |-> j.keep]
(* What the backup holds is kept too; what the last run left is decided. *)
BackupKept(b, targets) == b = <<>> \/ (b = <<b[1]>> /\ Kept(b[1], targets))
EndDecided(plan, targets, s) ==
  s = <<>> \/ (s = <<s[1]>> /\ \A n \in 1 .. Len(plan) : Decided(plan[n], targets, s[1]))
Steady(plan, targets, d, j, b, w, s) ==
  /\ JobShape(j)
  /\ Kept(d, targets)
  /\ BackupKept(b, targets)
  /\ EndDecided(plan, targets, s)
  /\ j.at = "apply" => UnderWay(plan, targets, d, j, b)
  /\ w /\ j.at # "apply" => Kept(d, {})
MigrationInv ==
  /\ tables \in OldTables
  /\ Steady(PlanOf(tables), TargetsOf(PlanOf(tables)), db, migration, backup, whole, settled)

(* Every planned object is of a kind that is stored, and has its fields. *)
LEMMA PlanMade ==
  ASSUME NEW t \in OldTables
  PROVE  /\ Len(PlanOf(t)) \in Nat /\ DOMAIN PlanOf(t) = 1 .. Len(PlanOf(t))
         /\ \A n \in 1 .. Len(PlanOf(t)) :
              /\ PlanOf(t)[n].kind \in Moved!Migrated
              /\ SpecOK(PlanOf(t)[n].spec)
              /\ Moved!Target(PlanOf(t)[n]) \in TargetsOf(PlanOf(t))
         /\ \A x \in TargetsOf(PlanOf(t)) : \E n \in 1 .. Len(PlanOf(t)) : x = Moved!Target(PlanOf(t)[n])
<1>1. TablesOK(t)
  <2>1. \A s : Moved!IsSequence(s) => Len(s) \in Nat /\ \A i \in 1 .. Len(s) : s[i] \in Moved!ToSet(s)
    BY DEF Moved!IsSequence, Moved!ToSet
  <2>2. /\ Moved!IsSequence(t.domains) /\ Moved!IsSequence(t.bindings) /\ Moved!IsSequence(t.frags)
        /\ Moved!IsSequence(t.services)
        /\ \A svc \in Moved!ToSet(t.services) : Moved!IsSequence(svc.rows)
    BY MigrationAssumption DEF Moved!WellFormed
  <2> QED
    BY <2>1, <2>2 DEF TablesOK
<1>2. ListOK(Moved!Build(t).objects)
  BY <1>1, Planned DEF IsPlan
<1>3. PICK plan : plan = PlanOf(t) /\ ListOK(plan)
  BY <1>2, SortedOK DEF PlanOf
<1>4. PICK S : plan \in Seq(S) /\ \A o \in S : PlannedOK(o)
  BY <1>3 DEF ListOK
<1>5. \A n \in 1 .. Len(plan) : plan[n] \in S
  BY <1>4
<1>6. \A n \in 1 .. Len(plan) : plan[n].kind \in Moved!Migrated /\ SpecOK(plan[n].spec)
  BY <1>4, <1>5 DEF PlannedOK, PlannedKinds, Moved!Migrated
<1>7. Len(plan) \in Nat /\ DOMAIN plan = 1 .. Len(plan)
  BY <1>4
<1>8. /\ \A n \in 1 .. Len(plan) : Moved!Target(plan[n]) \in TargetsOf(plan)
      /\ \A x \in TargetsOf(plan) : \E n \in 1 .. Len(plan) : x = Moved!Target(plan[n])
  BY <1>7 DEF TargetsOf, Moved!ToSet
<1> QED
  BY <1>3, <1>6, <1>7, <1>8

(* What users save has the form fields have. *)
LEMMA EditMade ==
  ASSUME NEW o \in MCEdits
  PROVE  SpecOK(o.spec)
<1> SUFFICES ASSUME NEW key \in DOMAIN o.spec
             PROVE  ValueOK(key, o.spec[key])
  BY DEF SpecOK
<1>1. IF o.spec[key].form = "array" THEN Moved!IsSequence(o.spec[key].v)
                                     ELSE o.spec[key].v = <<o.spec[key].v[1]>>
  BY MigrationAssumption DEF Moved!WellFormed
<1> QED
  BY <1>1 DEF ValueOK, Moved!IsSequence

(* What passes Validate is of a kind that is stored. *)
LEMMA ValidKind ==
  ASSUME NEW kind, NEW spec, NEW known, Moved!Validate(kind, spec, known) = {}
  PROVE  kind \in Moved!Migrated /\ Sound(kind, spec, known)
<1>1. \A x : {x} # {}
  OBVIOUS
<1>2. kind \in DOMAIN Moved!Schema
  BY <1>1, Zenon DEF Moved!Validate
<1> QED
  BY <1>2 DEF Moved!Schema, Moved!Migrated, Sound

(* The invariant, of values. *)
LEMMA Taken ==
  ASSUME NEW t \in OldTables, NEW d, NEW j, NEW b, NEW w, NEW s,
         Steady(PlanOf(t), TargetsOf(PlanOf(t)), d, j, b, w, s)
  PROVE  /\ tables = t /\ db = d /\ migration = j /\ backup = b /\ whole = w /\ settled = s
              => MigrationInv
         /\ tables' = t /\ db' = d /\ migration' = j /\ backup' = b /\ whole' = w /\ settled' = s
              => MigrationInv'
<1>1. tables = t /\ db = d /\ migration = j /\ backup = b /\ whole = w /\ settled = s
              => MigrationInv
  BY DEF MigrationInv
<1>2. tables' = t /\ db' = d /\ migration' = j /\ backup' = b /\ whole' = w /\ settled' = s
              => MigrationInv'
  BY DEF MigrationInv
<1> QED
  BY <1>1, <1>2

(* The actions of the migration, one by one. *)
LEMMA RunStartKeeps ==
  ASSUME MigrationInv, NEW force, Moved!Start(force), UNCHANGED <<whole, settled>>
  PROVE  MigrationInv'
<1>1. PICK t, d, j, b, w, s :
        /\ t \in OldTables
        /\ tables = t /\ db = d /\ migration = j /\ backup = b /\ whole = w /\ settled = s
        /\ Steady(PlanOf(t), TargetsOf(PlanOf(t)), d, j, b, w, s)
  BY DEF MigrationInv
<1>2. PICK plan, targets : plan = PlanOf(t) /\ targets = TargetsOf(plan)
  OBVIOUS
<1>3. PICK k : /\ k = [at |-> "apply", force |-> force, plan |-> plan, i |-> 1,
                       failed |-> {}, keep |-> Moved!Stored(d)]
               /\ tables' = t /\ db' = d /\ migration' = k /\ backup' = <<d>> /\ whole' = w
               /\ settled' = s
  BY <1>1, <1>2 DEF Moved!Start, PlanOf
<1>4. UnderWay(plan, targets, d, k, <<d>>)
  BY <1>3 DEF UnderWay
<1>5. JobShape(k) /\ k.at = "apply"
  BY <1>3 DEF JobShape
<1>6. BackupKept(<<d>>, targets)
  <2>1. <<d>>[1] = d
    OBVIOUS
  <2> QED
    BY <1>1, <1>2, <2>1 DEF BackupKept, Steady
<1>7. Steady(plan, targets, d, k, <<d>>, w, s)
  BY <1>1, <1>2, <1>4, <1>5, <1>6 DEF Steady
<1> QED
  BY <1>1, <1>2, <1>3, <1>7, Taken

(* What is written is one of the targets: what exists or is still to come  *)
(* stays the same.                                                         *)
LEMMA WriteNextKeeps ==
  ASSUME MigrationInv, Moved!WriteNext, UNCHANGED <<whole, settled>>
  PROVE  MigrationInv'
<1>1. PICK t, d, j, b, w, s :
        /\ t \in OldTables
        /\ tables = t /\ db = d /\ migration = j /\ backup = b /\ whole = w /\ settled = s
        /\ Steady(PlanOf(t), TargetsOf(PlanOf(t)), d, j, b, w, s)
  BY DEF MigrationInv
<1>2. PICK plan, targets : plan = PlanOf(t) /\ targets = TargetsOf(plan)
  OBVIOUS
<1>3. UnderWay(plan, targets, d, j, b) /\ Kept(d, targets) /\ JobShape(j) /\ j.at = "apply"
  BY <1>1, <1>2 DEF Steady, Moved!WriteNext
<1>4. PICK o : o = plan[j.i] /\ j.i \in 1 .. Len(plan)
  BY <1>1, <1>2, <1>3, PlanMade DEF UnderWay, Moved!WriteNext
<1>5. o.kind \in Moved!Migrated /\ SpecOK(o.spec) /\ Moved!Target(o) \in targets
  BY <1>1, <1>2, <1>4, PlanMade
<1>6. PICK known : known = Moved!Stored(d) \cup targets
  OBVIOUS
<1>7. PICK r : r = [key |-> o.key, spec |-> o.spec, source |-> o.source]
  OBVIOUS
<1>8. PICK skip, ok \in BOOLEAN :
        /\ skip = (Moved!Target(o) \in j.keep /\ ~j.force)
        /\ ok = (Moved!Validate(o.kind, o.spec, known) = {})
  OBVIOUS
<1>9. PICK e, k :
        /\ e = IF skip \/ ~ok THEN d ELSE Written(d, o.kind, o.id, r)
        /\ k = [at |-> j.at, force |-> j.force, plan |-> j.plan, i |-> j.i + 1,
                failed |-> IF skip \/ ok THEN j.failed ELSE j.failed \cup {Moved!Target(o)},
                keep |-> j.keep]
        /\ tables' = t /\ db' = e /\ migration' = k /\ backup' = b /\ whole' = w /\ settled' = s
  <2>1. migration.plan[migration.i] = o /\ Moved!Known = known
    BY <1>1, <1>2, <1>3, <1>4, <1>6 DEF UnderWay, Moved!Known, TargetsOf
  <2>2. Moved!Skipped(o) <=> skip
    BY <1>1, <1>8 DEF Moved!Skipped
  <2>3. Moved!Accepts(o) <=> ok
    BY <1>8, <2>1 DEF Moved!Accepts
  <2>4. [d EXCEPT ![o.kind] = Moved!With(@, o.id, r)] = Written(d, o.kind, o.id, r)
    BY <1>3 DEF Kept, Written
  <2>5. Moved!Put(o) = Written(d, o.kind, o.id, r)
    BY <1>1, <1>7, <2>4 DEF Moved!Put, Moved!Stores
  <2>6. \A f : [j EXCEPT !.i = @ + 1, !.failed = f] =
                 [at |-> j.at, force |-> j.force, plan |-> j.plan, i |-> j.i + 1,
                  failed |-> f, keep |-> j.keep]
    <3> SUFFICES ASSUME NEW f
                 PROVE  [[j EXCEPT !.i = @ + 1] EXCEPT !.failed = f] =
                          [at |-> j.at, force |-> j.force, plan |-> j.plan, i |-> j.i + 1,
                           failed |-> f, keep |-> j.keep]
      OBVIOUS
    <3>1. PICK n : n = j.i + 1
      OBVIOUS
    <3>2. PICK g : g = [j EXCEPT !.i = n]
      OBVIOUS
    <3>3. g = [at |-> j.at, force |-> j.force, plan |-> j.plan, i |-> n,
               failed |-> j.failed, keep |-> j.keep]
      BY <1>3, <3>2 DEF JobShape
    <3>4. [g EXCEPT !.failed = f] = [at |-> j.at, force |-> j.force, plan |-> j.plan, i |-> n,
                                     failed |-> f, keep |-> j.keep]
      BY <3>3
    <3> QED
      BY <3>1, <3>2, <3>4
  <2>7. /\ db' = IF skip \/ ~ok THEN d ELSE Written(d, o.kind, o.id, r)
        /\ migration' = [j EXCEPT !.i = @ + 1,
                         !.failed = IF skip \/ ok THEN j.failed ELSE j.failed \cup {Moved!Target(o)}]
    BY <1>1, <2>1, <2>2, <2>3, <2>5 DEF Moved!WriteNext
  <2> QED
    BY <1>1, <2>6, <2>7 DEF Moved!WriteNext
<1>10. /\ Kept(e, targets) /\ Moved!Stored(d) \subseteq Moved!Stored(e)
       /\ Moved!Stored(e) \cup targets = known
       /\ Moved!Target(o) \in Moved!Stored(e) \/ (~skip /\ ~ok)
  <2>1. CASE skip \/ ~ok
    <3>1. skip => Moved!Target(o) \in Moved!Stored(d)
      BY <1>3, <1>8 DEF UnderWay
    <3> QED
      BY <1>3, <1>6, <1>9, <2>1, <3>1
  <2>2. CASE ~skip /\ ok
    <3>1. e = Written(d, o.kind, o.id, r) /\ Moved!Stored(e) = Moved!Stored(d) \cup {<<o.kind, o.id>>}
      BY <1>3, <1>5, <1>9, <2>2, WrittenStored DEF Kept
    <3>2. Sound(o.kind, r.spec, Moved!Stored(d) \cup targets) /\ SpecOK(r.spec)
      BY <1>5, <1>6, <1>7, <1>8, <2>2 DEF Sound
    <3>3. Kept(e, targets)
      BY <1>3, <1>5, <3>1, <3>2, WrittenKept
    <3> QED
      BY <1>5, <1>6, <3>1, <3>3 DEF Moved!Target
  <2> QED
    BY <2>1, <2>2
<1>11. UnderWay(plan, targets, e, k, b)
  <2>1. k.plan = plan /\ k.i \in Nat \ {0} /\ k.i = j.i + 1 /\ k.keep = j.keep
    BY <1>3, <1>9 DEF UnderWay
  <2>2. b = <<b[1]>> /\ k.keep = Moved!Stored(b[1]) /\ k.keep \subseteq Moved!Stored(e)
        /\ Moved!Stored(e) \cup targets = k.keep \cup targets
    BY <1>3, <1>6, <1>10, <2>1 DEF UnderWay
  <2>3. ASSUME NEW n \in 1 .. Len(plan), n < k.i
        PROVE  Decided(plan[n], targets, e) /\ Moved!Target(plan[n]) \in Moved!Stored(e) \cup k.failed
    <3>1. j.failed \subseteq k.failed /\ (~skip /\ ~ok => Moved!Target(o) \in k.failed)
      BY <1>9
    <3>2. CASE n = j.i
      BY <1>4, <1>8, <1>10, <3>1, <3>2 DEF Decided
    <3>3. CASE n # j.i
      <4>1. n < j.i
        BY <1>4, <2>1, <2>3, <3>3
      <4>2. Decided(plan[n], targets, d) /\ Moved!Target(plan[n]) \in Moved!Stored(d) \cup j.failed
        BY <1>3, <4>1 DEF UnderWay
      <4> QED
        BY <1>6, <1>10, <3>1, <4>2 DEF Decided
    <3> QED
      BY <3>2, <3>3
  <2> QED
    BY <2>1, <2>2, <2>3 DEF UnderWay
<1>12. JobShape(k) /\ k.at = "apply"
  BY <1>3, <1>9 DEF JobShape
<1>13. Steady(plan, targets, e, k, b, w, s)
  BY <1>1, <1>2, <1>10, <1>11, <1>12 DEF Steady
<1> QED
  BY <1>1, <1>2, <1>9, <1>13, Taken

LEMMA FinishKeeps ==
  ASSUME MigrationInv, Moved!Finish, whole' = (migration.failed = {}), settled' = <<db>>
  PROVE  MigrationInv'
<1>1. PICK t, d, j, b, w, s :
        /\ t \in OldTables
        /\ tables = t /\ db = d /\ migration = j /\ backup = b /\ whole = w /\ settled = s
        /\ Steady(PlanOf(t), TargetsOf(PlanOf(t)), d, j, b, w, s)
  BY DEF MigrationInv
<1>2. PICK plan, targets : plan = PlanOf(t) /\ targets = TargetsOf(plan)
  OBVIOUS
<1>3. UnderWay(plan, targets, d, j, b) /\ Kept(d, targets) /\ JobShape(j) /\ BackupKept(b, targets)
  BY <1>1, <1>2 DEF Steady, Moved!Finish
<1>v. PICK v \in BOOLEAN : v = (j.failed = {})
  OBVIOUS
<1>4. PICK k :
        /\ k = [at |-> "done", force |-> j.force, plan |-> j.plan, i |-> j.i,
                failed |-> j.failed, keep |-> j.keep]
        /\ tables' = t /\ db' = d /\ migration' = k /\ backup' = b /\ whole' = v /\ settled' = <<d>>
  <2>1. [j EXCEPT !.at = "done"] = [at |-> "done", force |-> j.force, plan |-> j.plan, i |-> j.i,
                failed |-> j.failed, keep |-> j.keep]
    BY <1>3 DEF JobShape
  <2> QED
    BY <1>1, <1>v, <2>1 DEF Moved!Finish
<1>5. \A n \in 1 .. Len(plan) : n < j.i
  BY <1>1, <1>2, <1>3, PlanMade DEF UnderWay, Moved!Finish
<1>6. EndDecided(plan, targets, <<d>>)
  <2>1. <<d>>[1] = d
    OBVIOUS
  <2>2. \A n \in 1 .. Len(plan) : Decided(plan[n], targets, d)
    BY <1>3, <1>5 DEF UnderWay
  <2> QED
    BY <2>1, <2>2 DEF EndDecided
<1>7. v => Kept(d, {})
  <2>1. ASSUME v PROVE \A n \in 1 .. Len(plan) : Moved!Target(plan[n]) \in Moved!Stored(d)
    BY <1>3, <1>v, <1>5, <2>1 DEF UnderWay
  <2>2. \A x \in targets : \E n \in 1 .. Len(plan) : x = Moved!Target(plan[n])
    BY <1>1, <1>2, PlanMade
  <2>3. v => targets \subseteq Moved!Stored(d)
    BY <2>1, <2>2
  <2> QED
    BY <1>3, <2>3, AllKept
<1>8. JobShape(k) /\ k.at = "done"
  BY <1>4 DEF JobShape
<1>9. Steady(plan, targets, d, k, b, v, <<d>>)
  BY <1>3, <1>6, <1>7, <1>8 DEF Steady
<1> QED
  BY <1>1, <1>2, <1>4, <1>9, Taken

(* No run is under way. *)
LEMMA FreshJob == JobShape(Moved!NoJob) /\ Moved!NoJob.at = "none"
BY DEF JobShape, Moved!NoJob

LEMMA KillKeeps ==
  ASSUME MigrationInv, Moved!Kill, whole' = FALSE, settled' = settled
  PROVE  MigrationInv'
<1>1. PICK t, d, j, b, w, s :
        /\ t \in OldTables
        /\ tables = t /\ db = d /\ migration = j /\ backup = b /\ whole = w /\ settled = s
        /\ Steady(PlanOf(t), TargetsOf(PlanOf(t)), d, j, b, w, s)
  BY DEF MigrationInv
<1>2. /\ tables' = t /\ db' = d /\ migration' = Moved!NoJob /\ backup' = b /\ whole' = FALSE
      /\ settled' = s
  BY <1>1 DEF Moved!Kill
<1>3. Steady(PlanOf(t), TargetsOf(PlanOf(t)), d, Moved!NoJob, b, FALSE, s)
  BY <1>1, FreshJob DEF Steady
<1> QED
  BY <1>1, <1>2, <1>3, Taken

LEMMA RestoreKeeps ==
  ASSUME MigrationInv, Moved!Restore, whole' = (backup[1] = [k \in Moved!Migrated |-> <<>>]),
         settled' = settled
  PROVE  MigrationInv'
<1>1. PICK t, d, j, b, w, s :
        /\ t \in OldTables
        /\ tables = t /\ db = d /\ migration = j /\ backup = b /\ whole = w /\ settled = s
        /\ Steady(PlanOf(t), TargetsOf(PlanOf(t)), d, j, b, w, s)
  BY DEF MigrationInv
<1>e. PICK e : e = b[1]
  OBVIOUS
<1>v. PICK v \in BOOLEAN : v = (e = [k \in Moved!Migrated |-> <<>>])
  OBVIOUS
<1>2. /\ e = b[1]
      /\ tables' = t /\ db' = e /\ migration' = Moved!NoJob /\ backup' = b /\ whole' = v
      /\ settled' = s /\ b # <<>>
  BY <1>1, <1>e, <1>v DEF Moved!Restore
<1>3. Kept(e, TargetsOf(PlanOf(t))) /\ (v => Kept(e, {}))
  BY <1>1, <1>v, <1>2, NothingKept DEF Steady, BackupKept
<1>4. Steady(PlanOf(t), TargetsOf(PlanOf(t)), e, Moved!NoJob, b, v, s)
  BY <1>1, <1>3, FreshJob DEF Steady
<1> QED
  BY <1>1, <1>2, <1>4, Taken

LEMMA UserSavesKeeps ==
  ASSUME MigrationInv, NEW o \in MCEdits, Moved!UserSaves(o), UNCHANGED <<whole, settled>>
  PROVE  MigrationInv'
<1>1. PICK t, d, j, b, w, s :
        /\ t \in OldTables
        /\ tables = t /\ db = d /\ migration = j /\ backup = b /\ whole = w /\ settled = s
        /\ Steady(PlanOf(t), TargetsOf(PlanOf(t)), d, j, b, w, s)
  BY DEF MigrationInv
<1>2. PICK targets : targets = TargetsOf(PlanOf(t)) /\ Kept(d, targets) /\ (w => Kept(d, {}))
  BY <1>1 DEF Steady, Moved!UserSaves
<1>3. o.kind \in Moved!Migrated /\ Sound(o.kind, o.spec, Moved!Stored(d)) /\ SpecOK(o.spec)
  BY <1>1, ValidKind, EditMade DEF Moved!UserSaves
<1>e. PICK e : e = db'
  OBVIOUS
<1>4. PICK id, r :
        /\ r.spec = o.spec
        /\ e = Written(d, o.kind, id, r)
        /\ tables' = t /\ db' = e /\ migration' = Moved!NoJob /\ backup' = b /\ whole' = w
        /\ settled' = s
  <2>1. \A id, r : [d EXCEPT ![o.kind] = Moved!With(@, id, r)] = Written(d, o.kind, id, r)
    BY <1>2 DEF Kept, Written
  <2>2. PICK id, key, r : /\ r = [key |-> key, spec |-> o.spec, source |-> <<"user">>]
                          /\ db' = [d EXCEPT ![o.kind] = Moved!With(@, id, r)]
    BY <1>1, Zenon DEF Moved!UserSaves, Moved!Stores
  <2>3. r.spec = o.spec
    BY <2>2
  <2> QED
    <3>1. /\ tables' = t /\ migration' = Moved!NoJob /\ backup' = b /\ whole' = w
          /\ settled' = s
      BY <1>1 DEF Moved!UserSaves
    <3> QED
      <4>1. db' = Written(d, o.kind, id, r)
        BY <2>1, <2>2
      <4> QED
        BY <1>e, <2>3, <3>1, <4>1
<1>5. \A more : Sound(o.kind, o.spec, Moved!Stored(d) \cup more)
  <2>1. \A more : Moved!Stored(d) \subseteq Moved!Stored(d) \cup more
    OBVIOUS
  <2> QED
    BY <1>3, <2>1, RefsMonotone DEF Sound
<1>6. \A some : Kept(d, some) => Kept(e, some)
  BY <1>3, <1>4, <1>5, WrittenKept
<1>7. Steady(PlanOf(t), targets, e, Moved!NoJob, b, w, s)
  BY <1>1, <1>2, <1>6, FreshJob DEF Steady
<1> QED
  BY <1>1, <1>2, <1>4, <1>7, Taken

LEMMA UserDeletesKeeps ==
  ASSUME MigrationInv, NEW kind \in Moved!Migrated, NEW id \in DOMAIN db[kind],
         Moved!UserDeletes(kind, id), UNCHANGED <<whole, settled>>
  PROVE  MigrationInv'
<1>1. PICK t, d, j, b, w, s :
        /\ t \in OldTables
        /\ tables = t /\ db = d /\ migration = j /\ backup = b /\ whole = w /\ settled = s
        /\ Steady(PlanOf(t), TargetsOf(PlanOf(t)), d, j, b, w, s)
  BY DEF MigrationInv
<1>2. PICK targets : targets = TargetsOf(PlanOf(t)) /\ Kept(d, targets) /\ (w => Kept(d, {}))
  BY <1>1 DEF Steady, Moved!UserDeletes
<1>3. PICK e :
        /\ e = Without(d, kind, id)
        /\ tables' = t /\ db' = e /\ migration' = Moved!NoJob /\ backup' = b /\ whole' = w
        /\ settled' = s
  <2>1. [d EXCEPT ![kind] = [x \in DOMAIN @ \ {id} |-> @[x]]] = Without(d, kind, id)
    BY <1>2 DEF Kept, Without
  <2> QED
    BY <1>1, <2>1 DEF Moved!UserDeletes
<1>4. \A k \in Moved!Migrated : \A x \in DOMAIN d[k] :
           ~Moved!Refers([kind |-> k, spec |-> d[k][x].spec], kind, id)
  BY <1>1, Zenon DEF Moved!UserDeletes, Moved!InUse
<1>5. \A some : Kept(d, some) => Kept(e, some)
  BY <1>3, <1>4, DeletedKept
<1>6. Steady(PlanOf(t), targets, e, Moved!NoJob, b, w, s)
  BY <1>1, <1>2, <1>5, FreshJob DEF Steady
<1> QED
  BY <1>1, <1>2, <1>3, <1>6, Taken

(* Steps of the other parts leave the migration alone. *)
LEMMA MigrationStep ==
  [AllNext]_<<part, objects, migrating, opened, daemonfile, conffile>> => [Moved!MCNext]_migrating
BY DEF AllNext

(* The invariant, from the start on. *)
LEMMA MigrationStarts == Moved!MCInit => MigrationInv
<1> SUFFICES ASSUME Moved!MCInit PROVE MigrationInv
  OBVIOUS
<1>1. PICK d : d = [k \in Moved!Migrated |-> <<>>]
  OBVIOUS
<1>2. /\ tables \in OldTables /\ db = d /\ migration = Moved!NoJob /\ backup = <<>>
      /\ whole = TRUE /\ settled = <<>>
  BY <1>1 DEF Moved!MCInit, Moved!Init
<1>3. \A targets : Kept(d, targets)
  BY <1>1, NothingKept
<1>4. \A plan, targets : Steady(plan, targets, d, Moved!NoJob, <<>>, TRUE, <<>>)
  BY <1>3, FreshJob DEF Steady, BackupKept, EndDecided
<1> QED
  BY <1>2, <1>4 DEF MigrationInv

LEMMA MigrationKeeps == MigrationInv /\ [Moved!MCNext]_migrating => MigrationInv'
<1> SUFFICES ASSUME MigrationInv, [Moved!MCNext]_migrating
             PROVE  MigrationInv'
  OBVIOUS
<1>1. ASSUME NEW force, Moved!Start(force), UNCHANGED <<whole, settled>>
      PROVE  MigrationInv'
  BY <1>1, RunStartKeeps
<1>2. CASE Moved!WriteNext /\ UNCHANGED <<whole, settled>>
  BY <1>2, WriteNextKeeps
<1>3. CASE Moved!Finish /\ whole' = (migration.failed = {}) /\ settled' = <<db>>
  BY <1>3, FinishKeeps
<1>4. CASE Moved!Kill /\ whole' = FALSE /\ settled' = settled
  BY <1>4, KillKeeps
<1>5. ASSUME NEW o \in MCEdits, Moved!UserSaves(o), UNCHANGED <<whole, settled>>
      PROVE  MigrationInv'
  BY <1>5, UserSavesKeeps
<1>6. ASSUME NEW kind \in Moved!Migrated, NEW id \in DOMAIN db[kind],
             Moved!UserDeletes(kind, id), UNCHANGED <<whole, settled>>
      PROVE  MigrationInv'
  BY <1>6, UserDeletesKeeps
<1>7. CASE Moved!Restore /\ whole' = (backup[1] = [k \in Moved!Migrated |-> <<>>])
           /\ settled' = settled
  BY <1>7, RestoreKeeps
<1>8. CASE UNCHANGED migrating
  BY <1>8 DEF migrating, MigrationInv
<1> QED
  BY <1>1, <1>2, <1>3, <1>4, <1>5, <1>6, <1>7, <1>8 DEF Moved!MCNext

(* What the invariant says of Render. *)
LEMMA Renders == MigrationInv => ValidObjectsRender
<1>1. MigrationInv /\ migration.at # "apply" /\ whole => DbSound(db)
  BY KeptSound DEF MigrationInv, Steady
<1> QED
  BY <1>1, SoundRenders DEF ValidObjectsRender, Moved!ValidObjectsRender

(* ValidObjectsRender: for all tables and all that users save, with runs    *)
(* killed and repeated, objects deleted and the backup copied back, what    *)
(* Validate let into the store (typespec.go, Validate) can be rendered      *)
(* (caddyrender, Render), but for the reasons Validate cannot know of,      *)
(* whenever the last run that wrote ended without a failure.                *)
THEOREM ObjectsRender == AllSpec => []ValidObjectsRender
<1>1. AllInit => MigrationInv
  BY MigrationStarts DEF AllInit
<1> QED
  BY <1>1, MigrationStep, MigrationKeeps, Renders, PTL DEF AllSpec

(* A run that finds what the last one left skips what is stored, and is     *)
(* refused what was refused.                                                *)
LEMMA QuietWrite ==
  ASSUME MigrationInv, Moved!WriteNext, ~migration.force, settled = backup
  PROVE  UNCHANGED db
<1>1. PICK t, d, j, b, w, s :
        /\ t \in OldTables
        /\ tables = t /\ db = d /\ migration = j /\ backup = b /\ whole = w /\ settled = s
        /\ Steady(PlanOf(t), TargetsOf(PlanOf(t)), d, j, b, w, s)
  BY DEF MigrationInv
<1>2. PICK plan, targets : plan = PlanOf(t) /\ targets = TargetsOf(plan)
  OBVIOUS
<1>3. UnderWay(plan, targets, d, j, b) /\ EndDecided(plan, targets, s)
  BY <1>1, <1>2 DEF Steady, Moved!WriteNext
<1>4. PICK o : o = plan[j.i] /\ j.i \in 1 .. Len(plan)
  BY <1>1, <1>2, <1>3, PlanMade DEF UnderWay, Moved!WriteNext
<1>5. migration.plan[migration.i] = o /\ Moved!Known = Moved!Stored(d) \cup targets
  BY <1>1, <1>2, <1>3, <1>4 DEF UnderWay, Moved!Known, TargetsOf
<1>6. s = b /\ b # <<>> /\ Moved!Stored(b[1]) = j.keep
      /\ Moved!Stored(d) \cup targets = Moved!Stored(s[1]) \cup targets
  <2>1. \A x : <<x>> # <<>>
    OBVIOUS
  <2> QED
    BY <1>1, <1>3, <2>1 DEF UnderWay
<1>7. Decided(o, targets, s[1])
  BY <1>3, <1>4, <1>6 DEF EndDecided
<1>8. Moved!Skipped(o) \/ ~Moved!Accepts(o)
  BY <1>1, <1>5, <1>6, <1>7 DEF Decided, Moved!Skipped, Moved!Accepts
<1> QED
  BY <1>1, <1>5, <1>8 DEF Moved!WriteNext

LEMMA QuietStep ==
  MigrationInv /\ [Moved!MCNext]_migrating
    => [migration.at = "apply" /\ ~migration.force /\ settled = backup => UNCHANGED db]_Moved!mcvars
<1> SUFFICES ASSUME MigrationInv, Moved!MCNext, migration.at = "apply", ~migration.force,
                    settled = backup
             PROVE  UNCHANGED db
  BY DEF migrating, Moved!mcvars, Moved!vars
<1>1. CASE Moved!WriteNext
  BY <1>1, QuietWrite
<1>2. CASE Moved!Finish \/ Moved!Kill
  BY <1>2 DEF Moved!Finish, Moved!Kill
<1> QED
  BY <1>1, <1>2 DEF Moved!MCNext, Moved!Start, Moved!UserSaves, Moved!UserDeletes, Moved!Restore

(* SecondRunIsQuiet: for all tables, a run without --force that finds the   *)
(* objects as the last one left them writes nothing (Apply): what is stored *)
(* is kept, and what was refused is refused again.                          *)
THEOREM SecondRunKeepsObjects == AllSpec => SecondRunIsQuiet
<1>1. AllInit => MigrationInv
  BY MigrationStarts DEF AllInit
<1> QED
  BY <1>1, MigrationStep, MigrationKeeps, QuietStep, PTL
     DEF AllSpec, SecondRunIsQuiet, Moved!SecondRunIsQuiet

(* A field of a schema that refers to objects. *)
Linking(f) == f.refs # {} => f.type # "object" /\ f.key # "users"

(* A field of a schema that refers to objects is looked at by Validate. *)
LEMMA FormsLink == \A k, t, r, o :
  /\ Linking(Moved!Field(k, t)) /\ Linking(Moved!Must(Moved!Field(k, t)))
  /\ k # "users" /\ t # "object" => Linking(Moved!Ref(Moved!Field(k, t), r))
  /\ k # "users" /\ t # "object" => Linking(Moved!Must(Moved!Ref(Moved!Field(k, t), r)))
  /\ Linking([Moved!Field(k, t) EXCEPT !.options = o])
  /\ Linking([Moved!Must(Moved!Field(k, t)) EXCEPT !.dynamic = TRUE])
  /\ Linking([Moved!Must(Moved!Field(k, t)) EXCEPT !.item = o])
  /\ Linking([Moved!Must(Moved!Field(k, t)) EXCEPT !.pattern = TRUE])
<1>1. \A f, k, t, q, o, i, d, p : f \in FieldSet(k, t, q, {}, o, i, d, p, {}) => Linking(f)
  BY DEF FieldSet, Linking
<1>2. \A f, k, t, q, r : k # "users" /\ t # "object" =>
        (f \in FieldSet(k, t, q, r, {}, "any", FALSE, FALSE, {}) => Linking(f))
  BY DEF FieldSet, Linking
<1>3. ASSUME NEW k, NEW t, NEW r
      PROVE  /\ k # "users" /\ t # "object" => Linking(Moved!Ref(Moved!Field(k, t), r))
             /\ k # "users" /\ t # "object" => Linking(Moved!Must(Moved!Ref(Moved!Field(k, t), r)))
  <2>1. Moved!Ref(Moved!Field(k, t), r) \in FieldSet(k, t, FALSE, r, {}, "any", FALSE, FALSE, {})
    BY FieldForms
  <2>2. Moved!Must(Moved!Ref(Moved!Field(k, t), r)) \in FieldSet(k, t, TRUE, r, {}, "any", FALSE, FALSE, {})
    BY FieldForms
  <2> QED
    BY <1>2, <2>1, <2>2, Zenon
<1>4. \A k, t, o :
        /\ Linking(Moved!Field(k, t)) /\ Linking(Moved!Must(Moved!Field(k, t)))
        /\ Linking([Moved!Field(k, t) EXCEPT !.options = o])
        /\ Linking([Moved!Must(Moved!Field(k, t)) EXCEPT !.dynamic = TRUE])
        /\ Linking([Moved!Must(Moved!Field(k, t)) EXCEPT !.item = o])
        /\ Linking([Moved!Must(Moved!Field(k, t)) EXCEPT !.pattern = TRUE])
  BY <1>1, FieldForms
<1> QED
  BY <1>3, <1>4, Zenon

LEMMA BackendLinks == \A kind : Linking(Moved!Backend(kind))
<1> SUFFICES ASSUME NEW kind PROVE Linking(Moved!Backend(kind))
  OBVIOUS
<1>1. PICK y : y = {Moved!Must(Moved!Field("backend.host", "text")),
                    Moved!Must(Moved!Field("backend.port", "number"))}
  OBVIOUS
<1>2. PICK x : x = (kind = "route")
  OBVIOUS
<1>3. [Moved!Field("backend", "object") EXCEPT !.required = x, !.fields = y]
        \in FieldSet("backend", "object", x, {}, {}, "any", FALSE, FALSE, y)
  BY PlainField, FieldFilled
<1>4. Moved!Backend(kind) \in FieldSet("backend", "object", x, {}, {}, "any", FALSE, FALSE, y)
  BY <1>1, <1>2, <1>3 DEF Moved!Backend
<1> QED
  BY <1>4 DEF FieldSet, Linking

LEMMA SchemaLinks == \A kind \in Moved!Migrated : \A f \in Moved!Schema[kind] : Linking(f)
<1>a. \A k, t : Linking(Moved!Field(k, t)) /\ Linking(Moved!Must(Moved!Field(k, t)))
  BY FormsLink
<1>b. \A k, t, r : k # "users" /\ t # "object" =>
       Linking(Moved!Ref(Moved!Field(k, t), r)) /\ Linking(Moved!Must(Moved!Ref(Moved!Field(k, t), r)))
  BY FormsLink
<1>c. \A k, t, o : Linking([Moved!Field(k, t) EXCEPT !.options = o])
  BY FormsLink
<1>d. \A k, t : Linking([Moved!Must(Moved!Field(k, t)) EXCEPT !.dynamic = TRUE])
  BY FormsLink
<1>e. \A k, t, o : Linking([Moved!Must(Moved!Field(k, t)) EXCEPT !.item = o])
  BY FormsLink
<1>f. \A k, t : Linking([Moved!Must(Moved!Field(k, t)) EXCEPT !.pattern = TRUE])
  BY FormsLink
<1>1. \A f \in Moved!RouteFields : Linking(f)
  <2>1. Linking(Moved!Ref(Moved!Field("service", "reference"), {"service"}))
    BY <1>b
  <2>2. Linking(Moved!Ref(Moved!Field("roots", "array"), {"domain"}))
    BY <1>b
  <2>3. Linking(Moved!Must(Moved!Ref(Moved!Field("entrypoint", "reference"), {"entrypoint"})))
    BY <1>b
  <2>4. Linking(Moved!Ref(Moved!Field("middlewares", "array"), {"middleware"}))
    BY <1>b
  <2>5. PICK o : o = [Moved!Field("tls", "select") EXCEPT !.options = {"auto", "off"}] /\ Linking(o)
    BY <1>c
  <2> QED
    BY <1>a, <2>1, <2>2, <2>3, <2>4, <2>5, BackendLinks DEF Moved!RouteFields
<1>2. \A f \in Moved!ServiceFields : Linking(f)
  BY <1>a, <1>d, BackendLinks DEF Moved!ServiceFields, Moved!TypeField
<1>3. \A f \in Moved!MiddlewareFields : Linking(f)
  BY <1>a, <1>d DEF Moved!MiddlewareFields, Moved!TypeField
<1>4. \A f \in Moved!EntrypointFields : Linking(f)
  <2>1. PICK d : /\ d = [Moved!Must(Moved!Field("protocol", "select")) EXCEPT !.dynamic = TRUE]
                 /\ Linking(d)
    BY <1>d
  <2>2. PICK i : /\ i = [Moved!Must(Moved!Field("ports", "array")) EXCEPT !.item = "number"]
                 /\ Linking(i)
    BY <1>e
  <2>3. PICK o : /\ o = [Moved!Field("network", "select") EXCEPT !.options = {"tcp", "udp", "both"}]
                 /\ Linking(o)
    BY <1>c
  <2>4. Moved!EntrypointFields = {d, i, o, Moved!Field("enabled", "switch")}
    BY <2>1, <2>2, <2>3, Zenon DEF Moved!EntrypointFields
  <2> QED
    BY <1>a, <2>1, <2>2, <2>3, <2>4, ZenonT(30)
<1>5. \A f \in Moved!DomainFields : Linking(f)
  BY <1>b, <1>f DEF Moved!DomainFields
<1>6. \A f \in Moved!UserFields : Linking(f)
  BY <1>a DEF Moved!UserFields
<1> QED
  BY <1>1, <1>2, <1>3, <1>4, <1>5, <1>6 DEF Moved!Schema, Moved!Migrated

(* RefsResolve, the empty text by its name. *)
LEMMA ResolveIs == Moved!RefsResolve <=>
  \A k \in Moved!Migrated : \A id \in DOMAIN db[k] :
    \A f \in Moved!Schema[k] :
      f.refs # {} /\ f.key \in DOMAIN db[k][id].spec =>
        \A r \in Moved!ToSet(db[k][id].spec[f.key].v) \ {Empty} : \E t \in f.refs : r \in DOMAIN db[t]
BY Zenon DEF Moved!RefsResolve, Empty

LEMMA SoundResolves ==
  ASSUME DbSound(db)
  PROVE  Moved!RefsResolve
<1> SUFFICES ASSUME NEW k \in Moved!Migrated, NEW id \in DOMAIN db[k], NEW f \in Moved!Schema[k],
                    f.refs # {}, f.key \in DOMAIN db[k][id].spec,
                    NEW u \in Moved!ToSet(db[k][id].spec[f.key].v), u # Empty
             PROVE  \E t \in f.refs : u \in DOMAIN db[t]
  BY ResolveIs
<1>1. PICK spec : spec = db[k][id].spec /\ SpecOK(spec) /\ Sound(k, spec, Moved!Stored(db))
  BY DEF DbSound
<1>2. f.type # "object" /\ f.key # "users" /\ f \in Moved!FieldsFor(k, spec)
  BY SchemaLinks, SchemaFields DEF Linking
<1>3. u \in Moved!Range(spec[f.key].v) /\ spec[f.key].v # <<>>
  BY <1>1 DEF Moved!ToSet, Moved!Range
<1>4. Moved!Given(spec, f.key)
  <2>1. ASSUME spec[f.key].v = <<Empty>> PROVE FALSE
    <3>1. \A i \in DOMAIN <<Empty>> : <<Empty>>[i] = Empty
      OBVIOUS
    <3> QED
      BY <1>3, <2>1, <3>1 DEF Moved!Range
  <2> QED
    BY <1>1, <1>3, <2>1, GivenIs
<1>5. ~Moved!BadRef(f, u, Moved!Stored(db))
  BY <1>1, <1>2, <1>3, <1>4, FieldSound
<1> QED
  BY <1>5, BadRefIs, StoredIs

(* For all tables and all that users save: whenever the last run that wrote *)
(* ended without a failure no reference of a schema dangles (Apply takes    *)
(* what is planned for stored, and writes routes before their services).    *)
THEOREM WholeResolves ==
  AllSpec => [](whole /\ migration.at # "apply" => Moved!RefsResolve)
<1>1. AllInit => MigrationInv
  BY MigrationStarts DEF AllInit
<1>2. MigrationInv => (whole /\ migration.at # "apply" => Moved!RefsResolve)
  BY KeptSound, SoundResolves DEF MigrationInv, Steady
<1> QED
  BY <1>1, <1>2, MigrationStep, MigrationKeeps, PTL DEF AllSpec

(* Tables of which every planned object passes Validate, the other planned *)
(* ones being there.                                                       *)
PlansAccepted ==
  \A t \in OldTables : \A n \in 1 .. Len(PlanOf(t)) :
    Moved!Validate(PlanOf(t)[n].kind, PlanOf(t)[n].spec, TargetsOf(PlanOf(t))) = {}

(* No write was refused. *)
Unfailed == migration.failed = {} /\ (migration.at = "done" => whole)

LEMMA UnfailedStep ==
  ASSUME PlansAccepted
  PROVE  MigrationInv /\ Unfailed /\ [Moved!MCNext]_migrating => Unfailed'
<1> SUFFICES ASSUME MigrationInv, Unfailed, [Moved!MCNext]_migrating
             PROVE  Unfailed'
  OBVIOUS
<1>0. Moved!NoJob.failed = {} /\ Moved!NoJob.at = "none"
  BY DEF Moved!NoJob
<1>1. ASSUME NEW force, Moved!Start(force)
      PROVE  Unfailed'
  BY <1>1 DEF Moved!Start, Unfailed
<1>2. CASE Moved!WriteNext
  <2>1. PICK t, d, j, b, w, s :
          /\ t \in OldTables
          /\ tables = t /\ db = d /\ migration = j /\ backup = b /\ whole = w /\ settled = s
          /\ Steady(PlanOf(t), TargetsOf(PlanOf(t)), d, j, b, w, s)
    BY DEF MigrationInv
  <2>2. PICK plan, targets : plan = PlanOf(t) /\ targets = TargetsOf(plan)
    OBVIOUS
  <2>3. UnderWay(plan, targets, d, j, b) /\ JobShape(j)
    BY <1>2, <2>1, <2>2 DEF Steady, Moved!WriteNext
  <2>4. PICK o : o = plan[j.i] /\ j.i \in 1 .. Len(plan)
    BY <1>2, <2>1, <2>2, <2>3, PlanMade DEF UnderWay, Moved!WriteNext
  <2>5. migration.plan[migration.i] = o /\ Moved!Known = Moved!Stored(d) \cup targets
    BY <2>1, <2>2, <2>3, <2>4 DEF UnderWay, Moved!Known, TargetsOf
  <2>6. Moved!Validate(o.kind, o.spec, targets) = {}
    BY <2>1, <2>2, <2>4 DEF PlansAccepted
  <2>7. Moved!Accepts(o)
    <3>1. targets \subseteq Moved!Stored(d) \cup targets
      OBVIOUS
    <3> QED
      BY <2>5, <2>6, <3>1, RefsMonotone DEF Moved!Accepts
  <2>8. migration'.failed = j.failed /\ migration'.at = "apply"
    BY <1>2, <2>1, <2>3, <2>5, <2>7 DEF Moved!WriteNext, JobShape
  <2> QED
    BY <2>1, <2>8 DEF Unfailed
<1>3. CASE Moved!Finish /\ whole' = (migration.failed = {})
  <2>1. JobShape(migration)
    BY DEF MigrationInv, Steady
  <2> QED
    BY <1>3, <2>1 DEF Moved!Finish, Unfailed, JobShape
<1>4. CASE migration' = Moved!NoJob
  BY <1>0, <1>4 DEF Unfailed
<1>5. CASE UNCHANGED migrating
  BY <1>5 DEF migrating, Unfailed
<1> QED
  BY <1>1, <1>2, <1>3, <1>4, <1>5
     DEF Moved!MCNext, Moved!Kill, Moved!UserSaves, Moved!UserDeletes, Moved!Restore

(* DoneIsComplete, of MigrationKeepsSites: when the plans of the tables     *)
(* pass Validate by themselves, every run that comes to its end has written *)
(* all it planned and leaves no reference dangling, whatever was killed     *)
(* half-way before it and whatever users did to what had been written.      *)
THEOREM RunsComplete ==
  ASSUME PlansAccepted
  PROVE  AllSpec => [](part = "migration" => Moved!DoneIsComplete)
<1>1. AllInit => MigrationInv /\ Unfailed
  BY MigrationStarts DEF AllInit, Moved!MCInit, Moved!Init, Moved!NoJob, Unfailed
<1>2. MigrationInv /\ Unfailed => (part = "migration" => Moved!DoneIsComplete)
  BY KeptSound, SoundResolves DEF MigrationInv, Steady, Unfailed, Moved!DoneIsComplete
<1>3. MigrationInv /\ Unfailed /\ [Moved!MCNext]_migrating => Unfailed'
  BY UnfailedStep
<1> QED
  BY <1>1, <1>2, <1>3, MigrationStep, MigrationKeeps, PTL DEF AllSpec
=============================================================================
