---------------------------- MODULE GatewayProofs ----------------------------
(* The gateway's tables and the runs that load them into Caddy, proved for every
   set of clients, ids, domains and containers: what Caddy answers at rest is
   what the facts give, a stopped service stays stopped, references resolve and
   the ports of the built-in components stay apart.
   The invariant has three parts.  Shapes: the tables hold rows, the jobs of
   requests hold writes.  Orderly: what the requests that are under way have
   checked is still so when their writes come.  Owed: whenever what was loaded
   differs from what the facts give, an intent to run is left behind or a
   request is still to leave it. *)
EXTENDS MCGateway, FiniteSetTheorems, TLAPS

(* A sequence of anything: its members are those of the sequence. *)
List(s) == s \in Seq(ToSet(s))

(* A list of one thing, and of none. *)
LEMMA Single ==
  ASSUME NEW w
  PROVE  List(<<w>>) /\ <<w>> # <<>> /\ Len(<<w>>) = 1 /\ Head(<<w>>) = w /\ <<w>>[1] = w
         /\ ToSet(<<w>>) = {w}
<1>1. <<w>> \in Seq({w}) /\ DOMAIN <<w>> = {1} /\ <<w>>[1] = w /\ Len(<<w>>) = 1
  OBVIOUS
<1>2. ToSet(<<w>>) = {w}
  BY <1>1 DEF ToSet
<1> QED
  BY <1>1, <1>2 DEF List

(* The empty list has no members. *)
LEMMA None == List(<<>>) /\ ToSet(<<>>) = {} /\ Len(<<>>) = 0
<1>1. DOMAIN <<>> = {} /\ Len(<<>>) = 0
  OBVIOUS
<1>2. ToSet(<<>>) = {}
  BY <1>1 DEF ToSet
<1>3. <<>> \in Seq({})
  OBVIOUS
<1> QED
  BY <1>1, <1>2, <1>3 DEF List

(* A list is its first member and the rest. *)
LEMMA Rest ==
  ASSUME NEW s, List(s), s # <<>>
  PROVE  /\ List(Tail(s)) /\ Len(s) \in Nat \ {0} /\ Len(Tail(s)) = Len(s) - 1
         /\ Len(s) = 1 <=> Tail(s) = <<>>
         /\ Head(s) = s[1] /\ Head(s) \in ToSet(s)
         /\ ToSet(s) = ToSet(Tail(s)) \cup {Head(s)}
<1>1. PICK S : S = ToSet(s)
  OBVIOUS
<1>2. s \in Seq(S)
  BY <1>1 DEF List
<1>3. /\ Len(s) \in Nat \ {0} /\ DOMAIN s = 1..Len(s) /\ Tail(s) \in Seq(S)
      /\ Len(Tail(s)) = Len(s) - 1 /\ DOMAIN Tail(s) = 1..Len(s) - 1
      /\ \A i \in 1..Len(s) - 1 : Tail(s)[i] = s[i + 1]
      /\ Head(s) = s[1]
  <2>1. Len(s) \in Nat \ {0} /\ DOMAIN s = 1..Len(s) /\ Head(s) = s[1]
    BY <1>2
  <2>2. Tail(s) \in Seq(S) /\ Len(Tail(s)) = Len(s) - 1
    BY <1>2
  <2>3. DOMAIN Tail(s) = 1..Len(s) - 1
    BY <2>2
  <2>4. \A i \in 1..Len(s) - 1 : Tail(s)[i] = s[i + 1]
    BY <1>2
  <2> QED
    BY <2>1, <2>2, <2>3, <2>4
<1>4. Len(s) = 1 <=> Tail(s) = <<>>
  <2>1. \A r \in Seq(S) : r = <<>> <=> Len(r) = 0
    OBVIOUS
  <2>2. Tail(s) = <<>> <=> Len(Tail(s)) = 0
    BY <1>3, <2>1
  <2>3. Len(Tail(s)) = Len(s) - 1 /\ Len(s) \in Nat
    BY <1>3
  <2> QED
    BY <2>2, <2>3
<1>5. ToSet(s) = {s[i] : i \in 1..Len(s)} /\ ToSet(Tail(s)) = {Tail(s)[i] : i \in 1..Len(s) - 1}
  BY <1>3 DEF ToSet
<1>6. ToSet(s) = ToSet(Tail(s)) \cup {Head(s)}
  <2>1. ASSUME NEW x \in ToSet(s) PROVE x \in ToSet(Tail(s)) \cup {Head(s)}
    <3>1. PICK i \in 1..Len(s) : x = s[i]
      BY <1>5
    <3>2. CASE i = 1
      BY <1>3, <3>1, <3>2
    <3>3. CASE i # 1
      <4>1. i - 1 \in 1..Len(s) - 1 /\ Tail(s)[i - 1] = s[i]
        BY <1>3, <3>3
      <4> QED
        BY <1>5, <3>1, <4>1
    <3> QED
      BY <3>2, <3>3
  <2>2. ASSUME NEW x \in ToSet(Tail(s)) PROVE x \in ToSet(s)
    <3>1. PICK i \in 1..Len(s) - 1 : x = s[i + 1]
      BY <1>3, <1>5
    <3>2. i + 1 \in 1..Len(s)
      BY <1>3
    <3> QED
      BY <1>5, <3>1, <3>2
  <2>3. Head(s) \in ToSet(s)
    BY <1>3, <1>5
  <2> QED
    BY <2>1, <2>2, <2>3
<1>7. List(Tail(s))
  <2>1. PICK t : t = Tail(s)
    OBVIOUS
  <2>2. t \in Seq(S)
    BY <1>3, <2>1
  <2>3. t \in Seq({t[i] : i \in DOMAIN t})
    BY <2>2
  <2> QED
    BY <2>1, <2>3 DEF List, ToSet
<1> QED
  BY <1>3, <1>4, <1>6, <1>7

(* A first write and n more. *)
LEMMA Join ==
  ASSUME NEW w, NEW n \in Nat, NEW f, f = [i \in 1..n |-> f[i]]
  PROVE  /\ List(<<w>> \o f) /\ <<w>> \o f # <<>>
         /\ ToSet(<<w>> \o f) = {w} \cup {f[i] : i \in 1..n}
<1>1. PICK S : S = {w} \cup {f[i] : i \in 1..n}
  OBVIOUS
<1>2. f \in Seq(S) /\ Len(f) = n /\ <<w>> \in Seq(S) /\ Len(<<w>>) = 1 /\ <<w>>[1] = w
  BY <1>1
<1>3. PICK o : o = <<w>>
  OBVIOUS
<1>4. PICK s : s = o \o f
  OBVIOUS
<1>5. /\ s \in Seq(S) /\ Len(s) = n + 1 /\ DOMAIN s = 1..n + 1
      /\ \A i \in 1..n + 1 : s[i] = IF i <= 1 THEN o[i] ELSE f[i - 1]
  BY <1>2, <1>3, <1>4
<1>6. s[1] = w /\ \A i \in 1..n : s[i + 1] = f[i]
  <2>1. 1 \in 1..n + 1 /\ s[1] = w
    <3>1. 1 \in 1..n + 1 /\ 1 <= 1
      OBVIOUS
    <3>2. s[1] = o[1]
      BY <1>5, <3>1
    <3>3. o[1] = w
      BY <1>2, <1>3
    <3> QED
      BY <3>1, <3>2, <3>3
  <2>2. ASSUME NEW i \in 1..n PROVE s[i + 1] = f[i]
    <3>1. i + 1 \in 1..n + 1 /\ ~(i + 1 <= 1) /\ i + 1 - 1 = i
      OBVIOUS
    <3>2. PICK k : k = i + 1
      OBVIOUS
    <3>3. \A j \in 1..n + 1 : s[j] = IF j <= 1 THEN o[j] ELSE f[j - 1]
      BY <1>5
    <3>4. s[k] = f[k - 1]
      BY <3>1, <3>2, <3>3
    <3> QED
      BY <3>1, <3>2, <3>4
  <2> QED
    BY <2>1, <2>2
<1>7. ToSet(s) = {s[i] : i \in 1..n + 1}
  BY <1>5 DEF ToSet
<1>8. ASSUME NEW x \in S PROVE x \in ToSet(s)
  <2>1. CASE x = w
    BY <1>6, <1>7, <2>1
  <2>2. ASSUME NEW i \in 1..n, x = f[i] PROVE x \in ToSet(s)
    <3>1. i + 1 \in 1..n + 1
      OBVIOUS
    <3> QED
      BY <1>6, <1>7, <2>2, <3>1
  <2> QED
    BY <1>1, <2>1, <2>2
<1>9. ASSUME NEW x \in ToSet(s) PROVE x \in S
  BY <1>5, <1>7, <1>9
<1>10. s # <<>>
  BY <1>5
<1> QED
  BY <1>1, <1>3, <1>4, <1>5, <1>8, <1>9, <1>10 DEF List

-----------------------------------------------------------------------------
(* The invariants                                                          *)

(* A service's record has its fields. *)
Whole(r) ==
  r = [app |-> r.app, name |-> r.name, type |-> r.type, rows |-> r.rows, up |-> r.up,
       upProto |-> r.upProto, health |-> r.health, rootUses |-> r.rootUses,
       enabled |-> r.enabled, frags |-> r.frags, excl |-> r.excl, extra |-> r.extra]
Sets(w, t) == w.op = "put" /\ w.table = t
IsWrite(w) ==
  \/ w = Put(w.table, w.key, w.row) /\ (w.table = "service" => Whole(w.row))
  \/ w = Drop(w.table, w.key)
Writes(s) == List(s) /\ \A w \in ToSet(s) : IsWrite(w)

(* A request under way is a list of writes.  The ones that ask for no run  *)
(* of Caddy, or undo what they did, are these.                             *)
OfCredentials == {"createCredential", "updateCredential", "deleteCredential"}
Silents == {"updateApp", "refusedApp", "seedPorts", "createApp"} \cup OfCredentials
JobOK(j) ==
  \/ j = NoJob
  \/ /\ j = [req |-> j.req, todo |-> j.todo, undo |-> j.undo, triggers |-> j.triggers]
     /\ Writes(j.todo) /\ j.todo # <<>> /\ Writes(j.undo)
     /\ j.req # "none" /\ j.triggers \in BOOLEAN
     /\ (~j.triggers \/ j.undo # <<>>) => j.req \in Silents
     /\ j.req \in {"start", "stop"} =>
          Len(j.todo) = 1 /\ \A w \in ToSet(j.todo) : w.table = "service" => w.op = "put"
Shapes ==
  /\ job = [c \in Clients |-> job[c]] /\ \A c \in Clients : JobOK(job[c])
  /\ db = [t \in Tables |-> db[t]]
  /\ IsFiniteSet(Services) /\ \A s \in Services : Whole(db["service"][s])
  /\ run = [at |-> run.at, services |-> run.services, config |-> run.config]
  /\ run.at \in {"idle", "services", "load"}
  /\ lastId \in 0..Len(Ids)
  /\ Stored \notin DOMAIN containers

(* Who still has to bring the facts to Caddy. *)
Owed ==
  ~unseen =>
    \/ wanted
    \/ \E c \in Clients : job[c].triggers
    \/ run.at = "services" /\ run.services = ListAllServices(db, containers)
    \/ run.at = "load" /\ run.config = Current
    \/ run.at = "idle" /\ (result = "ok" => loaded = Current)

(* While requests come one at a time: of the writes that are still to be   *)
(* made ...                                                                *)
Pending == UNION {ToSet(job[c].todo) : c \in Clients}
Alone == \A c, d \in Clients : ~Idle(c) /\ ~Idle(d) => c = d
Alike(W) == \A v, w \in W : v.op = w.op
(* ... none leaves a service in an application that is gone, ... *)
Nowhere == "" (* the application of a service that is in none *)
Placed(a, W) ==
  \/ a = Nowhere
  \/ a \in Apps /\ Drop("app", a) \notin W
  \/ \E w \in W : Sets(w, "app") /\ w.key = a
Grouped(W) ==
  /\ \A s \in Services : Placed(db["service"][s].app, W) \/ Drop("service", s) \in W
  /\ \A w \in W : Sets(w, "service") => Placed(w.row.app, W)
(* ... or with a fragment that is, ... *)
Held(fs, W) ==
  \A f \in fs \ Builtins : f \in DOMAIN db["fragment"] /\ Drop("fragment", f) \notin W
FragmentsHeld(W) ==
  /\ \A s \in Services : Held(db["service"][s].frags, W)
  /\ \A w \in W : Sets(w, "service") => Held(w.row.frags, W)
(* ... all services have ids that were drawn, ... *)
Drawn(n) == {Ids[i] : i \in 1..n}
Fresh(W) ==
  /\ Services \subseteq Drawn(lastId) /\ DOMAIN answered \subseteq Drawn(lastId)
  /\ \A w \in W : Sets(w, "service") => w.key \in Drawn(lastId)
(* ... what was answered about a service is what is written, ... *)
Agrees(req, W) ==
  \A w \in W : Sets(w, "service") =>
    IF req \in {"start", "stop"} THEN w.row.enabled = (req = "start")
    ELSE w.key \in DOMAIN answered => w.row.enabled = answered[w.key]
StopsKept ==
  /\ \A s \in Services \cap DOMAIN answered : db["service"][s].enabled = answered[s]
  /\ \A c \in Clients : Agrees(job[c].req, ToSet(job[c].todo))
(* ... and no port is given away twice. *)
Apart(ports, others) == ToSet(ports) \cap ToSet(others) = {}
PortsApart(W) ==
  /\ \A p, q \in DOMAIN db["port"] : p # q => Apart(db["port"][p].ports, db["port"][q].ports)
  /\ \A w \in W : Sets(w, "port") =>
       \A q \in DOMAIN db["port"] \ {w.key} : Apart(w.row.ports, db["port"][q].ports)
  /\ \A v, w \in W : Sets(v, "port") /\ Sets(w, "port") /\ v.key # w.key =>
       Apart(v.row.ports, w.row.ports)
Orderly ==
  calm =>
    /\ Alone /\ Alike(Pending) /\ Grouped(Pending) /\ FragmentsHeld(Pending)
    /\ Fresh(Pending) /\ StopsKept /\ (StartDisjoint => PortsApart(Pending))

Inv == Shapes /\ Owed /\ Orderly

(* A request that comes while all others are done keeps this order if its  *)
(* writes are such, with n new ids (an edited service may name any         *)
(* application, but then there is no calm if there is none such): ...      *)
Suits(req, W, n) ==
  /\ Alike(W)
  /\ \A w \in W : Sets(w, "service") =>
       /\ \/ w.row.app = Nowhere \/ w.row.app \in Apps \/ req = "updateService"
          \/ \E v \in W : Sets(v, "app") /\ v.key = w.row.app
       /\ w.key \in Drawn(lastId + n)
  /\ \A a : Drop("app", a) \in W => \A s \in ServicesOf(a) : Drop("service", s) \in W
  /\ \A f : Drop("fragment", f) \in W => \A s \in Services : f \notin db["service"][s].frags
  /\ Agrees(req, W)
  /\ StartDisjoint => \A w \in W : Sets(w, "port") =>
       \A q \in DOMAIN db["port"] \ {w.key} : Apart(w.row.ports, db["port"][q].ports)
  /\ StartDisjoint => \A v, w \in W : Sets(v, "port") /\ Sets(w, "port") /\ v.key # w.key =>
       Apart(v.row.ports, w.row.ports)
(* ... or its only write is such.                                          *)
Fits(req, w, n) ==
  /\ Sets(w, "service") =>
       /\ w.row.app = Nowhere \/ w.row.app \in Apps \/ req = "updateService"
       /\ w.key \in Drawn(lastId + n)
       /\ Agrees(req, {w})
  /\ ~(w.op = "drop" /\ w.table = "app")
  /\ w.op = "drop" /\ w.table = "fragment" =>
       \A s \in Services : w.key \notin db["service"][s].frags
  /\ Sets(w, "port") =>
       \A q \in DOMAIN db["port"] \ {w.key} : Apart(w.row.ports, db["port"][q].ports)
Clear == calm /\ \A c \in Clients : Idle(c)
(* A request has been accepted: it is a list of writes now. *)
Sent(c, j, n) ==
  /\ Idle(c) /\ JobOK(j) /\ j # NoJob /\ job' = [job EXCEPT ![c] = j]
  /\ n \in Nat /\ lastId + n <= Len(Ids) /\ lastId' = lastId + n
  /\ UNCHANGED <<db, containers, wanted, run, loaded, result>>
  /\ Clear /\ j.req # "refusedApp" => Suits(j.req, ToSet(j.todo), n)
Accepted(c) == \E j, n : Sent(c, j, n)

-----------------------------------------------------------------------------
(* The store                                                               *)

(* A write changes one key of one table. *)
LEMMA WriteEffect ==
  ASSUME NEW d, d = [t \in Tables |-> d[t]], NEW w, NEW t \in Tables
  PROVE  /\ t # w.table => Write(d, w)[t] = d[t]
         /\ t = w.table /\ w.op = "drop" =>
              /\ DOMAIN (Write(d, w)[t]) = DOMAIN d[t] \ {w.key}
              /\ \A x \in DOMAIN d[t] \ {w.key} : Write(d, w)[t][x] = d[t][x]
         /\ t = w.table /\ w.op # "drop" =>
              /\ DOMAIN (Write(d, w)[t]) = DOMAIN d[t] \cup {w.key}
              /\ Write(d, w)[t][w.key] = w.row
              /\ \A x \in DOMAIN d[t] \ {w.key} : Write(d, w)[t][x] = d[t][x]
         /\ Write(d, w) = [u \in Tables |-> Write(d, w)[u]]
<1>1. t # w.table => Write(d, w)[t] = d[t]
  BY DEF Write
<1>2. Write(d, w) = [u \in Tables |-> Write(d, w)[u]]
  BY DEF Write
<1>3. ASSUME t = w.table, w.op = "drop"
      PROVE  Write(d, w)[t] = [x \in DOMAIN d[t] \ {w.key} |-> d[t][x]]
  BY <1>3 DEF Write, Restrict
<1>4. ASSUME t = w.table, w.op # "drop"
      PROVE  Write(d, w)[t] = [x \in DOMAIN d[t] \cup {w.key} |->
                                 IF x = w.key THEN w.row ELSE d[t][x]]
  BY <1>4 DEF Write, With
<1> QED
  BY <1>1, <1>2, <1>3, <1>4


-----------------------------------------------------------------------------
(* Steps of the requests                                                   *)

(* A client that is not idle has a request with writes to make. *)
LEMMA Working ==
  ASSUME NEW j, JobOK(j), j.todo # <<>>
  PROVE  /\ j # NoJob
         /\ j = [req |-> j.req, todo |-> j.todo, undo |-> j.undo, triggers |-> j.triggers]
         /\ Writes(j.todo) /\ Writes(j.undo) /\ j.req # "none" /\ j.triggers \in BOOLEAN
         /\ (~j.triggers \/ j.undo # <<>>) => j.req \in Silents
         /\ j.req \in {"start", "stop"} =>
              Len(j.todo) = 1 /\ \A w \in ToSet(j.todo) : w.table = "service" => w.op = "put"
BY DEF JobOK, NoJob

(* Without its first write a request is none or one still. *)
LEMMA Advance ==
  ASSUME NEW j, JobOK(j), j.todo # <<>>
  PROVE  /\ Head(j.todo) \in ToSet(j.todo) /\ IsWrite(Head(j.todo))
         /\ Head(j.todo) = j.todo[1]
         /\ Len(j.todo) = 1 => ToSet(j.todo) = {Head(j.todo)}
         /\ Len(j.todo) # 1 =>
              \E i : /\ i = [j EXCEPT !.todo = Tail(@)]
                     /\ JobOK(i) /\ i.req = j.req /\ i.triggers = j.triggers
                     /\ i.todo # <<>> /\ i.req \notin {"start", "stop"}
                     /\ ToSet(i.todo) \subseteq ToSet(j.todo)
                     /\ ToSet(j.todo) = ToSet(i.todo) \cup {Head(j.todo)}
<1>1. j = [req |-> j.req, todo |-> j.todo, undo |-> j.undo, triggers |-> j.triggers]
  BY Working
<1>2. List(j.todo) /\ \A w \in ToSet(j.todo) : IsWrite(w)
  BY Working DEF Writes
<1>3. PICK s : s = j.todo
  OBVIOUS
<1>4. /\ List(Tail(s))
      /\ Len(s) = 1 <=> Tail(s) = <<>>
      /\ Head(s) \in ToSet(s) /\ Head(s) = s[1] /\ ToSet(s) = ToSet(Tail(s)) \cup {Head(s)}
  BY <1>2, <1>3, Rest
<1>5. ASSUME Len(s) # 1 PROVE \E i : /\ i = [j EXCEPT !.todo = Tail(@)]
                     /\ JobOK(i) /\ i.req = j.req /\ i.triggers = j.triggers
                     /\ i.todo # <<>> /\ i.req \notin {"start", "stop"}
                     /\ ToSet(i.todo) \subseteq ToSet(j.todo)
                     /\ ToSet(j.todo) = ToSet(i.todo) \cup {Head(j.todo)}
  <2>1. PICK r : r = Tail(s)
    OBVIOUS
  <2>2. PICK i : i = [req |-> j.req, todo |-> r, undo |-> j.undo, triggers |-> j.triggers]
    OBVIOUS
  <2>3. i = [j EXCEPT !.todo = Tail(@)]
    <3>1. j \in [req : {j.req}, todo : {j.todo}, undo : {j.undo}, triggers : {j.triggers}]
      BY <1>1
    <3>2. [j EXCEPT !.todo = r] =
            [req |-> j.req, todo |-> r, undo |-> j.undo, triggers |-> j.triggers]
      BY <3>1
    <3>3. [j EXCEPT !.todo = r] = [j EXCEPT !.todo = Tail(@)]
      BY <1>3, <2>1
    <3> QED
      BY <2>2, <3>2, <3>3
  <2>4. i.req = j.req /\ i.triggers = j.triggers /\ i.undo = j.undo /\ i.todo = r
    BY <2>2
  <2>5. Writes(r)
    <3>1. List(r) /\ ToSet(r) \subseteq ToSet(s)
      BY <1>4, <2>1
    <3> QED
      BY <1>2, <1>3, <3>1 DEF Writes
  <2>6. j.req \notin {"start", "stop"}
    BY <1>3, <1>5, Working
  <2>7. r # <<>>
    BY <1>4, <1>5, <2>1
  <2>8. JobOK(i)
    BY <2>2, <2>4, <2>5, <2>6, <2>7, Working DEF JobOK
  <2> QED
    BY <1>3, <1>4, <2>1, <2>3, <2>4, <2>6, <2>7, <2>8
<1>6. Len(s) = 1 => ToSet(s) = {Head(s)}
  <2>1. ASSUME Len(s) = 1 PROVE ToSet(s) = {Head(s)}
    <3>1. Tail(s) = <<>>
      BY <1>4, <2>1
    <3>2. ToSet(Tail(s)) = {}
      BY <3>1, None
    <3> QED
      BY <1>4, <3>2
  <2> QED
    BY <2>1
<1> QED
  BY <1>2, <1>3, <1>4, <1>5, <1>6

(* A step writes the first write of a request; the request that is left is *)
(* none or one still, and what is pending is what was before, but perhaps  *)
(* the write.                                                              *)
LEMMA StepEffect ==
  ASSUME Shapes, NEW c \in Clients, Step(c)
  PROVE  \E i, w :
    /\ JobOK(i) /\ job' = [job EXCEPT ![c] = i]
    /\ w = job[c].todo[1] /\ w \in ToSet(job[c].todo) /\ IsWrite(w)
    /\ db' = Write(db, w)
    /\ ToSet(i.todo) \subseteq ToSet(job[c].todo)
    /\ ToSet(job[c].todo) \subseteq ToSet(i.todo) \cup {w}
    /\ \/ Len(job[c].todo) = 1 /\ i = NoJob /\ wanted' = (wanted \/ job[c].triggers)
       \/ /\ Len(job[c].todo) # 1 /\ i # NoJob /\ wanted' = wanted
          /\ i.req = job[c].req /\ i.triggers = job[c].triggers
          /\ i.req \notin {"start", "stop"}
    /\ UNCHANGED <<lastId, containers, run, loaded, result>>
<1>1. PICK j : j = job[c]
  OBVIOUS
<1>2. JobOK(j) /\ j.todo # <<>>
  BY <1>1 DEF Shapes, Step, Idle
<1>3. JobOK(NoJob) /\ ToSet(NoJob.todo) = {}
  BY None DEF JobOK, NoJob
<1>4. CASE Len(j.todo) = 1
  <2>1. job' = [job EXCEPT ![c] = NoJob] /\ wanted' = (wanted \/ j.triggers)
    BY <1>1, <1>4 DEF Step
  <2>2. db' = Write(db, Head(j.todo)) /\ UNCHANGED <<lastId, containers, run, loaded, result>>
    BY <1>1 DEF Step
  <2> QED
    BY <1>1, <1>2, <1>3, <1>4, <2>1, <2>2, Advance
<1>5. CASE Len(j.todo) # 1
  <2>1. PICK i : /\ i = [j EXCEPT !.todo = Tail(@)]
                     /\ JobOK(i) /\ i.req = j.req /\ i.triggers = j.triggers
                     /\ i.todo # <<>> /\ i.req \notin {"start", "stop"}
                     /\ ToSet(i.todo) \subseteq ToSet(j.todo)
                     /\ ToSet(j.todo) = ToSet(i.todo) \cup {Head(j.todo)}
    BY <1>2, <1>5, Advance
  <2>2. job' = [job EXCEPT ![c] = i] /\ wanted' = wanted
    BY <1>1, <1>5, <2>1 DEF Step, Shapes
  <2>3. db' = Write(db, Head(j.todo)) /\ UNCHANGED <<lastId, containers, run, loaded, result>>
    BY <1>1 DEF Step
  <2>4. i # NoJob
    BY <2>1 DEF NoJob
  <2> QED
    <3>1. /\ Head(j.todo) = j.todo[1] /\ Head(j.todo) \in ToSet(j.todo)
          /\ IsWrite(Head(j.todo)) /\ ToSet(j.todo) \subseteq ToSet(i.todo) \cup {Head(j.todo)}
      BY <1>2, <2>1, Advance
    <3>2. /\ Len(job[c].todo) # 1 /\ i # NoJob /\ wanted' = wanted
          /\ i.req = job[c].req /\ i.triggers = job[c].triggers
          /\ i.req \notin {"start", "stop"}
      BY <1>1, <1>5, <2>1, <2>2, <2>4
    <3>3. PICK w : w = Head(j.todo)
      OBVIOUS
    <3> QED
      BY <1>1, <2>1, <2>2, <2>3, <3>1, <3>2, <3>3
<1> QED
  BY <1>4, <1>5

(* A failed write leaves a request undone, or to be undone. *)
LEMMA FailEffect ==
  ASSUME Shapes, NEW c \in Clients, WriteFails(c)
  PROVE  \E i : /\ JobOK(i) /\ job' = [job EXCEPT ![c] = i]
                /\ UNCHANGED <<db, lastId, containers, wanted, run, loaded, result>>
<1>1. PICK j : j = job[c]
  OBVIOUS
<1>2. JobOK(j) /\ j.todo # <<>>
  BY <1>1 DEF Shapes, WriteFails, Idle
<1>3. UNCHANGED <<db, lastId, containers, wanted, run, loaded, result>>
  BY DEF WriteFails
<1>4. CASE j.undo = <<>>
  <2>1. job' = [job EXCEPT ![c] = NoJob]
    BY <1>1, <1>4 DEF WriteFails
  <2> QED
    BY <1>3, <2>1 DEF JobOK
<1>5. CASE j.undo # <<>>
  <2>1. PICK i : i = [req |-> j.req, todo |-> j.undo, undo |-> <<>>, triggers |-> FALSE]
    OBVIOUS
  <2>2. i = [j EXCEPT !.todo = j.undo, !.undo = <<>>, !.triggers = FALSE]
    <3>1. j \in [req : {j.req}, todo : {j.todo}, undo : {j.undo}, triggers : {j.triggers}]
      <4>1. j = [req |-> j.req, todo |-> j.todo, undo |-> j.undo, triggers |-> j.triggers]
        BY <1>2, Working
      <4> QED
        BY <4>1
    <3>2. PICK e, f : e = <<>> /\ f = j.undo
      OBVIOUS
    <3>3. j \in [req : {j.req}, todo : {j.todo, f}, undo : {j.undo, e},
                 triggers : {j.triggers, FALSE}]
      BY <3>1
    <3>4. [j EXCEPT !.todo = f, !.undo = e, !.triggers = FALSE] =
            [req |-> j.req, todo |-> f, undo |-> e, triggers |-> FALSE]
      <4>1. PICK g : g = [j EXCEPT !.todo = f]
        OBVIOUS
      <4>2. PICK h : h = [g EXCEPT !.undo = e]
        OBVIOUS
      <4>3. g = [req |-> j.req, todo |-> f, undo |-> j.undo, triggers |-> j.triggers]
        BY <3>3, <4>1
      <4>4. g \in [req : {j.req}, todo : {f}, undo : {j.undo, e}, triggers : {j.triggers}]
        BY <4>3
      <4>5. h = [req |-> j.req, todo |-> f, undo |-> e, triggers |-> j.triggers]
        BY <4>2, <4>3, <4>4
      <4>6. ASSUME NEW b
            PROVE  [h EXCEPT !.triggers = b] =
                     [req |-> j.req, todo |-> f, undo |-> e, triggers |-> b]
        <5>1. h \in [req : {j.req}, todo : {f}, undo : {e}, triggers : {j.triggers, b}]
          BY <4>5
        <5> QED
          BY <4>5, <5>1
      <4>7. [h EXCEPT !.triggers = FALSE] =
              [req |-> j.req, todo |-> f, undo |-> e, triggers |-> FALSE]
        BY <4>6
      <4>8. [j EXCEPT !.todo = f, !.undo = e, !.triggers = FALSE] =
              [h EXCEPT !.triggers = FALSE]
        BY <4>1, <4>2
      <4> QED
        BY <4>7, <4>8
    <3> QED
      BY <2>1, <3>2, <3>4
  <2>3. Writes(<<>>)
    BY None DEF Writes
  <2>4. j.req \in Silents /\ j.req \notin {"start", "stop"} /\ j.req # "none" /\ Writes(j.undo)
    BY <1>2, <1>5, Working DEF Silents, OfCredentials
  <2>5. JobOK(i)
    BY <1>5, <2>1, <2>3, <2>4 DEF JobOK
  <2>6. job' = [job EXCEPT ![c] = i]
    BY <1>1, <1>5, <2>2 DEF WriteFails
  <2> QED
    BY <1>3, <2>5, <2>6
<1> QED
  BY <1>4, <1>5

-----------------------------------------------------------------------------
(* Requests                                                                *)

(* The two kinds of write, told apart by their op. *)
LEMMA PutIs ==
  ASSUME NEW t, NEW k, NEW v
  PROVE  /\ Put(t, k, v).op = "put" /\ Put(t, k, v).table = t /\ Put(t, k, v).key = k
         /\ Put(t, k, v).row = v
         /\ \A a, b : Put(t, k, v) # Drop(a, b)
         /\ (t = "service" => Whole(v)) => IsWrite(Put(t, k, v))
<1>1. /\ Put(t, k, v).op = "put" /\ Put(t, k, v).table = t /\ Put(t, k, v).key = k
      /\ Put(t, k, v).row = v
  BY DEF Put
<1>2. \A a, b : Drop(a, b).op = "drop"
  BY DEF Drop
<1>3. \A a, b : Put(t, k, v) # Drop(a, b)
  BY <1>1, <1>2
<1>4. (t = "service" => Whole(v)) => IsWrite(Put(t, k, v))
  BY <1>1 DEF IsWrite
<1> QED
  BY <1>1, <1>3, <1>4

(* A drop names a table and a key, and is a write of any table. *)
LEMMA DropIs ==
  ASSUME NEW t, NEW k
  PROVE  /\ Drop(t, k).op = "drop" /\ Drop(t, k).table = t /\ Drop(t, k).key = k
         /\ IsWrite(Drop(t, k))
BY DEF Drop, IsWrite

(* What a write is. *)
LEMMA WriteIs ==
  ASSUME NEW w, IsWrite(w)
  PROVE  \/ w.op = "put" /\ (w.table = "service" => Whole(w.row))
              /\ \A t, k : w # Drop(t, k)
         \/ w.op = "drop" /\ w = Drop(w.table, w.key)
<1>1. CASE w = Put(w.table, w.key, w.row) /\ (w.table = "service" => Whole(w.row))
  BY <1>1, PutIs
<1>2. CASE w = Drop(w.table, w.key)
  BY <1>2, DropIs
<1> QED
  BY <1>1, <1>2 DEF IsWrite

(* A request of one write. *)
LEMMA OneWrite ==
  ASSUME NEW c \in Clients, NEW req, NEW w, NEW triggers \in BOOLEAN, NEW n \in Nat,
         Begin(c, req, <<w>>, <<>>, triggers), lastId + n <= Len(Ids), lastId' = lastId + n,
         IsWrite(w), req # "none", triggers \/ req \in Silents,
         req \in {"start", "stop"} => (w.table = "service" => w.op = "put"),
         Clear => Fits(req, w, n)
  PROVE  Accepted(c)
<1>1. PICK e, s : e = <<>> /\ s = <<w>>
  OBVIOUS
<1>2. /\ List(s) /\ s # <<>> /\ Len(s) = 1 /\ ToSet(s) = {w}
      /\ List(e) /\ ToSet(e) = {}
  BY <1>1, Single, None
<1>3. PICK j : j = [req |-> req, todo |-> s, undo |-> e, triggers |-> triggers]
  OBVIOUS
<1>4. j.req = req /\ j.todo = s /\ j.undo = e /\ j.triggers = triggers
  BY <1>3
<1>5. JobOK(j)
  <2>1. Writes(s) /\ Writes(e) /\ e = <<>>
    BY <1>1, <1>2 DEF Writes
  <2> QED
    BY <1>2, <1>3, <1>4, <2>1 DEF JobOK
<1>6. j # NoJob
  BY <1>4 DEF NoJob
<1>7. Idle(c) /\ job' = [job EXCEPT ![c] = j]
      /\ UNCHANGED <<db, containers, wanted, run, loaded, result>>
  BY <1>1, <1>3 DEF Begin
<1>8. ASSUME Clear PROVE Suits(req, {w}, n)
  <2>1. Fits(req, w, n)
    BY <1>8
  <2>2. Alike({w})
    BY DEF Alike
  <2>3. Sets(w, "service") =>
          /\ w.row.app = Nowhere \/ w.row.app \in Apps \/ req = "updateService"
          /\ w.key \in Drawn(lastId + n)
    BY <2>1 DEF Fits
  <2>4. ASSUME NEW a PROVE w # Drop("app", a)
    <3>1. Drop("app", a).op = "drop" /\ Drop("app", a).table = "app"
      BY DropIs
    <3> QED
      BY <2>1, <3>1 DEF Fits
  <2>5. ASSUME NEW f, w = Drop("fragment", f)
        PROVE  \A s0 \in Services : f \notin db["service"][s0].frags
    <3>1. w.op = "drop" /\ w.table = "fragment" /\ w.key = f
      BY <2>5, DropIs
    <3> QED
      BY <2>1, <3>1 DEF Fits
  <2>6. Agrees(req, {w})
    BY <2>1 DEF Fits, Agrees
  <2>7. Sets(w, "port") =>
          \A q \in DOMAIN db["port"] \ {w.key} : Apart(w.row.ports, db["port"][q].ports)
    BY <2>1 DEF Fits
  <2> QED
    BY <2>2, <2>3, <2>4, <2>5, <2>6, <2>7 DEF Suits
<1> QED
  BY <1>2, <1>4, <1>5, <1>6, <1>7, <1>8 DEF Accepted, Sent

(* One that draws no id. *)
LEMMA Stays ==
  ASSUME Shapes, NEW c, NEW req, NEW todo, Change(c, req, todo)
  PROVE  Begin(c, req, todo, <<>>, TRUE) /\ lastId + 0 <= Len(Ids) /\ lastId' = lastId + 0
<1>1. Begin(c, req, todo, <<>>, TRUE) /\ lastId' = lastId
  BY DEF Change
<1>2. Len(Ids) \in Nat
  BY GatewayAssumption
<1>3. lastId + 0 <= Len(Ids) /\ lastId + 0 = lastId
  BY <1>2 DEF Shapes
<1> QED
  BY <1>1, <1>3

(* One of a write that no other depends on. *)
LEMMA PlainPut ==
  ASSUME NEW c \in Clients, NEW req, NEW t, NEW k, NEW v, NEW triggers \in BOOLEAN,
         NEW n \in Nat,
         Begin(c, req, <<Put(t, k, v)>>, <<>>, triggers),
         lastId + n <= Len(Ids), lastId' = lastId + n,
         req # "none", triggers \/ req \in Silents, t # "service", t # "port"
  PROVE  Accepted(c)
<1>1. PICK w : w = Put(t, k, v)
  OBVIOUS
<1>2. w.op = "put" /\ w.table = t /\ IsWrite(w)
  BY <1>1, PutIs
<1>3. Fits(req, w, n)
  BY <1>2 DEF Fits, Sets
<1> QED
  BY <1>1, <1>2, <1>3, OneWrite

(* A request that only drops a row (no application, no service outside a switch) is
   accepted: of fragments, only those that no service names are dropped. *)
LEMMA PlainDrop ==
  ASSUME NEW c \in Clients, NEW req, NEW t, NEW k,
         Shapes, Change(c, req, <<Drop(t, k)>>), req # "none",
         t = "service" => req \notin {"start", "stop"}, t # "app",
         Clear /\ t = "fragment" => \A s \in Services : k \notin db["service"][s].frags
  PROVE  Accepted(c)
<1>1. PICK w : w = Drop(t, k)
  OBVIOUS
<1>2. w.op = "drop" /\ w.table = t /\ w.key = k /\ IsWrite(w)
  BY <1>1, DropIs
<1>3. Clear => Fits(req, w, 0)
  BY <1>2 DEF Fits, Sets
<1>4. lastId + 0 <= Len(Ids) /\ lastId' = lastId + 0 /\ Begin(c, req, <<w>>, <<>>, TRUE)
  BY <1>1, Stays
<1> QED
  BY <1>2, <1>3, <1>4, OneWrite

(* A request that writes one row of a table that neither services nor ports live in. *)
LEMMA PlainChange ==
  ASSUME NEW c \in Clients, NEW req, NEW t, NEW k, NEW v,
         Shapes, Change(c, req, <<Put(t, k, v)>>), req # "none", t # "service", t # "port"
  PROVE  Accepted(c)
<1>1. PICK s : s = <<Put(t, k, v)>>
  OBVIOUS
<1>2. Begin(c, req, s, <<>>, TRUE) /\ lastId + 0 <= Len(Ids) /\ lastId' = lastId + 0
  BY <1>1, Stays
<1> QED
  BY <1>1, <1>2, PlainPut

(* The same with an id drawn for the row. *)
LEMMA PlainNew ==
  ASSUME NEW c \in Clients, NEW req, NEW t, NEW k, NEW v,
         Begin(c, req, <<Put(t, k, v)>>, <<>>, TRUE),
         lastId + 1 <= Len(Ids), lastId' = lastId + 1, req # "none",
         t # "service", t # "port"
  PROVE  Accepted(c)
<1>1. PICK w : w = Put(t, k, v)
  OBVIOUS
<1>2. w.op = "put" /\ w.table = t /\ IsWrite(w)
  BY <1>1, PutIs
<1>3. Fits(req, w, 1)
  BY <1>2 DEF Fits, Sets
<1>4. ~(req \in {"start", "stop"}) \/ w.op = "put"
  BY <1>2
<1> QED
  BY <1>1, <1>2, <1>3, <1>4, OneWrite

(* No id drawn is none more. *)
LEMMA NoneDrawn ==
  ASSUME Shapes, lastId' = lastId
  PROVE  lastId + 0 <= Len(Ids) /\ lastId' = lastId + 0
<1>1. Len(Ids) \in Nat
  BY GatewayAssumption
<1> QED
  BY <1>1 DEF Shapes

(* A request that writes or drops a credential is accepted; it asks for no *)
(* run of Caddy.                                                           *)
LEMMA AcmeWrite ==
  ASSUME NEW c \in Clients, NEW req \in OfCredentials, NEW k, NEW v, NEW w,
         w = Put("credential", k, v) \/ w = Drop("credential", k),
         ChangeOfAcme(c, req, <<w>>),
         NEW n \in Nat, lastId + n <= Len(Ids), lastId' = lastId + n
  PROVE  Accepted(c)
<1>1. w.op \in {"put", "drop"} /\ w.table = "credential" /\ IsWrite(w)
  BY PutIs, DropIs
<1>2. Begin(c, req, <<w>>, <<>>, FALSE)
  BY DEF ChangeOfAcme
<1>3. req \in Silents /\ req \notin {"none", "start", "stop"}
  BY DEF OfCredentials, Silents
<1>4. Fits(req, w, n)
  BY <1>1 DEF Fits, Sets
<1> QED
  BY <1>1, <1>2, <1>3, <1>4, OneWrite

(* What toService makes of a body is a whole service, in its application. *)
LEMMA ServiceIs ==
  ASSUME NEW d, NEW body, NEW app, NEW enabled
  PROVE  Whole(ToService(d, body, app, enabled)) /\ ToService(d, body, app, enabled).app = app
         /\ ToService(d, body, app, enabled).enabled = enabled
BY DEF Whole, ToService

(* A service switched on or off is otherwise the one that was stored. *)
LEMMA Edited ==
  ASSUME NEW s, Whole(s), NEW on
  PROVE  Whole([s EXCEPT !.enabled = on]) /\ [s EXCEPT !.enabled = on].app = s.app
         /\ [s EXCEPT !.enabled = on].enabled = on /\ [s EXCEPT !.enabled = on].frags = s.frags
<1>1. s \in [app : {s.app}, name : {s.name}, type : {s.type}, rows : {s.rows}, up : {s.up},
             upProto : {s.upProto}, health : {s.health}, rootUses : {s.rootUses},
             enabled : {s.enabled, on}, frags : {s.frags}, excl : {s.excl}, extra : {s.extra}]
  BY DEF Whole
<1> QED
  BY <1>1 DEF Whole

(* An id that has not been drawn is none that has. *)
LEMMA NewId ==
  ASSUME Shapes, NEW m \in Nat, m > lastId, m <= Len(Ids)
  PROVE  Ids[m] \notin Drawn(lastId)
<1>1. Len(Ids) \in Nat /\ DOMAIN Ids = 1..Len(Ids)
  BY GatewayAssumption
<1>2. lastId \in Nat
  BY DEF Shapes
<1>3. ASSUME NEW i \in 1..lastId PROVE Ids[m] # Ids[i]
  <2>1. i \in 1..Len(Ids) /\ m \in 1..Len(Ids) /\ i # m
    BY <1>1, <1>2
  <2> QED
    BY <1>1, <2>1, GatewayAssumption
<1> QED
  BY <1>3 DEF Drawn

(* Nothing is pending while all clients are idle. *)
LEMMA NothingPending ==
  ASSUME \A c \in Clients : Idle(c)
  PROVE  Pending = {}
<1>1. ASSUME NEW c \in Clients PROVE ToSet(job[c].todo) = {}
  BY None DEF Idle
<1> QED
  BY <1>1 DEF Pending

(* Then every service is in an application that exists, and so on. *)
LEMMA ClearMeans ==
  ASSUME Orderly, Clear
  PROVE  /\ \A s \in Services : \/ db["service"][s].app = Nowhere \/ db["service"][s].app \in Apps
         /\ Services \subseteq Drawn(lastId) /\ DOMAIN answered \subseteq Drawn(lastId)
         /\ \A s \in Services \cap DOMAIN answered : db["service"][s].enabled = answered[s]
<1>1. Pending = {}
  BY NothingPending DEF Clear
<1>2. Grouped({}) /\ Fresh({}) /\ StopsKept
  BY <1>1 DEF Orderly, Clear
<1> QED
  BY <1>2 DEF Grouped, Fresh, StopsKept, Placed

(* A service is created in an application that exists, or in none. *)
LEMMA CreatedService ==
  ASSUME Inv, NEW c \in Clients, NEW app, NEW body, CreateService(c, app, body)
  PROVE  Accepted(c)
<1>1. PICK w, r : r = ToService(db, body, app, TRUE) /\ w = Put("service", ID(1), r)
  OBVIOUS
<1>2. /\ w.op = "put" /\ w.table = "service" /\ w.key = Ids[lastId + 1] /\ w.row = r
      /\ IsWrite(w) /\ r.app = app
  <2>1. Whole(r) /\ r.app = app
    BY <1>1 DEF ToService, Whole
  <2>2. w = Put("service", Ids[lastId + 1], r)
    BY <1>1 DEF ID
  <2> QED
    BY <2>1, <2>2, PutIs
<1>3. /\ Begin(c, "createService", <<w>>, <<>>, TRUE)
      /\ lastId + 1 <= Len(Ids) /\ lastId' = lastId + 1 /\ (app = Nowhere \/ app \in Apps)
  BY <1>1 DEF CreateService, DrawIds, Nowhere
<1>4. lastId \in Nat
  BY DEF Inv, Shapes
<1>5. ASSUME Clear PROVE Fits("createService", w, 1)
  <2>1. w.row.app = Nowhere \/ w.row.app \in Apps
    BY <1>2, <1>3
  <2>2. Ids[lastId + 1] \notin Drawn(lastId)
    <3>1. lastId + 1 \in Nat /\ lastId + 1 > lastId
      BY <1>4
    <3> QED
      BY <1>3, <3>1, NewId DEF Inv
  <2>3. Ids[lastId + 1] \in Drawn(lastId + 1)
    <3>1. lastId + 1 \in 1..lastId + 1
      BY <1>4
    <3> QED
      BY <3>1 DEF Drawn
  <2>4. Agrees("createService", {w})
    BY <1>2, <1>5, <2>2, ClearMeans DEF Agrees, Inv
  <2> QED
    BY <1>2, <2>1, <2>3, <2>4 DEF Fits, Sets
<1> QED
  BY <1>2, <1>3, <1>5, OneWrite

(* An update keeps the switch of the service as it was stored. *)
LEMMA UpdatedService ==
  ASSUME Inv, NEW c \in Clients, NEW s, NEW app, NEW body, UpdateService(c, s, app, body)
  PROVE  Accepted(c)
<1>1. PICK w, r : /\ r = ToService(db, body, app, db["service"][s].enabled)
                  /\ w = Put("service", s, r)
  OBVIOUS
<1>2. /\ w.op = "put" /\ w.table = "service" /\ w.key = s /\ w.row = r /\ IsWrite(w)
      /\ r.app = app /\ r.enabled = db["service"][s].enabled
  <2>1. PICK e : e = db["service"][s].enabled
    OBVIOUS
  <2>2. r = ToService(db, body, app, e)
    BY <1>1, <2>1
  <2>3. Whole(r) /\ r.app = app /\ r.enabled = e
    BY <2>2, ServiceIs
  <2>4. /\ w.op = "put" /\ w.table = "service" /\ w.key = s /\ w.row = r /\ IsWrite(w)
    BY <1>1, <2>3, PutIs
  <2> QED
    BY <2>1, <2>3, <2>4
<1>3. Change(c, "updateService", <<w>>) /\ s \in Services
  BY <1>1 DEF UpdateService
<1>4. /\ Begin(c, "updateService", <<w>>, <<>>, TRUE) /\ lastId + 0 <= Len(Ids)
      /\ lastId' = lastId + 0
  BY <1>3, Stays DEF Inv
<1>5. lastId + 0 = lastId
  <2>1. lastId \in 0..Len(Ids)
    BY DEF Inv, Shapes
  <2>2. Len(Ids) \in Nat
    BY GatewayAssumption
  <2> QED
    BY <2>1, <2>2
<1>6. ASSUME Clear PROVE Fits("updateService", w, 0)
  <2>1. Agrees("updateService", {w})
    BY <1>2, <1>3, <1>6, ClearMeans DEF Agrees, Inv
  <2>2. s \in Drawn(lastId)
    BY <1>3, <1>6, ClearMeans DEF Inv
  <2> QED
    BY <1>2, <1>5, <2>1, <2>2 DEF Fits, Sets
<1> QED
  BY <1>2, <1>4, <1>6, OneWrite

(* A switch writes the service back with its application and its fragments. *)
LEMMA SwitchedService ==
  ASSUME Inv, NEW c \in Clients, NEW s, NEW on \in BOOLEAN, SetServiceEnabled(c, s, on)
  PROVE  Accepted(c)
<1>1. PICK req : req = IF on THEN "start" ELSE "stop"
  OBVIOUS
<1>2. PICK w, r : r = [db["service"][s] EXCEPT !.enabled = on] /\ w = Put("service", s, r)
  OBVIOUS
<1>3. Change(c, req, <<w>>) /\ s \in Services
  BY <1>1, <1>2 DEF SetServiceEnabled
<1>4. Whole(db["service"][s])
  BY <1>3 DEF Inv, Shapes
<1>5. /\ w.op = "put" /\ w.table = "service" /\ w.key = s /\ w.row = r /\ IsWrite(w)
      /\ r.app = db["service"][s].app /\ r.enabled = on
  BY <1>2, <1>4, PutIs, Edited
<1>6. Begin(c, req, <<w>>, <<>>, TRUE) /\ lastId + 0 <= Len(Ids) /\ lastId' = lastId + 0
  BY <1>3, Stays DEF Inv
<1>7. lastId + 0 = lastId
  <2>1. Len(Ids) \in Nat
    BY GatewayAssumption
  <2> QED
    BY <2>1 DEF Inv, Shapes
<1>8. ASSUME Clear PROVE Fits(req, w, 0)
  <2>1. on = (req = "start") /\ req \in {"start", "stop"}
    BY <1>1
  <2>2. Agrees(req, {w})
    BY <1>5, <2>1 DEF Agrees
  <2>3. s \in Drawn(lastId) /\ (r.app = Nowhere \/ r.app \in Apps)
    BY <1>3, <1>5, <1>8, ClearMeans DEF Inv
  <2> QED
    BY <1>5, <1>7, <2>2, <2>3 DEF Fits, Sets
<1>9. req # "none"
  BY <1>1
<1> QED
  BY <1>5, <1>6, <1>8, <1>9, OneWrite

(* The ports of a protocol are written if no other protocol has them. *)
LEMMA WrittenPort ==
  ASSUME Inv, NEW c \in Clients, NEW p, NEW ports, NEW enabled, NEW builtin,
         NEW req \in {"createPort", "updatePort"}, NoConflict(p, ports),
         Change(c, req, <<Put("port", p, Binding(ports, enabled, builtin))>>)
  PROVE  Accepted(c)
<1>1. PICK w : w = Put("port", p, Binding(ports, enabled, builtin))
  OBVIOUS
<1>2. w.op = "put" /\ w.table = "port" /\ w.key = p /\ w.row.ports = ports /\ IsWrite(w)
  BY <1>1, PutIs DEF Binding
<1>3. Begin(c, req, <<w>>, <<>>, TRUE) /\ lastId + 0 <= Len(Ids) /\ lastId' = lastId + 0
  BY <1>1, Stays DEF Inv
<1>4. Fits(req, w, 0)
  BY <1>2 DEF Fits, Sets, NoConflict, Apart
<1> QED
  BY <1>2, <1>3, <1>4, OneWrite

(* A request of several writes. *)
LEMMA ManyWrites ==
  ASSUME NEW c \in Clients, NEW req, NEW s, NEW e, NEW triggers \in BOOLEAN, NEW n \in Nat,
         Begin(c, req, s, e, triggers), lastId + n <= Len(Ids), lastId' = lastId + n,
         Writes(s), s # <<>>, Writes(e), req \notin {"none", "start", "stop"},
         (~triggers \/ e # <<>>) => req \in Silents,
         Clear /\ req # "refusedApp" => Suits(req, ToSet(s), n)
  PROVE  Accepted(c)
<1>1. PICK j : j = [req |-> req, todo |-> s, undo |-> e, triggers |-> triggers]
  OBVIOUS
<1>2. j.req = req /\ j.todo = s /\ j.undo = e /\ j.triggers = triggers
  BY <1>1
<1>3. JobOK(j)
  BY <1>1, <1>2 DEF JobOK
<1>4. j # NoJob
  BY <1>2 DEF NoJob
<1>5. Idle(c) /\ job' = [job EXCEPT ![c] = j]
      /\ UNCHANGED <<db, containers, wanted, run, loaded, result>>
  BY <1>1 DEF Begin
<1> QED
  BY <1>2, <1>3, <1>4, <1>5 DEF Accepted, Sent

(* A list of two members. *)
LEMMA Two ==
  ASSUME NEW v, NEW w
  PROVE  List(<<v, w>>) /\ <<v, w>> # <<>> /\ ToSet(<<v, w>>) = {v, w}
<1>1. PICK s : s = <<v, w>>
  OBVIOUS
<1>2. s \in Seq({v, w}) /\ DOMAIN s = 1..2 /\ s[1] = v /\ s[2] = w /\ s # <<>>
  BY <1>1
<1>3. ToSet(s) = {v, w}
  BY <1>2 DEF ToSet
<1> QED
  BY <1>1, <1>2, <1>3 DEF List

(* A list and one more. *)
LEMMA Append1 ==
  ASSUME NEW s, List(s), s # <<>>, NEW w
  PROVE  List(s \o <<w>>) /\ s \o <<w>> # <<>> /\ ToSet(s \o <<w>>) = ToSet(s) \cup {w}
<1>1. PICK S, o : S = ToSet(s) \cup {w} /\ o = <<w>>
  OBVIOUS
<1>2. s \in Seq(ToSet(s)) /\ ToSet(s) \subseteq S
  BY <1>1 DEF List
<1>3. s \in Seq(S) /\ Len(s) \in Nat /\ DOMAIN s = 1..Len(s) /\ Len(s) # 0
  BY <1>2
<1>4. o \in Seq(S) /\ Len(o) = 1 /\ o[1] = w
  BY <1>1
<1>5. PICK t : t = s \o o
  OBVIOUS
<1>6. /\ t \in Seq(S) /\ Len(t) = Len(s) + 1 /\ DOMAIN t = 1..Len(s) + 1
      /\ \A i \in 1..Len(s) + 1 : t[i] = IF i <= Len(s) THEN s[i] ELSE o[i - Len(s)]
  <2>0. s \in Seq(S) /\ o \in Seq(S)
    BY <1>3, <1>4
  <2>1. t \in Seq(S) /\ Len(t) = Len(s) + Len(o)
    BY <1>5, <2>0
  <2>2. Len(t) = Len(s) + 1 /\ DOMAIN t = 1..Len(s) + 1
    BY <1>3, <1>4, <2>1
  <2>3. \A i \in 1..Len(s) + Len(o) : t[i] = IF i <= Len(s) THEN s[i] ELSE o[i - Len(s)]
    BY <1>5, <2>0
  <2> QED
    BY <1>4, <2>1, <2>2, <2>3
<1>7. ToSet(s) = {s[i] : i \in 1..Len(s)} /\ ToSet(t) = {t[i] : i \in 1..Len(s) + 1}
  BY <1>3, <1>6 DEF ToSet
<1>8. t[Len(s) + 1] = w
  <2>1. Len(s) + 1 \in 1..Len(s) + 1 /\ ~(Len(s) + 1 <= Len(s)) /\ Len(s) + 1 - Len(s) = 1
    BY <1>3
  <2> QED
    BY <1>4, <1>6, <2>1
<1>9. ASSUME NEW x \in S PROVE x \in ToSet(t)
  <2>1. CASE x = w
    <3>1. Len(s) + 1 \in 1..Len(s) + 1
      BY <1>3
    <3> QED
      BY <1>7, <1>8, <2>1, <3>1
  <2>2. CASE x \in ToSet(s)
    <3>1. PICK i \in 1..Len(s) : x = s[i]
      BY <1>7, <2>2
    <3>2. i \in 1..Len(s) + 1 /\ i <= Len(s)
      BY <1>3
    <3>3. t[i] = x
      BY <1>6, <3>1, <3>2
    <3> QED
      BY <1>7, <3>2, <3>3
  <2> QED
    BY <1>1, <2>1, <2>2
<1>10. ASSUME NEW x \in ToSet(t) PROVE x \in S
  BY <1>6, <1>7, <1>10
<1>11. t # <<>>
  BY <1>3, <1>6
<1> QED
  BY <1>1, <1>5, <1>6, <1>9, <1>10, <1>11 DEF List

(* A finite set in some order: each member has its place. *)
LEMMA Ordered ==
  ASSUME NEW S, IsFiniteSet(S)
  PROVE  /\ Cardinality(S) \in Nat /\ SetToSeq(S) \in [1..Cardinality(S) -> S]
         /\ \A x \in S : \E i \in 1..Cardinality(S) : SetToSeq(S)[i] = x
<1>1. Cardinality(S) \in Nat /\ ExistsBijection(1..Cardinality(S), S)
  BY FS_CardinalityType
<1>2. PICK n : n = Cardinality(S)
  OBVIOUS
<1>3. \E f \in [1..n -> S] : IsInjective(f)
  BY <1>1, <1>2 DEF ExistsBijection, Bijection, Injection, IsInjective
<1>4. PICK f : f = SetToSeq(S)
  OBVIOUS
<1>5. f \in [1..n -> S] /\ IsInjective(f)
  BY <1>2, <1>3, <1>4 DEF SetToSeq
<1>6. f \in Injection(1..n, S)
  BY <1>5 DEF Injection, IsInjective
<1>7. Cardinality(1..n) = n /\ IsFiniteSet(1..n)
  BY <1>1, <1>2, FS_Interval
<1>8. f \in Surjection(1..n, S)
  BY <1>2, <1>6, <1>7, FS_Injection
<1> QED
  BY <1>1, <1>2, <1>4, <1>5, <1>8 DEF Surjection

(* GET /gateway/ports writes the ports of the start-up configuration. *)
LEMMA SeededPorts ==
  ASSUME NEW c \in Clients, Shapes, SeedDefaultPorts(c)
  PROVE  Accepted(c)
<1>1. PICK a, b : a = <<Or(Start.http, 80)>> /\
                  b = <<Or(Start.https, 443)>> \o SetToSeq(Start.moreHttps)
  OBVIOUS
<1>2. PICK v, w : /\ v = Put("port", "http", Binding(a, TRUE, TRUE))
                  /\ w = Put("port", "https", Binding(b, TRUE, TRUE))
  OBVIOUS
<1>3. /\ v.op = "put" /\ v.table = "port" /\ v.key = "http" /\ v.row.ports = a /\ IsWrite(v)
      /\ \A t, k : v # Drop(t, k)
  BY <1>2, PutIs DEF Binding
<1>4. /\ w.op = "put" /\ w.table = "port" /\ w.key = "https" /\ w.row.ports = b /\ IsWrite(w)
      /\ \A t, k : w # Drop(t, k)
  BY <1>2, PutIs DEF Binding
<1>5. /\ DOMAIN db["port"] = {} /\ Begin(c, "seedPorts", <<v, w>>, <<>>, FALSE)
      /\ lastId' = lastId
  BY <1>1, <1>2 DEF SeedDefaultPorts
<1>6. lastId + 0 <= Len(Ids) /\ lastId' = lastId + 0
  <2>1. Len(Ids) \in Nat
    BY GatewayAssumption
  <2> QED
    BY <1>5, <2>1 DEF Shapes
<1>7. PICK s, e : s = <<v, w>> /\ e = <<>>
  OBVIOUS
<1>8. List(s) /\ s # <<>> /\ ToSet(s) = {v, w} /\ List(e) /\ ToSet(e) = {}
  BY <1>7, Two, None
<1>9. Writes(s) /\ Writes(e)
  BY <1>3, <1>4, <1>8 DEF Writes
<1>10. ToSet(a) = {Or(Start.http, 80)}
  BY <1>1, Single
<1>11. ToSet(b) \subseteq {Or(Start.https, 443)} \cup Start.moreHttps
  <2>1. PICK m, n : m = Start.moreHttps /\ n = Cardinality(m)
    OBVIOUS
  <2>2. n \in Nat /\ SetToSeq(m) \in [1..n -> m]
    BY <2>1, GatewayAssumption, Ordered
  <2>3. PICK f : f = SetToSeq(m)
    OBVIOUS
  <2>4. f = [i \in 1..n |-> f[i]] /\ \A i \in 1..n : f[i] \in m
    BY <2>2, <2>3
  <2>5. ToSet(<<Or(Start.https, 443)>> \o f) =
          {Or(Start.https, 443)} \cup {f[i] : i \in 1..n}
    BY <2>2, <2>4, Join
  <2> QED
    BY <1>1, <2>1, <2>3, <2>4, <2>5
<1>12. StartDisjoint => Apart(a, b) /\ Apart(b, a)
  BY <1>10, <1>11 DEF StartDisjoint, Apart
<1>13. Suits("seedPorts", {v, w}, 0)
  <2>1. Alike({v, w})
    BY <1>3, <1>4 DEF Alike
  <2>2. Agrees("seedPorts", {v, w})
    BY <1>3, <1>4 DEF Agrees, Sets
  <2>3. StartDisjoint => \A x, y \in {v, w} : x.key # y.key => Apart(x.row.ports, y.row.ports)
    BY <1>3, <1>4, <1>12
  <2> QED
    BY <1>3, <1>4, <1>5, <2>1, <2>2, <2>3 DEF Suits, Sets
<1>14. Begin(c, "seedPorts", s, e, FALSE)
  BY <1>5, <1>7
<1>15. "seedPorts" \in Silents
  BY DEF Silents
<1> QED
  BY <1>6, <1>8, <1>9, <1>13, <1>14, <1>15, ManyWrites

(* DELETE /gateway/apps/{id} drops every service of the application. *)
LEMMA DeletedApp ==
  ASSUME NEW c \in Clients, Shapes, NEW app, DeleteApp(c, app)
  PROVE  Accepted(c)
<1>1. PICK S, n, q, v : /\ S = ServicesOf(app) /\ n = Cardinality(S) /\ q = SetToSeq(S)
                        /\ v = Drop("app", app)
  OBVIOUS
<1>2. PICK f : f = [i \in 1..n |-> Drop("service", q[i])]
  OBVIOUS
<1>3. Change(c, "deleteApp", <<v>> \o f)
  BY <1>1, <1>2 DEF DeleteApp
<1>4. n \in Nat /\ q \in [1..n -> S] /\ \A x \in S : \E i \in 1..n : q[i] = x
  <2>1. IsFiniteSet(S)
    BY <1>1, FS_Subset DEF ServicesOf, Shapes
  <2> QED
    BY <1>1, <2>1, Ordered
<1>5. PICK s, e : s = <<v>> \o f /\ e = <<>>
  OBVIOUS
<1>6. /\ List(s) /\ s # <<>> /\ ToSet(s) = {v} \cup {f[i] : i \in 1..n}
      /\ List(e) /\ ToSet(e) = {}
  <2>1. f = [i \in 1..n |-> f[i]]
    BY <1>2
  <2>2. List(s) /\ s # <<>> /\ ToSet(s) = {v} \cup {f[i] : i \in 1..n}
    BY <1>4, <1>5, <2>1, Join
  <2> QED
    BY <1>5, <2>2, None
<1>7. v.op = "drop" /\ v.table = "app" /\ v.key = app /\ IsWrite(v)
  BY <1>1, DropIs
<1>8. \A i \in 1..n : f[i].op = "drop" /\ f[i].table = "service" /\ IsWrite(f[i])
  BY <1>2, DropIs
<1>9. Writes(s) /\ Writes(e)
  BY <1>6, <1>7, <1>8 DEF Writes
<1>10. PICK W : W = ToSet(s)
  OBVIOUS
<1>11. \A w \in W : w.op = "drop" /\ (w.table = "app" => w.key = app)
           /\ w.table \in {"app", "service"}
  BY <1>6, <1>7, <1>8, <1>10
<1>12. ASSUME NEW a, Drop("app", a) \in W, NEW x \in ServicesOf(a)
       PROVE  Drop("service", x) \in W
  <2>1. Drop("app", a).table = "app" /\ Drop("app", a).key = a
    BY DropIs
  <2>2. a = app
    BY <1>11, <1>12, <2>1
  <2>3. PICK i \in 1..n : q[i] = x
    BY <1>1, <1>4, <1>12, <2>2
  <2>4. f[i] = Drop("service", x)
    BY <1>2, <2>3
  <2> QED
    BY <1>6, <1>10, <2>4
<1>13. ASSUME NEW g PROVE Drop("fragment", g) \notin W
  <2>1. Drop("fragment", g).table = "fragment"
    BY DropIs
  <2> QED
    BY <1>11, <2>1
<1>14. Suits("deleteApp", W, 0)
  <2>1. \A w \in W : \A t : ~Sets(w, t)
    BY <1>11 DEF Sets
  <2>2. Alike(W) /\ Agrees("deleteApp", W)
    BY <1>11, <2>1 DEF Alike, Agrees
  <2> QED
    BY <1>12, <1>13, <2>1, <2>2 DEF Suits
<1>15. Begin(c, "deleteApp", s, e, TRUE) /\ lastId + 0 <= Len(Ids) /\ lastId' = lastId + 0
  BY <1>3, <1>5, Stays
<1> QED
  BY <1>5, <1>6, <1>9, <1>10, <1>14, <1>15, ManyWrites

(* POST /gateway/apps writes the application before its services. *)
LEMMA CreatedApp ==
  ASSUME NEW c \in Clients, Inv, NEW name, NEW m \in Nat, NEW ins \in [1..m -> ServiceInputs],
         CreateApp(c, name, ins)
  PROVE  Accepted(c)
<1>1. Len(ins) = m
  OBVIOUS
<1>2. PICK saved \in 0..m :
        LET app   == ID(1)
            saves == <<Put("app", app, name)>> \o
              [i \in 1..saved |-> Put("service", ID(1 + i), ToService(db, ins[i], app, TRUE))]
            undo  == <<Drop("app", app)>>
        IN /\ DrawIds(1 + saved)
           /\ \/ Begin(c, "createApp", saves, undo, TRUE)
              \/ Begin(c, "refusedApp", saves \o undo, undo, FALSE)
  BY <1>1 DEF CreateApp
<1>3. PICK app, v, u : app = ID(1) /\ v = Put("app", app, name) /\ u = Drop("app", app)
  OBVIOUS
<1>4. PICK f : f = [i \in 1..saved |->
                      Put("service", ID(1 + i), ToService(db, ins[i], app, TRUE))]
  OBVIOUS
<1>5. PICK s, e, r : s = <<v>> \o f /\ e = <<u>> /\ r = s \o e
  OBVIOUS
<1>6. /\ DrawIds(1 + saved)
      /\ Begin(c, "createApp", s, e, TRUE) \/ Begin(c, "refusedApp", r, e, FALSE)
  BY <1>2, <1>3, <1>4, <1>5
<1>7. v.op = "put" /\ v.table = "app" /\ v.key = app /\ IsWrite(v)
  BY <1>3, PutIs
<1>8. ASSUME NEW i \in 1..saved
      PROVE  /\ f[i].op = "put" /\ f[i].table = "service" /\ f[i].key = ID(1 + i)
             /\ IsWrite(f[i]) /\ f[i].row.app = app
  <2>1. PICK k, w : k = ID(1 + i) /\ w = ToService(db, ins[i], app, TRUE)
    OBVIOUS
  <2>2. Whole(w) /\ w.app = app
    BY <2>1 DEF ToService, Whole
  <2>3. f[i] = Put("service", k, w)
    BY <1>4, <2>1
  <2>4. PICK x : x = Put("service", k, w)
    OBVIOUS
  <2>5. x.op = "put" /\ x.table = "service" /\ x.key = k /\ x.row = w /\ IsWrite(x)
    BY <2>2, <2>4, PutIs
  <2> QED
    BY <2>1, <2>2, <2>3, <2>4, <2>5
<1>9. saved \in Nat /\ f = [i \in 1..saved |-> f[i]]
  BY <1>4
<1>10. /\ List(s) /\ s # <<>> /\ ToSet(s) = {v} \cup {f[i] : i \in 1..saved}
       /\ List(e) /\ e # <<>> /\ ToSet(e) = {u}
  <2>1. List(s) /\ s # <<>> /\ ToSet(s) = {v} \cup {f[i] : i \in 1..saved}
    <3>1. PICK n : n = saved
      OBVIOUS
    <3>2. n \in Nat /\ f = [i \in 1..n |-> f[i]]
      BY <1>9, <3>1
    <3>3. /\ List(<<v>> \o f) /\ <<v>> \o f # <<>>
          /\ ToSet(<<v>> \o f) = {v} \cup {f[i] : i \in 1..n}
      BY <3>2, Join
    <3> QED
      BY <1>5, <3>1, <3>3
  <2>2. List(e) /\ e # <<>> /\ ToSet(e) = {u}
    BY <1>5, Single
  <2> QED
    BY <2>1, <2>2
<1>11. List(r) /\ r # <<>> /\ ToSet(r) = ToSet(s) \cup {u}
  BY <1>5, <1>10, Append1
<1>12. IsWrite(u)
  BY <1>3, DropIs
<1>13. Writes(s) /\ Writes(e) /\ Writes(r)
  BY <1>7, <1>8, <1>10, <1>11, <1>12 DEF Writes
<1>14. /\ 1 + saved \in Nat /\ lastId + (1 + saved) <= Len(Ids) /\ lastId' = lastId + (1 + saved)
  BY <1>6, <1>9 DEF DrawIds
<1>15. PICK W : W = ToSet(s)
  OBVIOUS
<1>16. ASSUME Clear PROVE Suits("createApp", W, 1 + saved)
  <2>1. \A w \in W : w.op = "put" /\ (w.table = "service" => w.row.app = app)
          /\ w.table \in {"app", "service"}
    BY <1>7, <1>8, <1>10, <1>15
  <2>2. v \in W /\ Sets(v, "app") /\ v.key = app
    BY <1>7, <1>10, <1>15 DEF Sets
  <2>3. ASSUME NEW w \in W, Sets(w, "service")
        PROVE  w.key \in Drawn(lastId + (1 + saved)) /\ w.key \notin DOMAIN answered
    <3>1. PICK i \in 1..saved : w = f[i]
      BY <1>7, <1>10, <1>15, <2>3 DEF Sets
    <3>2. w.key = Ids[lastId + (1 + i)]
      BY <1>8, <3>1 DEF ID
    <3>3. lastId \in Nat /\ Len(Ids) \in Nat
      BY GatewayAssumption DEF Inv, Shapes
    <3>4. PICK k : k = lastId + (1 + i)
      OBVIOUS
    <3>5. k \in 1..lastId + (1 + saved) /\ k \in Nat /\ k > lastId /\ k <= Len(Ids)
      BY <1>9, <1>14, <3>3, <3>4
    <3>6. w.key \in Drawn(lastId + (1 + saved))
      BY <3>2, <3>4, <3>5 DEF Drawn
    <3>7. Ids[k] \notin Drawn(lastId)
      BY <3>5, NewId DEF Inv
    <3>8. DOMAIN answered \subseteq Drawn(lastId)
      BY <1>16, ClearMeans DEF Inv
    <3> QED
      BY <3>2, <3>4, <3>6, <3>7, <3>8
  <2>4. \A w \in W : \A t, k : w # Drop(t, k)
    <3>1. \A t, k : Drop(t, k).op = "drop"
      BY DropIs
    <3> QED
      BY <2>1, <3>1
  <2>5. Alike(W)
    BY <2>1 DEF Alike
  <2>6. Agrees("createApp", W)
    BY <2>3 DEF Agrees
  <2>7. \A w \in W : ~Sets(w, "port")
    BY <2>1 DEF Sets
  <2>8. ASSUME NEW w \in W, Sets(w, "service")
        PROVE  \E x \in W : Sets(x, "app") /\ x.key = w.row.app
    BY <2>1, <2>2, <2>8 DEF Sets
  <2>9. \A a : Drop("app", a) \notin W /\ Drop("fragment", a) \notin W
    BY <2>4
  <2> QED
    BY <2>3, <2>5, <2>6, <2>7, <2>8, <2>9 DEF Suits
<1>17. "createApp" \in Silents /\ "refusedApp" \in Silents
  BY DEF Silents
<1>18. CASE Begin(c, "createApp", s, e, TRUE)
  BY <1>10, <1>13, <1>14, <1>15, <1>16, <1>17, <1>18, ManyWrites
<1>19. CASE Begin(c, "refusedApp", r, e, FALSE)
  BY <1>11, <1>13, <1>14, <1>17, <1>19, ManyWrites
<1> QED
  BY <1>6, <1>18, <1>19

(* Whatever clients send, it is accepted as a list of writes, or a run is  *)
(* asked for.                                                              *)
LEMMA SendsAccepted ==
  ASSUME Inv, NEW c \in Clients, Sends(c)
  PROVE  Accepted(c) \/ Restart(c)
<1>0. Shapes
  BY DEF Inv
<1>1. ASSUME AppRequest(c) PROVE Accepted(c)
  <2>1. CASE \E name \in AppNames, n \in 0..2 : \E ins \in [1..n -> ServiceInputs] :
               CreateApp(c, name, ins)
    BY <2>1, CreatedApp
  <2>2. ASSUME NEW app, NEW name, UpdateApp(c, app, name) PROVE Accepted(c)
    <3>1. /\ Begin(c, "updateApp", <<Put("app", app, name)>>, <<>>, FALSE)
          /\ lastId' = lastId
      BY <2>2 DEF UpdateApp
    <3>2. lastId + 0 <= Len(Ids) /\ lastId' = lastId + 0
      <4>1. Len(Ids) \in Nat
        BY GatewayAssumption
      <4> QED
        BY <1>0, <3>1, <4>1 DEF Shapes
    <3>3. "updateApp" \in Silents
      BY DEF Silents
    <3> QED
      BY <3>1, <3>2, <3>3, PlainPut
  <2>3. CASE \E app \in Apps : DeleteApp(c, app)
    BY <1>0, <2>3, DeletedApp
  <2> QED
    BY <1>1, <2>1, <2>2, <2>3 DEF AppRequest
<1>2. ASSUME NEW app \in Apps \cup {Nowhere}, NEW body, CreateService(c, app, body)
      PROVE  Accepted(c)
  BY <1>2, CreatedService
<1>3. ASSUME NEW id, NEW on \in BOOLEAN, SetDerivedEnabled(c, id, on) PROVE Accepted(c)
  <2>1. PICK req : req = IF on THEN "start" ELSE "stop"
    OBVIOUS
  <2>2. CASE on
    <3>1. Change(c, req, <<Drop("stopped", id)>>) /\ req = "start"
      BY <1>3, <2>1, <2>2 DEF SetDerivedEnabled
    <3> QED
      BY <1>0, <3>1, PlainDrop
  <2>3. CASE ~on
    <3>1. PICK b : b = TRUE
      OBVIOUS
    <3>2. Change(c, req, <<Put("stopped", id, b)>>) /\ req = "stop"
      BY <1>3, <2>1, <2>3, <3>1 DEF SetDerivedEnabled
    <3> QED
      BY <1>0, <3>2, PlainChange
  <2> QED
    BY <2>2, <2>3
<1>4. ASSUME ServiceRequest(c) PROVE Accepted(c) \/ Restart(c)
  <2>1. ASSUME NEW s, DeleteService(c, s) PROVE Accepted(c)
    <3>1. Change(c, "deleteService", <<Drop("service", s)>>)
      BY <2>1 DEF DeleteService
    <3> QED
      BY <1>0, <3>1, PlainDrop
  <2>2. ASSUME NEW s, NEW app, NEW body, UpdateService(c, s, app, body)
        PROVE  Accepted(c)
    BY <2>2, UpdatedService
  <2>3. ASSUME NEW s, NEW on \in BOOLEAN, SetServiceEnabled(c, s, on) PROVE Accepted(c)
    BY <2>3, SwitchedService
  <2> QED
    BY <1>2, <1>3, <1>4, <2>1, <2>2, <2>3 DEF ServiceRequest, Nowhere
<1>5. ASSUME FragmentRequest(c) PROVE Accepted(c)
  <2>1. ASSUME NEW b, CreateFragment(c, b) PROVE Accepted(c)
    <3>1. PICK k : k = ID(1)
      OBVIOUS
    <3>2. /\ Begin(c, "createFragment", <<Put("fragment", k, b)>>, <<>>, TRUE)
          /\ lastId + 1 <= Len(Ids) /\ lastId' = lastId + 1
      BY <2>1, <3>1 DEF CreateFragment, DrawIds
    <3> QED
      BY <3>2, PlainNew
  <2>2. ASSUME NEW g, NEW b, UpdateFragment(c, g, b) PROVE Accepted(c)
    <3>1. PICK r : r = [default |-> b.default, hidden |-> b.hidden]
      OBVIOUS
    <3>2. \/ Change(c, "updateFragment", <<Put("toggle", g, r)>>)
          \/ Change(c, "updateFragment", <<Put("fragment", g, b)>>)
      BY <2>2, <3>1 DEF UpdateFragment
    <3> QED
      BY <1>0, <3>2, PlainChange
  <2>3. ASSUME NEW g, DeleteFragment(c, g) PROVE Accepted(c)
    <3>1. /\ Change(c, "deleteFragment", <<Drop("fragment", g)>>)
          /\ \A s \in Services : g \notin db["service"][s].frags
      BY <2>3 DEF DeleteFragment
    <3> QED
      BY <1>0, <3>1, PlainDrop
  <2>4. ASSUME NEW k, NEW v, CreateVariable(c, k, v) \/ UpdateVariable(c, k, v)
        PROVE  Accepted(c)
    <3>1. PICK req \in {"createVariable", "updateVariable"} :
            Change(c, req, <<Put("variable", k, v)>>)
      BY <2>4 DEF CreateVariable, UpdateVariable
    <3> QED
      BY <1>0, <3>1, PlainChange
  <2>5. ASSUME NEW k, DeleteVariable(c, k) PROVE Accepted(c)
    <3>1. Change(c, "deleteVariable", <<Drop("variable", k)>>)
      BY <2>5 DEF DeleteVariable
    <3> QED
      BY <1>0, <3>1, PlainDrop
  <2> QED
    BY <1>5, <2>1, <2>2, <2>3, <2>4, <2>5 DEF FragmentRequest
<1>6. ASSUME PortRequest(c) PROVE Accepted(c)
  <2>1. CASE SeedDefaultPorts(c)
    BY <1>0, <2>1, SeededPorts
  <2>2. ASSUME NEW p, NEW ports, NEW on,
               CreatePort(c, p, ports, on) \/ UpdatePort(c, p, ports, on)
        PROVE  Accepted(c)
    <3>1. CASE CreatePort(c, p, ports, on)
      <4>1. /\ NoConflict(p, ports)
            /\ Change(c, "createPort", <<Put("port", p, Binding(ports, on, FALSE))>>)
        BY <3>1 DEF CreatePort
      <4> QED
        BY <4>1, WrittenPort
    <3>2. CASE UpdatePort(c, p, ports, on)
      <4>1. PICK b : b = db["port"][p].builtin
        OBVIOUS
      <4>2. /\ NoConflict(p, ports)
            /\ Change(c, "updatePort", <<Put("port", p, Binding(ports, on, b))>>)
        BY <3>2, <4>1 DEF UpdatePort
      <4> QED
        BY <4>2, WrittenPort
    <3> QED
      BY <2>2, <3>1, <3>2
  <2>3. ASSUME NEW p, DeletePort(c, p) PROVE Accepted(c)
    <3>1. Change(c, "deletePort", <<Drop("port", p)>>)
      BY <2>3 DEF DeletePort
    <3> QED
      BY <1>0, <3>1, PlainDrop
  <2> QED
    BY <1>6, <2>1, <2>2, <2>3 DEF PortRequest
<1>7. ASSUME DomainRequest(c) PROVE Accepted(c)
  <2>1. ASSUME NEW name, NEW k, CreateDomain(c, name, k) PROVE Accepted(c)
    <3>1. PICK r, i : r = Domain(name, k) /\ i = ID(1)
      OBVIOUS
    <3>2. /\ Begin(c, "createDomain", <<Put("domain", i, r)>>, <<>>, TRUE)
          /\ lastId + 1 <= Len(Ids) /\ lastId' = lastId + 1
      BY <2>1, <3>1 DEF CreateDomain, DrawIds
    <3> QED
      BY <3>2, PlainNew
  <2>2. ASSUME NEW d, NEW name, NEW k, UpdateDomain(c, d, name, k) PROVE Accepted(c)
    <3>1. PICK r : r = Domain(name, k)
      OBVIOUS
    <3>2. Change(c, "updateDomain", <<Put("domain", d, r)>>)
      BY <2>2, <3>1 DEF UpdateDomain
    <3> QED
      BY <1>0, <3>2, PlainChange
  <2>3. ASSUME NEW d, DeleteDomain(c, d) PROVE Accepted(c)
    <3>1. Change(c, "deleteDomain", <<Drop("domain", d)>>)
      BY <2>3 DEF DeleteDomain
    <3> QED
      BY <1>0, <3>1, PlainDrop
  <2>4. ASSUME NEW v, CreateCredential(c, v) PROVE Accepted(c)
    <3>1. PICK w : w = Put("credential", ID(1), v)
      OBVIOUS
    <3>2. /\ ChangeOfAcme(c, "createCredential", <<w>>)
          /\ lastId + 1 <= Len(Ids) /\ lastId' = lastId + 1
      BY <2>4, <3>1 DEF CreateCredential, DrawIds
    <3> QED
      BY <3>1, <3>2, AcmeWrite DEF OfCredentials
  <2>5. ASSUME NEW k, NEW v, UpdateCredential(c, k, v) PROVE Accepted(c)
    <3>1. PICK w : w = Put("credential", k, v)
      OBVIOUS
    <3>2. ChangeOfAcme(c, "updateCredential", <<w>>) /\ lastId' = lastId
      BY <2>5, <3>1 DEF UpdateCredential
    <3> QED
      BY <1>0, <3>1, <3>2, NoneDrawn, AcmeWrite DEF OfCredentials
  <2>6. ASSUME NEW k, DeleteCredential(c, k) PROVE Accepted(c)
    <3>1. PICK w : w = Drop("credential", k)
      OBVIOUS
    <3>2. ChangeOfAcme(c, "deleteCredential", <<w>>) /\ lastId' = lastId
      BY <2>6, <3>1 DEF DeleteCredential
    <3> QED
      BY <1>0, <3>1, <3>2, NoneDrawn, AcmeWrite DEF OfCredentials
  <2> QED
    BY <1>7, <2>1, <2>2, <2>3, <2>4, <2>5, <2>6 DEF DomainRequest
<1>8. (\E body \in ServiceInputs : CreateService(c, "", body)) => Accepted(c)
  BY <1>2 DEF Nowhere
<1>9. (\E id \in DerivedIDs, on \in BOOLEAN : SetDerivedEnabled(c, id, on)) => Accepted(c)
  BY <1>3
<1> QED
  BY <1>1, <1>4, <1>5, <1>6, <1>7, <1>8, <1>9 DEF Sends

-----------------------------------------------------------------------------
(* Shapes                                                                  *)

(* The job of one request changes, the others stay. *)
LEMMA JobsStay ==
  ASSUME Shapes, NEW c \in Clients, NEW j, JobOK(j), job' = [job EXCEPT ![c] = j]
  PROVE  /\ job'[c] = j /\ \A d \in Clients \ {c} : job'[d] = job[d]
         /\ job' = [d \in Clients |-> job'[d]] /\ \A d \in Clients : JobOK(job'[d])
<1>1. job = [d \in Clients |-> job[d]] /\ \A d \in Clients : JobOK(job[d])
  BY DEF Shapes
<1>2. /\ job'[c] = j /\ \A d \in Clients \ {c} : job'[d] = job[d]
      /\ job' = [d \in Clients |-> job'[d]]
  BY <1>1
<1>3. ASSUME NEW d \in Clients PROVE JobOK(job'[d])
  <2>1. PICK i : i = job'[d]
    OBVIOUS
  <2>2. i = j \/ i = job[d]
    BY <1>2, <2>1
  <2>3. JobOK(i)
    BY <1>1, <2>2
  <2> QED
    BY <2>1, <2>3
<1> QED
  BY <1>2, <1>3

(* What a write makes of one table. *)
LEMMA AfterWrite ==
  ASSUME Shapes, NEW w, IsWrite(w), db' = Write(db, w), NEW t \in Tables
  PROVE  /\ \A k \in DOMAIN db'[t] :
              \/ Sets(w, t) /\ k = w.key /\ db'[t][k] = w.row
              \/ k \in DOMAIN db[t] /\ db'[t][k] = db[t][k] /\ w # Drop(t, k)
                   /\ (Sets(w, t) => k # w.key)
         /\ \A k \in DOMAIN db[t] : w # Drop(t, k) => k \in DOMAIN db'[t]
         /\ Sets(w, t) => w.key \in DOMAIN db'[t]
<1>1. db = [u \in Tables |-> db[u]]
  BY DEF Shapes
<1>2. PICK d : d = db'
  OBVIOUS
<1>3. /\ t # w.table => d[t] = db[t]
      /\ t = w.table /\ w.op = "drop" =>
           /\ DOMAIN d[t] = DOMAIN db[t] \ {w.key}
           /\ \A x \in DOMAIN db[t] \ {w.key} : d[t][x] = db[t][x]
      /\ t = w.table /\ w.op # "drop" =>
           /\ DOMAIN d[t] = DOMAIN db[t] \cup {w.key}
           /\ d[t][w.key] = w.row
           /\ \A x \in DOMAIN db[t] \ {w.key} : d[t][x] = db[t][x]
  BY <1>1, <1>2, WriteEffect
<1>4. \A k : Drop(t, k).op = "drop" /\ Drop(t, k).table = t /\ Drop(t, k).key = k
  BY DropIs
<1>5. CASE t # w.table
  BY <1>2, <1>3, <1>4, <1>5 DEF Sets
<1>6. CASE t = w.table /\ w.op = "drop"
  <2>1. w = Drop(t, w.key)
    BY <1>6, WriteIs
  <2>2. \A k \in DOMAIN db[t] : w # Drop(t, k) => k \in DOMAIN d[t]
    BY <1>3, <1>6, <2>1
  <2>3. \A k \in DOMAIN d[t] : k \in DOMAIN db[t] /\ d[t][k] = db[t][k] /\ w # Drop(t, k)
    BY <1>3, <1>4, <1>6
  <2> QED
    BY <1>2, <1>6, <2>2, <2>3 DEF Sets
<1>7. CASE t = w.table /\ w.op # "drop"
  <2>1. Sets(w, t) /\ \A k : w # Drop(t, k)
    BY <1>4, <1>7, WriteIs DEF Sets
  <2>2. ASSUME NEW k \in DOMAIN d[t]
        PROVE  \/ k = w.key /\ d[t][k] = w.row
               \/ k # w.key /\ k \in DOMAIN db[t] /\ d[t][k] = db[t][k]
    BY <1>3, <1>7
  <2>3. DOMAIN db[t] \subseteq DOMAIN d[t] /\ w.key \in DOMAIN d[t]
    BY <1>3, <1>7
  <2> QED
    BY <1>2, <2>1, <2>2, <2>3
<1> QED
  BY <1>5, <1>6, <1>7

(* A write that happens leaves tables of the same shapes. *)
LEMMA ShapesWritten ==
  ASSUME Shapes, NEW w, IsWrite(w), db' = Write(db, w)
  PROVE  /\ db' = [t \in Tables |-> db'[t]]
         /\ IsFiniteSet(Services') /\ \A s \in Services' : Whole(db'["service"][s])
<1>1. db = [t \in Tables |-> db[t]] /\ IsFiniteSet(Services)
      /\ \A s \in Services : Whole(db["service"][s])
  BY DEF Shapes
<1>2. PICK d : d = db'
  OBVIOUS
<1>3. d = [t \in Tables |-> d[t]]
  <2>1. "service" \in Tables /\ d = Write(db, w)
    BY <1>2 DEF Tables
  <2> QED
    BY <1>1, <2>1, WriteEffect
<1>4. \A k \in DOMAIN d["service"] :
              \/ Sets(w, "service") /\ k = w.key /\ d["service"][k] = w.row
              \/ k \in DOMAIN db["service"] /\ d["service"][k] = db["service"][k]
  <2>1. "service" \in Tables
    BY DEF Tables
  <2> QED
    BY <1>2, <2>1, AfterWrite
<1>5. \A k \in DOMAIN d["service"] : Whole(d["service"][k])
  <2>1. Sets(w, "service") => Whole(w.row)
    BY WriteIs DEF Sets
  <2> QED
    BY <1>1, <1>4, <2>1 DEF Services
<1>6. IsFiniteSet(DOMAIN d["service"])
  <2>1. IsFiniteSet(Services \cup {w.key})
    BY <1>1, FS_AddElement
  <2>2. DOMAIN d["service"] \subseteq Services \cup {w.key}
    BY <1>4 DEF Services
  <2> QED
    BY <2>1, <2>2, FS_Subset
<1> QED
  BY <1>2, <1>3, <1>5, <1>6 DEF Services

(* Every step keeps the shapes of tables and jobs. *)
LEMMA ShapesKept ==
  ASSUME Inv, MCNext
  PROVE  Shapes'
<1>0. Shapes /\ Len(Ids) \in Nat
  BY GatewayAssumption DEF Inv
<1>1. PICK r : r = run
  OBVIOUS
<1>2. r = [at |-> r.at, services |-> r.services, config |-> r.config]
      /\ r.at \in {"idle", "services", "load"}
  BY <1>0, <1>1 DEF Shapes
<1>3. CASE \E c \in Clients : Sends(c)
  <2>1. PICK c \in Clients : Accepted(c) \/ Restart(c)
    BY <1>3, SendsAccepted
  <2>2. CASE Accepted(c)
    <3>1. PICK j, n : Sent(c, j, n)
      BY <2>2 DEF Accepted
    <3>2. job' = [d \in Clients |-> job'[d]] /\ \A d \in Clients : JobOK(job'[d])
      BY <1>0, <3>1, JobsStay DEF Sent
    <3>3. lastId' \in 0..Len(Ids)
      BY <1>0, <3>1 DEF Sent, Shapes
    <3> QED
      BY <1>0, <3>1, <3>2, <3>3 DEF Sent, Shapes, Services
  <2>3. CASE Restart(c)
    BY <1>0, <2>3 DEF Restart, Shapes, Services
  <2> QED
    BY <2>1, <2>2, <2>3
<1>4. ASSUME NEW c \in Clients, Step(c) PROVE Shapes'
  <2>1. PICK i, w : /\ JobOK(i) /\ job' = [job EXCEPT ![c] = i]
                    /\ IsWrite(w) /\ db' = Write(db, w)
                    /\ UNCHANGED <<lastId, containers, run, loaded, result>>
    BY <1>0, <1>4, StepEffect
  <2>2. job' = [d \in Clients |-> job'[d]] /\ \A d \in Clients : JobOK(job'[d])
    BY <1>0, <2>1, JobsStay
  <2>3. /\ db' = [t \in Tables |-> db'[t]]
        /\ IsFiniteSet(Services') /\ \A s \in Services' : Whole(db'["service"][s])
    BY <1>0, <2>1, ShapesWritten
  <2> QED
    BY <1>0, <2>1, <2>2, <2>3 DEF Shapes
<1>5. ASSUME NEW c \in Clients, WriteFails(c) PROVE Shapes'
  <2>1. PICK i : /\ JobOK(i) /\ job' = [job EXCEPT ![c] = i]
                 /\ UNCHANGED <<db, lastId, containers, wanted, run, loaded, result>>
    BY <1>0, <1>5, FailEffect
  <2>2. job' = [d \in Clients |-> job'[d]] /\ \A d \in Clients : JobOK(job'[d])
    BY <1>0, <2>1, JobsStay
  <2> QED
    BY <1>0, <2>1, <2>2 DEF Shapes, Services
<1>6. ASSUME NEW daemon, BeginRun(daemon) PROVE Shapes'
  <2>1. run' = [at |-> "services", services |-> ListAllServices(db, daemon), config |-> <<>>]
    BY <1>6 DEF BeginRun, NoRun
  <2> QED
    BY <1>0, <1>6, <2>1 DEF BeginRun, Shapes, Services
<1>7. CASE ReadFacts
  <2>1. run' = [at |-> "load", services |-> <<>>, config |-> Configuration(run.services, db)]
    BY <1>7 DEF ReadFacts, NoRun
  <2> QED
    BY <1>0, <1>7, <2>1 DEF ReadFacts, Shapes, Services
<1>8. CASE Load \/ LoadFails
  <2>1. run' = [at |-> "idle", services |-> <<>>, config |-> <<>>]
    BY <1>8 DEF Load, LoadFails, NoRun
  <2> QED
    BY <1>0, <1>8, <2>1 DEF Load, LoadFails, Shapes, Services
<1>9. CASE Tick
  BY <1>0, <1>9 DEF Tick, Shapes, Services
<1>10. CASE DaemonChanges
  <2>1. Stored \notin DOMAIN containers'
    BY <1>10, GatewayAssumption DEF DaemonChanges
  <2> QED
    BY <1>0, <1>10, <2>1 DEF DaemonChanges, Shapes, Services
<1>11. CASE Crash
  <2>1. run' = [at |-> "idle", services |-> <<>>, config |-> <<>>]
    BY <1>11 DEF Crash, NoRun
  <2>2. JobOK(NoJob)
    BY DEF JobOK
  <2>3. job' = [c \in Clients |-> NoJob]
    BY <1>11 DEF Crash
  <2>4. job' = [d \in Clients |-> job'[d]] /\ \A d \in Clients : JobOK(job'[d])
    BY <2>2, <2>3
  <2>5. db' = db /\ lastId' = lastId /\ containers' = containers
    BY <1>11 DEF Crash
  <2>6. Services' = Services
    BY <2>5 DEF Services
  <2>7. db = [t \in Tables |-> db[t]] /\ lastId \in 0..Len(Ids)
    BY <1>0 DEF Shapes
  <2>8. IsFiniteSet(Services) /\ \A s \in Services : Whole(db["service"][s])
    BY <1>0 DEF Shapes
  <2>9. Stored \notin DOMAIN containers
    BY <1>0 DEF Shapes
  <2>10. /\ run' = [at |-> run'.at, services |-> run'.services, config |-> run'.config]
         /\ run'.at = "idle"
    BY <2>1
  <2> QED
    BY <2>4, <2>5, <2>6, <2>7, <2>8, <2>9, <2>10 DEF Shapes
<1>12. Moves
  BY DEF MCNext
<1> QED
  BY <1>3, <1>4, <1>5, <1>6, <1>7, <1>8, <1>9, <1>10, <1>11, <1>12
  DEF Moves, Reconcile, ReadServices, ReadWithoutDocker

-----------------------------------------------------------------------------
(* The facts are brought to Caddy                                          *)

(* An idle client has no request. *)
LEMMA IdleIs ==
  ASSUME Shapes, NEW c \in Clients, Idle(c)
  PROVE  job[c] = NoJob /\ ~job[c].triggers
<1>1. JobOK(job[c]) /\ job[c].todo = <<>>
  BY DEF Shapes, Idle
<1>2. job[c] = NoJob
  BY <1>1 DEF JobOK
<1> QED
  BY <1>2 DEF NoJob

(* Whoever asks for no run after its last write is silent. *)
LEMMA SilentStep ==
  ASSUME Shapes, NEW c \in Clients, Step(c), ~Silent
  PROVE  job[c].triggers
<1>1. JobOK(job[c]) /\ job[c].todo # <<>>
  BY DEF Shapes, Step, Idle
<1>2. ~job[c].triggers => job[c].req \in Silents
  BY <1>1, Working
<1>3. /\ job[c].req \notin {"updateApp", "refusedApp", "seedPorts", "createCredential",
                            "updateCredential", "deleteCredential"}
      /\ ~(job[c].req = "createApp" /\ ~job[c].triggers)
  BY DEF Silent
<1> QED
  BY <1>2, <1>3 DEF Silents, OfCredentials

(* Every step keeps the intent that is owed while the configuration is behind. *)
LEMMA OwedKept ==
  ASSUME Inv, MCNext
  PROVE  Owed'
<1>0. Shapes /\ Owed /\ Moves /\ unseen' = (Silent \/ (unseen /\ ~ReadServices))
  BY DEF Inv, MCNext
<1>1. CASE ReadServices
  <2>1. run'.at = "services" /\ run'.services = ListAllServices(db, containers)
        /\ UNCHANGED <<db, containers>>
    BY <1>1 DEF ReadServices, BeginRun, NoRun
  <2> QED
    BY <2>1 DEF Owed
<1>2. ASSUME ~ReadServices, ~unseen' PROVE Owed'
  <2>0. ~unseen /\ ~Silent
    BY <1>0, <1>2
  <2>1. \/ wanted
        \/ \E c \in Clients : job[c].triggers
        \/ run.at = "services" /\ run.services = ListAllServices(db, containers)
        \/ run.at = "load" /\ run.config = Current
        \/ run.at = "idle" /\ (result = "ok" => loaded = Current)
    BY <1>0, <2>0 DEF Owed
  <2>2. CASE \E c \in Clients : Sends(c)
    <3>1. PICK c \in Clients : Accepted(c) \/ Restart(c)
      BY <1>0, <2>2, SendsAccepted
    <3>2. CASE Accepted(c)
      <4>1. PICK j, n : Sent(c, j, n)
        BY <3>2 DEF Accepted
      <4>2. \A d \in Clients \ {c} : job'[d] = job[d]
        BY <1>0, <4>1, JobsStay DEF Sent
      <4>3. ~job[c].triggers
        BY <1>0, <4>1, IdleIs DEF Sent
      <4>4. (\E d \in Clients : job[d].triggers) => \E d \in Clients : job'[d].triggers
        BY <4>2, <4>3
      <4>5. UNCHANGED <<db, containers, wanted, run, loaded, result>>
        BY <4>1 DEF Sent
      <4>6. Current' = Current /\ ListAllServices(db, containers)' = ListAllServices(db, containers)
        BY <4>5 DEF Current
      <4> QED
        BY <2>1, <4>4, <4>5, <4>6 DEF Owed
    <3>3. CASE Restart(c)
      BY <3>3 DEF Restart, Owed
    <3> QED
      BY <3>1, <3>2, <3>3
  <2>3. ASSUME NEW c \in Clients, Step(c) PROVE Owed'
    <3>1. PICK i, w : /\ JobOK(i) /\ job' = [job EXCEPT ![c] = i]
                      /\ \/ wanted' = (wanted \/ job[c].triggers)
                         \/ i.triggers = job[c].triggers
      BY <1>0, <2>3, StepEffect
    <3>2. job[c].triggers
      BY <1>0, <2>0, <2>3, SilentStep
    <3>3. job'[c] = i
      BY <1>0, <3>1, JobsStay
    <3>4. wanted' \/ job'[c].triggers
      BY <3>1, <3>2, <3>3
    <3> QED
      BY <3>4 DEF Owed
  <2>4. ASSUME NEW c \in Clients, WriteFails(c) PROVE FALSE
    BY <2>0, <2>4 DEF Silent
  <2>5. CASE ReadWithoutDocker \/ DaemonChanges \/ Crash
    BY <2>0, <2>5 DEF Silent
  <2>6. CASE ReadFacts
    <3>1. /\ run.at = "services" /\ UNCHANGED <<db, containers, job, wanted>>
          /\ run'.at = "load" /\ run'.config = Configuration(run.services, db)
      BY <2>6 DEF ReadFacts, NoRun
    <3>2. CASE wanted \/ \E c \in Clients : job[c].triggers
      BY <3>1, <3>2 DEF Owed
    <3>3. CASE run.services = ListAllServices(db, containers)
      <4>1. run'.config = Current
        BY <3>1, <3>3 DEF Current
      <4>2. Current' = Current
        BY <3>1 DEF Current
      <4> QED
        BY <3>1, <4>1, <4>2 DEF Owed
    <3> QED
      BY <2>1, <3>1, <3>2, <3>3
  <2>7. CASE Load
    <3>1. /\ run.at = "load" /\ UNCHANGED <<db, containers, job, wanted>> /\ run'.at = "idle"
          /\ result' = "failed" \/ loaded' = run.config
      BY <2>7 DEF Load, NoRun
    <3>2. CASE wanted \/ \E c \in Clients : job[c].triggers
      BY <3>1, <3>2 DEF Owed
    <3>3. CASE run.config = Current
      <4>1. Current' = Current
        BY <3>1 DEF Current
      <4> QED
        BY <3>1, <3>3, <4>1 DEF Owed
    <3> QED
      BY <2>1, <3>1, <3>2, <3>3
  <2>8. CASE LoadFails
    <3>1. run'.at = "idle" /\ result' = "failed"
      BY <2>8 DEF LoadFails, NoRun
    <3> QED
      BY <3>1 DEF Owed
  <2>9. CASE Tick
    BY <2>9 DEF Tick, Owed
  <2> QED
    BY <1>0, <1>2, <2>2, <2>3, <2>4, <2>5, <2>6, <2>7, <2>8, <2>9 DEF Moves, Reconcile
<1>3. unseen' => Owed'
  BY DEF Owed
<1> QED
  BY <1>1, <1>2, <1>3

-----------------------------------------------------------------------------
(* While requests come one at a time                                       *)

(* Nothing is answered about a service unless a request is done. *)
LEMMA Unanswered ==
  ASSUME answered' = Answers, \A c \in Clients : Idle(c) \/ job'[c] # NoJob
  PROVE  answered' = answered
<1>1. {c \in Clients : ~Idle(c) /\ job'[c] = NoJob} = {}
  OBVIOUS
<1>2. ~ \E c \in {c \in {c \in Clients : ~Idle(c) /\ job'[c] = NoJob} :
                    job[c].req \in {"start", "stop"} /\ job[c].todo[1].table = "service"} : Step(c)
  BY <1>1
<1> QED
  BY <1>2 DEF Answers

(* The answer of a start or stop is that of its one write. *)
LEMMA Answered ==
  ASSUME Shapes, Alone, NEW c \in Clients, Step(c), answered' = Answers,
         \A d \in Clients \ {c} : job'[d] = job[d]
  PROVE  IF job'[c] = NoJob /\ job[c].req \in {"start", "stop"}
            /\ job[c].todo[1].table = "service"
         THEN answered' = With(answered, job[c].todo[1].key, job[c].req = "start")
         ELSE answered' = answered
<1>1. ~Idle(c)
  BY DEF Step
<1>2. \A d \in Clients \ {c} : Idle(d)
  BY <1>1 DEF Alone
<1>3. PICK done : done = {d \in Clients : ~Idle(d) /\ job'[d] = NoJob}
  OBVIOUS
<1>4. PICK told : told = {d \in done : job[d].req \in {"start", "stop"}
                                       /\ job[d].todo[1].table = "service"}
  OBVIOUS
<1>5. answered' = IF \E d \in told : Step(d)
                  THEN With(answered, job[CHOOSE d \in told : TRUE].todo[1].key,
                            job[CHOOSE d \in told : TRUE].req = "start")
                  ELSE answered
  BY <1>3, <1>4 DEF Answers
<1>6. told \subseteq {c}
  BY <1>2, <1>3, <1>4
<1>7. CASE c \in told
  <2>1. (CHOOSE d \in told : TRUE) = c
    BY <1>6, <1>7
  <2>2. PICK e : e = (CHOOSE d \in told : TRUE)
    OBVIOUS
  <2>3. answered' = With(answered, job[e].todo[1].key, job[e].req = "start")
    BY <1>5, <1>7, <2>2
  <2>4. job'[c] = NoJob /\ job[c].req \in {"start", "stop"} /\ job[c].todo[1].table = "service"
    BY <1>3, <1>4, <1>7
  <2> QED
    BY <2>1, <2>2, <2>3, <2>4
<1>8. CASE c \notin told
  <2>1. told = {}
    BY <1>6, <1>8
  <2>2. answered' = answered
    BY <1>5, <2>1
  <2>3. ~(job'[c] = NoJob /\ job[c].req \in {"start", "stop"}
          /\ job[c].todo[1].table = "service")
    BY <1>1, <1>3, <1>4, <1>8
  <2> QED
    BY <2>2, <2>3
<1> QED
  BY <1>7, <1>8

(* What was in order stays so while nothing is written or sent. *)
LEMMA StillOrderly ==
  ASSUME Orderly, UNCHANGED <<db, lastId, job>>, answered' = answered, calm' => calm
  PROVE  Orderly'
<1>1. Alone => Alone'
  BY DEF Alone, Idle
<1>2. Pending' = Pending
  BY DEF Pending
<1>3. Services' = Services /\ Apps' = Apps
  BY DEF Services, Apps
<1>4. Grouped(Pending) => Grouped(Pending)'
  BY <1>2, <1>3 DEF Grouped, Placed
<1>5. FragmentsHeld(Pending) => FragmentsHeld(Pending)'
  BY <1>2, <1>3 DEF FragmentsHeld, Held
<1>6. Fresh(Pending) => Fresh(Pending)'
  BY <1>2, <1>3 DEF Fresh, Drawn
<1>7. StopsKept => StopsKept'
  BY <1>3 DEF StopsKept, Agrees
<1>8. PortsApart(Pending) => PortsApart(Pending)'
  BY <1>2 DEF PortsApart
<1>9. Alike(Pending) => Alike(Pending)'
  BY <1>2 DEF Alike
<1> QED
  BY <1>1, <1>4, <1>5, <1>6, <1>7, <1>8, <1>9 DEF Orderly

(* A request that is accepted. *)
LEMMA SentOrderly ==
  ASSUME Inv, NEW c \in Clients, NEW j, NEW n, Sent(c, j, n),
         calm' = (calm /\ ~Trouble), answered' = Answers
  PROVE  Orderly'
<1>1. SUFFICES ASSUME calm' PROVE Orderly'
  BY DEF Orderly
<1>2. Shapes /\ Orderly /\ calm /\ ~Trouble
  BY <1>1 DEF Inv
<1>3. /\ Idle(c) /\ JobOK(j) /\ j # NoJob /\ job' = [job EXCEPT ![c] = j]
      /\ n \in Nat /\ lastId' = lastId + n /\ db' = db
  BY DEF Sent
<1>4. job'[c] = j /\ \A d \in Clients \ {c} : job'[d] = job[d]
  BY <1>2, <1>3, JobsStay
<1>5. /\ j = [req |-> j.req, todo |-> j.todo, undo |-> j.undo, triggers |-> j.triggers]
      /\ Writes(j.todo) /\ j.req # "none"
  BY <1>3 DEF JobOK
<1>6. j.req # "refusedApp"
  BY <1>2, <1>4 DEF Trouble
<1>7. \A d \in Clients : Idle(d)
  <2>1. ASSUME NEW d \in Clients, ~Idle(d) PROVE FALSE
    <3>1. c # d /\ job'[c].req # "none"
      BY <1>3, <1>4, <1>5, <2>1
    <3>2. Overlap
      BY <1>3, <2>1, <3>1 DEF Overlap
    <3> QED
      BY <1>2, <3>2 DEF Trouble
  <2> QED
    BY <2>1
<1>8. PICK W : W = ToSet(j.todo)
  OBVIOUS
<1>9. Suits(j.req, W, n)
  BY <1>2, <1>6, <1>7, <1>8 DEF Sent, Clear
<1>10. Pending = {} /\ Pending' = W
  <2>1. Pending = {}
    BY <1>7, NothingPending
  <2>2. \A d \in Clients \ {c} : ToSet(job'[d].todo) = {}
    BY <1>4, <1>7, None DEF Idle
  <2>3. Pending' = UNION {ToSet(job'[d].todo) : d \in Clients}
    BY DEF Pending
  <2> QED
    BY <1>4, <1>8, <2>1, <2>2, <2>3
<1>11. /\ \A s \in Services : db["service"][s].app = Nowhere \/ db["service"][s].app \in Apps
       /\ Services \subseteq Drawn(lastId) /\ DOMAIN answered \subseteq Drawn(lastId)
       /\ \A s \in Services \cap DOMAIN answered : db["service"][s].enabled = answered[s]
  BY <1>2, <1>7, ClearMeans DEF Clear
<1>12. answered' = answered
  BY <1>3, <1>4, <1>7, Unanswered
<1>13. Services' = Services /\ Apps' = Apps /\ db' = db
  BY <1>3 DEF Services, Apps
<1>14. \A w \in W : w.op = "put" \/ w.op = "drop"
  BY <1>5, <1>8, WriteIs DEF Writes
<1>15. \A v, w \in W : v.op = w.op
  BY <1>9 DEF Suits, Alike
<1>16. Alone'
  BY <1>4, <1>7 DEF Alone, Idle
<1>17. Alike(Pending)'
  BY <1>10, <1>15 DEF Alike
<1>18. Grouped(Pending)'
  <2>1. ASSUME NEW s \in Services
        PROVE  Placed(db["service"][s].app, W) \/ Drop("service", s) \in W
    <3>1. CASE Drop("app", db["service"][s].app) \in W
      BY <1>9, <2>1, <3>1 DEF Suits, ServicesOf
    <3>2. CASE Drop("app", db["service"][s].app) \notin W
      BY <1>11, <2>1, <3>2 DEF Placed
    <3> QED
      BY <3>1, <3>2
  <2>2. ASSUME NEW w \in W, Sets(w, "service") PROVE Placed(w.row.app, W)
    <3>1. \A a : Drop("app", a) \notin W
      <4>1. ASSUME NEW a, Drop("app", a) \in W PROVE FALSE
        <5>1. Drop("app", a).op = "drop"
          BY DropIs
        <5>2. Drop("app", a).op = w.op /\ w.op = "put"
          BY <1>15, <2>2, <4>1 DEF Sets
        <5> QED
          BY <5>1, <5>2
      <4> QED
        BY <4>1
    <3>2. CASE j.req = "updateService"
      <4>1. PICK i \in DOMAIN j.todo : w = j.todo[i]
        BY <1>8, <2>2 DEF ToSet
      <4>2. job'[c].todo[i] = w /\ i \in DOMAIN job'[c].todo /\ job'[c].req = "updateService"
        BY <1>4, <3>2, <4>1
      <4>3. ~Unknown
        BY <1>2 DEF Trouble
      <4>4. w.row.app \in Apps \cup {Nowhere}
        BY <2>2, <4>2, <4>3 DEF Unknown, Sets, Nowhere
      <4> QED
        BY <3>1, <4>4 DEF Placed
    <3>3. CASE j.req # "updateService"
      BY <1>9, <2>2, <3>1, <3>3 DEF Suits, Placed
    <3> QED
      BY <3>2, <3>3
  <2> QED
    BY <1>10, <1>13, <2>1, <2>2 DEF Grouped, Placed
<1>19. FragmentsHeld(Pending)'
  <2>0. FragmentsHeld({})
    BY <1>2, <1>10 DEF Orderly
  <2>1. ASSUME NEW s \in Services PROVE Held(db["service"][s].frags, W)
    <3>1. \A f \in db["service"][s].frags : Drop("fragment", f) \notin W
      BY <1>9, <2>1 DEF Suits
    <3> QED
      BY <2>0, <2>1, <3>1 DEF FragmentsHeld, Held
  <2>2. ASSUME NEW w \in W, Sets(w, "service") PROVE Held(w.row.frags, W)
    <3>1. PICK i \in DOMAIN j.todo : w = j.todo[i]
      BY <1>8, <2>2 DEF ToSet
    <3>2. w.row.frags \subseteq DOMAIN Fragments(db)
      <4>1. ~Unknown
        BY <1>2 DEF Trouble
      <4>2. job'[c].todo[i] = w /\ i \in DOMAIN job'[c].todo
        BY <1>4, <3>1
      <4> QED
        BY <2>2, <4>1, <4>2 DEF Unknown, Sets
    <3>3. w.row.frags \subseteq Builtins \cup DOMAIN db["fragment"]
      BY <3>2 DEF Fragments, Over, Builtins
    <3>4. \A f : Drop("fragment", f) \notin W
      <4>1. ASSUME NEW f, Drop("fragment", f) \in W PROVE FALSE
        <5>1. Drop("fragment", f).op = "drop"
          BY DropIs
        <5>2. Drop("fragment", f).op = w.op /\ w.op = "put"
          BY <1>15, <2>2, <4>1 DEF Sets
        <5> QED
          BY <5>1, <5>2
      <4> QED
        BY <4>1
    <3> QED
      BY <3>3, <3>4 DEF Held
  <2> QED
    BY <1>10, <1>13, <2>1, <2>2 DEF FragmentsHeld, Held
<1>20. Fresh(Pending)'
  <2>1. lastId \in Nat
    BY <1>2 DEF Shapes
  <2>2. Drawn(lastId) \subseteq Drawn(lastId')
    <3>1. \A i \in 1..lastId : i \in 1..lastId'
      BY <1>3, <2>1
    <3> QED
      BY <3>1 DEF Drawn
  <2>3. \A w \in W : Sets(w, "service") => w.key \in Drawn(lastId')
    BY <1>3, <1>9 DEF Suits
  <2> QED
    BY <1>10, <1>11, <1>12, <1>13, <2>2, <2>3 DEF Fresh
<1>21. StopsKept'
  <2>1. Agrees(j.req, W)
    BY <1>9 DEF Suits
  <2>2. ASSUME NEW d \in Clients PROVE Agrees(job[d].req, ToSet(job[d].todo))'
    <3>1. CASE d = c
      BY <1>4, <1>8, <1>12, <2>1, <3>1 DEF Agrees
    <3>2. CASE d # c
      <4>1. ToSet(job'[d].todo) = {}
        BY <1>4, <1>7, <3>2, None DEF Idle
      <4> QED
        BY <4>1 DEF Agrees
    <3> QED
      BY <3>1, <3>2
  <2> QED
    BY <1>11, <1>12, <1>13, <2>2 DEF StopsKept
<1>22. StartDisjoint => PortsApart(Pending)'
  <2>1. StartDisjoint => PortsApart({})
    BY <1>2, <1>10 DEF Orderly
  <2> QED
    BY <1>9, <1>10, <1>13, <2>1 DEF PortsApart, Suits
<1> QED
  BY <1>16, <1>17, <1>18, <1>19, <1>20, <1>21, <1>22 DEF Orderly, StartDisjoint

(* A write that is made. *)
LEMMA StepOrderly ==
  ASSUME Inv, NEW c \in Clients, Step(c), calm' => calm, answered' = Answers
  PROVE  Orderly'
<1>1. SUFFICES ASSUME calm' PROVE Orderly'
  BY DEF Orderly
<1>2. Shapes /\ Orderly /\ calm
  BY <1>1 DEF Inv
<1>3. /\ Alone /\ Alike(Pending) /\ Grouped(Pending) /\ FragmentsHeld(Pending)
      /\ Fresh(Pending) /\ StopsKept /\ (StartDisjoint => PortsApart(Pending))
  BY <1>2 DEF Orderly
<1>4. PICK i, w :
        /\ JobOK(i) /\ job' = [job EXCEPT ![c] = i]
        /\ w = job[c].todo[1] /\ w \in ToSet(job[c].todo) /\ IsWrite(w)
        /\ db' = Write(db, w)
        /\ ToSet(i.todo) \subseteq ToSet(job[c].todo)
        /\ ToSet(job[c].todo) \subseteq ToSet(i.todo) \cup {w}
        /\ \/ Len(job[c].todo) = 1 /\ i = NoJob
           \/ /\ Len(job[c].todo) # 1 /\ i # NoJob /\ i.req = job[c].req
              /\ i.req \notin {"start", "stop"}
        /\ lastId' = lastId
  BY <1>2, StepEffect
<1>5. job'[c] = i /\ \A d \in Clients \ {c} : job'[d] = job[d]
  BY <1>2, <1>4, JobsStay
<1>6. PICK W, V : W = ToSet(job[c].todo) /\ V = ToSet(i.todo)
  OBVIOUS
<1>7. \A d \in Clients \ {c} : Idle(d) /\ ToSet(job[d].todo) = {} /\ ToSet(job'[d].todo) = {}
  <2>1. ~Idle(c)
    BY DEF Step
  <2>2. \A d \in Clients \ {c} : Idle(d)
    BY <1>3, <2>1 DEF Alone
  <2> QED
    BY <1>5, <2>2, None DEF Idle
<1>8. Pending = W /\ Pending' = V
  <2>1. Pending' = UNION {ToSet(job'[d].todo) : d \in Clients}
    BY DEF Pending
  <2>2. Pending = W
    BY <1>6, <1>7 DEF Pending
  <2> QED
    BY <1>5, <1>6, <1>7, <2>1, <2>2
<1>9. V \subseteq W /\ W \subseteq V \cup {w} /\ w \in W
  BY <1>4, <1>6
<1>10. \A x, y \in W : x.op = y.op
  BY <1>3, <1>8 DEF Alike
<1>11. ASSUME NEW t \in Tables
       PROVE  /\ \A k \in DOMAIN db'[t] :
                   \/ Sets(w, t) /\ k = w.key /\ db'[t][k] = w.row
                   \/ k \in DOMAIN db[t] /\ db'[t][k] = db[t][k] /\ w # Drop(t, k)
                        /\ (Sets(w, t) => k # w.key)
              /\ \A k \in DOMAIN db[t] : w # Drop(t, k) => k \in DOMAIN db'[t]
              /\ Sets(w, t) => w.key \in DOMAIN db'[t]
  BY <1>2, <1>4, AfterWrite
<1>12. "service" \in Tables /\ "app" \in Tables /\ "fragment" \in Tables /\ "port" \in Tables
  BY DEF Tables
<1>13. PICK d : d = db'
  OBVIOUS
<1>14. ASSUME NEW s \in DOMAIN d["service"]
       PROVE  \/ Sets(w, "service") /\ s = w.key /\ d["service"][s] = w.row
              \/ s \in Services /\ d["service"][s] = db["service"][s] /\ w # Drop("service", s)
                   /\ (Sets(w, "service") => s # w.key)
  BY <1>11, <1>12, <1>13 DEF Services
<1>15. \A x \in W : Sets(x, "service") => \A t, k : Drop(t, k) \notin W
  <2>1. ASSUME NEW x \in W, Sets(x, "service"), NEW t, NEW k, Drop(t, k) \in W PROVE FALSE
    <3>1. Drop(t, k).op = "drop"
      BY DropIs
    <3>2. x.op = "put" /\ x.op = Drop(t, k).op
      BY <1>10, <2>1 DEF Sets
    <3> QED
      BY <3>1, <3>2
  <2> QED
    BY <2>1
<1>16. Alone'
  BY <1>5, <1>7 DEF Alone, Idle
<1>17. Alike(Pending)'
  BY <1>8, <1>9, <1>10 DEF Alike
<1>18. ASSUME NEW a, Placed(a, W)
       PROVE  \/ a = Nowhere
              \/ a \in DOMAIN d["app"] /\ Drop("app", a) \notin V
              \/ \E x \in V : Sets(x, "app") /\ x.key = a
  <2>1. CASE a \in Apps /\ Drop("app", a) \notin W
    <3>1. w # Drop("app", a)
      BY <1>9, <2>1
    <3>2. a \in DOMAIN d["app"]
      BY <1>11, <1>12, <1>13, <2>1, <3>1 DEF Apps
    <3> QED
      BY <1>9, <2>1, <3>2
  <2>2. ASSUME NEW x \in W, Sets(x, "app"), x.key = a, x \notin V
        PROVE  a \in DOMAIN d["app"] /\ Drop("app", a) \notin V
    <3>1. x = w
      BY <1>9, <2>2
    <3>2. a \in DOMAIN d["app"]
      BY <1>11, <1>12, <1>13, <2>2, <3>1
    <3>3. Drop("app", a) \notin W
      <4>1. Drop("app", a).op = "drop"
        BY DropIs
      <4>2. ASSUME Drop("app", a) \in W PROVE FALSE
        <5>1. x.op = "put" /\ x.op = Drop("app", a).op
          BY <1>10, <2>2, <4>2 DEF Sets
        <5> QED
          BY <4>1, <5>1
      <4> QED
        BY <4>2
    <3> QED
      BY <1>9, <3>2, <3>3
  <2> QED
    BY <1>18, <2>1, <2>2 DEF Placed
<1>19. Grouped(Pending)'
  <2>1. ASSUME NEW s \in DOMAIN d["service"]
        PROVE  \/ Drop("service", s) \in V
               \/ Placed(d["service"][s].app, W)
    <3>1. CASE Sets(w, "service") /\ s = w.key /\ d["service"][s] = w.row
      BY <1>3, <1>8, <1>9, <3>1 DEF Grouped
    <3>2. CASE s \in Services /\ d["service"][s] = db["service"][s] /\ w # Drop("service", s)
      <4>1. Placed(db["service"][s].app, W) \/ Drop("service", s) \in W
        BY <1>3, <1>8, <3>2 DEF Grouped
      <4> QED
        BY <1>9, <3>2, <4>1
    <3> QED
      BY <1>14, <2>1, <3>1, <3>2
  <2>2. \A x \in V : Sets(x, "service") => Placed(x.row.app, W)
    BY <1>3, <1>8, <1>9 DEF Grouped
  <2>3. \A a : Placed(a, W) => Placed(a, V)'
    BY <1>13, <1>18 DEF Placed, Apps
  <2> QED
    BY <1>8, <1>13, <2>1, <2>2, <2>3 DEF Grouped, Services
<1>20. \A fs : Held(fs, W) => Held(fs, V)'
  <2>1. ASSUME NEW f \in DOMAIN db["fragment"], Drop("fragment", f) \notin W
        PROVE  f \in DOMAIN d["fragment"] /\ Drop("fragment", f) \notin V
    BY <1>9, <1>11, <1>12, <1>13, <2>1
  <2> QED
    BY <1>13, <2>1 DEF Held
<1>21. FragmentsHeld(Pending)'
  <2>1. ASSUME NEW s \in DOMAIN d["service"] PROVE Held(d["service"][s].frags, W)
    BY <1>3, <1>8, <1>9, <1>14 DEF FragmentsHeld
  <2>2. \A x \in V : Sets(x, "service") => Held(x.row.frags, W)
    BY <1>3, <1>8, <1>9 DEF FragmentsHeld
  <2> QED
    BY <1>8, <1>13, <1>20, <2>1, <2>2 DEF FragmentsHeld, Services
<1>22. IF i = NoJob /\ job[c].req \in {"start", "stop"} /\ w.table = "service"
       THEN answered' = With(answered, w.key, job[c].req = "start")
       ELSE answered' = answered
  BY <1>2, <1>3, <1>4, <1>5, Answered
<1>23. /\ JobOK(job[c]) /\ job[c].todo # <<>>
       /\ job[c].req \in {"start", "stop"} =>
            /\ Len(job[c].todo) = 1 /\ i = NoJob
            /\ (w.table = "service" => Sets(w, "service"))
  <2>1. JobOK(job[c]) /\ job[c].todo # <<>>
    BY <1>2 DEF Shapes, Step, Idle
  <2>2. job[c].req \in {"start", "stop"} =>
          Len(job[c].todo) = 1 /\ \A x \in ToSet(job[c].todo) : x.table = "service" => x.op = "put"
    BY <2>1, Working
  <2> QED
    BY <1>4, <2>1, <2>2 DEF Sets
<1>24. PICK told : told = (job[c].req \in {"start", "stop"} /\ w.table = "service")
  OBVIOUS
<1>25. /\ told => /\ answered' = With(answered, w.key, job[c].req = "start")
                  /\ Sets(w, "service") /\ i = NoJob
       /\ ~told => answered' = answered
  BY <1>22, <1>23, <1>24
<1>26. PICK n : n = answered'
  OBVIOUS
<1>27. /\ told => /\ DOMAIN n = DOMAIN answered \cup {w.key} /\ n[w.key] = (job[c].req = "start")
                  /\ \A k \in DOMAIN answered \ {w.key} : n[k] = answered[k]
       /\ ~told => n = answered
  BY <1>25, <1>26 DEF With
<1>28. Fresh(Pending)'
  <2>1. \A x \in W : Sets(x, "service") => x.key \in Drawn(lastId)
    BY <1>3, <1>8 DEF Fresh
  <2>2. DOMAIN d["service"] \subseteq Drawn(lastId)
    BY <1>3, <1>9, <1>14, <2>1 DEF Fresh
  <2>3. DOMAIN n \subseteq Drawn(lastId)
    BY <1>3, <1>9, <1>25, <1>27, <2>1 DEF Fresh
  <2> QED
    BY <1>4, <1>8, <1>9, <1>13, <1>26, <2>1, <2>2, <2>3 DEF Fresh, Services, Drawn
<1>29. StopsKept'
  <2>0. Agrees(job[c].req, W)
    BY <1>3, <1>6 DEF StopsKept
  <2>1. ASSUME NEW s \in DOMAIN d["service"], s \in DOMAIN n
        PROVE  d["service"][s].enabled = n[s]
    <3>1. CASE Sets(w, "service") /\ s = w.key /\ d["service"][s] = w.row
      <4>1. IF job[c].req \in {"start", "stop"} THEN w.row.enabled = (job[c].req = "start")
            ELSE w.key \in DOMAIN answered => w.row.enabled = answered[w.key]
        BY <1>9, <2>0, <3>1 DEF Agrees
      <4>2. CASE told
        BY <1>24, <1>27, <3>1, <4>1, <4>2
      <4>3. CASE ~told
        BY <1>24, <1>27, <2>1, <3>1, <4>1, <4>3 DEF Sets
      <4> QED
        BY <4>2, <4>3
    <3>2. CASE /\ s \in Services /\ d["service"][s] = db["service"][s]
               /\ (Sets(w, "service") => s # w.key)
      <4>1. s \in DOMAIN answered /\ n[s] = answered[s]
        BY <1>25, <1>27, <2>1, <3>2
      <4> QED
        BY <1>3, <3>2, <4>1 DEF StopsKept
    <3> QED
      BY <1>14, <3>1, <3>2
  <2>2. ASSUME NEW e \in Clients PROVE Agrees(job[e].req, ToSet(job[e].todo))'
    <3>1. CASE e # c \/ i = NoJob
      <4>1. ToSet(job'[e].todo) = {}
        BY <1>5, <1>7, <3>1, None DEF NoJob
      <4> QED
        BY <4>1 DEF Agrees
    <3>2. CASE e = c /\ i # NoJob
      <4>1. n = answered /\ i.req = job[c].req /\ i.req \notin {"start", "stop"}
        BY <1>4, <1>25, <1>27, <3>2
      <4>2. \A x \in V : Sets(x, "service") =>
              (x.key \in DOMAIN answered => x.row.enabled = answered[x.key])
        BY <1>9, <2>0, <4>1 DEF Agrees
      <4> QED
        BY <1>5, <1>6, <1>26, <3>2, <4>1, <4>2 DEF Agrees
    <3> QED
      BY <3>1, <3>2
  <2> QED
    BY <1>13, <1>26, <2>1, <2>2 DEF StopsKept, Services
<1>30. ASSUME StartDisjoint PROVE PortsApart(Pending)'
  <2>0. PortsApart(W)
    BY <1>3, <1>8, <1>30
  <2>1. \A x, y : Apart(x, y) => Apart(y, x)
    BY DEF Apart
  <2>2. ASSUME NEW p \in DOMAIN d["port"]
        PROVE  \/ Sets(w, "port") /\ p = w.key /\ d["port"][p] = w.row
               \/ p \in DOMAIN db["port"] /\ d["port"][p] = db["port"][p]
                    /\ (Sets(w, "port") => p # w.key)
    BY <1>11, <1>12, <1>13
  <2>3. ASSUME NEW p \in DOMAIN d["port"], NEW q \in DOMAIN d["port"], p # q
        PROVE  Apart(d["port"][p].ports, d["port"][q].ports)
    <3>1. CASE Sets(w, "port") /\ p = w.key /\ d["port"][p] = w.row
      <4>1. q \in DOMAIN db["port"] \ {w.key} /\ d["port"][q] = db["port"][q]
        BY <2>2, <2>3, <3>1
      <4> QED
        BY <1>9, <2>0, <3>1, <4>1 DEF PortsApart
    <3>2. CASE Sets(w, "port") /\ q = w.key /\ d["port"][q] = w.row
      <4>1. p \in DOMAIN db["port"] \ {w.key} /\ d["port"][p] = db["port"][p]
        BY <2>2, <2>3, <3>2
      <4>2. Apart(d["port"][q].ports, d["port"][p].ports)
        BY <1>9, <2>0, <3>2, <4>1 DEF PortsApart
      <4> QED
        BY <2>1, <4>2
    <3>3. CASE /\ p \in DOMAIN db["port"] /\ d["port"][p] = db["port"][p]
               /\ q \in DOMAIN db["port"] /\ d["port"][q] = db["port"][q]
      BY <2>0, <2>3, <3>3 DEF PortsApart
    <3> QED
      BY <2>2, <2>3, <3>1, <3>2, <3>3
  <2>4. ASSUME NEW x \in V, Sets(x, "port"), NEW q \in DOMAIN d["port"] \ {x.key}
        PROVE  Apart(x.row.ports, d["port"][q].ports)
    <3>1. CASE Sets(w, "port") /\ q = w.key /\ d["port"][q] = w.row
      BY <1>9, <2>0, <2>4, <3>1 DEF PortsApart
    <3>2. CASE q \in DOMAIN db["port"] /\ d["port"][q] = db["port"][q]
      BY <1>9, <2>0, <2>4, <3>2 DEF PortsApart
    <3> QED
      BY <2>2, <2>4, <3>1, <3>2
  <2>5. \A x, y \in V : Sets(x, "port") /\ Sets(y, "port") /\ x.key # y.key =>
          Apart(x.row.ports, y.row.ports)
    BY <1>9, <2>0 DEF PortsApart
  <2> QED
    BY <1>8, <1>13, <2>3, <2>4, <2>5 DEF PortsApart
<1> QED
  BY <1>16, <1>17, <1>19, <1>21, <1>28, <1>29, <1>30 DEF Orderly, StartDisjoint

(* Every step keeps the order among the requests of one family. *)
LEMMA OrderlyKept ==
  ASSUME Inv, MCNext
  PROVE  Orderly'
<1>0. /\ Shapes /\ Orderly /\ Moves /\ calm' = (calm /\ ~Trouble) /\ answered' = Answers
  BY DEF Inv, MCNext
<1>1. ASSUME UNCHANGED <<db, lastId, job>> PROVE Orderly'
  <2>1. \A c \in Clients : Idle(c) \/ job'[c] # NoJob
    BY <1>1 DEF Idle, NoJob
  <2> QED
    BY <1>0, <1>1, <2>1, Unanswered, StillOrderly
<1>2. ASSUME NEW c \in Clients, Sends(c) PROVE Orderly'
  <2>1. CASE Accepted(c)
    BY <1>0, <2>1, SentOrderly DEF Accepted
  <2>2. CASE Restart(c)
    BY <1>1, <2>2 DEF Restart
  <2> QED
    BY <1>2, <2>1, <2>2, SendsAccepted
<1>3. ASSUME NEW c \in Clients, Step(c) PROVE Orderly'
  BY <1>0, <1>3, StepOrderly
<1>4. ASSUME NEW c \in Clients, WriteFails(c) PROVE Orderly'
  BY <1>0, <1>4 DEF Trouble, Orderly
<1>5. CASE Crash
  <2>1. CASE \E c \in Clients : ~Idle(c)
    BY <1>0, <1>5, <2>1 DEF Trouble, Orderly
  <2>2. CASE \A c \in Clients : Idle(c)
    <3>1. \A c \in Clients : job[c] = NoJob
      BY <1>0, <2>2, IdleIs
    <3>2. job' = job
      BY <1>0, <1>5, <3>1 DEF Shapes, Crash
    <3> QED
      BY <1>1, <1>5, <3>2 DEF Crash
  <2> QED
    BY <2>1, <2>2
<1>6. CASE Reconcile \/ DaemonChanges
  BY <1>1, <1>6 DEF Reconcile, ReadServices, ReadWithoutDocker, BeginRun, ReadFacts, Load,
                    LoadFails, Tick, DaemonChanges
<1> QED
  BY <1>0, <1>2, <1>3, <1>4, <1>5, <1>6 DEF Moves

-----------------------------------------------------------------------------
(* The theorems                                                            *)

(* Nothing is pending at the start. *)
LEMMA OrderlyAtRest ==
  ASSUME job = [c \in Clients |-> NoJob], answered = <<>>,
         Services \subseteq Drawn(lastId), DOMAIN db["port"] = {},
         \A s \in Services : db["service"][s].app \in Apps,
         \A s \in Services : db["service"][s].frags \subseteq Builtins
  PROVE  Orderly
<1>1. \A c \in Clients : Idle(c) /\ ToSet(job[c].todo) = {}
  BY None DEF Idle, NoJob
<1>2. Pending = {}
  BY <1>1, NothingPending
<1>3. DOMAIN answered = {}
  OBVIOUS
<1>4. Alone /\ Alike(Pending)
  BY <1>1, <1>2 DEF Alone, Alike
<1>5. Grouped(Pending) /\ FragmentsHeld(Pending)
  BY <1>2 DEF Grouped, Placed, FragmentsHeld, Held
<1>6. Fresh(Pending)
  BY <1>2, <1>3 DEF Fresh
<1>7. StopsKept
  BY <1>1, <1>3 DEF StopsKept, Agrees
<1>8. PortsApart(Pending)
  BY <1>2 DEF PortsApart
<1> QED
  BY <1>4, <1>5, <1>6, <1>7, <1>8 DEF Orderly

(* The start: empty tables, no request, the built-in ports. *)
LEMMA InitInv == MCInit => Inv
<1> SUFFICES ASSUME MCInit PROVE Inv
  OBVIOUS
<1>0. Len(Ids) \in Nat /\ DOMAIN <<>> = {}
  BY GatewayAssumption
<1>1. job = [c \in Clients |-> NoJob] /\ answered = <<>> /\ run = NoRun
  BY DEF MCInit, Init, Served
<1>2. job = [c \in Clients |-> job[c]] /\ \A c \in Clients : JobOK(job[c])
  BY <1>1 DEF JobOK
<1>3. run = [at |-> run.at, services |-> run.services, config |-> run.config]
      /\ run.at = "idle"
  BY <1>1 DEF NoRun
<1>4. CASE Init
  <2>1. db = [t \in Tables |-> <<>>] /\ lastId = 0 /\ containers \in Daemons /\ result = "none"
    BY <1>4 DEF Init, Empty
  <2>2. db["service"] = <<>> /\ db["port"] = <<>>
    BY <2>1 DEF Tables
  <2>3. Services = {} /\ DOMAIN db["port"] = {}
    BY <1>0, <2>2 DEF Services
  <2>4. Shapes
    <3>1. Stored \notin DOMAIN containers
      BY <2>1, GatewayAssumption
    <3>2. IsFiniteSet(Services)
      BY <2>3, FS_EmptySet
    <3>3. lastId \in 0..Len(Ids)
      BY <1>0, <2>1
    <3>4. db = [t \in Tables |-> db[t]]
      BY <2>1
    <3> QED
      BY <1>2, <1>3, <2>3, <3>1, <3>2, <3>3, <3>4 DEF Shapes
  <2>5. Owed
    BY <1>3, <2>1 DEF Owed
  <2>6. Orderly
    BY <1>1, <2>3, OrderlyAtRest
  <2> QED
    BY <2>4, <2>5, <2>6 DEF Inv
<1>5. CASE Served
  <2>1. PICK r : r = ToService(Empty, Web, Ids[1], TRUE)
    OBVIOUS
  <2>2. PICK a, s : a = With(<<>>, Ids[1], "A") /\ s = With(<<>>, Ids[2], r)
    OBVIOUS
  <2>3. /\ db = [Empty EXCEPT !["app"] = a, !["service"] = s]
        /\ lastId = 2 /\ containers = <<>>
        /\ loaded = Configuration(ListAllServices(db, containers), db)
    BY <1>5, <2>1, <2>2 DEF Served
  <2>4. /\ db = [t \in Tables |-> db[t]] /\ db["app"] = a /\ db["service"] = s
        /\ db["port"] = <<>>
    BY <2>3 DEF Empty, Tables
  <2>5. DOMAIN a = {Ids[1]} /\ DOMAIN s = {Ids[2]} /\ s[Ids[2]] = r
    BY <1>0, <2>2 DEF With
  <2>6. Services = {Ids[2]} /\ Apps = {Ids[1]} /\ DOMAIN db["port"] = {}
    BY <1>0, <2>4, <2>5 DEF Services, Apps
  <2>7. Whole(r) /\ r.app = Ids[1]
    BY <2>1 DEF ToService, Whole
  <2>8. r.frags \subseteq Builtins
    <3>1. r.frags = Seed(Empty, Web.named, Web.excl)
      BY <2>1 DEF ToService
    <3>2. Web.named = {}
      BY DEF Web, Input
    <3>3. Empty["fragment"] = <<>>
      BY DEF Empty, Tables
    <3>4. DOMAIN Fragments(Empty) = Builtins
      BY <1>0, <3>3 DEF Fragments, Over, Builtins
    <3>5. Seed(Empty, {}, Web.excl) \subseteq DOMAIN Fragments(Empty)
      BY DEF Seed, SeedDefaultFragments, Toggled
    <3> QED
      BY <3>1, <3>2, <3>4, <3>5
  <2>9. Shapes
    <3>1. Stored \notin DOMAIN containers
      BY <1>0, <2>3
    <3>2. IsFiniteSet(Services)
      BY <2>6, FS_Singleton
    <3>3. lastId \in 0..Len(Ids)
      BY <1>0, <2>3, ServedAssumption
    <3>4. \A x \in Services : Whole(db["service"][x])
      BY <2>4, <2>5, <2>6, <2>7
    <3> QED
      BY <1>2, <1>3, <2>4, <3>1, <3>2, <3>3, <3>4 DEF Shapes
  <2>10. Owed
    BY <1>3, <2>3 DEF Owed, Current
  <2>11. Orderly
    <3>1. 2 \in 1..2 /\ Ids[2] \in Drawn(lastId)
      <4>1. 2 \in 1..2
        OBVIOUS
      <4> QED
        BY <2>3, <4>1 DEF Drawn
    <3>2. \A x \in Services : db["service"][x] = r
      BY <2>4, <2>5, <2>6
    <3> QED
      BY <1>1, <2>6, <2>7, <2>8, <3>1, <3>2, OrderlyAtRest
  <2> QED
    BY <2>9, <2>10, <2>11 DEF Inv
<1> QED
  BY <1>4, <1>5 DEF MCInit

(* The inductive invariant: shapes, who owes Caddy the facts, and the      *)
(* order of requests that come one at a time.                              *)
THEOREM GatewayInvariant == MCSpec => []Inv
<1>1. Inv /\ [MCNext]_mcvars => Inv'
  <2>1. Inv /\ MCNext => Inv'
    BY ShapesKept, OwedKept, OrderlyKept DEF Inv
  <2>2. ASSUME Inv, UNCHANGED mcvars PROVE Inv'
    <3>1. Shapes /\ Owed /\ Orderly
      BY <2>2 DEF Inv
    <3>2. UNCHANGED <<db, lastId, containers, job, wanted, run, loaded, result, unseen, calm,
                      answered>>
      BY <2>2 DEF mcvars, vars
    <3>3. Shapes'
      BY <3>1, <3>2 DEF Shapes, Services
    <3>4. Owed'
      BY <3>1, <3>2 DEF Owed, Current
    <3>5. Orderly'
      BY <3>1, <3>2, StillOrderly
    <3> QED
      BY <3>3, <3>4, <3>5 DEF Inv
  <2> QED
    BY <2>1, <2>2
<1> QED
  BY <1>1, InitInv, PTL DEF MCSpec

(* At rest after a run that succeeded, Caddy runs what the facts say: a    *)
(* request that changes them asks for a run after its last write           *)
(* (reloadCaddy of handler/gateway_api.go), whatever a run under way has   *)
(* read meanwhile (ReconcileCaddy; the intents of reconcile/reconciler.go).*)
THEOREM QuietFactsServed == MCSpec => []QuietConfigIsCurrent
<1>1. Inv => QuietConfigIsCurrent
  <2> SUFFICES ASSUME Inv, Quiet, ~unseen, result = "ok" PROVE loaded = Current
    BY DEF QuietConfigIsCurrent
  <2>1. Shapes /\ Owed
    BY DEF Inv
  <2>2. wanted = FALSE /\ run.at = "idle" /\ \A c \in Clients : ~job[c].triggers
    BY <2>1, IdleIs DEF Quiet
  <2> QED
    BY <2>1, <2>2 DEF Owed
<1> QED
  BY <1>1, GatewayInvariant, PTL

(* A service stays stopped, or started, until a request of its own says    *)
(* otherwise (toService of handler/gateway_api.go keeps what it has read). *)
THEOREM StopsAreKept == MCSpec => []CalmStopsAreKept
<1>1. Inv => CalmStopsAreKept
  BY DEF Inv, Orderly, StopsKept, CalmStopsAreKept
<1> QED
  BY <1>1, GatewayInvariant, PTL

(* Two protocols have no port in common (checkPortConflict of              *)
(* handler/gateway_ports.go, and the defaults it seeds).                   *)
THEOREM PortsStayApart == MCSpec => []CalmPortsDisjoint
<1>1. Inv => CalmPortsDisjoint
  BY DEF Inv, Orderly, PortsApart, Apart, CalmPortsDisjoint
<1> QED
  BY <1>1, GatewayInvariant, PTL

(* The fields of a fact of the graph. *)
LEMMA FactIs ==
  ASSUME NEW kind, NEW id, NEW origin, NEW name, NEW targets
  PROVE  /\ Fact(kind, id, origin, name, targets).ref = <<kind, id>>
         /\ Fact(kind, id, origin, name, targets).ref[1] = kind
         /\ Fact(kind, id, origin, name, targets).origin = origin
         /\ Fact(kind, id, origin, name, targets).targets = targets
BY DEF Fact

(* The fields of a service that refer to other facts. *)
LEMMA ServiceFactIs ==
  ASSUME NEW k, NEW svc, NEW origin
  PROVE  /\ ServiceFact(k, svc, origin).ref[1] = "service"
         /\ ServiceFact(k, svc, origin).origin = origin
         /\ ServiceFact(k, svc, origin).targets["appId"] = {svc.app} \ {Nowhere}
         /\ ServiceFact(k, svc, origin).targets["fragmentIds"] = svc.frags
<1>1. PICK r : r = [appId       |-> {svc.app} \ {Nowhere},
                    rootDomain  |-> {svc.rows[i].root : i \in DOMAIN svc.rows} \ {<<>>},
                    fragmentIds |-> svc.frags]
  OBVIOUS
<1>2. ServiceFact(k, svc, origin) = Fact("service", k, origin, <<>>, r)
  BY <1>1 DEF ServiceFact, Nowhere
<1>3. r["appId"] = {svc.app} \ {Nowhere} /\ r["fragmentIds"] = svc.frags
  BY <1>1
<1> QED
  BY <1>2, <1>3, FactIs

(* What a table without references gives is a fact of its own kind. *)
LEMMA UnlinkedIs ==
  ASSUME NEW d, NEW kind, NEW t, NEW f \in Unlinked(d, kind, t)
  PROVE  f.ref[1] = kind
<1>1. PICK k \in DOMAIN d[t] : f = Fact(kind, k, "user", <<>>, NoReferences)
  BY DEF Unlinked
<1> QED
  BY <1>1, FactIs

(* A domain's fact is of the kind domain. *)
LEMMA DomainFactIs == \A i, dom : DomainFact(i, dom).ref[1] = "domain"
<1>1. ASSUME NEW i, NEW dom PROVE DomainFact(i, dom).ref[1] = "domain"
  <2>1. PICK r : r = [credentialId |-> {dom.credential} \ {""}]
    OBVIOUS
  <2>2. DomainFact(i, dom) = Fact("domain", <<i>>, "user", dom.name, r)
    BY <2>1 DEF DomainFact
  <2> QED
    BY <2>2, FactIs
<1> QED
  BY <1>1

(* The facts of stored services are those of the table. *)
LEMMA StoredFacts ==
  ASSUME Shapes, NEW f \in SnapshotFacts(db, containers), f.ref[1] = "service",
         f.origin = "user"
  PROVE  \E s \in Services : f = ServiceFact(<<Stored, s>>, db["service"][s], "user")
<1>1. PICK all : all = ListAllServices(db, containers)
  OBVIOUS
<1>2. PICK A : A = {IF k[1] = Stored THEN ServiceFact(k, all[k], "user")
                    ELSE ServiceFact(all[k].id, all[k], "docker") : k \in DOMAIN all}
  OBVIOUS
<1>3. SnapshotFacts(db, containers) =
        UNION {A, {DomainFact(i, db["domain"][i]) : i \in DOMAIN db["domain"]},
               Unlinked(db, "credential", "credential"), Unlinked(db, "fragment", "fragment"),
               Unlinked(db, "variable", "variable"), Unlinked(db, "port", "port"),
               Unlinked(db, "app", "app")}
  BY <1>1, <1>2 DEF SnapshotFacts
<1>4. f \in A
  <2>1. \A g \in {DomainFact(i, db["domain"][i]) : i \in DOMAIN db["domain"]} :
          g.ref[1] = "domain"
    BY DomainFactIs
  <2>2. /\ \A g \in Unlinked(db, "credential", "credential") : g.ref[1] = "credential"
        /\ \A g \in Unlinked(db, "fragment", "fragment") : g.ref[1] = "fragment"
        /\ \A g \in Unlinked(db, "variable", "variable") : g.ref[1] = "variable"
        /\ \A g \in Unlinked(db, "port", "port") : g.ref[1] = "port"
        /\ \A g \in Unlinked(db, "app", "app") : g.ref[1] = "app"
    BY UnlinkedIs
  <2> QED
    BY <1>3, <2>1, <2>2
<1>5. PICK k \in DOMAIN all : f = IF k[1] = Stored THEN ServiceFact(k, all[k], "user")
                                  ELSE ServiceFact(all[k].id, all[k], "docker")
  BY <1>2, <1>4
<1>6. k[1] = Stored /\ f = ServiceFact(k, all[k], "user")
  BY <1>5, ServiceFactIs
<1>7. PICK D, g : /\ D = DeriveDockerServices(containers, Fragments(db), Seed(db, {}, {}),
                                              RootsIn(db), DOMAIN db["stopped"])
                  /\ g = [j \in {<<Stored, s>> : s \in DOMAIN db["service"]} |->
                            db["service"][j[2]]]
  OBVIOUS
<1>8. all = Over(g, D)
  BY <1>1, <1>7 DEF ListAllServices
<1>9. DOMAIN D = SitesOf(containers)
  BY <1>7 DEF DeriveDockerServices
<1>10. \A j \in SitesOf(containers) : j[1] \in DOMAIN containers
  BY DEF SitesOf
<1>11. k \in {<<Stored, s>> : s \in DOMAIN db["service"]}
  <2>1. k \in DOMAIN g \/ k \in DOMAIN D
    BY <1>8 DEF Over
  <2> QED
    BY <1>6, <1>7, <1>9, <1>10, <2>1 DEF Shapes
<1>12. PICK s \in DOMAIN db["service"] : k = <<Stored, s>>
  BY <1>11
<1>13. all[k] = db["service"][s]
  BY <1>7, <1>8, <1>11, <1>12 DEF Over
<1> QED
  BY <1>6, <1>12, <1>13 DEF Services

(* A reference to a fact that exists has an edge. *)
LEMMA EdgeOf ==
  ASSUME NEW facts, NEW f \in facts, NEW k \in DOMAIN References[f.ref[1]],
         NEW t \in f.targets[k], NEW kind, kind = References[f.ref[1]][k],
         <<kind, t>> \in Refs(facts)
  PROVE  \E e \in RefEdges(facts) : e.from = f.ref /\ e.field = k /\ e.to[2] = t
<1>1. Resolve(facts, kind, t) = {<<kind, t>>}
  BY DEF Resolve
<1>2. PICK r : r = <<kind, t>>
  OBVIOUS
<1>3. PICK e : e = [from |-> f.ref, to |-> r, field |-> k]
  OBVIOUS
<1>4. r \in UNION {Resolve(facts, References[f.ref[1]][k], u) : u \in f.targets[k]}
  BY <1>1, <1>2
<1>5. e \in RefEdges(facts)
  <2>1. PICK to : to = References[f.ref[1]]
    OBVIOUS
  <2>2. e \in {[from |-> f.ref, to |-> q, field |-> k] :
                 q \in UNION {Resolve(facts, to[k], u) : u \in f.targets[k]}}
    BY <1>3, <1>4, <2>1
  <2>3. e \in UNION {{[from |-> f.ref, to |-> q, field |-> l] :
                      q \in UNION {Resolve(facts, to[l], u) : u \in f.targets[l]}} :
                     l \in DOMAIN to}
    BY <2>1, <2>2
  <2> QED
    BY <2>1, <2>3 DEF RefEdges
<1> QED
  BY <1>2, <1>3, <1>5

(* What the catalog declares of a service: its application and its fragments. *)
LEMMA ServiceReferences ==
  /\ "appId" \in DOMAIN References["service"] /\ References["service"]["appId"] = "app"
  /\ "fragmentIds" \in DOMAIN References["service"]
  /\ References["service"]["fragmentIds"] = "fragment"
BY DEF References

(* No service is lost to the pages: each is in a group, and the graph has  *)
(* an edge for its application and for every fragment of the user's that   *)
(* it names (listGroups of handler/gateway_api.go, buildRefEdges of        *)
(* graph/graph.go).                                                        *)
THEOREM ReferencesResolve == MCSpec => []CalmReferencesResolve
<1>1. Inv => CalmReferencesResolve
  <2> SUFFICES ASSUME Inv, calm, \A c \in Clients : Idle(c)
               PROVE  LET facts == SnapshotFacts(db, containers)
                          edges == RefEdges(facts)
                      IN /\ UNION Range(ListGroups(db)) = Services
                         /\ \A f \in {g \in facts : g.ref[1] = "service" /\ g.origin = "user"} :
                              \A k \in {"appId", "fragmentIds"} : \A t \in f.targets[k] \ Builtins :
                                \E e \in edges : e.from = f.ref /\ e.field = k /\ e.to[2] = t
    BY DEF CalmReferencesResolve
  <2>1. Pending = {}
    BY NothingPending
  <2>2. Shapes /\ Grouped({}) /\ FragmentsHeld({})
    BY <2>1 DEF Inv, Orderly
  <2>3. UNION Range(ListGroups(db)) = Services
    <3>1. \A s \in Services : GroupOf(db["service"][s], db) \in Apps \cup {"_default"}
      BY <2>2 DEF Grouped, Placed, GroupOf, Apps, Nowhere
    <3>2. ListGroups(db) = [g \in Apps \cup {"_default"} |->
                              {s \in Services : GroupOf(db["service"][s], db) = g}]
      BY DEF ListGroups, Apps, Services
    <3>3. PICK G : G = ListGroups(db)
      OBVIOUS
    <3>4. DOMAIN G = Apps \cup {"_default"}
      BY <3>2, <3>3
    <3>5. ASSUME NEW g \in DOMAIN G
          PROVE  G[g] = {s \in Services : GroupOf(db["service"][s], db) = g}
      BY <3>2, <3>3, <3>4
    <3>6. ASSUME NEW s \in Services PROVE s \in UNION Range(G)
      <4>1. PICK g \in DOMAIN G : g = GroupOf(db["service"][s], db)
        BY <3>1, <3>4
      <4>2. s \in G[g] /\ G[g] \in Range(G)
        BY <3>5, <4>1 DEF Range
      <4> QED
        BY <4>2
    <3>7. ASSUME NEW s \in UNION Range(G) PROVE s \in Services
      <4>1. PICK g \in DOMAIN G : s \in G[g]
        BY <3>7 DEF Range
      <4> QED
        BY <3>5, <4>1
    <3> QED
      BY <3>3, <3>6, <3>7
  <2>4. PICK facts : facts = SnapshotFacts(db, containers)
    OBVIOUS
  <2>5. \A a \in Apps : <<"app", a>> \in Refs(facts)
    <3>1. Unlinked(db, "app", "app") \subseteq facts
      BY <2>4 DEF SnapshotFacts
    <3>2. ASSUME NEW a \in Apps PROVE <<"app", a>> \in Refs(facts)
      <4>1. PICK g : g = Fact("app", a, "user", <<>>, NoReferences)
        OBVIOUS
      <4>2. g \in Unlinked(db, "app", "app")
        BY <4>1 DEF Unlinked, Apps
      <4>3. g.ref = <<"app", a>>
        BY <4>1, FactIs
      <4> QED
        BY <3>1, <4>2, <4>3 DEF Refs
    <3> QED
      BY <3>2
  <2>6. \A g \in DOMAIN db["fragment"] : <<"fragment", g>> \in Refs(facts)
    <3>1. Unlinked(db, "fragment", "fragment") \subseteq facts
      BY <2>4 DEF SnapshotFacts
    <3>2. ASSUME NEW a \in DOMAIN db["fragment"] PROVE <<"fragment", a>> \in Refs(facts)
      <4>1. PICK g : g = Fact("fragment", a, "user", <<>>, NoReferences)
        OBVIOUS
      <4>2. g \in Unlinked(db, "fragment", "fragment")
        BY <4>1 DEF Unlinked
      <4>3. g.ref = <<"fragment", a>>
        BY <4>1, FactIs
      <4> QED
        BY <3>1, <4>2, <4>3 DEF Refs
    <3> QED
      BY <3>2
  <2>7. ASSUME NEW f \in facts, f.ref[1] = "service", f.origin = "user",
               NEW k \in {"appId", "fragmentIds"}, NEW t \in f.targets[k], t \notin Builtins
        PROVE  \E e \in RefEdges(facts) : e.from = f.ref /\ e.field = k /\ e.to[2] = t
    <3>1. PICK s \in Services : f = ServiceFact(<<Stored, s>>, db["service"][s], "user")
      BY <2>2, <2>4, <2>7, StoredFacts
    <3>2. /\ f.targets["appId"] = {db["service"][s].app} \ {Nowhere}
          /\ f.targets["fragmentIds"] = db["service"][s].frags
      BY <3>1, ServiceFactIs
    <3>3. CASE k = "appId"
      <4>1. t = db["service"][s].app /\ t # Nowhere
        BY <2>7, <3>2, <3>3
      <4>2. t \in Apps
        BY <2>2, <4>1 DEF Grouped, Placed
      <4>3. <<"app", t>> \in Refs(facts)
        BY <2>5, <4>2
      <4> QED
        BY <2>7, <3>3, <4>3, ServiceReferences, EdgeOf
    <3>4. CASE k = "fragmentIds"
      <4>1. t \in db["service"][s].frags
        BY <2>7, <3>2, <3>4
      <4>2. t \in DOMAIN db["fragment"]
        BY <2>2, <2>7, <4>1 DEF FragmentsHeld, Held
      <4>3. <<"fragment", t>> \in Refs(facts)
        BY <2>6, <4>2
      <4> QED
        BY <2>7, <3>4, <4>3, ServiceReferences, EdgeOf
    <3> QED
      BY <2>7, <3>3, <3>4
  <2> QED
    BY <2>3, <2>4, <2>7
<1> QED
  BY <1>1, GatewayInvariant, PTL
==============================================================================
