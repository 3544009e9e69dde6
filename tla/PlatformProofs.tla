---------------------------- MODULE PlatformProofs ----------------------------
(* The extension platform and the event stream, for all values of the
   constants. Each part of MCPlatform only moves its own variables, so the
   invariants are those of the parts. *)
EXTENDS MCPlatform, TLAPS, FiniteSetTheorems, WellFoundedInduction

LEMMA PartsStep ==
  [PlatformNext]_<<part, mcvars, binaries, sidecar, feed>> =>
    [MCNext]_mcvars /\ [B!MCNext]_binaries /\ [S!MCNext]_sidecar /\ [F!MCNext]_feed
BY DEF PlatformNext

(* Each part counts as the others do. *)
LEMMA PartsCount ==
  \A T : /\ B!Cardinality(T) = Cardinality(T)
         /\ S!Cardinality(T) = Cardinality(T)
         /\ F!Cardinality(T) = Cardinality(T)
BY Zenon DEF B!Cardinality, S!Cardinality, F!Cardinality, Cardinality

(* A set of at most one element. *)
LEMMA Counted ==
  ASSUME NEW T, IsFiniteSet(T), NEW t \in T, Cardinality(T) <= 1
  PROVE  T = {t}
<1> SUFFICES ASSUME NEW u \in T, u # t PROVE FALSE
  OBVIOUS
<1>1. IsFiniteSet({t}) /\ Cardinality({t}) = 1
  BY FS_Singleton
<1>2. Cardinality({t} \cup {u}) = 2
  <2>1. Cardinality({t} \cup {u}) = IF u \in {t} THEN Cardinality({t}) ELSE Cardinality({t}) + 1
    BY <1>1, FS_AddElement
  <2> QED
    BY <1>1, <2>1
<1>3. Cardinality({t} \cup {u}) <= Cardinality(T)
  BY FS_Subset
<1> QED
  BY <1>2, <1>3, FS_CardinalityType

-----------------------------------------------------------------------------
(* A backend that waits was told the rows its request has read: what it was
   told is always a revision with the rows of that revision. *)
Rows == {Projected(c) : c \in Contents} \cup {{}}
Told == [rev : {<<>>} \cup {Revision(r) : r \in Rows}, rows : Rows]
PollInv ==
    /\ content \in Contents
    /\ poll \in [Pollers -> [at : {"idle", "waiting"}, read : Rows, told : Told]]
    /\ \A p \in Pollers :
         /\ poll[p].told.rev # <<>> => poll[p].told.rev = Revision(poll[p].told.rows)
         /\ poll[p].at = "waiting" => poll[p].told.rows = poll[p].read

LEMMA AnswerTyped ==
  /\ Silent \in [at : {"idle", "waiting"}, read : Rows, told : Told]
  /\ Silent.at = "idle" /\ Silent.told.rev = <<>>
  /\ \A r \in Rows : Answer(Revision(r), r) \in Told
BY DEF Silent, NoAnswer, Answer, Rows, Told

LEMMA PollStep == PollInv /\ [MCNext]_mcvars => PollInv'
<1> SUFFICES ASSUME PollInv, [MCNext]_mcvars PROVE PollInv'
  OBVIOUS
<1>1. CASE UNCHANGED <<content, poll>>
  BY <1>1 DEF PollInv
<1>2. ASSUME NEW id, content' = content, poll' = [poll EXCEPT ![id] = Silent]
      PROVE  PollInv'
  BY <1>2, AnswerTyped DEF PollInv
<1>3. CASE Restart
  BY <1>3, AnswerTyped DEF PollInv, Restart
<1>4. CASE Edit
  BY <1>4 DEF PollInv, Edit
<1>5. Projected(content) \in Rows
  BY DEF PollInv, Rows
<1>6. ASSUME NEW p \in Pollers, NEW a \in Told, content' = content,
             a.rev = Revision(a.rows),
             poll' = [poll EXCEPT ![p].at = "idle", ![p].told = a]
      PROVE  PollInv'
  BY <1>6 DEF PollInv
<1>7. ASSUME NEW p \in Pollers, Ask(p)
      PROVE  PollInv'
  <2> DEFINE rows == Projected(content)
  <2>1. content' = content
    BY <1>7 DEF Ask, host
  <2>2. CASE poll[p].told.rev = Revision(rows)
    <3>1. poll' = [poll EXCEPT ![p] = [@ EXCEPT !.at = "waiting", !.read = rows]]
      BY <1>7, <2>2 DEF Ask
    <3>2. poll[p].told.rows = rows
      BY <2>2 DEF PollInv, Revision
    <3> HIDE DEF rows
    <3> QED
      BY <2>1, <3>1, <3>2, <1>5 DEF PollInv, rows
  <2>3. CASE poll[p].told.rev # Revision(rows)
    <3> DEFINE a == Answer(Revision(rows), rows)
    <3>1. poll' = [poll EXCEPT ![p] = [@ EXCEPT !.told = a]] /\ poll[p].at = "idle"
      BY <1>7, <2>3 DEF Ask
    <3>2. a \in Told /\ a.rev = Revision(a.rows)
      BY <1>5, AnswerTyped DEF Answer
    <3> HIDE DEF a
    <3> QED
      BY <2>1, <3>1, <3>2 DEF PollInv
  <2> QED
    BY <2>2, <2>3
<1>8. ASSUME NEW p \in Pollers, Notice(p) \/ TimeUp(p)
      PROVE  PollInv'
  <2>1. PICK r \in Rows : poll' = [poll EXCEPT ![p].at = "idle", ![p].told = Answer(Revision(r), r)]
    BY <1>5, <1>8 DEF Notice, TimeUp, PollInv
  <2>2. Answer(Revision(r), r) \in Told
        /\ Answer(Revision(r), r).rev = Revision(Answer(Revision(r), r).rows)
    BY AnswerTyped DEF Answer
  <2>3. content' = content
    BY <1>8 DEF Notice, TimeUp, host
  <2> QED
    BY <1>6, <2>1, <2>2, <2>3
<1>9. ASSUME NEW t \in Threads, NEW id \in IdsOf(Manifests), NEW r \in Requests, Change(t, id, r)
      PROVE  PollInv'
  BY <1>9, <1>1, <1>2 DEF Change
<1>10. CASE Publish \/ \E t \in Threads :
               \/ RefreshOnline(t) \/ Unregister(t) \/ ListStates(t) \/ ListFails(t) \/ Register(t)
  BY <1>10, <1>1 DEF Publish, RefreshOnline, Unregister, ListStates, ListFails, Register
<1>11. CASE UNCHANGED mcvars
  BY <1>11, <1>1 DEF mcvars, vars
<1> QED
  BY <1>3, <1>4, <1>7, <1>8, <1>9, <1>10, <1>11 DEF MCNext, Next, Host, Projection

(* Whatever is edited and asked for, and whenever the manager restarts or
   stops a backend: no change of the rows falls between two polls. *)
THEOREM PollersInformed == PlatformSpec => []PollersAreInformed
<1>1. PlatformInit => PollInv
  BY AnswerTyped DEF PlatformInit, MCInit, Init, PollInv
<1>2. PollInv => PollersAreInformed
  BY DEF PollInv, PollersAreInformed, WaitersAreInformed
<1> QED
  BY <1>1, <1>2, PollStep, PartsStep, PTL DEF PlatformSpec

-----------------------------------------------------------------------------
(* The registry: while calm, one goroutine at most is in Refresh; once it has
   unregistered, no plugin of the catalog is registered, and what it lists is
   what is stored. *)
Registered(ms) == {m \in ms : m.id \in IdsOf(catalog)}
Enabled        == {m \in catalog : m.compiles /\ stored[m.id] = "enabled"}
States == {"missing", "available", "installed", "enabled", "disabled", "error"}
RefreshInv ==
    /\ calm \in BOOLEAN
    /\ refresh \in [Threads -> [at : {"idle", "unregister", "list", "register"},
                                states : {<<>>} \cup [IdsOf(Manifests) -> States]]]
    /\ stored \in [IdsOf(Manifests) -> States]
    /\ IsFiniteSet(Busy)
    /\ calm =>
         /\ \A s, t \in Busy : s = t
         /\ \A t \in Busy :
              /\ refresh[t].at \in {"list", "register"} => Registered(registry) = {}
              /\ refresh[t].at = "register" => refresh[t].states = stored
         /\ Busy = {} => Registered(registry) = Enabled

(* A goroutine that starts to refresh while it is calm is alone. *)
LEMMA StartAlone ==
  ASSUME RefreshInv, NEW t \in Threads, Idle(t), Start(t), calm' => Cardinality(Busy') <= 1
  PROVE  /\ IsFiniteSet(Busy') /\ t \in Busy' /\ refresh'[t].at = "unregister"
         /\ refresh' \in [Threads -> [at : {"idle", "unregister", "list", "register"},
                                      states : {<<>>} \cup [IdsOf(Manifests) -> States]]]
         /\ calm' => Busy' = {t}
<1>1. refresh' = [refresh EXCEPT ![t].at = "unregister"]
  BY DEF Start
<1>2. /\ refresh' \in [Threads -> [at : {"idle", "unregister", "list", "register"},
                                   states : {<<>>} \cup [IdsOf(Manifests) -> States]]]
      /\ refresh'[t].at = "unregister" /\ \A s \in Threads : s # t => refresh'[s] = refresh[s]
  BY <1>1 DEF RefreshInv
<1>3. Busy' = Busy \cup {t}
  BY <1>2 DEF Busy, Idle
<1>4. IsFiniteSet(Busy')
  BY <1>3, FS_AddElement DEF RefreshInv
<1>5. ASSUME calm' PROVE Busy' = {t}
  <2>1. Cardinality(Busy') <= 1
    BY <1>5
  <2>2. t \notin Busy
    BY DEF Busy
  <2>3. Cardinality(Busy') = Cardinality(Busy) + 1 /\ Cardinality(Busy) \in Nat
    BY <1>3, <2>2, FS_AddElement, FS_CardinalityType DEF RefreshInv
  <2>4. Cardinality(Busy) = 0
    BY <2>1, <2>3
  <2> QED
    BY <1>3, <2>4, FS_EmptySet DEF RefreshInv
<1> QED
  BY <1>2, <1>3, <1>4, <1>5

LEMMA RefreshStep == RefreshInv /\ [MCNext]_mcvars => RefreshInv'
<1> SUFFICES ASSUME RefreshInv, [MCNext]_mcvars PROVE RefreshInv'
  OBVIOUS
<1>1. CASE UNCHANGED <<catalog, stored, registry, refresh>> /\ (calm' = FALSE \/ calm' = calm)
  <2>1. Busy' = Busy /\ Registered(registry)' = Registered(registry) /\ Enabled' = Enabled
    BY <1>1 DEF Busy, Idle, Registered, Enabled
  <2>2. calm' \in BOOLEAN /\ (calm' => calm)
    <3>1. CASE calm' = FALSE
      BY <3>1
    <3>2. CASE calm' = calm
      BY <3>2 DEF RefreshInv
    <3> QED
      BY <1>1, <3>1, <3>2
  <2> QED
    BY <1>1, <2>1, <2>2 DEF RefreshInv
<1>2. CASE UNCHANGED mcvars
  BY <1>1, <1>2 DEF mcvars, vars, host
<1> SUFFICES ASSUME MCNext PROVE RefreshInv'
  BY <1>2
<1>3. /\ calm' \in BOOLEAN /\ (calm' => calm /\ Cardinality(Busy') <= 1)
      /\ calm' => \A t \in Threads : ~ListFails(t)
  BY DEF MCNext, RefreshInv
<1>4. ASSUME NEW t \in Threads, RefreshOnline(t) \/ \E i \in IdsOf(Manifests), r \in Requests : Change(t, i, r)
      PROVE  RefreshInv'
  <2>1. Idle(t) /\ Start(t)
    BY <1>4 DEF RefreshOnline, Change
  <2>2. stored' \in [IdsOf(Manifests) -> States]
    <3>1. CASE RefreshOnline(t)
      BY <3>1 DEF RefreshOnline, RefreshInv
    <3>2. ASSUME NEW i \in IdsOf(Manifests), NEW r \in Requests, Change(t, i, r)
          PROVE  stored' \in [IdsOf(Manifests) -> States]
      <4>1. Outcome(i, r) \subseteq States
        BY <3>2 DEF Outcome, Requests, States
      <4> QED
        BY <3>2, <4>1 DEF Change, RefreshInv
    <3> QED
      BY <1>4, <3>1, <3>2
  <2> QED
    BY <1>3, <2>1, <2>2, StartAlone DEF RefreshInv
<1>5. ASSUME NEW t \in Threads, Unregister(t)
      PROVE  RefreshInv'
  <2>1. /\ refresh' \in [Threads -> [at : {"idle", "unregister", "list", "register"},
                                     states : {<<>>} \cup [IdsOf(Manifests) -> States]]]
        /\ refresh'[t].at = "list" /\ \A s \in Threads : s # t => refresh'[s] = refresh[s]
    BY <1>5 DEF Unregister, RefreshInv
  <2>2. Busy' = Busy /\ t \in Busy
    BY <1>5, <2>1 DEF Busy, Idle, Unregister
  <2>3. Registered(registry)' = {}
    BY <1>5 DEF Unregister, Registered
  <2> QED
    BY <1>3, <1>5, <2>1, <2>2, <2>3 DEF RefreshInv, Unregister
<1>6. ASSUME NEW t \in Threads, ListStates(t)
      PROVE  RefreshInv'
  <2>1. /\ refresh' \in [Threads -> [at : {"idle", "unregister", "list", "register"},
                                     states : {<<>>} \cup [IdsOf(Manifests) -> States]]]
        /\ refresh'[t] = [at |-> "register", states |-> stored]
        /\ \A s \in Threads : s # t => refresh'[s] = refresh[s]
    BY <1>6 DEF ListStates, RefreshInv
  <2>2. Busy' = Busy /\ t \in Busy
    BY <1>6, <2>1 DEF Busy, Idle, ListStates
  <2>3. calm' => Registered(registry)' = {}
    BY <1>3, <1>6, <2>2 DEF ListStates, Registered, RefreshInv
  <2> QED
    BY <1>3, <1>6, <2>1, <2>2, <2>3 DEF RefreshInv, ListStates
<1>7. ASSUME NEW t \in Threads, ListFails(t)
      PROVE  RefreshInv'
  <2>1. /\ refresh' \in [Threads -> [at : {"idle", "unregister", "list", "register"},
                                     states : {<<>>} \cup [IdsOf(Manifests) -> States]]]
        /\ refresh'[t] = NoRefresh /\ \A s \in Threads : s # t => refresh'[s] = refresh[s]
    BY <1>7 DEF ListFails, RefreshInv, NoRefresh
  <2>2. Busy' \subseteq Busy
    BY <2>1 DEF Busy, Idle, NoRefresh
  <2>3. IsFiniteSet(Busy')
    BY <2>2, FS_Subset DEF RefreshInv
  <2> QED
    BY <1>3, <1>7, <2>1, <2>3 DEF RefreshInv, ListFails
<1>8. ASSUME NEW t \in Threads, Register(t)
      PROVE  RefreshInv'
  <2>1. /\ refresh' \in [Threads -> [at : {"idle", "unregister", "list", "register"},
                                     states : {<<>>} \cup [IdsOf(Manifests) -> States]]]
        /\ refresh'[t] = NoRefresh /\ \A s \in Threads : s # t => refresh'[s] = refresh[s]
    BY <1>8 DEF Register, RefreshInv, NoRefresh
  <2>2. Busy' \subseteq Busy /\ t \notin Busy' /\ t \in Busy
    BY <1>8, <2>1 DEF Busy, Idle, NoRefresh, Register
  <2>3. IsFiniteSet(Busy')
    BY <2>2, FS_Subset DEF RefreshInv
  <2>4. ASSUME calm' PROVE Busy' = {} /\ Registered(registry)' = Enabled'
    <3>1. Busy' = {}
      BY <1>3, <2>2, <2>4 DEF RefreshInv
    <3>2. Registered(registry) = {} /\ refresh[t].states = stored
      BY <1>3, <1>8, <2>2, <2>4 DEF RefreshInv, Register
    <3>3. registry' = {m \in registry : m.id \notin IdsOf(Enabled)} \cup Enabled
      BY <1>8, <3>2 DEF Register, Enabled
    <3>4. catalog' = catalog /\ stored' = stored
      BY <1>8 DEF Register
    <3> QED
      BY <3>1, <3>2, <3>3, <3>4 DEF Registered, Enabled, IdsOf
  <2> QED
    BY <1>3, <1>8, <2>1, <2>3, <2>4 DEF RefreshInv, Register
<1>9. CASE Restart
  <2>1. refresh' \in [Threads -> [at : {"idle", "unregister", "list", "register"},
                                  states : {<<>>} \cup [IdsOf(Manifests) -> States]]]
    BY <1>9 DEF Restart, NoRefresh
  <2>2. Busy' = {}
    BY <1>9 DEF Busy, Idle, NoRefresh, Restart
  <2>3. Registered(registry)' = Enabled'
    BY <1>9 DEF Restart, Registered, Enabled, IdsOf
  <2> QED
    BY <1>3, <1>9, <2>1, <2>2, <2>3, FS_EmptySet DEF RefreshInv, Restart
<1>10. CASE Publish \/ Projection
  BY <1>1, <1>3, <1>10 DEF Publish, Projection, Edit, Ask, Notice, TimeUp, host, RefreshInv
<1> QED
  BY <1>4, <1>5, <1>6, <1>7, <1>8, <1>9, <1>10 DEF MCNext, Next, Host

(* For any catalogs, requests and restarts: one Refresh at a time leaves just
   the enabled plugins of the catalog in the registry. *)
THEOREM CatalogRegistered == PlatformSpec => []CatalogIsRegistered
<1>1. PlatformInit => RefreshInv
  <2> SUFFICES ASSUME PlatformInit PROVE RefreshInv
    OBVIOUS
  <2>1. Busy = {} /\ registry = {} /\ Enabled = {}
    BY DEF PlatformInit, MCInit, Init, Busy, Idle, NoRefresh, Enabled, IdsOf, Manifests
  <2>2. refresh \in [Threads -> [at : {"idle", "unregister", "list", "register"},
                                 states : {<<>>} \cup [IdsOf(Manifests) -> States]]]
    BY DEF PlatformInit, MCInit, Init, NoRefresh
  <2>3. stored \in [IdsOf(Manifests) -> States] /\ calm \in BOOLEAN
    BY DEF PlatformInit, MCInit, Init, States
  <2> QED
    BY <2>1, <2>2, <2>3, FS_EmptySet DEF RefreshInv, Registered
<1>2. RefreshInv => CatalogIsRegistered
  BY DEF RefreshInv, CatalogIsRegistered, RegistryFollows, Registered, Enabled
<1> QED
  BY <1>1, <1>2, RefreshStep, PartsStep, PTL DEF PlatformSpec

-----------------------------------------------------------------------------
(* Records of runs: one that retention took is covered by Keep newer ones, or
   too old, for good; and every run that anybody has been told the end of, or
   will be, is kept, taken by retention, or could not be written. *)
Gone == {r \in Nat : r <= expired \/ Cardinality({s \in runs : s > r}) >= Keep}
Kept == Gone \cup runs \cup unsaved
RunsTyped ==
    /\ clock \in Nat /\ expired \in Nat /\ runs \subseteq Nat /\ IsFiniteSet(runs)
    /\ unsaved \subseteq Nat /\ run \in [Runners -> Nat]

(* What leads to the browser, with the runs K that are kept and D that are
   gone. *)
Events(K)  == {e \in [seq : Nat, kind : {"start", "end"}, run : Nat] : e.kind = "end" => e.run \in K}
Doing      == {"idle", "startsend", "save", "list", "trim", "endsend"}
Places     == {"none", "accepted", "replay", "stream", "leaving", "closed"}
Connection(K) == [at : Places, since : Nat, backlog : Seq(Events(K)), buf : Seq(Events(K))]
Leads(K, D) ==
    /\ doomed \in [Runners -> SUBSET D]
    /\ runner \in [Runners -> Doing]
    /\ \A p \in Runners : runner[p] \in {"list", "trim", "endsend"} => run[p] \in K
    /\ seq \in Nat /\ ring \in Seq(Events(K)) /\ subs \subseteq F!Conns
    /\ out \in [Runners -> [ev : Events(K), to : SUBSET F!Conns]]
    /\ server \in [F!Conns -> Connection(K)]
    /\ browser \in [conn : Nat, last : Nat, told : SUBSET K]
FeedInv == RunsTyped /\ Leads(Kept, Gone)

LEMMA LeadsGrow ==
  ASSUME NEW K, NEW D, NEW L, NEW E, K \subseteq L, D \subseteq E, Leads(K, D)
  PROVE  Leads(L, E)
<1>1. Events(K) \subseteq Events(L)
  BY DEF Events
<1>2. Seq(Events(K)) \subseteq Seq(Events(L))
  BY <1>1
<1>3. Connection(K) \subseteq Connection(L)
  BY <1>2 DEF Connection
<1> QED
  BY <1>1, <1>2, <1>3 DEF Leads

(* The last events of a sequence are events of it. *)
LEMMA LatestOf ==
  ASSUME FeedAssumption, NEW V, NEW q \in Seq(V)
  PROVE  F!Latest(q) \in Seq(V)
<1>1. CASE Len(q) > RingCap
  <2>1. RingCap \in Nat /\ Len(q) - RingCap + 1 \in 1 .. Len(q) + 1
    BY <1>1, FeedAssumption DEF F!Bounds
  <2>2. SubSeq(q, Len(q) - RingCap + 1, Len(q)) \in Seq(V)
    BY <2>1
  <2> QED
    BY <1>1, <2>2 DEF F!Latest
<1>2. CASE ~(Len(q) > RingCap)
  BY <1>2 DEF F!Latest
<1> QED
  BY <1>1, <1>2

LEMMA ReplayOf ==
  ASSUME NEW V, ring \in Seq(V), NEW c
  PROVE  F!Replay(c) \in Seq(V)
<1> DEFINE old == {i \in DOMAIN ring : ring[i].seq <= server[c].since}
<1>1. IsFiniteSet(old) /\ Cardinality(old) \in Nat
  <2>1. old \subseteq 1 .. Len(ring) /\ Len(ring) \in Nat
    OBVIOUS
  <2>2. IsFiniteSet(1 .. Len(ring))
    BY FS_Interval
  <2>3. IsFiniteSet(old)
    BY <2>1, <2>2, FS_Subset
  <2> QED
    BY <2>3, FS_CardinalityType
<1> HIDE DEF old
<1>2. SubSeq(ring, Cardinality(old) + 1, Len(ring)) \in Seq(V)
  BY <1>1
<1>3. F!Replay(c) = SubSeq(ring, Cardinality(old) + 1, Len(ring))
  BY PartsCount DEF F!Replay, old
<1> QED
  BY <1>2, <1>3

LEMMA PublishLeads ==
  ASSUME NEW K, NEW D, Leads(K, D), NEW p \in Runners, NEW kind \in {"start", "end"}, NEW r \in Nat,
         kind = "end" => r \in K, F!Publish(p, kind, r)
  PROVE  /\ seq' \in Nat /\ ring' \in Seq(Events(K))
         /\ out' \in [Runners -> [ev : Events(K), to : SUBSET F!Conns]]
<1> DEFINE ev == [seq |-> seq + 1, kind |-> kind, run |-> r]
<1>1. ev \in Events(K)
  BY DEF Events, Leads
<1>2. Append(ring, ev) \in Seq(Events(K))
  BY <1>1 DEF Leads
<1>3. F!Latest(Append(ring, ev)) \in Seq(Events(K))
  BY <1>2, LatestOf, FeedAssumption
<1>4. /\ seq' = seq + 1 /\ ring' = F!Latest(Append(ring, ev))
      /\ out' = [out EXCEPT ![p] = [ev |-> ev, to |-> subs]]
  BY DEF F!Publish
<1>5. subs \subseteq F!Conns
  BY DEF Leads
<1> QED
  BY <1>1, <1>3, <1>4, <1>5 DEF Leads

(* A process that stops has nothing on its way to anybody. *)
LEMMA StopLeads ==
  ASSUME NEW K, NEW D, Leads(K, D), RunsTyped, F!Stop
  PROVE  Leads(K, D)' /\ clock' \in Nat /\ expired' \in Nat /\ run' \in [Runners -> Nat]
<1> USE DEF Leads, RunsTyped
<1>1. F!NoOut \in [ev : Events(K), to : SUBSET F!Conns]
  BY DEF F!NoOut, F!NoEvent, F!NoRun, Events
<1>2. F!NoServe \in Connection(K) /\ [F!NoServe EXCEPT !.at = "closed"] \in Connection(K)
  <2>1. <<>> \in Seq(Events(K))
    OBVIOUS
  <2> QED
    BY <2>1 DEF F!NoServe, Connection, Places
<1>3. /\ seq' = 0 /\ ring' = <<>> /\ subs' = {}
      /\ runner' = [p \in Runners |-> "idle"]
      /\ out' \in [Runners -> [ev : Events(K), to : SUBSET F!Conns]]
      /\ run' \in [Runners -> Nat]
      /\ doomed' \in [Runners -> SUBSET D]
  BY <1>1 DEF F!Stop, F!NoRun
<1>4. server' \in [F!Conns -> Connection(K)]
  BY <1>2 DEF F!Stop
<1>5. browser' \in [conn : Nat, last : Nat, told : SUBSET K]
  BY DEF F!Stop, F!Offline
<1>6. UNCHANGED <<runs, clock, expired>>
  BY DEF F!Stop
<1> QED
  BY <1>3, <1>4, <1>5, <1>6 DEF Doing

(* What a step of a runner does to what leads to the browser, if the runs are
   kept, and condemned, as they may be. *)
LEMMA RunnerLeads ==
  ASSUME NEW K, NEW D, Leads(K, D), RunsTyped, NEW p \in Runners,
         F!StartRun(p) \/ F!Runner(p),
         F!Save(p) \/ F!SaveFails(p) => run[p] \in K,
         \A e \in F!Surplus(expired') : F!List(p) => e \in D
  PROVE  Leads(K, D)' /\ clock' \in Nat /\ expired' \in Nat /\ run' \in [Runners -> Nat]
<1> USE DEF Leads, RunsTyped
<1>1. CASE F!StartRun(p)
  <2>1. clock + 1 \in Nat
    OBVIOUS
  <2>2. F!Publish(p, "start", clock + 1)
    BY <1>1 DEF F!StartRun
  <2>3. /\ seq' \in Nat /\ ring' \in Seq(Events(K))
        /\ out' \in [Runners -> [ev : Events(K), to : SUBSET F!Conns]] /\ subs' = subs
    BY <2>1, <2>2, PublishLeads DEF F!Publish
  <2>4. runner' \in [Runners -> Doing] /\ runner'[p] = "startsend"
        /\ \A q \in Runners : q # p => runner'[q] = runner[q] /\ run'[q] = run[q]
    BY <1>1 DEF F!StartRun, Doing
  <2> QED
    BY <1>1, <2>1, <2>3, <2>4 DEF F!StartRun
<1>2. \A to \in Doing : \A from : F!Sent(p, from, to) =>
        /\ runner[p] = from
        /\ runner' \in [Runners -> Doing] /\ out' \in [Runners -> [ev : Events(K), to : SUBSET F!Conns]]
        /\ runner'[p] = to /\ \A q \in Runners : q # p => runner'[q] = runner[q]
  <2>1. F!NoOut \in [ev : Events(K), to : SUBSET F!Conns]
    BY DEF F!NoOut, F!NoEvent, F!NoRun, Events
  <2> QED
    BY <2>1 DEF F!Sent
<1>3. CASE F!RunWorks(p)
  BY <1>2, <1>3 DEF F!RunWorks, F!bus, F!store, Doing
<1>4. CASE F!EndRun(p)
  BY <1>2, <1>4 DEF F!EndRun, F!bus, F!NoRun, Doing
<1>5. CASE F!Save(p)
  BY <1>5 DEF F!Save, F!bus, Doing
<1>6. CASE F!SaveFails(p)
  BY <1>6 DEF F!SaveFails, F!bus, F!store, Doing
<1>7. CASE F!List(p)
  <2>1. expired' \in Nat /\ doomed' = [doomed EXCEPT ![p] = F!Surplus(expired')]
    BY <1>7 DEF F!List
  <2>2. F!Surplus(expired') \in SUBSET D
    BY <1>7
  <2> QED
    BY <1>7, <2>1, <2>2 DEF F!List, F!bus, Doing
<1>8. CASE F!Delete(p)
  BY <1>8 DEF F!Delete, F!bus
<1>9. CASE F!PublishEnd(p)
  <2>1. run[p] \in K /\ run[p] \in Nat
    BY <1>9 DEF F!PublishEnd
  <2>2. F!Publish(p, "end", run[p])
    BY <1>9 DEF F!PublishEnd
  <2>3. /\ seq' \in Nat /\ ring' \in Seq(Events(K))
        /\ out' \in [Runners -> [ev : Events(K), to : SUBSET F!Conns]] /\ subs' = subs
    BY <2>1, <2>2, PublishLeads DEF F!Publish
  <2> QED
    BY <1>9, <2>1, <2>3 DEF F!PublishEnd, F!store, Doing
<1>10. ASSUME NEW c \in F!Conns, F!Send(p, c)
       PROVE  Leads(K, D)' /\ clock' \in Nat /\ expired' \in Nat /\ run' \in [Runners -> Nat]
  <2>1. out' \in [Runners -> [ev : Events(K), to : SUBSET F!Conns]]
    BY <1>10 DEF F!Send
  <2>2. server' \in [F!Conns -> Connection(K)]
    <3>1. server[c].buf \in Seq(Events(K)) /\ out[p].ev \in Events(K)
      BY DEF Connection
    <3>2. Append(server[c].buf, out[p].ev) \in Seq(Events(K))
      BY <3>1
    <3>3. CASE server' = server
      BY <3>3
    <3>4. CASE server' = [server EXCEPT ![c].buf = Append(@, out[p].ev)]
      <4>1. [server[c] EXCEPT !.buf = Append(@, out[p].ev)] \in Connection(K)
        BY <3>2 DEF Connection
      <4> QED
        BY <3>4, <4>1
    <3> QED
      BY <1>10, <3>3, <3>4 DEF F!Send
  <2> QED
    BY <1>10, <2>1, <2>2 DEF F!Send, F!bus, F!store
<1>11. ASSUME NEW c \in F!Conns, F!SendPanics(p, c)
       PROVE  Leads(K, D)' /\ clock' \in Nat /\ expired' \in Nat /\ run' \in [Runners -> Nat]
  <2>1. CASE F!Stop
    BY <2>1, StopLeads
  <2>2. CASE /\ runner' = [runner EXCEPT ![p] = "idle"]
             /\ out' = [out EXCEPT ![p] = F!NoOut]
             /\ run' = [run EXCEPT ![p] = F!NoRun]
             /\ UNCHANGED <<F!bus, doomed, runs, clock, expired, server, browser, restarts>>
    <3>1. F!NoOut \in [ev : Events(K), to : SUBSET F!Conns] /\ F!NoRun \in Nat /\ "idle" \in Doing
      BY DEF F!NoOut, F!NoEvent, F!NoRun, Events, Doing
    <3>2. runner' \in [Runners -> Doing] /\ out' \in [Runners -> [ev : Events(K), to : SUBSET F!Conns]]
          /\ run' \in [Runners -> Nat]
      BY <2>2, <3>1
    <3> QED
      BY <2>2, <3>2 DEF F!bus
  <2> QED
    BY <1>11, <2>1, <2>2 DEF F!SendPanics
<1> QED
  BY <1>1, <1>3, <1>4, <1>5, <1>6, <1>7, <1>8, <1>9, <1>10, <1>11 DEF F!Runner

(* The connections hand on what is on its way. *)
LEMMA ConnectionLeads ==
  ASSUME NEW K, NEW D, Leads(K, D), F!Bounds, NEW c \in F!Conns, F!Connect(c) \/ F!Server(c)
  PROVE  Leads(K, D)'
<1> USE DEF Leads
<1>1. server[c] \in Connection(K) /\ c \in Nat
  BY DEF F!Conns, F!Bounds
<1>2. ASSUME NEW new \in Connection(K), server' = [server EXCEPT ![c] = new],
             browser' \in [conn : Nat, last : Nat, told : SUBSET K], subs' \subseteq F!Conns,
             UNCHANGED <<seq, ring, runner, out, F!store>>
      PROVE  Leads(K, D)'
  BY <1>2 DEF F!store
<1>3. ASSUME NEW e \in Events(K), F!Receive(c, e)
      PROVE  browser' \in [conn : Nat, last : Nat, told : SUBSET K]
  BY <1>3 DEF F!Receive, Events
<1>4. CASE F!Connect(c)
  <2>1. [server[c] EXCEPT !.at = "accepted", !.since = browser.last] \in Connection(K)
    BY <1>1 DEF Connection, Places
  <2>2. server' = [server EXCEPT ![c] = [server[c] EXCEPT !.at = "accepted", !.since = browser.last]]
    BY <1>4 DEF F!Connect
  <2>3. browser' \in [conn : Nat, last : Nat, told : SUBSET K]
    BY <1>1, <1>4 DEF F!Connect
  <2> QED
    BY <1>2, <1>4, <2>1, <2>2, <2>3 DEF F!Connect, F!bus
<1>5. CASE F!Recent(c)
  <2> DEFINE new == [server[c] EXCEPT !.at = "replay", !.since = 0, !.backlog = F!Replay(c)]
  <2>1. F!Replay(c) \in Seq(Events(K))
    BY ReplayOf
  <2>2. new \in Connection(K)
    BY <1>1, <2>1 DEF Connection, Places
  <2>3. server' = [server EXCEPT ![c] = new]
    BY <1>5 DEF F!Recent
  <2> HIDE DEF new
  <2> QED
    BY <1>2, <1>5, <2>2, <2>3 DEF F!Recent, F!bus
<1>6. CASE F!WriteBacklog(c)
  <2> DEFINE q == server[c].backlog
             new == [server[c] EXCEPT !.backlog = Tail(@)]
  <2>1. q \in Seq(Events(K)) /\ q # <<>>
    BY <1>1, <1>6 DEF Connection, F!WriteBacklog
  <2>2. Head(q) \in Events(K) /\ Tail(q) \in Seq(Events(K))
    BY <2>1
  <2>3. new \in Connection(K)
    BY <1>1, <2>2 DEF Connection
  <2>4. server' = [server EXCEPT ![c] = new] /\ F!Receive(c, Head(q))
    BY <1>6 DEF F!WriteBacklog
  <2> HIDE DEF new, q
  <2> QED
    BY <1>2, <1>3, <1>6, <2>2, <2>3, <2>4 DEF F!WriteBacklog, F!bus
<1>7. CASE F!Push(c)
  <2> DEFINE q == server[c].buf
             new == [server[c] EXCEPT !.buf = Tail(@)]
  <2>1. q \in Seq(Events(K)) /\ q # <<>>
    BY <1>1, <1>7 DEF Connection, F!Push
  <2>2. Head(q) \in Events(K) /\ Tail(q) \in Seq(Events(K))
    BY <2>1
  <2>3. new \in Connection(K)
    BY <1>1, <2>2 DEF Connection
  <2>4. server' = [server EXCEPT ![c] = new] /\ F!Receive(c, Head(q))
    BY <1>7 DEF F!Push
  <2> HIDE DEF new, q
  <2> QED
    BY <1>2, <1>3, <1>7, <2>2, <2>3, <2>4 DEF F!Push, F!bus
<1>8. CASE F!Subscribe(c) \/ F!Unsubscribe(c)
  <2>1. PICK at \in {"stream", "leaving"} : server' = [server EXCEPT ![c].at = at]
    BY <1>8 DEF F!Subscribe, F!Unsubscribe
  <2>2. [server[c] EXCEPT !.at = at] \in Connection(K)
    BY <1>1 DEF Connection, Places
  <2> QED
    BY <1>2, <1>8, <2>1, <2>2 DEF F!Subscribe, F!Unsubscribe
<1>9. CASE F!Close(c)
  <2>1. [F!NoServe EXCEPT !.at = "closed"] \in Connection(K)
    <3>1. <<>> \in Seq(Events(K))
      OBVIOUS
    <3> QED
      BY <3>1 DEF F!NoServe, Connection, Places
  <2> QED
    BY <1>2, <1>9, <2>1 DEF F!Close, F!bus
<1> QED
  BY <1>4, <1>5, <1>6, <1>7, <1>8, <1>9 DEF F!Server

(* Retention takes the oldest first: a run that is gone stays gone, and one
   that is kept is kept or gone. *)
LEMMA KeptStays ==
  ASSUME FeedInv, F!Bounds, [F!MCNext]_feed
  PROVE  Kept \subseteq Kept' /\ Gone \subseteq Gone' /\ IsFiniteSet(runs') /\ runs' \subseteq Nat
         /\ unsaved \subseteq unsaved'
<1> USE DEF FeedInv, RunsTyped
<1>1. unsaved \subseteq unsaved'
  BY DEF F!MCNext, feed
<1>2. Keep \in Nat
  BY DEF F!Bounds
<1>3. ASSUME NEW T \in SUBSET Nat, IsFiniteSet(T), runs' = T, expired' \in Nat, expired <= expired',
             \A r \in Nat \ Gone' : {s \in runs : s > r} \subseteq T,
             \A r \in runs \ T : r \in Gone'
      PROVE  Kept \subseteq Kept' /\ Gone \subseteq Gone'
  <2>1. ASSUME NEW r \in Gone PROVE r \in Gone'
    <3> SUFFICES ASSUME r \notin Gone' PROVE FALSE
      OBVIOUS
    <3>1. {s \in runs : s > r} \subseteq {s \in T : s > r} /\ IsFiniteSet({s \in T : s > r})
      BY <1>3, FS_Subset DEF Gone
    <3>2. /\ Cardinality({s \in runs : s > r}) <= Cardinality({s \in T : s > r})
          /\ Cardinality({s \in runs : s > r}) \in Nat /\ Cardinality({s \in T : s > r}) \in Nat
      BY <3>1, FS_Subset, FS_CardinalityType
    <3>3. r \in Nat /\ ~(r <= expired') /\ ~(Cardinality({s \in T : s > r}) >= Keep)
      BY <1>3 DEF Gone
    <3> QED
      BY <1>2, <1>3, <3>2, <3>3 DEF Gone
  <2> QED
    BY <1>1, <1>3, <2>1 DEF Kept
<1>4. CASE \E p \in Runners : F!Delete(p)
  <2> PICK p \in Runners : F!Delete(p)
    BY <1>4
  <2>1. PICK r \in doomed[p] : runs' = runs \ {r}
    BY DEF F!Delete
  <2>2. r \in Gone /\ r \in Nat /\ expired' = expired
    BY <2>1 DEF Leads, Gone, F!Delete
  <2>3. {s \in runs : s > r} = {s \in runs' : s > r}
    BY <2>1, <2>2
  <2>4. r \in Gone'
    BY <2>2, <2>3 DEF Gone
  <2>5. ASSUME NEW q \in Nat \ Gone' PROVE {s \in runs : s > q} \subseteq runs \ {r}
    <3> SUFFICES ASSUME r > q PROVE FALSE
      BY <2>2
    <3>1. ~(r <= expired)
      BY <2>2, <2>5 DEF Gone
    <3>2. Cardinality({s \in runs' : s > r}) >= Keep
      BY <2>2, <2>3, <3>1 DEF Gone
    <3>3. {s \in runs' : s > r} \subseteq {s \in runs' : s > q} /\ IsFiniteSet({s \in runs' : s > q})
      <4>1. runs' \subseteq Nat /\ r \in Nat /\ q \in Nat
        BY <2>1, <2>2
      <4>2. IsFiniteSet(runs')
        BY <2>1, FS_Subset
      <4>3. IsFiniteSet({s \in runs' : s > q})
        BY <4>2, FS_Subset
      <4>4. \A s \in Nat : s > r => s > q
        BY <4>1
      <4>5. {s \in runs' : s > r} \subseteq {s \in runs' : s > q}
        BY <4>1, <4>4
      <4> QED
        BY <4>3, <4>5
    <3>4. /\ Cardinality({s \in runs' : s > r}) <= Cardinality({s \in runs' : s > q})
          /\ Cardinality({s \in runs' : s > r}) \in Nat /\ Cardinality({s \in runs' : s > q}) \in Nat
      BY <3>3, FS_Subset, FS_CardinalityType
    <3> QED
      BY <1>2, <2>5, <3>2, <3>4 DEF Gone
  <2>6. IsFiniteSet(runs \ {r})
    BY FS_Subset
  <2> QED
    BY <1>1, <1>3, <2>1, <2>2, <2>4, <2>5, <2>6
<1>5. CASE /\ runs \subseteq runs' /\ runs' \subseteq Nat /\ IsFiniteSet(runs')
           /\ expired' \in Nat /\ expired <= expired'
  BY <1>1, <1>3, <1>5
<1>6. CASE \E p \in Runners : F!Save(p)
  BY <1>5, <1>6, FS_AddElement DEF F!Save
<1>7. CASE \E p \in Runners : F!List(p)
  BY <1>5, <1>7 DEF F!List
<1>8. CASE UNCHANGED <<runs, expired>>
  BY <1>5, <1>8
<1> QED
  BY <1>4, <1>6, <1>7, <1>8
  DEF F!MCNext, F!Next, F!Runner, F!StartRun, F!RunWorks, F!SaveFails, F!PublishEnd, F!EndRun,
      F!Send, F!SendPanics, F!Stop, F!Restart, F!Disconnect, F!Connect, F!Server, F!Recent,
      F!WriteBacklog, F!Subscribe, F!Push, F!Unsubscribe, F!Close, F!store, feed
LEMMA FeedStep == FeedInv /\ F!Bounds /\ [F!MCNext]_feed => FeedInv'
<1> SUFFICES ASSUME FeedInv, F!Bounds, [F!MCNext]_feed PROVE FeedInv'
  OBVIOUS
<1>1. /\ Kept \subseteq Kept' /\ Gone \subseteq Gone' /\ unsaved \subseteq unsaved'
      /\ IsFiniteSet(runs') /\ runs' \subseteq Nat
  BY KeptStays
<1> PICK K : K = Kept'
  OBVIOUS
<1> PICK D : D = Gone'
  OBVIOUS
<1>2. Leads(K, D) /\ RunsTyped
  BY <1>1, LeadsGrow DEF FeedInv
<1>3. (Leads(K, D)' => Leads(Kept, Gone)') /\ unsaved' \subseteq Nat
  <2>1. ASSUME Leads(K, D)' PROVE Leads(Kept, Gone)'
    BY <2>1 DEF Leads, Events, Connection
  <2>2. unsaved' \subseteq Nat
    <3>1. \A T \in SUBSET Runners : {run[p] : p \in T} \subseteq Nat
      BY <1>2 DEF RunsTyped
    <3>2. \E T \in SUBSET Runners : unsaved' \in {unsaved, unsaved \cup {run[p] : p \in T}}
      BY DEF F!MCNext, feed
    <3> QED
      BY <1>2, <3>1, <3>2 DEF RunsTyped
  <2> QED
    BY <2>1, <2>2
<1>4. ASSUME NEW p \in Runners, F!StartRun(p) \/ F!Runner(p), F!MCNext
      PROVE  Leads(K, D)' /\ clock' \in Nat /\ expired' \in Nat /\ run' \in [Runners -> Nat]
  <2>1. CASE F!Save(p)
    <3>1. run[p] \in K
      BY <2>1 DEF F!Save, Kept
    <3>2. ~F!List(p) /\ ~F!SaveFails(p)
      BY <2>1, <1>2 DEF F!Save, F!List, F!SaveFails, Leads
    <3> QED
      BY <1>2, <1>4, <3>1, <3>2, RunnerLeads
  <2>2. CASE F!SaveFails(p)
    <3>1. run[p] \in unsaved'
      BY <1>4, <2>2 DEF F!MCNext
    <3>2. run[p] \in K
      BY <3>1 DEF Kept
    <3>3. ~F!List(p)
      BY <2>2 DEF F!SaveFails, F!List
    <3> QED
      BY <1>2, <1>4, <3>2, <3>3, RunnerLeads
  <2>3. CASE F!List(p)
    <3>1. runs' = runs
      BY <2>3 DEF F!List
    <3>2. ASSUME NEW e \in F!Surplus(expired') PROVE e \in D
      BY <3>1, <3>2, <1>2, PartsCount DEF F!Surplus, Gone, RunsTyped
    <3>3. ~F!Save(p) /\ ~F!SaveFails(p)
      BY <2>3 DEF F!Save, F!List, F!SaveFails
    <3> QED
      BY <1>2, <1>4, <3>2, <3>3, RunnerLeads
  <2>4. CASE ~F!Save(p) /\ ~F!SaveFails(p) /\ ~F!List(p)
    BY <1>2, <1>4, <2>4, RunnerLeads
  <2> QED
    BY <2>1, <2>2, <2>3, <2>4
<1>5. ASSUME NEW c \in F!Conns, F!Connect(c) \/ F!Server(c)
      PROVE  Leads(K, D)' /\ UNCHANGED <<clock, expired, run>>
  <2>1. Leads(K, D)'
    BY <1>2, <1>5, ConnectionLeads
  <2>2. UNCHANGED <<clock, expired, run>>
    BY <1>5 DEF F!Connect, F!Server, F!Recent, F!WriteBacklog, F!Subscribe, F!Push, F!Unsubscribe,
                F!Close, F!store
  <2> QED
    BY <2>1, <2>2
<1>6. CASE F!Disconnect
  <2>1. browser' \in [conn : Nat, last : Nat, told : SUBSET K]
    BY <1>2, <1>6 DEF F!Disconnect, F!Offline, Leads
  <2>2. Leads(K, D)' /\ UNCHANGED <<clock, expired, run>>
    BY <1>2, <1>6, <2>1 DEF F!Disconnect, F!bus, F!store, Leads
  <2> QED
    BY <1>1, <1>2, <1>3, <2>2 DEF FeedInv, RunsTyped
<1>7. CASE F!Restart
  BY <1>1, <1>2, <1>3, <1>7, StopLeads DEF F!Restart, FeedInv, RunsTyped
<1>8. CASE UNCHANGED feed
  BY <1>1, <1>2, <1>3, <1>8 DEF feed, FeedInv, RunsTyped, Leads
<1> QED
  BY <1>1, <1>2, <1>3, <1>4, <1>5, <1>6, <1>7, <1>8 DEF F!MCNext, F!Next, FeedInv, RunsTyped

LEMMA FeedStarts == PlatformInit => FeedInv
<1> SUFFICES ASSUME PlatformInit PROVE FeedInv
  OBVIOUS
<1>1. F!MCInit
  BY DEF PlatformInit
<1>2. RunsTyped
  BY <1>1, FS_EmptySet DEF F!MCInit, F!Init, RunsTyped, F!NoRun
<1>3. F!NoOut \in [ev : Events(Kept), to : SUBSET F!Conns] /\ F!NoServe \in Connection(Kept)
  <2>1. <<>> \in Seq(Events(Kept))
    OBVIOUS
  <2> QED
    BY <2>1 DEF F!NoServe, Connection, Places, F!NoOut, F!NoEvent, F!NoRun, Events
<1>4. <<>> \in Seq(Events(Kept))
  OBVIOUS
<1>5. Leads(Kept, Gone)
  BY <1>1, <1>3, <1>4 DEF F!MCInit, F!Init, Leads, Doing, F!Offline
<1> QED
  BY <1>2, <1>5 DEF FeedInv

(* For any numbers of runs, connections and restarts, and any capacities: a
   run the browser was told the end of is in the list of runs. *)
THEOREM ToldStored == PlatformSpec => []ToldIsStored
<1>1. FeedInv => ToldIsStored
  BY PartsCount DEF FeedInv, Leads, Kept, Gone, RunsTyped, ToldIsStored, F!ToldIsStored
<1> QED
  BY <1>1, FeedStarts, FeedStep, FeedAssumption, PartsStep, PTL DEF PlatformSpec

-----------------------------------------------------------------------------
(* The event stream. The ring holds the last events under consecutive
   numbers. *)
RingInv ==
    /\ Len(ring) = (IF seq < RingCap THEN seq ELSE RingCap)
    /\ \A i \in DOMAIN ring : ring[i].seq = seq - Len(ring) + i

(* The goroutines that are sending; one that is not has nothing to send. *)
Senders == {p \in Runners : out[p].to # {}}
Quiet == restarts \in Nat /\ \A p \in Runners : runner[p] \notin F!Sending => out[p].to = {}

(* What is on its way to a connection: the backlog is in the order of the
   numbers, and no number is twice in the channel and what is being sent. *)
Line(c) ==
    /\ server[c].at \in {"none", "accepted", "replay"} =>
         server[c].buf = <<>> /\ c \notin subs /\ \A p \in Runners : c \notin out[p].to
    /\ server[c].at = "stream" => c \in subs
    /\ server[c].at # "replay" => server[c].backlog = <<>>
    /\ \A i \in DOMAIN server[c].backlog :
         /\ server[c].backlog[i].seq <= seq
         /\ \A j \in DOMAIN server[c].backlog :
              i < j => server[c].backlog[i].seq < server[c].backlog[j].seq
    /\ \A i \in DOMAIN server[c].buf :
         /\ server[c].buf[i].seq <= seq
         /\ \A j \in DOMAIN server[c].buf : server[c].buf[i].seq = server[c].buf[j].seq => i = j
    /\ \A p \in Runners : c \in out[p].to =>
         /\ out[p].ev.seq <= seq
         /\ \A i \in DOMAIN server[c].buf : server[c].buf[i].seq # out[p].ev.seq
         /\ \A q \in Runners : c \in out[q].to /\ out[p].ev.seq = out[q].ev.seq => p = q

(* What the browser has received on its connection does not come again. *)
Received(c) ==
    /\ c \in F!Conns /\ server[c].at \in {"accepted", "replay", "stream"}
    /\ server[c].at = "accepted" => got = {}
    /\ \A x \in got :
         /\ x \in Nat /\ x <= seq
         /\ \A i \in DOMAIN server[c].backlog : x < server[c].backlog[i].seq
         /\ \A i \in DOMAIN server[c].buf : x # server[c].buf[i].seq
         /\ \A p \in Runners : c \in out[p].to => x # out[p].ev.seq

(* The browser's connection is one that is served. *)
Reaches == browser.conn # F!Offline => Received(browser.conn)

(* In smooth histories what is on its way continues what the browser has, and
   it is all there is. *)
Follows(c) ==
    /\ server[c].at = "accepted" => server[c].since = browser.last
    /\ server[c].at = "replay" =>
         /\ browser.last + Len(server[c].backlog) = seq
         /\ \A i \in DOMAIN server[c].backlog : server[c].backlog[i].seq = browser.last + i
    /\ server[c].at = "stream" =>
         /\ \A i \in DOMAIN server[c].buf : server[c].buf[i].seq = browser.last + i
         /\ IF \E p \in Runners : c \in out[p].to
            THEN /\ browser.last + Len(server[c].buf) + 1 = seq
                 /\ \A p \in Runners : c \in out[p].to => out[p].ev.seq = seq
            ELSE browser.last + Len(server[c].buf) = seq
Trails == browser.conn # F!Offline => Follows(browser.conn)
Smoothly ==
    steady => /\ browser.last <= seq
              /\ \A p, q \in Senders : p = q
              /\ Trails

(* The types, whatever is stored. *)
Types == Leads(Nat, Nat)
OrderInv ==
    /\ Types /\ Quiet /\ RingInv /\ IsFiniteSet(Senders) /\ steady \in BOOLEAN
    /\ \A c \in F!Conns : Line(c)
    /\ Reaches /\ Smoothly

LEMMA FeedTypes == FeedInv => Types
<1> SUFFICES ASSUME FeedInv PROVE Types
  OBVIOUS
<1>1. Kept \subseteq Nat /\ Gone \subseteq Nat
  BY DEF FeedInv, RunsTyped, Kept, Gone
<1> QED
  BY <1>1, LeadsGrow DEF FeedInv, Types

(* The ring has the last events in the order of their numbers. *)
LEMMA RingPublish ==
  ASSUME FeedAssumption, Types, RingInv, NEW p \in Runners, NEW kind, NEW r, F!Publish(p, kind, r)
  PROVE  RingInv'
<1> DEFINE ev == [seq |-> seq + 1, kind |-> kind, run |-> r]
           q  == Append(ring, ev)
<1>1. seq \in Nat /\ Len(ring) \in Nat /\ RingCap \in Nat \ {0} /\ seq' = seq + 1
  BY FeedAssumption DEF Types, Leads, F!Bounds, F!Publish
<1>2. Len(q) = Len(ring) + 1 /\ DOMAIN q = 1 .. Len(ring) + 1
      /\ \A i \in DOMAIN q : q[i].seq = seq - Len(ring) + i
  <2>1. ring \in Seq(Events(Nat) \cup {ev})
    BY DEF Types, Leads
  <2>2. \A i \in DOMAIN ring : ring[i].seq = seq - Len(ring) + i
    BY DEF RingInv
  <2> HIDE DEF ev
  <2>3. /\ Len(q) = Len(ring) + 1 /\ DOMAIN q = 1 .. Len(ring) + 1
        /\ \A i \in 1 .. Len(ring) : i \in DOMAIN ring /\ q[i] = ring[i]
        /\ q[Len(ring) + 1] = ev
    BY <2>1
  <2>4. ev.seq = seq - Len(ring) + (Len(ring) + 1)
    BY <1>1 DEF ev
  <2> HIDE DEF q
  <2> QED
    BY <1>1, <2>2, <2>3, <2>4
<1>3. ring' = F!Latest(q)
  BY DEF F!Publish
<1> HIDE DEF q
<1>4. CASE Len(ring) < RingCap
  <2>1. ring' = q
    BY <1>1, <1>2, <1>3, <1>4 DEF F!Latest
  <2> QED
    BY <1>1, <1>2, <1>4, <2>1 DEF RingInv
<1>5. CASE ~(Len(ring) < RingCap)
  <2>1. Len(ring) = RingCap /\ seq >= RingCap
    BY <1>1, <1>5 DEF RingInv
  <2>2. ring' = SubSeq(q, 2, RingCap + 1)
    BY <1>1, <1>2, <1>3, <2>1 DEF F!Latest
  <2>3. Len(ring') = RingCap /\ DOMAIN ring' = 1 .. RingCap
        /\ \A i \in 1 .. RingCap : ring'[i] = q[i + 1]
    <3>1. q \in Seq(Events(Nat) \cup {ev})
      BY DEF q, Types, Leads
    <3> QED
      BY <1>1, <1>2, <2>1, <2>2, <3>1
  <2>4. ASSUME NEW i \in 1 .. RingCap PROVE ring'[i].seq = seq' - RingCap + i
    <3>1. i + 1 \in DOMAIN q /\ ring'[i] = q[i + 1]
      BY <1>1, <1>2, <2>1, <2>3
    <3>2. q[i + 1].seq = seq - Len(ring) + (i + 1)
      BY <1>2, <3>1
    <3> QED
      BY <1>1, <2>1, <3>1, <3>2
  <2>5. ~(seq' < RingCap)
    BY <1>1, <2>1
  <2> QED
    BY <2>3, <2>4, <2>5 DEF RingInv
<1> QED
  BY <1>4, <1>5

(* What is replayed is the end of the ring; all that is numbered after the id
   if the ring reaches back to it. *)
LEMMA ReplayIs ==
  ASSUME Types, RingInv, NEW c \in F!Conns
  PROVE  \E k \in 0 .. Len(ring) :
           /\ F!Replay(c) = SubSeq(ring, k + 1, Len(ring))
           /\ server[c].since \in seq - Len(ring) .. seq => k = server[c].since - (seq - Len(ring))
<1> DEFINE L == Len(ring)
           n == server[c].since
           old == {i \in DOMAIN ring : ring[i].seq <= n}
           m == n - (seq - L)
           k == IF m < 0 THEN 0 ELSE IF m > L THEN L ELSE m
<1>1. seq \in Nat /\ L \in Nat /\ n \in Nat /\ DOMAIN ring = 1 .. L
  BY DEF Types, Leads, Connection
<1>2. k \in 0 .. L
  BY <1>1
<1>3. old = 1 .. k
  <2>1. \A i \in 1 .. L : ring[i].seq = seq - L + i
    BY <1>1 DEF RingInv
  <2> QED
    BY <1>1, <2>1
<1> HIDE DEF old
<1>4. Cardinality(1 .. k) = k
  <2>1. k \in Nat
    BY <1>1, <1>2
  <2> HIDE DEF k
  <2> QED
    BY <2>1, FS_Interval
<1>5. F!Replay(c) = SubSeq(ring, k + 1, L)
  <2>1. F!Replay(c) = SubSeq(ring, Cardinality(old) + 1, L)
    BY PartsCount DEF F!Replay, old
  <2> QED
    BY <1>3, <1>4, <2>1
<1>6. n \in seq - L .. seq => k = n - (seq - L)
  BY <1>1
<1> QED
  BY <1>2, <1>5, <1>6

(* A connection whose goroutine does nothing, while no more is being sent to
   it. *)
LEMMA LineStays ==
  ASSUME Types, NEW c \in F!Conns, Line(c), server'[c] = server[c], c \in subs' <=> c \in subs,
         seq' = seq,
         \A p \in Runners : c \in out'[p].to => c \in out[p].to /\ out'[p].ev = out[p].ev
  PROVE  Line(c)'
BY DEF Line

LEMMA LinePublish ==
  ASSUME Types, NEW c \in F!Conns, Line(c), NEW p \in Runners, NEW kind, NEW r,
         F!Publish(p, kind, r), server' = server
  PROVE  Line(c)'
<1> DEFINE ev == [seq |-> seq + 1, kind |-> kind, run |-> r]
<1>1. /\ seq' = seq + 1 /\ seq \in Nat /\ subs' = subs
      /\ out'[p].to = subs /\ out'[p].ev.seq = seq + 1
      /\ \A q \in Runners : q # p => out'[q] = out[q]
  BY DEF F!Publish, Types, Leads
<1>2. /\ \A i \in DOMAIN server[c].backlog : server[c].backlog[i].seq \in Nat
      /\ \A i \in DOMAIN server[c].buf : server[c].buf[i].seq \in Nat
      /\ \A q \in Runners : out[q].ev.seq \in Nat
  BY DEF Types, Leads, Connection, Events
<1>3. server'[c] = server[c]
  OBVIOUS
<1>4. ASSUME server[c].at \in {"none", "accepted", "replay"}
      PROVE  server[c].buf = <<>> /\ c \notin subs /\ \A q \in Runners : c \notin out'[q].to
  BY <1>1, <1>4 DEF Line
<1>5. ASSUME NEW i \in DOMAIN server[c].backlog
      PROVE  /\ server[c].backlog[i].seq <= seq + 1
             /\ \A j \in DOMAIN server[c].backlog :
                  i < j => server[c].backlog[i].seq < server[c].backlog[j].seq
  BY <1>1, <1>2 DEF Line
<1>6. ASSUME NEW i \in DOMAIN server[c].buf
      PROVE  /\ server[c].buf[i].seq <= seq + 1 /\ server[c].buf[i].seq # seq + 1
             /\ \A j \in DOMAIN server[c].buf : server[c].buf[i].seq = server[c].buf[j].seq => i = j
  BY <1>1, <1>2 DEF Line
<1>7. ASSUME NEW q \in Runners, c \in out'[q].to
      PROVE  /\ out'[q].ev.seq <= seq + 1
             /\ \A i \in DOMAIN server[c].buf : server[c].buf[i].seq # out'[q].ev.seq
             /\ \A o \in Runners : c \in out'[o].to /\ out'[q].ev.seq = out'[o].ev.seq => q = o
  <2>1. CASE q = p
    <3>1. \A o \in Runners : o # p /\ c \in out'[o].to => out'[o].ev.seq <= seq
      BY <1>1 DEF Line
    <3> QED
      BY <1>1, <1>2, <1>6, <2>1, <3>1
  <2>2. CASE q # p
    <3>1. out'[q] = out[q] /\ out[q].ev.seq <= seq
      BY <1>1, <1>7, <2>2 DEF Line
    <3>2. \A i \in DOMAIN server[c].buf : server[c].buf[i].seq # out[q].ev.seq
      BY <1>7, <3>1 DEF Line
    <3>3. \A o \in Runners : c \in out'[o].to /\ out'[q].ev.seq = out'[o].ev.seq => q = o
      BY <1>1, <1>2, <1>7, <3>1 DEF Line
    <3> QED
      BY <1>1, <1>2, <3>1, <3>2, <3>3
  <2> QED
    BY <2>1, <2>2
<1> QED
  BY <1>1, <1>3, <1>4, <1>5, <1>6, <1>7 DEF Line

(* One more event in the buffer, or one that finds it full. *)
LEMMA LineSend ==
  ASSUME Types, NEW c \in F!Conns, Line(c), NEW p \in Runners, F!Send(p, c)
  PROVE  Line(c)'
<1>1. /\ seq' = seq /\ subs' = subs /\ c \in out[p].to
      /\ out'[p].to = out[p].to \ {c} /\ out'[p].ev = out[p].ev
      /\ \A q \in Runners : q # p => out'[q] = out[q]
  BY DEF F!Send, F!bus, Types, Leads
<1>2. /\ server'[c].at = server[c].at /\ server'[c].backlog = server[c].backlog
      /\ server'[c].buf = server[c].buf \/ server'[c].buf = Append(server[c].buf, out[p].ev)
  BY DEF F!Send, Types, Leads, Connection
<1>3. server[c].at \notin {"none", "accepted", "replay"}
  BY <1>1 DEF Line
<1>4. CASE server'[c].buf = server[c].buf
  BY <1>1, <1>2, <1>3, <1>4 DEF Line
<1>5. CASE server'[c].buf = Append(server[c].buf, out[p].ev)
  <2> DEFINE b == server[c].buf
             d == server'[c].buf
  <2>1. /\ Len(b) \in Nat /\ DOMAIN b = 1 .. Len(b) /\ DOMAIN d = 1 .. Len(b) + 1
        /\ \A i \in 1 .. Len(b) : d[i] = b[i]
        /\ d[Len(b) + 1] = out[p].ev
    <3>1. b \in Seq(Events(Nat)) /\ out[p].ev \in Events(Nat)
      BY DEF Types, Leads, Connection
    <3> HIDE DEF b
    <3>2. d = Append(b, out[p].ev)
      BY <1>5 DEF b
    <3> HIDE DEF d
    <3> QED
      BY <3>1, <3>2
  <2>2. /\ \A i \in DOMAIN b : /\ b[i].seq <= seq /\ b[i].seq # out[p].ev.seq
                               /\ \A j \in DOMAIN b : b[i].seq = b[j].seq => i = j
        /\ out[p].ev.seq <= seq
    BY <1>1 DEF Line
  <2>3. \A q \in Runners : c \in out'[q].to =>
          /\ q # p /\ c \in out[q].to /\ out'[q] = out[q]
          /\ \A i \in DOMAIN b : b[i].seq # out[q].ev.seq
          /\ out[p].ev.seq # out[q].ev.seq /\ out[q].ev.seq <= seq
    BY <1>1 DEF Line
  <2> HIDE DEF b, d
  <2>4. \A i \in DOMAIN d : /\ d[i].seq <= seq
                            /\ \A j \in DOMAIN d : d[i].seq = d[j].seq => i = j
    <3>1. \A i \in DOMAIN d : (i \in DOMAIN b /\ d[i] = b[i]) \/ (i = Len(b) + 1 /\ d[i] = out[p].ev)
      BY <2>1
    <3> QED
      BY <2>2, <3>1
  <2>5. \A q \in Runners : c \in out'[q].to =>
          /\ out'[q].ev.seq <= seq
          /\ \A i \in DOMAIN d : d[i].seq # out'[q].ev.seq
          /\ \A o \in Runners : c \in out'[o].to /\ out'[q].ev.seq = out'[o].ev.seq => q = o
    <3>1. \A q \in Runners : c \in out'[q].to => \A i \in DOMAIN d : d[i].seq # out'[q].ev.seq
      <4>1. \A i \in DOMAIN d : (i \in DOMAIN b /\ d[i] = b[i]) \/ (i = Len(b) + 1 /\ d[i] = out[p].ev)
        BY <2>1
      <4> QED
        BY <2>3, <4>1
    <3>2. \A q, o \in Runners : c \in out[q].to /\ c \in out[o].to /\ out[q].ev.seq = out[o].ev.seq => q = o
      BY DEF Line
    <3> QED
      BY <2>3, <3>1, <3>2
  <2>6. server[c].at = "stream" => c \in subs
    BY DEF Line
  <2>7. server[c].at # "replay" => server[c].backlog = <<>>
    BY DEF Line
  <2> QED
    BY <1>1, <1>2, <1>3, <2>4, <2>5, <2>6, <2>7 DEF Line, d
<1> QED
  BY <1>2, <1>4, <1>5

LEMMA LineServer ==
  ASSUME Types, RingInv, NEW c \in F!Conns, Line(c), F!Connect(c) \/ F!Server(c)
  PROVE  Line(c)'
<1>1. seq \in Nat /\ server[c] \in Connection(Nat) /\ ring \in Seq(Events(Nat))
  BY DEF Types, Leads
<1>2. CASE F!Connect(c)
  <2>1. /\ seq' = seq /\ out' = out /\ subs' = subs
        /\ server[c].at = "none" /\ server'[c].at = "accepted"
        /\ server'[c].backlog = server[c].backlog /\ server'[c].buf = server[c].buf
    BY <1>2 DEF F!Connect, F!bus, Types, Leads
  <2> QED
    BY <2>1 DEF Line
<1>3. CASE F!Recent(c)
  <2> DEFINE b == server'[c].backlog
  <2>1. /\ seq' = seq /\ out' = out /\ subs' = subs
        /\ server[c].at = "accepted" /\ server'[c].at = "replay"
        /\ b = F!Replay(c) /\ server'[c].buf = server[c].buf
    BY <1>3 DEF F!Recent, F!bus, Types, Leads
  <2>2. PICK k \in 0 .. Len(ring) : F!Replay(c) = SubSeq(ring, k + 1, Len(ring))
    BY ReplayIs
  <2>3. \A i \in DOMAIN b : i \in Nat /\ b[i] = ring[k + i] /\ k + i \in DOMAIN ring
    BY <1>1, <2>1, <2>2
  <2>4. \A i \in DOMAIN b : i \in Nat /\ b[i].seq = seq - Len(ring) + (k + i) /\ k + i <= Len(ring)
    BY <1>1, <2>3 DEF RingInv
  <2> HIDE DEF b
  <2>5. ASSUME NEW i \in DOMAIN b
        PROVE  b[i].seq <= seq /\ \A j \in DOMAIN b : i < j => b[i].seq < b[j].seq
    BY <1>1, <2>2, <2>4
  <2> QED
    BY <2>1, <2>5 DEF Line, b
<1>4. CASE F!WriteBacklog(c)
  <2> DEFINE a == server[c].backlog
             b == server'[c].backlog
  <2>1. /\ seq' = seq /\ out' = out /\ subs' = subs /\ a # <<>>
        /\ server[c].at = "replay" /\ server'[c].at = "replay"
        /\ b = Tail(a) /\ server'[c].buf = server[c].buf
    BY <1>4 DEF F!WriteBacklog, F!bus, Types, Leads
  <2>2. \A i \in DOMAIN b : i \in Nat /\ i + 1 \in DOMAIN a /\ b[i] = a[i + 1]
    <3>1. a \in Seq(Events(Nat)) /\ a # <<>> /\ b = Tail(a)
      BY <1>1, <2>1 DEF Connection
    <3> HIDE DEF a, b
    <3> QED
      BY <3>1
  <2>3. \A i \in DOMAIN a : a[i].seq <= seq /\ \A j \in DOMAIN a : i < j => a[i].seq < a[j].seq
    BY DEF Line
  <2> HIDE DEF a, b
  <2>4. ASSUME NEW i \in DOMAIN b
        PROVE  b[i].seq <= seq /\ \A j \in DOMAIN b : i < j => b[i].seq < b[j].seq
    BY <2>2, <2>3
  <2> QED
    BY <2>1, <2>4 DEF Line, b
<1>5. CASE F!Subscribe(c)
  <2>1. /\ seq' = seq /\ out' = out /\ subs' = subs \cup {c}
        /\ server[c].at = "replay" /\ server'[c].at = "stream"
        /\ server'[c].backlog = server[c].backlog /\ server'[c].buf = server[c].buf
        /\ server[c].backlog = <<>>
    BY <1>5 DEF F!Subscribe, Types, Leads
  <2> QED
    BY <2>1 DEF Line
<1>6. CASE F!Push(c)
  <2> DEFINE a == server[c].buf
             b == server'[c].buf
  <2>1. /\ seq' = seq /\ out' = out /\ subs' = subs /\ a # <<>>
        /\ server[c].at = "stream" /\ server'[c].at = "stream"
        /\ b = Tail(a) /\ server'[c].backlog = server[c].backlog
    BY <1>6 DEF F!Push, F!bus, Types, Leads
  <2>2. \A i \in DOMAIN b : i \in Nat /\ i + 1 \in DOMAIN a /\ b[i] = a[i + 1]
    <3>1. a \in Seq(Events(Nat)) /\ a # <<>> /\ b = Tail(a)
      BY <1>1, <2>1 DEF Connection
    <3> HIDE DEF a, b
    <3> QED
      BY <3>1
  <2>3. /\ \A i \in DOMAIN a : a[i].seq <= seq /\ \A j \in DOMAIN a : a[i].seq = a[j].seq => i = j
        /\ \A p \in Runners : c \in out[p].to => \A i \in DOMAIN a : a[i].seq # out[p].ev.seq
    BY DEF Line
  <2> HIDE DEF a, b
  <2>4. ASSUME NEW i \in DOMAIN b
        PROVE  b[i].seq <= seq /\ \A j \in DOMAIN b : b[i].seq = b[j].seq => i = j
    BY <2>2, <2>3
  <2>5. \A p \in Runners : c \in out[p].to => \A i \in DOMAIN b : b[i].seq # out[p].ev.seq
    BY <2>2, <2>3
  <2> QED
    BY <2>1, <2>4, <2>5 DEF Line, b
<1>7. CASE F!Unsubscribe(c)
  <2>1. /\ seq' = seq /\ out' = out /\ server'[c].at = "leaving" /\ server[c].at = "stream"
        /\ server'[c].backlog = server[c].backlog /\ server'[c].buf = server[c].buf
    BY <1>7 DEF F!Unsubscribe, Types, Leads
  <2> QED
    BY <2>1 DEF Line
<1>8. CASE F!Close(c)
  <2>1. /\ seq' = seq /\ out' = out /\ server'[c].at = "closed"
        /\ server'[c].backlog = <<>> /\ server'[c].buf = <<>>
    BY <1>8 DEF F!Close, F!bus, F!NoServe, Types, Leads
  <2> QED
    BY <2>1 DEF Line
<1> QED
  BY <1>2, <1>3, <1>4, <1>5, <1>6, <1>7, <1>8 DEF F!Server

LEMMA LineStop == ASSUME Types, F!Stop, NEW c \in F!Conns PROVE Line(c)'
<1>1. /\ server'[c].at \in {"none", "closed"}
      /\ server'[c].backlog = <<>> /\ server'[c].buf = <<>> /\ subs' = {}
      /\ \A p \in Runners : out'[p].to = {}
  BY DEF F!Stop, F!NoServe, F!NoOut
<1> QED
  BY <1>1 DEF Line

(* What steps are to what is sent. *)
Calls == UNCHANGED <<seq, ring, subs, server, browser>>
         /\ \A p \in Runners :
              out'[p] = out[p] \/ (out'[p].to = {} /\ (out[p].to = {} \/ \E c \in F!Conns : F!SendPanics(p, c)))

LEMMA FeedSteps ==
  ASSUME FeedInv, Types, Quiet, [F!Next]_feed
  PROVE  \/ \E p \in Runners, kind \in {"start", "end"}, r \in Nat :
              F!Publish(p, kind, r) /\ UNCHANGED <<server, browser>> /\ out[p].to = {}
         \/ \E p \in Runners, c \in F!Conns : F!Send(p, c)
         \/ Calls
         \/ \E c \in F!Conns : F!Connect(c) \/ F!Server(c)
         \/ F!Disconnect
         \/ F!Stop /\ restarts' = restarts + 1
<1>1. ASSUME NEW p \in Runners, F!StartRun(p) \/ F!PublishEnd(p)
      PROVE  \E kind \in {"start", "end"}, r \in Nat :
               F!Publish(p, kind, r) /\ UNCHANGED <<server, browser>> /\ out[p].to = {}
  BY <1>1 DEF F!StartRun, F!PublishEnd, FeedInv, RunsTyped, Quiet, F!Sending
<1>2. ASSUME NEW p \in Runners, out' = [out EXCEPT ![p] = F!NoOut],
             UNCHANGED <<seq, ring, subs, server, browser>>,
             out[p].to = {} \/ \E c \in F!Conns : F!SendPanics(p, c)
      PROVE  Calls
  BY <1>2 DEF Calls, Types, Leads, F!NoOut
<1>3. ASSUME NEW p \in Runners, F!RunWorks(p) \/ F!EndRun(p)
      PROVE  Calls
  BY <1>2, <1>3 DEF F!RunWorks, F!EndRun, F!Sent, F!bus
<1>4. ASSUME NEW p \in Runners, F!Save(p) \/ F!SaveFails(p) \/ F!List(p) \/ F!Delete(p)
      PROVE  Calls
  BY <1>4 DEF F!Save, F!SaveFails, F!List, F!Delete, F!bus, Calls
<1>5. ASSUME NEW p \in Runners, NEW c \in F!Conns, F!SendPanics(p, c)
      PROVE  Calls \/ (F!Stop /\ restarts' = restarts + 1)
  BY <1>2, <1>5 DEF F!SendPanics, F!bus
<1>6. CASE UNCHANGED feed
  BY <1>6 DEF feed, Calls
<1> QED
  BY <1>1, <1>3, <1>4, <1>5, <1>6 DEF F!Next, F!Runner, F!Restart

LEMMA LinesStep ==
  ASSUME FeedInv, Types, Quiet, FeedAssumption, RingInv, IsFiniteSet(Senders), \A c \in F!Conns : Line(c),
         [F!Next]_feed
  PROVE  RingInv' /\ IsFiniteSet(Senders') /\ \A c \in F!Conns : Line(c)'
<1>1. ASSUME NEW p \in Runners, NEW kind, NEW r, F!Publish(p, kind, r), server' = server
      PROVE  RingInv' /\ IsFiniteSet(Senders') /\ \A c \in F!Conns : Line(c)'
  <2>1. RingInv' /\ \A c \in F!Conns : Line(c)'
    BY <1>1, RingPublish, LinePublish
  <2>2. Senders' \subseteq Senders \cup {p}
    BY <1>1 DEF F!Publish, Senders, Types, Leads
  <2>3. IsFiniteSet(Senders \cup {p})
    BY FS_AddElement
  <2> QED
    BY <2>1, <2>2, <2>3, FS_Subset
<1>2. ASSUME NEW p \in Runners, NEW c \in F!Conns, F!Send(p, c)
      PROVE  RingInv' /\ IsFiniteSet(Senders') /\ \A d \in F!Conns : Line(d)'
  <2>1. /\ UNCHANGED <<seq, ring, subs>>
        /\ \A d \in F!Conns : d # c => server'[d] = server[d]
        /\ \A q \in Runners : out'[q].ev = out[q].ev /\ out'[q].to \subseteq out[q].to
    BY <1>2 DEF F!Send, F!bus, Types, Leads
  <2>2. ASSUME NEW d \in F!Conns, d # c PROVE Line(d)'
    BY <2>1, <2>2, LineStays
  <2>3. Line(c)'
    BY <1>2, LineSend
  <2>4. Senders' \subseteq Senders
    BY <2>1 DEF Senders
  <2> QED
    BY <2>1, <2>2, <2>3, <2>4, FS_Subset DEF RingInv
<1>3. CASE Calls
  <2>1. \A c \in F!Conns : Line(c)'
    BY <1>3, LineStays DEF Calls
  <2>2. Senders' \subseteq Senders
    BY <1>3 DEF Senders, Calls
  <2> QED
    BY <1>3, <2>1, <2>2, FS_Subset DEF RingInv, Calls
<1>4. ASSUME NEW c \in F!Conns, F!Connect(c) \/ F!Server(c)
      PROVE  RingInv' /\ IsFiniteSet(Senders') /\ \A d \in F!Conns : Line(d)'
  <2>1. /\ UNCHANGED <<seq, ring, out>>
        /\ subs' \ {c} = subs \ {c}
        /\ \A d \in F!Conns : d # c => server'[d] = server[d]
    BY <1>4 DEF F!Connect, F!Server, F!Recent, F!WriteBacklog, F!Subscribe, F!Push, F!Unsubscribe,
       F!Close, F!bus, Types, Leads
  <2>2. ASSUME NEW d \in F!Conns, d # c PROVE Line(d)'
    BY <2>1, <2>2, LineStays
  <2>3. Line(c)'
    BY <1>4, LineServer
  <2> QED
    BY <2>1, <2>2, <2>3 DEF RingInv, Senders
<1>5. CASE F!Disconnect
  <2>1. UNCHANGED <<seq, ring, subs, out, server>>
    BY <1>5 DEF F!Disconnect, F!bus
  <2> QED
    BY <2>1, LineStays DEF RingInv, Senders
<1>6. CASE F!Stop
  <2>1. RingInv'
    BY <1>6, FeedAssumption DEF F!Stop, RingInv, F!Bounds
  <2>2. Senders' = {}
    BY <1>6 DEF F!Stop, F!NoOut, Senders
  <2> QED
    BY <1>6, <2>1, <2>2, LineStop, FS_EmptySet
<1> QED
  BY <1>1, <1>2, <1>3, <1>4, <1>5, <1>6, FeedSteps

(* What the browser receives. *)
LEMMA DeliveredIs ==
  ASSUME Types, NEW c \in F!Conns, F!Delivers(c)
  PROVE  LET q == F!Waiting(c) IN
         /\ browser.conn = c /\ browser'.conn = c
         /\ q \in Seq(Events(Nat)) /\ q # <<>> /\ Head(q) = q[1] /\ 1 \in DOMAIN q
         /\ browser'.last = q[1].seq
         /\ UNCHANGED <<seq, ring, out, subs>>
         /\ \/ /\ server[c].at = "replay" /\ server'[c].at = "replay"
               /\ q = server[c].backlog
               /\ server'[c].backlog = Tail(q) /\ server'[c].buf = server[c].buf
            \/ /\ server[c].at = "stream" /\ server'[c].at = "stream"
               /\ q = server[c].buf
               /\ server'[c].buf = Tail(q) /\ server'[c].backlog = server[c].backlog
<1> DEFINE q == F!Waiting(c)
<1>1. browser.conn = c /\ (F!WriteBacklog(c) \/ F!Push(c))
  BY DEF F!Delivers
<1>2. /\ server[c] \in Connection(Nat) /\ server \in [F!Conns -> Connection(Nat)]
      /\ browser \in [conn : Nat, last : Nat, told : SUBSET Nat]
  BY DEF Types, Leads
<1>3. CASE F!WriteBacklog(c)
  <2>1. /\ server[c].at = "replay" /\ q = server[c].backlog /\ q # <<>>
        /\ F!Receive(c, Head(q)) /\ UNCHANGED <<seq, ring, out, subs>>
        /\ server'[c].at = "replay" /\ server'[c].backlog = Tail(q)
        /\ server'[c].buf = server[c].buf
    BY <1>2, <1>3 DEF F!WriteBacklog, F!Waiting, F!bus
  <2>2. q \in Seq(Events(Nat))
    BY <1>2, <2>1 DEF Connection
  <2> HIDE DEF q
  <2>3. Head(q) = q[1] /\ 1 \in DOMAIN q
    BY <2>1, <2>2
  <2>4. browser'.conn = c /\ browser'.last = q[1].seq
    BY <1>1, <1>2, <2>1, <2>3 DEF F!Receive
  <2> QED
    BY <1>1, <2>1, <2>2, <2>3, <2>4 DEF q
<1>4. CASE F!Push(c)
  <2>1. /\ server[c].at = "stream" /\ q = server[c].buf /\ q # <<>>
        /\ F!Receive(c, Head(q)) /\ UNCHANGED <<seq, ring, out, subs>>
        /\ server'[c].at = "stream" /\ server'[c].buf = Tail(q)
        /\ server'[c].backlog = server[c].backlog
    BY <1>2, <1>4 DEF F!Push, F!Waiting, F!bus
  <2>2. q \in Seq(Events(Nat))
    BY <1>2, <2>1 DEF Connection
  <2> HIDE DEF q
  <2>3. Head(q) = q[1] /\ 1 \in DOMAIN q
    BY <2>1, <2>2
  <2>4. browser'.conn = c /\ browser'.last = q[1].seq
    BY <1>1, <1>2, <2>1, <2>3 DEF F!Receive
  <2> QED
    BY <1>1, <2>1, <2>2, <2>3, <2>4 DEF q
<1> QED
  BY <1>1, <1>3, <1>4

LEMMA GotIs ==
  ASSUME Types, F!MCNext
  PROVE  /\ \A c \in F!Conns : F!Delivers(c) => got' = got \cup {Head(F!Waiting(c)).seq}
         /\ (\A c \in F!Conns : ~F!Delivers(c)) =>
              got' = IF browser'.conn # browser.conn THEN {} ELSE got
<1> DEFINE D == {c \in F!Conns : F!Delivers(c)}
<1>1. got' = IF browser'.conn # browser.conn THEN {}
             ELSE got \cup {Head(F!Waiting(c)).seq : c \in D}
  BY DEF F!MCNext
<1>2. ASSUME NEW c \in F!Conns, F!Delivers(c)
      PROVE  got' = got \cup {Head(F!Waiting(c)).seq}
  <2>1. browser.conn = c /\ browser'.conn = c
    BY <1>2, DeliveredIs
  <2>2. D = {c}
    BY <1>2, <2>1 DEF F!Delivers
  <2> HIDE DEF D
  <2> QED
    BY <1>1, <2>1, <2>2
<1>3. (\A c \in F!Conns : ~F!Delivers(c)) => D = {}
  OBVIOUS
<1> HIDE DEF D
<1> QED
  BY <1>1, <1>2, <1>3

LEMMA ReceivedStep ==
  ASSUME FeedInv, Types, Quiet, RingInv, \A c \in F!Conns : Line(c), \A c \in F!Conns : Line(c)',
         Reaches, F!MCNext
  PROVE  Reaches'
<1> SUFFICES ASSUME NEW o, o = browser'.conn, o # F!Offline PROVE Received(o)'
  BY DEF Reaches
<1> USE DEF Reaches
<1> DEFINE c == browser.conn
<1>0. /\ seq \in Nat /\ 0 \notin F!Conns
      /\ server \in [F!Conns -> Connection(Nat)]
      /\ browser \in [conn : Nat, last : Nat, told : SUBSET Nat]
  BY DEF Types, Leads, F!Conns
<1>1. CASE \E d \in F!Conns : F!Delivers(d)
  <2>1. PICK d \in F!Conns : F!Delivers(d)
    BY <1>1
  <2> DEFINE q == F!Waiting(d)
  <2>2. /\ c = d /\ browser'.conn = d
        /\ q \in Seq(Events(Nat)) /\ q # <<>> /\ Head(q) = q[1] /\ 1 \in DOMAIN q
        /\ UNCHANGED <<seq, ring, out, subs>>
        /\ \/ /\ server[d].at = "replay" /\ server'[d].at = "replay"
              /\ q = server[d].backlog
              /\ server'[d].backlog = Tail(q) /\ server'[d].buf = server[d].buf
           \/ /\ server[d].at = "stream" /\ server'[d].at = "stream"
              /\ q = server[d].buf
              /\ server'[d].buf = Tail(q) /\ server'[d].backlog = server[d].backlog
    BY <2>1, DeliveredIs
  <2>3. got' = got \cup {q[1].seq}
    BY <2>1, <2>2, GotIs
  <2>4. Received(d) /\ Line(d)
    BY <1>0, <2>2 DEF F!Offline
  <2>5. \A i \in DOMAIN Tail(q) : i \in Nat /\ i + 1 \in DOMAIN q /\ Tail(q)[i] = q[i + 1] /\ i + 1 > 1
    <3> HIDE DEF q
    <3> QED
      BY <2>2
  <2>6. q[1].seq \in Nat
    <3> HIDE DEF q
    <3> QED
      BY <2>2 DEF Events
  <2> HIDE DEF q
  <2>7. CASE server[d].at = "replay"
    <3>1. /\ server'[d].at = "replay" /\ q = server[d].backlog
          /\ server'[d].backlog = Tail(q) /\ server'[d].buf = <<>>
          /\ \A p \in Runners : d \notin out'[p].to
      BY <2>2, <2>4, <2>7 DEF Line
    <3>2. \A i \in DOMAIN Tail(q) : q[1].seq < Tail(q)[i].seq
      BY <2>2, <2>4, <2>5, <3>1 DEF Line
    <3>3. \A x \in got, i \in DOMAIN Tail(q) : x < Tail(q)[i].seq
      BY <2>4, <2>5, <3>1 DEF Received
    <3>4. q[1].seq <= seq
      BY <2>2, <2>4, <3>1 DEF Line
    <3>5. \A x \in got' : /\ x \in Nat /\ x <= seq
                          /\ \A i \in DOMAIN server'[d].backlog : x < server'[d].backlog[i].seq
      BY <2>3, <2>4, <2>6, <3>1, <3>2, <3>3, <3>4 DEF Received
    <3> QED
      BY <2>2, <2>4, <3>1, <3>5 DEF Received
  <2>8. CASE server[d].at = "stream"
    <3>1. /\ server'[d].at = "stream" /\ q = server[d].buf
          /\ server'[d].buf = Tail(q) /\ server'[d].backlog = <<>>
      BY <2>2, <2>4, <2>8 DEF Line
    <3>2. \A i \in DOMAIN Tail(q) : q[1].seq # Tail(q)[i].seq
      <4>1. \A i, j \in DOMAIN q : q[i].seq = q[j].seq => i = j
        BY <2>4, <3>1 DEF Line
      <4> QED
        BY <2>2, <2>5, <4>1
    <3>3. \A x \in got, i \in DOMAIN Tail(q) : x # Tail(q)[i].seq
      BY <2>4, <2>5, <3>1 DEF Received
    <3>4. q[1].seq <= seq /\ \A p \in Runners : d \in out[p].to => q[1].seq # out[p].ev.seq
      BY <2>2, <2>4, <3>1 DEF Line
    <3>5. \A x \in got' : /\ x \in Nat /\ x <= seq
                          /\ \A i \in DOMAIN server'[d].buf : x # server'[d].buf[i].seq
                          /\ \A p \in Runners : d \in out[p].to => x # out[p].ev.seq
      BY <2>3, <2>4, <2>6, <3>1, <3>2, <3>3, <3>4 DEF Received
    <3> QED
      BY <2>2, <2>4, <3>1, <3>5 DEF Received
  <2> QED
    BY <2>2, <2>7, <2>8
<1>2. CASE \A d \in F!Conns : ~F!Delivers(d)
  <2>1. got' = IF browser'.conn # c THEN {} ELSE got
    BY <1>2, GotIs
  <2>2. ASSUME NEW p \in Runners, NEW kind, NEW r, F!Publish(p, kind, r), UNCHANGED <<server, browser>>
        PROVE  Received(o)'
    <3>1. /\ seq' = seq + 1 /\ out'[p].ev.seq = seq + 1 /\ got' = got
          /\ \A q \in Runners : q # p => out'[q] = out[q]
      BY <2>1, <2>2 DEF F!Publish, Types, Leads
    <3>2. c # F!Offline /\ Received(c)
      BY <2>2
    <3> QED
      BY <1>0, <2>2, <3>1, <3>2 DEF Received
  <2>3. ASSUME NEW p \in Runners, NEW e \in F!Conns, F!Send(p, e)
        PROVE  Received(o)'
    <3>1. /\ UNCHANGED <<seq, browser>> /\ got' = got
          /\ server'[c].at = server[c].at /\ server'[c].backlog = server[c].backlog
          /\ \/ server'[c].buf = server[c].buf
             \/ server'[c].buf = Append(server[c].buf, out[p].ev) /\ c \in out[p].to
          /\ \A q \in Runners : out'[q].ev = out[q].ev /\ out'[q].to \subseteq out[q].to
      BY <1>0, <2>1, <2>3 DEF F!Send, F!bus, Types, Leads, Connection
    <3>2. c # F!Offline /\ Received(c)
      BY <3>1
    <3>3. \A x \in got, i \in DOMAIN server'[c].buf : x # server'[c].buf[i].seq
      <4>1. CASE server'[c].buf = server[c].buf
        BY <3>2, <4>1 DEF Received
      <4>2. CASE server'[c].buf = Append(server[c].buf, out[p].ev) /\ c \in out[p].to
        <5> DEFINE b == server[c].buf
        <5>1. b \in Seq(Events(Nat)) /\ out[p].ev \in Events(Nat)
          BY <1>0, <3>2 DEF Types, Leads, Connection, Received
        <5>2. \A x \in got : x # out[p].ev.seq /\ \A i \in DOMAIN b : x # b[i].seq
          BY <3>2, <4>2 DEF Received
        <5> HIDE DEF b
        <5>3. \A i \in DOMAIN Append(b, out[p].ev) :
                \/ i \in DOMAIN b /\ Append(b, out[p].ev)[i] = b[i]
                \/ Append(b, out[p].ev)[i] = out[p].ev
          BY <5>1
        <5> QED
          BY <4>2, <5>2, <5>3 DEF b
      <4> QED
        BY <3>1, <4>1, <4>2
    <3> QED
      BY <3>1, <3>2, <3>3 DEF Received
  <2>4. CASE Calls
    BY <2>1, <2>4 DEF Calls, Received
  <2>5. ASSUME NEW e \in F!Conns, F!Connect(e) PROVE Received(o)'
    <3>1. browser'.conn = e /\ c # e /\ server'[e].at = "accepted" /\ got' = {}
      BY <1>0, <2>1, <2>5 DEF F!Connect, F!Offline
    <3> QED
      BY <3>1 DEF Received
  <2>6. ASSUME NEW e \in F!Conns, F!Server(e) PROVE Received(o)'
    <3>1. /\ browser' = browser /\ got' = got /\ UNCHANGED <<seq, out>>
          /\ \A d \in F!Conns : d # e => server'[d] = server[d]
      <4>1. (F!WriteBacklog(e) \/ F!Push(e)) => c # e
        BY <1>2 DEF F!Delivers
      <4> QED
        BY <1>0, <2>1, <2>6, <4>1 DEF F!Server, F!Recent, F!WriteBacklog, F!Subscribe, F!Push,
           F!Unsubscribe, F!Close, F!Receive, F!bus
    <3>2. c # F!Offline /\ Received(c)
      BY <3>1
    <3>3. CASE c # e
      BY <3>1, <3>2, <3>3 DEF Received
    <3>4. CASE c = e
      <4>1. F!Recent(c) \/ F!Subscribe(c)
        BY <1>2, <2>6, <3>2, <3>4 DEF F!Server, F!Unsubscribe, F!Close, F!Delivers, Received
      <4>2. CASE F!Recent(c)
        <5>1. got' = {} /\ server'[c].at = "replay"
          BY <1>0, <3>1, <3>2, <3>4, <4>2 DEF F!Recent, Received
        <5> QED
          BY <3>1, <3>2, <5>1 DEF Received
      <4>3. CASE F!Subscribe(c)
        <5>1. /\ server'[c].at = "stream" /\ server'[c].buf = server[c].buf
              /\ server'[c].backlog = server[c].backlog
          BY <1>0, <3>2, <3>4, <4>3 DEF F!Subscribe, Received
        <5> QED
          BY <3>1, <3>2, <5>1 DEF Received
      <4> QED
        BY <4>1, <4>2, <4>3
    <3> QED
      BY <3>3, <3>4
  <2>7. ~F!Disconnect /\ ~F!Stop
    BY <1>0 DEF F!Disconnect, F!Stop, F!Offline
  <2>8. [F!Next]_feed
    BY DEF F!MCNext
  <2> QED
    BY <2>2, <2>3, <2>4, <2>5, <2>6, <2>7, <2>8, FeedSteps
<1> QED
  BY <1>1, <1>2

LEMMA QuietStep == ASSUME Types, Quiet, [F!Next]_feed PROVE Quiet'
<1> USE DEF Quiet, Types, Leads, F!Sending
<1>1. ASSUME NEW p \in Runners, F!StartRun(p) \/ F!PublishEnd(p) PROVE Quiet'
  BY <1>1 DEF F!StartRun, F!PublishEnd, F!Publish
<1>2. ASSUME NEW p \in Runners, F!RunWorks(p) \/ F!EndRun(p) PROVE Quiet'
  BY <1>2 DEF F!RunWorks, F!EndRun, F!Sent, F!NoOut
<1>3. ASSUME NEW p \in Runners, F!Save(p) \/ F!SaveFails(p) \/ F!List(p) \/ F!Delete(p) PROVE Quiet'
  BY <1>3 DEF F!Save, F!SaveFails, F!List, F!Delete
<1>4. CASE F!Stop /\ restarts' = restarts + 1
  BY <1>4 DEF F!Stop, F!NoOut
<1>5. ASSUME NEW p \in Runners, NEW c \in F!Conns, F!Send(p, c) PROVE Quiet'
  BY <1>5 DEF F!Send
<1>6. ASSUME NEW p \in Runners, NEW c \in F!Conns, F!SendPanics(p, c) PROVE Quiet'
  <2>1. CASE out' = [out EXCEPT ![p] = F!NoOut] /\ runner' = [runner EXCEPT ![p] = "idle"]
             /\ restarts' = restarts
    BY <2>1 DEF F!NoOut
  <2> QED
    BY <1>4, <1>6, <2>1 DEF F!SendPanics
<1>7. ASSUME NEW c \in F!Conns, F!Connect(c) \/ F!Server(c) PROVE Quiet'
  BY <1>7 DEF F!Connect, F!Server, F!Recent, F!WriteBacklog, F!Subscribe, F!Push, F!Unsubscribe,
     F!Close
<1>8. CASE F!Disconnect
  BY <1>8 DEF F!Disconnect
<1>9. CASE UNCHANGED feed
  BY <1>9 DEF feed
<1> QED
  BY <1>1, <1>2, <1>3, <1>4, <1>5, <1>6, <1>7, <1>8, <1>9 DEF F!Next, F!Runner, F!Restart

LEMMA NextFollows ==
  ASSUME Types, Reaches, Smoothly, steady, NEW c \in F!Conns, F!Delivers(c)
  PROVE  F!Waiting(c)[1].seq = browser.last + 1 /\ browser.last + 1 <= seq
<1> DEFINE q == F!Waiting(c)
<1>1. /\ browser.conn = c
      /\ q \in Seq(Events(Nat)) /\ 1 \in DOMAIN q
      /\ \/ server[c].at = "replay" /\ q = server[c].backlog
         \/ server[c].at = "stream" /\ q = server[c].buf
  BY DeliveredIs
<1>2. Follows(c)
  BY <1>1 DEF Smoothly, Trails, F!Offline, F!Conns
<1>3. seq \in Nat /\ browser.last \in Nat
  BY DEF Types, Leads
<1> HIDE DEF q
<1>4. Len(q) \in Nat /\ Len(q) >= 1
  BY <1>1
<1>5. CASE server[c].at = "replay" /\ q = server[c].backlog
  BY <1>1, <1>2, <1>3, <1>4, <1>5 DEF Follows, q
<1>6. CASE server[c].at = "stream" /\ q = server[c].buf
  <2>1. q[1].seq = browser.last + 1
    BY <1>1, <1>2, <1>6 DEF Follows
  <2>2. browser.last + Len(q) = seq \/ browser.last + Len(q) + 1 = seq
    BY <1>2, <1>6 DEF Follows
  <2> QED
    BY <1>3, <1>4, <2>1, <2>2 DEF q
<1> QED
  BY <1>1, <1>5, <1>6

(* What is read from the ring follows upon what the browser had. *)
LEMMA RecentFollows ==
  ASSUME Types, RingInv, Smoothly, steady, FeedAssumption, F!Smooth,
         NEW c \in F!Conns, browser.conn = c, F!Recent(c)
  PROVE  Follows(c)'
<1> DEFINE b == server'[c].backlog
           L == Len(ring)
<1>1. /\ UNCHANGED <<seq, browser>>
      /\ server[c].at = "accepted" /\ server'[c].at = "replay" /\ b = F!Replay(c)
  BY DEF F!Recent, F!bus, Types, Leads
<1>2. /\ seq \in Nat /\ ring \in Seq(Events(Nat)) /\ L \in Nat
      /\ browser.last \in Nat /\ browser.last <= seq
      /\ RingCap \in Nat
  BY FeedAssumption DEF Types, Leads, Smoothly, F!Bounds
<1>3. server[c].since = browser.last
  BY <1>1 DEF Smoothly, Trails, Follows, F!Offline, F!Conns
<1>4. seq - browser.last <= RingCap
  BY DEF F!Smooth
<1>5. server[c].since \in seq - L .. seq
  BY <1>2, <1>3, <1>4 DEF RingInv
<1>6. PICK k \in 0 .. L : F!Replay(c) = SubSeq(ring, k + 1, L) /\ k = browser.last - (seq - L)
  BY <1>3, <1>5, ReplayIs
<1>7. Len(b) = L - k /\ DOMAIN b = 1 .. L - k /\ \A i \in 1 .. L - k : b[i] = ring[k + i]
  BY <1>1, <1>2, <1>6
<1> HIDE DEF b
<1>8. \A i \in DOMAIN b : b[i].seq = browser.last + i
  <2>1. \A i \in 1 .. L - k : k + i \in DOMAIN ring
    BY <1>2
  <2>2. \A i \in 1 .. L - k : ring[k + i].seq = seq - L + (k + i)
    BY <2>1 DEF RingInv
  <2> QED
    <3>1. \A i \in 1 .. L - k : b[i].seq = seq - L + (k + i)
      BY <1>7, <2>2
    <3>2. ASSUME NEW i \in 1 .. L - k PROVE b[i].seq = browser.last + i
      <4>1. b[i].seq = seq - L + (k + i)
        BY <3>1
      <4>2. seq - L + (k + i) = browser.last + i
        <5>1. k \in Int /\ i \in Int /\ L \in Int /\ seq \in Int /\ browser.last \in Int
              /\ k = browser.last - (seq - L)
          BY <1>2, <1>6
        <5> HIDE DEF L
        <5> QED
          BY <5>1
      <4> QED
        BY <4>1, <4>2
    <3> QED
      BY <1>7, <3>2
<1>9. browser.last + Len(b) = seq
  BY <1>2, <1>6, <1>7
<1> QED
  BY <1>1, <1>8, <1>9 DEF Follows, b

LEMMA SendFollows ==
  ASSUME Types, Line(browser.conn), Smoothly, steady, FeedAssumption, F!Smooth,
         browser.conn \in F!Conns, \A p, q \in Senders' : p = q,
         NEW p \in Runners, NEW e \in F!Conns, F!Send(p, e)
  PROVE  Follows(browser.conn)'
<1> DEFINE c == browser.conn
           b == server[c].buf
<1>1. /\ UNCHANGED <<seq, browser>> /\ e \in out[p].to
      /\ out'[p].to = out[p].to \ {e} /\ out'[p].ev = out[p].ev
      /\ \A q \in Runners : q # p => out'[q] = out[q]
      /\ \A d \in F!Conns : d # e => server'[d] = server[d]
  BY DEF F!Send, F!bus, Types, Leads
<1>2. Follows(c) /\ \A q \in Runners : c \in out[q].to => q = p
  BY <1>1 DEF Smoothly, Trails, F!Offline, F!Conns, Senders
<1>3. CASE c # e
  <2>1. (\E q \in Runners : c \in out'[q].to) <=> \E q \in Runners : c \in out[q].to
    BY <1>1, <1>3
  <2>2. \A q \in Runners : c \in out'[q].to => c \in out[q].to /\ out'[q].ev = out[q].ev
    BY <1>1, <1>3
  <2> QED
    BY <1>1, <1>2, <1>3, <2>1, <2>2 DEF Follows
<1>4. CASE c = e
  <2>1. server'[c].at = server[c].at /\ server'[c].buf = Append(b, out[p].ev)
    <3>1. ~(Len(server[e].buf) >= BufCap)
      BY DEF F!Smooth
    <3>2. Len(server[e].buf) < BufCap
      BY <3>1, FeedAssumption DEF Types, Leads, Connection, F!Bounds
    <3> QED
      BY <1>4, <3>2 DEF F!Send, Types, Leads, Connection
  <2>2. server[c].at \notin {"accepted", "replay"}
    BY <1>1, <1>4 DEF Line
  <2>3. ~\E q \in Runners : c \in out'[q].to
    BY <1>1, <1>2, <1>4
  <2>4. ASSUME server[c].at = "stream"
        PROVE  /\ \A i \in DOMAIN server'[c].buf : server'[c].buf[i].seq = browser.last + i
               /\ browser.last + Len(server'[c].buf) = seq
    <3>1. /\ \A i \in DOMAIN b : b[i].seq = browser.last + i
          /\ browser.last + Len(b) + 1 = seq /\ out[p].ev.seq = seq
      BY <1>1, <1>2, <1>4, <2>4 DEF Follows
    <3>2. b \in Seq(Events(Nat)) /\ out[p].ev \in Events(Nat)
      BY DEF Types, Leads, Connection
    <3>3. seq \in Nat /\ browser.last \in Nat
      BY DEF Types, Leads
    <3> HIDE DEF b
    <3>4. Len(Append(b, out[p].ev)) = Len(b) + 1 /\ Len(b) \in Nat
      BY <3>2
    <3>5. \A i \in DOMAIN Append(b, out[p].ev) :
            \/ i \in DOMAIN b /\ Append(b, out[p].ev)[i] = b[i]
            \/ i = Len(b) + 1 /\ Append(b, out[p].ev)[i] = out[p].ev
      BY <3>2
    <3>6. ASSUME NEW i \in DOMAIN Append(b, out[p].ev)
          PROVE  Append(b, out[p].ev)[i].seq = browser.last + i
      <4>1. CASE i \in DOMAIN b /\ Append(b, out[p].ev)[i] = b[i]
        BY <3>1, <4>1
      <4>2. CASE i = Len(b) + 1 /\ Append(b, out[p].ev)[i] = out[p].ev
        BY <3>1, <3>3, <3>4, <4>2
      <4> QED
        BY <3>5, <4>1, <4>2
    <3>7. browser.last + Len(Append(b, out[p].ev)) = seq
      BY <3>1, <3>3, <3>4
    <3> QED
      BY <2>1, <3>6, <3>7 DEF b
  <2> QED
    BY <1>1, <2>1, <2>2, <2>3, <2>4 DEF Follows
<1> QED
  BY <1>3, <1>4

LEMMA PublishFollows ==
  ASSUME Types, Line(browser.conn), Smoothly, steady, F!Smooth,
         browser.conn \in F!Conns, \A p, q \in Senders' : p = q,
         NEW p \in Runners, NEW kind, NEW r, F!Publish(p, kind, r), out[p].to = {},
         UNCHANGED <<server, browser>>
  PROVE  Follows(browser.conn)'
<1> DEFINE c == browser.conn
<1>1. /\ seq' = seq + 1 /\ seq \in Nat
      /\ out'[p].to = subs /\ out'[p].ev.seq = seq + 1
      /\ \A q \in Runners : q # p => out'[q] = out[q]
  BY DEF F!Publish, Types, Leads
<1>2. Follows(c)
  BY DEF Smoothly, Trails, F!Offline, F!Conns
<1>3. server[c].at # "replay"
  BY <1>1 DEF F!Smooth
<1>4. ASSUME server[c].at = "stream"
      PROVE  /\ c \in out'[p].to
             /\ \A q \in Runners : c \in out'[q].to => q = p
             /\ browser.last + Len(server[c].buf) = seq
  <2>1. c \in out'[p].to
    BY <1>1, <1>4 DEF Line
  <2>2. \A q \in Runners : c \in out'[q].to => q = p
    BY <2>1 DEF Senders
  <2>3. ~\E q \in Runners : c \in out[q].to
    BY <1>1, <2>2
  <2> QED
    BY <1>2, <1>4, <2>1, <2>2, <2>3 DEF Follows
<1>5. browser.last \in Nat /\ Len(server[c].buf) \in Nat
  BY DEF Types, Leads, Connection
<1> QED
  BY <1>1, <1>2, <1>3, <1>4, <1>5 DEF Follows

LEMMA DeliverFollows ==
  ASSUME Types, Reaches, Smoothly, steady, NEW c \in F!Conns, F!Delivers(c), Line(c)'
  PROVE  Follows(c)' /\ browser'.last <= seq'
<1> DEFINE q == F!Waiting(c)
<1>1. /\ browser.conn = c
      /\ q \in Seq(Events(Nat)) /\ q # <<>> /\ 1 \in DOMAIN q
      /\ browser'.last = q[1].seq
      /\ UNCHANGED <<seq, ring, out, subs>>
      /\ \/ /\ server[c].at = "replay" /\ server'[c].at = "replay"
            /\ q = server[c].backlog
            /\ server'[c].backlog = Tail(q) /\ server'[c].buf = server[c].buf
         \/ /\ server[c].at = "stream" /\ server'[c].at = "stream"
            /\ q = server[c].buf
            /\ server'[c].buf = Tail(q) /\ server'[c].backlog = server[c].backlog
  BY DeliveredIs
<1>2. q[1].seq = browser.last + 1 /\ browser.last + 1 <= seq
  BY NextFollows
<1>3. Follows(c)
  BY <1>1 DEF Smoothly, Trails, F!Offline, F!Conns
<1>4. browser.last \in Nat /\ seq \in Nat
  BY DEF Types, Leads
<1> HIDE DEF q
<1>5. /\ Len(Tail(q)) = Len(q) - 1 /\ Len(q) \in Nat
      /\ \A i \in DOMAIN Tail(q) : i \in Nat /\ i + 1 \in DOMAIN q /\ Tail(q)[i] = q[i + 1]
  BY <1>1
<1>6. CASE server[c].at = "replay"
  <2>1. server'[c].at = "replay" /\ q = server[c].backlog /\ server'[c].backlog = Tail(q)
    BY <1>1, <1>6
  <2>2. \A i \in DOMAIN Tail(q) : Tail(q)[i].seq = browser'.last + i
    <3>1. \A i \in DOMAIN q : q[i].seq = browser.last + i
      BY <1>3, <1>6, <2>1 DEF Follows
    <3>2. \A i \in DOMAIN Tail(q) : Tail(q)[i].seq = browser.last + (i + 1)
      BY <1>5, <3>1
    <3> QED
      <4>1. browser'.last = browser.last + 1
        BY <1>1, <1>2
      <4>2. ASSUME NEW i \in DOMAIN Tail(q) PROVE Tail(q)[i].seq = browser'.last + i
        <5>1. Tail(q)[i].seq = browser.last + (i + 1) /\ i \in Nat
          BY <1>5, <3>2
        <5> QED
          BY <1>4, <4>1, <5>1
      <4> QED
        BY <4>2
  <2>3. browser'.last + Len(Tail(q)) = seq
    <3>1. browser.last + Len(q) = seq
      BY <1>3, <1>6, <2>1 DEF Follows
    <3> QED
      BY <1>1, <1>2, <1>4, <1>5, <3>1
  <2> QED
    BY <1>1, <1>2, <2>1, <2>2, <2>3 DEF Follows
<1>7. CASE server[c].at = "stream"
  <2>1. server'[c].at = "stream" /\ q = server[c].buf /\ server'[c].buf = Tail(q)
    BY <1>1, <1>7
  <2>2. \A i \in DOMAIN Tail(q) : Tail(q)[i].seq = browser'.last + i
    <3>1. \A i \in DOMAIN q : q[i].seq = browser.last + i
      BY <1>3, <1>7, <2>1 DEF Follows
    <3>2. \A i \in DOMAIN Tail(q) : Tail(q)[i].seq = browser.last + (i + 1)
      BY <1>5, <3>1
    <3> QED
      <4>1. browser'.last = browser.last + 1
        BY <1>1, <1>2
      <4>2. ASSUME NEW i \in DOMAIN Tail(q) PROVE Tail(q)[i].seq = browser'.last + i
        <5>1. Tail(q)[i].seq = browser.last + (i + 1) /\ i \in Nat
          BY <1>5, <3>2
        <5> QED
          BY <1>4, <4>1, <5>1
      <4> QED
        BY <4>2
  <2>3. browser'.last + Len(Tail(q)) = browser.last + Len(q)
    BY <1>1, <1>2, <1>4, <1>5
  <2> QED
    BY <1>1, <1>2, <1>3, <1>4, <1>7, <2>1, <2>2, <2>3 DEF Follows
<1> QED
  BY <1>1, <1>6, <1>7

LEMMA SmoothlyStep ==
  ASSUME FeedInv, Types, Quiet, RingInv, \A c \in F!Conns : Line(c), IsFiniteSet(Senders'),
         \A c \in F!Conns : Line(c)', Reaches, Smoothly, FeedAssumption, F!MCNext
  PROVE  Smoothly'
<1> SUFFICES ASSUME steady', NEW o, o = browser'.conn
             PROVE  /\ browser'.last <= seq'
                    /\ \A p, q \in Senders' : p = q
                    /\ o # F!Offline => Follows(o)'
  BY DEF Smoothly, Trails
<1> DEFINE c == browser.conn
<1>1. steady /\ F!Smooth
  BY DEF F!MCNext
<1>2. \A p, q \in Senders' : p = q
  <2>1. Cardinality(Senders') <= 1
    BY <1>1, PartsCount DEF F!Smooth, Senders
  <2> QED
    BY <2>1, Counted
<1>3. /\ seq \in Nat /\ 0 \notin F!Conns
      /\ server \in [F!Conns -> Connection(Nat)]
      /\ browser \in [conn : Nat, last : Nat, told : SUBSET Nat]
      /\ c # F!Offline => c \in F!Conns /\ Follows(c) /\ Received(c) /\ Line(c)
      /\ browser.last <= seq
  BY <1>1 DEF Types, Leads, F!Conns, Smoothly, Trails, Reaches, Received
<1>4. ASSUME NEW d \in F!Conns, F!Delivers(d)
      PROVE  browser'.last <= seq' /\ Follows(o)'
  <2>1. o = d
    BY <1>4, DeliveredIs
  <2> QED
    BY <1>1, <1>4, <2>1, DeliverFollows
<1>5. ASSUME NEW p \in Runners, NEW kind, NEW r, F!Publish(p, kind, r), out[p].to = {},
             UNCHANGED <<server, browser>>
      PROVE  browser'.last <= seq' /\ (o # F!Offline => Follows(o)')
  <2>1. seq' = seq + 1 /\ browser' = browser /\ o = c
    BY <1>5 DEF F!Publish
  <2>2. c # F!Offline => Follows(o)'
    BY <1>1, <1>2, <1>3, <1>5, <2>1, PublishFollows
  <2> QED
    BY <1>3, <2>1, <2>2
<1>6. ASSUME NEW p \in Runners, NEW e \in F!Conns, F!Send(p, e)
      PROVE  browser'.last <= seq' /\ (o # F!Offline => Follows(o)')
  <2>1. seq' = seq /\ browser' = browser /\ o = c
    BY <1>6 DEF F!Send, F!bus
  <2>2. c # F!Offline => Follows(o)'
    BY <1>1, <1>2, <1>3, <1>6, <2>1, SendFollows
  <2> QED
    BY <1>3, <2>1, <2>2
<1>7. CASE Calls
  <2>1. UNCHANGED <<seq, browser, server>> /\ o = c
    BY <1>7 DEF Calls
  <2>2. \A p \in Runners : ~\E d \in F!Conns : F!SendPanics(p, d)
    BY <1>1 DEF F!Smooth
  <2>3. \A p \in Runners : out'[p] = out[p] \/ (out'[p].to = {} /\ out[p].to = {})
    BY <1>7, <2>2 DEF Calls
  <2>4. (\E p \in Runners : c \in out'[p].to) <=> \E p \in Runners : c \in out[p].to
    BY <2>3
  <2>5. \A p \in Runners : c \in out'[p].to => out'[p] = out[p]
    BY <2>3
  <2> QED
    BY <1>2, <1>3, <2>1, <2>4, <2>5 DEF Follows
<1>8. ASSUME NEW e \in F!Conns, F!Connect(e) PROVE browser'.last <= seq' /\ Follows(o)'
  <2>1. /\ o = e /\ server'[e].at = "accepted" /\ server'[e].since = browser.last
        /\ browser'.last = browser.last /\ seq' = seq
    BY <1>3, <1>8 DEF F!Connect, F!bus, Connection
  <2> QED
    BY <1>3, <2>1 DEF Follows
<1>9. ASSUME NEW e \in F!Conns, F!Server(e), ~F!Delivers(e)
      PROVE  browser'.last <= seq' /\ (o # F!Offline => Follows(o)')
  <2>1. /\ UNCHANGED <<seq, browser, out>> /\ o = c
        /\ \A d \in F!Conns : d # e => server'[d] = server[d]
    <3>1. (F!WriteBacklog(e) \/ F!Push(e)) => c # e
      BY <1>9 DEF F!Delivers
    <3> QED
      BY <1>3, <1>9, <3>1 DEF F!Server, F!Recent, F!WriteBacklog, F!Subscribe, F!Push,
         F!Unsubscribe, F!Close, F!Receive, F!bus
  <2>2. CASE c # F!Offline /\ c # e
    BY <1>3, <2>1, <2>2 DEF Follows
  <2>3. CASE c # F!Offline /\ c = e
    <3>1. F!Recent(c) \/ F!Subscribe(c)
      BY <1>3, <1>9, <2>3 DEF F!Server, F!Unsubscribe, F!Close, F!Delivers, Received
    <3>2. CASE F!Recent(c)
      BY <1>1, <1>3, <2>1, <2>3, <3>2, RecentFollows
    <3>3. CASE F!Subscribe(c)
      <4>1. /\ server'[c].at = "stream" /\ server'[c].buf = <<>> /\ browser.last = seq
            /\ \A p \in Runners : c \notin out[p].to
        <5>1. server[c].at = "replay" /\ server[c].backlog = <<>> /\ Len(server[c].backlog) = 0
          BY <3>3 DEF F!Subscribe
        <5>2. browser.last + 0 = seq
          BY <1>3, <2>3, <5>1 DEF Follows
        <5> QED
          BY <1>3, <2>3, <3>3, <5>1, <5>2 DEF F!Subscribe, Line, Connection
      <4> QED
        BY <1>3, <2>1, <4>1 DEF Follows
    <3> QED
      BY <1>3, <2>1, <3>1, <3>2, <3>3
  <2> QED
    BY <1>3, <2>1, <2>2, <2>3
<1>10. CASE F!Disconnect
  <2>1. o = F!Offline /\ browser'.last = browser.last /\ seq' = seq
    BY <1>3, <1>10 DEF F!Disconnect, F!bus
  <2> QED
    BY <1>2, <1>3, <2>1
<1>11. ~(F!Stop /\ restarts' = restarts + 1)
  BY <1>1 DEF Quiet, F!Smooth
<1>12. [F!Next]_feed
  BY DEF F!MCNext
<1> QED
  BY <1>2, <1>4, <1>5, <1>6, <1>7, <1>8, <1>9, <1>10, <1>11, <1>12, FeedSteps

(* A step of the part does what each property says of it. *)
LEMMA OrderStep ==
  ASSUME FeedInv, FeedAssumption, OrderInv, [F!MCNext]_feed
  PROVE  /\ OrderInv'
         /\ \A c \in F!Conns : F!MCNext /\ F!Delivers(c) =>
              /\ Head(F!Waiting(c)).seq \notin got
              /\ steady => Head(F!Waiting(c)).seq = browser.last + 1
<1>1. [F!Next]_feed
  BY DEF F!MCNext
<1>2. Types' /\ Quiet' /\ RingInv' /\ IsFiniteSet(Senders') /\ \A c \in F!Conns : Line(c)'
  <2>1. Types'
    <3>1. FeedInv'
      BY FeedStep, FeedAssumption
    <3> QED
      BY <3>1, FeedTypes, PTL
  <2> QED
    BY <1>1, <2>1, QuietStep, LinesStep DEF OrderInv
<1>3. Smoothly
  BY DEF OrderInv
<1>4. Reaches' /\ Smoothly' /\ steady' \in BOOLEAN
  <2>1. CASE F!MCNext
    BY <1>2, <1>3, <2>1, ReceivedStep, SmoothlyStep DEF OrderInv, F!MCNext
  <2>2. CASE UNCHANGED feed
    BY <1>3, <2>2 DEF OrderInv, feed, Reaches, Received, Smoothly, Trails, Follows, Senders
  <2> QED
    BY <2>1, <2>2
<1>5. OrderInv'
  BY <1>2, <1>4 DEF OrderInv
<1>6. ASSUME NEW c \in F!Conns, F!Delivers(c)
      PROVE  /\ Head(F!Waiting(c)).seq \notin got
             /\ steady => Head(F!Waiting(c)).seq = browser.last + 1
  <2> DEFINE q == F!Waiting(c)
  <2>1. /\ browser.conn = c /\ Head(q) = q[1] /\ 1 \in DOMAIN q /\ q[1].seq \in Nat
        /\ \/ server[c].at = "replay" /\ q = server[c].backlog
           \/ server[c].at = "stream" /\ q = server[c].buf
    <3>1. /\ browser.conn = c /\ Head(q) = q[1] /\ 1 \in DOMAIN q /\ q \in Seq(Events(Nat))
          /\ \/ server[c].at = "replay" /\ q = server[c].backlog
             \/ server[c].at = "stream" /\ q = server[c].buf
      BY <1>6, DeliveredIs DEF OrderInv
    <3> HIDE DEF q
    <3> QED
      BY <3>1 DEF Events
  <2>2. Received(c)
    BY <2>1 DEF OrderInv, Reaches, F!Offline, F!Conns
  <2> HIDE DEF q
  <2>3. q[1].seq \notin got
    BY <2>1, <2>2 DEF Received
  <2>4. steady => q[1].seq = browser.last + 1
    BY <1>3, <1>6, NextFollows DEF OrderInv, q
  <2> QED
    BY <2>1, <2>3, <2>4 DEF q
<1> QED
  BY <1>5, <1>6

(* For any numbers of runs, connections and restarts, and any capacities of
   ring and channels: on a connection no event comes twice, and in smooth
   histories event follows upon event, over all connections. *)
THEOREM EventsOrdered == PlatformSpec => EventsInOrder
<1>1. PlatformInit => FeedInv /\ OrderInv
  <2> SUFFICES ASSUME PlatformInit PROVE FeedInv /\ OrderInv
    OBVIOUS
  <2>1. F!MCInit
    BY DEF PlatformInit
  <2>2. FeedInv
    BY FeedStarts
  <2>3. Types
    BY <2>2, FeedTypes
  <2>4. Quiet /\ Senders = {}
    BY <2>1 DEF F!MCInit, F!Init, Quiet, Senders, F!NoOut
  <2>5. RingInv
    BY <2>1, FeedAssumption DEF F!MCInit, F!Init, RingInv, F!Bounds
  <2>6. ASSUME NEW c \in F!Conns PROVE Line(c)
    BY <2>1, <2>4 DEF F!MCInit, F!Init, Line, F!NoServe, F!NoOut
  <2>7. Reaches /\ Smoothly /\ steady \in BOOLEAN
    BY <2>1, <2>4 DEF F!MCInit, F!Init, Reaches, Smoothly, Trails
  <2> QED
    BY <2>2, <2>3, <2>4, <2>5, <2>6, <2>7, FS_EmptySet DEF OrderInv
<1>2. FeedInv /\ OrderInv /\ FeedAssumption /\ [F!MCNext]_feed => FeedInv' /\ OrderInv'
  BY FeedStep, OrderStep
<1>3. FeedInv /\ OrderInv /\ FeedAssumption /\ [F!MCNext]_feed
      => [\A c \in F!Conns : F!Delivers(c) => Head(F!Waiting(c)).seq \notin got]_(F!mcvars)
  <2>1. UNCHANGED feed => UNCHANGED F!mcvars
    BY DEF F!mcvars, F!vars, feed
  <2> QED
    BY <2>1, OrderStep
<1>4. FeedInv /\ OrderInv /\ FeedAssumption /\ [F!MCNext]_feed
      => [\A c \in F!Conns : steady /\ F!Delivers(c)
                               => Head(F!Waiting(c)).seq = browser.last + 1]_(F!mcvars)
  <2>1. UNCHANGED feed => UNCHANGED F!mcvars
    BY DEF F!mcvars, F!vars, feed
  <2> QED
    BY <2>1, OrderStep
<1> QED
  BY <1>1, <1>2, <1>3, <1>4, FeedAssumption, PartsStep, PTL
     DEF PlatformSpec, EventsInOrder, F!NoRepeat, F!SmoothStream

-----------------------------------------------------------------------------
(* The sidecar. In smooth histories one goroutine at most is at work; what it
   has read still holds where it uses it, and between Kill and the new process
   there is none. *)
Numbers  == [port : Nat, token : Nat]
Stored   == [state : {"missing", "available", "installed", "enabled", "disabled", "error"},
             port : Nat, token : Nat]
Tasks    == S!Calls \cup {"none", "boot", "resume", "exit"}
Locals   == [task : Tasks, st : Stored, pid : Nat]
Sites    == {"idle", "down", "load", "download", "save", "wipe", "delete", "unregister", "list",
             "register", "start", "kill", "unlink", "port", "exec", "pid", "alive", "fail",
             "failsave", "message", "messagesave"}
Starting == {"enable", "resume"}
Stopping == {"disable", "remove", "purge"}
Routed(site, task) ==
    /\ site = "load" => task \in {"install", "enable", "disable"}
    /\ site = "download" => task = "install"
    /\ site = "save" => task \in {"install", "enable", "disable", "remove"}
    /\ site \in {"wipe", "delete"} => task \in {"remove", "purge"}
    /\ site = "start" => task \in Starting
    /\ site \in {"kill", "unlink"} => task \in Starting \cup Stopping \cup {"exit"}
SideTyped ==
    /\ record \in Stored /\ binary \in BOOLEAN /\ pidfile \in Nat /\ fresh \in Nat
    /\ procs \subseteq [pid : Nat, env : Numbers]
    /\ registered \in BOOLEAN /\ smooth \in BOOLEAN
    /\ pc \in [S!Goroutines -> Sites]
    /\ local \in [S!Goroutines -> Locals]
    /\ \A t \in S!Goroutines : Routed(pc[t], local[t].task)

AtWork    == {t \in S!Goroutines : pc[t] \notin {"idle", "down"}}
Lists     == registered = (record.state = "enabled")
Up        == registered /\ record.state = "enabled"
Same(st)  == \A q \in procs : q.env = S!SidecarEnv(st)

(* What holds for a goroutine at work, by where it is. *)
AtKill(t) == /\ local[t].task \in Starting => Up /\ local[t].st = record
             /\ local[t].task = "exit" => Lists
Working(t) ==
    /\ pc[t] = "load" => /\ local[t].task = "disable" => procs = {}
                         /\ local[t].task = "enable" => Lists
    /\ pc[t] \in {"download", "save"} => Same(local[t].st)
    /\ pc[t] = "save" => (local[t].task \in Stopping => procs = {})
    /\ pc[t] \in {"unregister", "list", "register"} =>
         /\ local[t].task = "enable" => record.state = "enabled"
         /\ local[t].task = "resume" => Lists
    /\ pc[t] = "unregister" => local[t].task # "resume"
    /\ pc[t] \in {"list", "register"} => local[t].task = "resume" \/ ~registered
    /\ pc[t] = "register" => local[t].st = record
    /\ pc[t] \in {"kill", "unlink"} => AtKill(t)
    /\ pc[t] \in {"unlink", "port", "exec", "wipe", "delete"} => procs = {}
    /\ pc[t] \in {"port", "exec", "messagesave"} => local[t].st = record
    /\ pc[t] = "exec" => record.port # 0 /\ record.token # 0
    /\ pc[t] = "pid" => \A q \in procs : q.pid = local[t].pid
    /\ pc[t] \in {"start", "port", "exec", "pid", "alive", "message", "messagesave"} => Up
    /\ pc[t] = "failsave" => local[t].task = "none" /\ Same(local[t].st)

OneSidecar ==
    /\ \A p, q \in procs : p = q
    /\ \A q \in procs : /\ q.env.port # 0 /\ q.env.token # 0 /\ q.env = S!SidecarEnv(record)
                        /\ pidfile = q.pid \/ \E t \in AtWork : pc[t] = "pid" /\ local[t].pid = q.pid
    /\ record.state \in {"missing", "available", "disabled"} => procs = {}
SmoothInv ==
    /\ \A s, t \in AtWork : s = t
    /\ OneSidecar
    /\ AtWork = {} => Lists
    /\ \A t \in AtWork : Working(t)
SideInv == SideTyped /\ (smooth => SmoothInv)

(* The records a goroutine reads, and the ones it makes of them. *)
LEMMA RecordsTyped ==
  SideTyped => S!State \in Stored /\ \A st \in Stored : /\ S!EnsureTokenPort(st) \in Stored
                                                      /\ [st EXCEPT !.port = S!FreePort] \in Stored
<1> SUFFICES ASSUME SideTyped PROVE S!State \in Stored /\ \A st \in Stored :
                                      /\ S!EnsureTokenPort(st) \in Stored
                                      /\ [st EXCEPT !.port = S!FreePort] \in Stored
  OBVIOUS
<1>1. S!State \in Stored
  BY DEF S!State, SideTyped, Stored
<1>2. fresh + 1 \in Nat /\ fresh + 2 \in Nat
  BY DEF SideTyped
<1>3. ASSUME NEW st \in Stored
      PROVE  S!EnsureTokenPort(st) \in Stored /\ [st EXCEPT !.port = S!FreePort] \in Stored
  BY <1>2 DEF S!EnsureTokenPort, S!FreePort, Stored
<1> QED
  BY <1>1, <1>3

LEMMA SideTypes == SideTyped /\ [S!MCNext]_sidecar => SideTyped'
<1> SUFFICES ASSUME SideTyped, S!MCNext PROVE SideTyped'
  BY DEF SideTyped, Routed, sidecar
<1>1. /\ smooth' \in BOOLEAN
      /\ S!State \in Stored /\ \A st \in Stored : /\ S!EnsureTokenPort(st) \in Stored
                                               /\ [st EXCEPT !.port = S!FreePort] \in Stored
  BY RecordsTyped DEF S!MCNext
<1>2. ASSUME NEW t \in S!Goroutines, NEW site \in Sites, NEW new \in Locals,
             Routed(site, new.task), pc' = [pc EXCEPT ![t] = site], local' = [local EXCEPT ![t] = new],
             record' \in Stored, fresh' \in Nat, registered' \in BOOLEAN,
             UNCHANGED <<binary, pidfile, procs>>
      PROVE  SideTyped'
  BY <1>1, <1>2 DEF SideTyped, Routed
<1>3. S!NoLocal \in Locals /\ S!NoLocal.task = "none"
  BY DEF S!NoLocal, S!Missing, S!None, Locals, Tasks, Stored
<1>4. \A t \in S!Goroutines : local[t] \in Locals /\ pc[t] \in Sites
  BY DEF SideTyped
<1>5. \A l \in Locals, st \in Stored : [l EXCEPT !.st = st] \in Locals /\ [l EXCEPT !.st = st].task = l.task
  BY DEF Locals
<1>6. record \in Stored /\ fresh \in Nat /\ registered \in BOOLEAN
  BY DEF SideTyped
<1>7. ASSUME NEW t \in S!Goroutines, S!Load(t) PROVE SideTyped'
  <2>1. UNCHANGED <<record, binary, pidfile, procs, registered>>
    BY <1>7 DEF S!Load, S!disk
  <2>2. CASE local[t].task = "install"
    <3> DEFINE new == [local[t] EXCEPT !.st = S!EnsureTokenPort(S!State)]
    <3>1. new \in Locals /\ new.task = "install"
      BY <1>1, <1>4, <1>5, <2>2
    <3>2. pc' = [pc EXCEPT ![t] = "download"] /\ local' = [local EXCEPT ![t] = new] /\ fresh' \in Nat
      BY <1>7, <1>6, <2>2 DEF S!Load, S!GoTo
    <3> HIDE DEF new
    <3>3. Routed("download", new.task) /\ "download" \in Sites
      BY <3>1 DEF Routed, Sites
    <3> QED
      BY <1>2, <1>6, <2>1, <3>1, <3>2, <3>3
  <2>3. CASE local' = [local EXCEPT ![t] = S!NoLocal] /\ pc' = [pc EXCEPT ![t] = "idle"] /\ fresh' = fresh
    <3>1. Routed("idle", S!NoLocal.task) /\ "idle" \in Sites
      BY <1>3 DEF Routed, Sites
    <3> QED
      BY <1>2, <1>3, <1>6, <2>1, <2>3, <3>1
  <2>4. CASE local[t].task \in {"enable", "disable"} /\ pc' = [pc EXCEPT ![t] = "save"]
             /\ local' = [local EXCEPT ![t].st = S!State] /\ fresh' = fresh
    <3> DEFINE new == [local[t] EXCEPT !.st = S!State]
    <3>1. new \in Locals /\ new.task = local[t].task
      BY <1>1, <1>4, <1>5
    <3>2. local' = [local EXCEPT ![t] = new]
      BY <2>4
    <3> HIDE DEF new
    <3>3. Routed("save", new.task) /\ "save" \in Sites
      BY <3>1, <2>4 DEF Routed, Sites
    <3> QED
      BY <1>2, <1>6, <2>1, <2>4, <3>1, <3>2, <3>3
  <2> QED
    BY <1>7, <2>2, <2>3, <2>4 DEF S!Load, S!GoTo
<1>8. ASSUME NEW t \in S!Goroutines, S!Register(t) PROVE SideTyped'
  <2>1. registered' \in BOOLEAN /\ UNCHANGED <<record, binary, pidfile, procs, fresh>>
    <3>1. registered' = (registered \/ local[t].st.state = "enabled")
      BY <1>8 DEF S!Register
    <3> QED
      BY <1>8, <3>1 DEF S!Register, S!disk, S!counts
  <2>2. CASE /\ local' = local /\ pc' = [pc EXCEPT ![t] = "start"] /\ local[t].task = "enable"
    <3>1. local' = [local EXCEPT ![t] = local[t]] /\ "start" \in Sites
          /\ Routed("start", local[t].task)
      BY <2>2, <1>4 DEF Routed, Starting, Sites, SideTyped
    <3> QED
      BY <1>2, <1>4, <1>6, <2>1, <2>2, <3>1
  <2>3. CASE local' = [local EXCEPT ![t].task = "resume"] /\ pc' = [pc EXCEPT ![t] = "list"]
    <3> DEFINE new == [local[t] EXCEPT !.task = "resume"]
    <3>1. new \in Locals /\ local' = [local EXCEPT ![t] = new]
      BY <1>4, <2>3 DEF Locals, Tasks
    <3> HIDE DEF new
    <3>2. Routed("list", new.task) /\ "list" \in Sites
      BY DEF Routed, Sites
    <3> QED
      BY <1>2, <1>6, <2>1, <2>3, <3>1, <3>2
  <2>4. CASE local' = [local EXCEPT ![t] = S!NoLocal] /\ pc' = [pc EXCEPT ![t] = "idle"]
    <3>1. Routed("idle", S!NoLocal.task) /\ "idle" \in Sites
      BY <1>3 DEF Routed, Sites
    <3> QED
      BY <1>2, <1>3, <1>6, <2>1, <2>4, <3>1
  <2> QED
    BY <1>8, <2>2, <2>3, <2>4 DEF S!Register, S!GoTo
<1>9. ASSUME NEW t \in S!Goroutines, S!NewPort(t) PROVE SideTyped'
  <2> DEFINE st == S!EnsureTokenPort([local[t].st EXCEPT !.port = S!FreePort])
             new == [local[t] EXCEPT !.st = st]
  <2>1. st \in Stored
    BY <1>1, <1>4 DEF Locals
  <2>2. local' = [local EXCEPT ![t] = new] /\ pc' = [pc EXCEPT ![t] = "exec"] /\ fresh' = fresh + 2
        /\ record' = local'[t].st /\ UNCHANGED <<binary, pidfile, procs, registered>>
    BY <1>9 DEF S!NewPort, S!GoTo
  <2> HIDE DEF st
  <2>3. new \in Locals /\ new.st = st
    BY <1>4, <2>1 DEF Locals
  <2> HIDE DEF new
  <2>4. local'[t] = new
    BY <2>2 DEF SideTyped
  <2>5. Routed("exec", new.task) /\ "exec" \in Sites
    BY DEF Routed, Sites
  <2>6. record' \in Stored /\ fresh' \in Nat
    BY <1>6, <2>1, <2>2, <2>3, <2>4
  <2> QED
    BY <1>2, <1>6, <2>2, <2>3, <2>5, <2>6
<1>10. ASSUME NEW t \in S!Goroutines, S!Fail(t) PROVE SideTyped'
  <2> DEFINE new == [local[t] EXCEPT !.task = "none", !.st = S!State]
  <2>1. new \in Locals
    BY <1>1, <1>4 DEF Locals, Tasks
  <2>2. local' = [local EXCEPT ![t] = new] /\ pc' = [pc EXCEPT ![t] = "failsave"]
        /\ UNCHANGED <<record, fresh, binary, pidfile, procs, registered>>
    BY <1>10 DEF S!Fail, S!GoTo, S!counts, S!disk
  <2> HIDE DEF new
  <2>3. Routed("failsave", new.task) /\ "failsave" \in Sites
    BY DEF Routed, Sites
  <2> QED
    BY <1>2, <1>6, <2>1, <2>2, <2>3
<1> USE DEF SideTyped, Routed, Starting, Stopping, Stored, Locals, Tasks, Sites, S!Calls
<1>11. ASSUME NEW t \in S!Goroutines, S!Download(t) PROVE SideTyped'
  BY <1>1, <1>11 DEF S!Download, S!GoTo, S!counts, S!disk
<1>12. ASSUME NEW t \in S!Goroutines, S!DownloadFails(t) PROVE SideTyped'
  BY <1>1, <1>12 DEF S!DownloadFails, S!GoTo, S!counts, S!disk
<1>13. ASSUME NEW t \in S!Goroutines, S!Save(t) PROVE SideTyped'
  <2>1. S!Outcome[local[t].task] \in {"available", "installed", "enabled", "disabled"}
    BY <1>13 DEF S!Save, S!Outcome
  <2>2. record' \in Stored
    BY <1>13, <2>1 DEF S!Save, S!None
  <2> QED
    BY <1>1, <1>13, <2>2 DEF S!Save, S!GoTo, S!counts
<1>14. ASSUME NEW t \in S!Goroutines, S!Wipe(t) PROVE SideTyped'
  BY <1>1, <1>14 DEF S!Wipe, S!GoTo, S!counts, S!disk, S!None
<1>15. ASSUME NEW t \in S!Goroutines, S!Delete(t) PROVE SideTyped'
  <2>1. CASE local' = local
    BY <1>1, <1>15, <2>1 DEF S!Delete, S!GoTo, S!counts, S!Missing, S!None
  <2>2. CASE /\ local' = [local EXCEPT ![t].st = record] /\ local[t].task = "remove" /\ record' = record
             /\ pc' = [pc EXCEPT ![t] = "save"]
    <3> HIDE DEF Stored, Locals, Tasks, Sites, S!Calls
    <3>1. [local[t] EXCEPT !.st = record] \in Locals /\ [local[t] EXCEPT !.st = record].task = "remove"
      BY <1>4, <1>5, <1>6, <2>2
    <3>2. local' = [local EXCEPT ![t] = [local[t] EXCEPT !.st = record]]
          /\ UNCHANGED <<fresh, binary, pidfile, procs, registered>>
      BY <1>15, <2>2 DEF S!Delete, S!GoTo, S!counts
    <3>3. "save" \in Sites
      BY DEF Sites
    <3> QED
      BY <1>2, <1>6, <2>2, <3>1, <3>2, <3>3
  <2> QED
    BY <1>15, <2>1, <2>2 DEF S!Delete, S!GoTo
<1>16. ASSUME NEW t \in S!Goroutines, S!Unregister(t) PROVE SideTyped'
  BY <1>1, <1>16 DEF S!Unregister, S!GoTo, S!counts, S!disk
<1>17. ASSUME NEW t \in S!Goroutines, S!List(t) PROVE SideTyped'
  BY <1>1, <1>17 DEF S!List, S!GoTo, S!counts, S!disk
<1>18. ASSUME NEW t \in S!Goroutines, S!Start(t) PROVE SideTyped'
  BY <1>1, <1>18 DEF S!Start, S!GoTo, S!counts, S!disk, S!Failed
<1>19. ASSUME NEW t \in S!Goroutines, S!Kill(t) PROVE SideTyped'
  BY <1>1, <1>19 DEF S!Kill, S!GoTo, S!counts, S!disk
<1>20. ASSUME NEW t \in S!Goroutines, S!Unlink(t) PROVE SideTyped'
  BY <1>1, <1>20 DEF S!Unlink, S!GoTo, S!counts, S!disk, S!Unlinked, S!None
<1>21. ASSUME NEW t \in S!Goroutines, S!Exec(t) PROVE SideTyped'
  BY <1>1, <1>21 DEF S!Exec, S!GoTo, S!counts, S!disk, S!SidecarEnv, Numbers
<1>22. ASSUME NEW t \in S!Goroutines, S!ExecFails(t) PROVE SideTyped'
  BY <1>1, <1>22 DEF S!ExecFails, S!GoTo, S!counts, S!disk, S!Failed
<1>23. ASSUME NEW t \in S!Goroutines, S!WritePid(t) PROVE SideTyped'
  BY <1>1, <1>23 DEF S!WritePid, S!GoTo, S!counts, S!disk
<1>24. ASSUME NEW t \in S!Goroutines, S!Alive(t) PROVE SideTyped'
  BY <1>1, <1>24 DEF S!Alive, S!GoTo, S!counts, S!disk, S!Failed, S!NoLocal, S!Missing, S!None
<1>25. ASSUME NEW t \in S!Goroutines, S!FailSave(t) PROVE SideTyped'
  BY <1>1, <1>25 DEF S!FailSave, S!GoTo, S!counts, S!disk
<1>26. ASSUME NEW t \in {"request"}, S!Call(t) PROVE SideTyped'
  BY <1>1, <1>26 DEF S!Call, S!Goroutines, S!FirstStep, S!NoLocal, S!Missing, S!None, S!GoTo,
     S!counts, S!disk
<1>27. CASE S!Resume
  BY <1>1, <1>27 DEF S!Resume, S!Goroutines, S!Main, S!GoTo, S!counts, S!disk, S!NoLocal,
     S!Missing, S!None
<1>28. CASE S!Message
  BY <1>1, <1>28 DEF S!Message, S!Goroutines, S!Main, S!GoTo, S!counts, S!disk
<1>29. CASE S!MessageSave
  BY <1>1, <1>29 DEF S!MessageSave, S!Goroutines, S!Main, S!GoTo, S!counts, S!disk, S!NoLocal,
     S!Missing, S!None
<1>30. CASE S!Exit
  BY <1>1, <1>30 DEF S!Exit, S!Goroutines, S!Main, S!GoTo, S!counts, S!disk
<1>31. CASE S!StartAgain
  BY <1>1, <1>31 DEF S!StartAgain, S!Goroutines, S!Main, S!GoTo, S!counts, S!disk, S!Restarted,
     S!NoLocal, S!Missing, S!None
<1>32. CASE S!Crash
  BY <1>1, <1>32 DEF S!Crash, S!Goroutines, S!Main, S!GoTo, S!counts, S!disk, S!Restarted,
     S!NoLocal, S!Missing, S!None
<1>33. CASE S!Die
  BY <1>1, <1>33 DEF S!Die, S!Goroutines, S!Main, S!GoTo, S!counts, S!disk
<1> QED
  BY <1>7, <1>11, <1>12, <1>13, <1>14, <1>15, <1>16, <1>17, <1>8, <1>18, <1>19, <1>20, <1>9,
     <1>21, <1>22, <1>23, <1>24, <1>10, <1>25, <1>26, <1>27, <1>28, <1>29, <1>30, <1>31, <1>32,
     <1>33 DEF S!MCNext, S!Next, S!ManagerStep

(* A goroutine that was at work goes on, or is done. *)
LEMMA StillAlone ==
  ASSUME SideTyped, SmoothInv, NEW t \in AtWork, NEW site, pc' = [pc EXCEPT ![t] = site],
         OneSidecar', site \notin {"idle", "down"} => Working(t)', site \in {"idle", "down"} => Lists'
  PROVE  SmoothInv'
<1>1. t \in S!Goroutines /\ \A u \in S!Goroutines : pc'[u] = IF u = t THEN site ELSE pc[u]
  BY DEF SideTyped, AtWork
<1>2. AtWork' = IF site \in {"idle", "down"} THEN {} ELSE {t}
  BY <1>1 DEF SmoothInv, AtWork
<1> QED
  BY <1>2 DEF SmoothInv

LEMMA SmoothSteps ==
  ASSUME SideTyped, SideTyped', SmoothInv, NEW t \in AtWork, S!ManagerStep(t)
  PROVE  SmoothInv'
<1>1. t \in S!Goroutines /\ pc[t] \notin {"idle", "down"} /\ Working(t)
  BY DEF AtWork, SmoothInv
<1>2. \A q \in procs : pidfile = q.pid \/ (pc[t] = "pid" /\ local[t].pid = q.pid)
  <2> SUFFICES ASSUME NEW q \in procs PROVE pidfile = q.pid \/ (pc[t] = "pid" /\ local[t].pid = q.pid)
    OBVIOUS
  <2>1. pidfile = q.pid \/ \E u \in AtWork : pc[u] = "pid" /\ local[u].pid = q.pid
    BY DEF SmoothInv, OneSidecar
  <2>2. \A u \in AtWork : u = t
    BY DEF SmoothInv
  <2>3. CASE pidfile # q.pid
    <3>1. PICK u \in AtWork : pc[u] = "pid" /\ local[u].pid = q.pid
      BY <2>1, <2>3
    <3>2. u = t
      BY <2>2
    <3> QED
      BY <3>1, <3>2
  <2> QED
    BY <2>3
<1>3. /\ S!State \in Stored /\ S!SidecarEnv(S!State) = S!SidecarEnv(record)
      /\ S!State.state = IF record.state = "missing" THEN "available" ELSE record.state
      /\ procs # {} => S!SidecarEnv(S!EnsureTokenPort(S!State)) = S!SidecarEnv(record)
      /\ record.state # "missing" => S!State = record
  <2>0. S!State \in Stored
    BY RecordsTyped
  <2>1. S!State \in Stored /\ record \in Stored
    BY <2>0 DEF SideTyped
  <2>2. S!State.port = record.port /\ S!State.token = record.token
        /\ S!State.state = IF record.state = "missing" THEN "available" ELSE record.state
    BY <2>1 DEF S!State, Stored
  <2>3. procs # {} => record.port # 0 /\ record.token # 0
    BY DEF SmoothInv, OneSidecar, S!SidecarEnv
  <2>4. procs # {} => S!EnsureTokenPort(S!State) = S!State
    BY <2>1, <2>2, <2>3 DEF S!EnsureTokenPort, S!None, Stored
  <2> QED
    BY <2>1, <2>2, <2>4 DEF S!SidecarEnv, S!State
<1> USE DEF SideTyped, Working, OneSidecar, Same, Up, Lists, AtKill, Routed, Starting, Stopping
<1>4. CASE S!Load(t)
  <2>1. OneSidecar'
    BY <1>1, <1>2, <1>4 DEF S!Load, S!counts, S!disk, S!State, S!EnsureTokenPort, S!SidecarEnv,
       S!FreePort, S!NoLocal, S!Missing, S!None, S!GoTo, SmoothInv, AtWork
  <2>2. CASE pc' = [pc EXCEPT ![t] = "download"]
    <3>1. pc'[t] = "download"
      BY <1>1, <2>2
    <3>2. local'[t].st = S!EnsureTokenPort(S!State) /\ UNCHANGED <<procs, record>>
      BY <1>1, <1>4, <2>2 DEF S!Load, S!GoTo, S!disk, Locals
    <3>3. Working(t)'
      BY <1>3, <3>1, <3>2 DEF SmoothInv
    <3> QED
      BY <2>1, <2>2, <3>3, StillAlone
  <2>3. CASE pc' = [pc EXCEPT ![t] = "idle"]
    <3>1. pc'[t] = "idle"
      BY <1>1, <2>3
    <3>2. Lists'
      BY <1>1, <1>4, <2>3 DEF S!Load, S!counts, S!disk, S!State, S!EnsureTokenPort, S!SidecarEnv,
         S!FreePort, S!NoLocal, S!Missing, S!None, S!GoTo
    <3> QED
      BY <2>1, <2>3, <3>2, StillAlone
  <2>4. CASE pc' = [pc EXCEPT ![t] = "save"]
    <3>1. pc'[t] = "save"
      BY <1>1, <2>4
    <3>2. /\ local'[t].st = S!State /\ UNCHANGED <<procs, record>>
          /\ local'[t].task = local[t].task /\ local[t].task \in {"enable", "disable"}
      BY <1>1, <1>4, <2>4 DEF S!Load, S!GoTo, S!disk, Locals
    <3>3. Working(t)'
      BY <1>3, <1>1, <1>4, <3>1, <3>2 DEF S!Load, SmoothInv
    <3> QED
      BY <2>1, <2>4, <3>3, StillAlone
  <2> QED
    BY <1>1, <1>4, <2>1, <2>2, <2>3, <2>4 DEF S!Load, S!GoTo, S!State, S!EnsureTokenPort,
       S!SidecarEnv, S!FreePort, S!NoLocal, S!Missing, S!None
<1>5. CASE S!Download(t)
  <2>1. pc' = [pc EXCEPT ![t] = "save"] /\ pc'[t] = "save"
    BY <1>1, <1>5 DEF S!Download, S!GoTo
  <2>2. OneSidecar'
    BY <1>1, <1>2, <1>5, <2>1 DEF S!Download, S!counts, S!disk, SmoothInv, AtWork
  <2>3. Working(t)'
    BY <1>1, <1>2, <1>5, <2>1 DEF S!Download, S!counts, S!disk, SmoothInv
  <2> QED
    BY <2>1, <2>2, <2>3, StillAlone
<1>6. CASE S!DownloadFails(t)
  <2>1. pc' = [pc EXCEPT ![t] = "fail"] /\ pc'[t] = "fail"
    BY <1>1, <1>6 DEF S!DownloadFails, S!GoTo
  <2>2. OneSidecar'
    BY <1>1, <1>2, <1>6, <2>1 DEF S!DownloadFails, S!counts, S!disk, SmoothInv, AtWork
  <2>3. Working(t)'
    BY <1>1, <1>2, <1>6, <2>1 DEF S!DownloadFails, S!counts, S!disk, SmoothInv
  <2> QED
    BY <2>1, <2>2, <2>3, StillAlone
<1>7. CASE S!Save(t)
  <2>1. pc' = [pc EXCEPT ![t] = "unregister"] /\ pc'[t] = "unregister"
    BY <1>1, <1>7 DEF S!Save, S!GoTo
  <2>2. OneSidecar'
    <3>1. CASE procs = {}
      BY <1>7, <3>1 DEF S!Save
    <3>2. CASE procs # {}
      <4>1. local[t].task \in {"install", "enable"} /\ S!Outcome[local[t].task] \in {"installed", "enabled"}
        BY <1>1, <1>7, <3>2 DEF S!Save, S!Outcome
      <4>2. /\ record'.state = S!Outcome[local[t].task]
            /\ record'.port = local[t].st.port /\ record'.token = local[t].st.token
        BY <1>1, <1>7, <4>1 DEF S!Save, Locals, Stored
      <4>3. S!SidecarEnv(record)' = S!SidecarEnv(local[t].st)
        BY <4>2 DEF S!SidecarEnv
      <4>4. UNCHANGED <<procs, pidfile>> /\ Same(local[t].st) /\ pc[t] = "save"
        BY <1>1, <1>7 DEF S!Save
      <4> QED
        BY <1>2, <4>1, <4>2, <4>3, <4>4 DEF SmoothInv
    <3> QED
      BY <3>1, <3>2
  <2>3. Working(t)'
    BY <1>1, <1>2, <1>7, <2>1 DEF S!Save, S!counts, S!disk, SmoothInv, S!Outcome, S!None
  <2> QED
    BY <2>1, <2>2, <2>3, StillAlone
<1>8. CASE S!Wipe(t)
  <2>1. pc' = [pc EXCEPT ![t] = "delete"] /\ pc'[t] = "delete"
    BY <1>1, <1>8 DEF S!Wipe, S!GoTo
  <2>2. OneSidecar'
    BY <1>1, <1>2, <1>8, <2>1 DEF S!Wipe, S!counts, S!disk, SmoothInv, AtWork, S!None
  <2>3. Working(t)'
    BY <1>1, <1>2, <1>8, <2>1 DEF S!Wipe, S!counts, S!disk, SmoothInv, S!None
  <2> QED
    BY <2>1, <2>2, <2>3, StillAlone
<1>9. CASE S!Delete(t)
  <2>1. OneSidecar'
    BY <1>1, <1>2, <1>9 DEF S!Delete, S!counts, S!disk, S!Missing, S!None, S!GoTo, SmoothInv, AtWork
  <2>2. CASE pc' = [pc EXCEPT ![t] = "save"]
    <3>1. pc'[t] = "save"
      BY <1>1, <2>2
    <3>2. Working(t)'
      BY <1>1, <1>2, <1>9, <2>2, <3>1 DEF S!Delete, S!counts, S!disk, S!Missing, S!None, S!GoTo,
         SmoothInv
    <3> QED
      BY <2>1, <2>2, <3>2, StillAlone
  <2>3. CASE pc' = [pc EXCEPT ![t] = "unregister"]
    <3>1. pc'[t] = "unregister"
      BY <1>1, <2>3
    <3>2. Working(t)'
      BY <1>1, <1>2, <1>9, <2>3, <3>1 DEF S!Delete, S!counts, S!disk, S!Missing, S!None, S!GoTo,
         SmoothInv
    <3> QED
      BY <2>1, <2>3, <3>2, StillAlone
  <2> QED
    BY <1>1, <1>9, <2>1, <2>2, <2>3 DEF S!Delete, S!GoTo, S!Missing, S!None
<1>10. CASE S!Unregister(t)
  <2>1. pc' = [pc EXCEPT ![t] = "list"] /\ pc'[t] = "list"
    BY <1>1, <1>10 DEF S!Unregister, S!GoTo
  <2>2. OneSidecar'
    BY <1>1, <1>2, <1>10, <2>1 DEF S!Unregister, S!counts, S!disk, SmoothInv, AtWork
  <2>3. Working(t)'
    BY <1>1, <1>2, <1>10, <2>1 DEF S!Unregister, S!counts, S!disk, SmoothInv
  <2> QED
    BY <2>1, <2>2, <2>3, StillAlone
<1>11. CASE S!List(t)
  <2>1. pc' = [pc EXCEPT ![t] = "register"] /\ pc'[t] = "register"
    BY <1>1, <1>11 DEF S!List, S!GoTo
  <2>2. OneSidecar'
    BY <1>1, <1>2, <1>11, <2>1 DEF S!List, S!counts, S!disk, SmoothInv, AtWork
  <2>3. Working(t)'
    BY <1>1, <1>2, <1>11, <2>1 DEF S!List, S!counts, S!disk, SmoothInv
  <2> QED
    BY <2>1, <2>2, <2>3, StillAlone
<1>12. CASE S!Register(t)
  <2>1. OneSidecar'
    BY <1>1, <1>2, <1>12 DEF S!Register, S!counts, S!disk, S!NoLocal, S!Missing, S!None, S!GoTo,
       SmoothInv, AtWork
  <2>2. CASE pc' = [pc EXCEPT ![t] = "start"]
    <3>1. pc'[t] = "start"
      BY <1>1, <2>2
    <3>2. Working(t)'
      BY <1>1, <1>2, <1>12, <2>2, <3>1 DEF S!Register, S!counts, S!disk, S!NoLocal, S!Missing,
         S!None, S!GoTo, SmoothInv
    <3> QED
      BY <2>1, <2>2, <3>2, StillAlone
  <2>3. CASE pc' = [pc EXCEPT ![t] = "list"]
    <3>1. pc'[t] = "list"
      BY <1>1, <2>3
    <3>2. local[t].task = "boot" /\ local'[t].task = "resume" /\ UNCHANGED record
      BY <1>1, <1>12, <2>3 DEF S!Register, S!GoTo, S!disk, Locals
    <3>3. ~registered /\ local[t].st = record
      BY <1>1, <1>12, <3>2 DEF S!Register
    <3>4. registered' = (registered \/ local[t].st.state = "enabled")
      BY <1>12 DEF S!Register
    <3>5. Lists'
      BY <3>2, <3>3, <3>4
    <3>6. Working(t)'
      BY <3>1, <3>2, <3>5
    <3> QED
      BY <2>1, <2>3, <3>6, StillAlone
  <2>4. CASE pc' = [pc EXCEPT ![t] = "idle"]
    <3>1. pc'[t] = "idle"
      BY <1>1, <2>4
    <3>2. Lists'
      BY <1>1, <1>12, <2>4 DEF S!Register, S!counts, S!disk, S!NoLocal, S!Missing, S!None, S!GoTo
    <3> QED
      BY <2>1, <2>4, <3>2, StillAlone
  <2> QED
    BY <1>1, <1>12, <2>1, <2>2, <2>3, <2>4 DEF S!Register, S!GoTo, S!NoLocal, S!Missing, S!None
<1>13. CASE S!Start(t)
  <2>1. OneSidecar'
    BY <1>1, <1>2, <1>13 DEF S!Start, S!counts, S!disk, S!State, S!Failed, S!GoTo, SmoothInv, AtWork
  <2>2. CASE pc' = [pc EXCEPT ![t] = "kill"]
    <3>1. pc'[t] = "kill"
      BY <1>1, <2>2
    <3>2. /\ local'[t].st = S!State /\ local'[t].task = local[t].task /\ UNCHANGED <<record, registered>>
          /\ local[t].task \in Starting /\ Up
      BY <1>1, <1>13 DEF S!Start, S!disk, Locals
    <3>3. Working(t)'
      BY <1>3, <3>1, <3>2
    <3> QED
      BY <2>1, <2>2, <3>3, StillAlone
  <2>3. CASE pc' = [pc EXCEPT ![t] = "message"]
    <3>1. pc'[t] = "message"
      BY <1>1, <2>3
    <3>2. Working(t)'
      BY <1>1, <1>2, <1>13, <2>3, <3>1 DEF S!Start, S!counts, S!disk, S!State, S!Failed, S!GoTo,
         SmoothInv
    <3> QED
      BY <2>1, <2>3, <3>2, StillAlone
  <2>4. CASE pc' = [pc EXCEPT ![t] = "fail"]
    <3>1. pc'[t] = "fail"
      BY <1>1, <2>4
    <3>2. Working(t)'
      BY <1>1, <1>2, <1>13, <2>4, <3>1 DEF S!Start, S!counts, S!disk, S!State, S!Failed, S!GoTo,
         SmoothInv
    <3> QED
      BY <2>1, <2>4, <3>2, StillAlone
  <2> QED
    BY <1>1, <1>13, <2>1, <2>2, <2>3, <2>4 DEF S!Start, S!GoTo, S!State, S!Failed
<1>14. CASE S!Kill(t)
  <2>1. pc' = [pc EXCEPT ![t] = "unlink"] /\ pc'[t] = "unlink"
    BY <1>1, <1>14 DEF S!Kill, S!GoTo
  <2>2. OneSidecar'
    BY <1>1, <1>2, <1>14, <2>1 DEF S!Kill, S!counts, S!disk, SmoothInv, AtWork
  <2>3. Working(t)'
    BY <1>1, <1>2, <1>14, <2>1 DEF S!Kill, S!counts, S!disk, SmoothInv
  <2> QED
    BY <2>1, <2>2, <2>3, StillAlone
<1>15. CASE S!Unlink(t)
  <2>1. OneSidecar'
    BY <1>1, <1>2, <1>15 DEF S!Unlink, S!counts, S!disk, S!Unlinked, S!None, S!GoTo, SmoothInv,
       AtWork
  <2>2. CASE pc' = [pc EXCEPT ![t] = "port"]
    <3>1. pc'[t] = "port"
      BY <1>1, <2>2
    <3>2. Working(t)'
      BY <1>1, <1>2, <1>15, <2>2, <3>1 DEF S!Unlink, S!counts, S!disk, S!Unlinked, S!None, S!GoTo,
         SmoothInv
    <3> QED
      BY <2>1, <2>2, <3>2, StillAlone
  <2>3. CASE pc' = [pc EXCEPT ![t] = "load"]
    <3>1. pc'[t] = "load"
      BY <1>1, <2>3
    <3>2. Working(t)'
      BY <1>1, <1>2, <1>15, <2>3, <3>1 DEF S!Unlink, S!counts, S!disk, S!Unlinked, S!None, S!GoTo,
         SmoothInv
    <3> QED
      BY <2>1, <2>3, <3>2, StillAlone
  <2>4. CASE pc' = [pc EXCEPT ![t] = "wipe"]
    <3>1. pc'[t] = "wipe"
      BY <1>1, <2>4
    <3>2. Working(t)'
      BY <1>1, <1>2, <1>15, <2>4, <3>1 DEF S!Unlink, S!counts, S!disk, S!Unlinked, S!None, S!GoTo,
         SmoothInv
    <3> QED
      BY <2>1, <2>4, <3>2, StillAlone
  <2>5. CASE pc' = [pc EXCEPT ![t] = "down"]
    <3>1. pc'[t] = "down"
      BY <1>1, <2>5
    <3>2. Lists'
      BY <1>1, <1>15, <2>5 DEF S!Unlink, S!counts, S!disk, S!Unlinked, S!None, S!GoTo
    <3> QED
      BY <2>1, <2>5, <3>2, StillAlone
  <2> QED
    <3>1. S!Unlinked[local[t].task] \in {"port", "load", "wipe", "down"}
      BY <1>1, <1>15 DEF S!Unlink, S!Unlinked
    <3> QED
      BY <1>15, <2>2, <2>3, <2>4, <2>5, <3>1 DEF S!Unlink, S!GoTo
<1>16. CASE S!NewPort(t)
  <2>1. pc' = [pc EXCEPT ![t] = "exec"] /\ pc'[t] = "exec"
    BY <1>1, <1>16 DEF S!NewPort, S!GoTo
  <2>2. OneSidecar'
    BY <1>1, <1>2, <1>16, <2>1 DEF S!NewPort, S!counts, S!disk, SmoothInv, AtWork,
       S!EnsureTokenPort, S!FreePort, S!None
  <2>3. Working(t)'
    BY <1>1, <1>2, <1>16, <2>1 DEF S!NewPort, S!counts, S!disk, SmoothInv, S!EnsureTokenPort,
       S!FreePort, S!None
  <2> QED
    BY <2>1, <2>2, <2>3, StillAlone
<1>17. CASE S!Exec(t)
  <2>1. pc' = [pc EXCEPT ![t] = "pid"] /\ pc'[t] = "pid"
    BY <1>1, <1>17 DEF S!Exec, S!GoTo
  <2>2. OneSidecar'
    BY <1>1, <1>2, <1>17, <2>1 DEF S!Exec, S!counts, S!disk, SmoothInv, AtWork, S!SidecarEnv
  <2>3. Working(t)'
    BY <1>1, <1>2, <1>17, <2>1 DEF S!Exec, S!counts, S!disk, SmoothInv, S!SidecarEnv
  <2> QED
    BY <2>1, <2>2, <2>3, StillAlone
<1>18. CASE S!ExecFails(t)
  <2>1. OneSidecar'
    BY <1>1, <1>2, <1>18 DEF S!ExecFails, S!counts, S!disk, S!Failed, S!GoTo, SmoothInv, AtWork
  <2>2. CASE pc' = [pc EXCEPT ![t] = "message"]
    <3>1. pc'[t] = "message"
      BY <1>1, <2>2
    <3>2. Working(t)'
      BY <1>1, <1>2, <1>18, <2>2, <3>1 DEF S!ExecFails, S!counts, S!disk, S!Failed, S!GoTo,
         SmoothInv
    <3> QED
      BY <2>1, <2>2, <3>2, StillAlone
  <2>3. CASE pc' = [pc EXCEPT ![t] = "fail"]
    <3>1. pc'[t] = "fail"
      BY <1>1, <2>3
    <3>2. Working(t)'
      BY <1>1, <1>2, <1>18, <2>3, <3>1 DEF S!ExecFails, S!counts, S!disk, S!Failed, S!GoTo,
         SmoothInv
    <3> QED
      BY <2>1, <2>3, <3>2, StillAlone
  <2> QED
    BY <1>1, <1>18, <2>1, <2>2, <2>3 DEF S!ExecFails, S!GoTo, S!Failed
<1>19. CASE S!WritePid(t)
  <2>1. pc' = [pc EXCEPT ![t] = "alive"] /\ pc'[t] = "alive"
    BY <1>1, <1>19 DEF S!WritePid, S!GoTo
  <2>2. OneSidecar'
    BY <1>1, <1>2, <1>19, <2>1 DEF S!WritePid, S!counts, S!disk, SmoothInv, AtWork
  <2>3. Working(t)'
    BY <1>1, <1>2, <1>19, <2>1 DEF S!WritePid, S!counts, S!disk, SmoothInv
  <2> QED
    BY <2>1, <2>2, <2>3, StillAlone
<1>20. CASE S!Alive(t)
  <2>1. OneSidecar'
    BY <1>1, <1>2, <1>20 DEF S!Alive, S!counts, S!disk, S!Failed, S!ProcessAlive, S!NoLocal,
       S!Missing, S!None, S!GoTo, SmoothInv, AtWork
  <2>2. CASE pc' = [pc EXCEPT ![t] = "idle"]
    <3>1. pc'[t] = "idle"
      BY <1>1, <2>2
    <3>2. Lists'
      BY <1>1, <1>20, <2>2 DEF S!Alive, S!counts, S!disk, S!Failed, S!ProcessAlive, S!NoLocal,
         S!Missing, S!None, S!GoTo
    <3> QED
      BY <2>1, <2>2, <3>2, StillAlone
  <2>3. CASE pc' = [pc EXCEPT ![t] = "message"]
    <3>1. pc'[t] = "message"
      BY <1>1, <2>3
    <3>2. Working(t)'
      BY <1>1, <1>2, <1>20, <2>3, <3>1 DEF S!Alive, S!counts, S!disk, S!Failed, S!ProcessAlive,
         S!NoLocal, S!Missing, S!None, S!GoTo, SmoothInv
    <3> QED
      BY <2>1, <2>3, <3>2, StillAlone
  <2>4. CASE pc' = [pc EXCEPT ![t] = "fail"]
    <3>1. pc'[t] = "fail"
      BY <1>1, <2>4
    <3>2. Working(t)'
      BY <1>1, <1>2, <1>20, <2>4, <3>1 DEF S!Alive, S!counts, S!disk, S!Failed, S!ProcessAlive,
         S!NoLocal, S!Missing, S!None, S!GoTo, SmoothInv
    <3> QED
      BY <2>1, <2>4, <3>2, StillAlone
  <2> QED
    BY <1>1, <1>20, <2>1, <2>2, <2>3, <2>4 DEF S!Alive, S!GoTo, S!Failed, S!ProcessAlive,
       S!NoLocal, S!Missing, S!None
<1>21. CASE S!Fail(t)
  <2>1. pc' = [pc EXCEPT ![t] = "failsave"] /\ pc'[t] = "failsave"
    BY <1>1, <1>21 DEF S!Fail, S!GoTo
  <2>2. OneSidecar'
    BY <1>1, <1>2, <1>21, <2>1 DEF S!Fail, S!counts, S!disk, SmoothInv, AtWork, S!State
  <2>3. Working(t)'
    BY <1>1, <1>2, <1>21, <2>1 DEF S!Fail, S!counts, S!disk, SmoothInv, S!State
  <2> QED
    BY <2>1, <2>2, <2>3, StillAlone
<1>22. CASE S!FailSave(t)
  <2>1. pc' = [pc EXCEPT ![t] = "unregister"] /\ pc'[t] = "unregister"
    BY <1>1, <1>22 DEF S!FailSave, S!GoTo
  <2>2. OneSidecar'
    <3>1. /\ record'.state = "error" /\ S!SidecarEnv(record)' = S!SidecarEnv(local[t].st)
          /\ UNCHANGED <<procs, pidfile>> /\ Same(local[t].st) /\ pc[t] = "failsave"
      BY <1>1, <1>22 DEF S!FailSave, Locals, Stored, S!SidecarEnv
    <3> QED
      BY <1>2, <3>1 DEF SmoothInv
  <2>3. Working(t)'
    BY <1>1, <1>2, <1>22, <2>1 DEF S!FailSave, S!counts, S!disk, SmoothInv
  <2> QED
    BY <2>1, <2>2, <2>3, StillAlone
<1> QED
  BY <1>4, <1>5, <1>6, <1>7, <1>8, <1>9, <1>10, <1>11, <1>12, <1>13, <1>14, <1>15, <1>16, <1>17,
     <1>18, <1>19, <1>20, <1>21, <1>22 DEF S!ManagerStep

(* The steps of main alone, of the process and of the sidecar itself. *)
LEMMA SmoothStarts ==
  ASSUME SideTyped, SideTyped', SmoothInv, \A s, t \in AtWork' : s = t,
         NEW t \in {"request"}, S!Call(t)
  PROVE  SmoothInv'
<1> USE DEF SideTyped, Working, OneSidecar, Same, Up, Lists, AtKill, Routed, Starting, Stopping
<1>1. /\ t \in S!Goroutines /\ pc[t] = "idle" /\ UNCHANGED <<record, binary, pidfile, procs, registered>>
      /\ pc'[t] \in {"load", "kill"} /\ local'[t].task \in S!Calls
      /\ \A u \in S!Goroutines : u # t => pc'[u] = pc[u] /\ local'[u] = local[u]
  BY DEF S!Call, S!Goroutines, S!FirstStep, S!GoTo, S!NoLocal, S!disk
<1>2. t \in AtWork' /\ AtWork \subseteq AtWork' /\ t \notin AtWork
  BY <1>1 DEF AtWork
<1>3. AtWork = {} /\ AtWork' = {t}
  BY <1>2
<1>4. Lists
  BY <1>3 DEF SmoothInv
<1>5. OneSidecar'
  BY <1>1, <1>3 DEF SmoothInv
<1>6. local'[t].task \in {"install", "enable", "disable", "remove", "purge"}
  BY <1>1 DEF S!Calls
<1>7. pc'[t] = "load" => local'[t].task \in {"install", "enable"}
  BY DEF S!Call, S!FirstStep, S!GoTo, S!Goroutines, S!NoLocal
<1>8. pc'[t] = "kill" => local'[t].task \in Stopping
  BY DEF S!Call, S!FirstStep, S!GoTo, S!Goroutines, S!NoLocal, S!Calls
<1>9. Working(t)'
  BY <1>1, <1>4, <1>7, <1>8
<1> QED
  BY <1>3, <1>5, <1>9 DEF SmoothInv

LEMMA SmoothMain ==
  ASSUME SideTyped, SideTyped', SmoothInv, NEW t \in AtWork, t = S!Main,
         S!Resume \/ S!Message \/ S!MessageSave
  PROVE  SmoothInv'
<1>1. t \in S!Goroutines /\ pc[t] \notin {"idle", "down"} /\ Working(t)
  BY DEF AtWork, SmoothInv
<1> USE DEF SideTyped, Working, OneSidecar, Same, Up, Lists, AtKill, Routed, Starting, Stopping
<1>2. ASSUME OneSidecar, AtWork = {t}, pc[t] # "pid", UNCHANGED <<pidfile, procs, record>>
      PROVE  OneSidecar'
  BY <1>2
<1>3. OneSidecar /\ AtWork = {t}
  BY DEF SmoothInv
<1>4. CASE S!Resume
  <2>1. OneSidecar'
    BY <1>2, <1>3, <1>4 DEF S!Resume, S!disk
  <2>2. CASE local[t].st.state = "enabled"
    <3>1. pc' = [pc EXCEPT ![t] = "start"] /\ pc'[t] = "start" /\ Working(t)'
      BY <1>1, <1>4, <2>2 DEF S!Resume, S!GoTo, S!disk
    <3> QED
      BY <2>1, <3>1, StillAlone
  <2>3. CASE local[t].st.state # "enabled"
    <3>1. pc' = [pc EXCEPT ![t] = "idle"] /\ pc'[t] = "idle" /\ Lists'
      BY <1>1, <1>4, <2>3 DEF S!Resume, S!GoTo, S!disk
    <3> QED
      BY <2>1, <3>1, StillAlone
  <2> QED
    BY <2>2, <2>3
<1>5. CASE S!Message
  <2>1. OneSidecar'
    BY <1>2, <1>3, <1>5 DEF S!Message, S!disk
  <2>2. pc' = [pc EXCEPT ![t] = "messagesave"] /\ pc'[t] = "messagesave"
    BY <1>1, <1>5 DEF S!Message, S!GoTo
  <2>3. local'[t].st = S!State /\ UNCHANGED <<record, registered>> /\ Up
    BY <1>1, <1>5 DEF S!Message, S!disk, Locals
  <2>4. local'[t].st = record
    BY <2>3 DEF S!State
  <2>5. Working(t)'
    BY <2>2, <2>3, <2>4
  <2> QED
    BY <2>1, <2>2, <2>5, StillAlone
<1>6. CASE S!MessageSave
  <2>1. record' = record /\ Up /\ pc[t] = "messagesave"
    BY <1>1, <1>6 DEF S!MessageSave
  <2>2. OneSidecar'
    BY <1>2, <1>3, <1>6, <2>1 DEF S!MessageSave
  <2>3. pc' = [pc EXCEPT ![t] = "idle"] /\ pc'[t] = "idle" /\ Lists'
    BY <1>1, <1>6, <2>1 DEF S!MessageSave, S!GoTo
  <2> QED
    BY <2>2, <2>3, StillAlone
<1> QED
  BY <1>4, <1>5, <1>6

LEMMA SmoothRest ==
  ASSUME SideTyped, SideTyped', SmoothInv, \A s, t \in AtWork' : s = t,
         S!Exit \/ S!StartAgain \/ S!Die \/ (S!Crash /\ \A t \in S!Goroutines : pc[t] # "pid")
  PROVE  SmoothInv'
<1> USE DEF SideTyped, Working, OneSidecar, Same, Up, Lists, AtKill, Routed, Starting, Stopping
<1>1. S!Main \in S!Goroutines
  BY DEF S!Goroutines
<1>2. CASE S!Exit
  <2>1. /\ pc[S!Main] = "idle" /\ UNCHANGED <<record, binary, pidfile, procs, registered>>
        /\ local'[S!Main].task = "exit" /\ pc'[S!Main] \in {"down", "kill"}
        /\ \A u \in S!Goroutines : u # S!Main => pc'[u] = pc[u] /\ local'[u] = local[u]
    BY <1>1, <1>2 DEF S!Exit, S!GoTo, S!disk, Locals
  <2>2. AtWork \subseteq AtWork' /\ S!Main \notin AtWork
    BY <1>1, <2>1 DEF AtWork
  <2>3. OneSidecar'
    BY <2>1, <2>2 DEF SmoothInv, AtWork
  <2>4. CASE pc'[S!Main] = "down"
    <3>1. AtWork' = AtWork
      BY <2>1, <2>4 DEF AtWork
    <3>2. \A u \in AtWork : Working(u)'
      BY <2>1, <2>2 DEF SmoothInv, AtWork
    <3> QED
      BY <2>1, <2>3, <3>1, <3>2 DEF SmoothInv
  <2>5. CASE pc'[S!Main] = "kill"
    <3>1. AtWork' = {S!Main} /\ AtWork = {}
      BY <1>1, <2>2, <2>5 DEF AtWork
    <3>2. Working(S!Main)'
      BY <2>1, <2>5, <3>1 DEF SmoothInv
    <3> QED
      BY <2>3, <3>1, <3>2 DEF SmoothInv
  <2> QED
    BY <2>1, <2>4, <2>5
<1>3. CASE S!StartAgain \/ (S!Crash /\ \A t \in S!Goroutines : pc[t] # "pid")
  <2>1. /\ UNCHANGED <<record, binary, pidfile, procs>> /\ ~registered'
        /\ pc'[S!Main] = "unregister" /\ local'[S!Main].task = "boot"
        /\ \A t \in S!Goroutines : t # S!Main => pc'[t] = "idle"
    BY <1>1, <1>3 DEF S!StartAgain, S!Crash, S!Restarted, S!disk, S!NoLocal, S!Main, S!Goroutines
  <2>2. AtWork' = {S!Main}
    BY <1>1, <2>1 DEF AtWork
  <2>3. \A t \in AtWork : pc[t] # "pid"
    BY <1>3 DEF AtWork, S!StartAgain, S!Goroutines
  <2>4. OneSidecar'
    BY <2>1, <2>3 DEF SmoothInv
  <2>5. Working(S!Main)'
    BY <2>1
  <2> QED
    BY <2>2, <2>4, <2>5 DEF SmoothInv
<1>4. CASE S!Die
  <2>1. procs' \subseteq procs /\ UNCHANGED <<record, binary, pidfile, registered, pc, local>>
    BY <1>4 DEF S!Die, S!disk
  <2>2. AtWork' = AtWork
    BY <2>1 DEF AtWork
  <2>3. OneSidecar'
    BY <2>1, <2>2 DEF SmoothInv
  <2>4. \A t \in AtWork : Working(t)'
    BY <2>1 DEF SmoothInv
  <2> QED
    BY <2>1, <2>2, <2>3, <2>4 DEF SmoothInv
<1> QED
  BY <1>2, <1>3, <1>4

LEMMA SideStep == SideInv /\ [S!MCNext]_sidecar => SideInv'
<1> SUFFICES ASSUME SideInv, [S!MCNext]_sidecar, smooth' PROVE SmoothInv'
  BY SideTypes DEF SideInv
<1>1. SideTyped /\ SideTyped'
  BY SideTypes DEF SideInv
<1>2. CASE UNCHANGED sidecar
  BY <1>2 DEF sidecar, SideInv, SmoothInv, OneSidecar, Same, Lists, Working, AtKill, Up, AtWork
<1>3. ASSUME S!MCNext PROVE SmoothInv'
  <2>1. smooth /\ S!Cardinality(AtWork') <= 1
        /\ (S!Crash => \A t \in S!Goroutines : pc[t] # "pid")
    BY <1>3 DEF S!MCNext, AtWork
  <2>2. SmoothInv
    BY <2>1 DEF SideInv
  <2>3. \A s, t \in AtWork' : s = t
    <3>1. IsFiniteSet(S!Goroutines)
      <4>1. S!Goroutines = {"request", "main"}
        BY DEF S!Goroutines, S!Main
      <4>2. IsFiniteSet({"main"})
        BY FS_Singleton
      <4>3. IsFiniteSet({"main"} \cup {"request"})
        BY <4>2, FS_AddElement
      <4> QED
        BY <4>1, <4>3
    <3>2. IsFiniteSet(AtWork') /\ Cardinality(AtWork') <= 1
      BY <2>1, <3>1, FS_Subset, PartsCount DEF AtWork
    <3> QED
      BY <3>2, Counted
  <2>4. ASSUME NEW t \in S!Goroutines, S!ManagerStep(t) PROVE SmoothInv'
    <3>1. t \in AtWork
      BY <2>4 DEF AtWork, S!ManagerStep, S!Load, S!Download, S!DownloadFails, S!Save, S!Wipe,
                  S!Delete, S!Unregister, S!List, S!Register, S!Start, S!Kill, S!Unlink, S!NewPort,
                  S!Exec, S!ExecFails, S!WritePid, S!Alive, S!Fail, S!FailSave
    <3> QED
      BY <1>1, <2>2, <2>4, <3>1, SmoothSteps
  <2>5. ASSUME NEW t \in {"request"}, S!Call(t) PROVE SmoothInv'
    BY <1>1, <2>2, <2>3, <2>5, SmoothStarts
  <2>6. CASE S!Resume \/ S!Message \/ S!MessageSave
    <3>1. S!Main \in AtWork
      BY <2>6 DEF AtWork, S!Resume, S!Message, S!MessageSave, S!Goroutines
    <3> QED
      BY <1>1, <2>2, <2>6, <3>1, SmoothMain
  <2>7. CASE S!Exit \/ S!StartAgain \/ S!Die \/ S!Crash
    BY <1>1, <2>1, <2>2, <2>3, <2>7, SmoothRest
  <2> QED
    BY <1>3, <2>4, <2>5, <2>6, <2>7 DEF S!MCNext, S!Next
<1> QED
  BY <1>2, <1>3

LEMMA SideInit == S!MCInit => SideInv
<1> SUFFICES ASSUME S!MCInit PROVE SideInv
  OBVIOUS
<1> USE DEF S!MCInit, S!Init
<1>1. S!NoLocal \in Locals /\ S!Missing \in Stored
  BY DEF S!NoLocal, S!Missing, S!None, Locals, Tasks, Stored
<1>2. [S!NoLocal EXCEPT !.task = "boot"] \in Locals /\ [S!NoLocal EXCEPT !.task = "boot"].task = "boot"
  BY <1>1 DEF Locals, Tasks
<1>3. SideTyped
  BY <1>1, <1>2 DEF SideTyped, Routed, S!None, Sites
<1>4. AtWork = {S!Main}
  BY DEF AtWork, S!Goroutines, S!Main
<1>5. Working(S!Main)
  BY <1>2 DEF Working, S!Goroutines, S!Main
<1>6. OneSidecar
  BY DEF OneSidecar
<1> QED
  BY <1>3, <1>4, <1>5, <1>6 DEF SideInv, SmoothInv

(* Whatever is asked for, fails, crashes or dies, for any numbers of them: one
   goroutine at a time neither loses nor duplicates the sidecar, leaves none of
   a plugin that is off, and the registry has just the enabled plugin. *)
THEOREM SidecarKept == PlatformSpec => []SidecarFollows
<1>1. SideInv => SidecarFollows
  <2> SUFFICES ASSUME SideInv, smooth PROVE S!SidecarKnown /\ S!OffIsOff
    BY DEF SidecarFollows, S!SmoothSidecarKnown, S!SmoothOffIsOff
  <2>1. SmoothInv
    BY DEF SideInv
  <2>2. Cardinality(procs) <= 1
    <3>1. CASE procs = {}
      BY <3>1, FS_EmptySet
    <3>2. ASSUME NEW q \in procs PROVE Cardinality(procs) <= 1
      <4>1. procs = {q}
        BY <2>1 DEF SmoothInv, OneSidecar
      <4> QED
        BY <4>1, FS_Singleton
    <3> QED
      BY <3>1, <3>2
  <2>3. \A q \in procs : pidfile = q.pid \/ \E t \in S!Goroutines : pc[t] = "pid" /\ local[t].pid = q.pid
    BY <2>1 DEF SmoothInv, OneSidecar, AtWork
  <2>4. S!OffIsOff
    BY <2>1 DEF SmoothInv, OneSidecar, AtWork, S!OffIsOff, S!Quiet, Lists
  <2> QED
    BY <2>2, <2>3, <2>4, PartsCount DEF S!SidecarKnown
<1>2. PlatformInit => SideInv
  BY SideInit DEF PlatformInit
<1> QED
  BY <1>1, <1>2, SideStep, PartsStep, PTL DEF PlatformSpec

(* And the sidecar that runs listens on the port and has the token that the
   record has. *)
THEOREM SidecarReached == PlatformSpec => []SidecarIsReachable
<1>1. SideInv => SidecarIsReachable
  BY DEF SideInv, SmoothInv, OneSidecar, SidecarIsReachable, S!SmoothSidecarReachable,
         S!SidecarReachable, S!Forwards
<1>2. PlatformInit => SideInv
  BY SideInit DEF PlatformInit
<1> QED
  BY <1>1, <1>2, SideStep, PartsStep, PTL DEF PlatformSpec

-----------------------------------------------------------------------------
(* The binaries. A request that was alone all its time has read what is
   registered; a component that is not spoilt is settled unless it has still
   to come to it, or is in the middle of it. *)
Builds == [version : Nat \ {0}, features : SUBSET Features]
Stages == {"idle", "next", "probe", "features", "check", "fetch", "aside", "write", "rename",
           "record", "restart"}
Ops == {o \in [at : Stages, comp : Ids \cup {B!Idle.comp}, todo : SUBSET Ids, variant : BOOLEAN,
                bin : Builds \cup {B!None}] :
          /\ o.at \notin {"idle", "next"} => o.comp \in Ids
          /\ o.at \in {"next", "probe", "features", "check", "record"} => o.variant
          /\ o.at \in {"features", "check", "aside", "write", "rename", "record"} => o.bin \in Builds
          /\ o.at = "fetch" /\ o.variant => o.bin \in Builds
          /\ ~o.variant => o.todo = {}}
BinTyped ==
    /\ file \in [Ids -> Builds \cup {B!None}] /\ tmp \in [Ids -> Builds \cup {B!None}]
    /\ applied \in [Ids -> Builds \cup {B!None}] /\ running \in [Units -> Builds \cup {B!None}]
    /\ latest \in [Ids -> Nat \ {0}]
    /\ op \in [Threads -> Ops]

Engaged == {t \in Threads : op[t].at # "idle"}
Wanted(c) == B!ComponentFeatures(c, on)
Runs(c)   == c \in Units => running[c] = file[c]
Right(c)  == file[c].features = Wanted(c)
Known(c)  == applied[c] # B!None => applied[c] = file[c]
At(t, stages) == op[t].at \in stages

(* What a request that was alone knows ... *)
Apart(t) ==
    LET c == op[t].comp
    IN /\ ~op[t].variant /\ ~At(t, {"restart"}) => spoilt = Ids
       /\ op[t].variant /\ At(t, {"check", "fetch", "aside", "write", "rename", "record"}) =>
            op[t].bin.features = Wanted(c)
       /\ At(t, {"rename"}) => tmp[c] = op[t].bin
       /\ At(t, {"record"}) => file[c] = op[t].bin

(* ... and what it has made of a component that is not spoilt. *)
Halfway(t, c) ==
    IF At(t, {"next"}) \/ op[t].comp # c
    THEN Runs(c) /\ Known(c) /\ (c \notin op[t].todo => Right(c))
    ELSE /\ At(t, {"probe", "features", "check", "fetch", "aside"}) => Runs(c) /\ Known(c)
         /\ At(t, {"restart"}) => Right(c) /\ Known(c)
BinInv ==
    /\ BinTyped /\ IsFiniteSet(Engaged)
    /\ crowded \subseteq Engaged /\ spoilt \subseteq Ids
    /\ crowded # {} => spoilt = Ids
    /\ \A t \in Engaged \ crowded : Engaged = {t} /\ Apart(t)
    /\ \A c \in Ids \ spoilt :
         /\ Engaged = {} => Runs(c) /\ Known(c) /\ Right(c)
         /\ \A t \in Engaged : Halfway(t, c)

LEMMA BinTypes == BinTyped /\ [B!MCNext]_binaries => BinTyped'
<1> SUFFICES ASSUME BinTyped, B!Next PROVE BinTyped'
  BY DEF BinTyped, binaries, B!MCNext
<1>1. B!Idle \in Ops /\ B!Idle.at = "idle" /\ B!Idle.variant = FALSE
  BY DEF B!Idle, Ops, Stages
<1> USE UnitsAssumption DEF BinTyped
<1>2. ASSUME NEW t \in Threads, NEW new \in Ops, op' = [op EXCEPT ![t] = new],
             UNCHANGED <<file, tmp, applied, running, latest>>
      PROVE  BinTyped'
  BY <1>2
<1>3. ASSUME NEW t \in Threads, B!Choose(t) PROVE BinTyped'
  <2>1. CASE op[t].todo = {}
    <3>1. op' = [op EXCEPT ![t] = B!Idle] /\ UNCHANGED <<file, tmp, applied, running, latest>>
      BY <1>3, <2>1 DEF B!Choose, B!disk
    <3> QED
      BY <1>1, <1>2, <3>1
  <2>2. ASSUME NEW c \in op[t].todo, op' = [op EXCEPT ![t].at = "probe", ![t].comp = c, ![t].todo = @ \ {c}]
        PROVE  BinTyped'
    <3> DEFINE new == [op[t] EXCEPT !.at = "probe", !.comp = c, !.todo = @ \ {c}]
    <3>1. op[t] \in Ops /\ op[t].variant
      BY <1>3 DEF B!Choose, Ops
    <3>2. new \in Ops
      <4>1. PICK o \in Ops : o = op[t]
        BY <3>1
      <4>2. o.variant /\ c \in o.todo
        BY <3>1, <4>1
      <4>3. [o EXCEPT !.at = "probe", !.comp = c, !.todo = @ \ {c}] \in Ops
        BY <4>2 DEF Ops, Stages
      <4> QED
        BY <4>1, <4>3
    <3>3. op' = [op EXCEPT ![t] = new]
      BY <2>2
    <3>4. UNCHANGED <<file, tmp, applied, running, latest>>
      BY <1>3 DEF B!Choose, B!disk
    <3> HIDE DEF new
    <3> QED
      BY <1>2, <3>2, <3>3, <3>4
  <2> QED
    BY <1>3, <2>1, <2>2 DEF B!Choose
<1>4. ASSUME NEW t \in Threads, B!Probe(t) PROVE BinTyped'
  <2> DEFINE new == [op[t] EXCEPT !.at = "features", !.bin = file[op[t].comp]]
  <2>1. op[t] \in Ops /\ op[t].at = "probe" /\ file[op[t].comp] \in Builds
    BY <1>4 DEF B!Probe, Ops
  <2>2. new \in Ops
    BY <2>1 DEF Ops, Stages
  <2>3. op' = [op EXCEPT ![t] = new] /\ UNCHANGED <<file, tmp, applied, running, latest>>
    BY <1>4 DEF B!Probe, B!disk
  <2> HIDE DEF new
  <2> QED
    BY <1>2, <2>2, <2>3
<1>5. ASSUME NEW t \in Threads, B!VersionUnknown(t) PROVE BinTyped'
  <2> DEFINE new == IF op[t].variant THEN [op[t] EXCEPT !.at = "next"] ELSE B!Idle
  <2>1. op[t] \in Ops /\ op[t].at = "probe"
    BY <1>5 DEF B!VersionUnknown
  <2>2. new \in Ops
    BY <1>1, <2>1 DEF Ops, Stages
  <2>3. op' = [op EXCEPT ![t] = new] /\ UNCHANGED <<file, tmp, applied, running, latest>>
    BY <1>5 DEF B!VersionUnknown, B!GiveUp, B!disk
  <2> HIDE DEF new
  <2> QED
    BY <1>2, <2>2, <2>3
<1>6. ASSUME NEW t \in Threads, B!ReadFeatures(t) PROVE BinTyped'
  <2> DEFINE bin == B!Variant(op[t].bin.version, B!ComponentFeatures(op[t].comp, on))
             new == [op[t] EXCEPT !.at = "check", !.bin = bin]
  <2>1. op[t] \in Ops /\ op[t].at = "features" /\ op[t].variant /\ op[t].bin \in Builds
    BY <1>6 DEF B!ReadFeatures, Ops
  <2>2. bin \in Builds
    BY <2>1 DEF B!Variant, B!ComponentFeatures, Builds
  <2> HIDE DEF bin
  <2>3. new \in Ops
    BY <2>1, <2>2 DEF Ops, Stages
  <2>4. op' = [op EXCEPT ![t] = new] /\ UNCHANGED <<file, tmp, applied, running, latest>>
    BY <1>6 DEF B!ReadFeatures, B!disk, bin
  <2> HIDE DEF new
  <2> QED
    BY <1>2, <2>3, <2>4
<1>7. ASSUME NEW t \in Threads, B!CheckApplied(t) PROVE BinTyped'
  BY <1>1, <1>7 DEF B!CheckApplied, B!disk, Ops, Stages, Builds, B!Goto
<1>8. ASSUME NEW t \in Threads, B!Fetch(t) PROVE BinTyped'
  <2> PICK bin \in Builds : op' = [op EXCEPT ![t].at = "aside", ![t].bin = bin]
    <3>1. op[t].variant => op[t].bin \in Builds
      BY <1>8 DEF B!Fetch, Ops
    <3>2. B!Variant(latest[op[t].comp], {}) \in Builds
      BY <1>8 DEF B!Fetch, Ops, B!Variant, Builds
    <3> QED
      BY <1>8, <3>1, <3>2 DEF B!Fetch
  <2> DEFINE new == [op[t] EXCEPT !.at = "aside", !.bin = bin]
  <2>0. op[t] \in Ops /\ op[t].at = "fetch"
    BY <1>8 DEF B!Fetch
  <2>1. new \in Ops
    BY <2>0 DEF Ops, Stages
  <2>2. op' = [op EXCEPT ![t] = new]
    OBVIOUS
  <2> HIDE DEF new
  <2> QED
    BY <1>2, <1>8, <2>1, <2>2 DEF B!Fetch, B!disk
<1>9. ASSUME NEW t \in Threads, B!MoveAside(t) PROVE BinTyped'
  BY <1>1, <1>9 DEF B!MoveAside, B!disk, Ops, Stages, Builds, B!Goto
<1>10. ASSUME NEW t \in Threads, B!WriteTmp(t) PROVE BinTyped'
  BY <1>1, <1>10 DEF B!WriteTmp, B!disk, Ops, Stages, Builds, B!Goto
<1>11. ASSUME NEW t \in Threads, B!MoveIn(t) PROVE BinTyped'
  BY <1>1, <1>11 DEF B!MoveIn, B!disk, Ops, Stages, Builds, B!Idle
<1>12. ASSUME NEW t \in Threads, B!StepFails(t) PROVE BinTyped'
  BY <1>1, <1>12 DEF B!StepFails, B!disk, Ops, Stages, Builds, B!GiveUp, B!Idle
<1>13. ASSUME NEW t \in Threads, B!Record(t) PROVE BinTyped'
  BY <1>1, <1>13 DEF B!Record, B!disk, Ops, Stages, Builds, B!Goto
<1>14. ASSUME NEW t \in Threads, B!Restart(t) PROVE BinTyped'
  BY <1>1, <1>14 DEF B!Restart, B!disk, Ops, Stages, Builds, B!After, B!Idle
<1>15. ASSUME NEW t \in Threads, B!Reload(t) PROVE BinTyped'
  <2>1. [op[t] EXCEPT !.at = "next"] \in Ops \/ ~op[t].variant
    BY DEF Ops, Stages
  <2> QED
    BY <1>1, <1>2, <1>15, <2>1 DEF B!Reload, B!disk, B!After
<1>16. ASSUME NEW t \in Threads, NEW p \in Plugins, B!Enable(t, p) \/ B!Disable(t, p) PROVE BinTyped'
  <2> DEFINE new == [B!Idle EXCEPT !.at = "next", !.todo = B!Affected(p), !.variant = TRUE]
  <2>1. B!Affected(p) \subseteq Ids
    BY DEF B!Affected, MCAsks
  <2>2. new \in Ops
    BY <1>1, <2>1 DEF Ops, Stages
  <2>3. op' = [op EXCEPT ![t] = new]
    BY <1>16 DEF B!Enable, B!Disable, B!Plugin
  <2> HIDE DEF new
  <2> QED
    BY <1>2, <1>16, <2>2, <2>3 DEF B!Enable, B!Disable, B!Plugin, B!disk
<1>17. ASSUME NEW t \in Threads, NEW c \in Ids, B!Upgrade(t, c) \/ B!AskRestart(t, c) PROVE BinTyped'
  <2> PICK at \in {"fetch", "restart"} : op' = [op EXCEPT ![t] = [B!Idle EXCEPT !.at = at, !.comp = c]]
    BY <1>17 DEF B!Upgrade, B!AskRestart
  <2> DEFINE new == [B!Idle EXCEPT !.at = at, !.comp = c]
  <2>1. new \in Ops
    BY <1>1 DEF Ops, Stages
  <2>2. op' = [op EXCEPT ![t] = new]
    OBVIOUS
  <2> HIDE DEF new
  <2> QED
    BY <1>2, <1>17, <2>1, <2>2 DEF B!Upgrade, B!AskRestart, B!disk
<1>18. ASSUME NEW c \in Ids, B!Release(c) PROVE BinTyped'
  BY <1>18 DEF B!Release, B!disk
<1>19. CASE B!Crash \/ \E p \in Plugins : B!StoreRemove(p)
  BY <1>1, <1>19 DEF B!Crash, B!StoreRemove, B!disk
<1> QED
  BY <1>3, <1>4, <1>5, <1>6, <1>7, <1>8, <1>9, <1>10, <1>11, <1>12, <1>13, <1>14, <1>15, <1>16,
     <1>17, <1>18, <1>19 DEF B!Next, B!Request, B!Step

(* Where nobody can say what a component is, or nothing is under way. *)
LEMMA AllSpoilt ==
  ASSUME BinTyped', IsFiniteSet(Engaged'), crowded' \subseteq Engaged', spoilt' = Ids,
         \A t \in Engaged' \ crowded' : Engaged' = {t} /\ Apart(t)'
  PROVE  BinInv'
BY DEF BinInv

(* What a request that was alone knows after its next step. *)
LEMMA ApartStep ==
  ASSUME BinTyped, BinTyped', NEW t \in Threads, ~At(t, {"idle"}), Apart(t), B!Step(t),
         ~op[t].variant /\ spoilt = Ids => spoilt' = Ids
  PROVE  ~At(t, {"idle"})' => Apart(t)'
<1>1. op[t] \in Ops /\ op'[t] \in Ops /\ op \in [Threads -> Ops]
  BY DEF BinTyped
<1>2. \A c : Wanted(c)' = Wanted(c)
  BY DEF B!Step, B!Choose, B!Probe, B!VersionUnknown, B!ReadFeatures, B!CheckApplied, B!Fetch,
         B!MoveAside, B!WriteTmp, B!MoveIn, B!StepFails, B!Record, B!Restart, B!Reload, Wanted
<1> USE DEF BinTyped
<1>3. CASE B!Choose(t)
  <2>1. CASE op[t].todo = {}
    BY <1>1, <1>3, <2>1 DEF B!Choose, At, B!Idle
  <2>2. CASE op[t].todo # {}
    <3>0. PICK d \in op[t].todo : op' = [op EXCEPT ![t].at = "probe", ![t].comp = d, ![t].todo = @ \ {d}]
      BY <1>3, <2>2 DEF B!Choose
    <3>1. op'[t].at = "probe" /\ op'[t].variant
      BY <1>1, <1>3, <3>0 DEF B!Choose, Ops
    <3> QED
      BY <3>1 DEF Apart, At
  <2> QED
    BY <2>1, <2>2
<1>4. CASE B!Probe(t)
  BY <1>1, <1>2, <1>4 DEF B!Probe, B!disk, Apart, At
<1>5. CASE B!VersionUnknown(t)
  BY <1>1, <1>2, <1>5 DEF B!VersionUnknown, B!disk, Apart, At, B!GiveUp, B!Idle
<1>6. CASE B!ReadFeatures(t)
  <2>1. /\ op'[t].at = "check" /\ op'[t].comp = op[t].comp /\ op'[t].variant
        /\ op'[t].bin = B!Variant(op[t].bin.version, Wanted(op[t].comp))
    BY <1>1, <1>6 DEF B!ReadFeatures, Ops, Wanted
  <2> QED
    BY <1>2, <2>1 DEF Apart, At, B!Variant
<1>7. CASE B!CheckApplied(t)
  BY <1>1, <1>2, <1>7 DEF B!CheckApplied, B!disk, Apart, At, B!Goto
<1>8. CASE B!Fetch(t)
  BY <1>1, <1>2, <1>8 DEF B!Fetch, B!disk, Apart, At, B!Variant
<1>9. CASE B!MoveAside(t)
  BY <1>1, <1>2, <1>9 DEF B!MoveAside, B!disk, Apart, At, B!Goto
<1>10. CASE B!WriteTmp(t)
  BY <1>1, <1>2, <1>10 DEF B!WriteTmp, B!disk, Apart, At, B!Goto
<1>11. CASE B!MoveIn(t)
  BY <1>1, <1>2, <1>11 DEF B!MoveIn, B!disk, Apart, At, B!Idle
<1>12. CASE B!StepFails(t)
  BY <1>1, <1>2, <1>12 DEF B!StepFails, B!disk, Apart, At, B!GiveUp, B!Idle, B!Failing
<1>13. CASE B!Record(t)
  BY <1>1, <1>2, <1>13 DEF B!Record, B!disk, Apart, At, B!Goto
<1>14. CASE B!Restart(t)
  BY <1>1, <1>2, <1>14 DEF B!Restart, B!disk, Apart, At, B!After, B!Idle
<1>15. CASE B!Reload(t)
  BY <1>1, <1>2, <1>15 DEF B!Reload, B!disk, Apart, At, B!After, B!Idle
<1> QED
  BY <1>3, <1>4, <1>5, <1>6, <1>7, <1>8, <1>9, <1>10, <1>11, <1>12, <1>13, <1>14, <1>15 DEF B!Step

(* And what it leaves of a component that is not spoilt. *)
LEMMA LoneStep ==
  ASSUME BinTyped, BinTyped', NEW t \in Threads, ~At(t, {"idle"}), Apart(t), B!Step(t),
         NEW c \in Ids, Halfway(t, c) \/ (B!Record(t) /\ op[t].comp = c),
         ~op[t].variant => At(t, {"restart"}),
         ~(B!StepFails(t) \/ B!VersionUnknown(t)),
         B!Reload(t) => file[op[t].comp] = running[op[t].comp]
  PROVE  IF At(t, {"idle"})' THEN Runs(c)' /\ Known(c)' /\ Right(c)' ELSE Halfway(t, c)'
<1>1. op[t] \in Ops /\ op'[t] \in Ops /\ op \in [Threads -> Ops]
  BY DEF BinTyped
<1>2. \A d : Wanted(d)' = Wanted(d)
  BY DEF B!Step, B!Choose, B!Probe, B!VersionUnknown, B!ReadFeatures, B!CheckApplied, B!Fetch,
         B!MoveAside, B!WriteTmp, B!MoveIn, B!StepFails, B!Record, B!Restart, B!Reload, Wanted
<1>0. ASSUME UNCHANGED <<file, applied, running>>
      PROVE  Runs(c)' = Runs(c) /\ Known(c)' = Known(c) /\ Right(c)' = Right(c)
  BY <1>0, <1>2 DEF Runs, Known, Right
<1>14. ASSUME NEW from, NEW to, op[t].at = from, op'[t].at = to, op'[t].comp = op[t].comp,
              op'[t].todo = op[t].todo, UNCHANGED <<file, applied, running>>, ~B!Record(t),
              from \in {"probe", "features", "check", "fetch"},
              to \in {"features", "check", "fetch", "aside"}
       PROVE  ~At(t, {"idle"})' /\ Halfway(t, c)'
  BY <1>0, <1>14 DEF Halfway, At
<1> USE DEF BinTyped
<1>3. CASE B!Choose(t)
  <2>1. op[t].at = "next" /\ UNCHANGED <<file, applied, running>> /\ ~B!Record(t)
    BY <1>3 DEF B!Choose, B!disk, B!Record
  <2>2. Runs(c) /\ Known(c) /\ (c \notin op[t].todo => Right(c))
    BY <2>1 DEF Halfway, At
  <2>3. CASE op[t].todo = {}
    <3>1. op'[t].at = "idle"
      BY <1>1, <1>3, <2>3 DEF B!Choose, B!Idle
    <3> QED
      BY <1>0, <2>1, <2>2, <2>3, <3>1 DEF At
  <2>4. CASE op[t].todo # {}
    <3>0. PICK d \in op[t].todo : op' = [op EXCEPT ![t].at = "probe", ![t].comp = d, ![t].todo = @ \ {d}]
      BY <1>3, <2>4 DEF B!Choose
    <3>1. op'[t].at = "probe" /\ op'[t].todo = op[t].todo \ {op'[t].comp}
      BY <1>1, <3>0 DEF Ops
    <3> QED
      BY <1>0, <2>1, <2>2, <3>1 DEF At, Halfway
  <2> QED
    BY <2>3, <2>4
<1>4. CASE B!Probe(t)
  <2>1. op[t].at = "probe" /\ UNCHANGED <<file, applied, running>> /\ ~B!Record(t)
    BY <1>4 DEF B!Probe, B!disk, B!Record
  <2>2. op'[t].at = "features" /\ op'[t].comp = op[t].comp /\ op'[t].todo = op[t].todo
    BY <1>1, <1>4 DEF B!Probe, Ops
  <2> QED
    BY <1>14, <2>1, <2>2
<1>5. CASE B!ReadFeatures(t)
  <2>1. op[t].at = "features" /\ UNCHANGED <<file, applied, running>> /\ ~B!Record(t)
    BY <1>5 DEF B!ReadFeatures, B!disk, B!Record
  <2>2. op'[t].at = "check" /\ op'[t].comp = op[t].comp /\ op'[t].todo = op[t].todo
    BY <1>1, <1>5 DEF B!ReadFeatures, Ops
  <2> QED
    BY <1>14, <2>1, <2>2
<1>6. CASE B!CheckApplied(t)
  <2>1. op[t].at = "check" /\ UNCHANGED <<file, applied, running>> /\ ~B!Record(t)
    BY <1>6 DEF B!CheckApplied, B!disk, B!Record
  <2>2. /\ op'[t].comp = op[t].comp /\ op'[t].todo = op[t].todo
        /\ op'[t].at = IF applied[op[t].comp] = op[t].bin /\ file[op[t].comp] # B!None
                       THEN "restart" ELSE "fetch"
    BY <1>1, <1>6 DEF B!CheckApplied, B!Goto, Ops
  <2>3. CASE op'[t].at = "fetch"
    BY <1>14, <2>1, <2>2, <2>3
  <2>4. CASE op'[t].at = "restart" /\ op[t].comp # c
    BY <1>0, <2>1, <2>2, <2>4 DEF Halfway, At
  <2>5. CASE op'[t].at = "restart" /\ op[t].comp = c
    <3>1. applied[c] = op[t].bin /\ Runs(c) /\ Known(c)
      BY <2>1, <2>2, <2>5 DEF Halfway, At
    <3>2. op[t].bin \in Builds /\ op[t].bin.features = Wanted(c)
      BY <1>1, <2>1, <2>5 DEF Apart, At, Ops
    <3>3. op[t].bin # B!None
      BY <3>2 DEF Builds, B!None
    <3>4. Right(c)
      BY <3>1, <3>2, <3>3 DEF Known, Right
    <3> QED
      BY <1>0, <2>1, <2>2, <2>5, <3>1, <3>4 DEF Halfway, At
  <2> QED
    BY <2>2, <2>3, <2>4, <2>5
<1>7. CASE B!Fetch(t)
  <2>1. op[t].at = "fetch" /\ UNCHANGED <<file, applied, running>> /\ ~B!Record(t)
    BY <1>7 DEF B!Fetch, B!disk, B!Record
  <2>2. op'[t].at = "aside" /\ op'[t].comp = op[t].comp /\ op'[t].todo = op[t].todo
    BY <1>1, <1>7 DEF B!Fetch, Ops
  <2> QED
    BY <1>14, <2>1, <2>2
<1>8. CASE B!MoveAside(t)
  BY <1>1, <1>2, <1>8 DEF B!MoveAside, B!disk, Halfway, At, Runs, Known, Right, Apart, B!Goto
<1>9. CASE B!WriteTmp(t)
  BY <1>1, <1>2, <1>9 DEF B!WriteTmp, B!disk, Halfway, At, Runs, Known, Right, Apart, B!Goto
<1>10. CASE B!MoveIn(t)
  BY <1>1, <1>2, <1>10 DEF B!MoveIn, B!disk, Halfway, At, Runs, Known, Right, Apart, B!Idle
<1>11. CASE B!Record(t)
  BY <1>1, <1>2, <1>11 DEF B!Record, B!disk, Halfway, At, Runs, Known, Right, Apart, B!Goto
<1>12. CASE B!Restart(t)
  <2>1. op[t].at = "restart" /\ UNCHANGED <<file, applied>> /\ ~B!Record(t)
    BY <1>12 DEF B!Restart, B!disk, B!Record
  <2>2. Known(c)' = Known(c) /\ Right(c)' = Right(c)
    BY <1>2, <2>1 DEF Known, Right
  <2>3. Known(c) /\ (op[t].comp # c => Runs(c) /\ (c \notin op[t].todo => Right(c)))
        /\ (op[t].comp = c => Right(c))
    BY <2>1 DEF Halfway, At
  <2>4. Runs(c)'
    BY <1>12, <2>1, <2>3 DEF B!Restart, Runs
  <2>5. CASE op[t].variant
    <3>1. op'[t].at = "next" /\ op'[t].todo = op[t].todo
      BY <1>1, <1>12, <2>5 DEF B!Restart, B!After, Ops
    <3> QED
      BY <2>2, <2>3, <2>4, <3>1 DEF Halfway, At
  <2>6. CASE ~op[t].variant
    <3>1. op'[t].at = "idle" /\ (op[t].comp # c => Right(c))
      BY <1>1, <1>12, <2>3, <2>6 DEF B!Restart, B!After, B!Idle, Ops
    <3> QED
      BY <2>2, <2>3, <2>4, <3>1 DEF At
  <2> QED
    BY <2>5, <2>6
<1>13. CASE B!Reload(t)
  <2>1. op[t].at = "restart" /\ UNCHANGED <<file, applied>> /\ ~B!Record(t)
    BY <1>13 DEF B!Reload, B!disk, B!Record
  <2>2. Known(c)' = Known(c) /\ Right(c)' = Right(c)
    BY <1>2, <2>1 DEF Known, Right
  <2>3. Known(c) /\ (op[t].comp # c => Runs(c) /\ (c \notin op[t].todo => Right(c)))
        /\ (op[t].comp = c => Right(c))
    BY <2>1 DEF Halfway, At
  <2>4. Runs(c)'
    BY <1>13, <2>1, <2>3 DEF B!Reload, Runs
  <2>5. CASE op[t].variant
    <3>1. op'[t].at = "next" /\ op'[t].todo = op[t].todo
      BY <1>1, <1>13, <2>5 DEF B!Reload, B!After, Ops
    <3> QED
      BY <2>2, <2>3, <2>4, <3>1 DEF Halfway, At
  <2>6. CASE ~op[t].variant
    <3>1. op'[t].at = "idle" /\ (op[t].comp # c => Right(c))
      BY <1>1, <1>13, <2>3, <2>6 DEF B!Reload, B!After, B!Idle, Ops
    <3> QED
      BY <2>2, <2>3, <2>4, <3>1 DEF At
  <2> QED
    BY <2>5, <2>6
<1> QED
  BY <1>3, <1>4, <1>5, <1>6, <1>7, <1>8, <1>9, <1>10, <1>11, <1>12, <1>13 DEF B!Step

(* A request that starts to ask for something. *)
LEMMA StartsApart ==
  ASSUME BinInv, BinTyped', NEW t \in Threads, Engaged = {}, Engaged' = {t}, crowded' = {},
         spoilt' \in {spoilt, Ids}, B!Request(t), (\E c \in Ids : B!Upgrade(t, c)) => spoilt' = Ids
  PROVE  BinInv'
<1>1. IsFiniteSet(Engaged') /\ spoilt' \subseteq Ids
  BY FS_Singleton DEF BinInv
<1>2. op[t] \in Ops /\ op'[t] \in Ops /\ op \in [Threads -> Ops]
  BY DEF BinTyped, BinInv
<1>3. UNCHANGED <<file, applied, running>>
  BY DEF B!Request, B!Enable, B!Disable, B!Plugin, B!Upgrade, B!AskRestart, B!disk
<1>4. ASSUME Apart(t)', \A c \in Ids \ spoilt' : Halfway(t, c)'
      PROVE  BinInv'
  BY <1>1, <1>4 DEF BinInv
<1>5. ASSUME NEW c \in Ids \ spoilt' PROVE Runs(c) /\ Known(c) /\ Right(c) /\ spoilt' = spoilt
  BY <1>5 DEF BinInv
<1>6. ASSUME NEW p \in Plugins, B!Enable(t, p) \/ B!Disable(t, p)
      PROVE  BinInv'
  <2>1. op'[t].at = "next" /\ op'[t].todo = B!Affected(p) /\ op'[t].variant
        /\ on' \in {on \cup {p}, on \ {p}}
    <3>1. B!Idle \in Ops
      BY DEF BinTyped, BinInv, Ops, B!Idle, Stages
    <3>2. op' = [op EXCEPT ![t] = [B!Idle EXCEPT !.at = "next", !.todo = B!Affected(p), !.variant = TRUE]]
          /\ on' \in {on \cup {p}, on \ {p}}
      BY <1>6 DEF B!Enable, B!Disable, B!Plugin
    <3>3. op'[t] = [B!Idle EXCEPT !.at = "next", !.todo = B!Affected(p), !.variant = TRUE]
      BY <1>2, <3>2
    <3> QED
      BY <3>1, <3>2, <3>3 DEF Ops
  <2>2. Apart(t)'
    BY <2>1 DEF Apart, At
  <2>3. ASSUME NEW c \in Ids \ spoilt' PROVE Halfway(t, c)'
    <3>1. Runs(c)' /\ Known(c)'
      BY <1>3, <1>5 DEF Runs, Known
    <3>2. c \notin B!Affected(p) => Wanted(c)' = Wanted(c)
      <4> SUFFICES ASSUME c \notin B!Affected(p) PROVE Wanted(c)' = Wanted(c)
        OBVIOUS
      <4>1. \A f \in Features : <<c, f>> \notin MCAsks[p]
        BY DEF B!Affected
      <4> QED
        BY <2>1, <4>1 DEF Wanted, B!ComponentFeatures
    <3>3. c \notin op'[t].todo => Right(c)'
      BY <1>3, <1>5, <2>1, <3>2 DEF Right
    <3> QED
      BY <2>1, <3>1, <3>3 DEF Halfway, At
  <2> QED
    BY <1>4, <2>2, <2>3
<1>7. ASSUME NEW d \in Ids, B!Upgrade(t, d)
      PROVE  BinInv'
  <2>1. op'[t].at = "fetch" /\ ~op'[t].variant /\ spoilt' = Ids
    <3>1. B!Idle \in Ops /\ B!Idle.variant = FALSE
      BY DEF BinTyped, BinInv, Ops, B!Idle, Stages
    <3> QED
      BY <1>2, <1>7, <3>1 DEF B!Upgrade, Ops
  <2>2. Apart(t)'
    BY <2>1 DEF Apart, At
  <2> QED
    BY <1>4, <2>1, <2>2
<1>8. ASSUME NEW d \in Ids, B!AskRestart(t, d)
      PROVE  BinInv'
  <2>1. op'[t].at = "restart" /\ ~op'[t].variant /\ op'[t].todo = {} /\ on' = on
    <3>1. B!Idle \in Ops /\ B!Idle.variant = FALSE /\ B!Idle.todo = {}
      BY DEF BinTyped, BinInv, Ops, B!Idle, Stages
    <3> QED
      BY <1>2, <1>8, <3>1 DEF B!AskRestart, Ops
  <2>2. Apart(t)'
    BY <2>1 DEF Apart, At
  <2>3. ASSUME NEW c \in Ids \ spoilt' PROVE Halfway(t, c)'
    <3>1. Runs(c)' /\ Known(c)' /\ Right(c)'
      BY <1>3, <1>5, <2>1 DEF Runs, Known, Right, Wanted
    <3> QED
      BY <2>1, <3>1 DEF Halfway, At
  <2> QED
    BY <1>4, <2>2, <2>3
<1> QED
  BY <1>6, <1>7, <1>8 DEF B!Request

LEMMA BinStep == BinInv /\ [B!MCNext]_binaries => BinInv'
<1> SUFFICES ASSUME BinInv, [B!MCNext]_binaries PROVE BinInv'
  OBVIOUS
<1>1. CASE UNCHANGED binaries
  BY <1>1 DEF binaries, BinInv, BinTyped, Engaged, Apart, Halfway, Runs, Known, Right, Wanted, At
<1> SUFFICES ASSUME B!MCNext PROVE BinInv'
  BY <1>1
<1>2. BinTyped /\ BinTyped' /\ Engaged = B!Busy /\ Engaged' = B!Busy'
  BY BinTypes DEF BinInv, Engaged, B!Busy
<1>3. /\ crowded' = {t \in Engaged' : t \in crowded \/ Cardinality(Engaged') > 1 \/ B!StoreRemoves}
      /\ spoilt' = IF B!Spoils THEN Ids ELSE {c \in spoilt : ~B!Cleans(c)}
  BY <1>2, PartsCount DEF B!MCNext
<1>4. spoilt' \subseteq Ids /\ crowded' \subseteq Engaged'
  BY <1>3 DEF BinInv
<1>5. ASSUME NEW t \in Threads, B!Step(t) PROVE t \in Engaged /\ Engaged' \subseteq Engaged /\ on' = on
  <2>1. op[t].at # "idle" /\ \A u \in Threads : u # t => op'[u] = op[u]
    BY <1>2, <1>5 DEF BinTyped, B!Step, B!Choose, B!Probe, B!VersionUnknown, B!ReadFeatures,
       B!CheckApplied, B!Fetch, B!MoveAside, B!WriteTmp, B!MoveIn, B!StepFails, B!Failing, B!Record,
       B!Restart, B!Reload, B!GiveUp, B!After, B!Goto
  <2>2. on' = on
    BY <1>5 DEF B!Step, B!Choose, B!Probe, B!VersionUnknown, B!ReadFeatures,
       B!CheckApplied, B!Fetch, B!MoveAside, B!WriteTmp, B!MoveIn, B!StepFails, B!Record,
       B!Restart, B!Reload
  <2> QED
    BY <2>1, <2>2 DEF Engaged
<1>6. ASSUME NEW t \in Threads, B!Request(t) PROVE t \notin Engaged /\ Engaged' = Engaged \cup {t}
  <2>1. op[t].at = "idle" /\ op'[t].at # "idle" /\ \A u \in Threads : u # t => op'[u] = op[u]
    <3>1. B!Idle \in [at : Stages, comp : Ids \cup {B!Idle.comp}, todo : SUBSET Ids, variant : BOOLEAN,
                      bin : Builds \cup {B!None}]
      BY DEF B!Idle, Stages
    <3>2. PICK new : op' = [op EXCEPT ![t] = new] /\ new.at # "idle" /\ op[t].at = "idle"
      <4>1. ASSUME NEW p \in Plugins, B!Enable(t, p) \/ B!Disable(t, p)
            PROVE  /\ op' = [op EXCEPT ![t] =
                        [B!Idle EXCEPT !.at = "next", !.todo = B!Affected(p), !.variant = TRUE]]
                   /\ op[t].at = "idle"
        BY <4>1 DEF B!Enable, B!Disable, B!Plugin
      <4>2. ASSUME NEW c \in Ids, B!Upgrade(t, c) \/ B!AskRestart(t, c)
            PROVE  \E at \in {"fetch", "restart"} :
                     /\ op' = [op EXCEPT ![t] = [B!Idle EXCEPT !.at = at, !.comp = c]]
                     /\ op[t].at = "idle"
        BY <4>2 DEF B!Upgrade, B!AskRestart
      <4>3. \A p : [B!Idle EXCEPT !.at = "next", !.todo = B!Affected(p), !.variant = TRUE].at = "next"
        BY <3>1
      <4>4. \A c : \A at : [B!Idle EXCEPT !.at = at, !.comp = c].at = at
        BY <3>1
      <4>5. CASE \E p \in Plugins : B!Enable(t, p) \/ B!Disable(t, p)
        <5> PICK p \in Plugins : B!Enable(t, p) \/ B!Disable(t, p)
          BY <4>5
        <5> WITNESS [B!Idle EXCEPT !.at = "next", !.todo = B!Affected(p), !.variant = TRUE]
        <5> QED
          BY <4>1, <4>3
      <4>6. CASE \E c \in Ids : B!Upgrade(t, c) \/ B!AskRestart(t, c)
        <5> PICK c \in Ids : B!Upgrade(t, c) \/ B!AskRestart(t, c)
          BY <4>6
        <5> PICK at \in {"fetch", "restart"} :
              op' = [op EXCEPT ![t] = [B!Idle EXCEPT !.at = at, !.comp = c]] /\ op[t].at = "idle"
          BY <4>2
        <5> WITNESS [B!Idle EXCEPT !.at = at, !.comp = c]
        <5> QED
          BY <4>4
      <4> QED
        BY <1>6, <4>5, <4>6 DEF B!Request
    <3> QED
      BY <1>2, <3>2 DEF BinTyped
  <2> QED
    BY <2>1 DEF Engaged
<1>7. ASSUME NEW t \in Threads, B!Record(t) PROVE t \in Engaged /\ op'[t] # op[t] /\ op[t].variant
  BY <1>2, <1>7 DEF BinTyped, Ops, B!Record, B!Goto, Engaged
<1>8. CASE B!Crash
  <2>1. Engaged' = {} /\ spoilt' = Ids
    BY <1>3, <1>8 DEF B!Crash, B!Idle, Engaged, B!Spoils
  <2> QED
    BY <1>2, <1>4, <2>1, FS_EmptySet, AllSpoilt
<1>9. IsFiniteSet(Engaged')
  <2>1. IsFiniteSet(Engaged)
    BY DEF BinInv
  <2>2. ASSUME NEW c \in Ids, B!Release(c) PROVE Engaged' = Engaged
    BY <2>2 DEF B!Release, Engaged
  <2>3. ASSUME NEW p \in Plugins, B!StoreRemove(p) PROVE Engaged' = Engaged
    BY <2>3 DEF B!StoreRemove, Engaged
  <2>4. CASE B!Crash
    BY <2>4, FS_EmptySet DEF B!Crash, B!Idle, Engaged
  <2> QED
    BY <1>5, <1>6, <2>1, <2>2, <2>3, <2>4, FS_Subset, FS_AddElement DEF B!MCNext, B!Next
<1>10. CASE Cardinality(Engaged') > 1 \/ B!StoreRemoves
  <2>1. crowded' = Engaged' /\ spoilt' = Ids
    BY <1>2, <1>3, <1>10, PartsCount DEF B!Spoils
  <2> QED
    BY <1>2, <1>4, <1>9, <2>1, AllSpoilt
<1>11. ASSUME ~(Cardinality(Engaged') > 1 \/ B!StoreRemoves)
       PROVE  Cardinality(Engaged') <= 1 /\ crowded' = Engaged' \cap crowded
  BY <1>3, <1>9, <1>11, FS_CardinalityType
<1>12. ASSUME ~(Cardinality(Engaged') > 1 \/ B!StoreRemoves), NEW d \in Ids, B!Release(d)
       PROVE  BinInv'
  <2>1. UNCHANGED <<file, tmp, applied, running, on, op>> /\ Engaged' = Engaged /\ crowded' = crowded
    BY <1>11, <1>12 DEF B!Release, B!disk, Engaged, BinInv
  <2>2. spoilt' \in {spoilt, Ids}
    <3>1. \A c : ~B!Cleans(c)
      BY <1>7, <2>1 DEF B!Cleans
    <3> QED
      BY <1>3, <3>1
  <2> QED
    BY <1>2, <1>4, <1>9, <2>1, <2>2 DEF BinInv, Apart, Halfway, Runs, Known, Right, Wanted, At
<1>13. ASSUME ~(Cardinality(Engaged') > 1 \/ B!StoreRemoves), NEW t \in Threads, B!Request(t)
       PROVE  BinInv'
  <2>1. Engaged' = {t} /\ Engaged = {}
    BY <1>6, <1>9, <1>11, <1>13, Counted
  <2>2. crowded' = {}
    BY <1>11, <1>13, <2>1 DEF BinInv
  <2>3. spoilt' \in {spoilt, Ids}
    <3>1. \A c : ~B!Cleans(c)
      BY <1>7, <2>1 DEF B!Cleans
    <3> QED
      BY <1>3, <3>1
  <2>4. (\E c \in Ids : B!Upgrade(t, c)) => spoilt' = Ids
    BY <1>3 DEF B!Spoils
  <2> QED
    BY <1>2, <1>13, <2>1, <2>2, <2>3, <2>4, StartsApart
<1>14. ASSUME ~(Cardinality(Engaged') > 1 \/ B!StoreRemoves), NEW t \in Threads, B!Step(t), t \in crowded
       PROVE  BinInv'
  <2>1. spoilt = Ids /\ t \in Engaged /\ Engaged' \subseteq Engaged
    BY <1>5, <1>14 DEF BinInv
  <2>2. \A u \in Engaged : u \in crowded
    BY <1>14, <2>1 DEF BinInv
  <2>3. \A c : ~B!Cleans(c)
    BY <1>7, <2>2 DEF B!Cleans
  <2>4. spoilt' = Ids /\ crowded' = Engaged'
    BY <1>3, <1>11, <1>14, <2>1, <2>2, <2>3
  <2> QED
    BY <1>2, <1>4, <1>9, <2>4, AllSpoilt
<1>15. ASSUME ~(Cardinality(Engaged') > 1 \/ B!StoreRemoves), NEW t \in Threads, B!Step(t), t \notin crowded
       PROVE  BinInv'
  <2>1. t \in Engaged /\ Engaged = {t} /\ Apart(t) /\ crowded = {} /\ crowded' = {}
    BY <1>5, <1>11, <1>15 DEF BinInv
  <2>2. Engaged' = {} \/ Engaged' = {t}
    BY <1>5, <1>15, <2>1
  <2>3. ~op[t].variant /\ spoilt = Ids => spoilt' = Ids
    <3>1. ~op[t].variant => \A c : ~B!Cleans(c)
      BY <1>7, <2>1 DEF B!Cleans
    <3> QED
      BY <1>3, <3>1
  <2>4. ~At(t, {"idle"}) /\ (t \in Engaged' <=> ~At(t, {"idle"})')
    BY <2>1 DEF Engaged, At
  <2>5. t \in Engaged' => Apart(t)'
    BY <1>2, <1>15, <2>1, <2>3, <2>4, ApartStep
  <2>6. CASE spoilt' = Ids
    BY <1>2, <1>4, <1>9, <2>1, <2>2, <2>5, <2>6, AllSpoilt
  <2>7. CASE spoilt' # Ids
    <3>1. ~B!Spoils /\ spoilt' = {c \in spoilt : ~B!Cleans(c)}
      BY <1>3, <2>7
    <3>2. ~(B!StepFails(t) \/ B!VersionUnknown(t))
          /\ (B!Reload(t) => file[op[t].comp] = running[op[t].comp])
      BY <3>1 DEF B!Spoils, B!Fails
    <3>3. ~op[t].variant => At(t, {"restart"})
      BY <2>1, <2>3, <2>7 DEF Apart
    <3>4. ASSUME NEW c \in Ids \ spoilt' PROVE Halfway(t, c) \/ (B!Record(t) /\ op[t].comp = c)
      <4>1. c \notin spoilt \/ B!Cleans(c)
        BY <3>1, <3>4
      <4>2. c \notin spoilt => Halfway(t, c)
        BY <2>1, <3>4 DEF BinInv
      <4>3. B!Cleans(c) => B!Record(t) /\ op[t].comp = c
        BY <1>7, <2>1 DEF B!Cleans
      <4> QED
        BY <4>1, <4>2, <4>3
    <3>5. ASSUME NEW c \in Ids \ spoilt'
          PROVE  IF At(t, {"idle"})' THEN Runs(c)' /\ Known(c)' /\ Right(c)' ELSE Halfway(t, c)'
      BY <1>2, <1>15, <2>1, <2>4, <3>2, <3>3, <3>4, LoneStep
    <3> QED
      BY <1>2, <1>4, <1>9, <2>1, <2>2, <2>4, <2>5, <3>5 DEF BinInv
  <2> QED
    BY <2>6, <2>7
<1> QED
  BY <1>8, <1>10, <1>12, <1>13, <1>14, <1>15 DEF B!MCNext, B!Next, B!StoreRemoves

(* For any plugins and features, requests, failures, upgrades and restarts: a
   lone plugin request leaves binaries with the features of the plugins that
   are enabled, and its unit runs that binary. *)
THEOREM CalmBinaryRight == PlatformSpec => []CalmBinaryRuns
<1>1. PlatformInit => BinInv
  <2> SUFFICES ASSUME PlatformInit PROVE BinInv
    OBVIOUS
  <2>1. B!MCInit
    BY DEF PlatformInit
  <2>2. B!Variant(1, {}) \in Builds /\ B!Variant(1, {}).features = {}
    BY DEF B!Variant, Builds
  <2>3. B!Idle \in Ops /\ B!Idle.at = "idle"
    BY DEF B!Idle, Ops, Stages
  <2>4. BinTyped /\ Engaged = {}
    BY <2>1, <2>2, <2>3 DEF B!MCInit, B!Init, BinTyped, Engaged
  <2>5. \A c : Wanted(c) = {}
    BY <2>1 DEF B!MCInit, B!Init, Wanted, B!ComponentFeatures
  <2>6. \A c \in Ids : Runs(c) /\ Known(c) /\ Right(c)
    BY <2>1, <2>2, <2>5 DEF B!MCInit, B!Init, Runs, Known, Right
  <2> QED
    BY <2>1, <2>4, <2>6, FS_EmptySet DEF BinInv, B!MCInit
<1>2. BinInv => CalmBinaryRuns
  BY UnitsAssumption DEF BinInv, Engaged, Runs, Right, Wanted, CalmBinaryRuns, B!Busy,
     B!CalmBinaryHasFeatures, B!CalmUnitRunsBinary
<1> QED
  BY <1>1, <1>2, BinStep, PartsStep, PTL DEF PlatformSpec

-----------------------------------------------------------------------------
(* A set of numbers has a least, and induction up to a number. *)
LEMMA Least == \A T \in SUBSET Nat : T # {} => \E m \in T : \A n \in T : m <= n
<1> SUFFICES ASSUME NEW T \in SUBSET Nat, T # {}
             PROVE  \E m \in T : \A n \in T : m <= n
  OBVIOUS
<1> DEFINE R == {ss \in Nat \X Nat : ss[1] < ss[2]}
<1>1. IsWellFoundedOn(R, Nat)
  BY NatLessThanWellFounded DEF OpToRel
<1> HIDE DEF R
<1>2. PICK m \in T : \A n \in T : ~(<<n, m>> \in R)
  BY <1>1, WFMin
<1>3. \A n \in T : ~(n < m)
  BY <1>2 DEF R
<1> QED
  BY <1>3

LEMMA UpTo ==
  ASSUME NEW N \in Nat, NEW T, 0 \in T, \A n \in 1 .. N : n - 1 \in T => n \in T
  PROVE  \A n \in 0 .. N : n \in T
<1> DEFINE U == {n \in 0 .. N : n \notin T}
<1> SUFFICES ASSUME U # {} PROVE FALSE
  OBVIOUS
<1>1. PICK m \in U : \A n \in U : m <= n
  <2>1. U \in SUBSET Nat
    OBVIOUS
  <2> QED
    BY <2>1, Least
<1>2. m \in 1 .. N
  OBVIOUS
<1>3. m - 1 \in U
  BY <1>2
<1> QED
  BY <1>1, <1>2, <1>3


(* What a recursive function over the subsets of a finite set U computes that
   takes pick[W] out of W, one element after the other, until W is in D. *)
LEMMA Taken ==
  ASSUME NEW U, IsFiniteSet(U), NEW W \in SUBSET U, NEW c \in W
  PROVE  /\ Cardinality(W) \in Nat /\ W \ {c} \in SUBSET U
         /\ Cardinality(W \ {c}) = Cardinality(W) - 1
         /\ Cardinality(W) <= Cardinality(U)
         /\ Cardinality(W) >= 1
<1>1. IsFiniteSet(W) /\ Cardinality(W) <= Cardinality(U)
  BY FS_Subset
<1>2. Cardinality(W) \in Nat /\ IsFiniteSet(W \ {c}) /\ Cardinality(W \ {c}) \in Nat
  BY <1>1, FS_CardinalityType, FS_RemoveElement
<1>3. Cardinality(W \ {c}) = Cardinality(W) - 1
  BY <1>1, FS_RemoveElement
<1> QED
  BY <1>1, <1>2, <1>3

(* Induction over the subsets: T has a set when it has what is left of it. *)
LEMMA Subsets ==
  ASSUME NEW U, IsFiniteSet(U), NEW T,
         \A W \in SUBSET U : (\A c \in W : W \ {c} \in T) => W \in T
  PROVE  \A W \in SUBSET U : W \in T
<1> DEFINE P == {n \in Nat : \A W \in SUBSET U : Cardinality(W) <= n => W \in T}
           N == Cardinality(U)
<1>1. N \in Nat
  BY FS_CardinalityType
<1>2. ASSUME NEW n \in Nat,
             \A W \in SUBSET U : Cardinality(W) < n => W \in T
      PROVE  n \in P
  <2> SUFFICES ASSUME NEW W \in SUBSET U, Cardinality(W) <= n PROVE W \in T
    OBVIOUS
  <2>1. ASSUME NEW c \in W PROVE W \ {c} \in T
    <3>1. /\ Cardinality(W) \in Nat /\ W \ {c} \in SUBSET U
          /\ Cardinality(W \ {c}) = Cardinality(W) - 1
      BY Taken
    <3> QED
      BY <1>2, <3>1
  <2> QED
    BY <2>1
<1>3. \A W \in SUBSET U : Cardinality(W) \in Nat /\ Cardinality(W) <= N
  BY FS_Subset, FS_CardinalityType
<1>4. 0 \in P
  <2>1. \A W \in SUBSET U : ~(Cardinality(W) < 0)
    BY <1>3
  <2> QED
    BY <1>2, <2>1
<1>5. ASSUME NEW n \in 1 .. N, n - 1 \in P PROVE n \in P
  <2>1. \A W \in SUBSET U : Cardinality(W) < n => Cardinality(W) <= n - 1
    BY <1>3
  <2>2. \A W \in SUBSET U : Cardinality(W) < n => W \in T
    BY <1>5, <2>1
  <2> QED
    BY <1>2, <2>2
<1> HIDE DEF P
<1>6. \A n \in 0 .. N : n \in P
  BY <1>1, <1>4, <1>5, UpTo
<1>7. N \in P
  BY <1>1, <1>6
<1> QED
  BY <1>3, <1>7 DEF P

(* There is such a function. *)
Computes(f, U, D, base, pick) ==
  f = [W \in SUBSET U |-> IF W \in D THEN base[W] ELSE <<pick[W]>> \o f[W \ {pick[W]}]]

LEMMA Recurs ==
  ASSUME NEW U, IsFiniteSet(U), NEW D, NEW base, NEW pick,
         \A W \in SUBSET U : W \notin D => pick[W] \in W
  PROVE  \E f : Computes(f, U, D, base, pick)
<1> DEFINE N == Cardinality(U)
           Good(f, n) == \A W \in SUBSET U : Cardinality(W) <= n =>
             f[W] = IF W \in D THEN base[W] ELSE <<pick[W]>> \o f[W \ {pick[W]}]
           P == {n \in Nat : \E f : Good(f, n)}
<1>1. N \in Nat
  BY FS_CardinalityType
<1>2. \A W \in SUBSET U : Cardinality(W) \in Nat /\ Cardinality(W) <= N
  BY FS_Subset, FS_CardinalityType
<1>3. \A W \in SUBSET U : W \notin D =>
        W \ {pick[W]} \in SUBSET U /\ Cardinality(W \ {pick[W]}) = Cardinality(W) - 1
  BY Taken
<1>4. ASSUME NEW n \in Nat, NEW f, n # 0 => Good(f, n - 1)
      PROVE  n \in P
  <2> DEFINE g == [W \in SUBSET U |->
                     IF Cardinality(W) < n THEN f[W]
                     ELSE IF W \in D THEN base[W] ELSE <<pick[W]>> \o f[W \ {pick[W]}]]
  <2>1. ASSUME NEW W \in SUBSET U, Cardinality(W) <= n
        PROVE  g[W] = IF W \in D THEN base[W] ELSE <<pick[W]>> \o f[W \ {pick[W]}]
    <3>1. CASE Cardinality(W) < n
      <4>1. n # 0 /\ Cardinality(W) <= n - 1
        BY <1>2, <3>1
      <4> QED
        BY <1>4, <3>1, <4>1
    <3>2. CASE ~(Cardinality(W) < n)
      BY <3>2
    <3> QED
      BY <3>1, <3>2
  <2>2. ASSUME NEW W \in SUBSET U, Cardinality(W) <= n, W \notin D
        PROVE  g[W \ {pick[W]}] = f[W \ {pick[W]}]
    <3>1. W \ {pick[W]} \in SUBSET U /\ Cardinality(W \ {pick[W]}) < n
      BY <1>2, <1>3, <2>2
    <3> QED
      BY <3>1
  <2> HIDE DEF g
  <2>3. Good(g, n)
    BY <2>1, <2>2
  <2> QED
    BY <2>3
<1> HIDE DEF Good
<1>5. 0 \in P
  BY <1>4
<1>6. \A n \in 1 .. N : n - 1 \in P => n \in P
  <2> SUFFICES ASSUME NEW n \in 1 .. N, n - 1 \in P PROVE n \in P
    OBVIOUS
  <2>1. PICK f : Good(f, n - 1)
    OBVIOUS
  <2> QED
    BY <1>4, <2>1
<1> HIDE DEF P
<1>7. N \in P
  <2>1. \A n \in 0 .. N : n \in P
    BY <1>1, <1>5, <1>6, UpTo
  <2> QED
    BY <1>1, <2>1
<1>8. PICK f : Good(f, N)
  BY <1>7 DEF P
<1> DEFINE g == [W \in SUBSET U |-> f[W]]
<1>9. \A W \in SUBSET U :
        g[W] = IF W \in D THEN base[W] ELSE <<pick[W]>> \o g[W \ {pick[W]}]
  BY <1>2, <1>3, <1>8 DEF Good
<1>10. g = [W \in SUBSET U |-> g[W]]
  OBVIOUS
<1> HIDE DEF g
<1>11. g = [W \in SUBSET U |-> IF W \in D THEN base[W] ELSE <<pick[W]>> \o g[W \ {pick[W]}]]
  BY <1>9, <1>10, Zenon
<1> QED
  BY <1>11, Zenon DEF Computes

(* q lists the elements of W, each once. *)
ListsAll(q, W) == q \in Seq(W) /\ Len(q) = Cardinality(W) /\ W = {q[i] : i \in DOMAIN q}

LEMMA ListsMore ==
  ASSUME NEW W, IsFiniteSet(W), NEW c \in W, NEW q, ListsAll(q, W \ {c})
  PROVE  /\ ListsAll(<<c>> \o q, W)
         /\ \A b \in W \ {c} : Before(<<c>> \o q, c, b)
         /\ \A a, b : Before(q, a, b) => Before(<<c>> \o q, a, b)
<1> DEFINE r == <<c>> \o q
<1>1. /\ q \in Seq(W) /\ r \in Seq(W) /\ Len(q) \in Nat /\ Len(r) = Len(q) + 1
      /\ r[1] = c /\ \A i \in 1 .. Len(q) : r[i + 1] = q[i]
      /\ DOMAIN q = 1 .. Len(q) /\ DOMAIN r = 1 .. Len(q) + 1
  <2>1. q \in Seq(W)
    <3>1. q \in Seq(W \ {c})
      BY DEF ListsAll
    <3> QED
      BY <3>1
  <2> QED
    BY <2>1
<1>2. Cardinality(W) = Cardinality(W \ {c}) + 1
  <2>1. Cardinality(W) \in Nat /\ Cardinality(W \ {c}) = Cardinality(W) - 1
    BY FS_RemoveElement, FS_CardinalityType
  <2> QED
    BY <2>1
<1>3. ASSUME NEW b \in W \ {c} PROVE Before(r, c, b)
  <2>1. PICK i \in DOMAIN q : q[i] = b
    BY DEF ListsAll
  <2>2. 1 \in DOMAIN r /\ i + 1 \in DOMAIN r /\ 1 < i + 1 /\ r[i + 1] = b
    BY <1>1, <2>1
  <2> QED
    BY <1>1, <2>2 DEF Before
<1>4. ASSUME NEW a, NEW b, Before(q, a, b) PROVE Before(r, a, b)
  <2>1. PICK i \in DOMAIN q, j \in DOMAIN q : i < j /\ q[i] = a /\ q[j] = b
    BY <1>4 DEF Before
  <2>2. /\ i + 1 \in DOMAIN r /\ j + 1 \in DOMAIN r /\ i + 1 < j + 1
        /\ r[i + 1] = a /\ r[j + 1] = b
    BY <1>1, <2>1
  <2> QED
    BY <2>2 DEF Before
<1>5. W = {r[i] : i \in DOMAIN r}
  <2>1. ASSUME NEW b \in W PROVE b \in {r[i] : i \in DOMAIN r}
    <3>1. CASE b = c
      BY <1>1, <3>1
    <3>2. CASE b # c
      BY <1>3, <3>2 DEF Before
    <3> QED
      BY <3>1, <3>2
  <2>2. ASSUME NEW i \in DOMAIN r PROVE r[i] \in W
    BY <1>1
  <2> QED
    BY <2>1, <2>2
<1> HIDE DEF r
<1>6. ListsAll(r, W)
  BY <1>1, <1>2, <1>5 DEF ListsAll
<1> QED
  BY <1>3, <1>4, <1>6 DEF r

(* f takes elements out until what is left is in D, and then lists it. *)
Takes(U, D, pick, f) ==
  \A W \in SUBSET U :
    IF W \in D THEN ListsAll(f[W], W)
    ELSE pick[W] \in W /\ f[W] = <<pick[W]>> \o f[W \ {pick[W]}]

(* A function that takes elements out lists them all, if what it begins with
   does; and a comes before b, if b is never taken out before a. *)
LEMMA TakesAll ==
  ASSUME NEW U, IsFiniteSet(U), NEW D, NEW pick, NEW f,
         Takes(U, D, pick, f)
  PROVE  \A W \in SUBSET U : ListsAll(f[W], W)
<1> DEFINE T == {W \in SUBSET U : ListsAll(f[W], W)}
<1>1. ASSUME NEW W \in SUBSET U, \A c \in W : W \ {c} \in T PROVE W \in T
  <2>1. CASE W \in D
    BY <2>1 DEF Takes
  <2>2. CASE W \notin D
    <3>1. PICK c \in W : c = pick[W] /\ f[W] = <<c>> \o f[W \ {c}]
      BY <2>2 DEF Takes
    <3>2. ListsAll(f[W \ {c}], W \ {c}) /\ IsFiniteSet(W)
      BY <1>1, <3>1, FS_Subset
    <3>3. PICK q : q = f[W \ {c}]
      OBVIOUS
    <3>4. ListsAll(<<c>> \o q, W)
      BY <3>2, <3>3, ListsMore
    <3> QED
      BY <3>1, <3>3, <3>4
  <2> QED
    BY <2>1, <2>2
<1> HIDE DEF T
<1>2. \A W \in SUBSET U : W \in T
  BY <1>1, Subsets
<1> QED
  BY <1>2 DEF T

LEMMA TakesFirst ==
  ASSUME NEW U, IsFiniteSet(U), NEW D, NEW pick, NEW f,
         Takes(U, D, pick, f),
         NEW a \in U, NEW b \in U, a # b,
         \A W \in SUBSET U : {a, b} \subseteq W =>
           IF W \in D THEN Before(f[W], a, b) ELSE pick[W] # b
  PROVE  Before(f[U], a, b)
<1> DEFINE T == {W \in SUBSET U : {a, b} \subseteq W => Before(f[W], a, b)}
<1>1. ASSUME NEW W \in SUBSET U, \A c \in W : W \ {c} \in T PROVE W \in T
  <2> SUFFICES ASSUME {a, b} \subseteq W PROVE Before(f[W], a, b)
    OBVIOUS
  <2>1. CASE W \in D
    BY <2>1 DEF Takes
  <2>2. CASE W \notin D
    <3>1. PICK c \in W : c = pick[W] /\ c # b /\ f[W] = <<c>> \o f[W \ {c}]
      BY <2>2 DEF Takes
    <3>2. ListsAll(f[W \ {c}], W \ {c}) /\ IsFiniteSet(W)
      <4>1. \A V \in SUBSET U : ListsAll(f[V], V)
        BY TakesAll
      <4> QED
        BY <4>1, FS_Subset
    <3>3. PICK q : q = f[W \ {c}]
      OBVIOUS
    <3>4. /\ \A d \in W \ {c} : Before(<<c>> \o q, c, d)
          /\ Before(q, a, b) => Before(<<c>> \o q, a, b)
      BY <3>2, <3>3, ListsMore
    <3>5. CASE c = a
      BY <3>1, <3>3, <3>4, <3>5
    <3>6. CASE c # a
      <4>1. Before(f[W \ {c}], a, b)
        BY <1>1, <3>1, <3>6
      <4> QED
        BY <3>1, <3>3, <3>4, <4>1
    <3> QED
      BY <3>5, <3>6
  <2> QED
    BY <2>1, <2>2
<1> HIDE DEF T
<1>2. \A W \in SUBSET U : W \in T
  BY <1>1, Subsets
<1> QED
  BY <1>2 DEF T

(* The order of a run: of what is left the least that waits for nobody, and
   when all wait, the rest from the least on. *)
LeastOf(rank, W)  == CHOOSE c \in W : \A d \in W : rank[c] <= rank[d]
ReadyIn(arrows, W) == {c \in W : \A p \in W : p = c \/ <<p, c>> \notin arrows}
RestOf(rank, W) ==
  LET rest[R \in SUBSET W] ==
        IF R = {} THEN <<>> ELSE <<LeastOf(rank, R)>> \o rest[R \ {LeastOf(rank, R)}]
  IN rest[W]

LEMMA LeastIs ==
  ASSUME NEW rank, NEW W, W # {}, \A c \in W : rank[c] \in Nat
  PROVE  LeastOf(rank, W) \in W /\ \A d \in W : rank[LeastOf(rank, W)] <= rank[d]
<1> DEFINE T == {rank[c] : c \in W}
<1>1. T \in SUBSET Nat /\ T # {}
  OBVIOUS
<1> HIDE DEF T
<1>2. PICK m \in T : \A n \in T : m <= n
  BY <1>1, Least
<1>3. PICK c \in W : m = rank[c]
  BY DEF T
<1>4. \A d \in W : rank[c] <= rank[d]
  BY <1>2, <1>3 DEF T
<1> QED
  BY <1>4 DEF LeastOf

LEMMA RestIs ==
  ASSUME NEW W, IsFiniteSet(W), NEW rank, \A c \in W : rank[c] \in Nat
  PROVE  /\ ListsAll(RestOf(rank, W), W)
         /\ \A a, b \in W : rank[a] < rank[b] => Before(RestOf(rank, W), a, b)
<1> DEFINE pick == [R \in SUBSET W |-> LeastOf(rank, R)]
           base == [R \in SUBSET W |-> <<>>]
<1>1. \A R \in SUBSET W : R # {} => pick[R] \in R /\ \A d \in R : rank[pick[R]] <= rank[d]
  BY LeastIs
<1>2. /\ \A R \in SUBSET W : pick[R] = LeastOf(rank, R)
      /\ \A R \in SUBSET W : base[R] = <<>>
  OBVIOUS
<1> HIDE DEF pick, base
<1>3. PICK g : Computes(g, W, {{}}, base, pick)
  <2>1. \A R \in SUBSET W : R \notin {{}} => pick[R] \in R
    BY <1>1
  <2> QED
    BY <2>1, Recurs
<1>4. g = [R \in SUBSET W |-> IF R = {} THEN <<>>
                              ELSE <<LeastOf(rank, R)>> \o g[R \ {LeastOf(rank, R)}]]
  <2>1. \A R \in SUBSET W :
          g[R] = IF R = {} THEN <<>> ELSE <<LeastOf(rank, R)>> \o g[R \ {LeastOf(rank, R)}]
    BY <1>2, <1>3 DEF Computes
  <2>2. g = [R \in SUBSET W |-> g[R]]
    BY <1>3 DEF Computes
  <2> QED
    BY <2>1, <2>2, Zenon
<1>5. PICK f : /\ f = [R \in SUBSET W |-> IF R = {} THEN <<>>
                              ELSE <<LeastOf(rank, R)>> \o f[R \ {LeastOf(rank, R)}]]
               /\ RestOf(rank, W) = f[W]
  BY <1>4, Zenon DEF RestOf
<1>6. Takes(W, {{}}, pick, f)
  <2> SUFFICES ASSUME NEW R \in SUBSET W
               PROVE  IF R \in {{}} THEN ListsAll(f[R], R)
                      ELSE pick[R] \in R /\ f[R] = <<pick[R]>> \o f[R \ {pick[R]}]
    BY DEF Takes
  <2>1. f[R] = IF R = {} THEN <<>> ELSE <<LeastOf(rank, R)>> \o f[R \ {LeastOf(rank, R)}]
    BY <1>5
  <2>2. CASE R = {}
    BY <2>1, <2>2, FS_EmptySet DEF ListsAll
  <2>3. CASE R # {}
    BY <1>1, <1>2, <2>1, <2>3
  <2> QED
    BY <2>2, <2>3
<1>7. ListsAll(f[W], W)
  BY <1>6, TakesAll
<1>8. ASSUME NEW a \in W, NEW b \in W, rank[a] < rank[b] PROVE Before(f[W], a, b)
  <2>1. \A R \in SUBSET W : {a, b} \subseteq R =>
           IF R \in {{}} THEN Before(f[R], a, b) ELSE pick[R] # b
    <3> SUFFICES ASSUME NEW R \in SUBSET W, {a, b} \subseteq R
                 PROVE  R # {} /\ pick[R] # b
      OBVIOUS
    <3>1. rank[pick[R]] <= rank[a] /\ rank[pick[R]] \in Nat
      BY <1>1
    <3> QED
      BY <1>8, <3>1
  <2>2. a # b
    BY <1>8
  <2> QED
    BY <1>6, <2>1, <2>2, TakesFirst
<1> QED
  BY <1>5, <1>7, <1>8

LEMMA OrderIs ==
  ASSUME NEW ids, IsFiniteSet(ids), NEW arrows, NEW rank, \A c \in ids : rank[c] \in Nat
  PROVE  /\ ListsAll(Order(ids, arrows, rank), ids)
         /\ \A a, b \in ids : a # b /\ <<a, b>> \in arrows =>
              /\ Circular(b, ids, arrows) \/ Before(Order(ids, arrows, rank), a, b)
              /\ rank[a] < rank[b] => Before(Order(ids, arrows, rank), a, b)
<1> DEFINE D    == {W \in SUBSET ids : ReadyIn(arrows, W) = {}}
           pick == [W \in SUBSET ids |-> LeastOf(rank, ReadyIn(arrows, W))]
           base == [W \in SUBSET ids |-> IF W = {} THEN <<>> ELSE RestOf(rank, W)]
           Step(f, W) == IF W = {} THEN <<>>
                         ELSE IF ReadyIn(arrows, W) = {} THEN RestOf(rank, W)
                         ELSE <<LeastOf(rank, ReadyIn(arrows, W))>>
                              \o f[W \ {LeastOf(rank, ReadyIn(arrows, W))}]
<1>1. \A W \in SUBSET ids : W \notin D => pick[W] \in ReadyIn(arrows, W)
  BY LeastIs DEF ReadyIn
<1>2. \A W \in SUBSET ids :
        /\ W \in D <=> ReadyIn(arrows, W) = {}
        /\ W = {} => W \in D
        /\ pick[W] = LeastOf(rank, ReadyIn(arrows, W))
        /\ base[W] = IF W = {} THEN <<>> ELSE RestOf(rank, W)
  BY DEF ReadyIn
<1> HIDE DEF pick, base, D
<1>3. PICK g : Computes(g, ids, D, base, pick)
  <2>1. \A W \in SUBSET ids : W \notin D => pick[W] \in W
    BY <1>1 DEF ReadyIn
  <2> QED
    BY <2>1, Recurs
<1>4. g = [W \in SUBSET ids |-> Step(g, W)]
  <2>1. \A W \in SUBSET ids : g[W] = Step(g, W)
    BY <1>2, <1>3 DEF Computes
  <2>2. g = [W \in SUBSET ids |-> g[W]]
    BY <1>3 DEF Computes
  <2> QED
    BY <2>1, <2>2, Zenon
<1>5. PICK f : f = [W \in SUBSET ids |-> Step(f, W)] /\ Order(ids, arrows, rank) = f[ids]
  BY <1>4, Zenon DEF Order, LeastOf, ReadyIn, RestOf
<1>6. \A W \in SUBSET ids :
        f[W] = IF W \in D THEN base[W] ELSE <<pick[W]>> \o f[W \ {pick[W]}]
  <2> SUFFICES ASSUME NEW W \in SUBSET ids
               PROVE  f[W] = IF W \in D THEN base[W] ELSE <<pick[W]>> \o f[W \ {pick[W]}]
    OBVIOUS
  <2>1. f[W] = Step(f, W)
    BY <1>5, Zenon
  <2> QED
    BY <1>2, <2>1
<1>7. \A W \in SUBSET ids : W \in D =>
        /\ ListsAll(f[W], W)
        /\ \A a, b \in W : rank[a] < rank[b] => Before(f[W], a, b)
  <2> SUFFICES ASSUME NEW W \in SUBSET ids, W \in D
               PROVE  /\ ListsAll(f[W], W)
                      /\ \A a, b \in W : rank[a] < rank[b] => Before(f[W], a, b)
    OBVIOUS
  <2>1. CASE W = {}
    <3>1. f[W] = <<>>
      BY <1>2, <1>6, <2>1
    <3> QED
      BY <2>1, <3>1, FS_EmptySet DEF ListsAll
  <2>2. CASE W # {}
    <3>1. f[W] = RestOf(rank, W) /\ IsFiniteSet(W)
      BY <1>2, <1>6, <2>2, FS_Subset
    <3> QED
      BY <3>1, RestIs
  <2> QED
    BY <2>1, <2>2
<1>8. Takes(ids, D, pick, f)
  BY <1>1, <1>6, <1>7 DEF Takes, ReadyIn
<1>9. ASSUME NEW a \in ids, NEW b \in ids, a # b, <<a, b>> \in arrows,
             ~Circular(b, ids, arrows) \/ rank[a] < rank[b]
      PROVE  Before(f[ids], a, b)
  <2>1. ASSUME NEW W \in SUBSET ids, {a, b} \subseteq W
        PROVE  IF W \in D THEN Before(f[W], a, b) ELSE pick[W] # b
    <3>1. CASE W \notin D
      BY <1>1, <1>9, <2>1, <3>1 DEF ReadyIn
    <3>2. CASE W \in D
      <4>1. Circular(b, ids, arrows)
        <5>1. \A d \in W : \E p \in W \ {d} : <<p, d>> \in arrows
          BY <1>2, <3>2 DEF ReadyIn
        <5> QED
          BY <2>1, <5>1 DEF Circular
      <4> QED
        BY <1>7, <1>9, <2>1, <3>2, <4>1
    <3> QED
      BY <3>1, <3>2
  <2> QED
    BY <1>8, <1>9, <2>1, TakesFirst
<1>10. ListsAll(f[ids], ids)
  BY <1>8, TakesAll
<1> QED
  BY <1>5, <1>9, <1>10

(* What the manager knows comes with the program or from an index. *)
CatalogInv == index \subseteq Manifests /\ catalog \subseteq Manifests

LEMMA CatalogStep == CatalogInv /\ [MCNext]_mcvars => CatalogInv'
<1> SUFFICES ASSUME CatalogInv, [MCNext]_mcvars PROVE CatalogInv'
  OBVIOUS
<1>1. Merge(index) \subseteq Manifests /\ Builtin \subseteq Manifests
  BY DEF CatalogInv, Merge, Latest, Manifests
<1>2. CASE UNCHANGED <<index, catalog>>
  BY <1>2 DEF CatalogInv
<1>3. CASE Publish
  BY <1>3 DEF CatalogInv, Publish, Manifests
<1>4. ASSUME NEW t \in Threads, RefreshOnline(t) PROVE CatalogInv'
  BY <1>1, <1>4 DEF CatalogInv, RefreshOnline
<1>5. CASE Restart
  BY <1>1, <1>5 DEF CatalogInv, Restart
<1>6. ASSUME NEW t \in Threads,
             \/ Unregister(t) \/ ListStates(t) \/ ListFails(t) \/ Register(t)
             \/ \E i \in IdsOf(Manifests), r \in Requests : Change(t, i, r)
      PROVE  CatalogInv'
  BY <1>2, <1>6 DEF Unregister, ListStates, ListFails, Register, Change
<1>7. CASE Projection
  BY <1>2, <1>7 DEF Projection, Edit, Ask, Notice, TimeUp, host
<1>8. CASE UNCHANGED mcvars
  BY <1>2, <1>8 DEF mcvars, vars, host
<1> QED
  BY <1>3, <1>4, <1>5, <1>6, <1>7, <1>8 DEF MCNext, Next, Host

LEMMA DescriptorsRanked ==
  ASSUME CatalogInv
  PROVE  /\ IsFiniteSet(IdsOf(Descriptors))
         /\ \A c \in IdsOf(Descriptors) : Rank[c] \in Nat
         /\ <<"acme", "caddy">> \in Arrows(Descriptors)
         /\ \A a \in Arrows(Descriptors) : a = <<a[1], a[2]>> /\ a[1] # a[2]
<1> DEFINE E == {[id |-> m.id, consumes |-> m.consumes, produces |-> m.produces] :
                   m \in {n \in catalog : stored[n.id] = "enabled"}}
<1>1. Descriptors = CoreDesc \cup E
  BY DEF Descriptors
<1>2. IdsOf(Descriptors) \subseteq IdsOf(CoreDesc) \cup IdsOf(Manifests)
  BY <1>1 DEF CatalogInv, IdsOf
<1>3. IsFiniteSet(IdsOf(CoreDesc) \cup IdsOf(Manifests))
  <2>1. IsFiniteSet(IdsOf(CoreDesc)) /\ IsFiniteSet(IdsOf(Manifests))
    <3>1. \A T : IsFiniteSet(T) => IsFiniteSet(IdsOf(T))
      <4> SUFFICES ASSUME NEW T, IsFiniteSet(T) PROVE IsFiniteSet(IdsOf(T))
        OBVIOUS
      <4>1. PICK f : f = [m \in T |-> m.id]
        OBVIOUS
      <4>2. f \in Surjection(T, IdsOf(T))
        BY <4>1 DEF Surjection, IdsOf
      <4> QED
        BY <4>2, FS_Surjection
    <3> QED
      BY <3>1, RankAssumption
  <2> QED
    BY <2>1, FS_Union
<1>4. IsFiniteSet(IdsOf(Descriptors))
  BY <1>2, <1>3, FS_Subset
<1>5. <<"acme", "caddy">> \in Arrows(Descriptors)
  <2>1. PICK d \in Descriptors, e \in Descriptors :
          d.id = "acme" /\ e.id = "caddy" /\ "cert" \in d.produces \cap e.consumes
    BY <1>1, CoreAssumption
  <2>2. \E a \in Edges(Descriptors, {}) : a.from = "acme" /\ a.to = "caddy"
    <3> DEFINE x == <<d, e>>
               edge(i) == [from |-> x[1].id, to |-> x[2].id, info |-> i,
                           instances |-> InstancesOf({}, i, x[1].id)]
    <3>1. x \in {y \in Descriptors \X Descriptors : y[1].id # y[2].id}
      BY <2>1
    <3>2. "cert" \in (x[1].produces \cap x[2].consumes) \ {NoInfo}
      BY <2>1 DEF NoInfo
    <3>3. edge("cert") \in Edges(Descriptors, {})
      BY <3>1, <3>2 DEF Edges
    <3> QED
      BY <2>1, <3>3
  <2> QED
    BY <2>2 DEF Arrows
<1>6. ASSUME NEW a \in Arrows(Descriptors) PROVE a = <<a[1], a[2]>> /\ a[1] # a[2]
  <2>1. PICK e \in Edges(Descriptors, {}) : a = <<e.from, e.to>>
    BY DEF Arrows
  <2>2. e.from # e.to
    BY DEF Edges
  <2> QED
    BY <2>1, <2>2
<1> QED
  BY <1>2, <1>4, <1>5, <1>6, RankAssumption

(* Whatever the plugins of the catalog declare and whichever are enabled, and
   for any set of components: each is in the order of the run once, after those
   it consumes from unless it is on a cycle or behind one, and Caddy after the
   certificates. *)
THEOREM RunsOrdered == PlatformSpec => []RunsFollowEdges
<1>1. PlatformInit => CatalogInv
  BY DEF PlatformInit, MCInit, Init, CatalogInv, Manifests
<1>2. CatalogInv => RunsFollowEdges
  <2> SUFFICES ASSUME CatalogInv PROVE OrderFollowsEdges
    BY DEF RunsFollowEdges
  <2> DEFINE arrows == Arrows(Descriptors)
  <2> SUFFICES ASSUME NEW ids \in SUBSET IdsOf(Descriptors)
               PROVE  LET list == Order(ids, arrows, Rank) IN
                 /\ Len(list) = Cardinality(ids) /\ ids = {list[i] : i \in DOMAIN list}
                 /\ \A a \in arrows :
                      a[1] \in ids /\ a[2] \in ids =>
                        Circular(a[2], ids, arrows) \/ Before(list, a[1], a[2])
                 /\ {"acme", "caddy"} \subseteq ids => Before(list, "acme", "caddy")
    BY DEF OrderFollowsEdges
  <2>1. /\ IsFiniteSet(IdsOf(Descriptors))
        /\ \A c \in IdsOf(Descriptors) : Rank[c] \in Nat
        /\ <<"acme", "caddy">> \in arrows
        /\ \A a \in arrows : a = <<a[1], a[2]>> /\ a[1] # a[2]
    BY DescriptorsRanked
  <2> HIDE DEF arrows
  <2> DEFINE list == Order(ids, arrows, Rank)
  <2>2. /\ ListsAll(list, ids)
        /\ \A a, b \in ids : a # b /\ <<a, b>> \in arrows =>
             /\ Circular(b, ids, arrows) \/ Before(list, a, b)
             /\ Rank[a] < Rank[b] => Before(list, a, b)
    <3>1. IsFiniteSet(ids)
      BY <2>1, FS_Subset
    <3> QED
      BY <2>1, <3>1, OrderIs
  <2> HIDE DEF list
  <2>3. \A a \in arrows : a[1] \in ids /\ a[2] \in ids =>
          Circular(a[2], ids, arrows) \/ Before(list, a[1], a[2])
    BY <2>1, <2>2
  <2>4. {"acme", "caddy"} \subseteq ids => Before(list, "acme", "caddy")
    BY <2>1, <2>2, CoreAssumption
  <2> QED
    BY <2>2, <2>3, <2>4 DEF ListsAll, list
<1> QED
  BY <1>1, <1>2, CatalogStep, PartsStep, PTL DEF PlatformSpec
=============================================================================
