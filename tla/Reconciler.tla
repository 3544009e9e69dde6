----------------------------- MODULE Reconciler ------------------------------
(***************************************************************************)
(* The declarative reconciler of the gateway (internal/reconcile) and the  *)
(* two components it drives, acme and caddy (handler/gateway_api.go).  A   *)
(* write of a fact submits an intent; a run takes the intents, finds the   *)
(* components that consume what changed, orders them producers first and   *)
(* lets each read the store again and apply what it read.                  *)
(*                                                                         *)
(* A fact is the number of times it was written.  Runs of the loop and of   *)
(* POST /reconcile exclude one another nowhere, so they interleave.  The   *)
(* records and events of a run are module RunFeed.                         *)
(***************************************************************************)
EXTENDS Naturals

CONSTANTS
  Manual,      (* goroutines serving POST /reconcile                       *)
  Writers,     (* goroutines serving writes of facts                       *)
  Writable,    (* the kinds of facts clients write                         *)
  MaxEvents,   (* bound: writes, restarts and faults, together             *)
  Periodic,    (* GATEBOX_RECONCILE_PERIOD > 0                             *)
  Faults       (* faults considered: "read", "issue", "load", "persist"    *)

Loop    == "loop"
Threads == {Loop} \cup Manual

(* "service" stands for every fact the gateway handlers write (services,   *)
(* apps, fragments, variables): they all submit the full intent.           *)
Facts == {"service", "domain", "credential", "port"}
Full  == "full"
IntentOf(k) == IF k = "service" THEN Full ELSE k

ASSUME ConstantsAssumption ==
  /\ Loop \notin Manual
  /\ Writable \subseteq Facts
  /\ MaxEvents \in Nat
  /\ Periodic \in BOOLEAN
  /\ Faults \subseteq {"read", "issue", "load", "persist"}

-----------------------------------------------------------------------------
(* Descriptors and the order of a run                                      *)

Components == {"acme", "caddy", "docker"}
Registered == {"acme", "caddy"}
Consumes == [caddy  |-> {"service", "port", "fragment", "variable", "domain", "cert"},
             acme   |-> {"domain", "credential"},
             docker |-> {"variable", "port"}]
Produces == [caddy |-> {}, acme |-> {"cert"}, docker |-> {"label", "service"}]
Arrows == {a \in Components \X Components :
             a[1] # a[2] /\ Produces[a[1]] \cap Consumes[a[2]] # {}}

(* Component ids in the order of sort.Strings. *)
Rank == [acme |-> 1, caddy |-> 2, docker |-> 3]

(* Order: producers before consumers, then by id (FactGraph!Order is the   *)
(* algorithm).  Which of the components still to do is next.               *)
Ready(ids) == {c \in ids : \A p \in ids : <<p, c>> \notin Arrows}
First(ids) == CHOOSE c \in Ready(ids) : \A d \in Ready(ids) : Rank[c] <= Rank[d]

(* Wrong: intents that name a kind hide a full intent among them. *)
AffectedByNamed(intents) == intents \ {Full}

(* affectedInfo: a full intent among the others makes the run a full one. *)
AffectedInfo(intents) ==
  IF Full \in intents THEN {} ELSE intents

(* affectedComponents: the consumers of what changed, all when nothing is  *)
(* named or nobody consumes it.                                            *)
Affected(intents) ==
  LET info == AffectedInfo(intents)
      hit  == {c \in Components : Consumes[c] \cap info # {}}
  IN IF info = {} \/ hit = {} THEN Components ELSE hit

(* Components that are not registered are passed over. *)
Plan(intents) == Affected(intents) \cap Registered

-----------------------------------------------------------------------------
Blank   == [k \in Facts |-> 0]
Unseen  == [facts |-> Blank, cert |-> Blank]
Points  == {"idle", "select", "debounce", "drain", "read", "issue", "rest", "load",
            "persist"}
InRun   == {"read", "issue", "rest", "load", "persist"}

VARIABLES
  fact,      (* the store: [Facts -> number of writes]                     *)
  events,    (* writes, restarts and faults so far, for their bound        *)
  note,      (* [Writers -> what triggerReconcile still has to do]         *)
  pending,   (* Reconciler.pending                                         *)
  wake,      (* length of the wake channel                                 *)
  pc,        (* where each goroutine that may run a reconciliation is      *)
  plan,      (* [Threads -> components its run has still to reconcile]     *)
  view,      (* [Threads -> what the component under way has read]         *)
  cert,      (* what certificates were last ensured for                    *)
  caddy,     (* what the running Caddy was configured from                 *)
  backup,    (* what $DATA_DIR/Caddyfile was generated from                *)
  ext,       (* what the config-sync plugins were last given               *)
  outcome    (* how the last caddy step ended                              *)

store   == <<fact, events>>
queue   == <<pending, wake>>
applied == <<cert, caddy, backup, ext, outcome>>
vars    == <<fact, events, note, pending, wake, pc, plan, view, cert, caddy, backup, ext, outcome>>

NoNote  == [at |-> "idle", kind |-> "service"]
Rest(t) == IF t = Loop THEN "select" ELSE "idle"

Event == events < MaxEvents /\ events' = events + 1

Init ==
  /\ fact = Blank /\ events = 0
  /\ note = [w \in Writers |-> NoNote]
  /\ pending = {} /\ wake = 0
  /\ pc = [t \in Threads |-> Rest(t)]
  /\ plan = [t \in Threads |-> {}]
  /\ view = [t \in Threads |-> Unseen]
  /\ cert = Blank /\ caddy = Unseen /\ backup = Unseen /\ ext = Blank
  /\ outcome = "none"

-----------------------------------------------------------------------------
(* Writes and intents                                                      *)

WriteFact(w, k) ==
  /\ note[w].at = "idle" /\ Event
  /\ fact' = [fact EXCEPT ![k] = @ + 1]
  /\ note' = [note EXCEPT ![w] = [at |-> "add", kind |-> k]]
  /\ UNCHANGED <<queue, pc, plan, view, applied>>

AddIntent(w) ==
  /\ note[w].at = "add"
  /\ pending' = pending \cup {IntentOf(note[w].kind)}
  /\ note' = [note EXCEPT ![w].at = "wake"]
  /\ UNCHANGED <<store, wake, pc, plan, view, applied>>

(* Wrong: the send finds nobody waiting and is dropped (no buffer). *)
WakeUnbuffered(w) ==
  /\ note[w].at = "wake"
  /\ wake' = IF pc[Loop] = "select" THEN 1 ELSE wake
  /\ note' = [note EXCEPT ![w] = NoNote]
  /\ UNCHANGED <<store, pending, pc, plan, view, applied>>

Wake(w) ==
  /\ note[w].at = "wake"
  /\ wake' = 1
  /\ note' = [note EXCEPT ![w] = NoNote]
  /\ UNCHANGED <<store, pending, pc, plan, view, applied>>

-----------------------------------------------------------------------------
(* What starts a run                                                       *)

GoTo(t, point) == pc' = [pc EXCEPT ![t] = point]

ReceiveWake ==
  /\ pc[Loop] = "select" /\ wake = 1
  /\ wake' = 0
  /\ GoTo(Loop, "debounce")
  /\ UNCHANGED <<store, note, pending, plan, view, applied>>

Begin(t) ==
  /\ \/ t = Loop /\ pc[t] = "debounce"
     \/ t = Loop /\ pc[t] = "select" /\ Periodic
     \/ t # Loop /\ pc[t] = "idle"
  /\ GoTo(t, "drain")
  /\ UNCHANGED <<store, note, queue, plan, view, applied>>

(* Run: the intents are taken and the components they concern are planned; *)
(* every kind of intent concerns a registered one.                         *)
(* The snapshot read before serves the order only: its facts are handed to *)
(* components that ignore them.                                            *)
Drain(t) ==
  /\ pc[t] = "drain"
  /\ pending' = {}
  /\ plan' = [plan EXCEPT ![t] = Plan(pending)]
  /\ GoTo(t, "read")
  /\ UNCHANGED <<store, note, wake, view, applied>>

StepDone(t) ==
  /\ plan' = [plan EXCEPT ![t] = @ \ {First(@)}]
  /\ view' = [view EXCEPT ![t] = Unseen]
  /\ GoTo(t, IF plan[t] = {First(plan[t])} THEN Rest(t) ELSE "read")

-----------------------------------------------------------------------------
(* ReconcileAcme and ReconcileCaddy                                        *)

(* Both list the services first. *)
ReadServices(t) ==
  /\ pc[t] = "read"
  /\ view' = [view EXCEPT ![t].facts["service"] = fact["service"]]
  /\ GoTo(t, IF First(plan[t]) = "acme" THEN "issue" ELSE "rest")
  /\ UNCHANGED <<store, note, queue, plan, applied>>

ReadFails(t) ==
  /\ "read" \in Faults /\ Event
  /\ pc[t] \in {"read", "rest"}
  /\ outcome' = IF First(plan[t]) = "caddy" THEN "error" ELSE outcome
  /\ StepDone(t)
  /\ UNCHANGED <<fact, note, queue, cert, caddy, backup, ext>>

(* buildDNSMap, then Ensure for every HTTPS domain. *)
Issue(t) ==
  /\ pc[t] = "issue"
  /\ cert' = [fact EXCEPT !["service"] = view[t].facts["service"]]
  /\ StepDone(t)
  /\ UNCHANGED <<store, note, queue, caddy, backup, ext, outcome>>

(* A certificate that fails is logged and the step succeeds. *)
IssueFails(t) ==
  /\ "issue" \in Faults /\ Event
  /\ pc[t] = "issue"
  /\ StepDone(t)
  /\ UNCHANGED <<fact, note, queue, applied>>

(* The other facts and, while the Caddyfile is generated, the certificates. *)
ReadRest(t) ==
  /\ pc[t] = "rest"
  /\ view' = [view EXCEPT ![t] =
                [facts |-> [fact EXCEPT !["service"] = view[t].facts["service"]], cert |-> cert]]
  /\ GoTo(t, "load")
  /\ UNCHANGED <<store, note, queue, plan, applied>>

(* Wrong: what was persisted last is not loaded again. *)
LoadIfChanged(t) ==
  /\ pc[t] = "load"
  /\ caddy' = IF view[t] = backup THEN caddy ELSE view[t]
  /\ GoTo(t, "persist")
  /\ UNCHANGED <<store, note, queue, plan, view, cert, backup, ext, outcome>>

(* validate and POST /load. *)
Load(t) ==
  /\ pc[t] = "load"
  /\ caddy' = view[t]
  /\ GoTo(t, "persist")
  /\ UNCHANGED <<store, note, queue, plan, view, cert, backup, ext, outcome>>

(* Refused, or accepted while the answer is lost (timeout, request cancelled). *)
LoadFails(t) ==
  /\ "load" \in Faults /\ Event
  /\ pc[t] = "load"
  /\ caddy' \in {caddy, view[t]}
  /\ outcome' = "error"
  /\ StepDone(t)
  /\ UNCHANGED <<fact, note, queue, cert, backup, ext>>

(* persistCaddyfile, and syncExtensionConfigs, which lists the services,   *)
(* domains and credentials again for the plugins.  What one of them cannot *)
(* write stays as it was (the file is replaced by a rename); that is       *)
(* logged, and the step succeeds all the same.                             *)
Copies == {"backup", "ext"}
PersistBut(t, kept) ==
  /\ pc[t] = "persist"
  /\ backup' = IF "backup" \in kept THEN backup ELSE view[t]
  /\ ext' = IF "ext" \in kept THEN ext ELSE fact
  /\ outcome' = "success"
  /\ StepDone(t)
  /\ UNCHANGED <<fact, note, queue, cert, caddy>>
Persist(t) == PersistBut(t, {}) /\ UNCHANGED events
PersistFails(t) ==
  /\ "persist" \in Faults /\ Event
  /\ \E kept \in SUBSET Copies \ {{}} : PersistBut(t, kept)

-----------------------------------------------------------------------------
(* The process dies and starts again: queue and runs are gone. *)
Crash ==
  /\ Event
  /\ note' = [w \in Writers |-> NoNote]
  /\ pending' = {} /\ wake' = 0
  /\ pc' = [t \in Threads |-> Rest(t)]
  /\ plan' = [t \in Threads |-> {}]
  /\ view' = [t \in Threads |-> Unseen]
  /\ UNCHANGED <<fact, applied>>

Trigger(w) == AddIntent(w) \/ Wake(w)
LoopStep   == ReceiveWake \/ Begin(Loop)
RunStep(t) ==
  \/ Drain(t) \/ ReadServices(t) \/ ReadFails(t) \/ Issue(t) \/ IssueFails(t) \/ ReadRest(t)
  \/ Load(t) \/ LoadFails(t) \/ Persist(t) \/ PersistFails(t)

Next ==
  \/ \E w \in Writers : (\E k \in Writable : WriteFact(w, k)) \/ Trigger(w)
  \/ LoopStep
  \/ \E t \in Manual : Begin(t)
  \/ \E t \in Threads : RunStep(t)
  \/ Crash

Spec == Init /\ [][Next]_vars

(* Goroutines are scheduled; nobody has to write, ask for a run or crash. *)
Fairness ==
  /\ \A w \in Writers : WF_vars(Trigger(w))
  /\ WF_vars(LoopStep)
  /\ \A t \in Threads : WF_vars(RunStep(t))

FairSpec == Spec /\ Fairness
-----------------------------------------------------------------------------
(* Properties                                                              *)

(* An intent is never left behind: while one is pending the loop has been  *)
(* woken, or is about to drain, or the writer is still about to wake it -  *)
(* whatever manual runs drain in between.                                  *)
NoIntentForgotten ==
  pending # {} =>
    \/ wake = 1
    \/ pc[Loop] \in {"debounce", "drain"}
    \/ \E w \in Writers : note[w].at = "wake"

Quiet ==
  /\ pending = {} /\ wake = 0
  /\ \A w \in Writers : note[w].at = "idle"
  /\ \A t \in Threads : pc[t] = Rest(t)

(* In spite of overlapping runs and restarts, Caddy comes to run the       *)
(* stored facts again and again, or its last load failed.                  *)
Converges == []<>(outcome = "error" \/ caddy.facts = fact)
=============================================================================
