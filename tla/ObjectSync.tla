----------------------------- MODULE ObjectSync ------------------------------
(***************************************************************************)
(* How a saved object takes effect (internal/objectsync): the write hook   *)
(* marks it 未生效 ("pending"), queues it and wakes the loop; a run takes    *)
(* the queue, reads a snapshot of the objects, renders and validates a     *)
(* Caddyfile, loads it into Caddy and writes the outcome back to the       *)
(* status of every route.                                                  *)
(*                                                                         *)
(* What an object contains is its version: the number of the write that    *)
(* made it and whether it is a live route that is enabled.  The store is   *)
(* written in transactions of its own (module ObjectStore), so writers,    *)
(* the loop and manual runs interleave between any two of them.            *)
(***************************************************************************)
EXTENDS Naturals, FiniteSets

CONSTANTS
  Routes,      (* ids of routes, the objects a run writes back             *)
  Others,      (* ids of the other objects a Caddyfile is rendered from    *)
  Manual,      (* goroutines serving POST /objects/sync                    *)
  Writers,     (* goroutines serving writes of the object API              *)
  MaxWrites,   (* bound: writes of the object API                          *)
  MaxRestarts, (* bound: restarts of the process                           *)
  Periodic,    (* Options.Period > 0 (the server leaves it 0)              *)
  ReadsFail    (* a List of the snapshot may fail                          *)

Loop    == "loop"
Threads == {Loop} \cup Manual
Objects == Routes \cup Others

ASSUME ConstantsAssumption ==
  /\ Routes \cap Others = {}
  /\ Loop \notin Manual
  /\ Objects # {}
  /\ MaxWrites \in Nat /\ MaxRestarts \in Nat
  /\ Periodic \in BOOLEAN /\ ReadsFail \in BOOLEAN

Forms(o) == IF o \in Routes THEN {"on", "off"} ELSE {"on"}
Version  == [at : Nat, form : {"absent", "on", "off"}]
Nothing  == [at |-> 0, form |-> "absent"]
State    == {"none", "pending", "applied", "disabled", "error"}

InRun  == {"routes", "rest", "check", "load", "status", "save"}
Points == {"select", "debounce", "count", "enter", "idle"} \cup InRun

VARIABLES
  base,      (* the object store: [Objects -> Version]                     *)
  state,     (* status.state of each object                                *)
  clock,     (* number of the last write                                   *)
  notify,    (* [Writers -> what afterObjectWrite still has to do]         *)
  pending,   (* Syncer.pending                                             *)
  wake,      (* length of the wake channel                                 *)
  running,   (* Syncer.running                                             *)
  pc,        (* where each goroutine that may run a sync is                *)
  snap,      (* its snapshot: [Threads -> [Objects -> Version]]            *)
  good,      (* whether its Caddyfile was loaded                           *)
  todo,      (* the routes whose status it has still to write back         *)
  caddy,     (* what the running Caddy was last configured from            *)
  restarts   (* restarts so far, counted for their bound                   *)

store    == <<base, state, clock>>
queue    == <<pending, wake>>
locals   == <<snap, good, todo>>
outside  == <<caddy, restarts>>
vars     == <<base, state, clock, notify, pending, wake, running, pc, snap, good, todo, caddy,
              restarts>>

live == {o \in Objects : base[o].form # "absent"}

NoNews   == [at |-> "idle", obj |-> CHOOSE o \in Objects : TRUE]
NoSnap   == [o \in Objects |-> Nothing]
Rest(t)  == IF t = Loop THEN "select" ELSE "idle"
Restart  == /\ pc' = [t \in Threads |-> Rest(t)]
            /\ snap' = [t \in Threads |-> NoSnap]
            /\ good' = [t \in Threads |-> FALSE]
            /\ todo' = [t \in Threads |-> {}]

Init ==
  /\ base = NoSnap /\ state = [o \in Objects |-> "none"] /\ clock = 0
  /\ notify = [w \in Writers |-> NoNews]
  /\ pending = {} /\ wake = 0 /\ running = FALSE
  /\ pc = [t \in Threads |-> Rest(t)]
  /\ snap = [t \in Threads |-> NoSnap]
  /\ good = [t \in Threads |-> FALSE]
  /\ todo = [t \in Threads |-> {}]
  /\ caddy = NoSnap /\ restarts = 0

-----------------------------------------------------------------------------
(* Writes: one transaction, then the three steps of MarkPending.           *)

Free(w) == notify[w].at = "idle" /\ clock < MaxWrites
Announce(w, o) ==
  /\ clock' = clock + 1
  /\ notify' = [notify EXCEPT ![w] = [at |-> "mark", obj |-> o]]
  /\ UNCHANGED <<queue, running, pc, locals, outside>>
Stamp(form) == [at |-> clock + 1, form |-> form]

Create(w, o, form) ==
  /\ Free(w) /\ o \notin live
  /\ base' = [base EXCEPT ![o] = Stamp(form)]
  /\ state' = [state EXCEPT ![o] = "none"]
  /\ Announce(w, o)

(* Update keeps the status of the object it overwrites. *)
Update(w, o, form) ==
  /\ Free(w) /\ o \in live
  /\ base' = [base EXCEPT ![o] = Stamp(form)]
  /\ UNCHANGED state
  /\ Announce(w, o)

(* Rename moves an object with its status to a new id and rewrites, in the *)
(* same transaction, the routes R that refer to it; only the renamed       *)
(* object is announced.                                                    *)
Rename(w, o, n, R) ==
  /\ Free(w) /\ o \in live /\ n \notin live
  /\ o \in Routes <=> n \in Routes
  /\ base' = [x \in Objects |-> CASE x = n -> Stamp(base[o].form)
                                  [] x = o -> Stamp("absent")
                                  [] x \in R -> Stamp(base[x].form)
                                  [] OTHER -> base[x]]
  /\ state' = [state EXCEPT ![n] = state[o], ![o] = "none"]
  /\ Announce(w, n)

(* A forced Delete takes the routes R that refer to the object along. *)
Delete(w, o, R) ==
  /\ Free(w) /\ o \in live
  /\ base' = [x \in Objects |-> IF x \in R \cup {o} THEN Stamp("absent") ELSE base[x]]
  /\ state' = [x \in Objects |-> IF x \in R \cup {o} THEN "none" ELSE state[x]]
  /\ Announce(w, o)

(* SetStatus(state = 未生效); an object that is gone is left alone. *)
MarkState(w) ==
  /\ notify[w].at = "mark"
  /\ state' = IF notify[w].obj \in live THEN [state EXCEPT ![notify[w].obj] = "pending"]
                                        ELSE state
  /\ notify' = [notify EXCEPT ![w].at = "queue"]
  /\ UNCHANGED <<base, clock, queue, running, pc, locals, outside>>

Enqueue(w) ==
  /\ notify[w].at = "queue"
  /\ pending' = pending \cup {notify[w].obj}
  /\ notify' = [notify EXCEPT ![w].at = "wake"]
  /\ UNCHANGED <<store, wake, running, pc, locals, outside>>

(* Wrong: a channel without a buffer, which only a waiting loop receives from. *)
WakeUnbuffered(w) ==
  /\ notify[w].at = "wake"
  /\ wake' = IF pc[Loop] = "select" THEN 1 ELSE wake
  /\ notify' = [notify EXCEPT ![w] = NoNews]
  /\ UNCHANGED <<store, pending, running, pc, locals, outside>>

(* The non-blocking send on the wake channel, which holds one element. *)
Wake(w) ==
  /\ notify[w].at = "wake"
  /\ wake' = 1
  /\ notify' = [notify EXCEPT ![w] = NoNews]
  /\ UNCHANGED <<store, pending, running, pc, locals, outside>>

-----------------------------------------------------------------------------
(* The loop and the manual trigger                                         *)

GoTo(t, point) == pc' = [pc EXCEPT ![t] = point]

ReceiveWake ==
  /\ pc[Loop] = "select" /\ wake = 1
  /\ wake' = 0
  /\ GoTo(Loop, "debounce")
  /\ UNCHANGED <<store, notify, pending, running, locals, outside>>

DebounceEnds ==
  /\ pc[Loop] = "debounce"
  /\ GoTo(Loop, "count")
  /\ UNCHANGED <<store, notify, queue, running, locals, outside>>

(* DrainPending: nothing to do, or call SyncNow. *)
DrainPending ==
  /\ pc[Loop] = "count"
  /\ GoTo(Loop, IF pending = {} THEN "select" ELSE "enter")
  /\ UNCHANGED <<store, notify, queue, running, locals, outside>>

Tick ==
  /\ Periodic
  /\ pc[Loop] = "select"
  /\ GoTo(Loop, "enter")
  /\ UNCHANGED <<store, notify, queue, running, locals, outside>>

SyncRequest(t) ==
  /\ pc[t] = "idle"
  /\ GoTo(t, "enter")
  /\ UNCHANGED <<store, notify, queue, running, locals, outside>>

-----------------------------------------------------------------------------
(* SyncNow                                                                 *)

(* Wrong: the guard against two runs at once is missing. *)
EnterAnyway(t) ==
  /\ pc[t] = "enter"
  /\ running' = TRUE /\ pending' = {} /\ GoTo(t, "routes")
  /\ UNCHANGED <<store, notify, wake, locals, outside>>

(* Refused while another run is under way, else the run takes the queue.   *)
Enter(t) ==
  /\ pc[t] = "enter"
  /\ \/ running /\ GoTo(t, Rest(t)) /\ UNCHANGED <<pending, running>>
     \/ ~running /\ running' = TRUE /\ pending' = {} /\ GoTo(t, "routes")
  /\ UNCHANGED <<store, notify, wake, locals, outside>>

(* snapshot: the routes in one read transaction, the other kinds in later  *)
(* ones.  A read that fails ends the run without a write-back.             *)
ReadRoutes(t) ==
  /\ pc[t] = "routes"
  /\ snap' = [snap EXCEPT ![t] = [o \in Objects |-> IF o \in Routes THEN base[o] ELSE @[o]]]
  /\ GoTo(t, "rest")
  /\ UNCHANGED <<store, notify, queue, running, good, todo, outside>>

ReadRest(t) ==
  /\ pc[t] = "rest"
  /\ snap' = [snap EXCEPT ![t] = [o \in Objects |-> IF o \in Others THEN base[o] ELSE @[o]]]
  /\ GoTo(t, "check")
  /\ UNCHANGED <<store, notify, queue, running, good, todo, outside>>

ReadFails(t) ==
  /\ ReadsFail
  /\ pc[t] \in {"routes", "rest"}
  /\ GoTo(t, "save")
  /\ UNCHANGED <<store, notify, queue, running, locals, outside>>

WriteBack(t, loaded) ==
  /\ good' = [good EXCEPT ![t] = loaded]
  /\ todo' = [todo EXCEPT ![t] = {r \in Routes : snap[t][r].form # "absent"}]
  /\ GoTo(t, "status")

(* Render and Validate.  Whether they fail is a matter of what the objects *)
(* contain (and of a snapshot torn between two of its reads); a missing    *)
(* caddy binary lets the run go on.                                        *)
Check(t) ==
  /\ pc[t] = "check"
  /\ \/ GoTo(t, "load") /\ UNCHANGED <<good, todo>>
     \/ WriteBack(t, FALSE)
  /\ UNCHANGED <<store, notify, queue, running, snap, outside>>

(* Load: Caddy takes the configuration and says so, refuses it, or takes   *)
(* it while the answer is lost (timeout, request cancelled).               *)
Load(t) ==
  /\ pc[t] = "load"
  /\ \/ caddy' = snap[t] /\ WriteBack(t, TRUE)
     \/ caddy' = snap[t] /\ WriteBack(t, FALSE)
     \/ UNCHANGED caddy  /\ WriteBack(t, FALSE)
  /\ UNCHANGED <<store, notify, queue, running, snap, restarts>>

Outcome(t, r) ==
  IF ~good[t] THEN "error" ELSE IF snap[t][r].form = "off" THEN "disabled" ELSE "applied"

(* writeBack: one transaction per route; a route that is gone is left alone. *)
WriteStatus(t, r) ==
  /\ pc[t] = "status"
  /\ r \in todo[t]
  /\ state' = IF r \in live THEN [state EXCEPT ![r] = Outcome(t, r)] ELSE state
  /\ todo' = [todo EXCEPT ![t] = @ \ {r}]
  /\ UNCHANGED <<base, clock, notify, queue, running, pc, snap, good, outside>>

StatusWritten(t) ==
  /\ pc[t] = "status" /\ todo[t] = {}
  /\ GoTo(t, "save")
  /\ UNCHANGED <<store, notify, queue, running, locals, outside>>

(* Wrong: a finished run empties the queue. *)
FinishEmpties(t) ==
  /\ pc[t] = "save"
  /\ running' = FALSE /\ pending' = {}
  /\ snap' = [snap EXCEPT ![t] = NoSnap]
  /\ good' = [good EXCEPT ![t] = FALSE]
  /\ GoTo(t, Rest(t))
  /\ UNCHANGED <<store, notify, wake, todo, outside>>

(* The run is saved; the deferred function clears running. *)
Finish(t) ==
  /\ pc[t] = "save"
  /\ running' = FALSE
  /\ snap' = [snap EXCEPT ![t] = NoSnap]
  /\ good' = [good EXCEPT ![t] = FALSE]
  /\ GoTo(t, Rest(t))
  /\ UNCHANGED <<store, notify, queue, todo, outside>>

-----------------------------------------------------------------------------
(* The process dies and starts again.  The store and Caddy stay; the queue *)
(* is gone and no run is started.                                          *)
Crash ==
  /\ restarts < MaxRestarts
  /\ restarts' = restarts + 1
  /\ notify' = [w \in Writers |-> NoNews]
  /\ pending' = {} /\ wake' = 0 /\ running' = FALSE
  /\ Restart
  /\ UNCHANGED <<store, caddy>>

Referrers(o) == IF o \in Others THEN SUBSET (live \cap Routes) ELSE {{}}

Write(w) ==
  \E o \in Objects :
    \/ \E form \in Forms(o) : Create(w, o, form) \/ Update(w, o, form)
    \/ \E n \in Objects, R \in Referrers(o) : Rename(w, o, n, R)
    \/ \E R \in Referrers(o) : Delete(w, o, R)
MarkPending(w) == MarkState(w) \/ Enqueue(w) \/ Wake(w)
LoopStep == ReceiveWake \/ DebounceEnds \/ DrainPending \/ Tick
RunStep(t) ==
  \/ Enter(t) \/ ReadRoutes(t) \/ ReadRest(t) \/ ReadFails(t) \/ Check(t) \/ Load(t)
  \/ \E r \in Routes : WriteStatus(t, r)
  \/ StatusWritten(t) \/ Finish(t)

Next ==
  \/ \E w \in Writers : Write(w) \/ MarkPending(w)
  \/ LoopStep
  \/ \E t \in Manual : SyncRequest(t)
  \/ \E t \in Threads : RunStep(t)
  \/ Crash

Spec == Init /\ [][Next]_vars

(* Goroutines that can take a step are scheduled; nothing obliges clients  *)
(* to write or to ask for a run, or the process to die.                    *)
Fairness ==
  /\ \A w \in Writers : WF_vars(MarkPending(w))
  /\ WF_vars(LoopStep)
  /\ \A t \in Threads : WF_vars(RunStep(t))

FairSpec == Spec /\ Fairness
-----------------------------------------------------------------------------
(* Properties                                                              *)

(* The syncer's fields and the goroutines' locals hold values of their     *)
(* types; the wake channel never holds more than one element.              *)
TypeOK ==
  /\ base \in [Objects -> Version]
  /\ state \in [Objects -> State]
  /\ clock \in Nat
  /\ notify \in [Writers -> [at : {"idle", "mark", "queue", "wake"}, obj : Objects]]
  /\ pending \subseteq Objects /\ wake \in 0..1 /\ running \in BOOLEAN
  /\ pc \in [Threads -> Points]
  /\ snap \in [Threads -> [Objects -> Version]]
  /\ good \in [Threads -> BOOLEAN]
  /\ todo \in [Threads -> SUBSET Routes]
  /\ caddy \in [Objects -> Version]
  /\ restarts \in Nat

(* Two runs are never under way at once, however the loop, the periodic    *)
(* tick and manual requests meet (what Syncer.running is for).             *)
OneRun == \A t, u \in Threads : pc[t] \in InRun /\ pc[u] \in InRun => t = u

(* Caddy is never configured from an older version of an object than the   *)
(* one it already runs: loads of successive runs do not go back in time.   *)
CaddyMovesForward == [][\A o \in Objects : caddy'[o].at >= caddy[o].at]_vars

Settled == pending = {} /\ ~running /\ \A w \in Writers : notify[w].at = "idle"

(* When every save has been announced and no run is queued or under way,   *)
(* Caddy runs the stored objects - deleted routes gone, renames done - or  *)
(* the routes say that the last run failed.                                *)
SettledIsServed ==
  Settled /\ live \cap Routes # {} /\ (\A r \in live \cap Routes : state[r] # "error")
    => /\ \A o \in Objects : caddy[o] = base[o]
       /\ \A r \in live \cap Routes :
            state[r] = IF base[r].form = "on" THEN "applied" ELSE "disabled"

(* What a route shows is right: it failed, or Caddy runs its last version. *)
Truthful(r) ==
  \/ r \notin live
  \/ state[r] = "error"
  \/ /\ state[r] = (IF base[r].form = "on" THEN "applied" ELSE "disabled")
     /\ caddy[r] = base[r]

(* Every save of a route takes effect or is reported as failed.            *)
SavesSettle == \A r \in Routes : []<>Truthful(r)
=============================================================================
