-------------------------- MODULE ReconcilerProofs ---------------------------
(* Theorems of Reconciler, for all numbers of writers and manual runs, with *)
(* and without the periodic tick, restarts and faults: no intent is         *)
(* forgotten and, as long as runs do not overlap, what is quiet is applied. *)
EXTENDS MCReconciler, TLAPS

Notes == [at : {"idle", "add", "wake"}, kind : Facts]

(* What the argument needs of the types: which goroutine is where. *)
QueueTyped ==
  /\ note \in [Writers -> Notes]
  /\ pc \in [Threads -> Points]

QueueInv == QueueTyped /\ NoIntentForgotten

LEMMA PlacesTyped ==
  /\ NoNote \in Notes
  /\ \A t \in Threads : Rest(t) \in Points
  /\ Loop \in Threads
BY DEF NoNote, Notes, Facts, Rest, Points, Threads

LEMMA QueueInit == Init => QueueInv
BY PlacesTyped DEF Init, QueueInv, QueueTyped, NoIntentForgotten

(* A step of a run keeps what is queued, and leaves the loop in select,    *)
(* debounce and drain alone.                                               *)
LEMMA StepKeepsPlaces ==
  ASSUME QueueInv, NEW t \in Threads, NEW q \in Points,
         pc[t] \notin {"debounce", "drain"}, GoTo(t, q),
         note' = note, pending' = pending, wake' = wake
  PROVE  QueueInv'
<1>1. pc' \in [Threads -> Points]
  BY DEF GoTo, QueueInv, QueueTyped
<1>2. pc[Loop] \in {"debounce", "drain"} => pc'[Loop] = pc[Loop]
  BY PlacesTyped DEF GoTo, QueueInv, QueueTyped
<1>3. NoIntentForgotten'
  BY <1>2 DEF NoIntentForgotten, QueueInv
<1> QED BY <1>1, <1>3 DEF QueueInv, QueueTyped

LEMMA StepDoneGoes ==
  ASSUME NEW t \in Threads, StepDone(t)
  PROVE  \E q \in Points : GoTo(t, q)
BY PlacesTyped DEF StepDone, Points

LEMMA RunStepKeeps ==
  ASSUME QueueInv, NEW t \in Threads, RunStep(t)
  PROVE  QueueInv'
<1>1. CASE Drain(t)
  <2>1. pending' = {} /\ note' = note /\ GoTo(t, "read")
    BY <1>1 DEF Drain
  <2>2. pc' \in [Threads -> Points]
    BY <2>1 DEF GoTo, Points, QueueInv, QueueTyped
  <2> QED BY <2>1, <2>2 DEF QueueInv, QueueTyped, NoIntentForgotten
<1>2. CASE ReadServices(t)
  <2>1. \E q \in Points : GoTo(t, q)
    BY <1>2 DEF ReadServices, Points
  <2>2. pc[t] = "read" /\ note' = note /\ pending' = pending /\ wake' = wake
    BY <1>2 DEF ReadServices, queue
  <2> QED BY <2>1, <2>2, StepKeepsPlaces
<1>3. CASE ReadFails(t)
  <2>1. \E q \in Points : GoTo(t, q)
    BY <1>3, StepDoneGoes DEF ReadFails
  <2>2. pc[t] \in {"read", "rest"} /\ note' = note /\ pending' = pending /\ wake' = wake
    BY <1>3 DEF ReadFails, queue
  <2> QED BY <2>1, <2>2, StepKeepsPlaces
<1>4. CASE Issue(t) \/ IssueFails(t)
  <2>1. \E q \in Points : GoTo(t, q)
    BY <1>4, StepDoneGoes DEF Issue, IssueFails
  <2>2. pc[t] = "issue" /\ note' = note /\ pending' = pending /\ wake' = wake
    BY <1>4 DEF Issue, IssueFails, queue
  <2> QED BY <2>1, <2>2, StepKeepsPlaces
<1>5. CASE ReadRest(t)
  <2>1. GoTo(t, "load") /\ "load" \in Points
    BY <1>5 DEF ReadRest, Points
  <2>2. pc[t] = "rest" /\ note' = note /\ pending' = pending /\ wake' = wake
    BY <1>5 DEF ReadRest, queue
  <2> QED BY <2>1, <2>2, StepKeepsPlaces
<1>6. CASE Load(t) \/ LoadFails(t)
  <2>1. \E q \in Points : GoTo(t, q)
    BY <1>6, StepDoneGoes DEF Load, LoadFails, Points
  <2>2. pc[t] = "load" /\ note' = note /\ pending' = pending /\ wake' = wake
    BY <1>6 DEF Load, LoadFails, queue
  <2> QED BY <2>1, <2>2, StepKeepsPlaces
<1>7. CASE Persist(t) \/ PersistFails(t)
  <2>1. \E q \in Points : GoTo(t, q)
    BY <1>7, StepDoneGoes DEF Persist, PersistFails, PersistBut
  <2>2. pc[t] = "persist" /\ note' = note /\ pending' = pending /\ wake' = wake
    BY <1>7 DEF Persist, PersistFails, PersistBut, queue
  <2> QED BY <2>1, <2>2, StepKeepsPlaces
<1> QED BY <1>1, <1>2, <1>3, <1>4, <1>5, <1>6, <1>7 DEF RunStep

LEMMA WriterKeeps ==
  ASSUME QueueInv, NEW w \in Writers,
         (\E k \in Writable : WriteFact(w, k)) \/ Trigger(w)
  PROVE  QueueInv'
<1> USE DEF QueueInv, QueueTyped
<1>1. ASSUME NEW k \in Writable, WriteFact(w, k) PROVE QueueInv'
  <2>1. k \in Facts
    BY <1>1, ConstantsAssumption
  <2>2. note' \in [Writers -> Notes]
    BY <1>1, <2>1 DEF WriteFact, Notes
  <2>3. \A v \in Writers : note[v].at = "wake" => note'[v].at = "wake"
    BY <1>1 DEF WriteFact
  <2>4. pending' = pending /\ wake' = wake /\ pc' = pc
    BY <1>1 DEF WriteFact, queue
  <2> QED BY <2>2, <2>3, <2>4 DEF NoIntentForgotten
<1>2. CASE AddIntent(w)
  <2>1. note' \in [Writers -> Notes]
    BY <1>2 DEF AddIntent, Notes
  <2>2. note'[w].at = "wake"
    BY <1>2 DEF AddIntent, Notes
  <2>3. pc' = pc
    BY <1>2 DEF AddIntent
  <2> QED BY <2>1, <2>2, <2>3 DEF NoIntentForgotten
<1>3. CASE Wake(w)
  <2>1. note' \in [Writers -> Notes]
    BY <1>3, PlacesTyped DEF Wake
  <2> QED BY <1>3, <2>1 DEF Wake, NoIntentForgotten
<1> QED BY <1>1, <1>2, <1>3 DEF Trigger

LEMMA StartsKeep ==
  ASSUME QueueInv, LoopStep \/ \E t \in Manual : Begin(t)
  PROVE  QueueInv'
<1> USE DEF QueueInv, QueueTyped
<1>1. CASE ReceiveWake
  <2>1. pc' \in [Threads -> Points] /\ pc'[Loop] = "debounce" /\ note' = note
    BY <1>1, PlacesTyped DEF ReceiveWake, GoTo, Points
  <2> QED BY <2>1 DEF NoIntentForgotten
<1>2. CASE Begin(Loop)
  <2>1. pc' \in [Threads -> Points] /\ pc'[Loop] = "drain" /\ note' = note
    BY <1>2, PlacesTyped DEF Begin, GoTo, Points
  <2> QED BY <2>1 DEF NoIntentForgotten
<1>3. ASSUME NEW t \in Manual, Begin(t) PROVE QueueInv'
  <2>1. t \in Threads /\ t # Loop
    BY <1>3, ConstantsAssumption DEF Threads
  <2>2. pc[t] \notin {"debounce", "drain"} /\ GoTo(t, "drain") /\ "drain" \in Points
    BY <1>3, <2>1 DEF Begin, Points
  <2>3. note' = note /\ pending' = pending /\ wake' = wake
    BY <1>3 DEF Begin, queue
  <2> QED BY <2>1, <2>2, <2>3, StepKeepsPlaces
<1> QED BY <1>1, <1>2, <1>3 DEF LoopStep

LEMMA QueueStep == QueueInv /\ [Next]_vars => QueueInv'
<1> SUFFICES ASSUME QueueInv, [Next]_vars PROVE QueueInv'
  OBVIOUS
<1>1. CASE \E w \in Writers : (\E k \in Writable : WriteFact(w, k)) \/ Trigger(w)
  BY <1>1, WriterKeeps
<1>2. CASE LoopStep \/ \E t \in Manual : Begin(t)
  BY <1>2, StartsKeep
<1>3. CASE \E t \in Threads : RunStep(t)
  BY <1>3, RunStepKeeps
<1>4. CASE Crash
  BY <1>4, PlacesTyped DEF Crash, QueueInv, QueueTyped, NoIntentForgotten
<1>5. CASE UNCHANGED vars
  BY <1>5 DEF vars, QueueInv, QueueTyped, NoIntentForgotten
<1> QED BY <1>1, <1>2, <1>3, <1>4, <1>5 DEF Next

(* While an intent of Trigger is pending, the loop is on its way to drain   *)
(* it: the channel of one element loses no wake-up, and a manual run that   *)
(* drains in between takes no intent without running for it.                *)
THEOREM IntentsRemembered == Spec => []NoIntentForgotten
<1>1. QueueInv => NoIntentForgotten
  BY DEF QueueInv
<1> QED BY QueueInit, QueueStep, <1>1, PTL DEF Spec

-----------------------------------------------------------------------------
(* The plan of a run: which components it takes, and in which order.       *)

Intents == {Full, "domain", "credential", "port"}

LEMMA ArrowFacts ==
  /\ <<"acme", "caddy">> \in Arrows
  /\ <<"caddy", "acme">> \notin Arrows
  /\ \A c \in Components : <<c, c>> \notin Arrows
<1>1. "cert" \in Produces["acme"] \cap Consumes["caddy"]
  BY DEF Produces, Consumes
<1>2. Produces["caddy"] = {}
  BY DEF Produces
<1>3. <<"acme", "caddy">> \in Components \X Components
  BY DEF Components
<1> QED BY <1>1, <1>2, <1>3 DEF Arrows

(* acme before caddy, whatever the run is about. *)
LEMMA AcmeFirst ==
  ASSUME NEW S \in SUBSET Registered, S # {}
  PROVE  First(S) = IF "acme" \in S THEN "acme" ELSE "caddy"
<1>1. S \subseteq {"acme", "caddy"}
  BY DEF Registered
<1>2. CASE "acme" \in S
  <2>1. Ready(S) = {"acme"}
    BY <1>1, <1>2, ArrowFacts DEF Ready, Components
  <2> QED BY <1>2, <2>1 DEF First, Rank
<1>3. CASE "acme" \notin S
  <2>1. Ready(S) = {"caddy"}
    BY <1>1, <1>3, ArrowFacts DEF Ready, Components
  <2> QED BY <1>3, <2>1 DEF First, Rank
<1> QED BY <1>2, <1>3

(* A run takes the components that consume what its intents name.          *)
LEMMA PlansCover ==
  ASSUME NEW I \in SUBSET Intents
  PROVE  /\ Plan(I) \subseteq Registered /\ Plan(I) # {}
         /\ Full \in I \/ "domain" \in I => Plan(I) = Registered
         /\ "credential" \in I => "acme" \in Plan(I)
         /\ "port" \in I => "caddy" \in Plan(I)
<1> DEFINE info == AffectedInfo(I)
           hit  == {c \in Components : Consumes[c] \cap info # {}}
<1>0. Plan(I) = (IF info = {} \/ hit = {} THEN Components ELSE hit) \cap Registered
  BY DEF Plan, Affected
<1>1. Registered \subseteq Components /\ "acme" \in Registered /\ "caddy" \in Registered
      /\ Registered = {"acme", "caddy"}
  BY DEF Registered, Components
<1>2. CASE Full \in I
  <2>1. info = {}
    BY <1>2 DEF AffectedInfo
  <2> QED BY <1>0, <1>1, <2>1
<1>3. CASE Full \notin I
  <2>1. info = I /\ I \subseteq {"domain", "credential", "port"}
    BY <1>3 DEF AffectedInfo, Intents
  <2>2. /\ "domain" \in Consumes["acme"] /\ "domain" \in Consumes["caddy"]
        /\ "credential" \in Consumes["acme"] /\ "port" \in Consumes["caddy"]
    BY DEF Consumes
  <2>3. /\ "domain" \in I => "acme" \in hit /\ "caddy" \in hit
        /\ "credential" \in I => "acme" \in hit
        /\ "port" \in I => "caddy" \in hit
    BY <1>1, <2>1, <2>2
  <2> HIDE DEF hit, info
  <2>4. CASE I = {}
    BY <1>0, <1>1, <2>1, <2>4, <1>3
  <2>5. CASE I # {}
    BY <1>0, <1>1, <2>1, <2>3, <2>5, <1>3
  <2> QED BY <2>4, <2>5
<1> QED BY <1>2, <1>3

-----------------------------------------------------------------------------
(* Types, and the plan that goes with every point of a run.                *)

Versions == [Facts -> Nat]
Seen     == [facts : Versions, cert : Versions]

Typed ==
  /\ fact \in Versions /\ cert \in Versions /\ ext \in Versions
  /\ caddy \in Seen /\ backup \in Seen
  /\ view \in [Threads -> Seen]
  /\ note \in [Writers -> Notes]
  /\ pending \subseteq Intents
  /\ pc \in [Threads -> Points]
  /\ plan \in [Threads -> SUBSET Registered]

PlanFits(t) ==
  /\ pc[t] \in InRun <=> plan[t] # {}
  /\ pc[t] = "issue" => "acme" \in plan[t]
  /\ pc[t] \in {"rest", "load", "persist"} => plan[t] = {"caddy"}
PlansFit == Typed /\ \A t \in Threads : PlanFits(t)

LEMMA BlankTyped == Blank \in Versions /\ Unseen \in Seen
BY DEF Blank, Unseen, Versions, Seen

LEMMA IntentTyped == \A k \in Facts : IntentOf(k) \in Intents
BY DEF Facts, IntentOf, Intents

LEMMA PlansInit == Init => PlansFit
<1> SUFFICES ASSUME Init PROVE PlansFit
  OBVIOUS
<1>1. Typed
  BY BlankTyped, PlacesTyped DEF Init, Typed
<1>2. \A t \in Threads : PlanFits(t)
  BY DEF Init, PlanFits, Rest, InRun
<1> QED BY <1>1, <1>2 DEF PlansFit

(* The end of a component's step: on to the next component, or to rest.    *)
LEMMA StepDoneFits ==
  ASSUME PlansFit, NEW t \in Threads, StepDone(t), pc[t] \in InRun
  PROVE  /\ plan' \in [Threads -> SUBSET Registered] /\ view' \in [Threads -> Seen]
         /\ pc' \in [Threads -> Points]
         /\ \A u \in Threads : u # t =>
              plan'[u] = plan[u] /\ view'[u] = view[u] /\ pc'[u] = pc[u]
         /\ plan'[t] = IF "acme" \in plan[t] THEN plan[t] \ {"acme"} ELSE {}
         /\ pc'[t] = IF plan'[t] = {} THEN Rest(t) ELSE "read"
<1>1. plan[t] \in SUBSET Registered /\ plan[t] # {}
  BY DEF PlansFit, Typed, PlanFits
<1>2. First(plan[t]) = IF "acme" \in plan[t] THEN "acme" ELSE "caddy"
  BY <1>1, AcmeFirst
<1>3. plan[t] \subseteq {"acme", "caddy"}
  BY <1>1 DEF Registered
<1> DEFINE next == IF plan[t] = {First(plan[t])} THEN Rest(t) ELSE "read"
<1>4. next \in Points
  BY PlacesTyped DEF Points
<1>5. plan \in [Threads -> SUBSET Registered] /\ view \in [Threads -> Seen]
      /\ pc \in [Threads -> Points]
  BY DEF PlansFit, Typed
<1>6. plan' = [plan EXCEPT ![t] = plan[t] \ {First(plan[t])}]
      /\ view' = [view EXCEPT ![t] = Unseen] /\ pc' = [pc EXCEPT ![t] = next]
  BY DEF StepDone, GoTo
<1>7. plan[t] \ {First(plan[t])} = (IF "acme" \in plan[t] THEN plan[t] \ {"acme"} ELSE {})
  BY <1>2, <1>3
<1>8. (plan[t] = {First(plan[t])}) <=> (plan[t] \ {First(plan[t])} = {})
  BY <1>1, <1>2, <1>3
<1> HIDE DEF next
<1>9. plan' \in [Threads -> SUBSET Registered] /\ view' \in [Threads -> Seen]
      /\ pc' \in [Threads -> Points]
  BY <1>1, <1>4, <1>5, <1>6, BlankTyped
<1>10. plan'[t] = plan[t] \ {First(plan[t])} /\ pc'[t] = next
  BY <1>5, <1>6
<1> QED BY <1>5, <1>6, <1>7, <1>8, <1>9, <1>10 DEF next

LEMMA PlansStep == PlansFit /\ [Next]_vars => PlansFit'
<1> SUFFICES ASSUME PlansFit, [Next]_vars PROVE PlansFit'
  OBVIOUS
<1> USE DEF Typed
<1>0. /\ fact \in Versions /\ cert \in Versions /\ ext \in Versions
      /\ caddy \in Seen /\ backup \in Seen /\ view \in [Threads -> Seen]
      /\ note \in [Writers -> Notes] /\ pending \subseteq Intents
      /\ pc \in [Threads -> Points] /\ plan \in [Threads -> SUBSET Registered]
      /\ \A t \in Threads : PlanFits(t)
  BY DEF PlansFit
<1>1. ASSUME NEW w \in Writers, (\E k \in Writable : WriteFact(w, k)) \/ Trigger(w)
      PROVE  PlansFit'
  <2>1. ASSUME NEW k \in Writable, WriteFact(w, k)
        PROVE  PlansFit'
    <3>1. k \in Facts
      BY ConstantsAssumption
    <3>2. fact' \in Versions
      <4>1. fact \in [Facts -> Nat] /\ fact[k] + 1 \in Nat
        BY <1>0, <3>1 DEF Versions
      <4> QED BY <2>1, <4>1 DEF WriteFact, Versions
    <3>3. note' \in [Writers -> Notes]
      BY <1>0, <2>1, <3>1 DEF WriteFact, Notes
    <3> QED BY <1>0, <2>1, <3>2, <3>3 DEF WriteFact, queue, applied, PlansFit, PlanFits
  <2>2. CASE AddIntent(w)
    <3>1. pending' \subseteq Intents
      BY <1>0, <2>2, IntentTyped DEF AddIntent, Notes
    <3>2. note' \in [Writers -> Notes]
      BY <1>0, <2>2 DEF AddIntent, Notes
    <3> QED BY <1>0, <2>2, <3>1, <3>2 DEF AddIntent, store, applied, PlansFit, PlanFits
  <2>3. CASE Wake(w)
    <3>1. note' \in [Writers -> Notes]
      BY <1>0, <2>3, PlacesTyped DEF Wake
    <3> QED BY <1>0, <2>3, <3>1 DEF Wake, store, applied, PlansFit, PlanFits
  <2> QED BY <1>1, <2>1, <2>2, <2>3 DEF Trigger
<1>2. ASSUME LoopStep \/ \E t \in Manual : Begin(t)
      PROVE  PlansFit'
  <2>1. CASE ReceiveWake
    BY <1>0, <2>1, PlacesTyped
       DEF ReceiveWake, GoTo, store, applied, PlansFit, PlanFits, InRun, Points
  <2>2. ASSUME NEW t \in Threads, Begin(t)
        PROVE  PlansFit'
    BY <1>0, <2>2 DEF Begin, GoTo, store, queue, applied, PlansFit, PlanFits, InRun, Points
  <2> QED BY <1>2, <2>1, <2>2 DEF LoopStep, Threads
<1>3. ASSUME NEW t \in Threads, RunStep(t)
      PROVE  PlansFit'
  <2>0. ASSUME pc[t] \in InRun, StepDone(t),
               fact' \in Versions, cert' \in Versions, ext' \in Versions,
               caddy' \in Seen, backup' \in Seen, UNCHANGED <<note, pending>>
        PROVE  PlansFit'
    <3>1. plan[t] \subseteq {"acme", "caddy"}
      BY <1>0 DEF Registered
    <3>2. /\ plan' \in [Threads -> SUBSET Registered] /\ view' \in [Threads -> Seen]
          /\ pc' \in [Threads -> Points]
          /\ \A u \in Threads : u # t => plan'[u] = plan[u] /\ pc'[u] = pc[u]
          /\ plan'[t] = IF "acme" \in plan[t] THEN plan[t] \ {"acme"} ELSE {}
          /\ pc'[t] = IF plan'[t] = {} THEN Rest(t) ELSE "read"
      BY <2>0, StepDoneFits
    <3>3. PlanFits(t)'
      BY <3>1, <3>2 DEF PlanFits, Rest, InRun
    <3>4. \A u \in Threads : PlanFits(u)'
      BY <1>0, <3>2, <3>3 DEF PlanFits
    <3> QED BY <1>0, <2>0, <3>2, <3>4 DEF PlansFit
  <2>1. CASE Drain(t)
    <3>1. Plan(pending) \subseteq Registered /\ Plan(pending) # {}
      BY <1>0, PlansCover
    <3> QED BY <1>0, <2>1, <3>1
            DEF Drain, GoTo, store, applied, PlansFit, PlanFits, InRun, Points
  <2>2. CASE ReadServices(t)
    <3>1. view' \in [Threads -> Seen]
      BY <1>0, <2>2 DEF ReadServices, Versions, Seen, Facts
    <3>2. pc[t] = "read" /\ plan' = plan /\ plan[t] \in SUBSET Registered /\ plan[t] # {}
      BY <1>0, <2>2 DEF ReadServices, PlanFits, InRun
    <3>3. GoTo(t, IF "acme" \in plan[t] THEN "issue" ELSE "rest")
      BY <2>2, <3>2, AcmeFirst DEF ReadServices
    <3>4. plan[t] \subseteq {"acme", "caddy"}
      BY <3>2 DEF Registered
    <3>5. PlanFits(t)' /\ pc' \in [Threads -> Points]
          /\ \A u \in Threads : u # t => pc'[u] = pc[u]
      BY <1>0, <3>2, <3>3, <3>4 DEF GoTo, PlanFits, InRun, Points
    <3>6. \A u \in Threads : PlanFits(u)'
      BY <1>0, <3>2, <3>5 DEF PlanFits
    <3> QED BY <1>0, <2>2, <3>1, <3>5, <3>6
            DEF ReadServices, store, queue, applied, PlansFit
  <2>3. CASE ReadFails(t)
    BY <1>0, <2>0, <2>3 DEF ReadFails, queue, InRun
  <2>4. CASE Issue(t)
    <3>1. cert' \in Versions
      BY <1>0, <2>4 DEF Issue, Versions, Seen, Facts
    <3> QED BY <1>0, <2>0, <2>4, <3>1 DEF Issue, store, queue, InRun
  <2>5. CASE IssueFails(t)
    BY <1>0, <2>0, <2>5 DEF IssueFails, queue, applied, InRun
  <2>6. CASE ReadRest(t)
    <3>1. [facts |-> [fact EXCEPT !["service"] = view[t].facts["service"]], cert |-> cert] \in Seen
      BY <1>0 DEF Versions, Seen, Facts
    <3>2. view' \in [Threads -> Seen]
      BY <1>0, <2>6, <3>1 DEF ReadRest
    <3>3. pc' \in [Threads -> Points] /\ \A u \in Threads : PlanFits(u)'
      BY <1>0, <2>6 DEF ReadRest, GoTo, PlanFits, InRun, Points
    <3> QED BY <1>0, <2>6, <3>2, <3>3 DEF ReadRest, store, queue, applied, PlansFit
  <2>7. CASE Load(t)
    <3>1. pc' \in [Threads -> Points] /\ \A u \in Threads : PlanFits(u)'
      BY <1>0, <2>7 DEF Load, GoTo, PlanFits, InRun, Points
    <3>2. caddy' \in Seen
      BY <1>0, <2>7 DEF Load
    <3> QED BY <1>0, <2>7, <3>1, <3>2 DEF Load, store, queue, PlansFit
  <2>8. CASE LoadFails(t)
    <3>1. caddy' \in Seen
      BY <1>0, <2>8 DEF LoadFails
    <3> QED BY <1>0, <2>0, <2>8, <3>1 DEF LoadFails, queue, InRun
  <2>9. CASE Persist(t) \/ PersistFails(t)
    <3>1. PICK kept \in SUBSET Copies : PersistBut(t, kept)
      BY <2>9 DEF Persist, PersistFails
    <3>2. backup' \in Seen /\ ext' \in Versions
      BY <1>0, <3>1 DEF PersistBut
    <3> QED BY <1>0, <2>0, <3>1, <3>2 DEF PersistBut, queue, InRun
  <2> QED BY <1>3, <2>1, <2>2, <2>3, <2>4, <2>5, <2>6, <2>7, <2>8, <2>9 DEF RunStep
<1>4. CASE Crash
  <2>1. \A t \in Threads : PlanFits(t)'
    BY <1>4 DEF Crash, PlanFits, Rest, InRun
  <2> QED BY <1>0, <1>4, <2>1, BlankTyped, PlacesTyped DEF Crash, applied, PlansFit
<1>5. CASE UNCHANGED vars
  BY <1>0, <1>5 DEF vars, PlansFit, PlanFits
<1> QED BY <1>1, <1>2, <1>3, <1>4, <1>5 DEF Next

LEMMA MCImplements == MCSpec => Spec
<1>1. MCInit => Init
  BY DEF MCInit
<1>2. [MCNext]_<<vars, smooth, missed>> => [Next]_vars
  BY DEF MCNext
<1> QED BY <1>1, <1>2, PTL DEF MCSpec, Spec

LEMMA PlansAlways == Spec => []PlansFit
BY PlansInit, PlansStep, PTL DEF Spec

-----------------------------------------------------------------------------
(* What is quiet is applied.  While nothing went wrong and runs did not     *)
(* overlap, whatever is not applied yet is either owed - its intent is      *)
(* pending or about to be - or ahead of the one run under way.              *)

Owed(k) ==
  \/ IntentOf(k) \in pending
  \/ \E w \in Writers : note[w].at = "add" /\ note[w].kind = k

AcmeAhead(k) ==
  \E t \in Threads : /\ pc[t] \in {"read", "issue"} /\ "acme" \in plan[t]
                     /\ k # "credential" => "caddy" \in plan[t]
CaddyAhead == \E t \in Threads : pc[t] \in InRun /\ "caddy" \in plan[t]

ViewCurrent(t) ==
  /\ pc[t] \in {"issue", "rest"} => view[t].facts["service"] = fact["service"] \/ Owed("service")
  /\ pc[t] \in {"load", "persist"} =>
       /\ \A k \in {"service", "domain", "port"} : view[t].facts[k] = fact[k] \/ Owed(k)
       /\ view[t].cert = cert
  /\ pc[t] = "persist" => caddy = view[t]

CertCurrent ==
  \A k \in {"service", "domain", "credential"} : cert[k] = fact[k] \/ Owed(k) \/ AcmeAhead(k)
CaddyCurrent ==
  outcome = "success" /\ ~CaddyAhead =>
    /\ \A k \in {"service", "domain", "port"} : caddy.facts[k] = fact[k] \/ Owed(k)
    /\ \A k \in {"service", "domain"} : caddy.cert[k] = cert[k] \/ Owed(k)
    /\ "ext" \notin missed => \A k \in {"service", "domain"} : ext[k] = fact[k] \/ Owed(k)
    /\ "backup" \notin missed => backup = caddy

Single  == \A t, u \in Threads : Running(t) /\ Running(u) => t = u
Current == Single /\ (\A t \in Threads : ViewCurrent(t)) /\ CertCurrent /\ CaddyCurrent

LEMMA CurrentAtRest ==
  ASSUME PlansFit, Current
  PROVE  QuietIsApplied
<1> SUFFICES ASSUME Quiet
             PROVE  /\ \A k \in {"service", "domain", "credential"} : cert[k] = fact[k]
                    /\ outcome = "success" =>
                         /\ \A k \in {"service", "domain", "port"} : caddy.facts[k] = fact[k]
                         /\ \A k \in {"service", "domain"} : caddy.cert[k] = cert[k]
                         /\ "ext" \notin missed =>
                              \A k \in {"service", "domain"} : ext[k] = fact[k]
                         /\ "backup" \notin missed => backup = caddy
  BY DEF QuietIsApplied
<1>1. \A k : ~Owed(k)
  BY DEF Quiet, Owed
<1>2. \A t \in Threads : pc[t] \notin InRun
  BY DEF Quiet, Rest, InRun
<1>3. ~CaddyAhead /\ \A k : ~AcmeAhead(k)
  BY <1>2 DEF CaddyAhead, AcmeAhead, InRun
<1> QED BY <1>1, <1>3 DEF Current, CertCurrent, CaddyCurrent

(* Steps of writers and of what starts a run: what is written becomes owed, *)
(* and runs stay where they are.                                            *)
LEMMA OutsideSteps ==
  ASSUME PlansFit, Current, Single',
         UNCHANGED <<plan, view, applied, missed>>,
         \A t \in Threads : pc[t] \in InRun \/ pc'[t] \in InRun => pc'[t] = pc[t],
         \A k \in Facts : Owed(k) \/ fact'[k] # fact[k] => Owed(k)'
  PROVE  Current'
<1>0. {"service", "domain", "credential", "port"} = Facts
  BY DEF Facts
<1>1. \A t \in Threads : ViewCurrent(t)'
  <2> TAKE t \in Threads
  <2>1. ViewCurrent(t) /\ view' = view /\ cert' = cert /\ caddy' = caddy
    BY DEF Current, applied
  <2>2. pc'[t] \in InRun => pc'[t] = pc[t]
    OBVIOUS
  <2> QED BY <1>0, <2>1, <2>2 DEF ViewCurrent, InRun
<1>2. \A k : AcmeAhead(k) => AcmeAhead(k)'
  BY DEF AcmeAhead, InRun
<1>3. CaddyAhead' <=> CaddyAhead
  BY DEF CaddyAhead
<1>4. CertCurrent'
  BY <1>0, <1>2 DEF Current, CertCurrent, applied
<1>5. CaddyCurrent'
  BY <1>0, <1>3 DEF Current, CaddyCurrent, applied
<1> QED BY <1>1, <1>4, <1>5 DEF Current

LEMMA WritesAreOwed ==
  ASSUME PlansFit, NEW w \in Writers, (\E k \in Writable : WriteFact(w, k)) \/ Trigger(w)
  PROVE  /\ UNCHANGED <<plan, view, applied, pc>>
         /\ \A k \in Facts : Owed(k) \/ fact'[k] # fact[k] => Owed(k)'
<1>0. note \in [Writers -> Notes]
  BY DEF PlansFit, Typed
<1>1. ASSUME NEW j \in Writable, WriteFact(w, j)
      PROVE  /\ UNCHANGED <<plan, view, applied, pc>>
             /\ \A k \in Facts : Owed(k) \/ fact'[k] # fact[k] => Owed(k)'
  <2>1. fact \in [Facts -> Nat] /\ j \in Facts
    BY ConstantsAssumption DEF PlansFit, Typed, Versions
  <2>2. \A k \in Facts : fact'[k] # fact[k] => k = j
    BY <1>1, <2>1 DEF WriteFact
  <2>3. note' = [note EXCEPT ![w] = [at |-> "add", kind |-> j]] /\ pending' = pending
        /\ note[w].at = "idle" /\ UNCHANGED <<plan, view, applied, pc>>
    BY <1>1 DEF WriteFact, queue
  <2>4. note'[w].at = "add" /\ note'[w].kind = j
    BY <1>0, <2>3
  <2>5. \A v \in Writers : v # w => note'[v] = note[v]
    BY <1>0, <2>3
  <2>6. ASSUME NEW k, Owed(k) PROVE Owed(k)'
    <3>1. CASE IntentOf(k) \in pending
      BY <2>3, <3>1 DEF Owed
    <3>2. ASSUME NEW v \in Writers, note[v].at = "add", note[v].kind = k PROVE Owed(k)'
      BY <2>3, <2>5, <3>2 DEF Owed
    <3> QED BY <2>6, <3>1, <3>2 DEF Owed
  <2>7. Owed(j)'
    BY <2>4 DEF Owed
  <2> QED BY <2>2, <2>3, <2>6, <2>7
<1>2. CASE AddIntent(w)
  <2>1. note' = [note EXCEPT ![w].at = "wake"] /\ pending' = pending \cup {IntentOf(note[w].kind)}
        /\ UNCHANGED <<fact, plan, view, applied, pc>>
    BY <1>2 DEF AddIntent, store
  <2>2. \A v \in Writers : v # w => note'[v] = note[v]
    BY <1>0, <2>1
  <2>3. \A k : Owed(k) => Owed(k)'
    BY <2>1, <2>2 DEF Owed
  <2> QED BY <2>1, <2>3
<1>3. CASE Wake(w)
  <2>1. note' = [note EXCEPT ![w] = NoNote] /\ pending' = pending /\ note[w].at = "wake"
        /\ UNCHANGED <<fact, plan, view, applied, pc>>
    BY <1>3 DEF Wake, store
  <2>2. \A v \in Writers : v # w => note'[v] = note[v]
    BY <1>0, <2>1
  <2>3. \A k : Owed(k) => Owed(k)'
    BY <2>1, <2>2 DEF Owed
  <2> QED BY <2>1, <2>3
<1> QED BY <1>1, <1>2, <1>3 DEF Trigger

(* In a run step of the one run under way no other goroutine is in a run. *)
LEMMA OthersRest ==
  ASSUME Single, NEW t \in Threads, Running(t)
  PROVE  \A u \in Threads : u # t => pc[u] \notin InRun
BY DEF Single, Running

(* The end of a component's step, for what has been said of it so far.     *)
LEMMA DoneCurrent ==
  ASSUME PlansFit, Current, Single', NEW t \in Threads, StepDone(t), pc[t] \in InRun,
         UNCHANGED <<fact, note, pending>>,
         \A k \in {"service", "domain", "credential"} :
           cert'[k] = fact[k] \/ Owed(k)
             \/ (cert'[k] = cert[k] /\ pc[t] \notin {"read", "issue"}),
         "caddy" \notin plan[t] =>
           /\ UNCHANGED <<caddy, ext, backup, outcome, missed>>
           /\ \A k \in {"service", "domain"} : cert'[k] = cert[k] \/ Owed(k),
         plan[t] = {"caddy"} /\ outcome' = "success" =>
           /\ \A k \in {"service", "domain", "port"} : caddy'.facts[k] = fact[k] \/ Owed(k)
           /\ \A k \in {"service", "domain"} : caddy'.cert[k] = cert'[k] \/ Owed(k)
           /\ "ext" \notin missed' =>
                \A k \in {"service", "domain"} : ext'[k] = fact[k] \/ Owed(k)
           /\ "backup" \notin missed' => backup' = caddy'
  PROVE  Current'
<1>1. /\ \A u \in Threads : u # t => plan'[u] = plan[u] /\ view'[u] = view[u] /\ pc'[u] = pc[u]
      /\ plan'[t] = IF "acme" \in plan[t] THEN plan[t] \ {"acme"} ELSE {}
      /\ pc'[t] = IF plan'[t] = {} THEN Rest(t) ELSE "read"
  BY StepDoneFits
<1>2. \A u \in Threads : u # t => pc[u] \notin InRun
  BY OthersRest DEF Current, Running
<1>3. plan[t] \subseteq {"acme", "caddy"} /\ plan[t] # {} /\ PlanFits(t)
  BY DEF PlansFit, Typed, Registered, PlanFits
<1>4. pc'[t] \notin InRun \/ pc'[t] = "read"
  BY <1>1 DEF Rest, InRun
<1>5. \A u \in Threads : pc'[u] \in InRun => u = t /\ pc'[u] = "read"
  BY <1>1, <1>2, <1>4
<1>6. \A u \in Threads : ViewCurrent(u)'
  BY <1>5 DEF ViewCurrent, InRun
<1>7. \A k : Owed(k)' <=> Owed(k)
  BY DEF Owed
<1>8. \A k : AcmeAhead(k) => pc[t] \in {"read", "issue"}
  BY <1>2 DEF AcmeAhead, InRun
<1>9. CertCurrent'
  <2> SUFFICES ASSUME NEW k \in {"service", "domain", "credential"}
               PROVE  cert'[k] = fact'[k] \/ Owed(k)'
    BY DEF CertCurrent
  <2>1. CASE cert'[k] = cert[k] /\ pc[t] \notin {"read", "issue"}
    BY <1>7, <1>8, <2>1 DEF Current, CertCurrent
  <2> QED BY <1>7, <2>1
<1>10. CaddyCurrent'
  <2> SUFFICES ASSUME outcome' = "success", ~CaddyAhead'
               PROVE  /\ \A k \in {"service", "domain", "port"} :
                           caddy'.facts[k] = fact'[k] \/ Owed(k)'
                      /\ \A k \in {"service", "domain"} : caddy'.cert[k] = cert'[k] \/ Owed(k)'
                      /\ "ext" \notin missed' =>
                           \A k \in {"service", "domain"} : ext'[k] = fact'[k] \/ Owed(k)'
                      /\ "backup" \notin missed' => backup' = caddy'
    BY DEF CaddyCurrent
  <2>1. CASE "caddy" \notin plan[t]
    <3>1. ~CaddyAhead
      BY <1>2, <2>1 DEF CaddyAhead
    <3>2. CaddyCurrent
      BY DEF Current
    <3> QED BY <1>7, <2>1, <3>1, <3>2 DEF CaddyCurrent
  <2>2. CASE plan[t] = {"caddy"}
    BY <1>7, <2>2
  <2>3. CASE "acme" \in plan[t] /\ "caddy" \in plan[t]
    <3>1. plan'[t] = {"caddy"} /\ pc'[t] = "read"
      BY <1>1, <1>3, <2>3
    <3> QED BY <3>1 DEF CaddyAhead, InRun
  <2> QED BY <1>3, <2>1, <2>2, <2>3
<1> QED BY <1>6, <1>9, <1>10 DEF Current

(* A run that takes the intents is ahead for all they owe. *)
LEMMA DrainCurrent ==
  ASSUME PlansFit, Current, Single', NEW t \in Threads, Drain(t), missed' = missed
  PROVE  Current'
<1>1. /\ pc[t] = "drain" /\ pending' = {} /\ UNCHANGED <<fact, note, view, applied>>
      /\ plan' = [plan EXCEPT ![t] = Plan(pending)] /\ pc' = [pc EXCEPT ![t] = "read"]
  BY DEF Drain, GoTo, store
<1>2. /\ plan \in [Threads -> SUBSET Registered] /\ pc \in [Threads -> Points]
      /\ pending \subseteq Intents
  BY DEF PlansFit, Typed
<1>3. \A u \in Threads : u # t => pc[u] \notin InRun
  BY <1>1, OthersRest DEF Current, Running
<1>4. pc'[t] = "read" /\ plan'[t] = Plan(pending) /\ Plan(pending) # {}
      /\ \A u \in Threads : u # t => pc'[u] = pc[u] /\ plan'[u] = plan[u]
  BY <1>1, <1>2, PlansCover
<1>5. \A u \in Threads : ViewCurrent(u)'
  BY <1>3, <1>4 DEF ViewCurrent, InRun
<1>6. \A k : Owed(k) => Owed(k)' \/ IntentOf(k) \in pending
  BY <1>1 DEF Owed
<1>7. CertCurrent'
  <2> SUFFICES ASSUME NEW k \in {"service", "domain", "credential"}
               PROVE  cert'[k] = fact'[k] \/ Owed(k)' \/ AcmeAhead(k)'
    BY DEF CertCurrent
  <2>1. ~AcmeAhead(k)
    BY <1>1, <1>3 DEF AcmeAhead, InRun
  <2>2. CASE IntentOf(k) \in pending
    <3>1. "acme" \in Plan(pending) /\ (k # "credential" => "caddy" \in Plan(pending))
      BY <1>2, <2>2, PlansCover DEF IntentOf, Registered
    <3> QED BY <1>4, <3>1 DEF AcmeAhead
  <2>3. CASE IntentOf(k) \notin pending
    BY <1>1, <1>6, <2>1, <2>3 DEF Current, CertCurrent, applied
  <2> QED BY <2>2, <2>3
<1>8. CaddyCurrent'
  <2> SUFFICES ASSUME outcome' = "success", ~CaddyAhead'
               PROVE  /\ \A k \in {"service", "domain", "port"} :
                           caddy'.facts[k] = fact'[k] \/ Owed(k)'
                      /\ \A k \in {"service", "domain"} : caddy'.cert[k] = cert'[k] \/ Owed(k)'
                      /\ "ext" \notin missed' =>
                           \A k \in {"service", "domain"} : ext'[k] = fact'[k] \/ Owed(k)'
                      /\ "backup" \notin missed' => backup' = caddy'
    BY DEF CaddyCurrent
  <2>1. "caddy" \notin Plan(pending)
    BY <1>4 DEF CaddyAhead, InRun
  <2>2. \A k \in {"service", "domain", "port"} : IntentOf(k) \notin pending
    BY <1>2, <2>1, PlansCover DEF IntentOf, Registered
  <2>3. ~CaddyAhead
    BY <1>1, <1>3 DEF CaddyAhead, InRun
  <2>4. \A k \in {"service", "domain", "port"} : Owed(k) => Owed(k)'
    BY <1>6, <2>2
  <2>5. CaddyCurrent
    BY DEF Current
  <2> QED BY <1>1, <2>3, <2>4, <2>5 DEF CaddyCurrent, applied
<1> QED BY <1>5, <1>7, <1>8 DEF Current

(* A step of a run other than the first and the last of a component.       *)
LEMMA InsideCurrent ==
  ASSUME PlansFit, Current, Single', NEW t \in Threads, pc[t] \in InRun, pc'[t] \in InRun,
         \A u \in Threads : u # t => pc'[u] = pc[u],
         UNCHANGED <<fact, note, pending, plan, cert, ext, backup, outcome, missed>>,
         pc[t] \in {"read", "issue"} /\ "acme" \in plan[t] => pc'[t] \in {"read", "issue"},
         "caddy" \notin plan[t] => caddy' = caddy,
         ViewCurrent(t)'
  PROVE  Current'
<1>1. \A u \in Threads : u # t => pc[u] \notin InRun
  BY OthersRest DEF Current, Running
<1>2. \A u \in Threads : ViewCurrent(u)'
  BY <1>1 DEF ViewCurrent, InRun
<1>3. \A k : Owed(k)' <=> Owed(k)
  BY DEF Owed
<1>4. \A k : AcmeAhead(k) => AcmeAhead(k)'
  BY <1>1 DEF AcmeAhead, InRun
<1>5. CertCurrent'
  BY <1>3, <1>4 DEF Current, CertCurrent
<1>6. CaddyAhead' <=> CaddyAhead
  BY <1>1 DEF CaddyAhead
<1>7. CaddyCurrent'
  <2>1. CASE "caddy" \in plan[t]
    BY <2>1 DEF CaddyCurrent, CaddyAhead
  <2>2. CASE "caddy" \notin plan[t]
    BY <1>3, <1>6, <2>2 DEF Current, CaddyCurrent
  <2> QED BY <2>1, <2>2
<1> QED BY <1>2, <1>5, <1>7 DEF Current

(* What is missed changes with the last step of caddy only. *)
MissedStep ==
  \/ \E t \in Threads : Persists(t) /\ missed' = Missing(t)
  \/ ~(\E t \in Threads : Persists(t)) /\ missed' = missed

LEMMA PersistsMoves ==
  ASSUME PlansFit, NEW t \in Threads, Persists(t)
  PROVE  pc[t] = "persist" /\ pc'[t] # "persist"
<1>1. PICK kept \in SUBSET Copies : PersistBut(t, kept)
  BY DEF Persists, Persist, PersistFails
<1>2. pc[t] = "persist" /\ StepDone(t)
  BY <1>1 DEF PersistBut
<1>3. pc'[t] = IF plan'[t] = {} THEN Rest(t) ELSE "read"
  BY <1>2, StepDoneFits DEF InRun
<1> QED BY <1>2, <1>3 DEF Rest

LEMMA MissedKept ==
  ASSUME PlansFit, MissedStep, \A t \in Threads : pc[t] = "persist" => pc'[t] = "persist"
  PROVE  missed' = missed
BY PersistsMoves DEF MissedStep

LEMMA RunStepCurrent ==
  ASSUME PlansFit, Current, Single', NEW t \in Threads, RunStep(t), MissedStep,
         ~ReadFails(t), ~IssueFails(t)
  PROVE  Current'
<1>0. /\ fact \in Versions /\ cert \in Versions
      /\ view \in [Threads -> Seen] /\ pc \in [Threads -> Points]
      /\ plan[t] \in SUBSET Registered /\ PlanFits(t)
  BY DEF PlansFit, Typed
<1>1. ViewCurrent(t) /\ CertCurrent /\ CaddyCurrent
  BY DEF Current
<1>2. ASSUME Running(t), pc[t] # "persist" PROVE missed' = missed
  BY <1>2, OthersRest, MissedKept DEF Current, InRun
<1>3. CASE Drain(t)
  BY <1>2, <1>3, DrainCurrent DEF Drain, Running
<1>4. CASE ReadServices(t)
  <2>1. /\ pc[t] = "read" /\ view' = [view EXCEPT ![t].facts["service"] = fact["service"]]
        /\ pc' = [pc EXCEPT ![t] = IF First(plan[t]) = "acme" THEN "issue" ELSE "rest"]
        /\ UNCHANGED <<fact, note, pending, plan, cert, ext, backup, outcome, caddy, missed>>
    BY <1>2, <1>4 DEF ReadServices, GoTo, store, queue, applied, Running, InRun
  <2>2. plan[t] # {} /\ (First(plan[t]) = "acme" <=> "acme" \in plan[t])
    BY <1>0, <2>1, AcmeFirst DEF PlanFits, InRun
  <2>3. view'[t].facts["service"] = fact["service"]
    BY <1>0, <2>1 DEF Seen, Versions, Facts
  <2>4. pc'[t] = (IF "acme" \in plan[t] THEN "issue" ELSE "rest")
        /\ \A u \in Threads : u # t => pc'[u] = pc[u]
    BY <1>0, <2>1, <2>2
  <2>5. ViewCurrent(t)'
    BY <2>1, <2>3, <2>4 DEF ViewCurrent
  <2> QED BY <2>1, <2>4, <2>5, InsideCurrent DEF InRun
<1>5. CASE Issue(t)
  <2>1. /\ pc[t] = "issue" /\ StepDone(t)
        /\ cert' = [fact EXCEPT !["service"] = view[t].facts["service"]]
        /\ UNCHANGED <<fact, note, pending, ext, backup, outcome, caddy, missed>>
    BY <1>2, <1>5 DEF Issue, store, queue, Running, InRun
  <2>2. cert'["service"] = view[t].facts["service"]
        /\ \A k \in {"domain", "credential"} : cert'[k] = fact[k]
    BY <1>0, <2>1 DEF Versions, Facts
  <2>3. \A k \in {"service", "domain", "credential"} : cert'[k] = fact[k] \/ Owed(k)
    BY <1>1, <2>1, <2>2 DEF ViewCurrent
  <2>4. "acme" \in plan[t]
    BY <1>0, <2>1 DEF PlanFits
  <2>5. ASSUME "caddy" \notin plan[t]
        PROVE  \A k \in {"service", "domain"} : cert'[k] = cert[k] \/ Owed(k)
    <3>1. \A u \in Threads : u # t => pc[u] \notin InRun
      BY <2>1, OthersRest DEF Current, Running, InRun
    <3>2. \A k \in {"service", "domain"} : ~AcmeAhead(k)
      BY <2>5, <3>1 DEF AcmeAhead, InRun
    <3> QED BY <1>1, <2>3, <3>2 DEF CertCurrent
  <2>6. pc[t] \in InRun /\ plan[t] # {"caddy"}
    BY <2>1, <2>4 DEF InRun
  <2> QED BY <2>1, <2>3, <2>5, <2>6, DoneCurrent
<1>6. CASE ReadRest(t)
  <2>1. /\ pc[t] = "rest" /\ pc' = [pc EXCEPT ![t] = "load"]
        /\ view' = [view EXCEPT ![t] =
             [facts |-> [fact EXCEPT !["service"] = view[t].facts["service"]], cert |-> cert]]
        /\ UNCHANGED <<fact, note, pending, plan, cert, ext, backup, outcome, caddy, missed>>
    BY <1>2, <1>6 DEF ReadRest, GoTo, store, queue, applied, Running, InRun
  <2>2. /\ view'[t].facts["service"] = view[t].facts["service"]
        /\ \A k \in {"domain", "port"} : view'[t].facts[k] = fact[k]
        /\ view'[t].cert = cert
    BY <1>0, <2>1 DEF Seen, Versions, Facts
  <2>3. pc'[t] = "load" /\ \A u \in Threads : u # t => pc'[u] = pc[u]
    BY <1>0, <2>1
  <2>4. Owed("service") => Owed("service")'
    BY <2>1 DEF Owed
  <2>5. ViewCurrent(t)'
    BY <1>1, <2>1, <2>2, <2>3, <2>4 DEF ViewCurrent
  <2> QED BY <2>1, <2>3, <2>5, InsideCurrent DEF InRun
<1>7. CASE Load(t)
  <2>1. /\ pc[t] = "load" /\ pc' = [pc EXCEPT ![t] = "persist"] /\ caddy' = view[t]
        /\ UNCHANGED <<fact, note, pending, plan, view, cert, ext, backup, outcome, missed>>
    BY <1>2, <1>7 DEF Load, GoTo, store, queue, Running, InRun
  <2>2. pc'[t] = "persist" /\ \A u \in Threads : u # t => pc'[u] = pc[u]
    BY <1>0, <2>1
  <2>3. \A k : Owed(k)' <=> Owed(k)
    BY <2>1 DEF Owed
  <2>4. ViewCurrent(t)'
    BY <1>1, <2>1, <2>2, <2>3 DEF ViewCurrent
  <2>5. "caddy" \in plan[t]
    BY <1>0, <2>1 DEF PlanFits
  <2> QED BY <2>1, <2>2, <2>4, <2>5, InsideCurrent DEF InRun
<1>8. CASE LoadFails(t)
  <2>1. /\ pc[t] = "load" /\ StepDone(t) /\ outcome' = "error"
        /\ UNCHANGED <<fact, note, pending, cert, ext, backup>>
    BY <1>8 DEF LoadFails, queue
  <2>2. plan[t] = {"caddy"} /\ pc[t] \in InRun
    BY <1>0, <2>1 DEF PlanFits, InRun
  <2> QED BY <2>1, <2>2, DoneCurrent
<1>9. CASE Persist(t) \/ PersistFails(t)
  <2>1. PICK kept \in SUBSET Copies : PersistBut(t, kept)
    BY <1>9 DEF Persist, PersistFails
  <2>2. /\ pc[t] = "persist" /\ StepDone(t)
        /\ UNCHANGED <<fact, note, pending, cert, caddy>>
    BY <2>1 DEF PersistBut, queue
  <2>3. plan[t] = {"caddy"} /\ pc[t] \in InRun
    BY <1>0, <2>2 DEF PlanFits, InRun
  <2>4. \A u \in Threads : Persists(u) => u = t
    BY <2>2, PersistsMoves DEF Current, Single, Running, InRun
  <2>5. Persists(t)
    BY <1>9 DEF Persists
  <2>6. missed' = Missing(t)
    BY <2>4, <2>5 DEF MissedStep
  <2>7. /\ "ext" \notin missed' => ext' = fact
        /\ "backup" \notin missed' => backup' = view[t]
    BY <2>6 DEF Missing, Copies
  <2>8. /\ caddy = view[t] /\ view[t].cert = cert
        /\ \A k \in {"service", "domain", "port"} : view[t].facts[k] = fact[k] \/ Owed(k)
    BY <1>1, <2>2 DEF ViewCurrent
  <2> QED BY <2>2, <2>3, <2>7, <2>8, DoneCurrent
<1> QED BY <1>3, <1>4, <1>5, <1>6, <1>7, <1>8, <1>9 DEF RunStep

SmoothCurrent == smooth => Current

LEMMA SmoothStep ==
  PlansFit /\ SmoothCurrent /\ [MCNext]_<<vars, smooth, missed>> => SmoothCurrent'
<1> SUFFICES ASSUME PlansFit, SmoothCurrent, [MCNext]_<<vars, smooth, missed>>, smooth'
             PROVE  Current'
  BY DEF SmoothCurrent
<1>1. CASE UNCHANGED <<vars, smooth, missed>>
  <2>1. \A k \in Facts : Owed(k) => Owed(k)'
    BY <1>1 DEF vars, Owed
  <2>2. Current /\ Single'
    BY <1>1 DEF SmoothCurrent, Current, Single, Running, vars
  <2>3. UNCHANGED <<plan, view, applied, missed>> /\ pc' = pc /\ fact' = fact
    BY <1>1 DEF vars, applied
  <2> QED BY <2>1, <2>2, <2>3, OutsideSteps
<1>2. CASE MCNext
  <2>1. /\ Next /\ Current /\ ~Crash
        /\ \A t \in Threads : ~ReadFails(t) /\ ~IssueFails(t)
        /\ Single' /\ MissedStep
    BY <1>2 DEF MCNext, SmoothCurrent, Single, MissedStep
  <2>2. ASSUME NEW w \in Writers, (\E k \in Writable : WriteFact(w, k)) \/ Trigger(w)
        PROVE  Current'
    <3>1. pc' = pc
      BY <2>2, WritesAreOwed
    <3>2. missed' = missed
      BY <2>1, <3>1, MissedKept
    <3> QED BY <2>1, <2>2, <3>1, <3>2, WritesAreOwed, OutsideSteps
  <2>3. CASE LoopStep \/ \E t \in Manual : Begin(t)
    <3>1. pc \in [Threads -> Points]
      BY DEF PlansFit, Typed
    <3>2. /\ UNCHANGED <<plan, view, applied, fact, note, pending>>
          /\ \A t \in Threads : pc[t] \in InRun \/ pc'[t] \in InRun => pc'[t] = pc[t]
      <4>1. CASE ReceiveWake
        BY <3>1, <4>1 DEF ReceiveWake, GoTo, store, InRun
      <4>2. ASSUME NEW t \in Threads, Begin(t)
            PROVE  /\ UNCHANGED <<plan, view, applied, fact, note, pending>>
                   /\ \A u \in Threads : pc[u] \in InRun \/ pc'[u] \in InRun => pc'[u] = pc[u]
        BY <3>1, <4>2 DEF Begin, GoTo, store, queue, InRun
      <4> QED BY <2>3, <4>1, <4>2 DEF LoopStep, Threads
    <3>3. \A k \in Facts : Owed(k) => Owed(k)'
      BY <3>2 DEF Owed
    <3>4. missed' = missed
      BY <2>1, <3>2, MissedKept DEF InRun
    <3> QED BY <2>1, <3>2, <3>3, <3>4, OutsideSteps
  <2>4. ASSUME NEW t \in Threads, RunStep(t) PROVE Current'
    BY <2>1, <2>4, RunStepCurrent
  <2> QED BY <2>1, <2>2, <2>3, <2>4 DEF Next
<1> QED BY <1>1, <1>2

(* SmoothQuietIsApplied: as long as runs did not overlap, no restart lost   *)
(* an intent and no read or certificate failed, then at rest - whatever was *)
(* written while runs were under way, and by how many writers - the         *)
(* certificates are those of the stored facts and, after a caddy step that  *)
(* succeeded, so is Caddy, and so are the plugins and the backup except     *)
(* what that step could not write and only logged.                          *)
THEOREM SmoothQuietApplied == MCSpec => []SmoothQuietIsApplied
<1>1. MCInit => SmoothCurrent
  <2> SUFFICES ASSUME MCInit PROVE Current
    BY DEF SmoothCurrent
  <2>1. \A t \in Threads : pc[t] \notin InRun \cup {"drain"}
    BY DEF MCInit, Init, Rest, InRun
  <2>2. Single /\ \A t \in Threads : ViewCurrent(t)
    BY <2>1 DEF Single, Running, ViewCurrent, InRun
  <2>3. CertCurrent /\ CaddyCurrent
    BY DEF MCInit, Init, CertCurrent, CaddyCurrent, Blank
  <2> QED BY <2>2, <2>3 DEF Current
<1>2. PlansFit /\ SmoothCurrent => SmoothQuietIsApplied
  BY CurrentAtRest DEF SmoothCurrent, SmoothQuietIsApplied
<1> QED BY <1>1, <1>2, SmoothStep, MCImplements, PlansAlways, PTL DEF MCSpec
=============================================================================
