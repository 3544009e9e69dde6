-------------------------- MODULE ObjectSyncProofs ---------------------------
(* Theorems of ObjectSync, for all objects, writers, manual runs, restarts *)
(* and failures, and of the two kinds of behaviour MCObjectSync checks.    *)
EXTENDS MCObjectSync, TLAPS

LEMMA VersionTyped ==
  ASSUME NEW n \in Nat, NEW f \in {"absent", "on", "off"}
  PROVE  [at |-> n, form |-> f] \in Version
BY DEF Version

LEMMA RestTyped ==
  /\ NoSnap \in [Objects -> Version]
  /\ NoNews \in [at : {"idle", "mark", "queue", "wake"}, obj : Objects]
  /\ \A t \in Threads : Rest(t) \in Points /\ Rest(t) \notin InRun
BY ConstantsAssumption, VersionTyped DEF NoSnap, Nothing, NoNews, Rest, Points, InRun

LEMMA TypeInit == Init => TypeOK
<1> SUFFICES ASSUME Init PROVE TypeOK
  OBVIOUS
<1>1. base \in [Objects -> Version] /\ caddy \in [Objects -> Version]
      /\ snap \in [Threads -> [Objects -> Version]]
  BY RestTyped DEF Init
<1>2. state \in [Objects -> State] /\ clock \in Nat /\ restarts \in Nat
  BY DEF Init, State
<1>3. notify \in [Writers -> [at : {"idle", "mark", "queue", "wake"}, obj : Objects]]
  BY RestTyped DEF Init
<1>4. pc \in [Threads -> Points]
  BY RestTyped DEF Init
<1>5. pending \subseteq Objects /\ wake \in 0..1
  BY DEF Init
<1>6. running \in BOOLEAN
  BY DEF Init
<1>7. good \in [Threads -> BOOLEAN]
  BY DEF Init
<1>8. todo \in [Threads -> SUBSET Routes]
  BY DEF Init
<1> QED BY <1>1, <1>2, <1>3, <1>4, <1>5, <1>6, <1>7, <1>8 DEF TypeOK

(* A write of the object API changes the store and the writer only. *)
StoreTyped ==
  /\ base \in [Objects -> Version]
  /\ state \in [Objects -> State]
  /\ clock \in Nat
  /\ notify \in [Writers -> [at : {"idle", "mark", "queue", "wake"}, obj : Objects]]

LEMMA AnnounceTyped ==
  ASSUME TypeOK, NEW w \in Writers, NEW o \in Objects, Announce(w, o)
  PROVE  /\ clock' = clock + 1 /\ clock' \in Nat
         /\ notify' \in [Writers -> [at : {"idle", "mark", "queue", "wake"}, obj : Objects]]
         /\ UNCHANGED <<queue, running, pc, locals, outside>>
BY DEF TypeOK, Announce

LEMMA WriteTyped ==
  ASSUME TypeOK, NEW w \in Writers, Write(w)
  PROVE  StoreTyped' /\ UNCHANGED <<queue, running, pc, locals, outside>>
<1>0. clock + 1 \in Nat
  BY DEF TypeOK
<1>1. \A f \in {"absent", "on", "off"} : Stamp(f) \in Version
  BY <1>0, VersionTyped DEF Stamp
<1> USE DEF TypeOK, StoreTyped
<1>2. \A o \in Objects : base[o].form \in {"absent", "on", "off"} /\ Forms(o) \subseteq {"on", "off"}
  BY DEF Version, Forms
<1>3. ASSUME NEW o \in Objects, NEW form \in Forms(o), Create(w, o, form) \/ Update(w, o, form)
      PROVE  StoreTyped' /\ UNCHANGED <<queue, running, pc, locals, outside>>
  <2>1. Stamp(form) \in Version
    BY <1>1, <1>2
  <2>2. base' \in [Objects -> Version]
    BY <1>3, <2>1 DEF Create, Update
  <2>3. state' \in [Objects -> State]
    BY <1>3 DEF Create, Update, State
  <2>4. Announce(w, o)
    BY <1>3 DEF Create, Update
  <2> QED BY <2>2, <2>3, <2>4, AnnounceTyped
<1>4. ASSUME NEW o \in Objects, NEW n \in Objects, NEW R, Rename(w, o, n, R)
      PROVE  StoreTyped' /\ UNCHANGED <<queue, running, pc, locals, outside>>
  <2>1. \A x \in Objects : Stamp(base[x].form) \in Version /\ Stamp("absent") \in Version
    BY <1>1, <1>2
  <2>2. base' \in [Objects -> Version]
    BY <1>4, <2>1 DEF Rename
  <2>3. state' \in [Objects -> State]
    BY <1>4 DEF Rename, State
  <2> QED BY <1>4, <2>2, <2>3, AnnounceTyped DEF Rename
<1>5. ASSUME NEW o \in Objects, NEW R, Delete(w, o, R)
      PROVE  StoreTyped' /\ UNCHANGED <<queue, running, pc, locals, outside>>
  <2>1. base' \in [Objects -> Version] /\ state' \in [Objects -> State]
    BY <1>1, <1>5 DEF Delete, State
  <2> QED BY <1>5, <2>1, AnnounceTyped DEF Delete
<1> QED BY <1>3, <1>4, <1>5 DEF Write

LEMMA TypeStep == TypeOK /\ [Next]_vars => TypeOK'
<1> SUFFICES ASSUME TypeOK, [Next]_vars PROVE TypeOK'
  OBVIOUS
<1> USE DEF TypeOK, store, queue, locals, outside
<1>1. ASSUME NEW w \in Writers, Write(w)
      PROVE  TypeOK'
  BY <1>1, WriteTyped DEF StoreTyped
<1>2. ASSUME NEW w \in Writers, MarkPending(w)
      PROVE  TypeOK'
  <2>1. CASE MarkState(w)
    BY <2>1 DEF MarkState, State
  <2>2. CASE Enqueue(w)
    BY <2>2 DEF Enqueue
  <2>3. CASE Wake(w)
    BY <2>3, RestTyped DEF Wake
  <2> QED BY <1>2, <2>1, <2>2, <2>3 DEF MarkPending
<1>3. CASE LoopStep
  <2>1. Loop \in Threads
    BY DEF Threads
  <2> QED BY <1>3, <2>1
          DEF LoopStep, ReceiveWake, DebounceEnds, DrainPending, Tick, GoTo, Points, InRun
<1>4. ASSUME NEW t \in Manual, SyncRequest(t)
      PROVE  TypeOK'
  BY <1>4 DEF SyncRequest, GoTo, Points, Threads
<1>5. ASSUME NEW t \in Threads, RunStep(t)
      PROVE  TypeOK'
  <2>1. CASE Enter(t)
    BY <2>1, RestTyped DEF Enter, GoTo, Points, InRun
  <2>2. CASE ReadRoutes(t)
    <3>1. [o \in Objects |-> IF o \in Routes THEN base[o] ELSE snap[t][o]] \in [Objects -> Version]
      OBVIOUS
    <3> QED BY <2>2, <3>1 DEF ReadRoutes, GoTo, Points, InRun
  <2>3. CASE ReadRest(t)
    <3>1. [o \in Objects |-> IF o \in Others THEN base[o] ELSE snap[t][o]] \in [Objects -> Version]
      OBVIOUS
    <3> QED BY <2>3, <3>1 DEF ReadRest, GoTo, Points, InRun
  <2>4. CASE ReadFails(t)
    BY <2>4 DEF ReadFails, GoTo, Points, InRun
  <2>5. CASE Check(t)
    BY <2>5, ZenonT(30) DEF Check, WriteBack, GoTo, Points, InRun
  <2>6. CASE Load(t)
    <3>1. PICK loaded \in BOOLEAN : WriteBack(t, loaded) /\ (caddy' = snap[t] \/ caddy' = caddy)
      BY <2>6 DEF Load
    <3>2. caddy' \in [Objects -> Version]
      BY <3>1
    <3>3. pc' \in [Threads -> Points] /\ good' \in [Threads -> BOOLEAN]
      BY <3>1 DEF WriteBack, GoTo, Points, InRun
    <3>4. todo' \in [Threads -> SUBSET Routes]
      BY <3>1 DEF WriteBack
    <3> QED BY <2>6, <3>2, <3>3, <3>4 DEF Load
  <2>7. ASSUME NEW r \in Routes, WriteStatus(t, r)
        PROVE  TypeOK'
    <3>1. Outcome(t, r) \in State /\ r \in Objects
      BY DEF Outcome, State, Objects
    <3> QED BY <2>7, <3>1 DEF WriteStatus
  <2>8. CASE StatusWritten(t)
    BY <2>8 DEF StatusWritten, GoTo, Points, InRun
  <2>9. CASE Finish(t)
    BY <2>9, RestTyped DEF Finish, GoTo
  <2> QED BY <1>5, <2>1, <2>2, <2>3, <2>4, <2>5, <2>6, <2>7, <2>8, <2>9 DEF RunStep
<1>6. CASE Crash
  <2>1. /\ pc' \in [Threads -> Points] /\ snap' \in [Threads -> [Objects -> Version]]
        /\ good' \in [Threads -> BOOLEAN] /\ todo' \in [Threads -> SUBSET Routes]
    BY <1>6, RestTyped DEF Crash, Restart
  <2>2. notify' \in [Writers -> [at : {"idle", "mark", "queue", "wake"}, obj : Objects]]
    BY <1>6, RestTyped DEF Crash
  <2>3. pending' \subseteq Objects /\ wake' \in 0..1 /\ restarts' \in Nat
    BY <1>6 DEF Crash
  <2>5. running' \in BOOLEAN
    BY <1>6 DEF Crash
  <2>4. UNCHANGED <<base, state, clock, caddy>>
    BY <1>6 DEF Crash
  <2> QED BY <2>1, <2>2, <2>3, <2>4, <2>5
<1>7. CASE UNCHANGED vars
  BY <1>7 DEF vars
<1> QED BY <1>1, <1>2, <1>3, <1>4, <1>5, <1>6, <1>7 DEF Next

(* TypeOK: the syncer and the goroutines stay well typed; in particular the *)
(* wake channel of MarkPending never holds more than one element.           *)
THEOREM TypeCorrect == Spec => []TypeOK
BY TypeInit, TypeStep, PTL DEF Spec

-----------------------------------------------------------------------------
(* One run at a time.  Inductive because running is set before the first   *)
(* step of a run and cleared with its last.                                *)
Guarded == OneRun /\ \A t \in Threads : pc[t] \in InRun => running

(* Every step but Enter, Finish and Crash keeps goroutines on their side   *)
(* of the guard.                                                           *)
KeepsSides ==
  /\ running' = running
  /\ \A t \in Threads : pc'[t] \in InRun => pc[t] \in InRun

LEMMA OtherStepsKeepSides ==
  ASSUME TypeOK, [Next]_vars,
         ~Crash, \A t \in Threads : ~Enter(t) /\ ~Finish(t)
  PROVE  KeepsSides
<1> USE DEF TypeOK, KeepsSides, InRun, store, queue, locals, outside
<1>1. ASSUME NEW w \in Writers, Write(w) \/ MarkPending(w)
      PROVE  KeepsSides
  BY <1>1, WriteTyped DEF MarkPending, MarkState, Enqueue, Wake
<1>2. CASE LoopStep
  BY <1>2 DEF LoopStep, ReceiveWake, DebounceEnds, DrainPending, Tick, GoTo
<1>3. ASSUME NEW t \in Manual, SyncRequest(t)
      PROVE  KeepsSides
  BY <1>3 DEF SyncRequest, GoTo
<1>4. ASSUME NEW t \in Threads, RunStep(t)
      PROVE  KeepsSides
  <2>1. CASE ReadRoutes(t) \/ ReadRest(t) \/ ReadFails(t) \/ StatusWritten(t)
    BY <2>1 DEF ReadRoutes, ReadRest, ReadFails, StatusWritten, GoTo
  <2>2. CASE Check(t) \/ Load(t)
    BY <2>2 DEF Check, Load, WriteBack, GoTo
  <2>3. CASE \E r \in Routes : WriteStatus(t, r)
    BY <2>3 DEF WriteStatus
  <2> QED BY <1>4, <2>1, <2>2, <2>3 DEF RunStep
<1>5. CASE UNCHANGED vars
  BY <1>5 DEF vars
<1> QED BY <1>1, <1>2, <1>3, <1>4, <1>5 DEF Next

LEMMA GuardedStep == TypeOK /\ Guarded /\ [Next]_vars => Guarded'
<1> SUFFICES ASSUME TypeOK, Guarded, [Next]_vars PROVE Guarded'
  OBVIOUS
<1> USE DEF Guarded, OneRun
<1>1. ASSUME NEW t \in Threads, Enter(t)
      PROVE  Guarded'
  <2>1. CASE running /\ GoTo(t, Rest(t)) /\ UNCHANGED <<pending, running>>
    <3>1. \A u \in Threads : pc'[u] \in InRun => pc[u] \in InRun
      BY <2>1, RestTyped DEF TypeOK, GoTo
    <3> QED BY <2>1, <3>1
  <2>2. CASE ~running /\ running' = TRUE /\ GoTo(t, "routes")
    <3>1. \A u \in Threads : pc'[u] \in InRun => u = t
      BY <2>2 DEF TypeOK, GoTo
    <3> QED BY <2>2, <3>1
  <2> QED BY <1>1, <2>1, <2>2 DEF Enter
<1>2. ASSUME NEW t \in Threads, Finish(t)
      PROVE  Guarded'
  <2>1. pc[t] \in InRun
    BY <1>2 DEF Finish, InRun
  <2>2. \A u \in Threads : pc'[u] \notin InRun
    BY <1>2, <2>1, RestTyped DEF Finish, GoTo, TypeOK
  <2> QED BY <2>2
<1>3. CASE Crash
  BY <1>3, RestTyped DEF Crash, Restart
<1>4. CASE KeepsSides
  BY <1>4 DEF KeepsSides
<1> QED BY <1>1, <1>2, <1>3, <1>4, OtherStepsKeepSides

LEMMA GuardedAlways == Spec => []Guarded
<1>1. Init => Guarded
  BY RestTyped DEF Init, Guarded, OneRun
<1> QED BY <1>1, TypeCorrect, GuardedStep, PTL DEF Spec

(* OneRun: Syncer.running keeps the loop, the periodic tick and manual      *)
(* requests from running the chain of SyncNow at the same time.             *)
THEOREM RunsExclude == Spec => []OneRun
<1>1. Guarded => OneRun
  BY DEF Guarded
<1> QED BY <1>1, GuardedAlways, PTL

-----------------------------------------------------------------------------
(* Caddy never goes back.  A snapshot lies between what Caddy runs and what *)
(* is stored, object by object, until it is loaded; nobody else can load in *)
(* the meantime.                                                            *)
Between(t, S) == \A o \in S : caddy[o].at <= snap[t][o].at /\ snap[t][o].at <= base[o].at

Ordered ==
  /\ \A o \in Objects : caddy[o].at <= base[o].at /\ base[o].at <= clock
  /\ \A t \in Threads :
       /\ pc[t] \in {"rest", "check", "load"} => Between(t, Routes)
       /\ pc[t] \in {"check", "load"} => Between(t, Others)

(* A write of the object API only makes versions newer. *)
LEMMA WritesMakeNewer ==
  ASSUME TypeOK, Ordered, NEW w \in Writers, Write(w)
  PROVE  \A o \in Objects : base[o].at <= base'[o].at /\ base'[o].at <= clock'
<1>0. clock \in Nat /\ \A o \in Objects : base[o].at \in Nat /\ base[o].at <= clock
  BY DEF TypeOK, Version, Ordered
<1>1. \A f : Stamp(f).at = clock + 1
  BY DEF Stamp
<1>2. clock' = clock + 1
  BY DEF Write, Create, Update, Rename, Delete, Announce
<1>3. \A o \in Objects : base'[o] = base[o] \/ \E f : base'[o] = Stamp(f)
  <2>1. ASSUME NEW x \in Objects, NEW form, Create(w, x, form) \/ Update(w, x, form)
        PROVE  \A o \in Objects : base'[o] = base[o] \/ \E f : base'[o] = Stamp(f)
    BY <2>1 DEF Create, Update, TypeOK
  <2>2. ASSUME NEW x \in Objects, NEW n \in Objects, NEW R, Rename(w, x, n, R)
        PROVE  \A o \in Objects : base'[o] = base[o] \/ \E f : base'[o] = Stamp(f)
    BY <2>2 DEF Rename
  <2>3. ASSUME NEW x \in Objects, NEW R, Delete(w, x, R)
        PROVE  \A o \in Objects : base'[o] = base[o] \/ \E f : base'[o] = Stamp(f)
    BY <2>3 DEF Delete
  <2> QED BY <2>1, <2>2, <2>3 DEF Write
<1> QED BY <1>0, <1>1, <1>2, <1>3

LEMMA AtIsNat ==
  ASSUME TypeOK
  PROVE  /\ \A o \in Objects : base[o].at \in Nat /\ caddy[o].at \in Nat
         /\ \A t \in Threads, o \in Objects : snap[t][o].at \in Nat
BY DEF TypeOK, Version

(* What a step of the loop, of MarkPending, of a refused run or of a run    *)
(* that neither reads nor loads leaves alone.                               *)
Idles ==
  /\ UNCHANGED <<base, clock, caddy>>
  /\ \A t \in Threads :
       pc'[t] \in {"rest", "check", "load"} => snap'[t] = snap[t] /\ pc[t] = pc'[t]

LEMMA OtherStepsIdle ==
  ASSUME TypeOK, [Next]_vars, \A w \in Writers : ~Write(w),
         \A t \in Threads : ~ReadRoutes(t) /\ ~ReadRest(t) /\ ~Check(t) /\ ~Load(t)
  PROVE  Idles
<1> USE DEF TypeOK, Idles, store, queue, locals, outside
<1>0. \A t \in Threads : Rest(t) \notin {"rest", "check", "load"}
  BY DEF Rest
<1>1. ASSUME NEW w \in Writers, MarkPending(w)
      PROVE  Idles
  BY <1>1 DEF MarkPending, MarkState, Enqueue, Wake
<1>2. CASE LoopStep
  BY <1>2 DEF LoopStep, ReceiveWake, DebounceEnds, DrainPending, Tick, GoTo
<1>3. ASSUME NEW t \in Manual, SyncRequest(t)
      PROVE  Idles
  BY <1>3 DEF SyncRequest, GoTo
<1>4. ASSUME NEW t \in Threads, RunStep(t)
      PROVE  Idles
  <2>1. CASE Enter(t)
    BY <1>0, <2>1 DEF Enter, GoTo
  <2>2. CASE ReadFails(t) \/ StatusWritten(t)
    BY <2>2 DEF ReadFails, StatusWritten, GoTo
  <2>3. CASE \E r \in Routes : WriteStatus(t, r)
    BY <2>3 DEF WriteStatus
  <2>4. CASE Finish(t)
    BY <1>0, <2>4 DEF Finish, GoTo
  <2> QED BY <1>4, <2>1, <2>2, <2>3, <2>4 DEF RunStep
<1>5. CASE Crash
  BY <1>0, <1>5 DEF Crash, Restart
<1>6. CASE UNCHANGED vars
  BY <1>6 DEF vars
<1> QED BY <1>1, <1>2, <1>3, <1>4, <1>5, <1>6 DEF Next

LEMMA OrderedStep ==
  TypeOK /\ Guarded /\ Ordered /\ [Next]_vars
    => Ordered' /\ \A o \in Objects : caddy'[o].at >= caddy[o].at
<1> SUFFICES ASSUME TypeOK, Guarded, Ordered, [Next]_vars
             PROVE  Ordered' /\ \A o \in Objects : caddy'[o].at >= caddy[o].at
  OBVIOUS
<1>0. /\ clock \in Nat
      /\ \A o \in Objects : base[o].at \in Nat /\ caddy[o].at \in Nat
      /\ \A t \in Threads, o \in Objects : snap[t][o].at \in Nat
      /\ Routes \subseteq Objects /\ Others \subseteq Objects
  BY AtIsNat DEF TypeOK, Objects
<1>1. ASSUME NEW w \in Writers, Write(w)
      PROVE  Ordered' /\ \A o \in Objects : caddy'[o].at >= caddy[o].at
  <2>1. \A o \in Objects : base[o].at <= base'[o].at /\ base'[o].at <= clock' /\ base'[o].at \in Nat
    BY <1>1, WritesMakeNewer, WriteTyped DEF StoreTyped, Version
  <2>2. UNCHANGED <<pc, snap, caddy>>
    BY <1>1, WriteTyped DEF locals, outside
  <2> QED BY <1>0, <2>1, <2>2 DEF Ordered, Between
<1>2. ASSUME NEW t \in Threads, ReadRoutes(t)
      PROVE  Ordered' /\ \A o \in Objects : caddy'[o].at >= caddy[o].at
  <2>1. /\ UNCHANGED <<base, clock, caddy>>
        /\ pc' = [pc EXCEPT ![t] = "rest"]
        /\ \A u \in Threads : u # t => snap'[u] = snap[u]
        /\ \A r \in Routes : snap'[t][r] = base[r]
    BY <1>0, <1>2 DEF ReadRoutes, GoTo, store, outside, TypeOK
  <2> QED BY <1>0, <2>1 DEF Ordered, Between, TypeOK
<1>3. ASSUME NEW t \in Threads, ReadRest(t)
      PROVE  Ordered' /\ \A o \in Objects : caddy'[o].at >= caddy[o].at
  <2>1. /\ UNCHANGED <<base, clock, caddy>>
        /\ pc' = [pc EXCEPT ![t] = "check"] /\ pc[t] = "rest"
        /\ \A u \in Threads : u # t => snap'[u] = snap[u]
        /\ \A r \in Routes : snap'[t][r] = snap[t][r]
        /\ \A o \in Others : snap'[t][o] = base[o]
    BY <1>0, <1>3, ConstantsAssumption DEF ReadRest, GoTo, store, outside, TypeOK
  <2> QED BY <1>0, <2>1 DEF Ordered, Between, TypeOK
<1>4. ASSUME NEW t \in Threads, Check(t)
      PROVE  Ordered' /\ \A o \in Objects : caddy'[o].at >= caddy[o].at
  <2>1. /\ UNCHANGED <<base, clock, caddy, snap>>
        /\ pc[t] = "check"
        /\ pc' = [pc EXCEPT ![t] = "load"] \/ pc' = [pc EXCEPT ![t] = "status"]
    BY <1>4 DEF Check, WriteBack, GoTo, store, outside
  <2>2. \A u \in Threads :
          /\ pc'[u] \in {"rest", "check", "load"} => pc[u] \in {"rest", "check", "load"}
          /\ pc'[u] \in {"check", "load"} => pc[u] \in {"check", "load"}
    BY <2>1 DEF TypeOK
  <2>3. \A S : \A u \in Threads : Between(u, S) => Between(u, S)'
    BY <2>1 DEF Between
  <2> QED BY <1>0, <2>1, <2>2, <2>3 DEF Ordered
<1>5. ASSUME NEW t \in Threads, Load(t)
      PROVE  Ordered' /\ \A o \in Objects : caddy'[o].at >= caddy[o].at
  <2>1. /\ UNCHANGED <<base, clock, snap>>
        /\ pc[t] = "load"
        /\ pc' = [pc EXCEPT ![t] = "status"]
        /\ caddy' = snap[t] \/ caddy' = caddy
    BY <1>5 DEF Load, WriteBack, GoTo, store
  <2>2. Between(t, Routes) /\ Between(t, Others)
    BY <2>1 DEF Ordered
  <2>3. \A o \in Objects : caddy[o].at <= caddy'[o].at /\ caddy'[o].at <= base[o].at
    BY <1>0, <2>1, <2>2 DEF Between, Objects, Ordered
  <2>4. \A u \in Threads : pc'[u] \notin {"rest", "check", "load"}
    BY <2>1 DEF Guarded, OneRun, InRun, TypeOK
  <2> QED BY <1>0, <2>1, <2>3, <2>4 DEF Ordered
<1>6. CASE Idles
  BY <1>0, <1>6 DEF Idles, Ordered, Between
<1> QED BY <1>1, <1>2, <1>3, <1>4, <1>5, <1>6, OtherStepsIdle

(* CaddyMovesForward: a load of execute never brings back an older version  *)
(* of an object, whatever the order of saves, runs, failures and restarts.  *)
THEOREM LoadsMoveForward == Spec => CaddyMovesForward
<1>1. Init => Ordered
  BY DEF Init, Ordered, NoSnap, Nothing, Rest
<1>2. TypeOK /\ Guarded /\ Ordered /\ [Next]_vars
        => Ordered' /\ [\A o \in Objects : caddy'[o].at >= caddy[o].at]_vars
  BY OrderedStep
<1> QED BY <1>1, <1>2, TypeCorrect, GuardedAlways, PTL DEF Spec, CaddyMovesForward

-----------------------------------------------------------------------------
(* What settles is served.  A save makes the syncer dirty until a run takes *)
(* the queue; a run that is under way while nothing is dirty works on what  *)
(* is stored, and leaves Caddy and the statuses in agreement with it.       *)

Dirty == pending # {} \/ \E w \in Writers : notify[w].at \in {"mark", "queue"}

(* The routes outside T show the outcome of a run that worked on base. *)
Shown(loaded, T) ==
  \A r \in Routes \ T : base[r].form # "absent" =>
    state[r] = IF ~loaded THEN "error"
               ELSE IF base[r].form = "off" THEN "disabled" ELSE "applied"
Served(loaded, T) ==
  /\ Shown(loaded, T)
  /\ loaded => \A o \in Objects : caddy[o] = base[o]
Fresh(t, S) == \A o \in S : snap[t][o] = base[o]

RunUpToDate(t) ==
  /\ pc[t] = "rest" => Fresh(t, Routes)
  /\ pc[t] \in {"check", "load", "status"} => Fresh(t, Objects)
  /\ pc[t] = "status" => Served(good[t], todo[t])
  /\ pc[t] = "save" => \E loaded \in BOOLEAN : Served(loaded, {})

UpToDate ==
  /\ ~Dirty => \A t \in Threads : RunUpToDate(t)
  /\ ~Dirty /\ ~running => \E loaded \in BOOLEAN : Served(loaded, {})

RunsHeld == running => \E t \in Threads : pc[t] \in InRun

LEMMA SettledFromUpToDate ==
  ASSUME TypeOK, UpToDate
  PROVE  SettledIsServed
<1> SUFFICES ASSUME Settled, live \cap Routes # {},
                    \A r \in live \cap Routes : state[r] # "error"
             PROVE  /\ \A o \in Objects : caddy[o] = base[o]
                    /\ \A r \in live \cap Routes :
                         state[r] = IF base[r].form = "on" THEN "applied" ELSE "disabled"
  BY DEF SettledIsServed
<1>1. ~Dirty /\ ~running
  BY DEF Settled, Dirty
<1>2. PICK loaded \in BOOLEAN : Served(loaded, {})
  BY <1>1 DEF UpToDate
<1>3. PICK r \in live \cap Routes : TRUE
  OBVIOUS
<1>4. loaded
  BY <1>2, <1>3 DEF Served, Shown, live
<1>5. \A x \in Objects : base[x].form \in {"absent", "on", "off"}
  BY DEF TypeOK, Version
<1> QED BY <1>2, <1>4, <1>5 DEF Served, Shown, live

LEMMA RunsHeldStep == TypeOK /\ RunsHeld /\ [Next]_vars => RunsHeld'
<1> SUFFICES ASSUME TypeOK, RunsHeld, [Next]_vars, running' PROVE \E t \in Threads : pc'[t] \in InRun
  BY DEF RunsHeld
<1> USE DEF TypeOK, RunsHeld, InRun, store, queue, locals, outside
<1>1. ASSUME NEW w \in Writers, Write(w) \/ MarkPending(w)
      PROVE  \E t \in Threads : pc'[t] \in InRun
  BY <1>1, WriteTyped DEF MarkPending, MarkState, Enqueue, Wake
<1>2. CASE LoopStep
  BY <1>2 DEF LoopStep, ReceiveWake, DebounceEnds, DrainPending, Tick, GoTo
<1>3. ASSUME NEW t \in Manual, SyncRequest(t)
      PROVE  \E u \in Threads : pc'[u] \in InRun
  BY <1>3 DEF SyncRequest, GoTo
<1>4. ASSUME NEW t \in Threads, RunStep(t)
      PROVE  \E u \in Threads : pc'[u] \in InRun
  <2>1. CASE Enter(t)
    BY <2>1 DEF Enter, GoTo
  <2>2. CASE ReadRoutes(t) \/ ReadRest(t) \/ ReadFails(t) \/ StatusWritten(t)
    BY <2>2 DEF ReadRoutes, ReadRest, ReadFails, StatusWritten, GoTo
  <2>3. CASE Check(t) \/ Load(t)
    BY <2>3 DEF Check, Load, WriteBack, GoTo
  <2>4. CASE \E r \in Routes : WriteStatus(t, r)
    BY <2>4 DEF WriteStatus
  <2>5. CASE Finish(t)
    BY <2>5 DEF Finish
  <2> QED BY <1>4, <2>1, <2>2, <2>3, <2>4, <2>5 DEF RunStep
<1>5. CASE Crash
  BY <1>5 DEF Crash
<1>6. CASE UNCHANGED vars
  BY <1>6 DEF vars
<1> QED BY <1>1, <1>2, <1>3, <1>4, <1>5, <1>6 DEF Next

(* Steps that change neither the store, Caddy nor a run, and do not clean. *)
Harmless ==
  /\ UNCHANGED <<base, state, caddy, running, locals>>
  /\ ~Dirty' => ~Dirty
  /\ \A t \in Threads : pc'[t] \in InRun => pc'[t] = pc[t]

LEMMA HarmlessStep ==
  ASSUME TypeOK, UpToDate, Harmless
  PROVE  UpToDate'
<1>1. \A T, loaded : Served(loaded, T) => Served(loaded, T)'
  BY DEF Served, Shown, Harmless
<1>2. \A S : \A t \in Threads : Fresh(t, S) => Fresh(t, S)'
  BY DEF Fresh, Harmless, locals
<1>3. ASSUME ~Dirty', NEW t \in Threads
      PROVE  RunUpToDate(t)'
  <2>1. RunUpToDate(t)
    BY <1>3 DEF UpToDate, Harmless
  <2>2. good' = good /\ todo' = todo /\ (pc'[t] \in InRun => pc'[t] = pc[t])
    BY DEF Harmless, locals
  <2> QED BY <1>1, <1>2, <2>1, <2>2 DEF RunUpToDate, InRun
<1> QED BY <1>1, <1>3 DEF UpToDate, Harmless

LEMMA UpToDateStep ==
  ASSUME TypeOK, Guarded, RunsHeld, UpToDate, [Next]_vars,
         ~Crash, \A t \in Threads : ~ReadFails(t)
  PROVE  UpToDate'
<1> USE DEF store, queue, locals, outside
<1>1. ASSUME NEW w \in Writers, Write(w)
      PROVE  UpToDate'
  <2>1. notify'[w].at = "mark"
    BY <1>1 DEF Write, Create, Update, Rename, Delete, Announce, TypeOK
  <2> QED BY <2>1 DEF UpToDate, Dirty
<1>2. ASSUME NEW w \in Writers, MarkPending(w)
      PROVE  UpToDate'
  <2>1. CASE MarkState(w)
    <3>1. notify'[w].at = "queue"
      BY <2>1 DEF MarkState, TypeOK
    <3> QED BY <3>1 DEF UpToDate, Dirty
  <2>2. CASE Enqueue(w)
    <3>1. pending' # {}
      BY <2>2 DEF Enqueue
    <3> QED BY <3>1 DEF UpToDate, Dirty
  <2>3. CASE Wake(w)
    <3>1. Harmless
      BY <2>3 DEF Wake, Harmless, Dirty, TypeOK
    <3> QED BY <3>1, HarmlessStep
  <2> QED BY <1>2, <2>1, <2>2, <2>3 DEF MarkPending
<1>3. CASE LoopStep
  <2>1. Harmless
    BY <1>3 DEF LoopStep, ReceiveWake, DebounceEnds, DrainPending, Tick, GoTo, Harmless, Dirty, InRun, TypeOK
  <2> QED BY <2>1, HarmlessStep
<1>4. ASSUME NEW t \in Manual, SyncRequest(t)
      PROVE  UpToDate'
  <2>1. Harmless
    BY <1>4 DEF SyncRequest, GoTo, Harmless, Dirty, InRun, TypeOK
  <2> QED BY <2>1, HarmlessStep
<1>5. ASSUME NEW t \in Threads, RunStep(t)
      PROVE  UpToDate'
  <2>0. ASSUME pc[t] \in InRun
        PROVE  running /\ \A u \in Threads : pc[u] \in InRun => u = t
    BY <2>0 DEF Guarded, OneRun
  <2>1. CASE Enter(t)
    <3>1. CASE running /\ GoTo(t, Rest(t)) /\ UNCHANGED <<pending, running>>
      <4>1. Harmless
        BY <2>1, <3>1, RestTyped DEF Enter, GoTo, Harmless, Dirty, TypeOK
      <4> QED BY <4>1, HarmlessStep
    <3>2. CASE ~running /\ running' = TRUE /\ GoTo(t, "routes")
      <4>1. \A u \in Threads : pc'[u] \in InRun => pc'[u] = "routes"
        BY <3>2 DEF GoTo, TypeOK, Guarded
      <4> QED BY <3>2, <4>1 DEF UpToDate, RunUpToDate, InRun
    <3> QED BY <2>1, <3>1, <3>2 DEF Enter
  <2>2. CASE ReadRoutes(t)
    <3>1. pc[t] \in InRun /\ UNCHANGED <<base, running>> /\ pc' = [pc EXCEPT ![t] = "rest"]
          /\ \A r \in Routes : snap'[t][r] = base[r]
      BY <2>2 DEF ReadRoutes, GoTo, InRun, TypeOK, Objects
    <3>2. \A u \in Threads \ {t} : pc'[u] \notin InRun
      BY <2>0, <3>1 DEF TypeOK
    <3> QED BY <2>0, <3>1, <3>2 DEF UpToDate, RunUpToDate, InRun, Fresh, TypeOK
  <2>3. CASE ReadRest(t)
    <3>1. pc[t] = "rest" /\ base' = base /\ UNCHANGED <<running, pending, notify>>
          /\ pc' = [pc EXCEPT ![t] = "check"]
          /\ \A r \in Routes : snap'[t][r] = snap[t][r]
      BY <2>3, ConstantsAssumption DEF ReadRest, GoTo, TypeOK, Objects
    <3>0. base' = base /\ \A o \in Others : snap'[t][o] = base'[o]
      BY <2>3, ConstantsAssumption DEF ReadRest, GoTo, TypeOK, Objects, store
    <3>2. \A u \in Threads \ {t} : pc'[u] \notin InRun
      BY <2>0, <3>1 DEF TypeOK, InRun
    <3>3. ASSUME ~Dirty'
          PROVE  Fresh(t, Objects)'
      <4>1. ~Dirty
        BY <3>1, <3>3 DEF Dirty
      <4>2. Fresh(t, Routes)
        BY <3>1, <4>1 DEF UpToDate, RunUpToDate
      <4>3. ASSUME NEW r \in Routes PROVE snap'[t][r] = base'[r]
        BY <3>0, <3>1, <4>2, <4>3 DEF Fresh
      <4>4. ASSUME NEW o \in Others PROVE snap'[t][o] = base'[o]
        BY <3>0, <4>4
      <4> QED BY <4>3, <4>4 DEF Fresh, Objects
    <3> QED BY <2>0, <3>1, <3>2, <3>3 DEF UpToDate, RunUpToDate, InRun, TypeOK
  <2>4. CASE ReadFails(t)
    BY <2>4
  <2>5. ASSUME NEW loaded \in BOOLEAN, WriteBack(t, loaded), pc[t] \in {"check", "load"},
               UNCHANGED <<base, state, running, pending, notify, snap>>,
               loaded => caddy' = snap[t]
        PROVE  UpToDate'
    <3>1. \A u \in Threads \ {t} : pc'[u] \notin InRun
      BY <2>0, <2>5 DEF TypeOK, InRun, WriteBack, GoTo
    <3>2. pc'[t] = "status" /\ good'[t] = loaded
          /\ todo'[t] = {r \in Routes : snap[t][r].form # "absent"} /\ running'
      BY <2>0, <2>5 DEF WriteBack, GoTo, TypeOK, InRun
    <3>3. ASSUME ~Dirty'
          PROVE  Fresh(t, Objects)' /\ Served(good[t], todo[t])'
      <4>1. Fresh(t, Objects) /\ base' = base /\ snap' = snap
        BY <2>5, <3>3 DEF UpToDate, RunUpToDate, Dirty
      <4>2. \A r \in Routes \ todo'[t] : base'[r].form = "absent"
        BY <3>2, <4>1 DEF Fresh, Objects
      <4>3. loaded => \A o \in Objects : caddy'[o] = base'[o]
        BY <2>5, <4>1 DEF Fresh
      <4> QED BY <3>2, <4>1, <4>2, <4>3 DEF Fresh, Served, Shown
    <3> QED BY <3>1, <3>2, <3>3 DEF UpToDate, RunUpToDate, InRun
  <2>6. CASE Check(t)
    <3>1. CASE WriteBack(t, FALSE)
      BY <2>5, <2>6, <3>1 DEF Check
    <3>2. CASE GoTo(t, "load") /\ UNCHANGED <<good, todo>>
      <4>1. \A u \in Threads \ {t} : pc'[u] \notin InRun
        BY <2>0, <2>6, <3>2 DEF Check, TypeOK, InRun, GoTo
      <4>2. pc[t] = "check" /\ pc'[t] = "load" /\ running'
            /\ UNCHANGED <<base, snap, pending, notify>>
        BY <2>0, <2>6, <3>2 DEF Check, GoTo, TypeOK, InRun
      <4>3. ASSUME ~Dirty'
            PROVE  Fresh(t, Objects)'
        <5>1. ~Dirty
          BY <4>2, <4>3 DEF Dirty
        <5>2. Fresh(t, Objects)
          BY <4>2, <5>1 DEF UpToDate, RunUpToDate
        <5> QED BY <4>2, <5>2 DEF Fresh
      <4> QED BY <4>1, <4>2, <4>3 DEF UpToDate, RunUpToDate, InRun
    <3> QED BY <2>6, <3>1, <3>2 DEF Check
  <2>7. CASE Load(t)
    <3>1. pc[t] = "load" /\ UNCHANGED <<base, state, running, pending, notify, snap>>
      BY <2>7 DEF Load
    <3>2. CASE caddy' = snap[t] /\ WriteBack(t, TRUE)
      BY <2>5, <3>1, <3>2
    <3>3. CASE WriteBack(t, FALSE)
      BY <2>5, <3>1, <3>3
    <3> QED BY <2>7, <3>2, <3>3 DEF Load
  <2>8. ASSUME NEW r \in Routes, WriteStatus(t, r)
        PROVE  UpToDate'
    <3>1. /\ pc[t] = "status" /\ pc' = pc /\ running' /\ r \in todo[t]
          /\ UNCHANGED <<base, snap, good, caddy, pending, notify>>
          /\ todo'[t] = todo[t] \ {r}
      BY <2>0, <2>8 DEF WriteStatus, TypeOK, InRun
    <3>2. \A u \in Threads \ {t} : pc'[u] \notin InRun
      BY <2>0, <3>1 DEF InRun
    <3>3. ASSUME ~Dirty'
          PROVE  Fresh(t, Objects)' /\ Served(good[t], todo[t])'
      <4>1. Fresh(t, Objects) /\ Served(good[t], todo[t])
        BY <3>1, <3>3 DEF UpToDate, RunUpToDate, Dirty
      <4>2. \A x \in Routes \ {r} : state'[x] = state[x]
        BY <2>8 DEF WriteStatus, TypeOK
      <4>3. r \in Objects /\ snap[t][r] = base[r]
        BY <4>1 DEF Fresh, Objects
      <4>4. base[r].form # "absent" => state'[r] = Outcome(t, r)
        BY <2>8, <4>3 DEF WriteStatus, live, TypeOK
      <4>5. Shown(good[t], todo[t])'
        BY <3>1, <4>1, <4>2, <4>3, <4>4 DEF Served, Shown, Outcome
      <4> QED BY <3>1, <4>1, <4>5 DEF Fresh, Served
    <3> QED BY <3>1, <3>2, <3>3 DEF UpToDate, RunUpToDate, InRun
  <2>9. CASE StatusWritten(t)
    <3>1. /\ pc[t] = "status" /\ pc'[t] = "save" /\ running' /\ todo[t] = {}
          /\ UNCHANGED <<base, state, caddy, pending, notify>>
          /\ good[t] \in BOOLEAN
      BY <2>0, <2>9 DEF StatusWritten, GoTo, TypeOK, InRun
    <3>2. \A u \in Threads \ {t} : pc'[u] \notin InRun
      BY <2>0, <2>9, <3>1 DEF StatusWritten, GoTo, TypeOK, InRun
    <3>3. ASSUME ~Dirty'
          PROVE  Served(good[t], {})' 
      <4>1. Served(good[t], {})
        BY <3>1, <3>3 DEF UpToDate, RunUpToDate, Dirty
      <4>2. good' = good
        BY <2>9 DEF StatusWritten
      <4> QED BY <3>1, <4>1, <4>2 DEF Served, Shown
    <3>4. ~Dirty' => \E loaded \in BOOLEAN : Served(loaded, {})'
      <4>1. good'[t] \in BOOLEAN
        BY <2>9, <3>1 DEF StatusWritten
      <4> QED BY <3>3, <4>1
    <3> QED BY <3>1, <3>2, <3>4 DEF UpToDate, RunUpToDate, InRun
  <2>10. CASE Finish(t)
    <3>1. /\ pc[t] = "save" /\ pc'[t] = Rest(t)
          /\ UNCHANGED <<base, state, caddy, pending, notify>>
      BY <2>10 DEF Finish, GoTo, TypeOK
    <3>2. \A u \in Threads : pc'[u] \notin InRun
      BY <2>0, <2>10, <3>1, RestTyped DEF Finish, GoTo, TypeOK, InRun
    <3>3. ASSUME ~Dirty'
          PROVE  \E loaded \in BOOLEAN : Served(loaded, {})'
      <4>1. PICK loaded \in BOOLEAN : Served(loaded, {})
        BY <3>1, <3>3 DEF UpToDate, RunUpToDate, Dirty
      <4>2. Served(loaded, {})'
        BY <3>1, <4>1 DEF Served, Shown
      <4> QED BY <4>2
    <3> QED BY <3>2, <3>3 DEF UpToDate, RunUpToDate, InRun
  <2> QED BY <1>5, <2>1, <2>2, <2>3, <2>4, <2>6, <2>7, <2>8, <2>9, <2>10 DEF RunStep
<1>6. CASE Crash
  BY <1>6
<1>7. CASE UNCHANGED vars
  <2>1. Harmless
    BY <1>7 DEF vars, Harmless, Dirty
  <2> QED BY <2>1, HarmlessStep
<1> QED BY <1>1, <1>2, <1>3, <1>4, <1>5, <1>6, <1>7 DEF Next

LEMMA UpToDateInit == Init => UpToDate /\ RunsHeld
<1> SUFFICES ASSUME Init PROVE UpToDate /\ RunsHeld
  OBVIOUS
<1>1. Served(TRUE, {})
  BY DEF Init, Served, Shown, NoSnap, Nothing, Objects
<1>2. \A t \in Threads : pc[t] \notin InRun
  BY RestTyped DEF Init
<1> QED BY <1>1, <1>2 DEF Init, UpToDate, RunUpToDate, RunsHeld, InRun

(* SettledIsServed, for a process that is not restarted and reads its own   *)
(* store: whatever the number of writers, manual runs and failing renders,  *)
(* validations and loads, once nothing is announced, queued or under way,   *)
(* Caddy runs what is stored or every route says that it does not.          *)
THEOREM SettledServed ==
  ASSUME ReadsFail = FALSE, MaxRestarts = 0
  PROVE  Spec => []SettledIsServed
<1>1. TypeOK /\ Guarded /\ RunsHeld /\ UpToDate /\ [Next]_vars => UpToDate' /\ RunsHeld'
  <2>1. TypeOK => ~Crash /\ \A t \in Threads : ~ReadFails(t)
    BY DEF TypeOK, Crash, ReadFails
  <2> QED BY <2>1, UpToDateStep, RunsHeldStep
<1>2. TypeOK /\ UpToDate => SettledIsServed
  BY SettledFromUpToDate
<1> QED BY <1>1, <1>2, UpToDateInit, TypeCorrect, GuardedAlways, PTL DEF Spec

-----------------------------------------------------------------------------
(* The behaviours a run checks: those of the loop alone are behaviours of a *)
(* process that is allowed restarts, ticks and failing reads and meets none.*)
LEMMA MCImplements == MCSpec => Spec
<1>1. MCInit => Init
  BY DEF MCInit
<1>2. [MCNext]_<<vars, part>> => [Next]_vars
  BY DEF MCNext
<1> QED BY <1>1, <1>2, PTL DEF MCSpec, Spec

AloneUpToDate == part = "alone" => UpToDate

(* AloneSettledIsServed: of the loop alone, whatever the objects and the    *)
(* number of writers and writes, whenever every save is announced and no    *)
(* run is queued or under way Caddy runs what is stored, or the routes say  *)
(* that the run failed.                                                     *)
THEOREM AloneSettledServed == MCSpec => []AloneSettledIsServed
<1>1. MCInit => AloneUpToDate /\ RunsHeld
  BY UpToDateInit DEF MCInit, AloneUpToDate
<1>2. TypeOK /\ Guarded /\ RunsHeld /\ AloneUpToDate /\ [MCNext]_<<vars, part>>
        => AloneUpToDate' /\ RunsHeld'
  <2> SUFFICES ASSUME TypeOK, Guarded, RunsHeld, AloneUpToDate, [MCNext]_<<vars, part>>
               PROVE  AloneUpToDate' /\ RunsHeld'
    OBVIOUS
  <2>1. [Next]_vars /\ part' = part
    BY DEF MCNext
  <2>2. CASE part = "alone"
    <3>1. CASE MCNext
      <4>1. ~Crash /\ \A t \in Threads : ~ReadFails(t)
        BY <2>2, <3>1 DEF MCNext, Crash, TypeOK
      <4> QED BY <2>1, <2>2, <4>1, UpToDateStep, RunsHeldStep DEF AloneUpToDate
    <3>2. CASE UNCHANGED vars
      <4>1. Harmless
        BY <3>2 DEF vars, Harmless, Dirty, locals
      <4> QED BY <2>1, <2>2, <4>1, HarmlessStep, RunsHeldStep DEF AloneUpToDate
    <3> QED BY <3>1, <3>2
  <2>3. CASE part # "alone"
    BY <2>1, <2>3, RunsHeldStep DEF AloneUpToDate
  <2> QED BY <2>2, <2>3
<1>3. TypeOK /\ AloneUpToDate => AloneSettledIsServed
  BY SettledFromUpToDate DEF AloneUpToDate, AloneSettledIsServed
<1> QED BY <1>1, <1>2, <1>3, MCImplements, TypeCorrect, GuardedAlways, PTL DEF MCSpec
=============================================================================
