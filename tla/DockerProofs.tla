----------------------------- MODULE DockerProofs -----------------------------
(* What holds of projects and containers for any numbers of them, of images, of
   goroutines and of requests: the types, and the three properties of the run. *)
EXTENDS MCDocker, TLAPS, FiniteSetTheorems

-----------------------------------------------------------------------------
(* Types. What a request has in hand depends on where it is. *)
Projecting == {"idle", "known", "save", "register", "write", "record", "lock", "read", "up",
               "deployed", "forget"}
Upgrading  == {"pull", "stop", "create", "remove", "rename", "start", "ended"}
Containing == Upgrading \cup {"converting", "converted"}
Holding    == {"write", "record", "lock", "read", "up", "deployed"}
Opt(T) == T \cup {Nothing}
Ops == [at : Projecting \cup Containing, proj : Opt(Projects), rec : Opt(Records),
        yaml : Opt(Yamls), found : Opt([Projects -> Opt(Made)]),
        known : Opt([Projects -> Opt(Records)]), todo : SUBSET (Projects \cup {"data", "volumes"}),
        name : Opt(Names), det : Opt(Containers), new : Opt(Names \X Nat)]
Shaped(o) ==
    /\ o \in Ops
    /\ o.at \in Holding => o.rec \in Records /\ o.proj \in Projects
    /\ o.at = "forget" => o.proj \in Projects
    /\ o.at \in {"known", "save", "register"} => o.found \in [Projects -> Opt(Made)]
    /\ o.at = "save" => /\ o.known \in [Projects -> Opt(Records)] /\ o.todo \subseteq Projects
                        /\ \A p \in o.todo : o.found[p] # Nothing \/ o.known[p] # Nothing
    /\ o.at = "register" => o.todo \subseteq Projects
    /\ o.at \in Containing => o.name \in Names /\ o.det \in Containers
    /\ o.at \in {"converting", "converted"} => o.proj \in Projects
    /\ o.at \in {"remove", "rename", "start"} => o.new \in Names \X Nat
Stated ==
    /\ rec \in [Projects -> Opt(Records)]
    /\ disk \in [Projects -> [own : Opt(Yamls), ext : Opt(Yamls)]]
    /\ up \in [Projects -> Opt(Made)]
    /\ ctr \in [Slots -> Opt(Containers)]
    /\ serial \in Nat /\ image \in [there : Nat, here : Nat] /\ syncs \in Nat
Asked == task \in [Handlers -> Ops] /\ \A t \in Handlers : Shaped(task[t])
Marked == dropped \subseteq Names /\ rough \subseteq Handlers /\ loose \in BOOLEAN
Typed == Stated /\ Asked /\ Marked

LEMMA IdleShaped == Shaped(NoTask)
<1>1. NoTask \in Ops
  BY DEF NoTask, Ops, Opt, Projecting
<1> QED
  BY <1>1 DEF NoTask, Shaped, Holding, Containing, Upgrading

LEMMA OpMoves ==
  ASSUME Asked, NEW t \in Handlers, NEW o, Shaped(o), task' = [task EXCEPT ![t] = o]
  PROVE  Asked'
<1>1. o \in Ops
  BY DEF Shaped
<1>2. \A u \in Handlers : task'[u] = IF u = t THEN o ELSE task[u]
  BY DEF Asked
<1>3. \A u \in Handlers : Shaped(task'[u])
  BY <1>2 DEF Asked
<1>4. task' \in [Handlers -> Ops]
  BY <1>1 DEF Asked
<1> QED
  BY <1>3, <1>4 DEF Asked

LEMMA OpEnds == ASSUME Asked, NEW t \in Handlers, Done(t) PROVE Asked'
BY IdleShaped, OpMoves DEF Done

LEMMA RecordIs ==
  ASSUME NEW managed \in BOOLEAN, NEW editable \in BOOLEAN, NEW files \in Placements
  PROVE  Record(managed, editable, files) \in Records /\ Record(managed, editable, files).last = Nothing
BY DEF Record, Records

LEMMA ListedIs ==
  ASSUME NEW found \in Opt(Made), NEW known \in Opt(Records), found # Nothing \/ known # Nothing
  PROVE  /\ Listed(found, known) \in Records
         /\ Listed(found, known).last = IF known = Nothing THEN Nothing ELSE known.last
<1>1. CASE found # Nothing
  <2>1. found.files \in Placements
    BY <1>1 DEF Opt, Made
  <2>2. ASSUME NEW r \in Records, NEW b \in BOOLEAN
        PROVE  [r EXCEPT !.editable = b] \in Records /\ [r EXCEPT !.editable = b].last = r.last
    BY DEF Records
  <2>3. isManagedConfig(found.files) \in BOOLEAN
        /\ \A m, e \in BOOLEAN : composeEditable(m, e, found.files) \in BOOLEAN
    BY DEF isManagedConfig, composeEditable
  <2> DEFINE r == IF known = Nothing
                  THEN Record(isManagedConfig(found.files), FALSE, found.files)
                  ELSE [known EXCEPT !.files = found.files]
  <2>4. r \in Records /\ r.last = IF known = Nothing THEN Nothing ELSE known.last
    <3>1. CASE known = Nothing
      BY <2>1, <2>3, <3>1, RecordIs
    <3>2. CASE known # Nothing
      BY <2>1, <3>2 DEF Opt, Records
    <3> QED
      BY <3>1, <3>2
  <2>5. Listed(found, known)
          = [r EXCEPT !.editable = composeEditable(r.managed, r.editable, found.files)]
    BY <1>1 DEF Listed
  <2> HIDE DEF r
  <2>6. r.managed \in BOOLEAN /\ r.editable \in BOOLEAN
    BY <2>4 DEF Records
  <2> QED
    BY <2>2, <2>3, <2>4, <2>5, <2>6
<1>2. CASE found = Nothing
  <2>1. Listed(found, known) = [known EXCEPT !.editable = known.managed \/ @]
    BY <1>2 DEF Listed
  <2>2. known \in Records
    BY <1>2 DEF Opt
  <2>3. known # Nothing
    BY <2>2, NothingAssumption
  <2> QED
    BY <2>1, <2>2, <2>3 DEF Records
<1> QED
  BY <1>1, <1>2

LEMMA ListingTyped ==
  ASSUME Stated, Asked, NEW t \in Handlers, Listing(t)
  PROVE  Stated' /\ Asked'
<1>0. Shaped(task[t])
  BY DEF Asked
<1>1. CASE List(t)
  <2> DEFINE o == [NoTask EXCEPT !.at = "known", !.found = up]
  <2>1. Shaped(o)
    BY IdleShaped DEF Stated, Shaped, NoTask, Ops, Opt, Projecting, Holding, Containing, Upgrading
  <2> HIDE DEF o
  <2> QED
    BY <1>1, <2>1, OpMoves DEF List, Accept, Stated, docker, o
<1>2. CASE ListKnown(t)
  <2> DEFINE todo == {p \in Projects : task[t].found[p] # Nothing \/ Known(p)}
             o == [task[t] EXCEPT !.at = "save", !.known = rec, !.todo = todo]
  <2>1. Shaped(o)
    BY <1>0, <1>2, ZenonT(30) DEF ListKnown, At, Known, Stated, Shaped, Ops, Opt, Projecting, Holding,
       Containing, Upgrading
  <2>2. task' = [task EXCEPT ![t] = o]
    BY <1>2 DEF ListKnown, Asked
  <2> HIDE DEF o
  <2> QED
    BY <1>2, <2>1, <2>2, OpMoves DEF ListKnown, Stated, docker
<1>3. CASE ListSave(t)
  <2>1. PICK p \in task[t].todo :
          /\ rec' = IF task[t].found[p] # Nothing \/ task[t].known[p].managed
                    THEN [rec EXCEPT ![p] = Listed(task[t].found[p], task[t].known[p])]
                    ELSE rec
          /\ task' = [task EXCEPT ![t].todo = @ \ {p}]
    BY <1>3 DEF ListSave
  <2> DEFINE o == [task[t] EXCEPT !.todo = @ \ {p}]
  <2>2. task[t].at = "save" /\ p \in Projects
    BY <1>0, <1>3 DEF ListSave, At, Shaped
  <2>3. Shaped(o)
    BY <1>0, <2>2 DEF Shaped, Ops, Holding, Containing, Upgrading
  <2>4. task' = [task EXCEPT ![t] = o]
    BY <2>1 DEF Asked
  <2> HIDE DEF o
  <2>5. Listed(task[t].found[p], task[t].known[p]) \in Records
    BY <1>0, <2>1, <2>2, ListedIs DEF Shaped
  <2>6. rec' \in [Projects -> Opt(Records)]
    BY <2>1, <2>2, <2>5 DEF Stated, Opt
  <2> QED
    BY <1>3, <2>3, <2>4, <2>6, OpMoves DEF ListSave, Stated, docker
<1>4. CASE ListScan(t)
  <2> DEFINE todo == {p \in Projects : disk[p].own # Nothing
                        /\ task[t].found[p] = Nothing /\ task[t].known[p] = Nothing}
             o == [task[t] EXCEPT !.at = "register", !.todo = todo]
  <2>1. Shaped(o)
    BY <1>0, <1>4, ZenonT(30) DEF ListScan, At, Shaped, Ops, Opt, Projecting, Holding, Containing, Upgrading
  <2>2. task' = [task EXCEPT ![t] = o]
    BY <1>4 DEF ListScan, Asked
  <2> HIDE DEF o
  <2> QED
    BY <1>4, <2>1, <2>2, OpMoves DEF ListScan, Stated, docker
<1>5. CASE ListRegister(t)
  <2>1. CASE task[t].todo = {}
    BY <1>5, <2>1, OpEnds DEF ListRegister, Stated, docker
  <2>2. CASE task[t].todo # {}
    <3>1. PICK p \in task[t].todo : Store(p, Record(TRUE, TRUE, "own"))
                                  /\ task' = [task EXCEPT ![t].todo = @ \ {p}]
      BY <1>5, <2>2 DEF ListRegister
    <3> DEFINE o == [task[t] EXCEPT !.todo = @ \ {p}]
    <3>2. task[t].at = "register" /\ p \in Projects
      BY <1>0, <1>5 DEF ListRegister, At, Shaped
    <3>3. Shaped(o)
      BY <1>0, <3>2 DEF Shaped, Ops, Holding, Containing, Upgrading
    <3>4. task' = [task EXCEPT ![t] = o]
      BY <3>1 DEF Asked
    <3> HIDE DEF o
    <3>5. rec' \in [Projects -> Opt(Records)]
      BY <3>1, <3>2, RecordIs DEF Store, Stated, Opt, Placements
    <3> QED
      BY <1>5, <3>3, <3>4, <3>5, OpMoves DEF ListRegister, Stated, docker
  <2> QED
    BY <2>1, <2>2
<1> QED
  BY <1>1, <1>2, <1>3, <1>4, <1>5 DEF Listing

LEMMA OpGoes ==
  ASSUME Asked, NEW t \in Handlers, NEW w, Goto(t, w), Shaped([task[t] EXCEPT !.at = w])
  PROVE  Asked'
<1> DEFINE o == [task[t] EXCEPT !.at = w]
<1>1. task' = [task EXCEPT ![t] = o]
  BY DEF Goto, Asked
<1> HIDE DEF o
<1> QED
  BY <1>1, OpMoves DEF o

LEMMA OpBegins ==
  ASSUME Asked, NEW t \in Handlers, NEW o, Accept(t, o), Shaped(o)
  PROVE  Asked'
BY OpMoves DEF Accept

(* The next place of a request asks nothing more of what it has in hand. *)
LEMMA ShapedNext ==
  ASSUME NEW o, Shaped(o), NEW w,
         \/ o.at \in Holding /\ w \in Holding
         \/ o.at \in Upgrading /\ w \in Upgrading /\ (w \in {"remove", "rename", "start"} => o.new \in Names \X Nat)
         \/ o.at = "converting" /\ w = "converted"
  PROVE  Shaped([o EXCEPT !.at = w])
<1> DEFINE q == [o EXCEPT !.at = w]
<1> SUFFICES Shaped(q)
  OBVIOUS
<1>1. q \in Ops /\ q.at = w
  BY DEF Shaped, Ops, Holding, Projecting, Containing, Upgrading
<1>2. q.rec = o.rec /\ q.proj = o.proj /\ q.name = o.name /\ q.det = o.det /\ q.new = o.new
  BY DEF Shaped, Ops
<1> HIDE DEF q
<1>3. CASE o.at \in Holding /\ w \in Holding
  BY <1>1, <1>2, <1>3 DEF Shaped, Holding, Containing, Upgrading
<1>4. CASE o.at \in Upgrading /\ w \in Upgrading
           /\ (w \in {"remove", "rename", "start"} => o.new \in Names \X Nat)
  BY <1>1, <1>2, <1>4 DEF Shaped, Holding, Containing, Upgrading
<1>5. CASE o.at = "converting" /\ w = "converted"
  BY <1>1, <1>2, <1>5 DEF Shaped, Holding, Containing, Upgrading
<1> QED
  BY <1>3, <1>4, <1>5

LEMMA PlaceIs ==
  ASSUME NEW r \in Records, Stated, NEW p \in Projects
  PROVE  /\ composePaths(r) \in {"own", "ext"}
         /\ disk[p][composePaths(r)] \in Opt(Yamls)
         /\ \A y \in Opt(Yamls) : [disk EXCEPT ![p][composePaths(r)] = y]
                                    \in [Projects -> [own : Opt(Yamls), ext : Opt(Yamls)]]
BY DEF composePaths, Stated

LEMMA ProjectTyped ==
  ASSUME Stated, Asked, NEW t \in Handlers, NEW p \in Projects, Project(t, p)
  PROVE  Stated' /\ Asked'
<1>0. Known(p) => rec[p] \in Records
  BY DEF Known, Stated, Opt
<1>1. ASSUME NEW y \in Yamls, CreateProject(t, p, y) PROVE Stated' /\ Asked'
  <2> DEFINE o == [NoTask EXCEPT !.at = "record", !.proj = p, !.rec = Record(TRUE, TRUE, "own")]
  <2>1. Shaped(o)
    BY IdleShaped, RecordIs, ZenonT(30) DEF Shaped, NoTask, Ops, Opt, Projecting, Holding, Containing,
       Upgrading, Placements
  <2> HIDE DEF o
  <2>2. disk' \in [Projects -> [own : Opt(Yamls), ext : Opt(Yamls)]]
    BY <1>1 DEF CreateProject, Stated, Opt
  <2> QED
    BY <1>1, <2>1, <2>2, OpBegins DEF CreateProject, Stated, docker, o
<1>2. ASSUME NEW y \in Yamls, Save(t, p, y) PROVE Stated' /\ Asked'
  <2> DEFINE o == [NoTask EXCEPT !.at = "write", !.proj = p, !.rec = rec[p], !.yaml = y]
  <2>1. Shaped(o)
    BY <1>0, <1>2, IdleShaped, ZenonT(30) DEF Save, Shaped, NoTask, Ops, Opt, Projecting, Holding, Containing,
       Upgrading
  <2> HIDE DEF o
  <2> QED
    BY <1>2, <2>1, OpBegins DEF Save, Stated, docker, o
<1>3. CASE Adopt(t, p)
  <2> DEFINE r == [rec[p] EXCEPT !.editable = TRUE]
             o == [NoTask EXCEPT !.at = "record", !.proj = p, !.rec = r]
  <2>1. r \in Records
    BY <1>0, <1>3 DEF Adopt, Records
  <2> HIDE DEF r
  <2>2. Shaped(o)
    BY <2>1, IdleShaped, ZenonT(30) DEF Shaped, NoTask, Ops, Opt, Projecting, Holding, Containing, Upgrading
  <2> HIDE DEF o
  <2> QED
    BY <1>3, <2>2, OpBegins DEF Adopt, Stated, docker, o, r
<1>4. CASE Restore(p)
  <2>1. rec[p] \in Records /\ rec[p].last \in Opt(Yamls)
    BY <1>0, <1>4 DEF Restore, Records, Opt
  <2> QED
    BY <1>4, <2>1, PlaceIs DEF Restore, Stated, Asked, docker
<1>5. CASE Deploy(t, p)
  <2> DEFINE o == [NoTask EXCEPT !.at = "lock", !.proj = p, !.rec = rec[p]]
  <2>1. Shaped(o)
    BY <1>0, <1>5, IdleShaped, ZenonT(30) DEF Deploy, Shaped, NoTask, Ops, Opt, Projecting, Holding, Containing,
       Upgrading
  <2> HIDE DEF o
  <2> QED
    BY <1>5, <2>1, OpBegins DEF Deploy, Stated, docker, o
<1>6. CASE Down(p)
  BY <1>6 DEF Down, Stated, Asked, syncCaddyAsync, Opt
<1>7. CASE RestartProject(p)
  BY <1>7 DEF RestartProject, Stated, Asked, syncCaddyAsync, docker
<1>8. ASSUME NEW remove \in SUBSET {"data", "volumes"}, DeleteProject(t, p, remove)
      PROVE  Stated' /\ Asked'
  <2> DEFINE todo == IF rec[p].managed THEN remove ELSE {}
             o == [NoTask EXCEPT !.at = "forget", !.proj = p, !.todo = todo]
  <2>1. todo \subseteq {"data", "volumes"}
    OBVIOUS
  <2> HIDE DEF todo
  <2>2. Shaped(o)
    BY <2>1, IdleShaped, ZenonT(30) DEF Shaped, NoTask, Ops, Opt, Projecting, Holding, Containing, Upgrading
  <2> HIDE DEF o
  <2>3. up' \in [Projects -> Opt(Made)]
    BY <1>8 DEF DeleteProject, Stated, Opt
  <2> QED
    BY <1>8, <2>2, <2>3, OpBegins DEF DeleteProject, Stated, o, todo
<1> QED
  BY <1>1, <1>2, <1>3, <1>4, <1>5, <1>6, <1>7, <1>8 DEF Project

LEMMA ProjectStepTyped ==
  ASSUME Stated, Asked, NEW t \in Handlers, ProjectStep(t)
  PROVE  Stated' /\ Asked'
<1>0. Shaped(task[t])
  BY DEF Asked
<1>1. CASE WriteFile(t)
  <2>1. Shaped([task[t] EXCEPT !.at = "record"])
    BY <1>0, <1>1, ShapedNext DEF WriteFile, At, Holding
  <2>2. task[t].rec \in Records /\ task[t].proj \in Projects /\ task[t].yaml \in Opt(Yamls)
    BY <1>0, <1>1 DEF WriteFile, At, Holding, Shaped, Ops
  <2> QED
    BY <1>1, <2>1, <2>2, OpGoes, PlaceIs DEF WriteFile, Stated, docker
<1>2. CASE SaveComposeInstance(t)
  <2>1. task[t].rec \in Records /\ task[t].proj \in Projects
    BY <1>0, <1>2 DEF SaveComposeInstance, At, Holding, Shaped
  <2> QED
    BY <1>2, <2>1, OpEnds DEF SaveComposeInstance, Stated, Store, docker, Opt
<1>3. CASE TryLock(t)
  <2>1. Shaped([task[t] EXCEPT !.at = "read"])
    BY <1>0, <1>3, ShapedNext DEF TryLock, At, Holding
  <2> QED
    BY <1>3, <2>1, OpGoes, OpEnds DEF TryLock, Stated, docker
<1>4. CASE DeployRead(t)
  <2> DEFINE y == disk[task[t].proj][composePaths(task[t].rec)]
             o == [task[t] EXCEPT !.at = "up", !.yaml = y]
  <2>1. y \in Opt(Yamls)
    BY <1>0, <1>4, PlaceIs DEF DeployRead, At, Holding, Shaped
  <2> HIDE DEF y
  <2>2. Shaped(o)
    BY <1>0, <1>4, <2>1 DEF DeployRead, At, Shaped, Ops, Holding, Projecting, Containing, Upgrading
  <2>3. task' = [task EXCEPT ![t] = o]
    BY <1>4 DEF DeployRead, Asked, y
  <2> HIDE DEF o
  <2> QED
    BY <1>4, <2>2, <2>3, OpMoves DEF DeployRead, Stated, docker
<1>5. CASE DeployUp(t)
  <2>1. Shaped([task[t] EXCEPT !.at = "deployed"])
    BY <1>0, <1>5, ShapedNext DEF DeployUp, At, Holding
  <2>2. task[t].rec \in Records /\ task[t].proj \in Projects
    BY <1>0, <1>5 DEF DeployUp, At, Holding, Shaped
  <2>3. Up(composePaths(task[t].rec), disk[task[t].proj][composePaths(task[t].rec)]) \in Made
    BY <1>5, <2>2, PlaceIs DEF DeployUp, Up, Made, Placements, Opt
  <2> QED
    BY <1>5, <2>1, <2>2, <2>3, OpGoes DEF DeployUp, Stated, Opt
<1>6. CASE DeployRecord(t)
  <2>1. task[t].rec \in Records /\ task[t].proj \in Projects /\ task[t].yaml \in Opt(Yamls)
    BY <1>0, <1>6 DEF DeployRecord, At, Holding, Shaped, Ops
  <2>2. [task[t].rec EXCEPT !.last = task[t].yaml] \in Records
    BY <2>1 DEF Records, Opt
  <2> QED
    BY <1>6, <2>1, <2>2, OpEnds DEF DeployRecord, Stated, Store, docker, syncCaddyAsync, Opt
<1>7. CASE DeployFails(t) \/ DeployUnrecorded(t)
  BY <1>7, OpEnds DEF DeployFails, DeployUnrecorded, syncCaddyAsync, Stated, docker
<1>8. CASE RemoveData(t)
  <2> DEFINE o == [task[t] EXCEPT !.todo = @ \ {"data"}]
  <2>1. Shaped(o)
    BY <1>0, <1>8 DEF RemoveData, At, Shaped, Ops, Holding, Containing, Upgrading
  <2>2. task' = [task EXCEPT ![t] = o]
    BY <1>8 DEF RemoveData, Asked
  <2> HIDE DEF o
  <2>3. disk' \in [Projects -> [own : Opt(Yamls), ext : Opt(Yamls)]]
    BY <1>8 DEF RemoveData, Stated, Opt
  <2> QED
    BY <1>8, <2>1, <2>2, <2>3, OpMoves DEF RemoveData, Stated, docker
<1>9. CASE removeProjectVolumes(t)
  <2> DEFINE o == [task[t] EXCEPT !.todo = {}]
  <2>1. Shaped(o)
    BY <1>0, <1>9 DEF removeProjectVolumes, At, Shaped, Ops, Holding, Containing, Upgrading
  <2>2. task' = [task EXCEPT ![t] = o]
    BY <1>9 DEF removeProjectVolumes, Asked
  <2> HIDE DEF o
  <2> QED
    BY <1>9, <2>1, <2>2, OpMoves DEF removeProjectVolumes, Stated, docker
<1>10. CASE DeleteComposeInstance(t)
  <2>1. rec' \in [Projects -> Opt(Records)]
    BY <1>10 DEF DeleteComposeInstance, Stated, Opt
  <2> QED
    BY <1>10, <2>1, OpEnds DEF DeleteComposeInstance, Stated, docker
<1>11. CASE Fails(t)
  BY <1>11, OpEnds DEF Fails, Stated, docker
<1> QED
  BY <1>1, <1>2, <1>3, <1>4, <1>5, <1>6, <1>7, <1>8, <1>9, <1>10, <1>11 DEF ProjectStep

LEMMA SlotsIs ==
  ASSUME Stated, NEW i, NEW s \in SlotsOf(i)
  PROVE  s \in Slots /\ ctr[s] \in Containers
BY DEF SlotsOf, Stated, Opt

LEMMA ContainerTyped ==
  ASSUME Stated, Asked, NEW t \in Handlers, NEW n \in Names, ContainerRequest(t, n)
  PROVE  Stated' /\ Asked'
<1>0. Proper(n) \in Slots /\ Tmp(n) \in Slots
      /\ \A s \in Slots : ctr[s] # Nothing => ctr[s] \in Containers
  BY DEF Proper, Tmp, Slots, Stated, Opt
<1>1. CASE Upgrade(t, n)
  <2> DEFINE o == [NoTask EXCEPT !.at = "pull", !.name = n, !.det = ctr[Proper(n)]]
  <2>1. Shaped(o)
    BY <1>0, <1>1, IdleShaped, ZenonT(30) DEF Upgrade, Shaped, NoTask, Ops, Opt, Projecting, Holding, Containing,
       Upgrading
  <2> HIDE DEF o
  <2> QED
    BY <1>1, <2>1, OpBegins DEF Upgrade, Stated, docker, o
<1>2. ASSUME NEW s \in Slots, StartContainer(s) \/ StopContainer(s) \/ RemoveContainer(s)
      PROVE  Stated' /\ Asked'
  <2>1. ctr' \in [Slots -> Opt(Containers)]
    <3>1. \A c \in Containers, b \in BOOLEAN : [c EXCEPT !.on = b] \in Containers
      BY DEF Containers
    <3>2. ctr[s] \in Containers
      BY <1>0, <1>2 DEF StartContainer, StopContainer, RemoveContainer
    <3>3. \A c \in Opt(Containers) : [ctr EXCEPT ![s] = c] \in [Slots -> Opt(Containers)]
      BY DEF Stated
    <3> QED
      BY <1>2, <3>1, <3>2, <3>3 DEF StartContainer, StopContainer, RemoveContainer, Set, Opt
  <2> QED
    BY <1>2, <2>1 DEF StartContainer, StopContainer, RemoveContainer, Stated, Asked
<1>3. ASSUME NEW p \in Projects, NEW y \in Yamls, Convert(t, n, p, y)
      PROVE  Stated' /\ Asked'
  <2> DEFINE o == [NoTask EXCEPT !.at = "converting", !.proj = p, !.name = n, !.det = ctr[Proper(n)]]
  <2>1. Shaped(o)
    BY <1>0, <1>3, IdleShaped, ZenonT(30) DEF Convert, Shaped, NoTask, Ops, Opt, Projecting, Holding, Containing,
       Upgrading
  <2> HIDE DEF o
  <2>2. disk' \in [Projects -> [own : Opt(Yamls), ext : Opt(Yamls)]]
    BY <1>3 DEF Convert, Stated, Opt
  <2> QED
    BY <1>3, <2>1, <2>2, OpBegins DEF Convert, Stated, docker, o
<1> QED
  BY <1>0, <1>1, <1>2, <1>3 DEF ContainerRequest

LEMMA ContainerStepTyped ==
  ASSUME Stated, Asked, NEW t \in Handlers, ContainerStep(t)
  PROVE  Stated' /\ Asked'
<1>0. Shaped(task[t])
  BY DEF Asked
<1>1. ASSUME NEW i, NEW s \in SlotsOf(i), NEW b \in BOOLEAN, ctr' = [ctr EXCEPT ![s] = [ctr[s] EXCEPT !.on = b]]
      PROVE  ctr' \in [Slots -> Opt(Containers)]
  BY <1>1, SlotsIs DEF Stated, Opt, Containers
<1>2. ASSUME NEW i, NEW s \in SlotsOf(i), ctr' = [ctr EXCEPT ![s] = Nothing]
      PROVE  ctr' \in [Slots -> Opt(Containers)]
  BY <1>2, SlotsIs DEF Stated, Opt
<1>3. ASSUME NEW a, NEW w, task[t].at = a, a \in Upgrading, w \in Upgrading \ {"remove", "rename", "start"},
             Goto(t, w)
      PROVE  Asked'
  BY <1>0, <1>3, ShapedNext, OpGoes
<1>4. ASSUME NEW w, task[t].at \in {"remove", "rename", "start"}, w \in Upgrading, Goto(t, w)
      PROVE  Asked'
  <2>1. task[t].new \in Names \X Nat /\ task[t].at \in Upgrading
    BY <1>0, <1>4 DEF Shaped, Upgrading
  <2> QED
    BY <1>0, <1>4, <2>1, ShapedNext, OpGoes
<1>5. CASE PullImageWait(t)
  <2>1. CASE UpgradeEnds(t)
    BY <1>5, <2>1, OpEnds DEF PullImageWait, UpgradeEnds, syncCaddyAsync, Stated, docker
  <2>2. CASE Goto(t, IF task[t].det.on THEN "stop" ELSE "create") /\ UNCHANGED syncs
    BY <1>3, <1>5, <2>2 DEF PullImageWait, At, Upgrading, Stated, docker
  <2> QED
    BY <1>5, <2>1, <2>2 DEF PullImageWait
<1>6. CASE StopOld(t)
  BY <1>1, <1>3, <1>6 DEF StopOld, At, Set, Upgrading, Stated
<1>7. CASE RecreateContainer(t)
  <2> DEFINE i == <<task[t].name, serial + 1>>
             o == [task[t] EXCEPT !.at = "remove", !.new = i]
  <2>1. task[t].name \in Names /\ i \in Names \X Nat
    BY <1>0, <1>7 DEF RecreateContainer, At, Shaped, Containing, Upgrading, Stated
  <2> HIDE DEF i
  <2>2. Shaped(o)
    <3>1. task[t].at = "create" /\ task[t] \in Ops /\ task[t].det \in Containers
      BY <1>0, <1>7 DEF RecreateContainer, At, Shaped, Containing, Upgrading
    <3>2. /\ o \in Ops /\ o.at = "remove" /\ o.new = i
          /\ o.name = task[t].name /\ o.det = task[t].det
      BY <2>1, <3>1 DEF Ops, Opt, Containing, Upgrading
    <3> HIDE DEF o
    <3> QED
      BY <2>1, <3>1, <3>2 DEF Shaped, Holding, Containing, Upgrading
  <2>3. task' = [task EXCEPT ![t] = o]
    BY <1>7 DEF RecreateContainer, Asked, i
  <2> HIDE DEF o
  <2>4. [id |-> i, image |-> image.here, on |-> FALSE] \in Containers
    BY <2>1 DEF Containers, Stated
  <2>5. ctr' \in [Slots -> Opt(Containers)]
    BY <1>7, <2>4 DEF RecreateContainer, Set, Stated, Opt, i
  <2> QED
    <3>1. Asked'
      BY <2>2, <2>3, OpMoves
    <3>2. /\ serial' = serial + 1
          /\ UNCHANGED <<rec, disk, up, image, syncs>>
      BY <1>7 DEF RecreateContainer
    <3> QED
      BY <2>5, <3>1, <3>2 DEF Stated
<1>8. CASE RemoveOld(t)
  BY <1>2, <1>4, <1>8 DEF RemoveOld, At, Set, Upgrading, Stated
<1>9. CASE RemoveOldFails(t)
  BY <1>4, <1>9 DEF RemoveOldFails, At, Running, Upgrading, Stated, docker
<1>10. CASE RenameContainer(t)
  <2>1. ctr' \in [Slots -> Opt(Containers)]
    BY <1>10, SlotsIs DEF RenameContainer, Stated, Opt
  <2> QED
    BY <1>4, <1>10, <2>1 DEF RenameContainer, At, Running, Upgrading, Stated
<1>11. CASE RenameFails(t)
  BY <1>4, <1>11 DEF RenameFails, At, Running, Upgrading, Stated, docker
<1>12. CASE StartNew(t)
  <2>1. Asked'
    BY <1>4, <1>12 DEF StartNew, At, Upgrading
  <2>2. PICK s \in SlotsOf(task[t].new) : ctr' = [ctr EXCEPT ![s] = [ctr[s] EXCEPT !.on = TRUE]]
    BY <1>12 DEF StartNew, Set
  <2>3. ctr' \in [Slots -> Opt(Containers)]
    BY <1>1, <2>2
  <2> QED
    BY <1>12, <2>1, <2>3 DEF StartNew, Stated
<1>13. CASE Upgraded(t) \/ UpgradeFails(t)
  BY <1>13, OpEnds DEF Upgraded, UpgradeFails, UpgradeEnds, syncCaddyAsync, Stated, docker
<1>14. CASE ConvertStop(t)
  <2> DEFINE d == [task[t].det EXCEPT !.on = FALSE]
             o == [task[t] EXCEPT !.det = d]
  <2>1. d \in Containers
    BY <1>0, <1>14 DEF ConvertStop, At, Shaped, Containing, Containers
  <2> HIDE DEF d
  <2>2. Shaped(o)
    BY <1>0, <1>14, <2>1 DEF ConvertStop, At, Shaped, Ops, Opt, Holding, Containing, Upgrading
  <2>3. task' = [task EXCEPT ![t] = o]
    BY <1>14 DEF ConvertStop, Asked, d
  <2> HIDE DEF o
  <2> QED
    BY <1>1, <1>14, <2>2, <2>3, OpMoves DEF ConvertStop, Set, Stated
<1>15. CASE ConvertRemove(t)
  <2>1. Shaped([task[t] EXCEPT !.at = "converted"])
    BY <1>0, <1>15, ShapedNext DEF ConvertRemove, At
  <2> QED
    BY <1>2, <1>15, <2>1, OpGoes DEF ConvertRemove, Set, Stated
<1>16. CASE ConvertRecord(t)
  <2>1. task[t].proj \in Projects
    BY <1>0, <1>16 DEF ConvertRecord, At, Shaped
  <2> QED
    <3>1. Asked'
      BY <1>16, OpEnds DEF ConvertRecord
    <3>2. Record(TRUE, TRUE, "own") \in Records
      BY RecordIs DEF Placements
    <3>3. rec' \in [Projects -> Opt(Records)]
      BY <1>16, <2>1, <3>2 DEF ConvertRecord, Store, Stated, Opt
    <3> QED
      BY <1>16, <3>1, <3>3 DEF ConvertRecord, syncCaddyAsync, Stated, docker
<1> QED
  BY <1>5, <1>6, <1>7, <1>8, <1>9, <1>10, <1>11, <1>12, <1>13, <1>14, <1>15, <1>16 DEF ContainerStep

LEMMA OutsideTyped == ASSUME Stated, Asked, Sync \/ SyncFails \/ Outside PROVE Stated' /\ Asked'
<1>1. CASE Sync \/ SyncFails
  BY <1>1 DEF Sync, SyncFails, Stated, Asked, docker
<1>2. ASSUME NEW p \in Projects, NEW f \in Placements, NEW y \in Yamls, UserUp(p, f, y)
      PROVE  Stated' /\ Asked'
  <2>1. Up(f, y) \in Made
    BY DEF Up, Made
  <2> QED
    BY <1>2, <2>1 DEF UserUp, Stated, Asked, Opt
<1>3. ASSUME NEW p \in Projects, UserDown(p) \/ UserRemoves(p, "own") \/ UserRemoves(p, "ext")
      PROVE  Stated' /\ Asked'
  BY <1>3 DEF UserDown, UserRemoves, Stated, Asked, docker, Opt
<1>4. CASE NewImage
  BY <1>4 DEF NewImage, Stated, Asked, docker
<1>5. CASE StartsAgain
  <2>1. Asked'
    BY <1>5, IdleShaped DEF StartsAgain, Asked, Shaped
  <2> QED
    BY <1>5, <2>1 DEF StartsAgain, Stated, docker
<1> QED
  BY <1>1, <1>2, <1>3, <1>4, <1>5 DEF Outside

(* Which step a step is. *)
LEMMA DockerSteps ==
  ASSUME MCDockerNext
  PROVE  \/ \E t \in Handlers : \/ Listing(t) \/ ProjectStep(t) \/ ContainerStep(t)
                                \/ \E p \in Projects : Project(t, p)
                                \/ \E n \in Names : ContainerRequest(t, n)
         \/ Sync \/ SyncFails \/ Outside
BY DEF MCDockerNext, Asks, Runs, Happens, Outside, Listing

THEOREM DockerTyped == MCDockerSpec => []Typed
<1>1. MCDockerInit => Typed
  <2> SUFFICES ASSUME MCDockerInit PROVE Typed
    OBVIOUS
  <2>1. Asked
    BY IdleShaped DEF MCDockerInit, DockerInit, Asked, Shaped
  <2>2. Stated
    <3>1. \A s \in Slots, b \in BOOLEAN : [id |-> <<s[1], 0>>, image |-> 0, on |-> b] \in Containers
      BY DEF Slots, Containers
    <3>2. ctr \in [Slots -> Opt(Containers)]
      BY <3>1 DEF MCDockerInit, DockerInit, Opt
    <3> QED
      BY <3>2 DEF MCDockerInit, DockerInit, Stated, Opt
  <2> QED
    BY <2>1, <2>2 DEF MCDockerInit, Typed, Marked
<1>2. Typed /\ [MCDockerNext]_mcdockervars => Typed'
  <2>1. ASSUME Typed, MCDockerNext PROVE Typed'
    <3>1. Stated' /\ Asked'
      BY <2>1, DockerSteps, ListingTyped, ProjectTyped, ProjectStepTyped, ContainerTyped,
         ContainerStepTyped, OutsideTyped DEF Typed
    <3>2. Marked'
      BY <2>1 DEF Typed, Marked, MCDockerNext, AtWork, LooseNow
    <3> QED
      BY <3>1, <3>2 DEF Typed
  <2>2. ASSUME Typed, UNCHANGED mcdockervars PROVE Typed'
    BY <2>2 DEF Typed, Stated, Asked, Marked, mcdockervars, dockervars, docker
  <2> QED
    BY <2>1, <2>2
<1> QED
  BY <1>1, <1>2, PTL DEF MCDockerSpec

-----------------------------------------------------------------------------
(* The gateway's last reload saw what docker runs, or a reload is to come, or
   a request is under way that ends with one. *)
Ends == {"deployed", "stop", "create", "remove", "rename", "start", "ended", "converting",
         "converted"}
RoutesInv == ~loose => \/ routed = docker \/ syncs > 0
                       \/ \E t \in Handlers : task[t].at \in Ends

LEMMA EndsStay ==
  ASSUME Asked, syncs \in Nat, MCDockerNext, ~Sync, ~SyncFails, ~StartsAgain, ~Failing, ~Follows
  PROVE  /\ routed' = routed /\ syncs' >= syncs
         /\ \A u \in Handlers : task[u].at \in Ends => task'[u].at \in Ends
<1> DEFINE Stays == /\ routed' = routed /\ syncs' >= syncs
                    /\ \A u \in Handlers : task[u].at \in Ends => task'[u].at \in Ends
<1> USE DEF Ends
<1>0. syncs >= syncs
  OBVIOUS
<1>1. ASSUME NEW t \in Handlers, Listing(t) PROVE Stays
  BY <1>0, <1>1 DEF Listing, List, ListKnown, ListSave, ListScan, ListRegister, Accept, At, Done,
     Asked
<1>2. ASSUME NEW t \in Handlers, NEW p \in Projects, Project(t, p) PROVE Stays
  <2>1. ASSUME NEW o, Accept(t, o), UNCHANGED <<syncs, routed>> PROVE Stays
    BY <1>0, <2>1 DEF Accept, At, Asked
  <2>2. CASE \E y \in Yamls : CreateProject(t, p, y) \/ Save(t, p, y)
    BY <2>1, <2>2 DEF CreateProject, Save
  <2>3. CASE Adopt(t, p) \/ Deploy(t, p) \/ \E remove \in SUBSET {"data", "volumes"} : DeleteProject(t, p, remove)
    BY <2>1, <2>3 DEF Adopt, Deploy, DeleteProject
  <2>4. CASE Restore(p) \/ RestartProject(p)
    BY <1>0, <2>4 DEF Restore, RestartProject, syncCaddyAsync
  <2> QED
    BY <1>2, <2>2, <2>3, <2>4 DEF Project, Follows
<1>3. ASSUME NEW t \in Handlers, ProjectStep(t) PROVE Stays
  <2>1. ~DeployFails(t) /\ ~Fails(t) /\ ~DeployRecord(t) /\ ~DeployUnrecorded(t)
    BY DEF Failing, Follows
  <2>2. CASE WriteFile(t) \/ SaveComposeInstance(t) \/ TryLock(t) \/ DeployRead(t)
    BY <1>0, <2>2 DEF WriteFile, SaveComposeInstance, TryLock, DeployRead, At, Goto, Done, Asked
  <2>3. CASE DeployUp(t)
    <3>1. task' = [task EXCEPT ![t].at = "deployed"] /\ UNCHANGED <<routed, syncs>>
      BY <2>3 DEF DeployUp, Goto
    <3>2. task[t] \in Ops
      BY DEF Asked
    <3>3. task'[t].at = "deployed" /\ \A u \in Handlers : u # t => task'[u] = task[u]
      BY <3>1, <3>2 DEF Asked, Ops
    <3> QED
      BY <1>0, <3>1, <3>3
  <2>4. CASE RemoveData(t) \/ removeProjectVolumes(t) \/ DeleteComposeInstance(t)
    BY <1>0, <2>4 DEF RemoveData, removeProjectVolumes, DeleteComposeInstance, At, Done, Asked
  <2> QED
    BY <1>3, <2>1, <2>2, <2>3, <2>4 DEF ProjectStep
<1>4. ASSUME NEW t \in Handlers, NEW n \in Names, ContainerRequest(t, n) PROVE Stays
  BY <1>0, <1>4 DEF ContainerRequest, Upgrade, Convert, StartContainer, StopContainer, RemoveContainer,
     Accept, At, Asked
<1>5. ASSUME NEW t \in Handlers, ContainerStep(t) PROVE Stays
  <2>1. ~UpgradeFails(t) /\ ~RemoveOldFails(t) /\ ~RenameFails(t) /\ ~ConvertRecord(t) /\ ~UpgradeEnds(t)
    BY DEF Failing, Follows
  <2>2. ASSUME NEW o, o.at \in Ends, task' = [task EXCEPT ![t] = o], UNCHANGED <<syncs, routed>>
        PROVE  Stays
    BY <1>0, <2>2 DEF Asked
  <2>3. ASSUME NEW w \in Ends, Goto(t, w), UNCHANGED <<syncs, routed>> PROVE Stays
    <3>1. task' = [task EXCEPT ![t] = [task[t] EXCEPT !.at = w]] /\ [task[t] EXCEPT !.at = w].at = w
      BY <2>3 DEF Goto, Asked, Ops
    <3> QED
      BY <2>2, <2>3, <3>1
  <2>4. CASE PullImageWait(t)
    BY <2>1, <2>3, <2>4 DEF PullImageWait
  <2>5. CASE StopOld(t) \/ RemoveOld(t) \/ RenameContainer(t) \/ StartNew(t) \/ ConvertRemove(t)
    BY <2>3, <2>5 DEF StopOld, RemoveOld, RenameContainer, StartNew, ConvertRemove, Running
  <2>6. CASE RecreateContainer(t)
    <3>1. PICK i : i = <<task[t].name, serial'>>
      OBVIOUS
    <3> DEFINE o == [task[t] EXCEPT !.at = "remove", !.new = i]
    <3>2. task' = [task EXCEPT ![t] = o] /\ o.at = "remove" /\ UNCHANGED <<syncs, routed>>
      BY <2>6, <3>1 DEF RecreateContainer, Asked, Ops
    <3> HIDE DEF o
    <3> QED
      BY <2>2, <3>2
  <2>7. CASE ConvertStop(t)
    <3> DEFINE d == [task[t].det EXCEPT !.on = FALSE]
               o == [task[t] EXCEPT !.det = d]
    <3>1. task' = [task EXCEPT ![t] = o] /\ o.at = task[t].at
      BY <2>7 DEF ConvertStop, Asked, Ops
    <3> HIDE DEF o
    <3> QED
      BY <2>2, <2>7, <3>1 DEF ConvertStop, At
  <2>8. ~Upgraded(t)
    BY <2>1 DEF Upgraded
  <2> QED
    BY <1>5, <2>1, <2>4, <2>5, <2>6, <2>7, <2>8 DEF ContainerStep
<1>6. CASE Outside
  BY <1>0, <1>6 DEF Outside, UserUp, UserDown, UserRemoves, NewImage
<1> QED
  BY <1>1, <1>2, <1>3, <1>4, <1>5, <1>6, DockerSteps

LEMMA RoutesStep ==
  ASSUME Asked, syncs \in Nat, syncs' \in Nat, RoutesInv, MCDockerNext
  PROVE  RoutesInv'
<1> SUFFICES ASSUME ~loose'
             PROVE  \/ routed' = docker' \/ syncs' > 0
                    \/ \E t \in Handlers : task'[t].at \in Ends
  BY DEF RoutesInv
<1>1. CASE Sync
  BY <1>1 DEF Sync, docker
<1>2. CASE ~Sync
  <2>1. /\ ~loose /\ ~StartsAgain /\ ~SyncFails /\ ~Failing
        /\ docker' = docker \/ Follows \/ Underway
    BY <1>2 DEF MCDockerNext, LooseNow
  <2>2. CASE Follows
    <3>1. syncs' = syncs + 1
      BY <2>2 DEF Follows, DeployRecord, DeployUnrecorded, ConvertRecord, UpgradeEnds, Down, syncCaddyAsync
    <3>2. syncs + 1 > 0
      OBVIOUS
    <3> QED
      BY <3>1, <3>2
  <2>3. CASE Underway
    <3>1. PICK t \in Handlers \ rough :
            \/ DeployUp(t) \/ ConvertStop(t) \/ ConvertRemove(t)
            \/ StopOld(t) \/ RecreateContainer(t) \/ RemoveOld(t) \/ RenameContainer(t) \/ StartNew(t)
      BY <2>3 DEF Underway
    <3>2. task[t] \in Ops
      BY DEF Asked
    <3>3. CASE DeployUp(t) \/ ConvertRemove(t) \/ StopOld(t) \/ RemoveOld(t)
               \/ RenameContainer(t) \/ StartNew(t)
      <4>1. \E w \in Ends : Goto(t, w)
        BY <3>3 DEF DeployUp, ConvertRemove, StopOld, RemoveOld, RenameContainer, StartNew, Running,
           Ends
      <4> QED
        BY <3>2, <4>1 DEF Goto, Asked, Ops
    <3>4. CASE ConvertStop(t) \/ RecreateContainer(t)
      BY <3>2, <3>4 DEF ConvertStop, RecreateContainer, At, Asked, Ops, Ends
    <3> QED
      BY <3>1, <3>3, <3>4
  <2>4. CASE docker' = docker /\ ~Follows
    <3>1. /\ routed' = routed /\ syncs' >= syncs
          /\ \A u \in Handlers : task[u].at \in Ends => task'[u].at \in Ends
      BY <1>2, <2>1, <2>4, EndsStay
    <3>2. syncs > 0 => syncs' > 0
      BY <3>1
    <3> QED
      BY <2>1, <2>4, <3>1, <3>2 DEF RoutesInv
  <2> QED
    BY <2>1, <2>2, <2>3, <2>4
<1> QED
  BY <1>1, <1>2

(* Whatever the numbers of projects, containers and goroutines: when nothing
   is under way the gateway's last reload saw what docker runs. *)
THEOREM RoutesFollow == MCDockerSpec => []CalmRoutesFollow
<1>1. MCDockerInit => RoutesInv
  BY DEF MCDockerInit, DockerInit, RoutesInv
<1>2. Typed /\ Typed' /\ RoutesInv /\ [MCDockerNext]_mcdockervars => RoutesInv'
  <2>1. Typed /\ Typed' /\ RoutesInv /\ MCDockerNext => RoutesInv'
    BY RoutesStep DEF Typed, Stated
  <2>2. RoutesInv /\ UNCHANGED mcdockervars => RoutesInv'
    BY DEF RoutesInv, mcdockervars, dockervars, docker
  <2> QED
    BY <2>1, <2>2
<1>3. Typed /\ RoutesInv => CalmRoutesFollow
  <2> SUFFICES ASSUME Typed, RoutesInv, AtWork = {}, syncs = 0, ~loose PROVE routed = docker
    BY DEF CalmRoutesFollow
  <2>1. \A t \in Handlers : task[t].at = "idle"
    BY DEF AtWork
  <2> QED
    BY <2>1 DEF RoutesInv, Ends
<1> QED
  BY <1>1, <1>2, <1>3, DockerTyped, PTL DEF MCDockerSpec

-----------------------------------------------------------------------------
(* Containers and their names. Each has its own id and lies in a slot of the
   name it was made under; the one an upgrade began with is under its name or
   gone; and between creation and removal the new one is there, or the name
   was given up, or there is nothing to remove. *)
Owned ==
    /\ \A s \in Slots : ctr[s] # Nothing => ctr[s].id[1] = s[1] /\ ctr[s].id[2] <= serial
    /\ \A r, s \in Slots : ctr[r] # Nothing /\ ctr[s] # Nothing /\ ctr[r].id = ctr[s].id => r = s
Vouched(o) ==
    /\ o.at \in Containing =>
         /\ o.det.id[2] <= serial
         /\ \A s \in Slots : ctr[s] # Nothing /\ ctr[s].id = o.det.id => s = Proper(o.name)
    /\ o.at \in {"remove", "rename", "start"} => o.new[1] = o.name /\ o.new[2] <= serial
    /\ o.at = "remove" =>
         \/ o.name \in dropped \/ ctr[Tmp(o.name)] # Nothing
         \/ \A s \in Slots : ctr[s] # Nothing => ctr[s].id # o.det.id
AllVouched == \A t \in Handlers : Vouched(task[t])
VacantInv  == Owned /\ AllVouched /\ NameNeverVacant

LEMMA Pairs == \A X, Y : \A s \in X \X Y : s[1] \in X /\ s[2] \in Y /\ s = <<s[1], s[2]>>
OBVIOUS

LEMMA SlotNames ==
  /\ \A n \in Names : /\ Proper(n) \in Slots /\ Tmp(n) \in Slots /\ Proper(n) # Tmp(n)
                      /\ Proper(n)[1] = n /\ Tmp(n)[1] = n
                      /\ \A m \in Names : Proper(n) = Proper(m) \/ Tmp(n) = Tmp(m) => n = m
                      /\ \A m \in Names : Proper(n) # Tmp(m)
  /\ \A s \in Slots : s[1] \in Names /\ (s = Proper(s[1]) \/ s = Tmp(s[1]))
<1>1. ASSUME NEW s \in Slots PROVE s[1] \in Names /\ (s = Proper(s[1]) \/ s = Tmp(s[1]))
  <2>1. s[1] \in Names /\ s[2] \in {"", "-upgrade"} /\ s = <<s[1], s[2]>>
    BY Pairs, Zenon DEF Slots
  <2> QED
    BY <2>1 DEF Proper, Tmp
<1> QED
  BY <1>1 DEF Proper, Tmp, Slots

LEMMA IdsTyped ==
  ASSUME Stated
  PROVE  /\ \A s \in Slots : ctr[s] # Nothing =>
              ctr[s] \in Containers /\ ctr[s].id \in Names \X Nat
              /\ ctr[s].id[1] \in Names /\ ctr[s].id[2] \in Nat
         /\ serial \in Nat
         /\ \A c \in Containers : c # Nothing /\ c.id \in Names \X Nat /\ c.id[2] \in Nat
BY NothingAssumption DEF Stated, Opt, Containers

(* The containers stay in their slots. *)
LEMMA SlotsStay ==
  ASSUME Stated, Owned, NameNeverVacant, serial' = serial, dropped \subseteq dropped',
         \A s \in Slots : IF ctr[s] = Nothing THEN ctr'[s] = Nothing
                          ELSE ctr'[s] # Nothing /\ ctr'[s].id = ctr[s].id
  PROVE  Owned' /\ NameNeverVacant' /\ \A o \in Ops : Shaped(o) /\ Vouched(o) => Vouched(o)'
<1>1. Owned'
  BY DEF Owned
<1>2. NameNeverVacant'
  BY SlotNames DEF NameNeverVacant
<1>3. ASSUME NEW o \in Ops, Shaped(o), Vouched(o) PROVE Vouched(o)'
  <2>1. o.at = "remove" => Tmp(o.name) \in Slots
    BY <1>3, SlotNames DEF Shaped, Containing, Upgrading
  <2> QED
    BY <1>3, <2>1 DEF Vouched
<1> QED
  BY <1>1, <1>2, <1>3

LEMMA SlotGone ==
  ASSUME Stated, Owned, NameNeverVacant, serial' = serial, dropped \subseteq dropped',
         NEW s \in Slots, ctr' = [ctr EXCEPT ![s] = Nothing],
         s[1] \in dropped' \/ (s = Proper(s[1]) /\ ctr[Tmp(s[1])] # Nothing)
  PROVE  Owned' /\ NameNeverVacant' /\ \A o \in Ops : Shaped(o) /\ Vouched(o) => Vouched(o)'
<1>0. \A r \in Slots : ctr'[r] = IF r = s THEN Nothing ELSE ctr[r]
  BY DEF Stated
<1>1. Owned'
  BY <1>0 DEF Owned
<1>2. NameNeverVacant'
  BY <1>0, SlotNames DEF NameNeverVacant
<1>3. ASSUME NEW o \in Ops, Shaped(o), Vouched(o) PROVE Vouched(o)'
  <2>1. ASSUME o.at = "remove"
        PROVE  \/ o.name \in dropped' \/ ctr'[Tmp(o.name)] # Nothing
               \/ \A r \in Slots : ctr'[r] # Nothing => ctr'[r].id # o.det.id
    <3>1. o.name \in Names /\ Tmp(o.name) \in Slots
      BY <1>3, <2>1, SlotNames DEF Shaped, Containing, Upgrading
    <3>2. CASE s = Tmp(o.name)
      <4>1. s[1] = o.name /\ s # Proper(s[1])
        BY <3>1, <3>2, SlotNames
      <4> QED
        BY <4>1
    <3>3. CASE s # Tmp(o.name)
      BY <1>0, <1>3, <2>1, <3>1, <3>3 DEF Vouched
    <3> QED
      BY <3>2, <3>3
  <2> QED
    BY <1>0, <1>3, <2>1 DEF Vouched
<1> QED
  BY <1>1, <1>2, <1>3

LEMMA SlotMade ==
  ASSUME Stated, Owned, NameNeverVacant, dropped \subseteq dropped',
         NEW n \in Names, ctr[Tmp(n)] = Nothing, serial' = serial + 1,
         NEW c \in Containers, c.id = <<n, serial + 1>>, ctr' = [ctr EXCEPT ![Tmp(n)] = c]
  PROVE  /\ Owned' /\ NameNeverVacant' /\ ctr'[Tmp(n)] # Nothing
         /\ \A o \in Ops : Shaped(o) /\ Vouched(o) => Vouched(o)'
<1>0. /\ \A r \in Slots : ctr'[r] = IF r = Tmp(n) THEN c ELSE ctr[r]
      /\ Tmp(n) \in Slots /\ Tmp(n)[1] = n
      /\ c # Nothing /\ c.id[1] = n /\ c.id[2] = serial + 1
  BY SlotNames, IdsTyped DEF Stated
<1>1. Owned'
  <2>1. \A r \in Slots : ctr[r] # Nothing => ctr[r].id[2] # serial + 1 /\ ctr[r].id[2] <= serial + 1
    BY IdsTyped DEF Owned
  <2>2. \A r \in Slots : ctr'[r] # Nothing => ctr'[r].id[1] = r[1] /\ ctr'[r].id[2] <= serial'
    BY <1>0, <2>1, IdsTyped DEF Owned
  <2>3. \A r, s \in Slots : ctr'[r] # Nothing /\ ctr'[s] # Nothing /\ ctr'[r].id = ctr'[s].id => r = s
    BY <1>0, <2>1 DEF Owned
  <2> QED
    BY <2>2, <2>3 DEF Owned
<1>2. NameNeverVacant'
  BY <1>0, SlotNames DEF NameNeverVacant
<1>3. ASSUME NEW o \in Ops, Shaped(o), Vouched(o) PROVE Vouched(o)'
  <2>1. ASSUME o.at \in Containing
        PROVE  /\ o.det.id[2] <= serial'
               /\ \A s \in Slots : ctr'[s] # Nothing /\ ctr'[s].id = o.det.id
                    => s # Tmp(n) /\ ctr[s] = ctr'[s]
    <3>1. o.det.id[2] <= serial /\ o.det.id[2] \in Nat
      BY <1>3, <2>1, IdsTyped DEF Shaped, Vouched
    <3>2. o.det.id # c.id
      BY <1>0, <3>1, IdsTyped
    <3> QED
      BY <1>0, <3>1, <3>2, IdsTyped
  <2>2. ASSUME o.at \in {"remove", "rename", "start"} PROVE o.new[2] <= serial'
    BY <1>3, <2>2, IdsTyped DEF Shaped, Vouched
  <2>3. ASSUME o.at = "remove"
        PROVE  \/ o.name \in dropped' \/ ctr'[Tmp(o.name)] # Nothing
               \/ \A r \in Slots : ctr'[r] # Nothing => ctr'[r].id # o.det.id
    <3>1. Tmp(o.name) \in Slots
      BY <1>3, <2>3, SlotNames DEF Shaped, Containing, Upgrading
    <3> QED
      BY <1>0, <1>3, <2>1, <2>3, <3>1 DEF Vouched, Containing, Upgrading
  <2> QED
    BY <1>3, <2>1, <2>2, <2>3 DEF Vouched
<1> QED
  BY <1>0, <1>1, <1>2, <1>3

LEMMA SlotRenamed ==
  ASSUME Stated, Owned, NameNeverVacant, serial' = serial, dropped \subseteq dropped',
         NEW n \in Names, ctr[Proper(n)] = Nothing, NEW i, i[1] = n, NEW s \in SlotsOf(i),
         ctr' = [ctr EXCEPT ![Proper(n)] = ctr[s], ![s] = Nothing]
  PROVE  Owned' /\ NameNeverVacant' /\ \A o \in Ops : Shaped(o) /\ Vouched(o) => Vouched(o)'
<1>0. s = Tmp(n) /\ ctr[s] # Nothing /\ s \in Slots
  BY SlotNames DEF SlotsOf, Owned
<1>1. \A r \in Slots : ctr'[r] = IF r = Tmp(n) THEN Nothing
                                 ELSE IF r = Proper(n) THEN ctr[Tmp(n)] ELSE ctr[r]
  BY <1>0, SlotNames DEF Stated
<1>2. Proper(n) \in Slots /\ Proper(n)[1] = n /\ Proper(n) # Tmp(n) /\ Tmp(n)[1] = n
  BY SlotNames
<1>3. Owned'
  <2>1. ASSUME NEW r \in Slots, ctr'[r] # Nothing
        PROVE  ctr'[r].id[1] = r[1] /\ ctr'[r].id[2] <= serial
    <3>1. CASE r = Proper(n)
      <4>1. ctr'[r] = ctr[s] /\ r[1] = n /\ s[1] = n
        BY <1>0, <1>1, <1>2, <3>1
      <4> QED
        BY <1>0, <4>1 DEF Owned
    <3>2. CASE r # Proper(n)
      <4>1. ctr'[r] = ctr[r] /\ ctr[r] # Nothing
        BY <1>1, <2>1, <3>2
      <4> QED
        BY <4>1 DEF Owned
    <3> QED
      BY <3>1, <3>2
  <2>2. ASSUME NEW r \in Slots, NEW q \in Slots, ctr'[r] # Nothing, ctr'[q] # Nothing,
               ctr'[r].id = ctr'[q].id
        PROVE  r = q
    <3> DEFINE Was(x) == IF x = Proper(n) THEN Tmp(n) ELSE x
    <3>1. ctr'[r] = ctr[Was(r)] /\ ctr'[q] = ctr[Was(q)] /\ Was(r) \in Slots /\ Was(q) \in Slots
          /\ r # Tmp(n) /\ q # Tmp(n)
      BY <1>0, <1>1, <1>2, <2>2
    <3>2. Was(r) = Was(q)
      BY <2>2, <3>1 DEF Owned
    <3> QED
      BY <3>1, <3>2
  <2> QED
    BY <2>1, <2>2 DEF Owned
<1>4. NameNeverVacant'
  <2>1. ASSUME NEW m \in Names \ dropped PROVE ctr'[Proper(m)] # Nothing \/ ctr'[Tmp(m)] # Nothing
    <3>1. CASE m = n
      BY <1>0, <1>1, <1>2, <3>1
    <3>2. CASE m # n
      <4>1. /\ Proper(m) \in Slots /\ Tmp(m) \in Slots
            /\ Proper(m) \notin {Proper(n), Tmp(n)} /\ Tmp(m) \notin {Proper(n), Tmp(n)}
        BY <3>2, SlotNames
      <4> QED
        BY <1>1, <4>1 DEF NameNeverVacant
    <3> QED
      BY <3>1, <3>2
  <2> QED
    BY <2>1 DEF NameNeverVacant
<1>5. ASSUME NEW o \in Ops, Shaped(o), Vouched(o) PROVE Vouched(o)'
  <2>1. ASSUME o.at \in Containing, o.name \in Names
        PROVE  \A r \in Slots : ctr'[r] # Nothing /\ ctr'[r].id = o.det.id
                    => r # Proper(n) /\ r # Tmp(n) /\ ctr'[r] = ctr[r]
    <3>1. ctr[Tmp(n)].id # o.det.id
      BY <1>0, <1>5, <2>1, SlotNames DEF Vouched
    <3> QED
      BY <1>0, <1>1, <1>2, <3>1
  <2>2. ASSUME o.at = "remove", o.name \in Names
        PROVE  \/ o.name \in dropped' \/ ctr'[Tmp(o.name)] # Nothing
               \/ \A r \in Slots : ctr'[r] # Nothing => ctr'[r].id # o.det.id
    <3>1. o.at \in Containing
      BY <2>2 DEF Containing, Upgrading
    <3>2. CASE o.name = n
      <4>1. \A r \in Slots : ctr[r] # Nothing => ctr[r].id # o.det.id
        BY <1>5, <3>1, <3>2 DEF Vouched
      <4> QED
        BY <2>1, <2>2, <3>1, <4>1
    <3>3. CASE o.name # n
      <4>1. Tmp(o.name) \in Slots /\ Tmp(o.name) # Tmp(n) /\ Tmp(o.name) # Proper(n)
        BY <2>2, <3>3, SlotNames
      <4> QED
        BY <1>1, <1>5, <2>1, <2>2, <3>1, <4>1 DEF Vouched
    <3> QED
      BY <3>2, <3>3
  <2>3. o.at \in Containing => o.name \in Names
    BY <1>5 DEF Shaped
  <2>4. o.at = "remove" => o.at \in Containing
    BY DEF Containing, Upgrading
  <2> QED
    BY <1>5, <2>1, <2>2, <2>3, <2>4 DEF Vouched
<1> QED
  BY <1>3, <1>4, <1>5

(* A request that goes on with the same container, or ends. *)
LEMMA VouchedNext ==
  ASSUME NEW o, NEW q, Vouched(o), q.name = o.name, q.det.id = o.det.id, q.new = o.new,
         q.at \in Containing => o.at \in Containing,
         q.at \in {"remove", "rename", "start"} => o.at \in {"remove", "rename", "start"},
         q.at # "remove"
  PROVE  Vouched(q)
BY DEF Vouched

LEMMA Elsewhere == ASSUME NEW o, o.at \notin Containing PROVE Vouched(o) /\ Vouched(o)'
BY DEF Vouched, Containing, Upgrading

(* What the slots keep, the requests keep that go on as they were. *)
LEMMA RestVouched ==
  ASSUME Asked, AllVouched, NEW t \in Handlers,
         \A o \in Ops : Shaped(o) /\ Vouched(o) => Vouched(o)',
         NEW q, Vouched(q)', q = task'[t], \A u \in Handlers : u = t \/ task'[u] = task[u]
  PROVE  AllVouched'
<1> SUFFICES ASSUME NEW u \in Handlers, NEW o, o = task'[u] PROVE Vouched(o)'
  BY DEF AllVouched
<1>1. CASE u = t
  BY <1>1
<1>2. CASE u # t
  BY <1>2 DEF Asked, AllVouched
<1> QED
  BY <1>1, <1>2

(* The steps of projects and of docker's user leave the containers alone. *)
LEMMA ProjectsApart ==
  ASSUME Asked,
         \/ \E t \in Handlers : \/ Listing(t) \/ ProjectStep(t) \/ ConvertRecord(t)
                                \/ \E p \in Projects : Project(t, p)
         \/ Sync \/ SyncFails \/ Outside
  PROVE  /\ ctr' = ctr /\ serial' = serial
         /\ \A u \in Handlers : task'[u] = task[u] \/ task'[u].at \notin Containing
<1> DEFINE Apart == /\ ctr' = ctr /\ serial' = serial
                    /\ \A u \in Handlers : task'[u] = task[u] \/ task'[u].at \notin Containing
<1> USE DEF docker
<1>1. ASSUME NEW t \in Handlers, NEW o, o.at \in Projecting, task' = [task EXCEPT ![t] = o],
             ctr' = ctr, serial' = serial
      PROVE  Apart
  BY <1>1 DEF Asked, Projecting, Containing, Upgrading
<1>2. NoTask.at \in Projecting
  BY DEF NoTask, Projecting
<1>3. ASSUME NEW t \in Handlers, Done(t), ctr' = ctr, serial' = serial PROVE Apart
  BY <1>1, <1>2, <1>3 DEF Done
<1>4. ASSUME NEW t \in Handlers, NEW w \in Projecting, Goto(t, w), ctr' = ctr, serial' = serial
      PROVE  Apart
  <2> DEFINE o == [task[t] EXCEPT !.at = w]
  <2>1. task' = [task EXCEPT ![t] = o] /\ o.at = w
    BY <1>4 DEF Goto, Asked, Ops
  <2> HIDE DEF o
  <2> QED
    BY <1>1, <1>4, <2>1
<1>5. ASSUME NEW t \in Handlers, Listing(t) PROVE Apart
  <2>1. CASE List(t)
    <3> DEFINE o == [NoTask EXCEPT !.at = "known", !.found = up]
    <3>1. o.at \in Projecting
      BY DEF NoTask, Projecting
    <3> HIDE DEF o
    <3> QED
      BY <1>1, <2>1, <3>1 DEF List, Accept, o
  <2>2. CASE ListKnown(t) \/ ListSave(t) \/ ListScan(t) \/ ListRegister(t)
    <3>1. task' = [task EXCEPT ![t] = task'[t]] /\ task[t].at \in Projecting
      BY <2>2 DEF ListKnown, ListSave, ListScan, ListRegister, At, Done, Asked, Projecting
    <3>2. task'[t].at \in Projecting
      <4>1. CASE ListKnown(t) \/ ListScan(t)
        BY <4>1 DEF ListKnown, ListScan, Asked, Ops, Projecting
      <4>2. CASE ListSave(t)
        BY <4>2 DEF ListSave, At, Asked, Ops, Projecting
      <4>3. CASE ListRegister(t)
        BY <1>2, <4>3, ZenonT(30) DEF ListRegister, Done, At, Asked, Ops, Projecting
      <4> QED
        BY <2>2, <4>1, <4>2, <4>3
    <3> QED
      BY <1>1, <2>2, <3>1, <3>2 DEF ListKnown, ListSave, ListScan, ListRegister
  <2> QED
    BY <1>5, <2>1, <2>2 DEF Listing
<1>6. ASSUME NEW t \in Handlers, NEW p \in Projects, Project(t, p) PROVE Apart
  <2>1. ASSUME NEW o, o.at \in Projecting, Accept(t, o), ctr' = ctr, serial' = serial PROVE Apart
    BY <1>1, <2>1 DEF Accept
  <2>2. ASSUME NEW at \in Projecting, NEW r, NEW y, NEW todo
        PROVE  /\ [NoTask EXCEPT !.at = at, !.proj = p, !.rec = r].at \in Projecting
               /\ [NoTask EXCEPT !.at = at, !.proj = p, !.rec = r, !.yaml = y].at \in Projecting
               /\ [NoTask EXCEPT !.at = at, !.proj = p, !.todo = todo].at \in Projecting
    BY DEF NoTask
  <2>3. {"record", "write", "lock", "forget"} \subseteq Projecting
    BY DEF Projecting
  <2>4. ASSUME NEW y \in Yamls, CreateProject(t, p, y) \/ Save(t, p, y) PROVE Apart
    BY <2>1, <2>2, <2>3, <2>4 DEF CreateProject, Save
  <2>5. CASE Adopt(t, p) \/ Deploy(t, p)
    BY <2>1, <2>2, <2>3, <2>5 DEF Adopt, Deploy
  <2>6. ASSUME NEW remove \in SUBSET {"data", "volumes"}, DeleteProject(t, p, remove) PROVE Apart
    BY <2>1, <2>2, <2>3, <2>6 DEF DeleteProject
  <2>7. CASE Restore(p) \/ Down(p) \/ RestartProject(p)
    BY <2>7 DEF Restore, Down, RestartProject
  <2> QED
    BY <1>6, <2>4, <2>5, <2>6, <2>7 DEF Project
<1>7. ASSUME NEW t \in Handlers, ProjectStep(t) \/ ConvertRecord(t) PROVE Apart
  <2>1. CASE WriteFile(t) \/ DeployUp(t)
    BY <1>4, <2>1 DEF WriteFile, DeployUp, Projecting
  <2>2. CASE \/ SaveComposeInstance(t) \/ DeployRecord(t) \/ DeployUnrecorded(t) \/ DeployFails(t)
             \/ DeleteComposeInstance(t) \/ Fails(t) \/ ConvertRecord(t)
    BY <1>3, <2>2 DEF SaveComposeInstance, DeployRecord, DeployUnrecorded, DeployFails, DeleteComposeInstance, Fails,
       ConvertRecord
  <2>3. CASE TryLock(t)
    BY <1>3, <1>4, <2>3 DEF TryLock, Projecting
  <2>4. CASE DeployRead(t) \/ RemoveData(t) \/ removeProjectVolumes(t)
    <3>1. task' = [task EXCEPT ![t] = task'[t]]
      BY <2>4 DEF DeployRead, RemoveData, removeProjectVolumes, Asked
    <3>2. task'[t].at \in Projecting
      BY <2>4 DEF DeployRead, RemoveData, removeProjectVolumes, At, Asked, Ops, Projecting
    <3> QED
      BY <1>1, <2>4, <3>1, <3>2 DEF DeployRead, RemoveData, removeProjectVolumes
  <2> QED
    BY <1>7, <2>1, <2>2, <2>3, <2>4 DEF ProjectStep
<1>8. CASE Sync \/ SyncFails
  BY <1>8 DEF Sync, SyncFails
<1>9. CASE Outside
  <2>1. CASE StartsAgain
    BY <1>2, <2>1 DEF StartsAgain, Projecting, Containing, Upgrading
  <2> QED
    BY <1>9, <2>1 DEF Outside, UserUp, UserDown, UserRemoves, NewImage
<1> QED
  BY <1>5, <1>6, <1>7, <1>8, <1>9

LEMMA VacantStep ==
  ASSUME Stated, Asked, Asked', VacantInv, MCDockerNext
  PROVE  VacantInv'
<1> DEFINE Keeps == \A o \in Ops : Shaped(o) /\ Vouched(o) => Vouched(o)'
           Slotted == Owned' /\ NameNeverVacant' /\ Keeps
<1>0. /\ Owned /\ AllVouched /\ NameNeverVacant /\ dropped \subseteq dropped'
      /\ \A u \in Handlers : task[u] \in Ops /\ Shaped(task[u]) /\ Vouched(task[u])
      /\ \A u \in Handlers : task'[u] \in Ops /\ Shaped(task'[u])
  BY DEF VacantInv, AllVouched, Asked, MCDockerNext
<1>1. ASSUME NEW t \in Handlers, NEW q, q = task'[t], \A u \in Handlers : u = t \/ task'[u] = task[u],
             Slotted, Vouched(q) \/ Vouched(q)'
      PROVE  VacantInv'
  <2>1. Vouched(q)'
    BY <1>0, <1>1
  <2> QED
    BY <1>0, <1>1, <2>1, RestVouched DEF VacantInv
<1>2. ASSUME task' = task, Slotted PROVE VacantInv'
  <2>1. AllVouched'
    <3> SUFFICES ASSUME NEW u \in Handlers, NEW o, o = task'[u] PROVE Vouched(o)'
      BY DEF AllVouched
    <3> QED
      BY <1>0, <1>2
  <2> QED
    BY <1>2, <2>1 DEF VacantInv
<1>3. ASSUME serial' = serial,
             \A s \in Slots : IF ctr[s] = Nothing THEN ctr'[s] = Nothing
                              ELSE ctr'[s] # Nothing /\ ctr'[s].id = ctr[s].id
      PROVE  Slotted
  BY <1>0, <1>3, SlotsStay
<1>4. ASSUME serial' = serial, ctr' = ctr PROVE Slotted
  BY <1>3, <1>4
<1>5. ASSUME serial' = serial, NEW s \in Slots, ctr[s] # Nothing, NEW b \in BOOLEAN,
             ctr' = [ctr EXCEPT ![s] = [ctr[s] EXCEPT !.on = b]]
      PROVE  Slotted
  <2> DEFINE c == [ctr[s] EXCEPT !.on = b]
  <2>1. c # Nothing /\ c.id = ctr[s].id
    <3>1. ctr[s] \in Containers
      BY <1>5, IdsTyped
    <3>2. c \in Containers /\ c.id = ctr[s].id
      BY <3>1 DEF Containers
    <3> QED
      BY <3>2, IdsTyped
  <2>2. ctr' = [ctr EXCEPT ![s] = c]
    BY <1>5
  <2> HIDE DEF c
  <2>3. \A r \in Slots : ctr'[r] = IF r = s THEN c ELSE ctr[r]
    BY <2>2 DEF Stated
  <2> QED
    BY <1>3, <1>5, <2>1, <2>3
<1>6. CASE \/ \E t \in Handlers : \/ Listing(t) \/ ProjectStep(t) \/ ConvertRecord(t)
                                  \/ \E p \in Projects : Project(t, p)
           \/ Sync \/ SyncFails \/ Outside
  <2>1. /\ ctr' = ctr /\ serial' = serial
        /\ \A u \in Handlers : task'[u] = task[u] \/ task'[u].at \notin Containing
    BY <1>6, ProjectsApart
  <2>2. Slotted
    BY <1>4, <2>1
  <2>3. AllVouched'
    <3> SUFFICES ASSUME NEW u \in Handlers, NEW o, o = task'[u] PROVE Vouched(o)'
      BY DEF AllVouched
    <3> QED
      BY <1>0, <2>1, <2>2, Elsewhere
  <2> QED
    BY <2>2, <2>3 DEF VacantInv
<1>7. ASSUME NEW t \in Handlers, NEW n \in Names, ContainerRequest(t, n) PROVE VacantInv'
  <2>1. Proper(n) \in Slots /\ Tmp(n) \in Slots /\ Proper(n)[1] = n /\ Tmp(n)[1] = n
    BY SlotNames
  <2>2. ASSUME Upgrade(t, n) \/ \E p \in Projects, y \in Yamls : Convert(t, n, p, y)
        PROVE  VacantInv'
    <3> PICK q : q = task'[t]
      OBVIOUS
    <3>0. ASSUME NEW o, Accept(t, o) PROVE q = o /\ \A u \in Handlers : u = t \/ task'[u] = task[u]
      BY <3>0 DEF Accept, Asked
    <3>1. /\ ctr' = ctr /\ serial' = serial /\ ctr[Proper(n)] # Nothing
          /\ \A u \in Handlers : u = t \/ task'[u] = task[u]
          /\ q.at \in {"pull", "converting"} /\ q.name = n /\ q.det = ctr[Proper(n)]
      <4>1. CASE Upgrade(t, n)
        <5> DEFINE o == [NoTask EXCEPT !.at = "pull", !.name = n, !.det = ctr[Proper(n)]]
        <5>1. o.at = "pull" /\ o.name = n /\ o.det = ctr[Proper(n)]
          BY DEF NoTask
        <5>2. Accept(t, o)
          BY <4>1 DEF Upgrade
        <5> HIDE DEF o
        <5> QED
          BY <3>0, <4>1, <5>1, <5>2 DEF Upgrade, docker
      <4>2. ASSUME NEW p \in Projects, NEW y \in Yamls, Convert(t, n, p, y)
            PROVE  /\ ctr' = ctr /\ serial' = serial /\ ctr[Proper(n)] # Nothing
                   /\ \A u \in Handlers : u = t \/ task'[u] = task[u]
                   /\ q.at \in {"pull", "converting"} /\ q.name = n /\ q.det = ctr[Proper(n)]
        <5> DEFINE o == [NoTask EXCEPT !.at = "converting", !.proj = p, !.name = n, !.det = ctr[Proper(n)]]
        <5>1. o.at = "converting" /\ o.name = n /\ o.det = ctr[Proper(n)]
          BY DEF NoTask
        <5>2. Accept(t, o)
          BY <4>2 DEF Convert
        <5> HIDE DEF o
        <5> QED
          BY <3>0, <4>2, <5>1, <5>2 DEF Convert, docker
      <4> QED
        BY <2>2, <4>1, <4>2
    <3>2. Vouched(q)
      BY <1>0, <2>1, <3>1 DEF Vouched, Owned
    <3> QED
      BY <1>1, <1>4, <3>1, <3>2
  <2>3. ASSUME NEW s \in {Proper(n), Tmp(n)}, StartContainer(s) \/ StopContainer(s)
        PROVE  VacantInv'
    <3>1. task' = task /\ serial' = serial /\ s \in Slots /\ ctr[s] # Nothing
          /\ \E b \in BOOLEAN : ctr' = [ctr EXCEPT ![s] = [ctr[s] EXCEPT !.on = b]]
      BY <2>1, <2>3 DEF StartContainer, StopContainer, Set
    <3> QED
      BY <1>2, <1>5, <3>1
  <2>4. ASSUME NEW s \in {Proper(n), Tmp(n)}, RemoveContainer(s)
        PROVE  VacantInv'
    <3>1. task' = task /\ serial' = serial /\ s \in Slots /\ ctr' = [ctr EXCEPT ![s] = Nothing] /\ s[1] = n
      BY <2>1, <2>4 DEF RemoveContainer, Set
    <3>2. n \in dropped'
      BY <2>4 DEF MCDockerNext
    <3>3. Slotted
      BY <1>0, <3>1, <3>2, SlotGone
    <3> QED
      BY <1>2, <3>1, <3>3
  <2> QED
    BY <1>7, <2>2, <2>3, <2>4 DEF ContainerRequest
<1>8. ASSUME NEW t \in Handlers, ContainerStep(t) PROVE VacantInv'
  <2> DEFINE o == task[t]
             n == o.name
  <2>1. o \in Ops /\ Shaped(o) /\ Vouched(o)
    BY <1>0
  <2>2. ASSUME NEW w, Goto(t, w)
        PROVE  /\ task'[t].at = w /\ task'[t].name = n /\ task'[t].det = o.det /\ task'[t].new = o.new
               /\ \A u \in Handlers : u = t \/ task'[u] = task[u]
    BY <2>1, <2>2 DEF Goto, Asked, Ops
  <2>3. ASSUME NEW w, Goto(t, w), w # "remove", o.at \in Containing, Slotted,
               w \in {"rename", "start"} => o.at \in {"remove", "rename"}
        PROVE  VacantInv'
    <3> PICK q : q = task'[t]
      OBVIOUS
    <3>1. Vouched(q)
      BY <2>1, <2>2, <2>3, VouchedNext
    <3> QED
      BY <1>1, <2>2, <2>3, <3>1
  <2>4. ASSUME Done(t), Slotted PROVE VacantInv'
    <3> PICK q : q = task'[t]
      OBVIOUS
    <3>1. q = NoTask /\ \A u \in Handlers : u = t \/ task'[u] = task[u]
      BY <2>4 DEF Done, Asked
    <3>2. Vouched(q)
      BY <3>1, Elsewhere DEF NoTask, Containing, Upgrading
    <3> QED
      BY <1>1, <2>4, <3>1, <3>2
  <2>5. CASE PullImageWait(t)
    <3>1. ctr' = ctr /\ serial' = serial /\ o.at \in Containing
          /\ (Done(t) \/ Goto(t, "stop") \/ Goto(t, "create"))
      BY <2>5 DEF PullImageWait, UpgradeEnds, At, docker, Containing, Upgrading
    <3> QED
      BY <1>4, <2>3, <2>4, <3>1
  <2>6. CASE Upgraded(t) \/ UpgradeFails(t)
    BY <1>4, <2>4, <2>6 DEF Upgraded, UpgradeFails, UpgradeEnds, docker
  <2>7. CASE RemoveOldFails(t) \/ RenameFails(t)
    <3>1. ctr' = ctr /\ serial' = serial /\ o.at \in {"remove", "rename"} /\ o.at \in Containing
          /\ (Goto(t, "start") \/ Goto(t, "ended"))
      BY <2>7 DEF RemoveOldFails, RenameFails, Running, At, docker, Containing, Upgrading
    <3> QED
      BY <1>4, <2>3, <3>1
  <2>8. CASE StopOld(t)
    <3>1. PICK s \in SlotsOf(o.det.id) : ctr' = [ctr EXCEPT ![s] = [ctr[s] EXCEPT !.on = FALSE]]
      BY <2>8 DEF StopOld, Set
    <3>2. Slotted
      BY <1>5, <2>8, <3>1 DEF StopOld, SlotsOf
    <3> QED
      BY <2>3, <2>8, <3>2 DEF StopOld, At, Containing, Upgrading
  <2>9. CASE StartNew(t)
    <3>1. PICK s \in SlotsOf(o.new) : ctr' = [ctr EXCEPT ![s] = [ctr[s] EXCEPT !.on = TRUE]]
      BY <2>9 DEF StartNew, Set
    <3>2. Slotted
      BY <1>5, <2>9, <3>1 DEF StartNew, SlotsOf
    <3> QED
      BY <2>3, <2>9, <3>2 DEF StartNew, At, Containing, Upgrading
  <2>10. CASE RecreateContainer(t)
    <3> DEFINE i == <<n, serial + 1>>
               c == [id |-> i, image |-> image.here, on |-> FALSE]
    <3>1. n \in Names /\ o.det \in Containers /\ o.at = "create"
      BY <2>1, <2>10 DEF RecreateContainer, At, Shaped, Containing, Upgrading
    <3>2. serial' = serial + 1 /\ ctr[Tmp(n)] = Nothing /\ ctr' = [ctr EXCEPT ![Tmp(n)] = c]
      BY <2>10 DEF RecreateContainer, Set
    <3>3. c \in Containers /\ c.id = i
      BY <3>1 DEF Containers, Stated
    <3> HIDE DEF c
    <3>4. Slotted /\ ctr'[Tmp(n)] # Nothing
      BY <1>0, <3>1, <3>2, <3>3, SlotMade
    <3> PICK q : q = task'[t]
      OBVIOUS
    <3>5. /\ q.at = "remove" /\ q.name = n /\ q.det = o.det /\ q.new = i
          /\ \A u \in Handlers : u = t \/ task'[u] = task[u]
      BY <2>1, <2>10, <3>2 DEF RecreateContainer, Asked, Ops
    <3> PICK r : r = task[t]
      OBVIOUS
    <3>6. Vouched(r)'
      BY <2>1, <3>4
    <3>7. q.new[1] = n /\ q.new[2] <= serial'
      BY <3>2, <3>5 DEF Stated
    <3>8. Vouched(q)'
      <4>1. /\ r.at \in Containing /\ q.name = r.name /\ q.det = r.det
        BY <3>1, <3>5 DEF Containing, Upgrading
      <4>2. /\ r.det.id[2] <= serial'
            /\ \A s \in Slots : ctr'[s] # Nothing /\ ctr'[s].id = r.det.id => s = Proper(r.name)
        BY <3>6, <4>1 DEF Vouched
      <4>3. ctr'[Tmp(q.name)] # Nothing
        BY <3>4, <3>5
      <4> QED
        BY <3>5, <3>7, <4>1, <4>2, <4>3 DEF Vouched
    <3> QED
      BY <1>1, <3>4, <3>5, <3>8
  <2>11. CASE RemoveOld(t)
    <3>1. PICK s \in SlotsOf(o.det.id) : ctr' = [ctr EXCEPT ![s] = Nothing]
      BY <2>11 DEF RemoveOld, Set
    <3>2. o.at = "remove" /\ o.at \in Containing /\ serial' = serial /\ Goto(t, "rename")
      BY <2>11 DEF RemoveOld, At, Containing, Upgrading
    <3>3. s \in Slots /\ s = Proper(n) /\ n \in Names /\ s[1] = n /\ (n \in dropped \/ ctr[Tmp(n)] # Nothing)
      BY <2>1, <3>2, SlotNames DEF SlotsOf, Vouched, Shaped
    <3>4. Slotted
      BY <1>0, <3>1, <3>2, <3>3, SlotGone
    <3> QED
      BY <2>3, <3>2, <3>4
  <2>12. CASE RenameContainer(t)
    <3>1. PICK s \in SlotsOf(o.new) : ctr' = [ctr EXCEPT ![Proper(n)] = ctr[s], ![s] = Nothing]
      BY <2>12 DEF RenameContainer
    <3>2. /\ o.at = "rename" /\ o.at \in Containing /\ serial' = serial /\ ctr[Proper(n)] = Nothing
          /\ (Goto(t, "start") \/ Goto(t, "ended"))
      BY <2>12 DEF RenameContainer, Running, At, Containing, Upgrading
    <3>3. n \in Names /\ o.new[1] = n
      BY <2>1, <3>2 DEF Vouched, Shaped
    <3>4. Slotted
      BY <1>0, <3>1, <3>2, <3>3, SlotRenamed
    <3> QED
      BY <2>3, <3>2, <3>4
  <2>13. CASE ConvertStop(t)
    <3>1. PICK s \in SlotsOf(o.det.id) : ctr' = [ctr EXCEPT ![s] = [ctr[s] EXCEPT !.on = FALSE]]
      BY <2>13 DEF ConvertStop, Set
    <3>2. Slotted
      BY <1>5, <2>13, <3>1 DEF ConvertStop, SlotsOf
    <3>3. o.at = "converting" /\ o.det \in Containers
      BY <2>1, <2>13 DEF ConvertStop, At, Shaped, Containing
    <3> PICK q : q = task'[t]
      OBVIOUS
    <3>4. /\ q.at = o.at /\ q.name = n /\ q.det.id = o.det.id /\ q.new = o.new
          /\ \A u \in Handlers : u = t \/ task'[u] = task[u]
      BY <2>1, <2>13, <3>3 DEF ConvertStop, Asked, Ops, Containers
    <3>5. Vouched(q)
      BY <2>1, <3>3, <3>4, VouchedNext
    <3> QED
      BY <1>1, <3>2, <3>4, <3>5
  <2>14. CASE ConvertRemove(t)
    <3>1. PICK s \in SlotsOf(o.det.id) : ctr' = [ctr EXCEPT ![s] = Nothing]
      BY <2>14 DEF ConvertRemove, Set
    <3>2. o.at = "converting" /\ o.at \in Containing /\ serial' = serial /\ Goto(t, "converted")
      BY <2>14 DEF ConvertRemove, At, Containing
    <3>3. s \in Slots /\ s = Proper(n) /\ n \in Names /\ s[1] = n
      BY <2>1, <3>2, SlotNames DEF SlotsOf, Vouched, Shaped
    <3>4. n \in dropped'
      BY <2>14, <3>3 DEF MCDockerNext
    <3>5. Slotted
      BY <1>0, <3>1, <3>2, <3>3, <3>4, SlotGone
    <3> QED
      BY <2>3, <3>2, <3>5
  <2>15. CASE ConvertRecord(t)
    BY <1>6, <2>15
  <2> QED
    BY <1>8, <2>5, <2>6, <2>7, <2>8, <2>9, <2>10, <2>11, <2>12, <2>13, <2>14,
       <2>15 DEF ContainerStep
<1> QED
  BY <1>6, <1>7, <1>8, DockerSteps

(* For any containers, goroutines, requests and mishaps: there is no time when
   the old container is gone and the new one not made. *)
THEOREM NamesKept == MCDockerSpec => []NameNeverVacant
<1>1. MCDockerInit /\ Typed => VacantInv
  <2> SUFFICES ASSUME MCDockerInit, Typed PROVE VacantInv
    OBVIOUS
  <2>1. PICK b \in BOOLEAN :
          ctr = [s \in Slots |-> IF s[2] = "" THEN [id |-> <<s[1], 0>>, image |-> 0, on |-> b] ELSE Nothing]
    BY DEF MCDockerInit, DockerInit
  <2>2. \A s \in Slots : ctr[s] # Nothing => s[2] = "" /\ ctr[s].id = <<s[1], 0>>
    BY <2>1
  <2>3. \A s \in Slots : ctr[s] # Nothing => s = Proper(s[1]) /\ ctr[s].id[1] = s[1] /\ ctr[s].id[2] = 0
    <3> TAKE s \in Slots
    <3> HAVE ctr[s] # Nothing
    <3>1. s = <<s[1], s[2]>>
      BY Pairs, Zenon DEF Slots
    <3>2. s[2] = "" /\ ctr[s].id = <<s[1], 0>>
      BY <2>2
    <3> PICK n : n = s[1]
      OBVIOUS
    <3>3. s = <<n, "">> /\ ctr[s].id = <<n, 0>>
      BY <3>1, <3>2
    <3>4. <<n, 0>>[1] = n /\ <<n, 0>>[2] = 0
      OBVIOUS
    <3> QED
      BY <3>3, <3>4 DEF Proper
  <2>4. Owned
    <3>1. serial = 0
      BY DEF MCDockerInit, DockerInit
    <3>2. \A s \in Slots : ctr[s] # Nothing => ctr[s].id[1] = s[1] /\ ctr[s].id[2] <= serial
      BY <2>3, <3>1
    <3>3. \A r, s \in Slots : ctr[r] # Nothing /\ ctr[s] # Nothing /\ ctr[r].id = ctr[s].id => r = s
      BY <2>3
    <3> QED
      BY <3>2, <3>3 DEF Owned
  <2>5. NameNeverVacant
    <3>1. ASSUME NEW n \in Names PROVE ctr[Proper(n)] # Nothing
      <4>1. Proper(n) \in Slots /\ Proper(n)[1] = n /\ Proper(n)[2] = ""
        BY DEF Proper, Slots
      <4>2. ctr[Proper(n)] \in Containers
        BY <2>1, <4>1 DEF Containers
      <4> QED
        BY <4>2, NothingAssumption
    <3> QED
      BY <3>1 DEF NameNeverVacant
  <2>6. AllVouched
    BY Elsewhere DEF AllVouched, MCDockerInit, DockerInit, NoTask, Containing, Upgrading
  <2> QED
    BY <2>4, <2>5, <2>6 DEF VacantInv
<1>2. Typed /\ Typed' /\ VacantInv /\ [MCDockerNext]_mcdockervars => VacantInv'
  <2>1. Typed /\ Typed' /\ VacantInv /\ MCDockerNext => VacantInv'
    BY VacantStep DEF Typed
  <2>2. VacantInv /\ UNCHANGED mcdockervars => VacantInv'
    BY DEF VacantInv, Owned, AllVouched, Vouched, NameNeverVacant, mcdockervars, dockervars, docker
  <2> QED
    BY <2>1, <2>2
<1>3. VacantInv => NameNeverVacant
  BY DEF VacantInv
<1> QED
  BY <1>1, <1>2, <1>3, DockerTyped, PTL DEF MCDockerSpec

-----------------------------------------------------------------------------
(* What a project is restored to. The record says what the last deployment
   started, and so does what a request has in hand that is alone and met no
   failure: the record it read, the records a listing read, the file it is about
   to start. *)
Agrees(r, g) == g = Untold \/ g = (IF r = Nothing THEN Nothing ELSE r.last)
Calm(o) ==
    /\ o.at \in {"write", "record"} => good[o.proj] \in {Untold, o.rec.last}
    /\ o.at = "save" => \A p \in Projects : Agrees(o.known[p], good[p])
    /\ o.at = "register" => \A p \in o.todo : Agrees(Nothing, good[p])
    /\ o.at = "up" => o.yaml = disk[o.proj][composePaths(o.rec)]
    /\ o.at = "deployed" => up[o.proj] # Nothing /\ up[o.proj].yaml = o.yaml
Stages  == IF about = "containers" THEN Containing \cup {"idle"} ELSE Projecting
Staged  == /\ about \in {"projects", "containers"}
           /\ \A t \in Handlers : task[t].at \in Stages
           /\ about = "containers" => \A p \in Projects : good[p] \in {Nothing, Untold}
Recorded == \A p \in Projects : Agrees(rec[p], good[p])
AllCalm  == \A t \in AtWork \ rough : AtWork = {t} /\ Calm(task[t])
RestoreInv == /\ Staged /\ Recorded /\ AllCalm
              /\ rough \subseteq AtWork /\ IsFiniteSet(AtWork)

LEMMA AtMostOne ==
  ASSUME NEW S, IsFiniteSet(S), ~(Cardinality(S) > 1), NEW x \in S, NEW y \in S
  PROVE  x = y
<1> SUFFICES ASSUME x # y PROVE FALSE
  OBVIOUS
<1>1. Cardinality({x, y}) = 2 /\ IsFiniteSet({x, y})
  <2>1. IsFiniteSet({x}) /\ Cardinality({x}) = 1
    BY FS_Singleton
  <2>2. {x, y} = {x} \cup {y} /\ y \notin {x}
    OBVIOUS
  <2> QED
    BY <2>1, <2>2, FS_AddElement
<1>2. Cardinality({x, y}) <= Cardinality(S) /\ Cardinality(S) \in Nat
  BY FS_Subset, FS_CardinalityType
<1> QED
  BY <1>1, <1>2

(* The steps of containers leave the requests among the stages of containers. *)
LEMMA ContainersApart ==
  ASSUME Asked, NEW t \in Handlers, ContainerStep(t) \/ \E n \in Names : ContainerRequest(t, n)
  PROVE  \A u \in Handlers : task'[u] = task[u] \/ task'[u].at \in Containing \cup {"idle"}
<1> DEFINE Apart == \A u \in Handlers : task'[u] = task[u] \/ task'[u].at \in Containing \cup {"idle"}
<1>1. ASSUME NEW o, o.at \in Containing \cup {"idle"}, task' = [task EXCEPT ![t] = o] PROVE Apart
  BY <1>1 DEF Asked
<1>2. ASSUME Done(t) PROVE Apart
  BY <1>1, <1>2 DEF Done, NoTask
<1>3. ASSUME NEW w \in Containing, Goto(t, w) PROVE Apart
  <2> DEFINE o == [task[t] EXCEPT !.at = w]
  <2>1. task' = [task EXCEPT ![t] = o] /\ o.at = w
    BY <1>3 DEF Goto, Asked, Ops
  <2> HIDE DEF o
  <2> QED
    BY <1>1, <2>1
<1>4. ASSUME NEW n \in Names, ContainerRequest(t, n) PROVE Apart
  <2>1. ASSUME NEW o, o.at \in Containing, Accept(t, o) PROVE Apart
    BY <1>1, <2>1 DEF Accept
  <2>2. CASE Upgrade(t, n)
    BY <2>1, <2>2 DEF Upgrade, NoTask, Containing, Upgrading
  <2>3. ASSUME NEW p \in Projects, NEW y \in Yamls, Convert(t, n, p, y) PROVE Apart
    BY <2>1, <2>3 DEF Convert, NoTask, Containing
  <2>4. ASSUME NEW s, StartContainer(s) \/ StopContainer(s) \/ RemoveContainer(s) PROVE Apart
    BY <2>4 DEF StartContainer, StopContainer, RemoveContainer
  <2> QED
    BY <1>4, <2>2, <2>3, <2>4 DEF ContainerRequest
<1>5. ASSUME ContainerStep(t) PROVE Apart
  <2>1. CASE PullImageWait(t)
    BY <1>2, <1>3, <2>1 DEF PullImageWait, UpgradeEnds, Containing, Upgrading
  <2>2. CASE Upgraded(t) \/ UpgradeFails(t) \/ ConvertRecord(t)
    BY <1>2, <2>2 DEF Upgraded, UpgradeFails, UpgradeEnds, ConvertRecord
  <2>3. CASE \/ StopOld(t) \/ RemoveOld(t) \/ RemoveOldFails(t) \/ RenameContainer(t)
             \/ RenameFails(t) \/ StartNew(t) \/ ConvertRemove(t)
    BY <1>3, <2>3 DEF StopOld, RemoveOld, RemoveOldFails, RenameContainer, RenameFails, StartNew,
       ConvertRemove, Running, Containing, Upgrading
  <2>4. CASE RecreateContainer(t)
    <3>1. PICK i : i = <<task[t].name, serial'>>
      OBVIOUS
    <3> DEFINE o == [task[t] EXCEPT !.at = "remove", !.new = i]
    <3>2. task' = [task EXCEPT ![t] = o] /\ o.at = "remove"
      BY <2>4, <3>1 DEF RecreateContainer, Asked, Ops
    <3> HIDE DEF o
    <3> QED
      BY <1>1, <3>2 DEF Containing, Upgrading
  <2>5. CASE ConvertStop(t)
    <3> DEFINE d == [task[t].det EXCEPT !.on = FALSE]
               o == [task[t] EXCEPT !.det = d]
    <3>1. task' = [task EXCEPT ![t] = o] /\ o.at = task[t].at
      BY <2>5 DEF ConvertStop, Asked, Ops
    <3> HIDE DEF o
    <3> QED
      BY <1>1, <2>5, <3>1 DEF ConvertStop, At, Containing
  <2> QED
    BY <1>5, <2>1, <2>2, <2>3, <2>4, <2>5 DEF ContainerStep
<1> QED
  BY <1>4, <1>5

(* Where a request is when it takes a step. *)
LEMMA StepPlaces ==
  ASSUME NEW t \in Handlers
  PROVE  /\ ListKnown(t) \/ ListSave(t) \/ ListScan(t) \/ ListRegister(t)
              => task[t].at \in {"known", "save", "register"}
         /\ ProjectStep(t) => Fails(t) \/ task[t].at \in Holding \cup {"forget"}
         /\ ContainerStep(t) => task[t].at \in Containing
<1>1. ProjectStep(t) => Fails(t) \/ task[t].at \in Holding \cup {"forget"}
  BY DEF ProjectStep, WriteFile, SaveComposeInstance, TryLock, DeployRead, DeployUp, DeployRecord,
     DeployUnrecorded, DeployFails, RemoveData, removeProjectVolumes, DeleteComposeInstance, At,
     Holding
<1>2. ContainerStep(t) => task[t].at \in Containing
  BY DEF ContainerStep, PullImageWait, StopOld, RecreateContainer, RemoveOld, RemoveOldFails,
     RenameContainer, RenameFails, StartNew, Upgraded, UpgradeFails, ConvertStop, ConvertRemove,
     ConvertRecord, At, Containing, Upgrading
<1> QED
  BY <1>1, <1>2 DEF ListKnown, ListSave, ListScan, ListRegister, At

LEMMA GoodIs ==
  ASSUME MCDockerNext, NEW p \in Projects
  PROVE  /\ Crowded \/ rough # {} \/ CreatedOver(p) => good'[p] = Untold
         /\ (\A t \in Handlers : ~Deployed(t, p)) /\ ~Forgets(p) => good'[p] \in {Untold, good[p]}
         /\ (\A t \in Handlers : ~Deployed(t, p)) /\ Forgets(p) => good'[p] \in {Untold, Nothing}
         /\ (\E t \in Handlers : Deployed(t, p)) => good'[p] \in {Untold, up[p].yaml}
<1>1. good'[p] = GoodNow(p)
  BY DEF MCDockerNext
<1> QED
  BY <1>1 DEF GoodNow

LEMMA StagedStep ==
  ASSUME Asked, Asked', Staged, MCDockerNext
  PROVE  Staged'
<1>1. about' = about /\ Stages' = Stages
  BY DEF MCDockerNext, Stages
<1>2. CASE about = "containers"
  <2>1. \A u \in Handlers : task'[u] = task[u] \/ task'[u].at \in Containing \cup {"idle"}
    <3>1. CASE Asks
      BY <1>2, <3>1, ContainersApart DEF Asks
    <3>2. CASE Runs
      <4>1. PICK t \in Handlers : \/ ListKnown(t) \/ ListSave(t) \/ ListScan(t) \/ ListRegister(t)
                                  \/ ProjectStep(t) \/ ContainerStep(t)
        BY <3>2 DEF Runs
      <4>2. task[t].at \in Containing \cup {"idle"}
        BY <1>2 DEF Staged, Stages
      <4>3. Fails(t) \/ ContainerStep(t)
        BY <4>1, <4>2, StepPlaces DEF Holding, Containing, Upgrading
      <4>4. CASE Fails(t)
        BY <4>4 DEF Fails, Done, NoTask, Asked
      <4> QED
        BY <4>3, <4>4, ContainersApart
    <3>3. CASE Sync \/ Happens
      <4>1. Sync \/ SyncFails \/ StartsAgain \/ NewImage
        BY <1>2, <3>3 DEF Happens
      <4> QED
        BY <4>1 DEF Sync, SyncFails, StartsAgain, NewImage, NoTask
    <3> QED
      BY <3>1, <3>2, <3>3 DEF MCDockerNext
  <2>2. \A p \in Projects : good'[p] \in {Nothing, Untold}
    <3> TAKE p \in Projects
    <3>1. \A t \in Handlers : ~Deployed(t, p)
      BY <1>2 DEF Staged, Stages, Deployed, DeployRecord, At, Containing, Upgrading
    <3>2. good[p] \in {Nothing, Untold}
      BY <1>2 DEF Staged
    <3> QED
      BY <3>1, <3>2, GoodIs
  <2>3. \A u \in Handlers : task'[u].at \in Stages
    BY <1>2, <2>1 DEF Staged, Stages
  <2> QED
    BY <1>1, <2>2, <2>3 DEF Staged
<1>3. CASE about # "containers"
  <2>1. \A t \in Handlers : ~ContainerStep(t)
    BY <1>3, StepPlaces DEF Staged, Stages, Projecting, Containing, Upgrading
  <2>2. \/ \E t \in Handlers : \/ Listing(t) \/ ProjectStep(t) \/ \E p \in Projects : Project(t, p)
        \/ Sync \/ SyncFails \/ Outside
    BY <1>3, <2>1 DEF MCDockerNext, Asks, Runs, Happens, Outside, Listing
  <2>3. \A u \in Handlers : task'[u] = task[u] \/ task'[u].at \notin Containing
    BY <2>2, ProjectsApart
  <2>4. \A u \in Handlers : task'[u].at \in Projecting \cup Containing
    BY DEF Asked, Ops
  <2>5. \A u \in Handlers : task'[u].at \in Stages
    BY <1>3, <2>3, <2>4 DEF Staged, Stages
  <2> QED
    BY <1>1, <1>3, <2>5 DEF Staged
<1> QED
  BY <1>2, <1>3

LEMMA NextCalm ==
  ASSUME Asked, Asked', NEW u \in Handlers, NEW q, q = task'[u],
         \A v \in Handlers : v = u \/ task'[v] = task[v], AtWork \subseteq {u},
         q.at = "idle" \/ Calm(q)'
  PROVE  AllCalm'
<1> SUFFICES ASSUME NEW t \in Handlers, t \in AtWork', NEW o, o = task'[t]
             PROVE  AtWork' = {t} /\ Calm(o)'
  BY DEF AllCalm, AtWork
<1>1. \A v \in Handlers : v \in AtWork' => v = u
  BY DEF AtWork
<1>2. t = u
  BY <1>1
<1>3. AtWork' = {t}
  BY <1>1, <1>2 DEF AtWork
<1>4. o = q /\ q.at # "idle"
  BY <1>2 DEF AtWork
<1> QED
  BY <1>3, <1>4

(* The requests stay, and so does what they look at, or there are none. *)
LEMMA StillCalm ==
  ASSUME Asked, Staged, AllCalm, Recorded, rough = {}, task' = task, rec' = rec,
         AtWork = {} \/ UNCHANGED <<disk, up>>,
         \A p \in Projects : good'[p] \in {Untold, good[p]}
  PROVE  Recorded' /\ AllCalm'
<1>1. Recorded'
  BY DEF Recorded, Agrees
<1>2. AtWork' = AtWork
  BY DEF AtWork
<1>3. AllCalm'
  <2> SUFFICES ASSUME NEW t \in AtWork, NEW o, o = task[t] PROVE AtWork = {t} /\ Calm(o)'
    BY <1>2 DEF AllCalm
  <2>1. AtWork = {t} /\ Calm(o) /\ Shaped(o)
    BY DEF AllCalm, Asked, AtWork
  <2>2. UNCHANGED <<disk, up>>
    OBVIOUS
  <2> QED
    BY <2>1, <2>2 DEF Calm, Agrees, Shaped, Holding
<1> QED
  BY <1>1, <1>3

(* One request takes a step that changes no record. *)
LEMMA KeptRecorded ==
  ASSUME Recorded, rec' = rec, \A p \in Projects : good'[p] \in {Untold, good[p]}
  PROVE  Recorded'
BY DEF Recorded, Agrees

LEMMA ProjectCalm ==
  ASSUME Stated, Asked, Asked', Staged, Recorded, AtWork = {}, MCDockerNext,
         NEW t \in Handlers, NEW p \in Projects, Project(t, p)
  PROVE  Recorded' /\ (rough = {} => AllCalm')
<1>1. \A r \in Projects : good'[r] \in {Untold, good[r]}
  <2> TAKE r \in Projects
  <2>1. \A u \in Handlers : ~Deployed(u, r)
    BY DEF AtWork, Deployed, DeployRecord, At
  <2>2. rec' = rec
    BY DEF Project, CreateProject, Save, Adopt, Restore, Deploy, Down, RestartProject, DeleteProject
  <2>3. ~Forgets(r)
    BY <2>2 DEF Forgets
  <2> QED
    BY <2>1, <2>3, GoodIs
<1>2. rec' = rec
  BY DEF Project, CreateProject, Save, Adopt, Restore, Deploy, Down, RestartProject, DeleteProject
<1>3. Recorded'
  BY <1>1, <1>2, KeptRecorded
<1>4. ASSUME task' = task, rough = {} PROVE AllCalm'
  BY <1>1, <1>2, <1>4, StillCalm DEF AllCalm
<1>5. ASSUME NEW o, Accept(t, o), Calm(o)' PROVE AllCalm'
  <2>1. o = task'[t] /\ \A v \in Handlers : v = t \/ task'[v] = task[v]
    BY <1>5 DEF Accept, Asked
  <2> QED
    BY <1>5, <2>1, NextCalm
<1>6. ASSUME NEW y \in Yamls, CreateProject(t, p, y) PROVE AllCalm'
  <2> DEFINE r == Record(TRUE, TRUE, "own")
             o == [NoTask EXCEPT !.at = "record", !.proj = p, !.rec = r]
  <2>1. r.last = Nothing
    BY RecordIs DEF Placements
  <2>2. good'[p] \in {Untold, Nothing}
    <3>1. CASE rec[p] # Nothing
      BY <1>6, <3>1, GoodIs DEF CreatedOver
    <3>2. CASE rec[p] = Nothing
      BY <1>1, <3>2 DEF Recorded, Agrees
    <3> QED
      BY <3>1, <3>2
  <2> HIDE DEF r
  <2>3. o.at = "record" /\ o.proj = p /\ o.rec = r
    BY DEF NoTask
  <2>4. Accept(t, o)
    BY <1>6 DEF CreateProject, r
  <2> HIDE DEF o
  <2>5. PICK q : q = o
    OBVIOUS
  <2>6. Accept(t, q) /\ q.at = "record" /\ q.proj = p /\ q.rec.last = Nothing
    BY <2>1, <2>3, <2>4, <2>5
  <2>7. Calm(q)'
    BY <2>2, <2>6 DEF Calm
  <2> QED
    BY <1>5, <2>6, <2>7
<1>7. ASSUME NEW y \in Yamls, Save(t, p, y) PROVE AllCalm'
  <2> PICK q : q = [NoTask EXCEPT !.at = "write", !.proj = p, !.rec = rec[p], !.yaml = y]
    OBVIOUS
  <2>1. Accept(t, q) /\ q.at = "write" /\ q.proj = p /\ q.rec = rec[p] /\ rec[p] # Nothing
    BY <1>7 DEF Save, NoTask, Known
  <2>2. good'[p] \in {Untold, q.rec.last}
    BY <1>1, <2>1 DEF Recorded, Agrees
  <2>3. Calm(q)'
    BY <2>1, <2>2 DEF Calm
  <2> QED
    BY <1>5, <2>1, <2>3
<1>8. ASSUME Adopt(t, p) PROVE AllCalm'
  <2> PICK r : r = [rec[p] EXCEPT !.editable = TRUE]
    OBVIOUS
  <2> PICK q : q = [NoTask EXCEPT !.at = "record", !.proj = p, !.rec = r]
    OBVIOUS
  <2>1. Accept(t, q) /\ q.at = "record" /\ q.proj = p /\ q.rec = r /\ rec[p] # Nothing
    BY <1>8 DEF Adopt, NoTask, Known
  <2>2. r.last = rec[p].last
    BY <2>1 DEF Stated, Opt, Records
  <2>3. good'[p] \in {Untold, q.rec.last}
    BY <1>1, <2>1, <2>2 DEF Recorded, Agrees
  <2>4. Calm(q)'
    BY <2>1, <2>3 DEF Calm
  <2> QED
    BY <1>5, <2>1, <2>4
<1>9. ASSUME Deploy(t, p) PROVE AllCalm'
  <2> PICK q : q = [NoTask EXCEPT !.at = "lock", !.proj = p, !.rec = rec[p]]
    OBVIOUS
  <2>1. Accept(t, q) /\ q.at = "lock"
    BY <1>9 DEF Deploy, NoTask
  <2>2. Calm(q)'
    BY <2>1 DEF Calm
  <2> QED
    BY <1>5, <2>1, <2>2
<1>10. ASSUME NEW remove \in SUBSET {"data", "volumes"}, DeleteProject(t, p, remove) PROVE AllCalm'
  <2> PICK q : q = [NoTask EXCEPT !.at = "forget", !.proj = p,
                      !.todo = IF rec[p].managed THEN remove ELSE {}]
    OBVIOUS
  <2>1. Accept(t, q) /\ q.at = "forget"
    BY <1>10 DEF DeleteProject, NoTask
  <2>2. Calm(q)'
    BY <2>1 DEF Calm
  <2> QED
    BY <1>5, <2>1, <2>2
<1>11. ASSUME Restore(p) \/ Down(p) \/ RestartProject(p), rough = {} PROVE AllCalm'
  BY <1>4, <1>11 DEF Restore, Down, RestartProject
<1> QED
  BY <1>3, <1>6, <1>7, <1>8, <1>9, <1>10, <1>11 DEF Project

LEMMA ListingCalm ==
  ASSUME Stated, Asked, Asked', Staged, Recorded, NEW t \in Handlers, Listing(t), MCDockerNext,
         AtWork \subseteq {t}, Calm(task[t])
  PROVE  Recorded' /\ AllCalm'
<1>0. Shaped(task[t])
  BY DEF Asked
<1>1. ASSUME NEW o, task' = [task EXCEPT ![t] = o], o.at = "idle" \/ Calm(o)' PROVE AllCalm'
  <2>1. o = task'[t] /\ \A v \in Handlers : v = t \/ task'[v] = task[v]
    BY <1>1 DEF Asked
  <2> QED
    BY <1>1, <2>1, NextCalm
<1>2. ~DeployRecord(t) /\ \A u \in Handlers, r \in Projects : ~Deployed(u, r)
  <2>1. task[t].at # "deployed"
    BY DEF Listing, List, ListKnown, ListSave, ListScan, ListRegister, Accept, At
  <2> QED
    BY <2>1 DEF Deployed, DeployRecord, At, AtWork
<1>3. ASSUME NEW p \in Projects, rec'[p] = rec[p] \/ rec'[p] # Nothing
      PROVE  good'[p] \in {Untold, good[p]}
  BY <1>2, <1>3, GoodIs DEF Forgets
<1>4. ASSUME rec' = rec PROVE Recorded'
  BY <1>3, <1>4, KeptRecorded
<1>5. CASE List(t)
  <2> PICK q : q = [NoTask EXCEPT !.at = "known", !.found = up]
    OBVIOUS
  <2>1. task' = [task EXCEPT ![t] = q] /\ q.at = "known" /\ rec' = rec
    BY <1>5 DEF List, Accept, NoTask
  <2>2. Calm(q)'
    BY <2>1 DEF Calm
  <2> QED
    BY <1>1, <1>4, <2>1, <2>2
<1>6. CASE ListKnown(t)
  <2> PICK q : q = task'[t]
    OBVIOUS
  <2>1. task' = [task EXCEPT ![t] = q] /\ q.at = "save" /\ q.known = rec /\ rec' = rec
    BY <1>6 DEF ListKnown, Asked, Ops
  <2>2. Calm(q)'
    BY <1>3, <2>1 DEF Calm, Recorded, Agrees
  <2> QED
    BY <1>1, <1>4, <2>1, <2>2
<1>7. CASE ListSave(t)
  <2>1. PICK p \in task[t].todo :
          /\ rec' = IF task[t].found[p] # Nothing \/ task[t].known[p].managed
                    THEN [rec EXCEPT ![p] = Listed(task[t].found[p], task[t].known[p])]
                    ELSE rec
          /\ task' = [task EXCEPT ![t].todo = @ \ {p}]
    BY <1>7 DEF ListSave
  <2> PICK k : k = task[t].known
    OBVIOUS
  <2> PICK l : l = Listed(task[t].found[p], task[t].known[p])
    OBVIOUS
  <2>2. task[t].at = "save" /\ p \in Projects
        /\ l \in Records /\ l.last = (IF k[p] = Nothing THEN Nothing ELSE k[p].last)
        /\ \A r \in Projects : Agrees(k[r], good[r])
    <3>1. task[t].at = "save" /\ p \in Projects
      BY <1>0, <1>7 DEF ListSave, At, Shaped
    <3>2. task[t].found[p] \in Opt(Made) /\ k[p] \in Opt(Records)
          /\ (task[t].found[p] # Nothing \/ k[p] # Nothing)
      BY <1>0, <2>1, <3>1 DEF Shaped
    <3>3. \A r \in Projects : Agrees(k[r], good[r])
      BY <3>1 DEF Calm
    <3>4. l \in Records /\ l.last = IF k[p] = Nothing THEN Nothing ELSE k[p].last
      BY <3>2, ListedIs
    <3> QED
      BY <3>1, <3>3, <3>4
  <2>3. l # Nothing
    BY <2>2, NothingAssumption
  <2>4. \A r \in Projects : \/ rec'[r] = rec[r]
                            \/ r = p /\ rec'[r] = l
    BY <2>1, <2>2 DEF Stated
  <2>5. \A r \in Projects : good'[r] \in {Untold, good[r]}
    BY <1>3, <2>3, <2>4
  <2>6. Recorded'
    <3> SUFFICES ASSUME NEW r \in Projects, NEW x, x = rec'[r], NEW g, g = good'[r]
                 PROVE  Agrees(x, g)
      BY DEF Recorded
    <3>1. CASE x = rec[r]
      BY <2>5, <3>1 DEF Recorded, Agrees
    <3>2. CASE r = p /\ x = l
      <4>1. Agrees(k[p], good[p]) /\ g \in {Untold, good[p]}
        BY <2>2, <2>5, <3>2
      <4>2. good[p] \in {Untold, l.last}
        BY <2>2, <4>1 DEF Agrees
      <4> QED
        BY <2>3, <3>2, <4>1, <4>2 DEF Agrees
    <3> QED
      BY <2>4, <3>1, <3>2
  <2> PICK q : q = task'[t]
    OBVIOUS
  <2>7. task' = [task EXCEPT ![t] = q] /\ q.at = "save" /\ q.known = k
    BY <2>1, <2>2 DEF Asked, Ops
  <2>8. Calm(q)'
    BY <2>2, <2>5, <2>7 DEF Calm, Agrees
  <2> QED
    BY <1>1, <2>6, <2>7, <2>8
<1>8. CASE ListScan(t)
  <2> PICK q : q = task'[t]
    OBVIOUS
  <2> PICK k : k = task[t].known
    OBVIOUS
  <2>1. task' = [task EXCEPT ![t] = q] /\ q.at = "register" /\ rec' = rec
        /\ \A p \in q.todo : p \in Projects /\ k[p] = Nothing
    BY <1>8 DEF ListScan, Asked, Ops
  <2>2. \A r \in Projects : Agrees(k[r], good[r])
    BY <1>8 DEF ListScan, At, Calm
  <2>3. \A p \in q.todo : p \in Projects /\ Agrees(Nothing, good[p])
    BY <2>1, <2>2
  <2>4. \A p \in Projects : good'[p] \in {Untold, good[p]}
    BY <1>3, <2>1
  <2>5. Calm(q)'
    BY <2>1, <2>3, <2>4 DEF Calm, Agrees
  <2> QED
    BY <1>1, <1>4, <2>1, <2>5
<1>9. CASE ListRegister(t)
  <2>1. CASE task[t].todo = {}
    <3>1. task' = [task EXCEPT ![t] = NoTask] /\ rec' = rec
      BY <1>9, <2>1 DEF ListRegister, Done
    <3> QED
      BY <1>1, <1>4, <3>1 DEF NoTask
  <2>2. CASE task[t].todo # {}
    <3>1. PICK p \in task[t].todo : Store(p, Record(TRUE, TRUE, "own"))
                                  /\ task' = [task EXCEPT ![t].todo = @ \ {p}]
      BY <1>9, <2>2 DEF ListRegister
    <3> PICK r : r = Record(TRUE, TRUE, "own")
      OBVIOUS
    <3> PICK todo : todo = task[t].todo
      OBVIOUS
    <3>2. task[t].at = "register" /\ todo \subseteq Projects /\ p \in todo
          /\ r # Nothing /\ r.last = Nothing /\ \A s \in todo : Agrees(Nothing, good[s])
      <4>1. task[t].at = "register" /\ todo \subseteq Projects
        BY <1>0, <1>9 DEF ListRegister, At, Shaped
      <4>2. r \in Records /\ r.last = Nothing
        BY RecordIs DEF Placements
      <4> QED
        BY <3>1, <4>1, <4>2, NothingAssumption DEF Calm
    <3>3. \A s \in Projects : rec'[s] = IF s = p THEN r ELSE rec[s]
      BY <3>1 DEF Store, Stated
    <3>4. \A s \in Projects : good'[s] \in {Untold, good[s]}
      BY <1>3, <3>2, <3>3
    <3>5. Recorded'
      <4> SUFFICES ASSUME NEW s \in Projects, NEW x, x = rec'[s], NEW g, g = good'[s]
                   PROVE  Agrees(x, g)
        BY DEF Recorded
      <4>1. CASE s = p
        BY <3>2, <3>3, <3>4, <4>1 DEF Agrees
      <4>2. CASE s # p
        BY <3>3, <3>4, <4>2 DEF Recorded, Agrees
      <4> QED
        BY <4>1, <4>2
    <3> PICK q : q = task'[t]
      OBVIOUS
    <3>6. task' = [task EXCEPT ![t] = q] /\ q.at = "register" /\ q.todo \subseteq todo
      BY <3>1, <3>2 DEF Asked, Ops
    <3>7. Calm(q)'
      BY <3>2, <3>4, <3>6 DEF Calm, Agrees
    <3> QED
      BY <1>1, <3>5, <3>6, <3>7
  <2> QED
    BY <2>1, <2>2
<1> QED
  BY <1>5, <1>6, <1>7, <1>8, <1>9 DEF Listing

LEMMA ProjectStepCalm ==
  ASSUME Stated, Asked, Asked', Staged, Recorded, NEW t \in Handlers, ProjectStep(t), MCDockerNext,
         AtWork \subseteq {t}, rough = {}, Calm(task[t])
  PROVE  Recorded' /\ AllCalm'
<1>0. Shaped(task[t]) /\ t \notin rough
  BY DEF Asked
<1>1. ASSUME NEW o, task' = [task EXCEPT ![t] = o], o.at = "idle" \/ Calm(o)' PROVE AllCalm'
  <2>1. o = task'[t] /\ \A v \in Handlers : v = t \/ task'[v] = task[v]
    BY <1>1 DEF Asked
  <2> QED
    BY <1>1, <2>1, NextCalm
<1>2. ASSUME NEW r \in Projects, ~DeployRecord(t) \/ task[t].proj # r
      PROVE  \A u \in Handlers : ~Deployed(u, r)
  BY <1>2 DEF Deployed, DeployRecord, At, AtWork
<1>3. ASSUME ~DeployRecord(t), rec' = rec
      PROVE  Recorded' /\ \A p \in Projects : good'[p] \in {Untold, good[p]}
  <2>1. \A p \in Projects : good'[p] \in {Untold, good[p]}
    BY <1>2, <1>3, GoodIs DEF Forgets
  <2> QED
    BY <1>3, <2>1, KeptRecorded
<1>4. ASSUME Done(t) PROVE AllCalm'
  BY <1>1, <1>4 DEF Done, NoTask
<1>5. CASE WriteFile(t)
  <2> PICK q : q = task'[t]
    OBVIOUS
  <2>1. /\ task' = [task EXCEPT ![t] = q] /\ q.at = "record" /\ q.rec = task[t].rec
        /\ q.proj = task[t].proj /\ task[t].at = "write" /\ rec' = rec /\ q.proj \in Projects
    BY <1>0, <1>5 DEF WriteFile, Goto, At, Asked, Ops, Shaped, Holding
  <2>2. good[q.proj] \in {Untold, q.rec.last}
    BY <2>1 DEF Calm
  <2>3. ~DeployRecord(t)
    BY <2>1 DEF DeployRecord, At
  <2>4. Calm(q)'
    BY <1>3, <2>1, <2>2, <2>3 DEF Calm
  <2> QED
    BY <1>1, <1>3, <2>1, <2>3, <2>4
<1>6. CASE SaveComposeInstance(t)
  <2> PICK r : r = task[t].rec
    OBVIOUS
  <2> PICK p : p = task[t].proj
    OBVIOUS
  <2>1. r \in Records /\ p \in Projects /\ r # Nothing /\ good[p] \in {Untold, r.last}
    BY <1>0, <1>6, NothingAssumption DEF SaveComposeInstance, At, Shaped, Holding, Calm
  <2>2. \A s \in Projects : rec'[s] = IF s = p THEN r ELSE rec[s]
    BY <1>6 DEF SaveComposeInstance, Store, Stated
  <2>3. ~DeployRecord(t)
    BY <1>6 DEF SaveComposeInstance, DeployRecord, At
  <2>4. \A s \in Projects : good'[s] \in {Untold, good[s]}
    BY <1>2, <2>1, <2>2, <2>3, GoodIs DEF Forgets
  <2>5. Recorded'
    <3> SUFFICES ASSUME NEW s \in Projects, NEW x, x = rec'[s], NEW g, g = good'[s]
                 PROVE  Agrees(x, g)
      BY DEF Recorded
    <3>1. CASE s = p
      BY <2>1, <2>2, <2>4, <3>1 DEF Agrees
    <3>2. CASE s # p
      BY <2>2, <2>4, <3>2 DEF Recorded, Agrees
    <3> QED
      BY <3>1, <3>2
  <2> QED
    BY <1>4, <1>6, <2>5 DEF SaveComposeInstance
<1>7. CASE TryLock(t)
  <2> PICK q : q = task'[t]
    OBVIOUS
  <2>1. task' = [task EXCEPT ![t] = q] /\ q.at \in {"idle", "read"} /\ rec' = rec /\ ~DeployRecord(t)
    BY <1>7 DEF TryLock, DeployRecord, Done, Goto, At, Asked, Ops, NoTask
  <2>2. Calm(q)'
    BY <2>1 DEF Calm
  <2> QED
    BY <1>1, <1>3, <2>1, <2>2
<1>8. CASE DeployRead(t)
  <2> PICK q : q = task'[t]
    OBVIOUS
  <2>1. /\ task' = [task EXCEPT ![t] = q] /\ q.at = "up" /\ q.yaml = disk[q.proj][composePaths(q.rec)]
        /\ rec' = rec /\ disk' = disk /\ ~DeployRecord(t)
    BY <1>8 DEF DeployRead, DeployRecord, At, Asked, Ops
  <2>2. Calm(q)'
    BY <2>1 DEF Calm
  <2> QED
    BY <1>1, <1>3, <2>1, <2>2
<1>9. CASE DeployUp(t)
  <2> PICK q : q = task'[t]
    OBVIOUS
  <2> PICK where : where = composePaths(task[t].rec)
    OBVIOUS
  <2>1. /\ task' = [task EXCEPT ![t] = q] /\ q.at = "deployed" /\ q.yaml = task[t].yaml
        /\ q.proj = task[t].proj /\ task[t].at = "up" /\ rec' = rec /\ ~DeployRecord(t)
        /\ up' = [up EXCEPT ![q.proj] = Up(where, disk[q.proj][where])]
        /\ q.proj \in Projects /\ disk[q.proj][where] # Nothing /\ task[t].rec \in Records
    BY <1>0, <1>9 DEF DeployUp, DeployRecord, Goto, At, Asked, Ops, Shaped, Holding
  <2>2. q.yaml = disk[q.proj][where]
    BY <2>1 DEF Calm
  <2>3. Up(where, q.yaml) \in Made /\ Up(where, q.yaml).yaml = q.yaml
    BY <2>1, <2>2, PlaceIs DEF Up, Made, Placements, Opt
  <2>4. up'[q.proj] = Up(where, q.yaml)
    BY <2>1, <2>2 DEF Stated
  <2>5. Calm(q)'
    BY <2>1, <2>3, <2>4, NothingAssumption DEF Calm
  <2> QED
    BY <1>1, <1>3, <2>1, <2>5
<1>10. CASE DeployRecord(t)
  <2> PICK p : p = task[t].proj
    OBVIOUS
  <2> PICK r : r = [task[t].rec EXCEPT !.last = task[t].yaml]
    OBVIOUS
  <2>1. /\ p \in Projects /\ r \in Records /\ r.last = task[t].yaml /\ r # Nothing
        /\ task[t].at = "deployed"
    <3>1. task[t].rec \in Records /\ p \in Projects /\ task[t].yaml \in Opt(Yamls)
      BY <1>0, <1>10 DEF DeployRecord, At, Holding, Shaped, Ops
    <3>2. r \in Records /\ r.last = task[t].yaml
      BY <3>1 DEF Records, Opt
    <3> QED
      BY <1>10, <3>1, <3>2, NothingAssumption DEF DeployRecord, At
  <2>2. up[p].yaml = r.last
    BY <2>1 DEF Calm
  <2>3. \A s \in Projects : rec'[s] = IF s = p THEN r ELSE rec[s]
    BY <1>10 DEF DeployRecord, Store, Stated
  <2>4. good'[p] \in {Untold, r.last}
    <3>1. Deployed(t, p)
      BY <1>0, <1>10 DEF Deployed
    <3> QED
      BY <2>1, <2>2, <3>1, GoodIs
  <2>5. \A s \in Projects : s # p => good'[s] \in {Untold, good[s]}
    BY <1>2, <2>3, GoodIs DEF Forgets
  <2>6. Recorded'
    <3> SUFFICES ASSUME NEW s \in Projects, NEW x, x = rec'[s], NEW g, g = good'[s]
                 PROVE  Agrees(x, g)
      BY DEF Recorded
    <3>1. CASE s = p
      BY <2>1, <2>3, <2>4, <3>1 DEF Agrees
    <3>2. CASE s # p
      BY <2>3, <2>5, <3>2 DEF Recorded, Agrees
    <3> QED
      BY <3>1, <3>2
  <2> QED
    BY <1>4, <1>10, <2>6 DEF DeployRecord
<1>11. CASE (DeployFails(t) \/ DeployUnrecorded(t)) /\ ~DeployRecord(t)
  BY <1>3, <1>4, <1>11 DEF DeployFails, DeployUnrecorded
<1>12. CASE RemoveData(t) \/ removeProjectVolumes(t)
  <2> PICK q : q = task'[t]
    OBVIOUS
  <2>1. task' = [task EXCEPT ![t] = q] /\ q.at = "forget" /\ rec' = rec /\ ~DeployRecord(t)
    BY <1>12 DEF RemoveData, removeProjectVolumes, DeployRecord, At, Asked, Ops
  <2>2. Calm(q)'
    BY <2>1 DEF Calm
  <2> QED
    BY <1>1, <1>3, <2>1, <2>2
<1>13. CASE DeleteComposeInstance(t)
  <2> PICK p : p = task[t].proj
    OBVIOUS
  <2>1. ~DeployRecord(t)
    BY <1>13 DEF DeleteComposeInstance, DeployRecord, At
  <2>2. \A s \in Projects : rec'[s] = IF s = p THEN Nothing ELSE rec[s]
    BY <1>13 DEF DeleteComposeInstance, Stated
  <2>3. Recorded'
    <3> SUFFICES ASSUME NEW s \in Projects, NEW x, x = rec'[s], NEW g, g = good'[s]
                 PROVE  Agrees(x, g)
      BY DEF Recorded
    <3>1. CASE rec'[s] = rec[s]
      <4>1. g \in {Untold, good[s]}
        BY <1>2, <2>1, <3>1, GoodIs DEF Forgets
      <4> QED
        BY <3>1, <4>1 DEF Recorded, Agrees
    <3>2. CASE rec'[s] # rec[s]
      <4>1. Forgets(s) /\ x = Nothing
        BY <2>2, <3>2 DEF Forgets
      <4>2. g \in {Untold, Nothing}
        BY <1>2, <2>1, <4>1, GoodIs
      <4> QED
        BY <4>1, <4>2 DEF Agrees
    <3> QED
      BY <3>1, <3>2
  <2> QED
    BY <1>4, <1>13, <2>3 DEF DeleteComposeInstance
<1>14. CASE Fails(t)
  <2>1. ~DeployRecord(t)
    BY <1>14 DEF Fails, DeployRecord, At
  <2> QED
    BY <1>3, <1>4, <1>14, <2>1 DEF Fails
<1> QED
  BY <1>5, <1>6, <1>7, <1>8, <1>9, <1>10, <1>11, <1>12, <1>13, <1>14 DEF ProjectStep

LEMMA ContainerCalm ==
  ASSUME Stated, Asked, Asked', Staged, Recorded, NEW t \in Handlers, MCDockerNext,
         about = "containers", AtWork \subseteq {t},
         ContainerStep(t) \/ \E n \in Names : ContainerRequest(t, n)
  PROVE  Recorded' /\ AllCalm'
<1>1. \A p \in Projects, u \in Handlers : ~Deployed(u, p)
  BY DEF Staged, Stages, Deployed, DeployRecord, At, Containing, Upgrading
<1>2. \A p \in Projects : good'[p] \in {Nothing, Untold}
  BY <1>1, GoodIs DEF Staged
<1>3. \A u \in Handlers : task'[u].at \in Containing \cup {"idle"}
  BY StagedStep DEF Staged, Stages, MCDockerNext
<1>4. \A u \in Handlers : u = t \/ task'[u] = task[u]
  BY DEF ContainerStep, ContainerRequest, PullImageWait, UpgradeEnds, StopOld, RecreateContainer,
     RemoveOld,
     RemoveOldFails, RenameContainer, RenameFails, StartNew, Upgraded, UpgradeFails, ConvertStop,
     ConvertRemove, ConvertRecord, Upgrade, Convert, Accept, Done, Goto, StartContainer,
     StopContainer, RemoveContainer, Asked
<1>5. AllCalm'
  <2> PICK q : q = task'[t]
    OBVIOUS
  <2>1. Calm(q)'
    BY <1>3 DEF Calm, Containing, Upgrading
  <2> QED
    BY <1>4, <2>1, NextCalm
<1>6. \A p \in Projects : \/ rec'[p] = rec[p]
                          \/ rec'[p] # Nothing /\ rec'[p].last = Nothing
  <2>1. CASE ConvertRecord(t)
    <3> PICK r : r = Record(TRUE, TRUE, "own")
      OBVIOUS
    <3>1. r # Nothing /\ r.last = Nothing
      BY RecordIs, NothingAssumption DEF Placements
    <3>2. rec' = [rec EXCEPT ![task[t].proj] = r]
      BY <2>1 DEF ConvertRecord, Store
    <3> QED
      BY <3>1, <3>2 DEF Stated
  <2>2. CASE ~ConvertRecord(t)
    BY <2>2 DEF ContainerStep, ContainerRequest, PullImageWait, StopOld, RecreateContainer, RemoveOld,
       RemoveOldFails, RenameContainer, RenameFails, StartNew, Upgraded, UpgradeFails, ConvertStop,
       ConvertRemove, Upgrade, Convert, StartContainer, StopContainer, RemoveContainer
  <2> QED
    BY <2>1, <2>2
<1>7. Recorded'
  <2> SUFFICES ASSUME NEW p \in Projects, NEW x, x = rec'[p], NEW g, g = good'[p]
               PROVE  Agrees(x, g)
    BY DEF Recorded
  <2>1. CASE x = rec[p]
    <3>1. ~Forgets(p)
      BY <2>1 DEF Forgets
    <3>2. g \in {Untold, good[p]}
      BY <1>1, <3>1, GoodIs
    <3> QED
      BY <2>1, <3>2 DEF Recorded, Agrees
  <2>2. CASE x # Nothing /\ x.last = Nothing
    BY <1>2, <2>2 DEF Agrees
  <2> QED
    BY <1>6, <2>1, <2>2
<1> QED
  BY <1>5, <1>7

(* A step is of one request, or of none, or ends them all. *)
LEMMA OneMoves ==
  ASSUME Asked, MCDockerNext
  PROVE  \/ task' = task
         \/ \A v \in Handlers : task'[v].at = "idle"
         \/ \E t \in Handlers : \A v \in Handlers : v = t \/ task'[v] = task[v]
<1>1. ASSUME NEW t \in Handlers,
             \/ Listing(t) \/ ProjectStep(t) \/ ContainerStep(t)
             \/ \E p \in Projects : Project(t, p)
             \/ \E n \in Names : ContainerRequest(t, n)
      PROVE  \A v \in Handlers : v = t \/ task'[v] = task[v]
  <2> DEFINE One == \A v \in Handlers : v = t \/ task'[v] = task[v]
  <2>1. CASE Listing(t)
    BY <2>1 DEF Listing, List, ListKnown, ListSave, ListScan, ListRegister, Accept, Done, Asked
  <2>2. CASE ProjectStep(t)
    BY <2>2 DEF ProjectStep, WriteFile, SaveComposeInstance, TryLock, DeployRead, DeployUp,
       DeployRecord, DeployUnrecorded, DeployFails, RemoveData, removeProjectVolumes,
       DeleteComposeInstance, Fails, Goto, Done, Asked
  <2>3. CASE ContainerStep(t)
    BY <2>3 DEF ContainerStep, PullImageWait, UpgradeEnds, StopOld, RecreateContainer, RemoveOld,
       RemoveOldFails, RenameContainer, RenameFails, StartNew, Upgraded, UpgradeFails, ConvertStop,
       ConvertRemove, ConvertRecord, Done, Goto, Asked
  <2>4. ASSUME NEW p \in Projects, Project(t, p) PROVE One
    BY <2>4 DEF Project, CreateProject, Save, Adopt, Restore, Deploy, Down, RestartProject, DeleteProject, Accept, Asked
  <2>5. ASSUME NEW n \in Names, ContainerRequest(t, n) PROVE One
    BY <2>5 DEF ContainerRequest, Upgrade, Convert, Accept, StartContainer, StopContainer, RemoveContainer,
       Asked
  <2> QED
    BY <1>1, <2>1, <2>2, <2>3, <2>4, <2>5
<1>2. CASE Sync \/ SyncFails
  BY <1>2 DEF Sync, SyncFails
<1>3. CASE Outside
  BY <1>3 DEF Outside, UserUp, UserDown, UserRemoves, NewImage, StartsAgain, NoTask
<1> QED
  BY <1>1, <1>2, <1>3, DockerSteps

LEMMA BusyFinite ==
  ASSUME Asked, MCDockerNext, IsFiniteSet(AtWork)
  PROVE  IsFiniteSet(AtWork')
<1>1. CASE task' = task
  <2>1. AtWork' = AtWork
    BY <1>1 DEF AtWork
  <2> QED
    BY <2>1
<1>2. CASE \A v \in Handlers : task'[v].at = "idle"
  <2>1. AtWork' = {}
    BY <1>2 DEF AtWork
  <2> QED
    BY <2>1, FS_EmptySet
<1>3. ASSUME NEW t \in Handlers, \A v \in Handlers : v = t \/ task'[v] = task[v]
      PROVE  IsFiniteSet(AtWork')
  <2>1. AtWork' \subseteq AtWork \cup {t}
    BY <1>3 DEF AtWork
  <2>2. IsFiniteSet(AtWork \cup {t})
    BY FS_AddElement
  <2> QED
    BY <2>1, <2>2, FS_Subset
<1> QED
  BY <1>1, <1>2, <1>3, OneMoves

LEMMA RestoreStep ==
  ASSUME Stated, Asked, Asked', RestoreInv, MCDockerNext
  PROVE  RestoreInv'
<1>1. Staged /\ Recorded /\ AllCalm /\ rough \subseteq AtWork /\ IsFiniteSet(AtWork)
  BY DEF RestoreInv
<1>2. Staged'
  BY <1>1, StagedStep
<1>3. rough' = {t \in AtWork' : t \in rough \/ Crowded \/ Failing}
  BY DEF MCDockerNext
<1>4. IsFiniteSet(AtWork')
  BY <1>1, BusyFinite
<1>5. ~Crowded => \A x, y \in AtWork' : x = y
  BY <1>4, AtMostOne DEF Crowded
<1>6. SUFFICES Recorded' /\ AllCalm'
  BY <1>2, <1>3, <1>4 DEF RestoreInv
<1>7. CASE Crowded
  <2>1. Recorded'
    BY <1>7, GoodIs DEF Recorded, Agrees
  <2>2. AtWork' = rough'
    BY <1>3, <1>7
  <2> QED
    BY <2>1, <2>2 DEF AllCalm
<1>8. CASE ~Crowded /\ rough # {}
  <2>1. Recorded'
    BY <1>8, GoodIs DEF Recorded, Agrees
  <2>2. ASSUME NEW x \in AtWork', x \notin rough' PROVE FALSE
    <3>1. PICK t \in rough : t \in AtWork
      BY <1>1, <1>8
    <3>2. x \notin rough /\ x \notin AtWork /\ x # t
      BY <1>1, <1>3, <2>2, <3>1 DEF AllCalm
    <3>3. x \in Handlers /\ t \in Handlers /\ task'[x] # task[x]
      BY <2>2, <3>1, <3>2 DEF AtWork
    <3>4. task'[x].at # "idle"
      BY <2>2 DEF AtWork
    <3>5. task'[t] = task[t]
      BY <3>2, <3>3, <3>4, OneMoves
    <3>6. t \in AtWork'
      BY <3>1, <3>3, <3>5 DEF AtWork
    <3> QED
      BY <1>5, <1>8, <2>2, <3>2, <3>6
  <2> QED
    BY <2>1, <2>2 DEF AllCalm
<1>9. CASE ~Crowded /\ rough = {}
  <2>1. ASSUME NEW t \in Handlers, t \in AtWork \/ task'[t].at # "idle",
               \A v \in Handlers : v = t \/ task'[v] = task[v]
        PROVE  AtWork \subseteq {t} /\ Calm(task[t])
    <3>1. CASE t \in AtWork
      BY <1>1, <1>9, <3>1 DEF AllCalm
    <3>2. CASE t \notin AtWork
      <4>1. t \in AtWork'
        BY <2>1, <3>2 DEF AtWork
      <4>2. \A v \in AtWork : v # t => v \in AtWork'
        BY <2>1 DEF AtWork
      <4>3. task[t].at = "idle"
        BY <3>2 DEF AtWork
      <4>4. Calm(task[t])
        BY <4>3 DEF Calm
      <4> QED
        BY <1>5, <1>9, <4>1, <4>2, <4>4
    <3> QED
      BY <3>1, <3>2
  <2>2. ASSUME NEW t \in Handlers,
               \/ Listing(t) \/ ProjectStep(t) \/ ContainerStep(t)
        PROVE  AtWork \subseteq {t} /\ Calm(task[t])
    <3>1. \A v \in Handlers : v = t \/ task'[v] = task[v]
      BY <2>2 DEF Listing, List, ListKnown, ListSave, ListScan, ListRegister, Accept,
         ProjectStep, WriteFile, SaveComposeInstance, TryLock, DeployRead, DeployUp,
         DeployRecord, DeployUnrecorded, DeployFails, RemoveData, removeProjectVolumes,
         DeleteComposeInstance, Fails, ContainerStep, PullImageWait, UpgradeEnds, StopOld, RecreateContainer, RemoveOld,
         RemoveOldFails, RenameContainer, RenameFails, StartNew, Upgraded, UpgradeFails,
         ConvertStop, ConvertRemove, ConvertRecord, Done, Goto, Asked
    <3>2. CASE List(t)
      <4>1. task'[t].at = "known"
        BY <3>2 DEF List, Accept, NoTask, Asked
      <4> QED
        BY <2>1, <3>1, <4>1
    <3>3. CASE ~List(t)
      <4>1. Fails(t) => task[t].at # "idle"
        BY DEF Fails
      <4>2. task[t].at # "idle"
        BY <2>2, <3>3, <4>1, StepPlaces DEF Listing, Holding, Containing, Upgrading
      <4> QED
        BY <2>1, <3>1, <4>2 DEF AtWork
    <3> QED
      BY <3>2, <3>3
  <2>3. ASSUME NEW t \in Handlers, task[t].at = "idle", task'[t].at # "idle",
               \A v \in Handlers : v = t \/ task'[v] = task[v]
        PROVE  AtWork = {}
    <3>1. AtWork \subseteq {t}
      BY <2>1, <2>3
    <3> QED
      BY <2>3, <3>1 DEF AtWork
  <2>4. ASSUME NEW t \in Handlers, Listing(t) PROVE Recorded' /\ AllCalm'
    BY <1>1, <2>2, <2>4, ListingCalm
  <2>5. ASSUME NEW t \in Handlers, ProjectStep(t) PROVE Recorded' /\ AllCalm'
    BY <1>1, <1>9, <2>2, <2>5, ProjectStepCalm
  <2>6. ASSUME NEW t \in Handlers, ContainerStep(t) PROVE Recorded' /\ AllCalm'
    <3>1. about = "containers"
      BY <1>1, <2>6, StepPlaces DEF Staged, Stages, Projecting, Containing, Upgrading
    <3> QED
      BY <1>1, <2>2, <2>6, <3>1, ContainerCalm
  <2>7. ASSUME NEW t \in Handlers, NEW p \in Projects, Project(t, p) PROVE Recorded' /\ AllCalm'
    <3>1. CASE Restore(p) \/ Down(p) \/ RestartProject(p)
      <4>1. AtWork = {}
        BY <1>9, <3>1 DEF Crowded, AtOnce
      <4> QED
        BY <1>1, <1>9, <2>7, <4>1, ProjectCalm
    <3>2. CASE ~(Restore(p) \/ Down(p) \/ RestartProject(p))
      <4>1. /\ task[t].at = "idle" /\ task'[t].at # "idle"
            /\ \A v \in Handlers : v = t \/ task'[v] = task[v]
        <5>1. CASE \E y \in Yamls : CreateProject(t, p, y) \/ Save(t, p, y)
          <6>1. PICK y \in Yamls : CreateProject(t, p, y) \/ Save(t, p, y)
            BY <5>1
          <6>2. CASE CreateProject(t, p, y)
            BY <6>2 DEF CreateProject, NoTask, Accept, At, Asked
          <6>3. CASE Save(t, p, y)
            BY <6>3 DEF Save, NoTask, Accept, At, Asked
          <6> QED
            BY <6>1, <6>2, <6>3
        <5>2. CASE Adopt(t, p) \/ Deploy(t, p)
          BY <5>2 DEF Adopt, Deploy, NoTask, Accept, At, Asked
        <5>3. CASE \E remove \in SUBSET {"data", "volumes"} : DeleteProject(t, p, remove)
          BY <5>3 DEF DeleteProject, NoTask, Accept, At, Asked
        <5> QED
          BY <2>7, <3>2, <5>1, <5>2, <5>3 DEF Project
      <4>2. AtWork = {}
        BY <2>3, <4>1
      <4> QED
        BY <1>1, <1>9, <2>7, <4>2, ProjectCalm
    <3> QED
      BY <3>1, <3>2
  <2>8. ASSUME about = "containers", NEW t \in Handlers, NEW n \in Names, ContainerRequest(t, n)
        PROVE  Recorded' /\ AllCalm'
    <3>1. CASE \E s \in Slots : StartContainer(s) \/ StopContainer(s) \/ RemoveContainer(s)
      <4>1. AtWork = {}
        BY <1>9, <3>1 DEF Crowded, OfContainers
      <4> QED
        BY <1>1, <2>8, <4>1, ContainerCalm
    <3>2. CASE ~\E s \in Slots : StartContainer(s) \/ StopContainer(s) \/ RemoveContainer(s)
      <4>1. Upgrade(t, n) \/ \E p \in Projects, y \in Yamls : Convert(t, n, p, y)
        BY <2>8, <3>2, SlotNames DEF ContainerRequest
      <4>2. /\ task[t].at = "idle" /\ task'[t].at # "idle"
            /\ \A v \in Handlers : v = t \/ task'[v] = task[v]
        BY <4>1, ZenonT(30) DEF Upgrade, Convert, NoTask, Accept, At, Asked
      <4>3. AtWork = {}
        BY <2>3, <4>2
      <4> QED
        BY <1>1, <2>8, <4>3, ContainerCalm
    <3> QED
      BY <3>1, <3>2
  <2>9. CASE Sync \/ SyncFails
    <3>1. task' = task /\ rec' = rec /\ disk' = disk /\ up' = up
      BY <2>9 DEF Sync, SyncFails, docker
    <3>2. \A p \in Projects, u \in Handlers : ~Deployed(u, p)
      BY <3>1 DEF Deployed, DeployRecord, At, Done, NoTask, Asked
    <3>3. \A p \in Projects : good'[p] \in {Untold, good[p]}
      BY <3>1, <3>2, GoodIs DEF Forgets
    <3> QED
      BY <1>1, <1>9, <3>1, <3>3, StillCalm
  <2>10. CASE Outside
    <3>1. AtWork = {}
      BY <1>9, <2>10 DEF Crowded
    <3>2. rec' = rec
      BY <2>10 DEF Outside, UserUp, UserDown, UserRemoves, NewImage, StartsAgain
    <3>3. \A p \in Projects, u \in Handlers : ~Deployed(u, p)
      BY <3>1 DEF Deployed, DeployRecord, At, AtWork
    <3>4. \A p \in Projects : good'[p] \in {Untold, good[p]}
      BY <3>2, <3>3, GoodIs DEF Forgets
    <3>5. CASE StartsAgain
      <4>1. AtWork' = {}
        BY <3>5 DEF StartsAgain, AtWork, NoTask
      <4>2. Recorded'
        BY <1>1, <3>2, <3>4, KeptRecorded
      <4> QED
        BY <4>1, <4>2 DEF AllCalm
    <3>6. CASE ~StartsAgain
      <4>1. task' = task
        BY <2>10, <3>6 DEF Outside, UserUp, UserDown, UserRemoves, NewImage
      <4> QED
        BY <1>1, <1>9, <3>1, <3>2, <3>4, <4>1, StillCalm
    <3> QED
      BY <3>5, <3>6
  <2>11. CASE Asks
    BY <2>4, <2>7, <2>8, <2>11 DEF Asks, Listing
  <2>12. CASE Runs
    BY <2>4, <2>5, <2>6, <2>12 DEF Runs, Listing
  <2>13. CASE Happens
    BY <2>9, <2>10, <2>13 DEF Happens, Outside
  <2> QED
    BY <2>9, <2>11, <2>12, <2>13 DEF MCDockerNext
<1> QED
  BY <1>7, <1>8, <1>9

(* For any projects, files, goroutines, requests and mishaps: what "restore"
   writes is what the last successful deployment started, as long as no requests
   overlapped and nothing was created over the project since. *)
THEOREM RestoreFollows == MCDockerSpec => []CalmRestoreIsLastDeployed
<1>1. MCDockerInit => RestoreInv
  <2> SUFFICES ASSUME MCDockerInit PROVE RestoreInv
    OBVIOUS
  <2>1. \A t \in Handlers : task[t].at = "idle"
    BY DEF MCDockerInit, DockerInit, NoTask
  <2>2. AtWork = {}
    BY <2>1 DEF AtWork
  <2>3. Staged
    BY <2>1 DEF MCDockerInit, Staged, Stages, Projecting
  <2>4. Recorded
    BY DEF MCDockerInit, DockerInit, Recorded, Agrees
  <2>5. rough = {} /\ IsFiniteSet(AtWork)
    BY <2>2, FS_EmptySet DEF MCDockerInit
  <2> QED
    BY <2>2, <2>3, <2>4, <2>5 DEF RestoreInv, AllCalm
<1>2. Typed /\ Typed' /\ RestoreInv /\ [MCDockerNext]_mcdockervars => RestoreInv'
  <2>1. Typed /\ Typed' /\ RestoreInv /\ MCDockerNext => RestoreInv'
    BY RestoreStep DEF Typed
  <2>2. RestoreInv /\ UNCHANGED mcdockervars => RestoreInv'
    BY DEF RestoreInv, Staged, Stages, Recorded, AllCalm, AtWork, Calm, Agrees, mcdockervars, dockervars, docker
  <2> QED
    BY <2>1, <2>2
<1>3. RestoreInv => CalmRestoreIsLastDeployed
  BY DEF RestoreInv, Recorded, Agrees, CalmRestoreIsLastDeployed
<1> QED
  BY <1>1, <1>2, <1>3, DockerTyped, PTL DEF MCDockerSpec
===============================================================================
