-------------------------------- MODULE Docker --------------------------------
(***************************************************************************)
(* Compose projects and the containers of the host: their records, their   *)
(* files, what docker runs of them, and the upgrade of a container to a    *)
(* newer image (internal/adapter/docker/compose, internal/handler,         *)
(* docker_*.go).                                                           *)
(*                                                                         *)
(* A project's file lies in the directory GateBox keeps for it ("own") or  *)
(* somewhere else ("ext"); the external ones may have several files        *)
(* ("many"), of which the first is the one at "ext".  A reload of the      *)
(* gateway after an action is one step here; its parts are in Gateway.     *)
(***************************************************************************)
EXTENDS Naturals, FiniteSets

CONSTANTS
  Projects,
  Begins,     (* pairs of projects: the name of the first and an           *)
              (* underscore begin the name of the second                   *)
  Yamls,      (* contents of a compose file                                *)
  Names,      (* containers outside of any project                         *)
  Images,     (* number of images a container's reference may stand for    *)
  MaxMade,    (* number of containers there ever are                       *)
  Handlers,   (* goroutines serving requests                               *)
  Nothing     (* no record, no file, no container                          *)

ASSUME DockerAssumption ==
  Images \in Nat /\ MaxMade \in Nat /\ Begins \subseteq Projects \X Projects

(* What there may be of records and containers; to have none is neither.   *)
Placements == {"own", "ext", "many"}
Records    == [managed : BOOLEAN, editable : BOOLEAN, files : Placements, last : Yamls \cup {Nothing}]
Containers == [id : Names \X Nat, image : Nat, on : BOOLEAN]
Made       == [files : Placements, yaml : Yamls]
ASSUME NothingAssumption == Nothing \notin Records \cup Containers \cup Made

VARIABLES
  rec,     (* per project its record                                       *)
  disk,    (* per project and place the file there                         *)
  up,      (* per project what its containers were made from               *)
  vols,    (* projects that have named volumes, "<project>_..."            *)
  locks,   (* projects that are being deployed                             *)
  ctr,     (* per name the container of that name                          *)
  serial,  (* number of containers made                                    *)
  image,   (* what the reference stands for in the registry and locally    *)
  syncs,   (* reloads of the gateway that were started and have not ended  *)
  routed,  (* what the last reload saw of docker                           *)
  task     (* per goroutine what it is about to do                         *)

docker == <<up, ctr>>
dockervars == <<rec, disk, docker, vols, locks, serial, image, syncs, routed, task>>

Record(managed, editable, files) ==
  [managed |-> managed, editable |-> editable, files |-> files, last |-> Nothing]
Up(files, y) == [files |-> files, yaml |-> y]

(* composePaths: where the file of a project is. *)
composePaths(r) == IF r.managed \/ r.files = "own" THEN "own" ELSE "ext"
isManagedConfig(files) == files = "own"
composeEditable(managed, adopted, files) == (managed \/ adopted) /\ files # "many"

(* A container while it is upgraded has its name with "-upgrade" added; its *)
(* id is the name it is made for and how many were made by then.           *)
Slots == Names \X {"", "-upgrade"}
Proper(n) == <<n, "">>
Tmp(n) == <<n, "-upgrade">>
SlotsOf(id) == {s \in Slots : ctr[s] # Nothing /\ ctr[s].id = id}

NoTask == [at |-> "idle", proj |-> Nothing, rec |-> Nothing, yaml |-> Nothing,
         found |-> Nothing, known |-> Nothing, todo |-> {},
         name |-> Nothing, det |-> Nothing, new |-> Nothing]
At(t, where) == task[t].at = where
Goto(t, where) == task' = [task EXCEPT ![t].at = where]
Done(t) == task' = [task EXCEPT ![t] = NoTask]
Accept(t, o) == At(t, "idle") /\ task' = [task EXCEPT ![t] = o]

(* The bucket of the records, by the name of the project. *)
Known(p) == rec[p] # Nothing
Store(p, r) == rec' = [rec EXCEPT ![p] = r]

(* syncCaddyAsync: a goroutine of its own reloads the gateway. *)
syncCaddyAsync == syncs' = syncs + 1

-----------------------------------------------------------------------------
(* The list of projects, which also writes records                         *)

List(t) ==
  /\ Accept(t, [NoTask EXCEPT !.at = "known", !.found = up])
  /\ UNCHANGED <<rec, disk, docker, vols, locks, serial, image, syncs, routed>>

ListKnown(t) ==
  /\ At(t, "known")
  /\ task' = [task EXCEPT ![t].at = "save", ![t].known = rec,
              ![t].todo = {p \in Projects : task[t].found[p] # Nothing \/ Known(p)}]
  /\ UNCHANGED <<rec, disk, docker, vols, locks, serial, image, syncs, routed>>

(* What is written of a project: one that docker knows has its files from  *)
(* there; one that only has a record stays editable if it is managed.      *)
Listed(found, known) ==
  IF found # Nothing
  THEN LET r == IF known = Nothing
                THEN Record(isManagedConfig(found.files), FALSE, found.files)
                ELSE [known EXCEPT !.files = found.files]
       IN [r EXCEPT !.editable = composeEditable(r.managed, r.editable, found.files)]
  ELSE [known EXCEPT !.editable = known.managed \/ @]

ListSave(t) ==
  /\ At(t, "save")
  /\ \E p \in task[t].todo :
       /\ rec' = IF task[t].found[p] # Nothing \/ task[t].known[p].managed
                 THEN [rec EXCEPT ![p] = Listed(task[t].found[p], task[t].known[p])]
                 ELSE rec
       /\ task' = [task EXCEPT ![t].todo = @ \ {p}]
  /\ UNCHANGED <<disk, docker, vols, locks, serial, image, syncs, routed>>

(* scanManagedProjects: directories with a file and nothing else known. *)
ListScan(t) ==
  /\ At(t, "save") /\ task[t].todo = {}
  /\ task' = [task EXCEPT ![t].at = "register", ![t].todo =
       {p \in Projects : disk[p].own # Nothing
                         /\ task[t].found[p] = Nothing /\ task[t].known[p] = Nothing}]
  /\ UNCHANGED <<rec, disk, docker, vols, locks, serial, image, syncs, routed>>

ListRegister(t) ==
  /\ At(t, "register")
  /\ IF task[t].todo = {}
     THEN Done(t) /\ UNCHANGED rec
     ELSE \E p \in task[t].todo :
            /\ Store(p, Record(TRUE, TRUE, "own"))
            /\ task' = [task EXCEPT ![t].todo = @ \ {p}]
  /\ UNCHANGED <<disk, docker, vols, locks, serial, image, syncs, routed>>

-----------------------------------------------------------------------------
(* Files and records                                                       *)

(* POST: the file is written, whatever is there, and then the record. *)
CreateProject(t, p, y) ==
  /\ Accept(t, [NoTask EXCEPT !.at = "record", !.proj = p, !.rec = Record(TRUE, TRUE, "own")])
  /\ disk' = [disk EXCEPT ![p].own = y]
  /\ UNCHANGED <<rec, docker, vols, locks, serial, image, syncs, routed>>

(* PUT: the record is read, the file written, the record written again. *)
Save(t, p, y) ==
  /\ Known(p) /\ rec[p].editable
  /\ Accept(t, [NoTask EXCEPT !.at = "write", !.proj = p, !.rec = rec[p], !.yaml = y])
  /\ UNCHANGED <<rec, disk, docker, vols, locks, serial, image, syncs, routed>>

WriteFile(t) ==
  /\ At(t, "write")
  /\ disk' = [disk EXCEPT ![task[t].proj][composePaths(task[t].rec)] = task[t].yaml]
  /\ Goto(t, "record")
  /\ UNCHANGED <<rec, docker, vols, locks, serial, image, syncs, routed>>

(* Wrong: the record is put together from what the request knows of it. *)
SaveAnew(t) ==
  /\ At(t, "record")
  /\ Store(task[t].proj,
       Record(task[t].rec.managed, task[t].rec.editable, task[t].rec.files))
  /\ Done(t)
  /\ UNCHANGED <<disk, docker, vols, locks, serial, image, syncs, routed>>
SaveComposeInstance(t) ==
  /\ At(t, "record")
  /\ Store(task[t].proj, task[t].rec)
  /\ Done(t)
  /\ UNCHANGED <<disk, docker, vols, locks, serial, image, syncs, routed>>

(* The file is what was deployed last, whether or not it may be edited. *)
Restore(p) ==
  /\ Known(p) /\ rec[p].last # Nothing
  /\ disk' = [disk EXCEPT ![p][composePaths(rec[p])] = rec[p].last]
  /\ UNCHANGED <<rec, docker, vols, locks, serial, image, syncs, routed, task>>

(* A file of the same name in GateBox's directory will do; what it holds   *)
(* (an include or an extends is refused) is left out.                      *)
Adopt(t, p) ==
  /\ Known(p) /\ ~rec[p].managed /\ rec[p].files # "many"
  /\ disk[p][composePaths(rec[p])] # Nothing \/ disk[p].own # Nothing
  /\ Accept(t, [NoTask EXCEPT !.at = "record", !.proj = p,
                 !.rec = [rec[p] EXCEPT !.editable = TRUE]])
  /\ UNCHANGED <<rec, disk, docker, vols, locks, serial, image, syncs, routed>>

-----------------------------------------------------------------------------
(* What runs                                                               *)

Deploy(t, p) ==
  /\ Known(p)
  /\ Accept(t, [NoTask EXCEPT !.at = "lock", !.proj = p, !.rec = rec[p]])
  /\ UNCHANGED <<rec, disk, docker, vols, locks, serial, image, syncs, routed>>

TryLock(t) ==
  /\ At(t, "lock")
  /\ IF task[t].proj \in locks
     THEN Done(t) /\ UNCHANGED locks
     ELSE Goto(t, "read") /\ locks' = locks \cup {task[t].proj}
  /\ UNCHANGED <<rec, disk, docker, vols, serial, image, syncs, routed>>

DeployRead(t) ==
  /\ At(t, "read")
  /\ task' = [task EXCEPT ![t].at = "up",
              ![t].yaml = disk[task[t].proj][composePaths(task[t].rec)]]
  /\ UNCHANGED <<rec, disk, docker, vols, locks, serial, image, syncs, routed>>

(* compose reads the file itself, by the project's directory. *)
DeployUp(t) ==
  LET p == task[t].proj
      where == composePaths(task[t].rec)
  IN /\ At(t, "up")
     /\ disk[p][where] # Nothing
     /\ up' = [up EXCEPT ![p] = Up(where, disk[p][where])]
     /\ vols' = vols \cup {p}
     /\ Goto(t, "deployed")
     /\ UNCHANGED <<rec, disk, ctr, locks, serial, image, syncs, routed>>

DeployRecord(t) ==
  /\ At(t, "deployed")
  /\ Store(task[t].proj, [task[t].rec EXCEPT !.last = task[t].yaml])
  /\ locks' = locks \ {task[t].proj}
  /\ syncCaddyAsync
  /\ Done(t)
  /\ UNCHANGED <<disk, docker, vols, serial, image, routed>>

(* An error of writing the record is dropped. *)
DeployUnrecorded(t) ==
  /\ At(t, "deployed")
  /\ locks' = locks \ {task[t].proj}
  /\ syncCaddyAsync
  /\ Done(t)
  /\ UNCHANGED <<rec, disk, docker, vols, serial, image, routed>>

(* The deployment fails, or who watches it closes the page: what compose   *)
(* made stays, the lock is freed.                                          *)
DeployFails(t) ==
  /\ task[t].at \in {"read", "up", "deployed"}
  /\ locks' = locks \ {task[t].proj}
  /\ Done(t)
  /\ UNCHANGED <<rec, disk, docker, vols, serial, image, syncs, routed>>

(* Wrong: the gateway is not told. *)
DownOnly(p) ==
  /\ Known(p)
  /\ disk[p][composePaths(rec[p])] # Nothing
  /\ up' = [up EXCEPT ![p] = Nothing]
  /\ UNCHANGED <<rec, disk, ctr, vols, locks, serial, image, syncs, routed, task>>
(* compose must find the file it is given. *)
Down(p) ==
  /\ Known(p)
  /\ disk[p][composePaths(rec[p])] # Nothing
  /\ up' = [up EXCEPT ![p] = Nothing]
  /\ syncCaddyAsync
  /\ UNCHANGED <<rec, disk, ctr, vols, locks, serial, image, routed, task>>

(* DELETE: down, then, if it is managed and asked for, its data and its    *)
(* volumes, then the record.  The gateway is not told.                     *)
DeleteProject(t, p, remove) ==
  /\ Known(p)
  /\ disk[p][composePaths(rec[p])] # Nothing
  /\ up' = [up EXCEPT ![p] = Nothing]
  /\ Accept(t, [NoTask EXCEPT !.at = "forget", !.proj = p,
                 !.todo = IF rec[p].managed THEN remove ELSE {}])
  /\ UNCHANGED <<rec, disk, ctr, vols, locks, serial, image, syncs, routed>>

RemoveData(t) ==
  /\ At(t, "forget") /\ "data" \in task[t].todo
  /\ disk' = [disk EXCEPT ![task[t].proj].own = Nothing]
  /\ task' = [task EXCEPT ![t].todo = @ \ {"data"}]
  /\ UNCHANGED <<rec, docker, vols, locks, serial, image, syncs, routed>>

(* Every volume whose name begins with the project's and an underscore;    *)
(* docker refuses the ones that are in use.                                *)
removeProjectVolumes(t) ==
  /\ At(t, "forget") /\ task[t].todo = {"volumes"}
  /\ vols' = {q \in vols : \/ up[q] # Nothing
                           \/ q # task[t].proj /\ <<task[t].proj, q>> \notin Begins}
  /\ task' = [task EXCEPT ![t].todo = {}]
  /\ UNCHANGED <<rec, disk, docker, locks, serial, image, syncs, routed>>

DeleteComposeInstance(t) ==
  /\ At(t, "forget") /\ task[t].todo = {}
  /\ rec' = [rec EXCEPT ![task[t].proj] = Nothing]
  /\ Done(t)
  /\ UNCHANGED <<disk, docker, vols, locks, serial, image, syncs, routed>>

-----------------------------------------------------------------------------
(* Containers                                                              *)

Set(s, c) == ctr' = [ctr EXCEPT ![s] = c]
StartContainer(s) ==
  /\ ctr[s] # Nothing
  /\ Set(s, [ctr[s] EXCEPT !.on = TRUE])
  /\ UNCHANGED <<rec, disk, up, vols, locks, serial, image, syncs, routed, task>>
StopContainer(s) ==
  /\ ctr[s] # Nothing
  /\ Set(s, [ctr[s] EXCEPT !.on = FALSE])
  /\ UNCHANGED <<rec, disk, up, vols, locks, serial, image, syncs, routed, task>>
(* One that runs is refused, here and by docker. *)
RemoveContainer(s) ==
  /\ ctr[s] # Nothing /\ ~ctr[s].on
  /\ Set(s, Nothing)
  /\ UNCHANGED <<rec, disk, up, vols, locks, serial, image, syncs, routed, task>>

(* upgradeOne: inspect and pull; a container of the image that is there    *)
(* after the pull is left alone.                                           *)
Upgrade(t, n) ==
  /\ ctr[Proper(n)] # Nothing
  /\ Accept(t, [NoTask EXCEPT !.at = "pull", !.name = n, !.det = ctr[Proper(n)]])
  /\ UNCHANGED <<rec, disk, docker, vols, locks, serial, image, syncs, routed>>

(* The sync that follows the request, whatever became of it. *)
UpgradeEnds(t) == Done(t) /\ syncCaddyAsync

PullImageWait(t) ==
  /\ At(t, "pull")
  /\ image' = [image EXCEPT !.here = image.there]
  /\ IF task[t].det.image = image'.here
     THEN UpgradeEnds(t)
     ELSE Goto(t, IF task[t].det.on THEN "stop" ELSE "create") /\ UNCHANGED syncs
  /\ UNCHANGED <<rec, disk, docker, vols, locks, serial, routed>>

(* Wrong: the old container goes before there is a new one. *)
StopAndRemoveOld(t) ==
  /\ At(t, "stop")
  /\ \E s \in SlotsOf(task[t].det.id) : Set(s, Nothing)
  /\ Goto(t, "create")
  /\ UNCHANGED <<rec, disk, up, vols, locks, serial, image, syncs, routed>>
StopOld(t) ==
  /\ At(t, "stop")
  /\ \E s \in SlotsOf(task[t].det.id) : Set(s, [ctr[s] EXCEPT !.on = FALSE])
  /\ Goto(t, "create")
  /\ UNCHANGED <<rec, disk, up, vols, locks, serial, image, syncs, routed>>

RecreateContainer(t) ==
  /\ At(t, "create")
  /\ ctr[Tmp(task[t].name)] = Nothing
  /\ serial < MaxMade
  /\ serial' = serial + 1
  /\ Set(Tmp(task[t].name), [id |-> <<task[t].name, serial'>>, image |-> image.here, on |-> FALSE])
  /\ task' = [task EXCEPT ![t].at = "remove", ![t].new = <<task[t].name, serial'>>]
  /\ UNCHANGED <<rec, disk, up, vols, locks, image, syncs, routed>>

(* A container that could not be removed keeps its name, the new one its   *)
(* temporary one.                                                          *)
Running(t) == IF task[t].det.on THEN "start" ELSE "ended"
RemoveOld(t) ==
  /\ At(t, "remove")
  /\ \E s \in SlotsOf(task[t].det.id) : ~ctr[s].on /\ Set(s, Nothing)
  /\ Goto(t, "rename")
  /\ UNCHANGED <<rec, disk, up, vols, locks, serial, image, syncs, routed>>
RemoveOldFails(t) ==
  /\ At(t, "remove")
  /\ Goto(t, Running(t))
  /\ UNCHANGED <<rec, disk, docker, vols, locks, serial, image, syncs, routed>>

RenameContainer(t) ==
  /\ At(t, "rename")
  /\ ctr[Proper(task[t].name)] = Nothing
  /\ \E s \in SlotsOf(task[t].new) :
       ctr' = [ctr EXCEPT ![Proper(task[t].name)] = ctr[s], ![s] = Nothing]
  /\ Goto(t, Running(t))
  /\ UNCHANGED <<rec, disk, up, vols, locks, serial, image, syncs, routed>>
RenameFails(t) ==
  /\ At(t, "rename")
  /\ Goto(t, Running(t))
  /\ UNCHANGED <<rec, disk, docker, vols, locks, serial, image, syncs, routed>>

StartNew(t) ==
  /\ At(t, "start")
  /\ \E s \in SlotsOf(task[t].new) : Set(s, [ctr[s] EXCEPT !.on = TRUE])
  /\ Goto(t, "ended")
  /\ UNCHANGED <<rec, disk, up, vols, locks, serial, image, syncs, routed>>

Upgraded(t) ==
  /\ At(t, "ended")
  /\ UpgradeEnds(t)
  /\ UNCHANGED <<rec, disk, docker, vols, locks, serial, image, routed>>

(* Any step before the removal that fails, and the start, ends it. *)
UpgradeFails(t) ==
  /\ task[t].at \in {"pull", "stop", "create", "start"}
  /\ UpgradeEnds(t)
  /\ UNCHANGED <<rec, disk, docker, vols, locks, serial, image, routed>>

(* A container becomes a project: file, container, record. *)
Convert(t, n, p, y) ==
  /\ ctr[Proper(n)] # Nothing
  /\ Accept(t, [NoTask EXCEPT !.at = "converting", !.proj = p, !.name = n, !.det = ctr[Proper(n)]])
  /\ disk' = [disk EXCEPT ![p].own = y]
  /\ UNCHANGED <<rec, docker, vols, locks, serial, image, syncs, routed>>
ConvertStop(t) ==
  /\ At(t, "converting") /\ task[t].det.on
  /\ \E s \in SlotsOf(task[t].det.id) : Set(s, [ctr[s] EXCEPT !.on = FALSE])
  /\ task' = [task EXCEPT ![t].det.on = FALSE]
  /\ UNCHANGED <<rec, disk, up, vols, locks, serial, image, syncs, routed>>
ConvertRemove(t) ==
  /\ At(t, "converting") /\ ~task[t].det.on
  /\ \E s \in SlotsOf(task[t].det.id) : ~ctr[s].on /\ Set(s, Nothing)
  /\ Goto(t, "converted")
  /\ UNCHANGED <<rec, disk, up, vols, locks, serial, image, syncs, routed>>
ConvertRecord(t) ==
  /\ At(t, "converted")
  /\ Store(task[t].proj, Record(TRUE, TRUE, "own"))
  /\ Done(t)
  /\ syncCaddyAsync
  /\ UNCHANGED <<disk, docker, vols, locks, serial, image, routed>>

(* A step of the others that fails ends the request. *)
Fails(t) ==
  /\ task[t].at \in {"known", "write", "record", "forget", "converting", "converted"}
  /\ Done(t)
  /\ UNCHANGED <<rec, disk, docker, vols, locks, serial, image, syncs, routed>>

-----------------------------------------------------------------------------
Sync ==
  /\ syncs > 0 /\ syncs' = syncs - 1
  /\ routed' = docker
  /\ UNCHANGED <<rec, disk, docker, vols, locks, serial, image, task>>
SyncFails ==
  /\ syncs > 0 /\ syncs' = syncs - 1
  /\ UNCHANGED <<rec, disk, docker, vols, locks, serial, image, routed, task>>
RestartProject(p) ==
  /\ Known(p)
  /\ disk[p][composePaths(rec[p])] # Nothing
  /\ syncCaddyAsync
  /\ UNCHANGED <<rec, disk, docker, vols, locks, serial, image, routed, task>>

(* Someone uses docker and the files without GateBox. *)
UserUp(p, files, y) ==
  /\ disk' = [disk EXCEPT ![p][IF files = "own" THEN "own" ELSE "ext"] = y]
  /\ up' = [up EXCEPT ![p] = Up(files, y)]
  /\ vols' = vols \cup {p}
  /\ UNCHANGED <<rec, ctr, locks, serial, image, syncs, routed, task>>
UserDown(p) ==
  /\ up' = [up EXCEPT ![p] = Nothing]
  /\ UNCHANGED <<rec, disk, ctr, vols, locks, serial, image, syncs, routed, task>>
UserRemoves(p, where) ==
  /\ disk' = [disk EXCEPT ![p][where] = Nothing]
  /\ UNCHANGED <<rec, docker, vols, locks, serial, image, syncs, routed, task>>
NewImage ==
  /\ image.there < Images
  /\ image' = [image EXCEPT !.there = @ + 1]
  /\ UNCHANGED <<rec, disk, docker, vols, locks, serial, syncs, routed, task>>

(* GateBox starts again; docker and the files stay. *)
StartsAgain ==
  /\ task' = [t \in Handlers |-> NoTask]
  /\ locks' = {} /\ syncs' = 0
  /\ UNCHANGED <<rec, disk, docker, vols, serial, image, routed>>

DockerInit ==
  /\ rec = [p \in Projects |-> Nothing]
  /\ disk = [p \in Projects |-> [own |-> Nothing, ext |-> Nothing]]
  /\ up = [p \in Projects |-> Nothing]
  /\ vols = {}
  /\ locks = {}
  /\ ctr \in {[s \in Slots |-> IF s[2] = "" THEN [id |-> <<s[1], 0>>, image |-> 0, on |-> b] ELSE Nothing] :
                b \in BOOLEAN}
  /\ serial = 0
  /\ image = [there |-> 0, here |-> 0]
  /\ syncs = 0
  /\ routed = docker
  /\ task = [t \in Handlers |-> NoTask]

Listing(t) == List(t) \/ ListKnown(t) \/ ListSave(t) \/ ListScan(t) \/ ListRegister(t)
Project(t, p) ==
  \/ \E y \in Yamls : CreateProject(t, p, y) \/ Save(t, p, y)
  \/ Adopt(t, p) \/ Restore(p) \/ Deploy(t, p) \/ Down(p) \/ RestartProject(p)
  \/ \E remove \in SUBSET {"data", "volumes"} : DeleteProject(t, p, remove)
ProjectStep(t) ==
  \/ WriteFile(t) \/ SaveComposeInstance(t) \/ TryLock(t) \/ DeployRead(t) \/ DeployUp(t)
  \/ DeployRecord(t) \/ DeployUnrecorded(t) \/ DeployFails(t)
  \/ RemoveData(t) \/ removeProjectVolumes(t) \/ DeleteComposeInstance(t) \/ Fails(t)
ContainerRequest(t, n) ==
  \/ Upgrade(t, n)
  \/ \E s \in {Proper(n), Tmp(n)} : StartContainer(s) \/ StopContainer(s) \/ RemoveContainer(s)
  \/ \E p \in Projects, y \in Yamls : Convert(t, n, p, y)
ContainerStep(t) ==
  \/ PullImageWait(t) \/ StopOld(t) \/ RecreateContainer(t)
  \/ RemoveOld(t) \/ RemoveOldFails(t) \/ RenameContainer(t) \/ RenameFails(t)
  \/ StartNew(t) \/ Upgraded(t) \/ UpgradeFails(t)
  \/ ConvertStop(t) \/ ConvertRemove(t) \/ ConvertRecord(t)
Outside ==
  \/ \E p \in Projects, f \in Placements, y \in Yamls : UserUp(p, f, y)
  \/ \E p \in Projects : UserDown(p) \/ UserRemoves(p, "own") \/ UserRemoves(p, "ext")
  \/ NewImage \/ StartsAgain

DockerNext ==
  \/ \E t \in Handlers :
       \/ Listing(t) \/ ProjectStep(t) \/ ContainerStep(t)
       \/ \E p \in Projects : Project(t, p)
       \/ \E n \in Names : ContainerRequest(t, n)
  \/ Sync \/ SyncFails
  \/ Outside

DockerSpec == DockerInit /\ [][DockerNext]_dockervars
===============================================================================
