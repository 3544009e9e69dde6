------------------------------- MODULE MCDocker -------------------------------
(* Instances of Docker for TLC. *)
EXTENDS Docker

CONSTANTS
  MaxAsked,     (* bound: requests                                         *)
  MaxFailures,  (* bound: failing steps, restarts, changes from outside    *)
  Events,       (* bound: both together                                    *)
  Untold        (* what was deployed can no longer be told                 *)

MCBegins == {pq \in Projects \X Projects : pq[1] # pq[2] /\ pq[1] = CHOOSE p \in Projects : TRUE}

VARIABLES
  about,     (* "projects" or "containers": what the requests are about    *)
  requests, failures,  (* so far                                           *)
  rough,     (* requests that were not alone or met a failure              *)
  good,      (* per project what its last deployment that was recorded     *)
             (* started                                                    *)
  dropped,   (* containers that were removed by request                    *)
  loose      (* docker was changed by something that need not be routed    *)
mcdockervars == <<dockervars, about, requests, failures, rough, good, dropped, loose>>

AtWork == {t \in Handlers : task[t].at # "idle"}
Failing == \E t \in Handlers :
  \/ DeployFails(t) \/ Fails(t) \/ UpgradeFails(t) \/ RemoveOldFails(t) \/ RenameFails(t)
AtOnce == \E p \in Projects : Restore(p) \/ Down(p) \/ RestartProject(p)
OfContainers == \E s \in Slots : StartContainer(s) \/ StopContainer(s) \/ RemoveContainer(s)
Crowded == Cardinality(AtWork') > 1 \/ (AtWork # {} /\ (Outside \/ AtOnce \/ OfContainers))

(* The requests of each kind, and what goes on by itself. *)
Asks ==
  \/ about = "projects" /\ \E t \in Handlers : List(t) \/ \E p \in Projects : Project(t, p)
  \/ about = "containers" /\ \E t \in Handlers, n \in Names : ContainerRequest(t, n)
Runs == \E t \in Handlers :
  \/ ListKnown(t) \/ ListSave(t) \/ ListScan(t) \/ ListRegister(t)
  \/ ProjectStep(t) \/ ContainerStep(t)
Happens ==
  \/ SyncFails \/ StartsAgain
  \/ about = "projects" /\ Outside
  \/ about = "containers" /\ NewImage

Forgets(p) == rec[p] # Nothing /\ rec'[p] = Nothing
CreatedOver(p) == rec[p] # Nothing /\ \E t \in Handlers, y \in Yamls : CreateProject(t, p, y)
Deployed(t, p) == t \notin rough /\ task[t].proj = p /\ DeployRecord(t)
GoodNow(p) ==
  IF Crowded \/ rough # {} \/ CreatedOver(p) THEN Untold
  ELSE IF \E t \in Handlers : Deployed(t, p) THEN up[p].yaml
  ELSE IF Forgets(p) THEN Nothing
  ELSE good[p]

(* What an action of the list below does is followed by a reload. *)
Follows == \E t \in Handlers :
  \/ DeployRecord(t) \/ DeployUnrecorded(t) \/ ConvertRecord(t) \/ UpgradeEnds(t)
  \/ \E p \in Projects : Down(p)
Underway == \E t \in Handlers \ rough :
  \/ DeployUp(t) \/ ConvertStop(t) \/ ConvertRemove(t)
  \/ StopOld(t) \/ RecreateContainer(t) \/ RemoveOld(t) \/ RenameContainer(t) \/ StartNew(t)
LooseNow ==
  IF Sync THEN FALSE
  ELSE \/ loose
       \/ docker' # docker /\ ~Follows /\ ~Underway
       \/ StartsAgain \/ SyncFails \/ Failing

MCDockerInit ==
  /\ DockerInit
  /\ about \in {"projects", "containers"}
  /\ requests = 0 /\ failures = 0 /\ rough = {}
  /\ good = [p \in Projects |-> Nothing]
  /\ dropped = {} /\ loose = FALSE
MCDockerNext ==
  /\ \/ Asks /\ requests < MaxAsked /\ requests' = requests + 1 /\ failures' = failures
     \/ (Runs \/ Sync) /\ requests' = requests /\ failures' = failures + (IF Failing THEN 1 ELSE 0)
     \/ Happens /\ requests' = requests /\ failures' = failures + 1
  /\ failures' <= MaxFailures /\ requests' + failures' <= Events
  /\ about' = about
  /\ rough' = {t \in AtWork' : t \in rough \/ Crowded \/ Failing}
  /\ good' = [p \in Projects |-> GoodNow(p)]
  /\ dropped' = dropped \cup
       {n \in Names : \/ RemoveContainer(Proper(n)) \/ RemoveContainer(Tmp(n))
                      \/ \E t \in Handlers : task[t].name = n /\ ConvertRemove(t)}
  /\ loose' = LooseNow
MCDockerSpec == MCDockerInit /\ [][MCDockerNext]_mcdockervars

(* What "restore" writes into the file of a project is what its last       *)
(* successful deployment started: listings, saves, adoptions and requests  *)
(* that fail in between leave it in the record (requests that overlap, and *)
(* a creation over the project, need not).                                 *)
CalmRestoreIsLastDeployed ==
  \A p \in Projects : rec[p] # Nothing /\ good[p] # Untold => rec[p].last = good[p]

(* docker_upgrade.go, recreateWithImage: no failure, restart or overlap    *)
(* leaves a time when the old container is gone and the new one not made.  *)
NameNeverVacant ==
  \A n \in Names \ dropped : ctr[Proper(n)] # Nothing \/ ctr[Tmp(n)] # Nothing

(* When nothing is under way, the gateway's last reload saw what docker    *)
(* runs: each request that deploys, stops, converts or upgrades is         *)
(* followed by one.  Deleting a project, the requests of a container, and  *)
(* what is done outside of GateBox are not.                                *)
CalmRoutesFollow == AtWork = {} /\ syncs = 0 /\ ~loose => routed = docker

(* handler/docker_compose.go:464, removeProjectVolumes: the volumes of     *)
(* the project that is deleted are removed, those of another are not.      *)
OnlyOwnVolumesGo ==
  [][\A t \in Handlers, q \in Projects :
       removeProjectVolumes(t) /\ q # task[t].proj /\ q \in vols => q \in vols']_mcdockervars
===============================================================================
