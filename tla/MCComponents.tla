---------------------------- MODULE MCComponents ----------------------------
(* Instances of Components for TLC. *)
EXTENDS Components, TLC

CONSTANTS
  Requests,  (* bound: requests                                            *)
  Mishaps    (* bound: failing steps, restarts and releases                *)

VARIABLES
  requests, mishaps,  (* so far                                            *)
  crowded,  (* requests that were not alone at some time                   *)
  spoilt    (* components that something else than a lone plugin request   *)
            (* without a failure has touched last                          *)
mcvars == <<vars, requests, mishaps, crowded, spoilt>>

Busy == {t \in Threads : op[t].at # "idle"}
StoreRemoves == \E p \in Plugins : StoreRemove(p)
Fails == \E t \in Threads :
  \/ StepFails(t) \/ VersionUnknown(t)
  \/ Reload(t) /\ file[op[t].comp] # running[op[t].comp]

Spoils ==
  \/ Cardinality(Busy') > 1
  \/ Crash
  \/ StoreRemoves
  \/ Fails
  \/ \E t \in Threads, c \in Ids : Upgrade(t, c)
Cleans(c) == \E t \in Threads \ crowded : op[t].comp = c /\ Record(t)

MCInit == Init /\ requests = 0 /\ mishaps = 0 /\ crowded = {} /\ spoilt = {}
MCNext ==
  /\ Next
  /\ requests' = requests +
       (IF Cardinality(Busy') > Cardinality(Busy) \/ StoreRemoves THEN 1 ELSE 0)
  /\ requests' <= Requests
  /\ mishaps' = mishaps +
       (IF Crash \/ Fails \/ (\E c \in Ids : Release(c)) THEN 1 ELSE 0)
  /\ mishaps' <= Mishaps
  /\ crowded' = {t \in Busy' : t \in crowded \/ Cardinality(Busy') > 1 \/ StoreRemoves}
  /\ spoilt' = IF Spoils THEN Ids ELSE {c \in spoilt : ~Cleans(c)}
MCSpec == MCInit /\ [][MCNext]_mcvars

(* When nothing is under way, a binary has the features of the plugins     *)
(* that are enabled, if what touched it last is a plugin request that was  *)
(* alone and failed nowhere, and no upgrade or restart of GateBox came     *)
(* since: the request reads what is registered after it changed it.        *)
CalmBinaryHasFeatures ==
  Busy = {} => \A c \in Ids \ spoilt : file[c].features = ComponentFeatures(c, on)

(* And a unit then runs what is on the disk: the request that replaces its *)
(* binary starts it again.                                                 *)
CalmUnitRunsBinary ==
  Busy = {} => \A u \in Units \ spoilt : running[u] = file[u]
=============================================================================
