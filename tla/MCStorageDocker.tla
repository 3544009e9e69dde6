--------------------------- MODULE MCStorageDocker ---------------------------
(* What GateBox keeps (MCStorage), and what it has Docker do (MCDocker),   *)
(* for TLC.  The two share no state of the model: a behaviour is one of    *)
(* one of them, the other stays as it starts.                              *)
EXTENDS MCStorage, MCDocker

VARIABLE side  (* "storage" or "docker"                                    *)

(* Which client it is that sends a request makes no difference: where one  *)
(* is chosen for all, its request is over with the step.                   *)
Symmetry == Permutations(Clients)
storage == <<part, objects, migrating, opened, daemonfile, conffile>>

(* Of what a behaviour is not about one initial state is enough. *)
SideInit ==
  /\ AllInit /\ MCDockerInit
  /\ side \in {"storage", "docker"}
  /\ side = "storage" => about = "projects" /\ \A n \in Names : ctr[Proper(n)].on
  /\ side = "docker" => part = "references"
SideNext ==
  /\ \/ side = "storage" /\ AllNext /\ UNCHANGED mcdockervars
     \/ side = "docker" /\ MCDockerNext /\ UNCHANGED storage
  /\ UNCHANGED side
SideSpec == SideInit /\ [][SideNext]_<<side, storage, mcdockervars>>
==============================================================================
