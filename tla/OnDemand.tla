------------------------------ MODULE OnDemand -------------------------------
(***************************************************************************)
(* What the statistics collector promises its viewers and the Docker       *)
(* daemon: there is collection while somebody watches, it stops only when  *)
(* nobody does, and when it is off nothing is read from the daemon.        *)
(***************************************************************************)
EXTENDS Naturals

CONSTANT Containers

VARIABLES
  watchers,   (* how many watch                                            *)
  on,         (* is there collection?                                      *)
  read        (* the containers whose statistics are read from the daemon  *)

vars == <<watchers, on, read>>

Init == watchers = 0 /\ on = FALSE /\ read = {}

Join == watchers' = watchers + 1 /\ on' = TRUE /\ UNCHANGED read

(* Somebody who joined before Close need not be counted any more. *)
Leave ==
  /\ watchers' = IF watchers > 0 THEN watchers - 1 ELSE 0
  /\ UNCHANGED <<on, read>>

Adapt == on /\ read' \in SUBSET Containers /\ UNCHANGED <<watchers, on>>

Stop == watchers = 0 /\ on /\ on' = FALSE /\ read' = {} /\ UNCHANGED watchers

Close == watchers' = 0 /\ on' = FALSE /\ read' = {}

Next == Join \/ Leave \/ Adapt \/ Stop \/ Close

Spec     == Init /\ [][Next]_vars
FairSpec == Spec /\ WF_vars(Stop)
=============================================================================
