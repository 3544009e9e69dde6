---------------------------- MODULE MCObjectSync ----------------------------
(* An instance of ObjectSync for TLC.  A behaviour is one of the loop      *)
(* alone, as the server starts it, and of histories in which nothing fails *)
(* but what a run reports; or one with the periodic tick, manual runs,     *)
(* restarts and failing reads.                                             *)
EXTENDS ObjectSync

CONSTANT CrowdedWrites  (* bound: writes of a behaviour of the second kind *)

VARIABLE part
MCInit == Init /\ part \in {"alone", "crowded"}
MCNext ==
  /\ Next
  /\ UNCHANGED part
  /\ part = "crowded" => clock' <= CrowdedWrites
  /\ part = "alone" => /\ \A t \in Manual : pc'[t] = "idle"
                       /\ restarts' = 0
                       /\ ~Tick
                       /\ ~\E t \in Threads : ReadFails(t)
MCSpec == MCInit /\ [][MCNext]_<<vars, part>>

(* ObjectSync's fairness without the tick, which the server turns off. *)
MCFairSpec ==
  /\ MCSpec
  /\ \A w \in Writers : WF_vars(MarkPending(w))
  /\ WF_vars(ReceiveWake \/ DebounceEnds \/ DrainPending)
  /\ \A t \in Threads : WF_vars(RunStep(t))

(* Of the loop alone: whenever every save is announced and nothing is      *)
(* queued or under way, Caddy runs what is stored or the routes say that   *)
(* the run failed ...                                                      *)
AloneSettledIsServed == part = "alone" => SettledIsServed

(* ... and every save of a route takes effect or is reported as failed.    *)
AloneSavesSettle == part = "alone" => SavesSettle
=============================================================================
