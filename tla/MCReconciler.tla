---------------------------- MODULE MCReconciler -----------------------------
(* Instances of Reconciler for TLC.                                        *)
EXTENDS Reconciler, Sequences

Graph == INSTANCE FactGraph

(* The components of a run are done one after the other as Order lists     *)
(* them, without those that are not registered.                            *)
Listed(ids) == SelectSeq(Graph!Order(ids, Arrows, Rank), LAMBDA c : c \in Registered)
ASSUME PlansAreOrdered ==
  \A ids \in SUBSET Components :
    ids \cap Registered # {} =>
      LET c == First(ids \cap Registered) IN Listed(ids) = <<c>> \o Listed(ids \ {c})

Running(t) == pc[t] \in InRun \cup {"drain"}

VARIABLES
  smooth,  (* so far the process has not restarted, no two runs have       *)
           (* overlapped and no read or certificate has failed             *)
  missed   (* the copies the last caddy step that succeeded did not write  *)
Persists(t) == Persist(t) \/ PersistFails(t)
Missing(t) == {c \in Copies : \/ c = "backup" /\ backup' # view[t]
                              \/ c = "ext" /\ ext' # fact}
MCInit == Init /\ smooth = TRUE /\ missed = {}
MCNext ==
  /\ Next
  /\ smooth' = /\ smooth /\ ~Crash
               /\ ~\E t \in Threads : ReadFails(t) \/ IssueFails(t)
               /\ \A t, u \in Threads : t # u => ~(Running(t)' /\ Running(u)')
  /\ \/ \E t \in Threads : Persists(t) /\ missed' = Missing(t)
     \/ ~(\E t \in Threads : Persists(t)) /\ missed' = missed
MCSpec == MCInit /\ [][MCNext]_<<vars, smooth, missed>> /\ Fairness

(* At rest the effects are those of the facts: certificates were ensured   *)
(* for the last services, domains and credentials and, if the last caddy   *)
(* step succeeded, Caddy has the last services, domains and ports and was  *)
(* generated after the certificates for them.  So have the plugins and the *)
(* backup, unless writing them is what that step failed at: it logs this   *)
(* and succeeds, and what it missed waits for the next caddy step.  (A     *)
(* credential is applied by acme alone: Caddy and the plugins have the one *)
(* of their last step.)                                                    *)
QuietIsApplied ==
  Quiet =>
    /\ \A k \in {"service", "domain", "credential"} : cert[k] = fact[k]
    /\ outcome = "success" =>
         /\ \A k \in {"service", "domain", "port"} : caddy.facts[k] = fact[k]
         /\ \A k \in {"service", "domain"} : caddy.cert[k] = cert[k]
         /\ "ext" \notin missed => \A k \in {"service", "domain"} : ext[k] = fact[k]
         /\ "backup" \notin missed => backup = caddy

(* As long as runs did not overlap, no restart lost an intent and no read  *)
(* or certificate failed, which no intent records: see QuietIsApplied.     *)
SmoothQuietIsApplied == smooth => QuietIsApplied
=============================================================================
