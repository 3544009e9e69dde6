------------------------------ MODULE MCServing ------------------------------
(* What serves the sites, for TLC: the gateway (MCGateway), and the        *)
(* certificates its runs order.  The two share no state of the model: a    *)
(* behaviour is one of one of them, the other stays as it starts.          *)
EXTENDS MCGateway, CertIssuance

CONSTANTS
  Bumps,  (* bound: restarts, removals and months that pass                *)
  Edits   (* bound: PUT requests for the e-mail                            *)

MCNameOf == [r \in Rows |-> CHOOSE n \in Names : TRUE]

VARIABLES
  side,   (* "gateway"; or certificates, under "runs" that overlap or      *)
          (* under "requests" beside one run                               *)
  bumps,  (* restarts, removals and months so far                          *)
  edits   (* PUT requests so far                                           *)
mccertvars == <<certvars, bumps, edits>>

(* Runs that overlap; or one run after the other beside a renew request    *)
(* and a PUT.                                                              *)
Within ==
  /\ side = "runs" => \A j \in Jobs : ~Renew(j)
  /\ side = "requests" => \A r \in Runs : Working(r)' # {} => r = CHOOSE q \in Runs : TRUE
MCCertNext ==
  /\ CertNext
  /\ Within
  /\ bumps' = bumps + (IF ProcessDies \/ (\E n \in Names : RemoveCert(n) \/ Ages(n)) THEN 1 ELSE 0)
  /\ bumps' <= Bumps
  /\ edits' = edits + Cardinality({w \in Editors : writer[w] = <<>> /\ writer'[w] # <<>>})
  /\ edits' <= (IF side = "requests" THEN Edits ELSE 0)

(* The gateway beside a behaviour about certificates: of no interest. *)
Aside ==
  /\ Init /\ containers = <<>>
  /\ scope = CHOOSE s \in Scopes : TRUE
  /\ unseen = TRUE /\ calm = FALSE /\ begun = 0 /\ mishaps = 0 /\ answered = <<>>

ServingInit ==
  /\ \/ side = "gateway" /\ MCInit
     \/ side \in {"runs", "requests"} /\ Aside
  /\ CertInit /\ (side = "gateway" => saved = NoEmail)
  /\ bumps = 0 /\ edits = 0
ServingNext ==
  /\ \/ side = "gateway" /\ MCNext /\ UNCHANGED mccertvars
     \/ side # "gateway" /\ MCCertNext /\ UNCHANGED mcvars
  /\ UNCHANGED side

(* Of the gateway only safety is checked, and beside it no job is at work, *)
(* so that the fairness of the jobs asks nothing of its behaviours.        *)
ServingSpec == ServingInit /\ [][ServingNext]_<<side, mcvars, mccertvars>> /\ CertFairness

(* Every run ends, though acme.sh may hang: the reconciler waits for it.   *)
RunsEnd == \A r \in Runs : Working(r) # {} ~> Working(r) = {}
==============================================================================
