------------------------------ MODULE MCRunFeed ------------------------------
(* Instances of RunFeed for TLC.                                           *)
EXTENDS RunFeed

(* Bound: losses of one behaviour, which are records not written or too    *)
(* old and restarts; and records not written or too old and reconnections. *)
CONSTANT Losses

VARIABLES
  unsaved, (* runs whose record could not be written                       *)
  got,     (* numbers of the events received on the browser's connection   *)
  smooth   (* see Smooth                                                   *)
mcvars == <<vars, unsaved, got, smooth>>

(* The browser receives the next event of the backlog or of the channel. *)
Waiting(c) == IF server[c].at = "replay" THEN server[c].backlog ELSE server[c].buf
Delivers(c) == browser.conn = c /\ (WriteBacklog(c) \/ Push(c))

(* No channel was full, no two events were being sent at once, none was    *)
(* published between the replay and the subscription, and none had left    *)
(* the ring when the browser came back; no send panicked, nothing stopped. *)
Smooth ==
  /\ restarts' = restarts
  /\ ~\E p \in Runners, c \in Conns : Len(server[c].buf) >= BufCap /\ Send(p, c)
  /\ ~\E p \in Runners, c \in Conns : SendPanics(p, c)
  /\ Cardinality({p \in Runners : out'[p].to # {}}) <= 1
  /\ \A c \in Conns :
       browser.conn = c =>
         /\ server[c].at = "replay" => seq' = seq
         /\ Recent(c) => seq - browser.last <= RingCap

Lost   == Cardinality(unsaved) + expired
MCInit == Init /\ unsaved = {} /\ got = {} /\ smooth = TRUE
MCNext ==
  /\ Next
  /\ unsaved' = unsaved \cup {run[p] : p \in {q \in Runners : SaveFails(q)}}
  /\ Lost' + restarts' <= Losses
  /\ Lost' + Cardinality({c \in Conns : server[c].at # "none"}')  <= Losses + 1
  /\ smooth' = (smooth /\ Smooth)
  /\ got' = IF browser'.conn # browser.conn THEN {}
            ELSE got \cup {Head(Waiting(c)).seq : c \in {d \in Conns : Delivers(d)}}
MCSpec == MCInit /\ [][MCNext]_mcvars

(* A run the browser was told the end of is in the list of runs, unless    *)
(* retention took it (Keep newer ones are there, or it is too old), or its *)
(* record could not be written.                                            *)
ToldIsStored ==
  \A r \in browser.told \ unsaved :
    r \in runs \/ r <= expired \/ Cardinality({s \in runs : s > r}) >= Keep

(* On one connection the browser never receives an event twice, although   *)
(* what is replayed and what is pushed come by different ways.             *)
NoRepeat == [][\A c \in Conns : Delivers(c) => Head(Waiting(c)).seq \notin got]_mcvars

(* In smooth histories the browser receives event after event, over all    *)
(* its connections: none is lost, repeated or out of order.                *)
SmoothStream ==
  [][\A c \in Conns : smooth /\ Delivers(c) => Head(Waiting(c)).seq = browser.last + 1]_mcvars
=============================================================================
