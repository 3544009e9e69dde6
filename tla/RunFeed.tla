------------------------------ MODULE RunFeed --------------------------------
(***************************************************************************)
(* What the control plane tells of its work: the records of runs with      *)
(* their retention (reconcile/store.go), the event bus (observe/bus.go)    *)
(* and the event stream of a browser that reconnects with Last-Event-ID    *)
(* (serveEvents of handler/observe.go).                                    *)
(*                                                                         *)
(* A run is the number of its start: the id of a run is the time it        *)
(* started at.  What runs do is module Reconciler; here a run publishes    *)
(* that it starts (the events of its steps are like that one), saves its   *)
(* record and publishes that it ended.                                     *)
(***************************************************************************)
EXTENDS Naturals, Sequences, FiniteSets

CONSTANTS
  Runners,      (* goroutines that reconcile                               *)
  Requests,     (* those of them that serve POST /reconcile                *)
  RingCap,      (* events the bus keeps for replay (256)                   *)
  BufCap,       (* events a subscriber's channel holds (64)                *)
  Keep,         (* runRetentionCount (50)                                  *)
  MaxRuns,      (* bound: runs started                                     *)
  MaxConns,     (* bound: connections of the browser                       *)
  MaxRestarts   (* bound: restarts of the process                          *)

Conns      == 1..MaxConns
Runs       == 1..MaxRuns

Bounds == /\ {RingCap, BufCap, Keep} \subseteq Nat \ {0}
          /\ MaxRuns \in Nat /\ MaxConns \in Nat

NoRun == 0
Event == [seq : Nat \ {0}, kind : {"start", "end"}, run : Runs]

VARIABLES
  seq,        (* Bus.seq                                                   *)
  ring,       (* Bus.ring                                                  *)
  subs,       (* Bus.subs, by connection                                   *)
  pc,         (* where each runner is                                      *)
  out,        (* [Runners -> [ev, to]]: Publish's event and the         *)
              (* channels it has still to be sent to                       *)
  run,        (* [Runners -> the run under way]                            *)
  doomed,     (* [Runners -> ids trim has still to delete]                 *)
  runs,       (* the bucket runs                                           *)
  clock,      (* runs started so far                                       *)
  expired,    (* runs up to this one are older than runRetentionDays       *)
  server,     (* [Conns -> the goroutine serving the connection]           *)
  browser,    (* the browser: its connection, Last-Event-ID and the runs   *)
              (* it was told the end of                                    *)
  restarts    (* restarts so far, for their bound                          *)

bus   == <<seq, ring, subs>>
store == <<run, doomed, runs, clock, expired>>
vars  == <<seq, ring, subs, pc, out, run, doomed, runs, clock, expired, server, browser,
           restarts>>

NoEvent == [seq |-> 0, kind |-> "start", run |-> NoRun]
NoOut   == [ev |-> NoEvent, to |-> {}]
Offline == 0
NoServe == [at |-> "none", since |-> 0, backlog |-> <<>>, buf |-> <<>>]

Init ==
  /\ seq = 0 /\ ring = <<>> /\ subs = {}
  /\ pc = [p \in Runners |-> "idle"]
  /\ out = [p \in Runners |-> NoOut]
  /\ run = [p \in Runners |-> NoRun]
  /\ doomed = [p \in Runners |-> {}]
  /\ runs = {} /\ clock = 0 /\ expired = 0
  /\ server = [c \in Conns |-> NoServe]
  /\ browser = [conn |-> Offline, last |-> 0, told |-> {}]
  /\ restarts = 0

-----------------------------------------------------------------------------
(* Bus.Publish: under the lock the event is numbered and kept, and the     *)
(* subscribers are listed; they are sent it after the lock.                *)

Latest(s) == IF Len(s) > RingCap THEN SubSeq(s, Len(s) - RingCap + 1, Len(s)) ELSE s

Publish(p, kind, r) ==
  LET ev == [seq |-> seq + 1, kind |-> kind, run |-> r]
  IN /\ seq' = seq + 1
     /\ ring' = Latest(Append(ring, ev))
     /\ out' = [out EXCEPT ![p] = [ev |-> ev, to |-> subs]]
     /\ UNCHANGED subs

Sending == {"startsend", "endsend"}

(* A channel that is full is passed over. *)
Send(p, c) ==
  /\ pc[p] \in Sending /\ c \in out[p].to
  /\ server[c].at # "closed"
  /\ server' = IF Len(server[c].buf) < BufCap
               THEN [server EXCEPT ![c].buf = Append(@, out[p].ev)]
               ELSE server
  /\ out' = [out EXCEPT ![p].to = @ \ {c}]
  /\ UNCHANGED <<bus, pc, store, browser, restarts>>

Sent(p, from, to) ==
  /\ pc[p] = from /\ out[p].to = {}
  /\ pc' = [pc EXCEPT ![p] = to]
  /\ out' = [out EXCEPT ![p] = NoOut]

-----------------------------------------------------------------------------
(* Reconciler.Run as far as it publishes and saves                         *)

StartRun(p) ==
  /\ pc[p] = "idle" /\ clock < MaxRuns
  /\ clock' = clock + 1
  /\ run' = [run EXCEPT ![p] = clock + 1]
  /\ Publish(p, "start", clock + 1)
  /\ pc' = [pc EXCEPT ![p] = "startsend"]
  /\ UNCHANGED <<doomed, runs, expired, server, browser, restarts>>

RunWorks(p) ==
  /\ Sent(p, "startsend", "save")
  /\ UNCHANGED <<bus, store, server, browser, restarts>>

(* BoltRunStore.Save, then its trim. *)
Save(p) ==
  /\ pc[p] = "save"
  /\ runs' = runs \cup {run[p]}
  /\ pc' = [pc EXCEPT ![p] = "list"]
  /\ UNCHANGED <<bus, out, run, doomed, clock, expired, server, browser, restarts>>

(* The record is not written: nothing is trimmed, and Run goes on. *)
SaveFails(p) ==
  /\ pc[p] = "save"
  /\ pc' = [pc EXCEPT ![p] = "trim"]
  /\ UNCHANGED <<bus, out, store, server, browser, restarts>>

(* Wrong: the oldest are kept. *)
SurplusNewest(e) == {r \in runs : r <= e \/ Cardinality({s \in runs : s < r}) >= Keep}

(* trim: of the ids, newest first, those from Keep on and those too old     *)
(* are deleted, each in a transaction of its own.                          *)
Surplus(e) == {r \in runs : r <= e \/ Cardinality({s \in runs : s > r}) >= Keep}

(* Days may have passed, but not for the run just saved. *)
List(p) ==
  /\ pc[p] = "list"
  /\ \E e \in expired..clock :
       /\ e = expired \/ e < run[p]
       /\ expired' = e
       /\ doomed' = [doomed EXCEPT ![p] = Surplus(e)]
  /\ pc' = [pc EXCEPT ![p] = "trim"]
  /\ UNCHANGED <<bus, out, run, runs, clock, server, browser, restarts>>

Delete(p) ==
  /\ pc[p] = "trim"
  /\ \E r \in doomed[p] :
       /\ \A s \in doomed[p] : s <= r
       /\ runs' = runs \ {r}
       /\ doomed' = [doomed EXCEPT ![p] = @ \ {r}]
  /\ UNCHANGED <<bus, pc, out, run, clock, expired, server, browser, restarts>>

PublishEnd(p) ==
  /\ pc[p] = "trim" /\ doomed[p] = {}
  /\ Publish(p, "end", run[p])
  /\ pc' = [pc EXCEPT ![p] = "endsend"]
  /\ UNCHANGED <<store, server, browser, restarts>>

EndRun(p) ==
  /\ Sent(p, "endsend", "idle")
  /\ run' = [run EXCEPT ![p] = NoRun]
  /\ UNCHANGED <<bus, doomed, runs, clock, expired, server, browser, restarts>>

-----------------------------------------------------------------------------
(* serveEvents and the browser's EventSource                               *)

(* Wrong: the subscription comes before the events kept are read. *)
ConnectSubscribed(c) ==
  /\ browser.conn = Offline
  /\ server[c].at = "none" /\ \A d \in Conns : d < c => server[d].at # "none"
  /\ server' = [server EXCEPT ![c].at = "accepted", ![c].since = browser.last]
  /\ browser' = [browser EXCEPT !.conn = c]
  /\ subs' = subs \cup {c}
  /\ UNCHANGED <<seq, ring, pc, out, store, restarts>>

(* The browser connects; a connection before may still be served. *)
Connect(c) ==
  /\ browser.conn = Offline
  /\ server[c].at = "none" /\ \A d \in Conns : d < c => server[d].at # "none"
  /\ server' = [server EXCEPT ![c].at = "accepted", ![c].since = browser.last]
  /\ browser' = [browser EXCEPT !.conn = c]
  /\ UNCHANGED <<bus, pc, out, store, restarts>>

Disconnect ==
  /\ browser.conn # Offline
  /\ browser' = [browser EXCEPT !.conn = Offline]
  /\ UNCHANGED <<bus, pc, out, store, server, restarts>>

(* What is numbered after the last id seen.  The ring is in the order of   *)
(* the numbers: what is left out is its beginning.                         *)
Replay(c) ==
  LET old == {i \in DOMAIN ring : ring[i].seq <= server[c].since}
  IN SubSeq(ring, Cardinality(old) + 1, Len(ring))

Recent(c) ==
  /\ server[c].at = "accepted"
  /\ server' = [server EXCEPT ![c].at = "replay", ![c].since = 0, ![c].backlog = Replay(c)]
  /\ UNCHANGED <<bus, pc, out, store, browser, restarts>>

(* What is written reaches the browser while the connection is its own. *)
Receive(c, ev) ==
  browser' = IF browser.conn # c THEN browser
             ELSE [browser EXCEPT
                     !.last = ev.seq,
                     !.told = IF ev.kind = "end" THEN @ \cup {ev.run} ELSE @]

WriteBacklog(c) ==
  /\ server[c].at = "replay" /\ server[c].backlog # <<>>
  /\ Receive(c, Head(server[c].backlog))
  /\ server' = [server EXCEPT ![c].backlog = Tail(@)]
  /\ UNCHANGED <<bus, pc, out, store, restarts>>

Subscribe(c) ==
  /\ server[c].at = "replay" /\ server[c].backlog = <<>>
  /\ subs' = subs \cup {c}
  /\ server' = [server EXCEPT ![c].at = "stream"]
  /\ UNCHANGED <<seq, ring, pc, out, store, browser, restarts>>

Push(c) ==
  /\ server[c].at = "stream" /\ server[c].buf # <<>>
  /\ Receive(c, Head(server[c].buf))
  /\ server' = [server EXCEPT ![c].buf = Tail(@)]
  /\ UNCHANGED <<bus, pc, out, store, restarts>>

(* The request's context is done: cancel leaves the map, then closes.      *)
Unsubscribe(c) ==
  /\ server[c].at = "stream" /\ browser.conn # c
  /\ subs' = subs \ {c}
  /\ server' = [server EXCEPT ![c].at = "leaving"]
  /\ UNCHANGED <<seq, ring, pc, out, store, browser, restarts>>

Close(c) ==
  /\ server[c].at = "leaving"
  /\ server' = [server EXCEPT ![c] = [NoServe EXCEPT !.at = "closed"]]
  /\ UNCHANGED <<bus, pc, out, store, browser, restarts>>

-----------------------------------------------------------------------------
(* What the process loses when it stops; the browser keeps its id. *)
Stop ==
  /\ seq' = 0 /\ ring' = <<>> /\ subs' = {}
  /\ pc' = [p \in Runners |-> "idle"]
  /\ out' = [p \in Runners |-> NoOut]
  /\ run' = [p \in Runners |-> NoRun]
  /\ doomed' = [p \in Runners |-> {}]
  /\ server' = [c \in Conns |-> IF server[c].at = "none" THEN NoServe
                                ELSE [NoServe EXCEPT !.at = "closed"]]
  /\ browser' = [browser EXCEPT !.conn = Offline]
  /\ UNCHANGED <<runs, clock, expired>>

Restart ==
  /\ restarts < MaxRestarts /\ restarts' = restarts + 1
  /\ Stop

(* A send on a closed channel panics: net/http recovers in a request, whose *)
(* run is given up; elsewhere the process dies.                            *)
SendPanics(p, c) ==
  /\ pc[p] \in Sending /\ c \in out[p].to
  /\ server[c].at = "closed"
  /\ \/ /\ p \in Requests
        /\ pc' = [pc EXCEPT ![p] = "idle"]
        /\ out' = [out EXCEPT ![p] = NoOut]
        /\ run' = [run EXCEPT ![p] = NoRun]
        /\ UNCHANGED <<bus, doomed, runs, clock, expired, server, browser, restarts>>
     \/ /\ p \notin Requests
        /\ restarts < MaxRestarts /\ restarts' = restarts + 1
        /\ Stop

Runner(p) ==
  \/ RunWorks(p) \/ Save(p) \/ SaveFails(p) \/ List(p) \/ Delete(p) \/ PublishEnd(p) \/ EndRun(p)
  \/ \E c \in Conns : Send(p, c) \/ SendPanics(p, c)
Server(c) == Recent(c) \/ WriteBacklog(c) \/ Subscribe(c) \/ Push(c) \/ Unsubscribe(c) \/ Close(c)

Next ==
  \/ \E p \in Runners : StartRun(p) \/ Runner(p)
  \/ \E c \in Conns : Connect(c) \/ Server(c)
  \/ Disconnect \/ Restart

Spec == Init /\ [][Next]_vars

-----------------------------------------------------------------------------
(* Properties                                                              *)

(* A channel that is going to be sent an event has not been closed. *)
SendsFindOpenChannels ==
  \A p \in Runners : \A c \in out[p].to : server[c].at # "closed"
=============================================================================
