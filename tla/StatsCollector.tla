--------------------------- MODULE StatsCollector ----------------------------
(***************************************************************************)
(* The collector of container statistics (adapter/docker/stats): one loop  *)
(* and one stream per running container, shared by all viewers, started    *)
(* by the first of them and stopped a cooldown after the last one left.    *)
(*                                                                         *)
(* The loop and the streams are goroutines that outlive the collection     *)
(* they were started for: they are told to end by their contexts, and what *)
(* they still do meets the state of the next collection.  The mutex makes  *)
(* each section of the code that holds it one action; ListContainers and   *)
(* the reading of a stream happen outside of it.                           *)
(***************************************************************************)
EXTENDS Naturals, FiniteSets

CONSTANTS
  Containers,
  Viewers,    (* requests for the list of containers: each one's Touch     *)
              (* subscribes and leaves again                               *)
  Loops,      (* bound: goroutines of loop at a time                       *)
  Copies,     (* bound: goroutines of collectOne per container at a time   *)
  MaxLate,    (* bound: expired timers whose function waits for the lock   *)
  None

ASSUME NoneAssumption    == None \notin Loops \cup Copies
ASSUME ViewersAssumption == IsFiniteSet(Viewers)
ASSUME LateAssumption    == MaxLate \in Nat

VARIABLES
  up,         (* the containers that run, which is the daemon's business   *)
  inside,     (* the viewers between Subscribe and unsubscribe             *)
  subs,       (* Collector.subs                                            *)
  current,    (* the loop Collector.stop cancels, None unless running      *)
  armed,      (* would Collector.stopTimer.Stop() still stop it?           *)
  late,       (* functions of timers that nothing can stop any more        *)
  loop,       (* [Loops -> where it is, and the containers it has listed]  *)
  stream,     (* [Containers -> [Copies -> a collectOne: where it is, and  *)
              (* whether its context is live]]                             *)
  reg,        (* Collector.streams: the copy whose cancel is registered    *)
  shown,      (* the containers with a sample in Collector.entries         *)
  closed      (* has main called Close?                                    *)

viewers == <<inside, subs, closed>>
timer   == <<armed, late>>
streams == <<stream, reg, shown>>
vars    == <<up, inside, subs, current, armed, late, loop, stream, reg, shown, closed>>

Idle      == [at |-> "idle", seen |-> {}]
Free      == [at |-> "free", live |-> FALSE]
Running   == current # None
Busy(c)   == {k \in Copies : stream[c][k].at # "free"}

Init ==
  /\ up \in SUBSET Containers
  /\ inside = {} /\ subs = 0 /\ closed = FALSE
  /\ current = None /\ armed = FALSE /\ late = 0
  /\ loop = [l \in Loops |-> Idle]
  /\ stream = [c \in Containers |-> [k \in Copies |-> Free]]
  /\ reg = [c \in Containers |-> None]
  /\ shown = {}

-----------------------------------------------------------------------------
(* Subscribe, and the function it returns, by which the viewer leaves.     *)

Start(l) ==
  /\ loop[l].at = "idle"
  /\ current' = l
  /\ loop' = [loop EXCEPT ![l] = [at |-> "wait", seen |-> {}]]

Subscribe(v) ==
  /\ v \notin inside
  /\ inside' = inside \cup {v}
  /\ subs' = subs + 1
  /\ armed' = FALSE
  /\ \/ Running /\ UNCHANGED <<current, loop>>
     \/ ~Running /\ \E l \in Loops : Start(l)
  /\ UNCHANGED <<up, late, streams, closed>>

Leaves(v) ==
  /\ v \in inside
  /\ inside' = inside \ {v}
  /\ subs' = IF subs > 1 THEN subs - 1 ELSE 0

(* A timer that is replaced while armed goes on: only after a Close that   *)
(* did not wait for the viewers is there one.                              *)
Unsubscribe(v) ==
  /\ Leaves(v)
  /\ \/ subs > 1 /\ UNCHANGED timer
     \/ /\ subs <= 1 /\ armed' = TRUE
        /\ IF armed THEN late < MaxLate /\ late' = late + 1 ELSE UNCHANGED late
  /\ UNCHANGED <<up, current, loop, streams, closed>>

-----------------------------------------------------------------------------
(* stopLocked, by the timer and by Close.                                  *)

(* The contexts of the open streams are children of the current loop's. *)
StopLocked ==
  /\ current' = None
  /\ stream' = [c \in Containers |-> [k \in Copies |-> [stream[c][k] EXCEPT !.live = FALSE]]]
  /\ reg' = [c \in Containers |-> None]
  /\ shown' = {}

Expire ==
  /\ armed /\ late < MaxLate
  /\ armed' = FALSE /\ late' = late + 1
  /\ UNCHANGED <<up, viewers, current, loop, streams>>

(* Wrong: the function of the timer does not look for viewers again. *)
StopIfRunning   == Running
StopIfUnwatched == subs = 0 /\ Running

CooldownOver ==
  /\ late > 0 /\ late' = late - 1
  /\ IF StopIfUnwatched THEN StopLocked ELSE UNCHANGED <<current, streams>>
  /\ UNCHANGED <<up, viewers, armed, loop>>

Close ==
  /\ ~closed /\ closed' = TRUE
  /\ subs' = 0 /\ armed' = FALSE
  /\ IF Running THEN StopLocked ELSE UNCHANGED <<current, streams>>
  /\ UNCHANGED <<up, inside, late, loop>>

-----------------------------------------------------------------------------
(* loop and syncContainers.                                                *)

LoopAt(l, at, seen) == loop' = [loop EXCEPT ![l] = [at |-> at, seen |-> seen]]

(* The first round begins at once, the next ones upon ticks: between two    *)
(* rounds a loop waits.  A list that fails, as it does with a context that *)
(* is cancelled, changes nothing.                                          *)
List(l) ==
  /\ loop[l].at = "wait" /\ current = l
  /\ LoopAt(l, "sync", up)
  /\ UNCHANGED <<up, viewers, current, timer, streams>>

(* The streams of containers that are gone from the list are cancelled,    *)
(* those without a stream get one.  The list may be old, and the loop      *)
(* cancelled: what it registers then has a context that is cancelled, too. *)
Gone(l)       == {c \in Containers : reg[c] # None /\ c \notin loop[l].seen}
(* Wrong: a container with a sample is taken for one with a stream. *)
NewUnshown(l) == {c \in loop[l].seen : reg[c] = None /\ c \notin shown}
New(l)        == {c \in loop[l].seen : reg[c] = None}

Sync(l) ==
  /\ loop[l].at = "sync"
  /\ \E slot \in [Containers -> Copies] :
       /\ \A c \in New(l) : slot[c] \notin Busy(c)
       /\ stream' = [c \in Containers |-> [k \in Copies |->
            IF c \in Gone(l) /\ reg[c] = k THEN [stream[c][k] EXCEPT !.live = FALSE]
            ELSE IF c \in New(l) /\ slot[c] = k THEN [at |-> "reading", live |-> current = l]
            ELSE stream[c][k]]]
       /\ reg' = [c \in Containers |-> IF c \in Gone(l) THEN None
                                       ELSE IF c \in New(l) THEN slot[c] ELSE reg[c]]
  /\ shown' = shown \ Gone(l)
  /\ LoopAt(l, "wait", {})
  /\ UNCHANGED <<up, viewers, current, timer>>

LoopEnds(l) ==
  /\ loop[l].at = "wait" /\ current # l
  /\ loop' = [loop EXCEPT ![l] = Idle]
  /\ UNCHANGED <<up, viewers, current, timer, streams>>

-----------------------------------------------------------------------------
(* collectOne.                                                             *)

StreamAt(c, k, at) == stream' = [stream EXCEPT ![c][k].at = at]

(* The stream is opened, if it is not yet, and yields. *)
Decode(c, k) ==
  /\ stream[c][k].at = "reading" /\ stream[c][k].live
  /\ StreamAt(c, k, "sampled")
  /\ UNCHANGED <<up, viewers, current, timer, loop, reg, shown>>

(* The sample was read while the stream was open: it may not be any more. *)
Record(c, k) ==
  /\ stream[c][k].at = "sampled"
  /\ StreamAt(c, k, "reading")
  /\ shown' = shown \cup {c}
  /\ UNCHANGED <<up, viewers, current, timer, loop, reg>>

(* Wrong: the registered stream is forgotten but goes on. *)
DropUncancelled(c, k) ==
  /\ stream' = [stream EXCEPT ![c][k] = Free]
  /\ reg' = [reg EXCEPT ![c] = None]

(* dropStream cancels and forgets whatever stream is registered for the    *)
(* container, not only the one that ends.                                  *)
Drop(c, k) ==
  /\ stream' = [stream EXCEPT ![c] = [j \in Copies |->
       IF j = k THEN Free
       ELSE IF j = reg[c] THEN [stream[c][j] EXCEPT !.live = FALSE] ELSE stream[c][j]]]
  /\ reg' = [reg EXCEPT ![c] = None]
(* The daemon may refuse or break a stream at any time. *)
StreamEnds(c, k) ==
  /\ stream[c][k].at = "reading"
  /\ Drop(c, k)
  /\ UNCHANGED <<up, viewers, current, timer, loop, shown>>

-----------------------------------------------------------------------------
(* The daemon. *)
Daemon ==
  /\ \E c \in Containers : up' \in {up \cup {c}, up \ {c}} \ {up}
  /\ UNCHANGED <<viewers, current, timer, loop, streams>>

Next ==
  \/ \E v \in Viewers : Subscribe(v) \/ Unsubscribe(v)
  \/ Expire \/ CooldownOver \/ Close
  \/ \E l \in Loops : List(l) \/ Sync(l) \/ LoopEnds(l)
  \/ \E c \in Containers, k \in Copies :
       Decode(c, k) \/ Record(c, k) \/ StreamEnds(c, k)
  \/ Daemon

Spec == Init /\ [][Next]_vars

(* Timers run and goroutines go on, and the daemon answers again and       *)
(* again: a list now and then succeeds, and a stream of a running          *)
(* container now and then yields.  Nobody has to leave, and nobody has to  *)
(* call Close.                                                             *)
Fairness ==
  /\ WF_vars(Expire) /\ WF_vars(CooldownOver)
  /\ \A l \in Loops : SF_vars(List(l)) /\ WF_vars(Sync(l)) /\ WF_vars(LoopEnds(l))
  /\ \A c \in Containers, k \in Copies :
       /\ SF_vars(c \in up /\ Decode(c, k)) /\ WF_vars(Record(c, k))
       /\ WF_vars(~stream[c][k].live /\ StreamEnds(c, k))

FairSpec == Spec /\ Fairness

-----------------------------------------------------------------------------
LoopState   == [at : {"idle", "wait", "sync"}, seen : SUBSET Containers]
StreamState == [at : {"free", "reading", "sampled"}, live : BOOLEAN]

ViewersOK ==
  /\ inside \subseteq Viewers /\ closed \in BOOLEAN
  /\ subs \in Nat /\ subs <= Cardinality(inside)
TimerOK == armed \in BOOLEAN /\ late \in 0..MaxLate
LoopsOK ==
  /\ current \in Loops \cup {None}
  /\ loop \in [Loops -> LoopState]
StreamsOK ==
  /\ stream \in [Containers -> [Copies -> StreamState]]
  /\ reg \in [Containers -> Copies \cup {None}]
  /\ shown \subseteq Containers

TypeOK == up \subseteq Containers /\ ViewersOK /\ TimerOK /\ LoopsOK /\ StreamsOK

(* However collections follow upon each other, at most one stream per      *)
(* container is open, the registered one, and none while nothing is        *)
(* collected: a stream is never forgotten without being cancelled          *)
(* (syncContainers, dropStream and stopLocked).                            *)
OneStream ==
  \A c \in Containers, k \in Copies :
    stream[c][k].live => Running /\ reg[c] = k /\ stream[c][k].at # "free"

(* While nobody watches a collection, a timer is there that will stop it   *)
(* (Subscribe's and unsubscribe's care for stopTimer).                     *)
UnwatchedIsTimed == Running /\ subs = 0 => armed \/ late > 0

(* The collector does what OnDemand promises: it never stops under a       *)
(* viewer, nothing is read from the daemon while it is off, and it does    *)
(* stop when nobody watches any more.                                      *)
Reads(c)   == \E k \in Copies : stream[c][k].live
Promise    == INSTANCE OnDemand WITH
                watchers <- subs, on <- Running, read <- {c \in Containers : Reads(c)}
OnDemandOK == Promise!FairSpec

(* When nobody watches any more, all goroutines end in the end and the     *)
(* daemon is left alone, whatever loops and streams of earlier collections *)
(* have still registered (TestClose_StopsEverything waits for that, too).  *)
Quiet ==
  /\ \A l \in Loops : loop[l].at = "idle"
  /\ \A c \in Containers : Busy(c) = {} /\ reg[c] = None
IdleIsQuiet == <>[](subs = 0) => <>[]Quiet

(* While the collection goes on, a running container is sampled again and  *)
(* again: a stream that broke, or was cancelled by a late end of an older  *)
(* one, is rebuilt by a later round of the loop.                           *)
WatchedIsSampled ==
  \A c \in Containers :
    <>[](Running /\ c \in up) => []<><<\E k \in Copies : Record(c, k)>>_vars

(* Both: the goroutines follow the viewers. *)
StreamsFollow == IdleIsQuiet /\ WatchedIsSampled
=============================================================================
