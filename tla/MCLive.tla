------------------------------- MODULE MCLive -------------------------------
(* What the pages of GateBox are shown of Docker and the components while  *)
(* it happens, for TLC: the ring a container's samples are kept in, the    *)
(* websockets of a console, a log and a pull, the progress of a pull, and  *)
(* the polling of the components' states.  They share no state: a behaviour*)
(* is one of one part, the others stay as they start.                      *)
EXTENDS SampleRing, FiniteSets

CONSTANTS
  Shells, MaxOut, MaxIn,                     (* see LiveStreams            *)
  Layers, SizeOf, Scale,                     (* see PullProgress           *)
  Components, States, Steps, Cap, MaxChanges (* see StatusPoll             *)

MCSizes == [l \in Layers |-> CASE l = "a" -> 1 [] l = "b" -> 2 [] l = "c" -> 0]
MCComponents == <<"caddy", "docker">>

ASSUME LayersAssumption ==
  IsFiniteSet(Layers) /\ SizeOf \in [Layers -> Nat] /\ Scale \in Nat \ {0}

VARIABLES
  part,
  kind, tty, page, session, handler, other, ctx, conn, pipe, deadline,
  pulling, layers, order, status, err, done,
  actual, last, turn, queue, told, lost, left

socket   == <<kind, tty, page, session, handler, other, ctx, conn, pipe, deadline>>
progress == <<pulling, layers, order, status, err, done>>
polling  == <<actual, last, turn, queue, told, lost, left>>

Socket   == INSTANCE LiveStreams WITH daemon <- session, stream <- pipe
Progress == INSTANCE PullProgress WITH daemon <- pulling
Polling  == INSTANCE StatusPoll WITH at <- turn, shown <- told

Parts == {"ring", "socket", "progress", "polling"}
Still(p) == part # p
MCInit ==
  /\ part \in Parts
  /\ RingInit
  /\ Socket!Init /\ (Still("socket") => kind = "exec")
  /\ Progress!Init
  /\ Polling!Init
  /\ Still("polling") =>
       \A c \in Polling!Names : actual[c].step = CHOOSE s \in Steps : TRUE
MCNext ==
  /\ UNCHANGED part
  /\ IF part = "ring"      THEN RingNext       ELSE UNCHANGED ringVars
  /\ IF part = "socket"    THEN Socket!Next    ELSE UNCHANGED socket
  /\ IF part = "progress"  THEN Progress!Next  ELSE UNCHANGED progress
  /\ IF part = "polling"   THEN Polling!Next   ELSE UNCHANGED polling

(* The fairness of each part, of the behaviours it is the one that moves.  *)
MCSpec ==
  /\ MCInit /\ [][MCNext]_<<part, ringVars, socket, progress, polling>>
  /\ WF_socket(part = "socket" /\ Socket!Handler)
  /\ WF_socket(part = "socket" /\ Socket!Other)
  /\ WF_socket(part = "socket" /\ Socket!DeadlinePasses)
  /\ WF_polling(part = "polling" /\ Polling!Deliver)
  /\ WF_polling(part = "polling" /\ (Polling!Poll \/ Polling!PollFails))
  /\ \A c \in Polling!Names, what \in {"state", "step"} :
       SF_polling(part = "polling" /\ Polling!Asks(c, what) /\ Polling!Poll)

-----------------------------------------------------------------------------
(* LiveStreams: a page that stays is shown all the daemon wrote, in order, *)
(* and what went wrong; and no goroutine or stream outlives its page.      *)
StayersSeeAll == Socket!StayersSeeAll
SessionsEnd   == Socket!SessionsEnd

(* PullProgress: a full bar before the end means that everything is there. *)
FullMeansFetched == Progress!FullMeansFetched

(* StatusPoll: once the components have settled the page shows what they   *)
(* are, unless an event was lost.                                          *)
ShownSettles == part = "polling" => Polling!ShownSettles
=============================================================================
