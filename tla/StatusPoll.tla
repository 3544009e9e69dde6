----------------------------- MODULE StatusPoll -----------------------------
(* How a page learns what a component is doing (observe/collector.go with the
   sources of handler/observe.go): a loop asks every component in turn, and
   only what differs from the last time is published, to a channel that holds
   so much and loses the rest.
   External: the components, which change and whose probes may fail, and the
   page, which reads its events in its own time. *)
EXTENDS Integers, Sequences

CONSTANTS Components, \* sequence of the components asked
          States,     \* what a probe of a component may say
          Steps,      \* how far its work may be
          Cap,        \* events a subscriber's channel holds
          MaxChanges  \* how often a component changes: it settles

VARIABLES actual,     \* actual[c]: [state, step]
          last,       \* last[c]: what was published last
          at,         \* who is asked next, and whether for its activity
          queue,      \* the events waiting for the page
          shown,      \* shown[c]: what the page shows
          lost,       \* an event found the channel full
          left        \* changes still to come

vars == <<actual, last, at, queue, shown, lost, left>>

Names == {Components[i] : i \in DOMAIN Components}
Unknown == "unknown"
Nothing == [state |-> Unknown, step |-> Unknown]

Init == /\ actual \in [Names -> [state : States, step : Steps]]
        /\ last = [c \in Names |-> Nothing]
        /\ at = [turn |-> 1, ask |-> "state"]
        /\ queue = <<>>
        /\ shown = [c \in Names |-> Nothing]
        /\ lost = FALSE
        /\ left = MaxChanges

Change(c) ==
    /\ left > 0 /\ left' = left - 1
    /\ \E s \in States, t \in Steps : actual' = [actual EXCEPT ![c] = [state |-> s, step |-> t]]
    /\ UNCHANGED <<last, at, queue, shown, lost>>

Publish(c, what, value) ==
    IF Len(queue) < Cap
    THEN queue' = Append(queue, [of |-> c, what |-> what, value |-> value]) /\ lost' = lost
    ELSE queue' = queue /\ lost' = TRUE

(* The round goes on: activity after state, then the next component. *)
Turn == IF at.ask = "state" THEN [at EXCEPT !.ask = "step"]
        ELSE [turn |-> IF at.turn = Len(Components) THEN 1 ELSE at.turn + 1, ask |-> "state"]

(* Wrong: what is the same is told by the state alone. *)
NoticedByState(c, what, value) ==
    IF last[c]["state"] /= Unknown /\ (what = "step" => last[c][what] /= Unknown)
    THEN UNCHANGED <<last, queue, lost>>
    ELSE last' = [last EXCEPT ![c][what] = value] /\ Publish(c, what, value)

Noticed(c, what, value) ==
    IF last[c][what] = value THEN UNCHANGED <<last, queue, lost>>
    ELSE /\ last' = [last EXCEPT ![c][what] = value]
         /\ Publish(c, what, value)

(* Poll, one question: what a component is (CoreRegistry.Get), and what it is
   working on, by task and step (activityOf). *)
Poll ==
    /\ LET c == Components[at.turn] IN Noticed(c, at.ask, actual[c][at.ask])
    /\ at' = Turn
    /\ UNCHANGED <<actual, shown, left>>

(* A probe that fails tells nothing, and is not remembered. *)
PollFails ==
    /\ at' = Turn
    /\ UNCHANGED <<actual, last, queue, shown, lost, left>>

Deliver ==
    /\ queue /= <<>>
    /\ shown' = [shown EXCEPT ![Head(queue).of][Head(queue).what] = Head(queue).value]
    /\ queue' = Tail(queue)
    /\ UNCHANGED <<actual, last, at, lost, left>>

Asks(c, what) == Components[at.turn] = c /\ at.ask = what

Next == (\E c \in Names : Change(c)) \/ Poll \/ PollFails \/ Deliver

(* The ticker ticks, the page reads, and no probe fails for ever. *)
FairSpec == /\ Init /\ [][Next]_vars
            /\ WF_vars(Deliver)
            /\ WF_vars(Poll \/ PollFails)
            /\ \A c \in Names, what \in {"state", "step"} : SF_vars(Asks(c, what) /\ Poll)

-----------------------------------------------------------------------------
(* Once the components have settled the page shows what they are, however
   often they changed before and whichever probe failed - as long as no event
   was lost, for what was lost is not said again (collector.go:53-77). *)
ShownSettles == <>[](lost \/ shown = actual)

=============================================================================
