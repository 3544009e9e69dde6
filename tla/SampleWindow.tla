---------------------------- MODULE SampleWindow ----------------------------
(* What the history of a container's statistics promises a page
   (adapter/docker/stats/collector.go, History and Snapshot): the last Size
   samples in the order they were taken, no more and none left out. *)
EXTENDS Integers, Sequences

CONSTANTS Samples,     \* what a sample may say
          Size         \* how many are kept

VARIABLE window

vars == <<window>>

Slide(w, s) == IF Len(w) < Size THEN Append(w, s) ELSE Append(Tail(w), s)

Init == window = <<>>

Take == \E s \in Samples : window' = Slide(window, s)

Spec == Init /\ [][Take]_vars

=============================================================================
