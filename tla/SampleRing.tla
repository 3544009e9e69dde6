----------------------------- MODULE SampleRing -----------------------------
(* The ring the samples of one container are kept in
   (adapter/docker/stats/collector.go: entry, push, latest, history). It
   grows until it is full, then each sample takes the place of the oldest. *)
EXTENDS Integers, Sequences

CONSTANTS Samples,     \* what a sample may say
          Size         \* histSize: how many are kept

ASSUME SizeAssumption == Size \in Nat \ {0}

VARIABLES samples, next, filled

ringVars == <<samples, next, filled>>

RingInit == samples = <<>> /\ next = 0 /\ filled = FALSE

push(s) ==
    IF Len(samples) < Size
    THEN /\ samples' = Append(samples, s)
         /\ next' = (Len(samples) + 1) % Size
         /\ filled' = (filled \/ Len(samples) + 1 = Size)
    ELSE /\ samples' = [samples EXCEPT ![next + 1] = s]
         /\ next' = (next + 1) % Size
         /\ filled' = TRUE

RingNext == \E s \in Samples : push(s)

RingSpec == RingInit /\ [][RingNext]_ringVars

(* Wrong: a full ring is read from its first place. *)
historyAsStored == samples

history ==
    IF ~filled THEN samples
    ELSE SubSeq(samples, next + 1, Len(samples)) \o SubSeq(samples, 1, next)

(* The sample before the next place; before the first place is the last. *)
latest == samples[IF next = 0 THEN Len(samples) ELSE next]

-----------------------------------------------------------------------------
(* The shape of the ring: next is where the oldest sample is, once it is full. *)
RingOK == /\ samples \in Seq(Samples)
          /\ Len(samples) <= Size
          /\ filled \in BOOLEAN
          /\ filled <=> Len(samples) = Size
          /\ ~filled => next = Len(samples)
          /\ filled => next \in 0 .. Size - 1

Window == INSTANCE SampleWindow WITH window <- history

(* A page is shown the last Size samples in order, across every turn of the
   ring (collector.go:94-137, 429-438). *)
HistoryIsWindow == Window!Spec

(* The number in the list is the last point of the curve: what Snapshot calls
   the latest is the end of the history (collector.go:108-119, 402-416). *)
LatestEndsHistory == samples /= <<>> => latest = history[Len(history)]

=============================================================================
