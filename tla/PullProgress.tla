---------------------------- MODULE PullProgress ----------------------------
(* The progress of an image pull (adapter/docker/client/image.go): the daemon
   tells, layer by layer, what it does; Apply keeps the latest word on every
   layer and Progress folds them into one percentage, by bytes when the size
   of every layer still to come is known, by finished layers otherwise.
   External: the daemon, whose layers go their way on their own, in any order.
   Percentages are exact fractions: a pair <<part, whole>>. *)
EXTENDS Integers, FiniteSets, SequencesExt, Functions

CONSTANTS Layers,     \* the layers of the image
          SizeOf,     \* SizeOf[l]: the bytes the daemon announces, 0 for none
          Scale       \* a multiple of every size: fractions stay whole numbers

VARIABLES daemon,     \* daemon[l]: how far the daemon is with a layer
          layers,     \* layers[l]: the last word on it, for the layers in order
          order,      \* the layers, as they were first heard of
          status,     \* the last word on the whole
          err,        \* the daemon reported an error
          done        \* the daemon said it is finished

vars == <<daemon, layers, order, status, err, done>>

Phases == <<"pending", "downloading", "downloaded", "extracting", "complete">>
Phase(p) == CHOOSE i \in DOMAIN Phases : Phases[i] = p

(* Words that describe a layer; every other is about the whole pull. *)
LayerWords == {"Pulling fs layer", "Waiting", "Downloading", "Verifying Checksum",
               "Download complete", "Extracting", "Pull complete", "Already exists"}
isLayerStatus(s) == s \in LayerWords

PullMessage(l, word, current, total) ==
    [id |-> l, status |-> word, current |-> current, total |-> total]

NewLayer == [phase |-> "pending", dlCurrent |-> 0, dlTotal |-> 0,
             exCurrent |-> 0, exTotal |-> 0, alreadyExists |-> FALSE]

Known(old, new) == IF new > 0 THEN new ELSE old
Filled(current, total) == IF total > 0 THEN total ELSE current

(* What one message makes of a layer. *)
Told(l, m) ==
    CASE m.status \in {"Pulling fs layer", "Waiting"} ->
           IF Phase(l.phase) < Phase("downloading") THEN [l EXCEPT !.phase = "pending"] ELSE l
      [] m.status = "Downloading" ->
           [l EXCEPT !.phase = "downloading", !.dlCurrent = m.current,
                     !.dlTotal = Known(@, m.total)]
      [] m.status \in {"Verifying Checksum", "Download complete"} ->
           [l EXCEPT !.phase = "downloaded", !.dlCurrent = Filled(@, l.dlTotal)]
      [] m.status = "Extracting" ->
           [l EXCEPT !.phase = "extracting", !.exCurrent = m.current,
                     !.exTotal = Known(@, m.total)]
      [] m.status = "Pull complete" ->
           [l EXCEPT !.phase = "complete", !.dlCurrent = Filled(@, l.dlTotal),
                     !.exCurrent = Filled(@, l.exTotal)]
      [] OTHER -> \* "Already exists"
           [l EXCEPT !.phase = "complete", !.alreadyExists = TRUE]

-----------------------------------------------------------------------------
(* Progress: a layer counts four parts in five for its download and one for
   its extraction; a layer without a size carries no weight. *)
Least(a, b) == IF a < b THEN a ELSE b
Part(current, total) == IF total > 0 THEN (Least(current, total) * Scale) \div total ELSE 0

layerFraction(l) ==
    IF l.phase = "complete" THEN 5 * Scale
    ELSE 4 * Part(l.dlCurrent, l.dlTotal) + Part(l.exCurrent, l.exTotal)

Listed == ToSet(order)
completed == Cardinality({l \in Listed : layers[l].phase = "complete"})
(* Wrong: a layer that still waits counts as known. *)
unknownSizeStarted == \E l \in Listed : layers[l].dlTotal = 0 /\ layers[l].phase = "downloading"

unknownSize == \E l \in Listed : /\ layers[l].dlTotal = 0
                                 /\ ~layers[l].alreadyExists
                                 /\ layers[l].phase /= "complete"
Weighted == {l \in Listed : layers[l].dlTotal > 0}
WeightSum == FoldFunctionOnSet(+, 0, [l \in Listed |-> layers[l].dlTotal], Weighted)
WeightedVal ==
    FoldFunctionOnSet(+, 0, [l \in Listed |-> layers[l].dlTotal * layerFraction(layers[l])],
                      Weighted)
ByteWeighted == order /= <<>> /\ ~unknownSize /\ WeightSum > 0

Percent ==
    IF done /\ (~err \/ order = <<>>) THEN <<1, 1>>
    ELSE IF order = <<>>              THEN <<0, 1>>
    ELSE IF ByteWeighted              THEN <<WeightedVal, WeightSum * 5 * Scale>>
    ELSE                                   <<completed, Len(order)>>

-----------------------------------------------------------------------------
Init == /\ daemon = [l \in Layers |-> [at |-> "none", current |-> 0]]
        /\ layers = [l \in Layers |-> NewLayer]
        /\ order = <<>>
        /\ status = ""
        /\ err = FALSE
        /\ done = FALSE

(* Apply, on a message about a layer: the layer is listed when it is new. *)
ApplyLayer(m) ==
    /\ order' = IF m.id \in Listed THEN order ELSE Append(order, m.id)
    /\ layers' = [layers EXCEPT ![m.id] = Told(@, m)]
    /\ UNCHANGED <<status, err, done>>

(* Apply, on any other message. *)
ApplyWhole(word) ==
    /\ ~isLayerStatus(word)
    /\ status' = word
    /\ done' = (done \/ word = "Status")
    /\ UNCHANGED <<layers, order, err>>

(* Where a layer may go from here, and what the daemon says of it then. *)
Words(l) ==
    LET d == daemon[l] IN
    CASE d.at = "none"        -> {"Pulling fs layer", "Already exists"}
      [] d.at = "waiting"     -> {"Waiting", "Downloading"}
      [] d.at = "downloading" -> IF d.current < SizeOf[l] THEN {"Downloading"}
                                 ELSE {"Verifying Checksum", "Download complete"}
      [] d.at = "downloaded"  -> {"Extracting"}
      [] d.at = "extracting"  -> IF d.current < SizeOf[l] THEN {"Extracting"} ELSE {"Pull complete"}
      [] OTHER                -> {}

Place(word) ==
    CASE word \in {"Pulling fs layer", "Waiting"}             -> "waiting"
      [] word \in {"Verifying Checksum", "Download complete"} -> "downloaded"
      [] word = "Downloading"                                 -> "downloading"
      [] word = "Extracting"                                  -> "extracting"
      [] OTHER                                                -> "complete"

(* The daemon says something of a layer: of its bytes, it counts up. *)
LayerMessage(l, word) ==
    /\ ~done /\ ~err
    /\ word \in Words(l)
    /\ LET current == IF Place(word) = daemon[l].at THEN daemon[l].current + 1 ELSE 0
       IN  /\ daemon' = [daemon EXCEPT ![l] =
                            [at |-> Place(word), current |-> Least(current, SizeOf[l])]]
           /\ ApplyLayer(PullMessage(l, word, Least(current, SizeOf[l]), SizeOf[l]))

(* A download starts again: "Retrying in ..." is no word of a layer. *)
Retry(l) ==
    /\ ~done /\ ~err
    /\ daemon[l].at = "downloading"
    /\ daemon' = [daemon EXCEPT ![l].at = "waiting"]
    /\ ApplyWhole("Retrying")

Finish ==
    /\ ~done /\ ~err
    /\ \A l \in Layers : daemon[l].at = "complete"
    /\ ApplyWhole("Status")
    /\ UNCHANGED daemon

(* An error message ends the pull: Apply keeps it whatever follows. *)
Fail ==
    /\ ~done /\ ~err
    /\ err' = TRUE
    /\ UNCHANGED <<daemon, layers, order, status, done>>

Next == \/ \E l \in Layers : \/ \E word \in LayerWords : LayerMessage(l, word)
                             \/ Retry(l)
        \/ Finish
        \/ Fail

Spec == Init /\ [][Next]_vars

-----------------------------------------------------------------------------
(* A full bar is never a promise: before the daemon says it is finished, and
   short of an error, 100% is shown only when every layer heard of is there,
   down to its last extracted byte (Progress, image.go:414-495). *)
FullMeansFetched ==
    (~done /\ Percent[1] = Percent[2]) =>
        \A l \in Listed : \/ daemon[l].at = "complete"
                          \/ daemon[l].at = "extracting" /\ daemon[l].current = SizeOf[l]

=============================================================================
