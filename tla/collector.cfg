\* Two viewers of one container, a collection and the remains of an earlier one.
CONSTANTS
  Containers = {c1}
  Viewers = {v1, v2}
  Loops = {l1, l2}
  Copies = {k1, k2}
  MaxLate = 2
  None = None
SPECIFICATION FairSpec
INVARIANT OneStream
PROPERTIES OnDemandOK StreamsFollow
