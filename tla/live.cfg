\* A ring of three samples; a websocket of each kind; a pull of three layers,
\* one of a size that is not told; two components.
CONSTANTS
  Samples = {0, 1}
  Size = 3
  Shells = 3
  MaxOut = 3
  MaxIn = 2
  Layers = {"a", "b", "c"}
  SizeOf <- MCSizes
  Scale = 2
  Components <- MCComponents
  States = {"up"}
  Steps = {"idle", "busy"}
  Cap = 2
  MaxChanges = 2
SPECIFICATION MCSpec
INVARIANTS StayersSeeAll FullMeansFetched
PROPERTIES HistoryIsWindow SessionsEnd ShownSettles
CHECK_DEADLOCK FALSE
