\* Writes beside the loop; and beside the periodic tick and a manual run, with
\* a restart and failing reads.
CONSTANTS
  Routes = {r1, r2}
  Others = {s1, s2}
  Manual = {m1}
  Writers = {w1}
  MaxWrites = 3
  CrowdedWrites = 2
  MaxRestarts = 1
  Periodic = TRUE
  ReadsFail = TRUE
SPECIFICATION MCFairSpec
INVARIANTS OneRun AloneSettledIsServed
PROPERTIES CaddyMovesForward AloneSavesSettle
CHECK_DEADLOCK FALSE
