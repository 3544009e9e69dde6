\* A manual run is under way when the loop wakes.
CONSTANTS
  Routes = {r1}
  Others = {}
  Manual = {m1}
  Writers = {w1}
  MaxWrites = 2
  MaxRestarts = 0
  Periodic = FALSE
  ReadsFail = FALSE
SPECIFICATION FairSpec
PROPERTIES SavesSettle
CHECK_DEADLOCK FALSE
