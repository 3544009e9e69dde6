\* Writes beside the loop, the periodic tick and a manual run; two events
\* (writes, restarts, failing reads, certificates, loads or copies) in all.
CONSTANTS
  Manual = {m1}
  Writers = {w1}
  Writable = {"service", "domain", "credential", "port"}
  MaxEvents = 2
  Periodic = TRUE
  Faults = {"read", "issue", "load", "persist"}
SPECIFICATION MCSpec
INVARIANTS NoIntentForgotten SmoothQuietIsApplied
PROPERTIES Converges
CHECK_DEADLOCK FALSE
