\* Two requests at a time, chosen by scope, beside the reconcile run; and two
\* runs that overlap, or a run beside a renew request and a new e-mail, for
\* one certificate.
CONSTANTS
  Clients = {c1, c2}
  Ids <- MCIds
  AppNames = {"A", "B"}
  ServiceInputs <- MCInputs
  FragmentBodies <- MCBodies
  Strays = {"gone"}
  VarKeys = {"V"}
  Values = {1, 2}
  OtherProtocols = {"mqtt"}
  PortSets <- MCPorts
  RootNames <- MCRoots
  Daemons <- MCDaemons
  Start <- MCStart
  Certs <- MCCerts
  Faults = {"write", "docker", "load", "crash"}
  Requests <- MCRequests
  Mishaps <- MCMishaps
  Scopes = {"apps", "fragments", "ports", "docker"}
  Names = {n}
  Runs = {loop, manual}
  Rows = {r1}
  NameOf <- MCNameOf
  Incomplete = {}
  Renewers = {w}
  Editors = {p}
  Emails = {e1, e2}
  NoEmail = NoEmail
  Bumps = 1
  Edits = 1
SPECIFICATION ServingSpec
INVARIANTS
  QuietConfigIsCurrent CalmStopsAreKept CalmReferencesResolve CalmPortsDisjoint ReadyMeansRegistered
PROPERTY RunsEnd
CHECK_DEADLOCK FALSE
