\* One request at a time about one application and its service.
CONSTANTS
  Clients = {c1}
  Ids <- MCIds
  AppNames = {"A"}
  ServiceInputs <- MCInputs
  FragmentBodies <- MCBodies
  Strays = {"gone"}
  VarKeys = {"V"}
  Values = {1}
  OtherProtocols = {"mqtt"}
  PortSets <- MCPorts
  RootNames <- MCRoots
  Daemons <- MCDaemons
  Start <- MCStart
  Certs <- MCCerts
  Faults = {}
  Requests <- MCRequests
  Mishaps <- MCMishaps
  Scopes = {"apps"}
SPECIFICATION MCSpec
INVARIANT ServicesAreShown
CHECK_DEADLOCK FALSE
