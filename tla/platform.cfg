\* One built-in plugin and one that the index offers in three versions, two
\* requests at a time, and a backend that polls; two plugins that ask for
\* features of one unit; a request for a plugin with a sidecar beside main; two
\* runs that publish to a browser that connects twice.
CONSTANTS
  Builtin <- MCBuiltin
  Indexes <- MCIndexes
  CoreDesc <- MCCore
  Rank <- MCRank
  Contents <- MCContents
  Threads = {t1, t2}
  Pollers = {"dns"}
  Requested <- MCRequested
  Mishaps <- MCMishaps
  Ids = {caddy, acme}
  Units = {caddy}
  Plugins = {p1, p2}
  Features = {f1, f2}
  Releases = 2
  ComponentRequests = 3
  ComponentMishaps = 2
  MaxFresh = 17
  MaxCalls = 3
  MaxStops = 2
  Runners = {loop, m1}
  Posts = {m1}
  RingCap = 2
  BufCap = 1
  Keep = 1
  MaxRuns = 2
  MaxConns = 2
  MaxRestarts = 1
  Losses = 1
SPECIFICATION PlatformSpec
INVARIANTS
  CatalogIsRegistered RunsFollowEdges PollersAreInformed
  CalmBinaryRuns SidecarFollows SidecarIsReachable ToldIsStored
PROPERTY EventsInOrder
SYMMETRY ThreadSymmetry
CHECK_DEADLOCK FALSE
