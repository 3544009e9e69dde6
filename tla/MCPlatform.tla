----------------------------- MODULE MCPlatform -----------------------------
(* The extension platform and the event stream for TLC, in four parts that *)
(* share no state of the model: the manager, its registry and the          *)
(* projection its backends poll; the binaries of the components that       *)
(* plugins change; the sidecar of one plugin; the events of runs that a    *)
(* browser is sent, and their records.  A behaviour is one of one of the   *)
(* parts, the others stay as they start.                                   *)
EXTENDS MCExtensionHost, TLC

CONSTANTS
  Ids, Units, Plugins, Features,
  Releases, ComponentRequests, ComponentMishaps,   (* see MCComponents      *)
  MaxFresh, MaxCalls, MaxStops,                    (* see PluginLifecycle   *)
  Runners, Posts, RingCap, BufCap, Keep,           (* see RunFeed, MCRunFeed*)
  MaxRuns, MaxConns, MaxRestarts, Losses

(* Each plugin asks every unit for a feature of its own. *)
FeatureOf == CHOOSE g \in [Plugins -> Features] : \A p, q \in Plugins : g[p] = g[q] => p = q
MCAsks == [p \in Plugins |-> Units \X {FeatureOf[p]}]
ThreadSymmetry == Permutations(Threads)

VARIABLES
  part,
  file, tmp, applied, running, latest, on, op,
  asked, slips, crowded, spoilt,
  record, binary, pidfile, procs, registered, fresh, calls, stops, pc, local, smooth,
  seq, ring, subs, runner, out, run, doomed, runs, clock, expired, server, browser, restarts,
  unsaved, got, steady

binaries == <<file, tmp, applied, running, latest, on, op, asked, slips, crowded, spoilt>>
sidecar  == <<record, binary, pidfile, procs, registered, fresh, calls, stops, pc, local, smooth>>
feed     == <<seq, ring, subs, runner, out, run, doomed, runs, clock, expired, server, browser,
              restarts, unsaved, got, steady>>

B == INSTANCE MCComponents
       WITH Asks <- MCAsks, Requests <- ComponentRequests, Mishaps <- ComponentMishaps,
            requests <- asked, mishaps <- slips
ASSUME UnitsAssumption == Units \subseteq Ids
S == INSTANCE PluginLifecycle
       WITH Requests <- {"request"}, stored <- record, registry <- registered
F == INSTANCE MCRunFeed
       WITH Requests <- Posts, pc <- runner, smooth <- steady
ASSUME FeedAssumption == F!Bounds

PlatformInit ==
  /\ part \in {"manager", "binaries", "sidecar", "feed"}
  /\ MCInit /\ B!MCInit /\ S!MCInit /\ F!MCInit
  /\ part # "manager" => index = {} /\ scope = "requests" /\ content = CHOOSE c \in Contents : TRUE
PlatformNext ==
  /\ UNCHANGED part
  /\ \/ part = "manager"  /\ MCNext   /\ UNCHANGED <<binaries, sidecar, feed>>
     \/ part = "binaries" /\ B!MCNext /\ UNCHANGED <<mcvars, sidecar, feed>>
     \/ part = "sidecar"  /\ S!MCNext /\ UNCHANGED <<mcvars, binaries, feed>>
     \/ part = "feed"     /\ F!MCNext /\ UNCHANGED <<mcvars, binaries, sidecar>>
PlatformSpec == PlatformInit /\ [][PlatformNext]_<<part, mcvars, binaries, sidecar, feed>>

-----------------------------------------------------------------------------
(* MCExtensionHost: the registry follows the catalog and the states, a run *)
(* comes in the order of the edges, and a waiting backend knows its rows.  *)
CatalogIsRegistered == part = "manager" => RegistryFollows
RunsFollowEdges     == part = "manager" => OrderFollowsEdges
PollersAreInformed  == part = "manager" => WaitersAreInformed

(* MCComponents: the binary a lone plugin request leaves has the features  *)
(* of the plugins that are enabled, and its unit runs that binary.         *)
CalmBinaryRuns == part = "binaries" => B!CalmBinaryHasFeatures /\ B!CalmUnitRunsBinary

(* PluginLifecycle: while at most one goroutine works on a plugin, its   *)
(* sidecar is never lost or duplicated and ends with the plugin, as its    *)
(* entry in the registry does; and it stays reachable under its port and   *)
(* its token.                                                              *)
SidecarFollows     == part = "sidecar" => S!SmoothSidecarKnown /\ S!SmoothOffIsOff
SidecarIsReachable == part = "sidecar" => S!SmoothSidecarReachable

(* MCRunFeed: a run the browser is told the end of is in the list of runs; *)
(* on a connection no event comes twice, and in smooth histories event     *)
(* follows upon event over all of them.                                    *)
ToldIsStored  == part = "feed" => F!ToldIsStored
EventsInOrder == F!NoRepeat /\ F!SmoothStream
=============================================================================
