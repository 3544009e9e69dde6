# GateBox in TLA+

Models of the control plane of [GateBox](../src/README.md), the model-checking
runs that test them on small instances, and theorems checked by TLAPS. Paths
below are relative to `src/backend/internal/` unless they start with `src/`.

    tlc -workers 2 -config sync.cfg MCObjectSync.tla     # one run
    tlapm ObjectSyncProofs.tla                           # one module of proofs

`PROJECT.json` lists components, runs, mutants, findings, hazards and
theorems, and maps every definition to the lines it stands for.

## 1. The system

GateBox is one Go process. Its state is a bbolt database, files under
`$DATA_DIR`, and what it has told Caddy, Docker, acme.sh, systemd and the
sidecars of its plugins. Requests are served concurrently; a bbolt write
transaction is the only large lock, and a handler is usually several of them.
Two chains bring stored facts to Caddy side by side (`server/server.go:93`):
the older *reconciler* for services, domains, ports and credentials, and the
*object sync* for the typed objects of v4.1. Both POST a whole Caddyfile.

| part | state | operations | talks to |
|---|---|---|---|
| object store: `objects/`, `repository/objects.go`, `handler/objects.go` | objects per kind, password hashes, statuses | create, update, rename, delete (forced or not), set password, keep the edge host | type specifications, object sync (write hook) |
| object sync: `objectsync/`, `caddyrender/` | pending objects, wake channel, `running` | mark pending, loop, run (snapshot, render, load, write back), manual run | object store, Caddy, event bus |
| reconciler: `reconcile/`, `graph/` | pending intents, wake channel | trigger, loop, run (closure, order, apply), manual run | gateway facts, acme, Caddy, plugins, run records |
| gateway: `handler/gateway_api.go`, `gateway_ports.go`, `gateway/` | applications, services, fragments, variables, ports, domains, credentials | their requests; `Generate` of a Caddyfile | reconciler, Docker labels, certificates |
| ACME adapter: `adapter/acme/` | certificates, registered account, cooldown per name | ensure, renew, remove, change of the e-mail | acme.sh |
| docker and compose: `handler/docker*.go`, `adapter/docker/` | a record per project, files, `locks` of deployments | list, create, save, restore, adopt, deploy, down, delete; start, stop, upgrade, convert, remove of containers | the daemon, the gateway's reload |
| live pages: `handler/docker_ws.go`, `adapter/docker/client/` | two goroutines per websocket | console, logs, image pull with progress | the daemon, a browser |
| statistics: `adapter/docker/stats/` | viewers, timer, loop, streams, a ring of samples per container | subscribe, leave, cooldown, scan, sample, close | the daemon |
| plugins: `plugin/`, `extension/`, `source/` | record and artifacts per plugin, pid file, sidecar, catalog, registry | install, enable, disable, remove, purge, resume, stop all, refresh from the index | processes, registry |
| projection: `handler/projection.go` | none; answers change with the facts | the long poll of a plugin's backend | plugins' backends |
| components: `component/`, `handler/components.go` | binaries, applied variant, processes | upgrade, restart, variant for the enabled plugins | downloads, systemd |
| records and events: `reconcile/store.go`, `observe/`, `handler/observe.go` | last runs, ring of events, a channel per browser, last status told | publish, subscribe, replay, trim, poll of states | browsers |
| migration: `migration/` | none; `migrate41` is a command | build, sort, apply, backup, restore | old tables, objects |
| store and settings: `repository/`, `config/`, `handler/settings.go`, `docker_registry.go` | key file, sealed registries, variables, `gatebox.conf`, `daemon.json` | open, move of the variables, their requests | files, the daemon |

### What is hard

* **Interleaving.** The reconciler's runs exclude one another nowhere; the plugin
  manager, the component handlers and the compose handlers hold no lock from the read
  of a record to its write; the password store is written outside the object's
  transaction. The object sync does exclude its runs, and pays for it: the loop's
  refused run has already consumed its wake-up.
* **Ordering.** Wake channels of capacity one, events numbered under the lock but sent
  after it, replay followed by subscription, end event and record of a run,
  certificates before the configuration that names them, a shell's last output and
  its end.
* **Crashes.** Queues live in memory; sidecars and containers outlive the process; the
  migration writes object by object; files are emptied before they are written.
* **Partial failure.** A password write fails after the user is stored, a load is
  accepted and its answer lost, a container upgrade breaks between two renames, a
  binary is moved aside and the new one cannot be written.
* **Limits.** A wake-up, a ring of events, of samples, a channel per browser, a number of
  records kept, a deadline shorter than what it waits for.

`PROJECT.json` has each of these at its line under `hazards`, with the property
that would catch it, or the reason there is none.

### What makes each part correct

* Object store: ids follow keys, references resolve, passwords belong to users.
* Object sync: one run at a time, Caddy never goes back to older objects, every
  save takes effect or is shown as failed.
* Reconciler: no intent is forgotten, producers before consumers, Caddy comes to the
  stored facts in spite of overlapping runs.
* Gateway: at rest Caddy runs the file of the facts as they are; what a user has stopped
  stays stopped; whatever is served is in a list; no two protocols share a port.
* ACME: an issue relies on an account that exists, and every run ends.
* Docker: what was deployed last can be restored, a name always leads to a container while
  it is upgraded, the gateway follows what Docker runs.
* Live pages: a page that stays sees everything up to the end, every session ends, a full
  progress bar means fetched layers, a curve shows the last samples in order.
* Statistics: one stream per container however many watch, collection while somebody does,
  nothing read when nobody does any more.
* Plugins: what the catalog has is registered, a sidecar is known by its pid file, reachable
  under the stored port and token, and gone with its plugin; a backend that polls hears of
  every change.
* Components: the binary that runs has the features of the enabled plugins.
* Records and events: what a browser is told is stored, no event twice or out of order.
* Migration: one that ends has lost no site it does not report, and a second changes nothing.
* Store and settings: what is sealed stays readable and is what was given last; a setting of
  somebody else in the same file survives.

## 2. Modules

| module | models |
|---|---|
| `ObjectStore` | `objects/service.go`, `user.go`, `host.go`, `repository/objects.go`, `secrets.go`, `handler/objects.go` |
| `ObjectSync` | `objectsync/syncer.go` and the write hook |
| `Reconciler` | `reconcile/reconciler.go`, `order.go`, the acme and caddy steps of `handler/gateway_api.go` |
| `FactGraph` | kinds, references, edges and the order of a run: `graph/`, `reconcile/order.go` |
| `Gateway` over `CaddyConfig`, `DockerRoutes`, `FactGraph` | the request handlers of `handler/gateway_api.go`, `gateway_ports.go`, `api.go`; `Generate` and its block per site; the services `gateway/derive.go` makes of labels |
| `CertIssuance` | `adapter/acme/acme.go`, `ReconcileAcme`, the certificate requests |
| `Docker` | `handler/docker.go`, `docker_compose.go`, `docker_upgrade.go`, `docker_ws.go` (deploy), the conversion of a container |
| `LiveStreams`, `PullProgress` | the websockets of `handler/docker_ws.go`; the aggregation of a pull in `adapter/docker/client/image.go` |
| `StatsCollector`, `OnDemand` | `adapter/docker/stats/collector.go` and what it promises |
| `SampleRing`, `SampleWindow` | the ring of samples, and the window it stands for |
| `StatusPoll` | `observe/collector.go` with a page's channel |
| `RunFeed` | `reconcile/store.go`, `observe/bus.go`, `serveEvents`, the browser's `EventSource` |
| `PluginLifecycle` | `plugin/plugin.go`, `sidecar.go`, `proxy.go`, start and exit of `src/backend/cmd/gatebox/main.go` |
| `ExtensionHost` over `FactGraph` | the catalog, Refresh, descriptors; the poll of `handler/projection.go` |
| `Components` | `component/`, `source/` (installation), the variant handlers |
| `TypeSpecs`, `CaddyRender` | `Validate` and the schema of `typespec/`; `caddyrender/render.go` |
| `Migration41` over `TypeSpecs` | `migration/v41.go`, `apply.go` |
| `Store`, `DaemonConfig`, `ConfFile` | `repository/store.go` with the key, the registries and the variables' move; `daemon.json`; `gatebox.conf` |
| `MC...` | instances, bounds, and history variables that say how calm an execution was |
| `...Proofs` | theorems: `StorageProofs` of `ObjectStore`, `Store`, `DaemonConfig`, `ConfFile` and `Migration41`, `PlatformProofs` of `PluginLifecycle`, `ExtensionHost`, `Components`, `FactGraph` and `RunFeed`, `LiveProofs` of `StatsCollector`, `SampleRing`, `LiveStreams` and `PullProgress`, `GatewayProofs` of `Gateway` with `CaddyConfig`, `DockerRoutes` and `FactGraph`; those of `CertIssuance` stand in the module |

Components that interact are composed where they share state: `Gateway` is the
handlers, the run that reads what they write, the file it generates and the labels
of containers; `ExtensionHost` and `Reconciler` share the graph; `MCMigration`
renders what `Migration41` writes with `CaddyRender` and compares it with the old
sites. `MCServing` (the gateway, certificates), `MCStorageDocker` (`MCStorage`,
`MCDocker`), `MCPlatform`, `MCLive` and `MCStorage` check parts that share no state in one
run: the initial state picks the part (`side` or `part`, in some a `scope` within it), and a
behaviour is one of that part only. The parts of a run are never multiplied with
each other.

### How state and actions correspond to the code

* One bbolt transaction is one step. What a handler does outside it is another
  step, and another goroutine may act in between. A goroutine's position is its
  `pc`, `job`, `task` or `issue`; a crash forgets positions and memory and keeps what is on disk.
* A wake channel with a buffer of one and a `select` with `default` is a number
  in `0..1` that is set to 1. The debounce of the loops is a step of its own.
* **ObjectStore.** `Create`, `Update`, `Rename` and `Delete` are the transactions
  of `objects/service.go`; `PutSecret`, `MarkPasswordSet`, `UndoCreateUser`,
  `MoveSecret`, `DropSecret` are the writes around them, each with its failure.
  `DropSecretFails` leaves the hash behind and says nothing, as `Delete` does with
  the error. A delete takes along the objects that refer to what is deleted directly
  (`Victims`) when forced and is refused otherwise. References are those of the
  schema (`SchemaRefs`, all that `ReferenceTargets` knows) and those a catalog type
  adds (`CatalogRefs`, which only `Validate` knows). `EnsureEdge` is the heartbeat:
  look and create in two steps.
* **ObjectSync.** A write and the three steps of `MarkPending` (mark, queue, wake);
  the loop's select, debounce, count and the entry to a run, which takes the queue
  only if no run is under way; the snapshot in two reads (routes, the rest), the
  check of rendering and validation, the load with its three outcomes, the write-back
  route by route, the release. Manual runs take the same path without the loop's front.
  A version is the number of the write that made it.
* **Reconciler.** `Trigger` in two steps, the loop, `drain`, then a plan: the
  consumers of the changed facts in order, each of which reads and applies. A full
  intent makes the run a full one. The caddy step is a read, a load with three outcomes
  (accepted, refused, accepted with the answer lost), the backup and the sync of
  plugins. A write of either that fails is logged and the step is a success
  (`PersistFails`; `missed` keeps which one). `POST /reconcile` runs the same steps beside it.
* **Gateway.** `db` is one table per bucket. A request decides on its reads what it will
  write (`todo`) and then writes row by row, each of which may fail; an application and
  its services are undone by hand (`createApp`). A run reads services (and Docker) and
  then the other facts, generates the set of site blocks (`CaddyConfig`) or gives up for
  a reason, and loads. A change of a credential asks for acme alone (`ChangeOfAcme`), and a
  PUT of a service takes any application. Names, ids and hosts are small sets; a block keeps what decides
  about another block: address, upstream, fragments in order, whether it has a certificate.
* **CertIssuance.** A job is one certificate of a run or a renew request: check (fresh,
  or cooling down), hook, account, issue with retries, install. The authority
  answers in any way, the deadline of a run passes, and then a command is killed. The
  issuer's memory (`ready`, `readyFor`) is read and written outside any lock.
* **Docker.** A handler reads the record, acts on the daemon and writes the record back
  (`task` holds the copy it has read); a deployment whose record cannot be written is a
  success without one (`DeployUnrecorded`). `syncCaddyAsync` is a count of reloads that
  have been started; a reload sees what Docker runs when it gets there. An upgrade is the
  chain pull, stop, create under a temporary name, remove, rename, start, with the failures of each.
* **LiveStreams.** Goroutine A copies the stream to the page, goroutine B the page to the
  stream, and both end through one context; a stream is bytes or frames (`tty`), and its end
  comes after its data. **PullProgress** is the fold of the daemon's messages about layers.
* **RunFeed.** `Publish` numbers, keeps and lists under the lock, `Send` goes to one
  subscriber at a time afterwards and skips full channels; `serveEvents` replays from
  `Recent`, subscribes, writes and cancels; the browser reconnects with the last id it
  saw. A run publishes its start, saves its record, trims (list, then delete), and
  publishes its end. Retention is by count and by age. **StatusPoll**: a change is told
  once and remembered as told.
* **PluginLifecycle.** One process plugin. Every public operation is a path through the
  same small steps: `Load`, `Download`, `Save`, `Wipe`, `Delete`, `Unregister`, `List`,
  `Register`, `Start`, `Kill`, `Unlink`, `NewPort`, `Exec`, `WritePid`, `Alive`, `Fail`.
  A process carries the port and token of its environment, which `Forwards` compares with
  the record's. `main` boots, resumes the sidecar beside the first requests, and on a
  signal stops it before the server. `Crash` keeps disk and sidecars.
* **ExtensionHost.** Refresh unregisters all, lists the states, registers each that is
  enabled, and the index may change before any of it. A poll compares the revision it was
  given with the one of the content, waits, and is answered on a change or a time-out.
* **Components.** A variant: probe the version, read the enabled features, compare the key, fetch,
  move the old binary aside, write the new one beside it, move it in, record the key, restart
  or reload the unit. An upgrade takes the same steps.
* **StatsCollector.** Each section of `collector.go` under its mutex is a step: `Subscribe`,
  `Unsubscribe` (the returned function), `CooldownOver` (the timer's function, which may wait
  for the lock after the timer can no longer be stopped: `late`), `Close`, `Sync` (the second
  half of `syncContainers`; `List` is the first, outside the lock), `Record`, `StreamEnds` with
  `dropStream`. Loops and streams are slots that are free or hold a goroutine; `live` is
  whether the stream's context is not cancelled. A stream that a cancelled loop registers is
  born cancelled. `OnDemandOK` is the refinement: `watchers <- subs`, `on <- Running`, `read`
  is the set of containers with a live stream.
* **Migration41.** `Build` is a function from old tables to a plan: objects in order, what is
  dropped, what cannot be mapped. `Apply` writes one object per step through
  `TypeSpecs`' `Validate`; `Kill` may come between any two. Names are
  chosen so that their slugs clash.
* **Store.** `keyFile` is nothing, empty, or a key; opening reads or makes it. Registries are
  read, changed and written back whole. **DaemonConfig** and **ConfFile** read a file, empty
  it and write it, in steps; a read of `daemon.json` that fails (`ReadFails`) goes on with
  nothing read, a write that fails (`WriteFails`) ends the request.

Left out on purpose: the wording of messages and logs, timestamps other than the order
they give, the text of configurations, HTTP codes.

## 3. Runs

Passing:

| run | instance | properties |
|---|---|---|
| `sync` | part `alone`: the loop as the server runs it, two routes, two other objects, three writes; part `crowded`: two writes beside the tick, a manual run, a restart, failing reads; fair | `OneRun`; `CaddyMovesForward`: loads never go back in time; `AloneSettledIsServed`: nothing queued or running means Caddy runs the store, or an error shows; `AloneSavesSettle`: a save takes effect or is reported |
| `reconcile` | a writer of all four facts, loop, tick, manual run, any two of writes, restarts and failures, those of the backup and of the plugins' configuration among them; fair | `NoIntentForgotten`; `SmoothQuietIsApplied`: at rest everything is applied, but for a copy (backup, plugins) the last write of which has failed; `Converges`: in spite of overlaps and restarts Caddy comes to the stored facts |
| `collector` | two viewers, one container, two loops and two streams at a time, two late timers, `Close`, streams that break; fair | `OneStream`, `OnDemandOK`: implements `OnDemand` with its liveness; `StreamsFollow`: all goroutines end when nobody watches, and a running container that is watched is sampled again and again |
| `gateway` | two parts. Two clients and the run; scopes of two or three requests about applications, fragments and variables, ports, Docker and credentials; failed writes and loads, a crash, a change in Docker. Or the certificate of one name under two overlapping runs, or under a run, a renewal and a change of the e-mail; deadlines, kills, months that pass, a restart; fair | `QuietConfigIsCurrent`: at rest Caddy runs what `Generate` gives for the facts as they are now, but after the steps for which the code asks for no run of Caddy (a credential among them); `CalmStopsAreKept`; `CalmReferencesResolve`: whatever is stored is in a group of the page and in the graph, unless a PUT has named an application that does not exist (see `orphans`); `CalmPortsDisjoint`. `ReadyMeansRegistered`: if the issuer skips the registration, the authority has the account; `RunsEnd` |
| `platform` | four parts: catalog and poll (`ExtensionHost`); a binary under two requests (`Components`); a sidecar under a request beside `main` (`PluginLifecycle`); two runs and a browser that connects twice (`RunFeed`) | `CatalogIsRegistered`, `RunsFollowEdges`, `PollersAreInformed`; `CalmBinaryRuns`; `SidecarFollows`, `SidecarIsReachable`; `ToldIsStored`, `EventsInOrder` |
| `live` | a page of each kind that types, leaves or falls silent; a pull of three layers; a ring of three that keeps turning; a poll of two components with a channel of two; fair | `StayersSeeAll`, `SessionsEnd`; `FullMeansFetched`; `HistoryIsWindow`; `ShownSettles` |
| `storage` | six parts: objects (chain of references; users and hosts under two requests); the migration with kills, repeats, restores and users who edit between; key, registries and variables; `daemon.json`; `gatebox.conf`; and Docker: a project with two texts or a container with two images, two requests at a time, two mishaps, four of requests and mishaps together, docker and files used from outside | `OnlyCascadeDangles`: only an object swept along by a forced delete leaves references behind (`cascade` shows that it does); `CalmSecretsMatchUsers`; `MigrationKeepsSites`, `SecondRunIsQuiet`; `ValidObjectsRender`: what is accepted can be rendered; `SmoothSecretsKept`, `VariablesMoveOnce`; `SettingsKept`. `CalmRestoreIsLastDeployed`, `NameNeverVacant`, `CalmRoutesFollow`: what the gateway last saw of Docker is what Docker runs |

Properties whose name starts with `Calm`, `Smooth` or `Alone` are about histories in which
something does not happen (two requests that overlap, a failure half-way), which the MC module
records in a history variable and defines next to it: the code has no protection against that
something, and says nowhere that it has. They are checked in instances in which it does
happen as well, and the other properties of the run are checked there.

Violated, each a disagreement of the code with what it says of itself:

| run | property | what happens |
|---|---|---|
| `sync_manual` | `SavesSettle` | the loop's run is refused while a manual run is under way; its wake-up is gone and the saved object stays 未生效 until the next save |
| `feed_closed` | `SendsFindOpenChannels` | `cancel` closes a channel that a publisher has listed and not sent to yet: the send panics |
| `docker_volumes` | `OnlyOwnVolumesGo` | volumes are removed by the prefix `<project>_`, which `a` shares with a project `a_b` |
| `cascade` | `NoDanglingSchemaRefs` | a forced delete takes along what refers to the object, not what refers to that: the second one keeps the id of an object that is gone, and the answer does not name its kind |
| `orphans` | `ServicesAreShown` | `updateService` stores any `appId`; the list looks up the group of an unknown one where it was never put, so the service is in no group, and not 未分组, while Caddy serves it |

Each property of a passing run has a mutant in `PROJECT.json`: a definition of the
model replaced by one with a plausible mistake (they are next to the definition and
say `Wrong:`, or are an operator that exists besides), under which the run fails.

### Bounds

Bounds are CONSTANTS of the MC modules or of the module they bound, and are named there. Two or three
writes are enough for a newer version to meet an older snapshot, two goroutines for every pair of steps
to meet; the lock-like parts (`running`, `wake`) hold 0 or 1. Two loops and two streams per
container are a collection and what is left of the one before; containers share nothing but the
loop's round, so one is enough for the order of steps, and the theorems cover any number.
Two ids of objects give collision, rename and reuse. A ring of two and a channel of one overflow with
two runs of two events each; a ring of three keeps turning, with samples of two values, and meets
every position of the seam. Three calls and two stops let a plugin pass install, enable, stop and restart and a third call
meet each of them. `MaxFresh` (pids, ports, tokens) is the most that three calls and two restarts can
use up, so it cuts no execution short. `MaxMade` containers of the Docker part are the first one and two
upgrades of it. In the gateway's run two requests that overlap, or one after a mishap, are followed by
the runs they ask for; the third of the fragments' scope edits what the first two tied together.
Three starts of the server are one before and one after a page's save, and one after a crash.
The migration's tables have pairs of names that clash in each way the code treats apart.
Around it the command starts twice and users touch objects up to three times: enough to save, refer to
and delete one between two runs.
The two clients of `storage` are symmetric (`Symmetry`); the run checks no liveness.
Deadlock is not checked where a finite instance stops once its bounds are used up; `collector` never
does, and it is checked there.

### Fairness

`sync`: weak fairness of the announcement of a write, of the loop and of runs: goroutines that can
run are scheduled, and every blocking call of theirs has a time limit. No fairness for writers or
manual requests, nobody has to write. `reconcile` adds the tick, which comes again and again when
`GATEBOX_RECONCILE_PERIOD` is positive, with the number of failures bounded. `collector`: weak fairness
of timers, of rounds that have listed, of cancelled loops and streams (their contexts end every
blocking call), strong fairness of a successful list and of a sample of a running container:
the daemon answers again and again, if not always. `gateway`: of certificates every job goes on, a command
ends or is killed by its deadline. (A killed acme.sh whose children hold its output open keeps
`Wait` waiting, `adapter/acme/acme.go:448`; the run assumes they do not.) `live`: the goroutines of a session
that can go on do, what is written to a page that fell silent fails in the end; the poll
goes on, and a poll that succeeds happens again and again. No fairness for viewers, pages or the
daemon's output. The safety properties need no fairness.

## 4. Proofs

For all values of the constants (any number of ids, clients, writers, goroutines, restarts), from
the named assumptions on constants in each module, which TLC evaluates for the instances. The
safety properties of every passing run but one half of one (`SitesSurvive`, below) are theorems, most
of them over the very specification the run checks, which comes with the history variables of the MC module, so that what
is `calm`, `smooth` or `alone` is part of what is proved; for `gateway` and the Docker part of `storage` it is the
specification of the part (`MCSpec` of `MCGateway`, `CertSpec`, `MCDockerSpec`), which the run's does beside others that
do not touch its variables. In `PlatformProofs` and `StorageProofs`
a step moves the variables of one part only, so the invariants are those of the parts.

* **StorageProofs, objects.** `TypeCorrect`. `IdsFollowKeys`: inductive as it stands given
  `TypeOK`; each step is reduced to its effect on `live` and `body` by a lemma (`RenameEffect`,
  `CreateEffect`, ...), as most steps touch neither. `UnforcedRefsResolve`: if clients never
  force, no schema reference ever dangles, in any concurrency and under any fault; it holds
  because validation, rewriting and the refusal of deletes happen in the same transaction as the
  write. `DanglesOnlyByCascade`: the action property of `storage`, from the same effects.
  `CalmSecretsMatch`: of histories in which no write or removal of a secret fails, no process dies
  within a request and no two requests overlap, whatever they are about. It says what a sequence of
  whole requests leaves, and nothing about requests that overlap, of which two about one user can
  orphan a hash (§5). The invariant says that in calm histories one request at most is under way,
  and for each of its steps which users' hashes it still has to bring in line; for every other id
  user and hash agree.
* **StorageProofs, settings.** From `StoreAssumption` (allowed names are not those of built-in
  variables, the marks for "nothing" are no values) and `ConfAssumption`. `SecretsAreKept`: what
  is sealed was sealed with the key in the file, nothing is sealed while there is no file or its
  key is still to be written, and an update under way has read what was given last.
  `VariablesMove`: nobody is served, so nothing is wished, before the move is over; afterwards
  variables follow the wishes. `SettingsAreKept`: for `daemon.json`, that the fields an update has
  read are the user's unless a read has failed (`unread`), that without a mishap one update is under way at most, and what the file
  holds at each place that one may be at; for `gatebox.conf` the same of its lines, on lemmas that
  say for every file what its writer makes of it and what its reader sees in that.
* **StorageProofs, migration.** From `MigrationAssumption` (tables are sequences of rows, a saved field
  has one text or an array of them). Four layers of lemmas, each for all inputs. *Build*: whatever
  the tables, each object of the plan has a kind of the migration and fields of one text or an
  array, through each fold over the rows (`Walk...`), and sorting keeps the objects that are
  planned (`SortedOK`, `PlanMade`). *Validate*: it accepts no less when more exists (`RefsMonotone`),
  and a deletion that `inboundRefs` lets pass harms the users of a basic_auth only (`RefsGone`).
  *Render*: an object that Validate accepts fails for no reason outside `Excuses` (`SoundRenders`,
  from `AddressIs`, `UsersSound`, `MiddlewareSound`, `RouteRenders`: one lemma per function that
  refuses). *The run*: the invariant `MigrationInv` says that what is stored, in the database and in
  the backup, is accepted when the planned objects count as stored (`Kept`), and by itself whenever
  the last run that wrote ended without a failure; that under way what is stored or planned stays
  the same, and each object passed by is stored or refused (`Decided`). The first part is what a
  killed run leaves behind, and no stronger one holds: routes are written before their services.
  `ObjectsRender` and `WholeResolves` follow from the invariant, `SecondRunKeepsObjects` from
  `Decided`, as what was refused is refused again over the same objects. `RunsComplete`: with the
  hypothesis `PlansAccepted` (Validate accepts the plans of the tables by themselves) nothing is ever
  refused. The tables of the run meet it: otherwise `DoneIsComplete` would fail in the run.
* **GatewayProofs.** From `GatewayAssumption` (ids to draw are listed without repetition, start-up ports are
  finitely many numbers, the mark of a stored service is no container's name) and `ServedAssumption` (there
  are ids for one application and its service). The invariant has three parts.
  `Shapes`: what a row, a request and the run's hands hold. `Orderly`: while requests do not overlap
  and no write fails, what a request has checked before its first write (the group exists, nobody
  else uses the port, nothing refers to what goes) still holds when it writes, row by row.
  `Owed`: if the facts differ from those Caddy was last loaded from, then an intent is left, or the
  run has yet to read what differs, or a request is under way that will leave one at its end, or
  a step was taken after which the code asks for no run of Caddy (`unseen`; the change of a credential
  is one).
  `QuietFactsServed` is `Owed` where nothing is left to do; `StopsAreKept`, `PortsStayApart` and
  `ReferencesResolve` come from `Orderly`, whose step goes request by request; a PUT that names an
  application nobody has ends what `ReferencesResolve` says, as it does in the run. `PortsStayApart`
  is about start-up ports that are disjoint (`StartDisjoint`, part of the property): nothing in the code
  compares those with one another.
* **ObjectSyncProofs.** `TypeCorrect`. `RunsExclude`: with the invariant `Guarded` (whoever is in
  a run, `running` is set, and there is one of them). `LoadsMoveForward`: with the invariant that
  stored versions are at least those of every snapshot, and a snapshot at least what Caddy runs,
  which uses the exclusion of runs. `SettledServed`: `SettledIsServed` for processes that do not
  restart and reads that do not fail, by an invariant that says for each point of a run what still
  has to be done for an object, a run's promise being handed on from read to load to write-back.
  `AloneSettledServed`: the property of `sync`; a behaviour of the loop alone is one of such a
  process.
* **ReconcilerProofs.** `IntentsRemembered`: with the places of goroutines as the typed part, a
  pending intent has woken the loop or a writer is about to, whatever other runs drain.
  `SmoothQuietApplied`, from `PlansAreOrdered`: whatever is stored and not applied is owed (its
  intent is pending or about to be) or ahead of the one run under way, whose plan has the
  component that applies it, or is a copy the last write of which failed (`missed`); a plan has each component that consumes what its intents name, acme
  before caddy.
* **PlatformProofs, plugins.** From `RankAssumption`, `CoreAssumption` (the program's own
  components) and `UnitsAssumption`. `PollersInformed`: what a waiting backend was told is the
  revision of the rows its request has read. `CatalogRegistered`: while calm one goroutine is in
  `Refresh`; once it has unregistered, no plugin of the catalog is registered but the ones it has
  come to. `SidecarKept`, `SidecarReached`: one goroutine is at work, what it has read still holds
  where it uses it, and between Kill and the new process there is none. `CalmBinaryRight`: a
  request that was alone all its time knows what is registered; a component that is not spoilt is
  settled, or still to be come to, or in the middle of being built. `RunsOrdered`: an order
  computed by taking the least component that waits for nobody lists each component once, and what
  it consumes from before it; the function is recursive over sets, and the induction goes over the
  subsets of a finite set.
* **PlatformProofs, events.** From `FeedAssumption` (sizes are positive numbers). `ToldStored`:
  every run whose end the browser was told, or will be by what lies in ring, channel, backlog or
  the hands of a sender, is kept, was taken by retention, or could not be written; a run retention
  took stays covered by as many newer ones as are kept, because it takes the oldest.
  `EventsOrdered`: the ring has the last events under consecutive numbers; what is replayed is the
  end of the ring; for a connection the backlog is in order, the channel and the event being sent
  repeat no number; and in smooth histories all of these continue what the browser has, with no
  gap.
* **DockerProofs.** From `NothingAssumption` (to have no record, file or container is not a value
  of one). `DockerTyped`: what a request has in hand depends on where it is. `RoutesFollow`: the
  gateway's last reload saw what docker runs, or a reload is to come, or a request is under way
  that ends with one. `NamesKept`: each container has an id of its own and lies in a slot of the
  name it was made under; the container an upgrade began with is under its name or gone; between
  creation and removal the new one is there, or the name was given up, or there is nothing left to
  remove. `RestoreFollows`: the record says what the last deployment started, and so do the record
  a save read, the records a list read and the file a deployment is about to start, in the hands
  of a request that is alone.
* **LiveProofs, collector.** `TypeCorrect`; `StreamsAreShared`: `OneStream` says that an open
  stream is the registered one and belongs to a collection that is on, which makes it inductive: a
  stream is registered only where none is, and forgotten only when cancelled. `UnwatchedStops`:
  inductive. `Implements`: every step of the collector is a step of `OnDemand` or leaves its
  variables alone; that goroutines of a stopped collection do nothing the daemon would notice
  needs `OneStream` before and after the step.
* **LiveProofs, ring.** `RingImplementsWindow`: for every size, the history read out of the ring
  is `SampleWindow`'s sliding window. The invariant ties `next` to the length of the ring until it
  is full; the step has three cases: below the size, the sample that fills the ring, and the
  overwrite at `next`, where reading from `next + 1` around is the old history without its first.
  `RingServesPages`: so it is in the run's specification. `RingLatestIsLast`: what `latest`
  returns is the end of that history.
* **LiveProofs, sockets.** `StayersServed`: what a page that stays was shown, what our side
  carries and what is still to be read are, one after the other, what the daemon wrote
  (`Console`, `Carried`), as long as nothing is given up; `Places` says which goroutine may be
  where, that the context ends only with one of them, and that the stream is open while the
  handler is busy, so a stream found at its end has nothing left in it. An error of a pull is
  owed from the piece that holds it to the end, where it is told last.
* **LiveProofs, pull.** From `LayersAssumption` (finitely many layers, sizes are numbers).
  `FullFetched`: a layer as the bar sees it and as the daemon has it agree on being complete and on
  the bytes extracted (`LayerKnown`); the sums by bytes are the folds of the model, and two sums
  of which the one is at most the other value by value are equal only when all values are
  (`SumsCompare`), so a full bar makes every weighted layer full; what carries no weight is there.
* **CertIssuance.** `AccountsExist`: `ReadyMeansRegistered` for any names, runs and writers of the
  e-mail. Only the end of a registration says that one is made, and it says so for the e-mail it
  registered, not for the one that is set by then; accounts are only added.

Induction over data goes by `NatLessThanWellFounded` and `WFMin` of the library: a set of numbers
that is not empty has a least (`Least`), from which follow induction up to a number (`UpTo`) and
over the subsets of a finite set (`Subsets`), stated for sets and functions instead of operators;
a recursive function exists because the set of sizes up to which one does has no least exception
(`Recurs`, `Adding`).

Only model-checked, and why: liveness (`AloneSavesSettle`, `Converges`, `StreamsFollow`, `RunsEnd`,
`SessionsEnd`, `ShownSettles`, the fairness of `OnDemand`), which is out of the prover's reach; and of
`MigrationKeepsSites` the half `SitesSurvive`, which compares the sites of two programs for given
tables. It is not a theorem about all tables: where the slug of a root domain nobody has listed
clashes with another's, its routes move (§5), so it is stated of tables whose clashes are known, those of
`OldTables`. The other half is `RunsComplete`.

## 5. Not modelled, and what a reader should know

Every component is in `PROJECT.json` with its status. `src/old` (a third of the lines of the
implementation) is the frozen former version. Without a model of their own: the health
collector (`gateway/health.go`: one goroutine, one map under its lock), the requests passed on to
the Docker daemon one by one, sessions (stateless), the pages of the frontend but for the event stream;
`Service.Put`, `StdCopy`, `ExecOnce`, `LoadImage` (used by nothing that serves); the binary's start,
stop and uninstall, which refuse for each built-in component; formats of frames and texts.

Where an abstraction assumes something: a file is not shared with a second GateBox; no other
`caddy` is on the `PATH`; the signature of the index holds or the fetch fails;
a failed probe of a component is modelled (`PollFails`) though today's probes do not fail.
Three steps are coarser than the code: `ReadFacts` of the gateway's run reads in one step the facts that
`handler/gateway_api.go:1185` and `:1344` read in several transactions, `ReadRest` of a sync run the kinds
of `objectsync/syncer.go:308` (in both, what is written in between asks for another run);
and `WriteNext` of the migration refuses an object for good, where `migration/apply.go:80` also goes on after a
write that failed for the moment, so that a second run may write it after all: `SecondRunIsQuiet`
and `SecondRunKeepsObjects` speak of runs whose writes succeed.

The code differs from its documents, or from what one would expect of it, also in these places. They are
not runs of their own: some are one deterministic line, and of the others the properties say in their
comments what they except.

*Objects and sync.* References a catalog type declares (basic_auth `users`) are validated but not seen
by delete and rename (`typespec/typespec.go:409`, against `src/docs/adr/ADR-043.md:98`). Deleting or renaming a
user while another request writes its password leaves a hash that serves whoever takes the id (`objects/user.go:100`).
A crash between the creation of a user and its password leaves a user nobody can log in as (`objects/user.go:57`);
a rename commits before the secret moves (`objects/service.go:317`); a hash that cannot be removed with its user
stays without a word (`objects/service.go:321` and `:370`); a handler whose password write fails returns before
it marks the object pending (`handler/objects.go:200`); a hand-made second host may be an edge (`objects/host.go:85`).
The queue is lost by a restart and nothing runs at start-up (`objectsync/syncer.go:59`). The end of a
sync run is published before its record is saved (`objectsync/syncer.go:264`), in the reconciler after (`:160`).

*Reconciler and gateway.* An intent about a credential plans acme only
(`reconcile/reconciler.go:245`), where `src/docs/v4/L3-01-reconcile.md:123` says "acme + caddy + config-sync":
the first or last credential of a domain changes the `tls` lines of its sites (`buildDNSMap`), and Caddy
runs the file as it was until another change or the tick. `QuietConfigIsCurrent` excepts it.
The backup of the Caddyfile and the files of the plugins are written after the load; when that fails it is logged
and the step is a success (`handler/gateway_api.go:1256-1308`), so that they may be older than what Caddy runs.
Enabling a plugin, renewing or deleting a certificate and renaming an application ask for no run.
A batch of services that is refused half-way leaves services no group shows. When Docker is
unreachable at a run the derived routes are dropped (`handler/gateway_api.go:1345`). Whole records are
written back by edits, start and stop. Type `""` is accepted and then `Generate` fails, as it does
when a variable in use is deleted; replicas share a derived id; `deleteCredential` checks no
references; a hidden default fragment can be excluded.

*Certificates.* A run has five minutes (`handler/gateway_api.go:1138`), as long as acme.sh alone
waits for a DNS record (`adapter/acme/acme.go:94`). An issue asked for during the cooldown is answered as a
success (`acme.go:335`). `renewCert` takes the longest suffix, a run the row's root domain.

*Docker.* A deployment whose record cannot be saved is a success (`docker_ws.go:372`), and
"restore" goes back to the one before. `docker_compose.go:436` deletes without a reload of the gateway; adopting does so too,
against ADR-026; a record whose file is gone cannot be deleted; a file saved between the read and the `up` of
a deployment is recorded as deployed (`docker_ws.go:316`); a second upgrade beside the first may leave two
containers; a failed create leaves the container stopped (`docker_upgrade.go:121`). A log that is quiet
with a page half-open is noticed only at the next output; what an ended shell wrote after the last key may
be lost; an unreachable daemon is reported as "no shell" (`adapter/docker/client/exec.go:181`).

*Plugins and components.* Sidecars are stopped before the server at exit, and an enable in flight starts
one after that (`src/backend/cmd/gatebox/main.go:124`). A plugin the index drops stays registered until
a restart and can be neither disabled nor removed; after a restart without the index an enabled
online plugin's sidecar is resumed but unregistered, and its projection refused. `Refresh` has a
window in which every plugin is missing, and two of them may register a disabled one. A revision is a hash of
the content and not monotone, against `src/docs/adr/ADR-036.md:78`. Removing a plugin from the store
recomputes no variant (against ADR-037). Two enables at once may leave one's feature out of the binary. The
old binary is moved aside before the new one is written (`source/source.go:370`, against
`src/docs/architecture.md:332`); `variantKey` names amd64 on every machine.

*Events.* `handler/observe.go:248` writes the event's data where
`src/docs/v4/L2-01-observability.md:125` shows the whole event. An event between replay and subscription
is lost until the next reconnect; after a restart the numbers begin at 1 again. Samples of a
container that stopped stay in the snapshots when its stream ends before the next round
(`adapter/docker/stats/collector.go:321`).

*Migration.* `checkRef` takes an empty text in an array of references (`typespec/typespec.go:607`), which
`Render` refuses, as it does a number where a text is meant (`root`, `to`): Validate does not look at the form of a
text. Deleting a user looks at no basic_auth. (All three are among `Excuses`, and `RefsResolve` speaks of the
references of the kinds' schemas.) A directory without browsing is rendered with `root` only (against
`src/docs/migration.md:130`); an unlisted root domain whose slug clashes moves its routes (`migration/v41.go:375`);
further ports of an entrypoint, and upstreams after the first, are lost; `upstreamProto` and `healthUri` are kept and not
rendered; renaming a migrated route and running again makes a second route at one address, and nothing is rendered;
backups are named by the second; domains of one label fail the pattern; protocols whose component is not installed
are skipped (`migration/apply.go:70`).

*Store and settings.* `secret.key` is made empty first; after a crash there the next start decodes the empty
file to 32 zero bytes without a word; a file that cannot be read is replaced. One unreadable record fails a whole list. `daemon.json` and `gatebox.conf` are
emptied before they are written (`os.WriteFile`), so that a crash in between, or a second request that reads then, loses the
lines of others: `SettingsKept` excepts both (`slip`, `crossed`). A `daemon.json` that is there and cannot be read, or holds
`null`, is replaced by one with nothing but the white list (`docker_registry.go:281-290`), where the comment two lines above says that
all other fields are kept: `SettingsKept` excepts it (`unread`). A failed SIGHUP leaves `daemon.json` and the daemon apart.
A port over 65535 written by hand is used by the server and shown as 0; a port of the environment that is no number falls back
to the file although the log says the default (`config/config.go:196`); a line over 64 KB ends the scan unnoticed.

## 6. Plan

1. Done: the modules of §2, their runs, and the theorems of §4.
2. An abstract `Delivery` (saved, delivered or failed) that `ObjectSync` without restarts and the
   gateway's chain both implement.
3. Both chains loading one Caddy, with its own restart and the backup.
4. A condition on tables under which `SitesSurvive` holds of all of them, and its proof.
5. The credentials of the projection and the look-ups of the registry.
