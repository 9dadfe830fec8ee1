# Sempre in TLA+

Sempre runs one proxy core (sing-box, mihomo, xray, ...) as a managed child
process, keeps the user's subscriptions compiled into configurations for it, and
bends the host's routing and DNS through it. A server publishes subscriptions
and relays what they are made of. This directory models the parts of the Rust
workspace (`rust/crates`) that decide *which* core runs, *when*, on *what*, and
what is left behind on the host and on disk, lets TLC check them on small
instances, and proves the properties that matter most for every number of
callers, deployments, processes, requests and files.

Contents: [the system](#the-system) -- [modules](#modules) --
[composition](#how-the-modules-are-composed) -- [runs](#the-runs) -- [bounds](#bounds) --
[fairness](#fairness) -- [proofs](#the-proofs) --
[disagreements](#where-code-and-documentation-disagree) --
[limits](#what-is-not-modelled) -- [plan](#plan).

## The system

Paths are relative to `rust/crates`. "State" is what survives a step and is read
by another actor; "hard" is what a test would hardly reach.

| Component | State | Hard behaviour | What makes it correct |
| --- | --- | --- | --- |
| Runtime supervisor (`sempre-manager/src/supervisor*`) | phase, resolved plan, child handle, `cleanup_needed`, network guard | every await races callers, the core's exit, reloads and shutdown | at most one core; the document names it; nothing is left on the host; stops win; every wait ends |
| Startup task, runtime actions (`startup_task.rs`, `runtime/action.rs`) | the one task, cancellation channel | a stop replaces a start half way; the supervisor adopts tasks it did not begin | no lost stop; every task ends truthfully |
| State document and rollback (`sempre-state/src/model.rs`, `rollback.rs`) | active, last good, rejected, pending, intent, runtime record | legal updates in an order nobody tested | a rolled-back document is consistent; only proven deployments are fallen back to |
| State store (`store.rs`, `atomic.rs`) | state.json, its cached copy, two locks | a crash between temporary file and rename; a stale cache; two processes | an update is atomic and never lost |
| Core installation and choice (`lifecycle.rs`, `install.rs`, `config_retention.rs`, `core_download_task.rs`, crates `sempre-core`, `sempre-artifact`) | installed versions and configurations on disk, channels, selection | files removed while a rollback still needs them; releases and selections that move while one is applied | every deployment the document names exists; the core chosen can do what the profile asks |
| Subscriptions and profiles (`subscription*.rs`, `scheduler.rs`, crate `sempre-subscription`) | the catalog, the active profile, what the configuration was built of, the cache, fetch proxies | two files without a transaction; edits during downloads and compilations | a build taken for current is current; nothing asked for through a proxy goes another way; edits survive |
| Converter (`sempre-converter`) | -- | settings laid over a profile for many kinds of target | what is compiled refers to nothing that is not there |
| DNS settings and frontend (`dns_settings_update.rs`, `dns_rule_files.rs`, `dns_runtime.rs`, `tunnel.rs`) | settings, rule files, snapshot, frontend, locks | three parties with two locks taken in different orders | files, settings and frontend agree; the locks are given back |
| DNS resolver (`sempre-dns`) | configuration generations, pools of connections | queries under an old configuration; connections that break while pooled | an answer is the query's own, from an upstream it may ask |
| Transparent network (`sempre-transparent`, `cn_routes.rs`, `rule_bootstrap`) | routes, policy rules, tables, resolver settings and their journals | killed between journal and change; drift; other programs | the host is restored exactly; the published prefixes stay direct |
| Network modes, fake addresses (`network_automation*`, `fakeip_*`) | the seen network and its cache, the range in use | the network changes between looking and acting | mode and range are those of the present network |
| Gateway and router (`sempre-gateway`, `openwrt_*`) | leases; capture rules and their script | a firewall reload beside an apply; leases that lapse | distinct addresses; capture is kept, applied or withdrawn whole |
| Tunnels (`sempre-tunnel`) | stored instances, workers, processes | reconciliations that let go of the map while they wait | one process each; each comes to run its settings |
| Update and deployment (`sempre-bundle`, `component_deploy.rs`, update task of `sempre-client`) | the task, packages, targets, backups | one step of several fails; the installer or the daemon dies | all new or all old; a package waits exactly while it can be confirmed |
| Web packages (`sempre-ui`, `core_dashboard.rs`) | current and previous directories | callers who do not know of each other | what is in place is whole and verified |
| Leak detection, traffic history (`leak_detection*`, `traffic_*`) | one observation, its probes and report; buckets of time | events, samples and hang-ups in any order; streams that restart | a report says what happened; bytes are counted once |
| Server accounts and publication (`sempre-server`) | rows, snapshots, artifacts, caches | edits between any two statements of a request | an answer is what the request read, under no older policy; editors build on each other |
| Server proxies (`sempre-server`, `sempre-proxy`) | rows wanted, instances that run, references | two processes reconciled over HTTP that restart | rows agree with what refers to them; each comes to run |

How they interact. HTTP and CLI handlers call `Manager` operations on threads of
their own. `Manager` shares four things with the supervisor's task: the
**document** (through `Store::update`, one lock), the **startup task** (a mutex
and a cancellation channel), the **reload `Notify`** (one permit) and the
**runtime rules gate** (an async mutex, held by a caller from compiling to
staging, and by the supervisor from resolving to healthy). The **operation
lock** orders installs, removals, activations, profile updates and settings. The
scheduler, tunnels, gateway and settings handlers write documents of their own
and leave a reload permit. The service host raises the shutdown flag. The server
shares a database with its requests and drives the proxy process over HTTP.

`PROJECT.json` lists every component with what of it is modelled, and every
hazard with the line where it bites and the property that would catch it.

## Modules

**The core and its document**

| Module | Models | State and actions against the code |
| --- | --- | --- |
| `Document` | the part of `state.json` that decides which core runs | one operator per closure given to `Store::update`. Error texts are booleans; timestamps, logs and counters are left out. |
| `Supervisor` | `supervisor/*.rs` composed with `runtime/action.rs` and `startup_task.rs` | see below; of the startup task there is one operator per method, and its identity is the actor that began it |
| `AtomicStore`, `StateStore` | `store.rs`, `atomic.rs`, and what they promise | `read` is `BeginRead`, `Stat`, `CheckCache`, then on a miss `LockRead`, `ReadFile`, `FillCache`; `update_checked` is `LockUpdate`, `Modify` and `write_atomic`'s `WriteTemporary`, `SyncTemporary`, `Persist`, `SyncParent`. `Fail`, `Kill`, `PowerFailure` come at any point. |
| `InstalledCores` | `install.rs`, `update.rs`, `lifecycle.rs`, `selection_config.rs`, `config.rs`, `config_retention.rs` | the files a document names and the operations that change files and document in separate steps; see below |
| `CoreChoice` | `sempre-core`, resolution of releases, `runtime_control` | requirements against what adapters say they can do, candidates, channels, and a start's control address |

**The client's other parts**

| Module | Models | Worth knowing |
| --- | --- | --- |
| `Profiles` | `subscription*.rs`, `custom_node.rs`, `scheduler.rs` | catalog and document are two files; `holder` is the operation that has the lock with what it has read, `importer` one that does not have it yet |
| `Fetching` | `sempre-subscription`, `fetch_proxy*.rs`, `source_loading.rs` | the way of every request of a download (`requested`) while proxies, rules and catalog change |
| `RuleSets` | `rule_bootstrap`, `rule_sets` | cached entries, files the core watches, and the routes they imply; the gate and the publication order |
| `Rendering`, `Compilation` | `sempre-converter`, `network_settings`, `dns_routing`, `domain_policy`, the patch of a start | documents as records of what they define and what they name, for sing-box (`Rendering`), Clash, V2Ray, Xray and dae |
| `DnsPublication` | DNS settings, rule files, frontend, tunnel servers | the setter, the tunneler, a runtime action and the supervisor, with both locks |
| `Resolver` | `sempre-dns` | queries with the generation they came in under, connections with what is owed on them, pools |
| `CnRoutes` | `cn_routes.rs` of two crates, `download.rs`, `wait.rs` | a pass is journal, deletions, additions, commit; a cancelled batch may survive its caller (macOS) |
| `SystemDns` | `macos_dns.rs`, `windows_dns.rs`, `system_dns.rs`, `host.rs` | one command per service, ownership file, services that detach |
| `Interception` | `document.rs`, `intranet.rs`, `nft.rs`, `policy.rs`, `host.rs`, `desktop_plan.rs` | a gateway's tables, rules and routes put up and taken down command by command, beside other programs' |
| `GatewayCapture` | `capture.rs`, `supervisor/capture.rs` | rules that outlive the core, the script and the process that puts them back after a firewall reload |
| `FakeIp`, `NetworkModes` | `fakeip_*.rs`; `network_automation.rs`, `default_interface.rs` | what was looked at is some seconds old when it is used |
| `Dhcp` | `dhcp.rs`, `model.rs` | leases in ticks, answers that get lost |
| `Tunnels` | `controller.rs` | the map, its workers, requests under one lock, a daemon that ends without it |
| `UpdateTask`, `Deployment`, `Updates` | update task, `sempre-bundle`, `component_deploy.rs`, and both together | swaps with their backup and activation; a fault or a kill between any two file operations |
| `Packages` | `sempre-ui`, `core_dashboard.rs`, `core_download_task.rs`, `application_uninstall.rs` | directories replaced by two renames, by callers that overlap |
| `Observation`, `Traffic` | leak detection; traffic history | samples, commands and events; counters, buckets and what a write loses |

**The server**

| Module | Models | Worth knowing |
| --- | --- | --- |
| `Accounts` | `auth.rs`, `admin_api.rs`, `account_api.rs` | a transaction is one step per statement whose order matters |
| `Publication` | `subscriptions.rs`, `public_api.rs`, `source_cache.rs`, `resource_export.rs` | a request is one statement per step, with saves, node edits and policy changes between any two |
| `Proxies` | `subscription_proxies.rs`, `proxy_node_binding.rs`, `relay_egress.rs`, `proxy_runtime.rs`, `sempre-proxy` | rows, references, jobs that hold a row over HTTP, instances of another process |
| `Sources` | `subscription_compile.rs`, `subscription_sources.rs`, `subscription_rules.rs`, `resource_relay.rs`, `fetch.rs` | loads through caches, redirects and retries under an egress policy that is edited |

`MCSupervisor`, `MCStateStore`, `MCInstalledCores`, `MCUpdates`, `MCHost`,
`MCExchanges` and `MCServices` are instances for TLC; the `...Proofs` modules hold
the theorems. `PROJECT.json` gives for each definition the lines it models.

`Supervisor` is one state machine because its hazards are in the composition.
`pc` is where the supervisor's task is; the code's phases `Recover`, `Decide`,
`Inactive`, `Prepare`, `Run`, `Fail`, `Backoff`, `Stop`, `Done` are split at
every await and at every access to a lock, the store or the startup task,
because another thread may act there. For example `stop_process` is
`StopMark` (mark_stopping) -> `Terminate` (await) -> `StopExit`
(mark_intentional_exit, and the intent is read) -> `StopClean` (cleanup and
complete_stop). `client[c]` is a caller of the API with its own labels:
a start is `RequestStart` (the status check) -> `BeginStart` (the task) ->
`Lock` (the gate) -> `Compile` -> `ReadTarget` -> `StageAction` (with_preparation) ->
`Publish` (prepared_for, the reload permit, the gate's release); a restart goes
through `RetryRejectedStep` and a spawned future (`CheckRestart`); a stop is
`BeginStop` -> `StageStopStep` -> `SignalStop`. `cancelled` holds the actors
whose cancellation receiver has seen a stop; a receiver that subscribes later
does not see it, as with the code's broadcast. `host` is what the daemon has
done to the host: policy rules installed (`network`), the system resolver
redirected (`dns`), the DNS frontend running (`frontend`), and whether its status
says so (`shown`: a stop that timed out leaves it as it was). A cleanup
(`lifecycle.rs:137-171`) is two steps, as the code awaits between them:
`StopFrontend` (or `StopRetainedFrontend`) stops the frontend and sets `cleaning`,
and `RestoreHost`, part of the step that goes on, removes the policy rules and
restores the resolver, each of which may fail. Recovery terminates the stale
process (`Recovered`) and then restores the resolver (`RestoreResolver`), where an
error is swallowed, as in the code, and only a timeout fails the recovery. `faulty`
is history: the frontend was not started, or the resolver not restored, when that
was last tried. A client may hang up in the middle of a start (`HangUp`): its future is
dropped where it waits, with the gate it holds, and its task stays. `core` is what each live
process runs and `child` the handle the supervisor holds, so that a process can
outlive the daemon that started it. `overtaken` and `proven` are history
variables: they are read by properties only. `Events` names the failures and
outside events a run explores; theorems quantify over it.

`StateStore` and `Supervisor` fit together through `AtomicStore`: the supervisor's
model takes every `Store::read` and `Store::update` as one step on `doc`, and the
refinement `StateStore => AtomicStore` is what justifies that, concurrent
processes and cached reads included. A document is the number of the update that
wrote it; a file is that number with its stamp and whether its content has been
synced. `recoverable` holds the files a power failure may leave as `state.json`.

`InstalledCores` is about files. A version has a directory, in place (`dirs`) or
renamed by a removal (`moved`); a compiled configuration is a file of its core
(`files`). `op` is the operation that holds the operation lock, with what it has
read before: an install is `InstallBegin` -> `InstallActivate` ->
`InstallRecord` -> `InstallUndo` or `InstallClean`; a removal is `RemoveBegin` ->
`RemoveStage` -> `RemoveRecord` -> `RemoveUndo` or `RemoveClean`; a selection and an
activation read their target, store what they compile, check again and update,
and discard the file when that fails. `sup` is what the supervisor does to the
same document without that lock: launch, mark stable and prune (`PruneBegin`
reads what to keep, `PruneDelete` deletes), fail and roll back (`RollBackCheck`
looks at the disk inside the update that `RollBackWrite` ends).

## How the modules are composed

`Supervisor` extends `Document`; `Updates` joins `UpdateTask`
and `Deployment`, whose deployment stops the daemon that holds the task;
`Compilation` uses `Rendering`; `StateStore` instantiates `AtomicStore`.

The other components share no state with each other in the code (or only what a
module above already holds), so that exploring them together would only
multiply their states. `MCUpdates`, `MCHost`, `MCExchanges` and `MCServices`
compose such components by a variable `focus`: each behaviour picks one of them,
starts it from any of its initial states and runs it while the others stay at
rest. A run therefore explores the union of their state graphs, not the product,
and each property is checked in all of it.

| Module | Focuses |
| --- | --- |
| `MCUpdates` | updates, dns (`DnsPublication`), profiles, observation, queries (`Resolver`) |
| `MCHost` | routes (`CnRoutes`), dns (`SystemDns`), rules (`RuleSets`), traffic, compile, ranges (`FakeIp`), modes, gateway (`Interception`), router (`GatewayCapture`), packages, choice |
| `MCExchanges` | accounts, publication, proxies, fetching, sources |
| `MCServices` | proxies, tunnels, dns, dhcp, profiles, routes -- with fairness |

## The runs

Every passing run is exhaustive within its bounds.

| Run | Actors and faults | Question |
| --- | --- | --- |
| `api_races` | two clients, two process ids, one deployment; core exit, failing cleanup, shutdown and the next boot | do stops win, are they reported truthfully, is there one core, when two callers race each other and the supervisor? (`StopWins`, `StopReported`, `OneCore`) |
| `deployments` | one client; deployments A (with DNS frontend) and B; activate, select, settings, reload; resolve, gateway, spawn, network, frontend, missing files, compile and rules lock fail, exit | does any order of staging, failing, rolling back, marking healthy and stable leave a consistent document and a clean host, and is a pending change taken off only by a healthy start, while a caller starts, restarts and stops? (`RollbackConsistent`, `NetworkFollowsCore`, `PendingCleared`) |
| `crash` | no client; A and B of two core versions; the daemon killed or shut down anywhere; recovery, termination, resolution, cleanup, the frontend and the network fail; staging and reloads | what does the next daemon know, and when may the resolver point at a frontend that does not run? (`RecordedCore`, `ResolverServed`) |
| `liveness` | one client, who may hang up, one deployment; exit, reload, cleanup failure, shutdown | does everything that was promised end? (`StopHonoured`, `StartEnds`, `ShutdownEnds`) |
| `state_store` | daemon with two threads and CLI with one, two inodes; failed updates, killed processes, power failures | is `state.json` with its lock and caches one atomic durable document? (`AcknowledgedSurvives`, `ImplementsAtomicStore`) |
| `installed_cores` | one source, two versions, two configurations; failed writes, verifications, compilations; operations and the daemon killed | do files and document stay in step, whatever fails, is pruned, rolled back or retried? (`FilesMatch`, `PreviousKept`) |
| `updates` | `MCUpdates`: update tasks with installers and deployments; DNS settings and tunnels; profiles with imports; one observation with two probes; two queries on three connections | is an update all or nothing (`DeploymentSafe`), does a task say what is true (`TaskHonest`), do settings and files agree (`SettingsAgree`), is a build current and no edit lost (`FilesOfProfileAgree`, `EditsKept`), are queries answered with their own answers (`QueriesAnswered`) and reports true (`ReportHonest`)? |
| `host` | `MCHost`: the eleven parts a client has beside its core, with failures, kills, other programs and a changing network | is what was taken of the host given back (`HostRestored`: `RoutesSafe`, `OriginalsKept`), are published rules routed (`RulesCovered`), does a compiled configuration resolve (`OutputResolves`), is traffic counted once (`TrafficKept`), is the present network followed (`NetworkFollowed`: `FakeIpSound`, `ModeFollows`), is capture whole (`CaptureSound`: `InterceptionSound`, `CaptureHolds`), are packages and cores the right ones (`PackagesKept`: `PackagesSound`, `ChoiceSound`)? |
| `exchanges` | `MCExchanges`: the server's accounts, publication, proxies and sources, the client's downloads | `AccountsAgree`, `EditsBuildOnEachOther`, `RowsAgree`, `AnswersSound` (`AnswersMatch` and `SourcesSound`), `DownloadsKeepTheirWay` |
| `services` | `MCServices`, with fairness: proxies, tunnels, DNS locks, the schedule, CN routes; the DHCP server beside them | does what must go on for ever do so? (`ProxyServed`, `TunnelServed`, `LocksReleased`, `ScheduleFollowed`, `DriftRepaired`; `NoStrayProcess`) |
| `node_names` | `MCHost`, a source with a name twice and with the name its second would get | what a document says of node names and the code does not keep (below): `NodeNamesUnique` is violated |
| `dhcp_renewal` | two clients, two addresses, no reservation | the one statement of a test that the code does not keep (below): `AddressesDistinct` is violated |

Each property of a passing run has a mutant in its module: the comment before it
says which change of the code it stands for (a dropped wait, a check on the
wrong side of an update, a lost reset). The run finds every one of them.
`updates`, `host`, `exchanges` and `services` do not check deadlock, because what
they bound (edits, faults, time) runs out and a part then really stops; in the
others a deadlock is an error.

## Bounds

- *Clients of the supervisor*: overtaking needs one caller that is overtaken and
  one that stops; a third adds no new pair. *Deployments*: two. The document
  compares active, last good, rejected and the running plan; every pattern of
  equal and different between what failed, what it falls back to and what is
  staged meanwhile needs two. *Pids*: two, so that a second core can exist beside
  the first. `Events` are unlimited in number: nothing bounds how often a core
  exits or a start fails.
- *Store*: `MaxWrites` = 2: an update lost to another, a stale cache and a power
  failure between two updates each need two temporary files. Two readers share
  one cache, because one may fill it between the other's stamp and its
  comparison; one writer in another process, because the lock file is what
  separates processes.
- *Installed cores*: two versions and two configurations: one that is replaced
  and one that replaces it. One source of one core; TLC checked `PreviousKept`
  also with two cores, which showed that it holds only of cores that the
  document names. The property says so now, and the proof covers any number.
- *Updates*: one path for each way to swap (file or directory, merged or replaced,
  there or not at the target and in the bundle); `Stores` is empty, because the
  cores, the frontend and the document are swapped in every way that a data path is.
  A command link exists where the service runs, so that it is created in the rest. `Bound` lets two tasks meet while nothing is
  deployed, and one deploy; `MaxRevision` 3 and `MaxImports` 1: an import can fall
  before, between and after an edit and its undoing. Two queries and three
  connections: one is reused, one retried, one pooled by the other; `MaxIdle` 1
  makes a pool overflow; `MaxStates` 2 is one reload under queries.
- *Host*: two prefixes, gateways, services and values: drift and replacement need
  two. Faults are counted per part (`MaxFaults` 2 ... `MaxDnsFaults` 4): a fault and
  one more during its repair. `Width` 4 bits hold two pools and ranges inside one
  another. Three callers of the interface: what two promise, a third breaks.
  Profiles, targets, setups, hosts and wants are listed in `MCHost` so
  that every branch of the pipeline is taken by one of them.
- *Exchanges*: two of whoever races (accounts, tabs, editors, requests, proxies),
  `MaxClock` 2 so that two saves may have one time, `Attempts` 2, `Hops` 1 and
  `Window` 2 for 3, 5 and 4 in the code: the first, the last and one beyond.
- *Services*: one proxy, one tunnel with three workers (the old, the new, one that
  is being waited for), one fault each: liveness needs one thing that went wrong.

The proved properties hold for every value of these constants.

## Fairness

`FairSpec` of `Supervisor` assumes weak fairness of `SupervisorStep`, the
supervisor's own next step wherever it is, and of `ClientStep(c)`, the next step
of an *accepted* request. The code justifies it: the machine is one task whose
futures tokio polls when they are ready; tokio's mutex (the rules gate) queues
its waiters; every await of the machine is on a timer, on a bounded operation
(compilation, termination and probes have timeouts) or on a signal that some
property names; and the service manager restarts a daemon that ended (`Boot`).
A direct start is the one request whose future belongs to its HTTP connection
(`runtime_api.rs:37`); a client that hangs up drops it, and fairness owes nothing to
a request that has left. Hang-ups, requests, exits, reloads, staging, shutdowns and
crashes are never owed.

`services` is fair where a lock, a timer or a task of the code makes a step owed,
and strongly only where others may take the lock first again and again:

- *proxies*: the reconciler takes what is scheduled, server and runtime go on
  with the call in hand, drained instances end, a backoff ends (weak); a row is
  visited in the end although editors lock it (strong: the database queues
  waiters for a row lock).
- *tunnels*: each request, worker and run goes on (weak); the daemon's first
  reconciliation gets the operation lock (strong: tokio's mutex is fair).
- *DNS*: setter, tunneler and supervisor go on (weak); a settings request gets
  both locks (strong, the same mutex).
- *profiles*: the holder and the scheduler go on, time passes (weak); the
  scheduled update gets the operation lock (strong).
- *routes*: the core and its routes start, events are opened, the monitor and a
  pass go on (weak).

Edits, failures and restarts are never owed. The other specifications have no
fairness and are used for safety only.

## The proofs

All theorems hold for every value of the constants and are checked by TLAPS to the
last leaf. `SPECIFICATION`s are those of the components, without the composition;
`HostAlwaysRestored`, `NetworkAlwaysFollowed`, `CaptureAlwaysSound`,
`PackagesAlwaysKept` and `TrafficAlwaysKept` are about `HostSpec` and
`AnswersAlwaysSound` about `ExchangeSpec`, the specifications of the runs `host` and
`exchanges`.

| Theorem | States | Needs |
| --- | --- | --- |
| `SupervisorProofs`: `TypeCorrect`, `CoreRecorded`, `RollbackStaysConsistent`, `LastGoodIsProven`, `PendingIsCleared`, `StopAlwaysWins` | `TypeOK`, `RecordedCore`, `RollbackConsistent`, `LastGoodProven`, `PendingCleared`, `StopWins` | -- |
| `AtMostOneCore`, `StopIsReported` | `OneCore`, `StopReported` | no `crash`, no failing `terminate` |
| `NetworkIsCleaned` | `NetworkFollowsCore` | the same and no failing `cleanup` |
| `ResolverAlwaysServed` | `ResolverServed` | `RestoresDns` |
| `StorageProofs`: `StoreTypes`, `NoUpdateIsLost`, `NothingIsTorn`, `AcknowledgedIsDurable` | the property of that name (`AcknowledgedSurvives`) | -- |
| `ReadsAreFresh`, `StoreIsAtomic` | `ReadFresh`, `ImplementsAtomicStore` | `FineClock` |
| `InstalledCoresProofs`: `InstalledCoresTypes`, `ConfigurationsKept`, `ActiveDeploymentKept`, `OperationsAlwaysValid`, `DirectoriesAlwaysMatch`, `FilesAlwaysMatch`, `PreviousAlwaysKept`, `ChannelsCollectOnlyWeak` | `FilesMatch` and its parts, `PreviousKept` | -- |
| `UpdatesProofs`: `TasksAreHonest`, `DeploymentsAreSafe` | `TaskHonest`, `DeploymentSafe` | -- |
| `FilesOfProfileAlwaysAgree`, `EditsAlwaysKept`, `ReportsAlwaysHonest` | `FilesOfProfileAgree`, `EditsKept`, `ReportHonest` | -- |
| `ServiceProofs`: `ProcessesNeverStray`, `RowsAlwaysAgree`, `SettingsAlwaysAgree`, `QueriesAlwaysAnswered` | `NoStrayProcess`, `RowsAgree`, `SettingsAgree`, `QueriesAnswered` | -- |
| `ExchangeProofs`: `AccountsAlwaysAgree`, `EditsAlwaysBuild`, `DownloadsAlwaysKeepTheirWay` | `AccountsAgree`, `EditsBuildOnEachOther`, `DownloadsKeepTheirWay` | -- |
| `AnswersAlwaysSound`, of its parts `AnswersAlwaysMatch` | `AnswersSound` (`AnswersMatch`, `SourcesSound`) | -- |
| `HostProofs`: `HostAlwaysRestored`, of its parts `RoutesAlwaysSafe`, `OriginalsAlwaysKept` | `HostRestored` (`RoutesSafe`, `OriginalsKept`) | a cancelled batch does not outlive its caller (in `RoutesSafe` itself) |
| `RulesStayCovered` | `RulesCovered` | -- |
| `NetworkAlwaysFollowed`, of its parts `FakeAlwaysSound`, `ModeAlwaysFollows` | `NetworkFollowed` (`FakeIpSound`, `ModeFollows`) | -- |
| `CaptureAlwaysSound` | `CaptureSound` | -- |
| `PackagesAlwaysKept` | `PackagesKept` | -- |
| `TrafficAlwaysKept` | `TrafficKept` | -- |
| `ClientProofs`: `InterceptionCorrect`, `CaptureCorrect` | the parts of `CaptureSound` (`InterceptionSound`, `CaptureHolds`) | -- |
| `PackagesAlwaysSound`, `ChoiceCorrect` | the parts of `PackagesKept` (`PackagesSound`, `ChoiceSound`) | -- |
| `HistoryAlwaysHonest` | `TrafficKept`, of the history by itself | -- |

The conditions are not for convenience. A termination that fails leaves a core
that its successor does not know of; a cleanup that fails leaves the policy
rules it was to remove; on Linux the daemon does not restore the resolver of a
killed one. What a failure takes away for a while is in the properties themselves,
not in a condition: `faulty` in `ResolverServed`, `apart` in `SettingsAgree`,
`amiss` in `CaptureHolds`, `detached` in `RoutesSafe`; each says what puts it right. `FineClock` is what Unix gives with inodes and nanoseconds; with the
coarse stamps of Windows, two documents of one length written within a tick have
the same stamp, and a reader answers with the first.

Assumptions on constants (`DocumentAssumption`, `TaskAssumption`,
`SupervisorAssumption`, `StoreAssumption`, `CoresAssumption`,
`ResolverAssumption`, `ModeAssumption`, `PackageAssumption`, ...) keep the "none" values apart and give constants their
types; initial documents must be consistent (`RolledBack`). `RouteAssumption` also
says that no CN prefix is the destination of a fallback route, a half of the address
space: `normalize` would accept one, no list of a country's networks has it.
`FakeAssumption` says that no address is in two of the pools and that the length
asked of a pool fits: so it is with the constants of `fakeip_selection.rs`.
`ChoiceAssumption` says that every release `stable` comes to name is at least the
one whose compiler it is given, without which a recommendation could ask for what
the core does not have, and that a document lists its inbounds and rules.
`InterceptionAssumption` and `CaptureAssumption` give setups their type and keep
what is not there apart from what is; `TrafficAssumption` says that there are
finitely many connections, so that what they carried has a sum.
`ItemsAssumption` says that the enabled items of a document are a sequence of its
items: a fact about `SelectSeq`, which is recursive, and no prover here unfolds it.
TLC evaluates the assumptions in the runs.

The arguments:

- *Types of the supervisor.* `TypeOK` alone is not inductive, because the plan is
  optional while nothing is resolved. `Planned` adds where a plan exists.
- *The recorded process.* `ChildInv` says at which labels the supervisor holds a
  handle and that the process, if it lives, runs the plan. With it each update
  of the document is checked for what it does to the pid (`RecordedPids`).
- *Deployments of a document.* All closures given to `Store::update` fall into
  `RuntimeUpdate` (touch neither deployment nor pending), `StagingUpdate`, the
  rollback and the health and stability marks; each class preserves the property.
- *Stops.* `Overtaken`: a caller whose request was accepted before a stop no
  longer holds the startup task, so `with_preparation` refuses to stage for it,
  also when its future subscribed to cancellation too late.
- *One core.* `OnlyChild`: a live process is the child. It is a statement about
  `Spawn` and about every step that drops the child.
- *The host's resolver.* `ResolverServed` allows a resolver that points at a dead
  frontend between the two awaits of a cleanup, until a daemon that follows a killed
  one has recovered, and after a start of the frontend or a restoration that failed
  (the code logs it and goes on). `CleanupKeeps` (a cleanup that keeps a redirected
  resolver keeps the frontend too) and `FrontendFirst` (from resolving on, a plan with
  a frontend has it up, or starting it failed) say that nothing else does.
- *The store.* `ThreadInv`: only the lock's holder is inside the locked section,
  so the document it has read is the file's until its rename. `DiskInv`: what a
  power failure may leave is synced, older than the temporary file being
  written, and no older than the last acknowledged update. `ReadInv`: with a
  clock that tells writes apart the modification time identifies the document
  in the file, in every cache and in every local variable. With `ReadInv` every
  step of the store maps to a step of `AtomicStore` or to none: the rename is the
  write, the answer of a read is `Answer`, syncing the directory is
  `Acknowledge`, a failure or a kill ends calls.
- *Installed cores.* `FilesInv`: types with what each step of an operation has
  read (`OperationInv`), `Valid(doc)`, `DirectoriesKept` and `FilesKept` (every
  configuration named is stored; a fresh one is named by nothing, so that
  discarding it is harmless; what a prune keeps contains what the document
  names). `Named` never grows but by the operation in progress, which is why a
  prune may read before it deletes. `PruneInv` adds that the stored files are
  finite and that what a prune read is still stored when it deletes.
- *Update tasks.* `TaskInv`: identifiers are given in order, and a worker whose
  package waits has nothing left to report, so a late report is of an older task.
- *Deployments of a bundle.* `DeploymentInv`: where each swap stands says what is at
  its target, its backup and its staging name (`Swaps`, `Paths`; a merged directory
  may be staged as what the target had), a release
  activates the executable after the resources and takes it back before them
  (`Order`), and nothing runs while files are swapped (`AtRest`).
- *Profiles.* `ReadIsOlder`: what the holder has read is what the catalog says, or
  an import has edited it since. `BuildIsOlder`: the build of a revision that a
  profile has, or has again once a source is undone, has that revision's
  configuration. `EditsKept` follows from the first.
- *Leak detection.* Each part follows one resource of an observation: who is
  registered (`Registered`, `OutsideRun`), starts that were accepted and are not
  yet seen in the report (`StartsAhead`), results that are final (`SettledOnce`,
  `StoppedQuiet`), and probes a sample has listed before they go on (`SeenBefore`).
  A probe registers once and says once, last of all, how it ended (`Announced`,
  `Concluded`, both about what is still in the channel), so that a pass is never
  taken back. A failure may be: `sampled` (`probes.rs:144-152`) shows as running what
  it had listed, although it failed since; the property names that step.
- *DNS settings.* `GateHeld` says who works under the gate. While somebody does,
  frontend, files and settings may differ, but only as far as their undoing can
  mend: `Answerable` (what the frontend may be left with), `Undoable` (the files
  not yet written over are the old ones, which are remembered). Undoing may fail
  too, and the request then only reports both errors: `apart` holds what was left
  (`files`, `frontend`, the `mark` of the restart), until the next start of a core
  or a frontend writes it anew.
- *Tunnels.* `MapAgrees`: the map has exactly the workers that were not told to
  stop; `Awaited`: one that was told is waited for by the request that reconciles
  or by the daemon; `Exclusive`, `OneWorker`.
- *Proxies of the server.* `RowsLocked` says what a job that holds a row over HTTP
  knows of it, `AnswersMeant` that the answer it gets is about the revision the
  row still has; `ReferencesHold` and `ActiveAccepted`.
- *Accounts.* The advisory lock makes "am I the first" and the insert one step;
  the lock on a row keeps an avatar's key the one that was read.
- *Publication.* `Traced`: at each statement, what a request has collected was
  read under a policy no older than the one it began with, and is what its key
  says; `Stored` says the same of the caches it may meet.
- *Sources.* Settings only grow (`Grown`): a policy that there was is never
  changed, a proxy's revision never goes back. So what is `Sound`, usable and come
  by the outbounds its key stands for, remains so, and it is enough to follow a
  load: its key names the policy and the proxy it began with (`Keyed`) and each
  hop is one of that key. `Accounted` keeps stages, used sources and failures in
  step, and `Ruled` with `LoadsOf` says whose provider each slot of the window
  loads: two providers within a window never share a slot (`SlotsDiffer`).
- *Rule sets.* `Advancing`: what is cached only becomes newer, and a refresh
  publishes under the gate. `Covering`: the prefixes of the file that the core
  reads, and of the one about to replace it, are routed before it is replaced.
- *Downloads.* `OwnWay`: each request of a download went the way that was named
  when the download read it, at each of its redirects; `CacheHonest`: an entry of the
  cache came the way its key says. Which downloads read rules at all is the code's:
  resources do; a rule provider's operation starts the proxies the rules name and
  then does not use them, and a rendered remote is asked directly, so that of these
  two only "no proxy was chosen for them" is stated.
- *Queries.* `ServedIn`: what a query has yet to ask is allowed by its
  configuration, and what it heard it keeps; `UsedIn`: a connection in use carries
  one query, which it owes an answer or has it; `PoolsIn`: a pooled connection is
  in one place of one pool, quiet; `LiveIn`: a pool outlives neither its
  configuration nor its queries. The parts are stated of arbitrary states,
  queries and connections, so that what one step hands to the next within an
  action (`Leave`) is proved once and composed.
- *CN routes.* `RoutesInv`: where no batch outlives its caller, `Writes` says of
  a pass between its observation and its end that the table is within what was
  written ahead, that what is aimed at is there or still to be added (unless the
  system has dropped routes meanwhile), and that policy rules come after the
  routes and go before them. `Aims` says what a pass aims at: nothing, or the
  plan of some gateway for at least what is published, `Whose` which phase its
  caller is in. Since a plan has one route for each destination, an addition
  never takes away what the plan needs (`InstallFills`), and the fallback goes
  up last and down first (`AimCovers`). A cancelled pass leaves `Recoverable`.
- *The host's own resolver.* `DnsInv`: what a restoration has still to do covers
  every service that points at the frontend, and a takeover has recorded a
  setting of the user's for each service before it touches the first.

- *Modes.* `ModeInv`: a probe that follows an event comes when the answer kept from
  before it is too old to be used (`Timely`, from the delays and the lifetime of
  the answer), so the last of them has seen the network (`Patching`), and so has
  the core, or the next patch is not the last (`Following`). It needs that no delay
  is shorter than that lifetime; the code's first delay is exactly as long
  (`default_interface.rs:8`, `network_automation.rs:15`).
- *Packages.* `PackageInv` has one part for each thing that is replaced. For the
  interface, `ByItself` says when an activation has the directories to itself and
  `Exactly` what they hold at each of its steps, counted in faults: a backup that it
  finds was left by one, and that it keeps it by another. `KeptThere` is about
  those that overlap without a fault: whoever moved the interface aside will place
  another, and what is partly deleted has one who goes on. For the dashboard,
  somebody `Holds` what is missing; for a download, the worker shown is the one
  that says how it ended; for the uninstaller, each step knows what those before
  it must have removed unless there was a problem.

- *The choice of a core.* `ChooseInv`: what an application goes on with was assessed
  for the release it read, and that release is one the client has been told of
  (`ReleaseKnown`); what was selected is there, and suits the profile as long as
  nobody edited that (`SelectedThere`, `SuitedMeets`, `FreshMeets`). What is
  recommended is the eligible candidate that precedes the others: that there is one
  is a matter of the order's cases. `StartInv`: the
  address a core was given is the one its file and the daemon have, and nobody
  else had its port when it was bound.
- *Interception on a gateway.* `OwnersStay`: what others own is never replaced.
  `PuttingUp` and `TakingDown` say, by how many commands have been run, which tables,
  rules and routes are there and of which plan, unless a command failed; what
  happens to a packet is then computed from the tables of the plan alone.
- *Capture on a router.* `CaptureInv`: what the job holds at each of its steps
  (`JobKnown`), what it leaves (`JobDone`), and what the script, the rules and the
  policy of the mark have to do with each other while the firewall may reload
  (`PolicyKnown`, `RulesKnown`, `ReapplyKnown`). Jobs and reloads overlap freely and
  any command of either may fail. What that spoils is named in `amiss` (`script`: a
  withdrawal could not delete it; `stale`: a table that was not removed, or put back
  by a reload which had read the script before; `policy`: the same of route and rule;
  `lost`: a reload left no table), until a later step puts it right, and each part of
  `CaptureHolds` says which of them it does not survive.
- *Fake addresses.* `FakeInv`: the TUN of a core has its range and, unless the routes
  could not be read or the configuration not be written, its refinement among the
  routes that were known; an unrefined TUN promises nothing. What the search returns is free, and no free
  prefix of the pool is larger (`LargestIsFree` and the lemmas before it): an
  induction over the bits that a prefix still lacks.
- *Traffic.* A total is a fold over a set. `SumsExist` and its neighbours show that
  a fold over a finite set is the last of a run of partial sums, whatever the order
  it was taken in, so that a bucket that grows adds what it grew by (`Total...`).
  `ReadInOrder` says what the base of the next difference is, for each connection
  and whichever of stream, core and daemon have restarted; `HistoryInv` that what is
  counted is no more than what was read, and what is clean is on disk.

Data of any size. The library's induction theorems have a parameter that is an
operator, and no prover here can instantiate them. What they are needed for can be
said of sets instead: `LeastNatural`, that a set of natural numbers that is not
empty has a least, and `SmallestSubset`, that a family of finite sets that is not
empty has a member of least cardinality. A proof by induction then takes the set of
the numbers, lengths or sets for which the claim is false and looks at its least
member. Both lemmas are themselves proved, from the finiteness of an interval.

Each inductive invariant was model-checked before it was proved. Attempts that
failed corrected the model:

- `InterfaceKept` and `ActivationExact` said of any number of callers and faults what
  holds of two: the run had two callers and too few faults to reach the others. The
  properties now name the limits, and `host` has three callers.
- Two `CASE`s of `Interception` had guards that overlap, so that TLC's order decided
  which of them counted; they now say which comes first, as the code does.
- `FakeIp` and `CoreChoice` relied on what nothing said: that the pools are disjoint, and
  that `stable` names no release older than the compiler it is given.
- Whether the names in a compiled configuration are distinct depends on
  `make_names_unique`; asking for what it guarantees led to `node_names` below.

Only model-checked:

- liveness, which is out of the prover's reach: `StopHonoured`, `StartEnds`,
  `ShutdownEnds`, `ProxyServed`, `TunnelServed`, `LocksReleased`, `ScheduleFollowed`,
  `DriftRepaired`;
- `OutputResolves`. It does not hold of every profile: node names need not come out
  distinct, and a user may write a rule or a default that names no group, which no
  compiler checks. The profiles of `host` have neither. A theorem would have to
  assume both of the data, and then follow names, made by joining strings, through
  the folds and filters over sequences that make up `Compilation`; strings are
  without structure for the provers.

## Where code and documentation disagree

`dhcp_renewal` shows it: a request is acknowledged for the whole lease time, but
the lease it answers from keeps the expiry of the offer (`dhcp.rs:161`), so that an
address is handed on while its holder keeps it, against the test
`discover_allocates_and_request_renews_the_same_address` (`dhcp.rs:294`).

`node_names` shows the other: `make_names_unique`
(`sempre-converter/src/lib.rs:240-249`) counts the names as they were and does not
look at those it makes, so that nodes "A", "A" and "A (2)" come out as "A", "A (2)"
and "A (2)". `docs/toolbox-server-api.md:273` says that Sempre adds ` (2)` suffixes
where Toolbox "could emit duplicate names", and calls it a safety improvement to
preserve.

Met while modelling, without a run of their own:

*Supervisor and cores.*
- A client that hangs up between `begin` and the staging of its start drops the
  handler (`runtime_api.rs:37`); `runtime/action.rs:59-110` has no guard that would
  fail the task, which stays "starting" and refuses every other start until a stop
  replaces it (`StartEnds` excepts it as `Abandoned`).
- During every cleanup the system resolver points at a frontend that has stopped,
  for as long as the gateway's cleanup takes (up to ten seconds,
  `lifecycle.rs:137-171`); an error of `recover_stale_system_dns` is only logged
  (`lifecycle.rs:93-118`), so that the resolver stays there.
- When a stale core cannot be terminated, `record_failure` clears its pid
  (`supervisor/machine.rs:112`), so the retried recovery finds nothing and a second
  core is spawned, against `machine.rs:35`.
- A shutdown that is seen by the decision after a reload's `stop_process` ends the
  supervisor with the resolver redirected (`machine.rs:198`), against
  `docs/linux-transparent-gateway.md:80-82`.
- A task the supervisor begins between a stop's task and its staged intent is
  never ended (`lifecycle.rs:277`), and blocks later starts, against
  `README.md:347-348`.
- `remove_core` refuses a version that is selected or active (`lifecycle.rs:223`),
  not the one of the rejected deployment. Once it is gone, every restart tries to
  make it active again and is refused, against
  `docs/linux-transparent-gateway.md:40-41`.
- `roll_back` looks for files, not for installed versions (`supervisor/state.rs:196`).
  While the removed version of the last good deployment is being installed anew
  its directory is there before its record; a rollback in between is refused and
  ends the supervisor, against the comment at `state.rs:190`.
- `README.md:240-242` says Sempre "never restores an older configuration
  automatically", `rollback.rs` does; `README.md:485` speaks of an exponential
  backoff where `machine.rs` waits a fixed time; `README.md:173` says a channel
  update is validated before the channel advances, `update.rs:41-53` advances it
  first. The recovery compares the stale process with the binary of the *active*
  deployment, which may have been staged after it was started. `Machine::run`
  records a failure and rolls back in two updates (`machine.rs:203`), so that what
  is staged in between is rejected although it never ran, against `config.rs:196`.
  The next daemon launches its core with the killed one's policy rules still
  installed, against `docs/linux-transparent-gateway.md:131-133`.
- A prune keeps only one configuration of a core that nothing in the document
  names (`config_retention.rs`, `prune_core` with nothing to keep).
- A directory sync that fails after the rename reports an update as failed that
  every reader sees; on Windows the stamp of a changed state file may be the old
  one, against `sempre-state/src/store.rs:49-50`.

*Host.*
- `docs/cn-system-routes.md:53-54` against `platform/macos.rs:119`: a cancelled batch
  goes on in `spawn_blocking`; `docs/cn-system-routes.md:47` against the manager's
  `cn_routes.rs:171`.
- `docs/linux-transparent-gateway.md:134-135` says the next root-owned start removes
  stale TPROXY state before launching; recovery on Linux (`lifecycle.rs:211-231`)
  removes nothing, the removal is in `Controller::apply` after the launch, and
  never happens for an inactive plan. `route_exclusions` are unused in TPROXY
  without intranet; clash-rs ignores TUN exclusions; DNS over IPv6 from the LAN
  passes unredirected.
- `capture reapply` reads the script long before it loads it, so an overlapping
  apply or withdrawal can be followed by stale rules, against the comment "Does
  nothing after a stop" (`capture/host.rs:89-90`); a refresh that fails after
  loading leaves the new list in the table and the old one on disk.
- A withdrawal whose `nft delete` fails removes the policy rule and the route all the
  same (`capture/host.rs:103-129`) and its error is only logged
  (`supervisor/capture.rs:46`): packets are marked that no route takes to the core. A
  script it could not delete is put back by the next reload.
- A DNS update whose undoing fails as well (`dns_rule_files.rs:247-268`,
  `dns_settings_update.rs:40-45,92-93,113-116`) reports both errors and leaves rule
  files or frontend apart from the stored settings, with no restart owed.
- Between `activate_network_automation` (`wait.rs:58`) and `RouteEvents::open`
  (`wait.rs:163`) a network change is not heard; an unresolved gateway leaves the
  mode `Rule` until the next event.
- On a router, `network_settings()` masks stored settings (`openwrt_limits.rs:54-63`).

*Updates, packages, cores.*
- A task confirmed twice schedules two installers (`system_api.rs:267`).
- An activation killed between its renames leaves only `current.previous`, which the
  next activation deletes first; one whose last deletion fails reports failure
  although the interface changed; the dashboard's maintenance ends for this run if
  it looks while an older install is between its renames.
- Nothing serialises activations (`sempre-ui/src/install.rs:203-222`). With three
  that overlap, one may restore from `current.previous` what another is deleting:
  the interface that is left is torn, without any failure. And when a leftover is
  not deleted twice, an activation that then fails to place its own restores it: an
  interface that was removed is back after three faults.
- The cancel of a core download before `attach` leaves its worker running.
- `GithubClient` caches a release per endpoint for ever (`github.rs:114-122`), so a
  resolution of `stable` can go back; candidates for `stable` are assessed as
  compiler 13 whatever `stable` names; a reserved control port can be taken before
  the core binds it; a channel update decides before its download whether to
  select again, and overrides a selection made meanwhile (`update.rs:38-47`).

*Subscriptions and compilation.*
- The list of pending fields can lose fields; a scheduled update whose
  `record_compilation` is refused stages without asking for a reload.
- Rule providers and debug or remote rendering bypass resource rules, against
  `fetch_proxy_rules.rs:1-3`: `rule_provider.rs:74-75` starts every proxy the rules
  name and hands their routes over, `fetch.rs:286-309` does not look at them;
  `subscription_tools.rs:250` has none.
- The converter does not check a stale selector default for sing-box (Clash does);
  a readonly group named like the intranet's gets a default that is not a member;
  recommended system groups always fail for xray and v2ray; overlay DNS groups
  are put first, so that without a group of the profile's own `final` becomes one
  of them; `preview_nodes` filters
  after icons are added, compilation before.
- A probe's failure can be turned back to "running" by a sample that had listed it
  (`probes.rs:144-152`); the observation's end then makes it "stopped".

*Server.*
- A provider whose URL is the server's own relay is exported as it is but refused
  by `load_relay`; `last_status` may say "error" for a row that another request
  has refreshed; an older fetch may replace a newer snapshot.

Two hazards have no property. A control port that is reserved may be taken before the
core binds it; nothing in the code prevents that, and the list says so. And the
crash between spawning a core and recording its pid (`supervisor.rs:95`): the next
daemon cannot know of that process, and no document promises that it does, so
`RecordedCore` leaves it out.

## What is not modelled

- Writes of the document that fail inside the supervisor's phases: `StateStore`
  has them, `Supervisor` takes an update as a step that succeeds.
- Store: `initialize`, migrations, the config and instance locks, decoding errors.
  Documents have one length in `StateStore`, the worst case for its stamps.
- A snapshot that the server could not write (`source_cache.rs:130-136`), and a second
  job of one source.
- Installed files: the core of OpenWrt's firmware beyond "cannot be removed"; a
  deletion or a rename back that fails (the code ignores it); which file a prune
  keeps as the previous one (the newest; any, in the model).
- Formats: parsers of subscriptions, the wording of configurations and of nft
  scripts, packets, TLS, archive layouts, service managers' files, command lines.
- Managed process: signals, groups, logs; termination succeeds or times out.
- Time: leases, intervals, caches and backoffs are counted in few ticks.
- The HTTP control plane, build tools, web interfaces in TypeScript and the
  installer scripts: thin I/O, presentation, or shell that runs once.

## Plan

Done: the core (supervisor, store, installed cores), the client's other parts,
the server, and the proofs above. What would come next, in this order:

1. the store's `initialize` and migrations, and the list of pending fields;
2. a specification of what a profile must be for `OutputResolves`, and its proof;
3. the streaming core client, the HTTP handlers that keep a cache of their own, and
   the supervisor of the Windows DNS capture.
