# A TLA+ development of exordos_metapaas

exordos_metapaas is a control plane for platform services ("PaaS types") that
arrive at run time as pip packages. This directory models the part of it that is
hard to get right: how a plugin is installed, marked, rendered, migrated, served
and reloaded while manifests change, steps fail, processes restart themselves and
the root disk is replaced; and how the demo plugin turns one row into a node that
does what the row says. The modules are translated from the source, TLC checks
them on small instances, and TLAPS proves for every instance the safety properties
of the install command, the reconciler, the route cache, the boot and the demo's
builders, three refinements, and which passwords survive the connection URL.

## 1. Inventory

Paths are relative to the repository; `em/` is `exordos_metapaas/`.

| Component | State | Operations | Talks to |
|---|---|---|---|
| Plugin registry, `em/registry.py` | none: it re-reads the entry points of the virtual environment | `discover_paas()` | everything below |
| Install command, `em/cmd/install_paas.py` | the locals of one run | discover, pip, discover, migrate, render, signal, restart | venv, database, config, services |
| Plugin reconciler, `em/services/plugin_reconciler.py` | the locals of one tick, `_last_verify` | `_iteration` | rows, the install command as a child, systemd |
| PaaSType rows, `em/dm/models.py` | `metapaas_paas_types`: package, version, status | insert, `update()` with its status reset, delete, `save()` | core-agent (writes), reconciler (reads, marks) |
| gservice, `em/cmd/gservice.py` | the builders made at its start | start, crash, restart | registry; it hosts the reconciler |
| user_api routes, `em/user_api/api/routes.py` | `_plugin_cache`, `_live_slugs`, `_loading`, attributes of `TypeRoute`, `sys.modules` | load, invalidate (SIGUSR1), start, restart | registry, installers' signal |
| Config rendering, `em/cmd/render_config.py` | `exordos_metapaas.conf`, `core_agent.conf` | recover, render, write | registry, database password |
| Bootstrap, `exordos/images/cp_bootstrap.sh` | the database role, the configs, the node's key | password, role, render, migrate, seed, enable | render-config, registry |
| orch_api, status_api | none of their own | generic gcl_sdk routes | |
| user_api application, controllers | none of their own | start of the workers; CRUD of rows, wired by restalchemy | rows, routes |
| Audit mixin, `em/common/audit.py` | none | `_without_secrets` | |
| Demo control plane, `metapaas_demo/controlplane/` | demo instances, target node set, configs, keys, payload | API edits, infra builder, PaaS builder | gcl_sdk's builder engine, Core |
| Demo data plane, `metapaas_demo/dataplane/driver.py` | env file, meta file | dump, restore, delete | universal agent, Core's config delivery |
| Images, manifests, CI, logging, OpenAPI | none at run time | | |

Where they meet:

- **the virtual environment**, on the root disk: written by pip in the install
  command, read by everyone through discovery, lost when the root image is
  replaced;
- **the database and the config directory**, on the persistent disk: they survive
  what the environment does not;
- **the rows**: the core-agent writes what Core's manifest says, clients of the API may
  create, edit and delete them and write their status, the reconciler reads them once
  per tick and writes `ACTIVE` with a `save()` that may come minutes later;
- **the child**: the reconciler runs the install command as a subprocess, with
  `--no-restart`, and does the signal and the restart itself at the end of a tick;
- **the signal and the restart**: SIGUSR1 to the user_api workers, and a restart
  of gservice and core-agent. The reconciler lives in the gservice, so it queues
  the restart of its own process, and everything it had not saved is lost;
- **a demo instance's row** is written by the API and by the infra builder, and
  read by both builders; what they make of it meets again in one env file on the
  node, which Core's config delivery and the data-plane driver both write;
- **the operator** may run the install command next to the reconciler's;
- **the boot script** enables the units for good, so on a root disk that has booted
  before they start beside it, and the gservice may install, migrate and render
  while the script does.

What is hard: a step that fails after pip has changed the disk; rows that change while a
tick works on what it read, or whose status is a client's word; a tick cut off between
`save()` and reload; installers that overlap; a discovery that is all or nothing; a
signal handler that runs between two bytecodes of a load, or is not set yet; modules
that a process imports once; a config file that is the only copy of a password, is
rewritten in place, by two programs that may overlap, and read back by them in two ways;
a builder that works on an instance, and on a report of its nodes, that are out of date
by the time it saves, or on a node whose agent the database does not know yet.
`PROJECT.json` lists these hazards at their lines with the properties that cover them.

What makes each component correct:

- install command: exit status 0 means migrated, rendered and reloaded, also when
  it follows failed runs, and nothing an earlier run skipped is left over;
- reconciler: a row becomes `ACTIVE` only when its plugin is installed; `ACTIVE`
  plugins are served; the manifest wins in the end; the restarts end;
- route cache: it agrees with the attributes that restalchemy traverses, it is the
  whole of one look at the disk or nothing, no signal is lost, the re-entrancy guard
  is always released, a restart serves the installed releases;
- bootstrap and rendering: config and role hold the same password; a boot repairs
  what an interrupted install left; the node comes up;
- demo plugin: node set, configs, keys, payload and env file come to agree with the
  row, whatever was edited, lost or interrupted; a deletion completes; the disk
  never shrinks; the two writers of the env file do not fight.

## 2. Modules

| Module | Models | Composition |
|---|---|---|
| `Registry` | the environment and discovery, as operators on it | extended by all others |
| `InstallPaas` | the install command, several runs at once, and what it leaves behind | extends `Registry` |
| `InstallPaasProofs` | theorems on `InstallPaas` | extends `InstallPaas`, `TLAPS` |
| `PluginLifecycle` | abstract: a row is wanted, then active; a plugin is present or not | refined by the next |
| `PluginReconciler` | the reconciler, its rows, its child, the services and the disk | extends `InstallPaas` |
| `PluginReconcilerProofs` | theorems on `PluginReconciler` | extends it and `InstallPaasProofs` |
| `PluginLifecycleProofs` | that `PluginReconciler` implements `PluginLifecycle` | extends `PluginReconcilerProofs` |
| `RouteTable` | abstract: requests are routed by one whole look at the disk, or by nothing | refined by the next |
| `RouteCache` | one user_api worker | extends `Registry` |
| `RouteCacheProofs` | theorems on `RouteCache`, and that it implements `RouteTable` | extends `RouteCache`, `TLAPS` |
| `Bootstrap` | the boot script and render-config | extends `Registry` |
| `ConnectionUrl` | how a password is written into the URL and read back, as operators on texts | checks the tables of `MCBootstrap` |
| `ConnectionUrlProofs` | which passwords each of the two readers gets back | extends `ConnectionUrl`, `TLAPS` |
| `BootstrapProofs` | theorems on `Bootstrap` | extends `Bootstrap`, `TLAPS` |
| `InstanceTargets` | abstract: a size that only grows, configs and payload for provisioned nodes, nothing new after the deletion | refined by the next |
| `DemoInstance` | the demo's row, API, builders, and Core around them | |
| `DemoInstanceProofs` | theorems on `DemoInstance`, and that it implements `InstanceTargets` | extends `DemoInstance`, `TLAPS` |
| `DemoDataPlane` | the demo's nodes: env file, driver, config delivery | extends `DemoInstance` |
| `DemoDataPlaneProofs` | theorems on `DemoDataPlane` | extends it and `DemoInstanceProofs` |
| `MC*` | the instances for TLC | extend their module |

### Registry

The environment `venv` maps each distribution to its installed version or
`Absent`. `Provides` says which slugs a release registers, `Broken` which releases
do not import, `Migrating` which slugs have migrations. `Discovered` and
`SlugVersions` are the results of `discover_paas()` and of the reconciler's
discovery snippet, `DiscoverOk` says when they do not raise: every entry point
loads and no slug is registered twice.

### InstallPaas

One action per subprocess of `main()`: `DiscoverBefore`, `PipInstall`,
`DiscoverAfter` (which also chooses the targets), `ApplyMigration` (one per slug),
`RenderDiscover`, `RenderWrite`, `SignalUserApi`, `RestartServices`. `StepRaises`
is a step that fails because of the state (discovery raises, a slug to migrate
has disappeared); `StepFails` is one that fails, or is killed, for a reason of its
own, and an interrupted pip leaves a `Partial` environment. `Resolutions` is what
pip makes of the specs: a pinned spec installs its version, an unpinned one keeps
what is there unless `--upgrade`. `cache`, `agent` and `builders` are what the
three services serve. `torn` is a history variable: some run stopped after its pip
and before its exit.

Abstractions: a migration is applied per release and never fails half-way
(ra-apply-migration is transactional per step and external); core_agent.conf is
the set of slugs whose kinds it lists; gservice's own config is in `Bootstrap`.

### PluginReconciler

The steps of `_iteration`: `ReadRows` (the throttle is its guard), `Classify` or
`DiscoveryFails`, `Activate` per plugin with `ActivateRaises` when the row is gone,
`ClassifyDone`, then per plugin `InstallStart`, the child's own steps from
`InstallPaas`, and `InstallFailed`, `MarkInstalled` or `MarkRaises`, then
`SignalWorkers`, `RestartDetached`. `snap`, `toActivate` and `toInstall` are the
tick's locals: they keep what was read while `row` goes on changing. `EndTick`
forgets them on every way out. Around it: `ManifestEdit` (Core), `CoreAgentUpsert`
with `PaaSType.update()`'s reset, `CoreAgentDelete`, `ApiEdit`, the transient unit
`ServicesRestart` that kills gservice and child whenever it comes, `GserviceCrash`,
`GserviceStart`, `RootReplace`. The installs of `to_install` run in any order, which
covers the order of the rows.

`ApiEdit` is a request of a client behind the manifest's back, and `ClientRows` what it
may make of a row: the controller restricts no field. A POST gives any status; a PUT
with another package or version comes out as NEW, as `update()` resets whatever status
it gives; a PUT of the status alone keeps it, ACTIVE on a NEW row or NEW on an ACTIVE
one (pitfall 15 of `HOW_TO_BUILD_NEW_PAAS.md`); a DELETE. `claimed` is a history
variable: rows whose ACTIVE is the word of a client and not of the reconciler. Rows are
by name: a row that is posted beside the manifest's, with the same name, is taken to be
that row. Any status but ACTIVE counts as NEW, as it does for `_iteration`. Requests
that change `index_url` alone change nothing that the model has.

`WholeRow` is how the ORM's `save()` writes: all columns, or the changed ones. It
is external to the repository. The runs take all columns; the safety properties
hold with changed columns too, the convergence properties do not: an edit that
races a tick is then marked `ACTIVE` and stays uninstalled.

### RouteCache

`_get_plugin_cache` and `_load_plugin_cache` in the steps between which a signal
or an installer makes a difference: the scan, one `SetRoute` per plugin, the prune
of stale attributes, the assignment, the return that reads the global again.
`InvalidatePluginCache` is the handler, and it may run between any two of them.
A load ends in `DiscoverRaises`, `RouteRaises` or `MapRaises` where its code raises.
`Imported` models `ep.load()`: a module that is already in `sys.modules` is not
read again, so a slug keeps the version this process imported first. Each
definition is taken to live in a module of its own. `WorkerStarts` is the import of
the routes, which sets the signal handler; `WorkerRestarts` is every end of the
process: a restart, which the audit manifest asks systemd for, a crash, or a SIGUSR1
that came before the handler was set. `interrupted`, `leaked` and `changed` are
history variables: the last signal hit a load; a load that raised had set these
attributes; pip has changed something since the process started.

`RouteTable` is what this promises: of the disk that a load sees, all of it or
nothing becomes the table. The refinement maps `scan` and `result` to what was seen,
and the cache to the table.

### Bootstrap

The boot script in the steps between which a crash or an installer matters: password
from the init file, from the old config, or new; the role when there is no config file;
render; migrations; the node's key; services. The init file is read at every `PowerOn`
and may have changed. What the external role setup does to a role that exists already
is a choice (`OnExisting`).

`EnableServices` enables the units on the root disk (`enabled`). `Crash` may keep that
disk or replace it; with one that is kept, the units are started beside the script at
the next power on: nothing can order them after it, as it waits for `enable --now`
itself. So `Pip` needs `enabled` and a node that is on, and an installer (the gservice's
child, or an operator's) may discover, pip, migrate and render between any two steps of
the script. `step`, `pass` and `found` are the local state of the two `Renderer`s, the
script and one installer; `RenderStart`, `OpenService`, `WriteService`, `OpenAgent` and
`WriteAgent` are render-config for either, an `open(path, "w")` and a write per file.
Three things come of their overlap: the script may read a config that has been truncated
and not written, and generates another password (`ResolvePassword`); a shorter text
written over the other one's longer text leaves the end of that one, a file that may
not parse (`Garbled`), on which the configparser of line 85 raises; and of two
`ra-apply-migration` with the same new migrations one may fail (`Collision`).
`BootFails` and `InstallerFails` are where the script or the command end,
`InstallerKilled` kills the command with its gservice. A discovery that raises in the
`for` of line 132 does not end the script: it migrates nothing then
(`PluginMigrations`).

`lost` is a history variable: what stopped last, a crash, a failed boot or a killed
installer, left a config without the role's password, or the script read the config in
the middle of an installer's write and generated one. `beside` is another one: some
installer's pip ran beside this boot.

Abstractions: a pip is one step here (`InstallPaas` has the half-way ones); services
that run already are not restarted by `enable --now`; an operator's command counts while
the units are enabled; at most one installer at a time, next to the script.

The config's password is read back in two ways: `ReadByBoot` by the boot script
(urlsplit and unquote), `Recovered` by render-config (split at the first `@` and
`:`). They are functions of the password in `Bootstrap`; `ConnectionUrl` has them as
operators on texts (without brackets, which urlsplit takes for an address, without
blanks, which one of the readers may strip, and without doubled percent signs), and
`MCReadsAssumption` checks that the tables of the instance
are these operators' values: a password with an `@` is read back by the boot script
only, one with a `%` by neither, as the config parser refuses to interpolate it (the
instance has one with an `@`).
`Plain` are the passwords that both read back; generated ones are assumed to be.

### DemoInstance

One instance. `EditRead` and `EditWrite` are the two halves of an API request: the
controller loads the row, `update()` validates against the size that was loaded and
writes. The infra builder's call has a read (`InfraRead`, its argument is `tick`) and an
end, and a call to Core between them: `InfraBootstrap` while there is no node set,
`InfraActualize` with addresses, keys, configs and status, `KeysFail` when Core refuses
the keys, `SaveRaises` when the row is gone. `InfraDelete` is
`pre_delete_instance_resource` and what the engine deletes after it. The PaaS builder
calls nobody, so `PaaSBuild` is one step. Its payload has a foreign key on the agent of
the node: when that is not registered yet, the attempt is `PaaSRefused`, the whole
transaction is rolled back and `refused` is set until a build succeeds, the payload is
removed or the instance is deleted. The demo's PaaS instance lacks the
`DependenciesActiveReadinessMixin` that would make the builder wait
(`paas/dm/models.py:51-54`; `DESIGN.md:295` says that it should adopt it). `setDisk` is
the one field of the node set that is validated; cpu and ram take the same path without
validation. `Long` are the names that the API takes (255 characters) and
`DemoInstanceNode` does not (64): for them the PaaS builder raises, and the payload
stays as it was.

External, modelled from how the builders use it: gcl_sdk's engine calls a builder again
and again, saves the instance after the call, stores the objects the builder returned,
deletes the ones it no longer returns, and rolls back when the call or the store raises.
The documents say that a refused build leaves the instance stuck; the model neither
excludes nor promises another attempt. Core provisions one node for a node set (which one
does not matter, so `NewNode` is any fixed new one), may lose it and replace it, reports the nodes first without addresses and in a status of its own,
and removes what is no target. That the save writes the whole row (`WholeRow`) or the
changed columns is not decided in this repository: the run passes with both.

`InstanceTargets` is what the builders promise: as long as there is the instance, a
node set whose size only grows, and configs and payload for nodes that Core has
provisioned; after the deletion nothing new, and what there is only taken back. It has
no rows, calls, reports or statuses. A tick that writes an old row back, names the
nodes of an old report or raises is a step of it, or none; a tick that saved after the
row has gone, and so put the targets of a deleted instance back, would not be.

### DemoDataPlane

Per node the env file, the `.tmp` file about to be renamed, and the name in the
driver's meta file. `Outdated` is when the agent calls the driver: it can decrypt
its payload (its key is known) and target and actual differ, where actual is what
`restore_from_dp` reads (`Restored`). `DriverUnchanged`, `DriverWrites` and
`DriverRenames` are `_write_file_atomic`. `ConfigApplies` is the other writer. A
content is who wrote it and the name in it: the two differ in their comments.
`AgentCrash` comes before the rename, or between it and the save of the meta file;
`FileLost` takes the env file of a live node. A node that is lost takes its files
with it. `Padded` are names that end in blanks, which `restore_from_dp` strips.

## 3. Runs

TLC with the configuration of each run's name. The passing runs, between them,
fire every action.

| Run | Question | Instance |
|---|---|---|
| `MCInstallPaas_solo` | is exit 0 trustworthy after any failed runs? | 2 distributions in 2 versions, one of which does not import; all command lines of one spec; 2 failing steps |
| `MCInstallPaas_overlap` | do overlapping first installs miss migrations? | 2 runs at once, 2 distributions in 2 versions, one release registers the other one's slug; a pinned and an unpinned command; 1 failing step |
| `MCInstallPaas_mixed` (violation) | and one command line that adds and upgrades? | one run |
| `MCPluginReconciler_faults` | does `ACTIVE` mean served, and does the manifest win? | 2 plugins (index, URN), 2 edits of the manifest, 1 failing step, 1 crash, 1 root disk |
| `MCPluginReconciler_clients` | and when clients write rows and their status? does a plugin from URLs win even after torn installs? | 1 plugin in 2 releases, one from the index, one from a URL; 2 edits of the manifest, 2 requests, 1 failing step |
| `MCPluginReconciler_unmigrated` (violation) | is every `ACTIVE` plugin migrated? | 1 plugin, 1 failing step |
| `MCPluginReconciler_raced` (violation) | does an edit survive the tick's `save()`? | 1 plugin, 3 edits |
| `MCRouteCache_sync` | do cache, attributes and disk agree, whatever a load meets? does it implement `RouteTable`? | 2 distributions, 3 versions, 3 slugs, 4 installs, any restarts; one release does not import, one has no route, one no map |
| `MCRouteCache_upgrade` (violation) | does an upgrade's reload serve the new release? | 2 installs |
| `MCBootstrap_boots` | do config and role agree, does a boot repair, does the node come up? | 2 crashes or kills, 2 pips beside or after a boot, 6 passwords (3 generable), 3 values of the init file |
| `MCBootstrap_diverged` (violation) | is a crash during a render harmless? | 1 crash |
| `MCDemo_converge` | does everything come to agree with the row? does a deletion complete? does it implement `InstanceTargets`? | 2 nodes, 3 names (one padded, one too long), 2 sizes, the smaller one first, 1 request at a time, 2 events, any number of refused builds |

**Why the bounds are enough.** The interesting cases need two plugins (one that
changes, one that must not be disturbed), two versions (an upgrade and its
half-way state), two overlapping runs, and two or three disturbances: the first
tears something, the second hits its repair. Edits of the manifest are two: one
for each plugin or an upgrade of one; requests of clients are two as well: one claims a
row ACTIVE, the other one takes that back, repeats it or deletes the row, before, between
or after the edits, at every step of a tick. For any number of them the safety properties
are proved. Four installs let a route appear, be upgraded, disappear and
come back; restarts are not bounded. Two crashes let a boot be cut while it repairs
what the first one cut, and two pips let an installer tear what a second one, beside
the next boot, meets; three generable passwords are one for each of these boots.
The init file supplies a plain password, one that only the boot script reads back, or
none, another one at each boot; with `@` stands what render-config reads in its place.
(A password that neither program reads back is in the proofs, not in the run.) In
the demo two nodes are one and its replacement; two events, which edits, a deletion,
a lost node or file, a refused call and a killed agent share, are one that upsets the
state and one that meets its repair; any number of further calls, reports and writes
lies between them. Budgets are the only bounds on the environment; everything the
code does by itself is unbounded.

**Deadlock.** Checked in `InstallPaas` and `RouteCache` (where a restart is always
possible, so it says little). The reconciler runs, the
boots and the demo switch it off because the system may stop: with no rows and no
disturbance left the reconciler's ticks return at once and change nothing, and a
node that is up, or whose boot has failed, waits; a deleted instance, with all its
targets gone, is the end of its model.

**Fairness.** Of the reconciler: its ticks (the looper calls `_iteration` for ever), its
child's steps (each is a subprocess that ends), the core-agent's poll, the verification
interval (time passes), the queued restart and gservice's start (systemd runs and
retries them), all weak. Of the node: the boot script and an installer, each by itself,
go on once they have begun. Of the demo: both builders' calls (the gservice's loop), but
none of the PaaS builder once it was refused, Core's provisioning, reports, removal and
config delivery, the agent's registration and polls. Never of edits, deletions, losses,
faults, crashes, requests, pips or reboots, nor of the end of a boot that has failed.

### What the passing runs show

- *Install command.* `MigratedOnExit`, `ServedOnExit`, `CoherentBetweenRuns`.
  `added or sorted(after)` is right for one spec per command and one run at a
  time: what a run skips as "not added" was done before, or is done now because
  nothing was added. `MigratedUnlessTorn` is the same for overlapping first installs:
  a run whose plugin was there before its own pip, and is not migrated yet, has met
  the other one between its pip and its migrations; nothing was added since, so it
  takes every installed plugin for a target. The property excepts runs that stopped
  after their pip and slugs that are registered twice, for after those
  `MigratedOnExit` fails with two runs.
- *Reconciler.* `MarkAfterComplete`: at the line that marks a plugin, it is on the
  disk, migrated and rendered, whatever happened to it before. `ActiveIsServed`:
  all exceptions come from one window, `torn`. `ConvergesUnlessTorn`: an edit that
  raced a tick is taken up again, because the core-agent sees the row differ from
  the manifest. What a client writes into a row is put back the same way, but for the
  status: a row that it declares ACTIVE is taken at its word, so that the version on the
  disk stays what it is (`claimed` in `AsAsked`); its plugin is installed when it is
  missing, because the verification asks for every row, and the next edit of the
  manifest resets it. `ConvergesFromUrl`: a URL is always reinstalled, so there even torn
  installs are repaired, but for the route cache and for a claimed row; it is checked
  with failing steps, not with crashes and new root disks. `RestartsEnd`: the verification a
  restart makes due finds nothing to do. `ImplementsLifecycle`: refinement of
  `PluginLifecycle` with its fairness; a client's claim is a step of its own there, which
  says nothing of the plugin, and what is claimed and missing is installed.
- *Routes.* `GuardReleased`, `CacheIsRoutable`, `NoStaleRoute` (but for attributes
  that only raised loads have set), `CurrentUnlessInterrupted`, `RestartServesReleases`
  (a restart ends what a reload does not), `ImplementsTable`: a plugin that raises
  fails the request; it never makes a route table without it.
- *Boot.* `ConnectsUnlessLost`: with the role's password in the init file a boot has it
  in its config, unless an installer runs beside it; with it there or none, the boot and
  a node that is up do whatever installers run beside them, as long as both programs read
  the role's password back, none is just writing the config, no stop left the config
  without it and the script did not read it in the middle of a write. `BootRepairs`: the
  key always; migrations and kinds of a boot without an installer beside it, also of what
  earlier ones with an installer left. With one they may differ: its pip may come after
  the script's discovery, and its own render or migrations fail or be killed.
  `ComesUpUnlessLost`: an installer beside the boot may fail it, but leaves a config with
  the role's password for the next boot; the other exceptions are a supplied password
  that is not the role's, a lost or unreadable one and a plugin that makes discovery
  raise.
- *Demo.* `ConvergesToRow`: although configs are built for the nodes reported before the
  call and keys for those that live during it, and the agent may get a payload it cannot
  decrypt yet, all of it ends on one node. It excepts an instance whose last PaaS build
  was refused by the foreign key, as the engine may leave that one as it is for good;
  that may happen whenever Core reports a node before its agent registers.
  `DeletionCompletes`: also when the row goes between a tick's read and its save, or
  after a refused build. `DiskNeverShrinks`: a stale tick may shrink the row, never the
  node set. `ImplementsTargets`: nor does it ask Core for anything new after the
  deletion, or configure a node that Core has not provisioned. `WritesEnd`: the driver
  compares names, not contents, so it leaves the file of the config delivery alone once
  the names agree. A driver that compared contents would fight for ever; this one does
  for a name that it does not read back (`Padded`), and for one that only the config
  delivery is given (`Long`).

### What the violations show

Each run checks one sentence of a docstring, comment or document against the code;
the quotes are in `PROJECT.json`.

- `MCInstallPaas_mixed`: `install-paas A==2 B` with `A==1` installed adds B's slug,
  so only B is migrated; A's new migrations are not applied.
- `MCPluginReconciler_unmigrated`: pip succeeds, a migration fails, the command
  fails, the row stays NEW; the next tick finds the slug installed in the wanted
  version and marks it ACTIVE.
- `MCPluginReconciler_raced`: the package changes while the old one is installed;
  `save()` marks the row it read, and the new state of the row is overwritten.
- `MCRouteCache_upgrade`: an upgrade, its signal, a reload: the entry point's module
  is in `sys.modules`, so the routes are those of the old release. Only the gservice
  and the core-agent are restarted.
- `MCBootstrap_diverged`: a crash between the truncation and the write of the
  config; the next boot generates a password, and skips the role as the file
  exists.

Consequences of the code that the models have and that the properties are stated around,
without a run of their own: SIGUSR1 between a load's discovery and its assignment is
overwritten by the assignment (`interrupted`), and one before the handler is set ends
the worker; a tick cut off between `save()` and its restart leaves an ACTIVE plugin that
nothing reloads for (`torn` in `ActiveIsServed`); an unpinned plugin that moves to
another distribution is marked without being installed from it (`ShouldReinstall`);
SIGUSR1 between the last write of the cache and the `return` makes one request fail
(`Return` with an empty cache); of two overlapping renders the staler one may write
last; a password that is supplied after the first boot goes into the config and never to
the role, so migrations fail until the init file is put back; on a node that keeps its
root disk an installer's render may truncate the config just as the boot script reads
it, and the script generates a password that the role never gets (`lost`), or fail the
script's migrations (`Collision`); a client that declares a row ACTIVE keeps the
reconciler from comparing versions (`claimed`); with a password that only the boot
script reads back, an installer's render writes a shorter one and the services lose the
database. Discovery is all or nothing: a plugin that moves to another distribution with
the same slug leaves both installed, `discover_paas()` raises on the duplicate, every
tick ends there (`DiscoveryFails`) and the gservice does not start, until someone
removes one of them.

In the demo: the PaaS builder waits for no dependency, so whenever Core reports the node
before its agent has registered a build may be refused and its whole transaction rolled
back, which `DESIGN.md:246-252` and `HOW_TO_BUILD_NEW_PAAS.md:339-349, 1084-1093` call
stuck (`refused`). A name with trailing blanks makes driver and config delivery write
the env file in turn for ever, and one longer than 64 characters is accepted by the API
and reaches the config only. With two requests at a time (`Client = {c1, c2}`, three
sizes) `DiskNeverShrinks` is violated: both read the same row, one grows it by two sizes
and the builder passes that on, the other one, valid against what it read, then grows it
by one. An infra builder that read before an edit puts the old name back when the save
writes the whole row; the edit is then lost, and everything converges to the old row.
`pre_delete_instance_resource` deletes the keys of the nodes last reported: the keys of
replaced nodes and of a node not reported yet stay (`keys` is not part of
`DeletionCompletes`).

## 4. Proofs

`InstallPaasProofs`, for every set of distributions, versions, slugs, command lines
and runs, and any number of faults. The assumptions are those of the constants
(`RegistryAssumption`, `InstallPaasAssumption`), evaluated by every run.

- `TypeCorrect`: `Spec => []TypeOK`, for any number of overlapping runs.
- `SoloMigrates`, `SoloServes`, `SoloCoheres`: `MigratedOnExit`, `ServedOnExit` and
  `CoherentBetweenRuns` are invariants, given
  - `Solo`: runs do not overlap (with two, `ServedOnExit` is false);
  - `SingleSpec`: each command line has one spec (`MCInstallPaas_mixed` refutes
    `MigratedOnExit` without it);
  - `StableSlugs`: all versions of a package register the same slugs (an upgrade
    that adds a second slug would skip the first one's migrations).
- `OverlapMigrates`: `MigratedUnlessTorn` is an invariant of runs that overlap, given
  - `AtMostTwo`: two at a time, the reconciler's child and an operator's run (with
    a third one, whose pip adds its plugin during p's, TLC finds that p sees something
    added and passes over its own plugin, which the second run still has to migrate);
  - `SingleSpec` (a line of two specs passes over the one that was there);
  - `FirstInstalls`: no command line replaces a release that another one installs (an
    upgrade that overlaps a first install sees something added, and skips its own
    migrations).

None of the four properties is inductive. `SoloInv` adds, per step of a run, what
the run knows. `MigrationInv`: before pip, `before` is what is discovered; after it,
either nothing was added, or what was there before belongs to releases that were
not asked for; from the targets on, every requested slug is in `todo` or migrated.
The step from the second to the third is `DiscoverAfterMigration`: a requested slug
that is no target would be registered twice, and the second discovery would have
raised. `ServingInv`: the environment does not change after the render has read it.
`CoherenceInv`: unless torn, what was not asked for was migrated and stays so.
`SoloStep` has a step per action and under it one per conjunct. The invariant was
checked with TLC on the instance of `MCInstallPaas_solo` first.

`OverlapInv` is another one, for two runs. `AskedInv`: the environment has only what
some command line asks for, so that pip only adds. `OwedInv`: a plugin that is installed
and not migrated is owed by a run that will still migrate it (`Owes`: it is new to a run
past its pip, or among its targets). `KnownInv`: at its migrations a run has all it was
asked for migrated or in `todo`; before that, a plugin that was there before its pip is
migrated, or nothing was added since the run looked. The two need each other: that what
run p passes over will be migrated is not enough, it has to be by the time p exits, and
that is so because the run that owes it has its pip behind it and p's own pip then added
nothing. `OverlapStep` goes through the steps, with a lemma for those that matter
(`PipShared`, `DiscoverAfterShared`, `ApplyMigrationShared`). TLC checked the invariant
on the instance of `MCInstallPaas_overlap` first.

`PluginReconcilerProofs`, for every set of plugins, packages and releases and any
budget of edits and faults, from the assumptions of the constants, `SingleSpec` (the
reconciler's command lines are such) and `StableSlugs`. The child is the install
command's only process, so what `InstallPaasProofs` knows about it is used again:
`ChildInv` is `MigrationInv`, `ServingInv` and `CoherenceInv` of the child, and a lemma
each says that they survive what the reconciler adds (a killed child, a wiped disk).

- `ReconcilerTypeCorrect`: `ReconcilerTypeOK`.
- `MarkIsComplete`: `MarkAfterComplete`, given `PackagesProvide` (every release of a
  package has the plugin it is asked for). The child knows what it was asked for,
  not why: `TickInv` ties its request to the row that the tick has read, and
  `InstalledInv` keeps the distribution on the disk until its exit.
- `InstalledIsServed`: `ActiveIsServed`. `ServeInv` says why: when neither the tick,
  its child nor a queued restart owes a reload, the core-agent has the config as it
  is and the gservice the installed releases; the signal comes before the restart,
  so the routes are current already while the restart is due.

`PluginLifecycleProofs`: `ReconcilerKeepsLifecycle`, `ReconcilerSpec => Lifecycle!Spec`,
given also `OnePlugin` (no release registers two plugins that have rows; else one pip
installs two at once, which the lifecycle does in two steps). A client may claim any row
ACTIVE there too (`Claim`); what the theorem says is that the reconciler itself marks
only what is installed. `RowEffect` says what
each step does to the rows, `PresentEffect` what it does to the disk, and no step
changes both. A row that is activated without an install was classified at an
earlier step, and `ActivateInv` carries that its plugin is still there: only the child
and a new root disk change the environment, and neither does while the tick is at
that step and goes on.

`RouteCacheProofs`, for any plugins, releases and number of installs, from
`RegistryAssumption` and `RouteCacheAssumption`: `RouteCacheTypeCorrect`,
`GuardIsReleased`, `CachedIsRoutable` (`CacheIsRoutable`), `NoRouteOutlives`
(`NoStaleRoute`), `CacheIsCurrent`
(`CurrentUnlessInterrupted`), `RestartIsEnough` (`RestartServesReleases`) and
`CacheImplementsTable` (`ImplementsTable`, all of it: the table has no fairness). The
invariant has four parts. `LoadInv`: the guard is set exactly during a load, and a load
starts without a cache. `SyncInv`: what attributes, remembered slugs, result and cache
have in common at each step. `FreshInv`: while no signal is owed, pending or was lost,
what a load has seen and what the cache has is what is on the disk. `ReleaseInv`: while
pip has changed nothing, so are the modules.

`BootstrapProofs`, for any plugins, any passwords and any way of reading them back, any
number of crashes and of installers beside the boots, from `RegistryAssumption` and
`BootstrapAssumption`: `BootTypeCorrect`, `BootConnects` (`ConnectsUnlessLost`) and
`BootIsRepair` (`BootRepairs`). `ProcessInv`: what script and installer are doing at
each step, and that a boot without an installer beside it is alone. `PassInv`: which
steps have a password, that a supplied one is used, that a config, or a step past the
role, means that there is a role. `RoleInv`: unless lost, and with no other password
supplied than the role's (`Good`), the script and an installer at its render hold the
role's password, if it is one that both read back (`ForPlain`), and the config has it or
is empty and about to be written (`Kept`); so the overlap of two renders brings no other
password into the file. `RepairInv`: what each step before the services has repaired is
not undone by the next, as long as the boot is alone. TLC checked the invariant on the
instance of `MCBootstrap_boots` first.

`DemoInstanceProofs`, for every set of nodes, names and sizes, both values of
`WholeRow` and any number of events, from `DemoAssumption` and
`DemoNullAssumption`:

- `DemoTypeCorrect`: `Spec => []TypeOK`, for any number of overlapping requests.
- `DiskIsSafe`: `Spec => DiskNeverShrinks`, given `OneWriter` (at most one API
  request at a time; with two it is false, as said above). The row itself may
  shrink, so the property needs `DiskChain`: what a request has read is at least the
  row, the row at least what a tick has read, that at least the target. A tick that
  writes its old row back lowers the row to what Core is asked for at the same
  moment; a request that has read more than the row only raises it. `DiskStep` has a
  step per action.

- `BuildersImplementTargets`: `Spec => ImplementsTargets`, given `OneWriter`. The size
  needs `DiskChain` again, configs and payload need `ProvisionedInv`: nodes that are
  reported, or that a call was told of, are nodes that Core has provisioned.
  `TargetsStep` maps every step to one of the targets or to none.

`DemoDataPlaneProofs`: `DataPlaneTypeCorrect` (`DataPlaneTypeOK`) and, given `OneWriter`,
`DiskIsSafeWithNodes` (`DiskNeverShrinks` of the composition) and `DemoImplementsTargets`
(`ImplementsTargets`). A step of the nodes
leaves the control plane alone but for the events (`NodesStutter`), so the lemmas of
`DemoInstanceProofs` carry over.

`ConnectionUrlProofs`, for passwords of any length over any alphabet that has the
characters of the URL and neither brackets nor blanks: `RenderRecovers`, that
render-config reads back exactly the passwords without `@` and `%`, and `BootRecovers`, that
the boot script reads back exactly those without `%`, `/`, `?` and `#`. `Plain` in
`Bootstrap`, what `BootConnects` asks of a password that is not supplied, is both at once.
The lemmas say where a text is cut (`BeforeFirst`, `AfterFirst`; `FirstMark`, the first
mark, is the least element of a well-founded order) and what stands where in the URL
(`UrlShape`).

With these every invariant, every action property and every refinement's steps of the
passing runs is proved. What is out of the prover's reach is only model-checked:
liveness under fairness (`ConvergesUnlessTorn`, `ConvergesFromUrl`, `RestartsEnd`,
`ComesUpUnlessLost`, `ConvergesToRow`, `DeletionCompletes`, `WritesEnd`) and the fair
part of `ImplementsLifecycle`. That the tables of `MCBootstrap` are the values of
`ConnectionUrl`'s operators is an assumption that TLC evaluates.

## 5. Plan

Done: `Registry`, `InstallPaas`, `PluginReconciler` with `PluginLifecycle`,
`RouteCache` with `RouteTable`, `Bootstrap` with `ConnectionUrl`, `DemoInstance` with
`InstanceTargets`, `DemoDataPlane`, and the proofs of all of them.

To come: rows whose name is not the slug of their package, in `PluginReconciler`
(every verification reinstalls them).

## 6. Not modelled

orch_api, status_api, the application object and the wiring of the controllers, OpenAPI,
configuration and logging: declarative, or pure I/O over generic libraries. The delivery
of audit events: a service of the library. The audit mixin (`em/common/audit.py`): a
pure function that no class of this repository uses yet. Images, manifests and CI: build
time. IAM and the project id in the configs: values that are copied. The move to the
persistent disk: a library call; the disk is taken to be mounted before anything reads
or writes it. Of the demo plugin its versions, its routes and its images.

Of what is modelled, left out of the instances or the models: plugins whose
definitions share a module (`RouteCache`); two rows of the same name, and requests for
`index_url` alone (`PluginReconciler`); supplied passwords with a `/`, `?`, `#` or
`:`, which the operators of `ConnectionUrl` read but `MCBootstrap` does not have; a URN
that resolves to another artifact at a later attempt; several demo instances, which
share nothing but the builders.
