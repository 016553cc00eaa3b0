-------------------------- MODULE PluginReconciler --------------------------
(***************************************************************************)
(* The PluginReconciler of the gservice                                    *)
(* (exordos_metapaas/services/plugin_reconciler.py), composed with the     *)
(* install command it runs as a child (InstallPaas) and with what acts     *)
(* around it: the manifest in Core, the core-agent that writes the rows of *)
(* metapaas_paas_types, the services it restarts, crashes of the gservice  *)
(* and replacements of the root disk.                                      *)
(*                                                                         *)
(* Everything a tick read stays as it was read: `snap' is the rows, and    *)
(* toActivate/toInstall the decisions, while the rows go on changing.      *)
(***************************************************************************)
EXTENDS InstallPaas

CONSTANTS
    Plugin,      \* the PaaSType rows, by name; the name is the plugin's slug
    Packages,    \* Packages[s]: the packages a manifest may ask for
    NoRow,       \* "there is no such row"
    Child,       \* the process of Proc that the reconciler starts
    WholeRow     \* save() writes every column (TRUE) or the changed ones

Package == [kind: {"name", "url", "urn"}, dist: Dist, pin: Version \cup {Unpinned}]

Row == [pkg: Package, status: {"NEW", "ACTIVE"}]

(* _install's command line.  A URL (and what a URN resolves to) names one  *)
(* release, `pin'; a distribution name is pinned by the version column.    *)
CommandLine(pkg) ==
    [specs |-> {[dist |-> pkg.dist, pin |-> pkg.pin]},
     upgrade |-> FALSE, restart |-> FALSE]

ASSUME PluginReconcilerAssumption ==
    /\ Plugin \subseteq Slug /\ Plugin # {}
    /\ Packages \in [Plugin -> SUBSET Package]
    /\ \A s \in Plugin : \A pkg \in Packages[s] :
          /\ CommandLine(pkg) \in Request
          /\ pkg.kind # "name" => pkg.pin # Unpinned
    /\ NoRow \notin Row /\ NoRow \notin Package
    /\ Proc = {Child}
    /\ WholeRow \in BOOLEAN
    /\ {"fault", "crash", "edit", "client", "wipe"} \subseteq DOMAIN Budget

VARIABLES
    target,      \* Core: the package the manifest asks for, or NoRow
    row,         \* metapaas_paas_types
    claimed,     \* history: rows whose ACTIVE is the word of an API client
    rpc,         \* where the reconciler is in _iteration
    snap,        \* plugins: the rows the tick read
    toActivate,  \* plugins the tick still has to mark without installing
    toInstall,   \* to_install
    cur,         \* the plugin whose install the tick waits for
    newly,       \* newly_activated is not empty
    installedAny,\* installed_any
    verifyDue,   \* the last verification is _VERIFY_INTERVAL_SEC ago
    restartJob   \* a detached systemctl restart is pending

tableVars == <<target, row, claimed>>
tickVars == <<snap, toActivate, toInstall, cur, newly, installedAny>>
reconcilerVars == <<tableVars, rpc, tickVars, verifyDue, restartJob>>
vars == <<installVars, reconcilerVars>>

TickStep == {"down", "idle", "discover", "activate", "install", "wait", "restart"}

ReconcilerTypeOK ==
    /\ target \in [Plugin -> Package \cup {NoRow}]
    /\ row \in [Plugin -> Row \cup {NoRow}]
    /\ claimed \subseteq Plugin
    /\ rpc \in TickStep
    /\ snap \in [Plugin -> Row \cup {NoRow}]
    /\ toActivate \subseteq Plugin
    /\ toInstall \subseteq Plugin
    /\ cur \in Plugin
    /\ newly \in BOOLEAN
    /\ installedAny \in BOOLEAN
    /\ verifyDue \in BOOLEAN
    /\ restartJob \in BOOLEAN

NoRows == [s \in Plugin |-> NoRow]

ReconcilerInit ==
    /\ Init
    /\ target = NoRows
    /\ row = NoRows
    /\ claimed = {}
    /\ rpc = "idle"
    /\ snap = NoRows
    /\ toActivate = {}
    /\ toInstall = {}
    /\ cur = CHOOSE s \in Plugin : TRUE
    /\ newly = FALSE
    /\ installedAny = FALSE
    /\ verifyDue = TRUE
    /\ restartJob = FALSE

Rows(table) == {s \in Plugin : table[s] # NoRow}
Pending(table) == {s \in Rows(table) : table[s].status # "ACTIVE"}

-----------------------------------------------------------------------------
(* Core and the core-agent: a manifest edit, and the agent's reconciling   *)
(* of the row with it.  An insert starts as NEW and PaaSType.update()      *)
(* resets NEW because package or version changed.                          *)

ManifestEdit(s) ==
    /\ Spend("edit")
    /\ target' \in {[target EXCEPT ![s] = t] : t \in Packages[s] \cup {NoRow}}
    /\ target' # target
    /\ UNCHANGED <<diskVars, runVars, servingVars, torn, row, claimed, rpc,
                   tickVars, verifyDue, restartJob>>

(* Mutant: PaaSType without its update(): the status stays.                *)
UpsertKeepingStatus(s) ==
    /\ target[s] # NoRow
    /\ row[s] # NoRow => row[s].pkg # target[s]
    /\ row' = [row EXCEPT ![s] =
          [pkg |-> target[s], status |-> IF @ = NoRow THEN "NEW" ELSE @.status]]
    /\ claimed' = claimed \ {s}
    /\ UNCHANGED <<installVars, target, rpc, tickVars, verifyDue, restartJob>>

CoreAgentUpsert(s) ==
    /\ target[s] # NoRow
    /\ row[s] # NoRow => row[s].pkg # target[s]
    /\ row' = [row EXCEPT ![s] = [pkg |-> target[s], status |-> "NEW"]]
    /\ claimed' = claimed \ {s}
    /\ UNCHANGED <<installVars, target, rpc, tickVars, verifyDue, restartJob>>

CoreAgentDelete(s) ==
    /\ target[s] = NoRow
    /\ row[s] # NoRow
    /\ row' = [row EXCEPT ![s] = NoRow]
    /\ claimed' = claimed \ {s}
    /\ UNCHANGED <<installVars, target, rpc, tickVars, verifyDue, restartJob>>

(* What a request may make of a row: POST gives any status; a PUT with     *)
(* another package or version comes out as NEW, whatever status it gives   *)
(* (update()); one with the status alone keeps it; DELETE.  The controller *)
(* restricts no field.                                                     *)
ClientRows(s) ==
    IF row[s] = NoRow THEN [pkg: Packages[s], status: {"NEW", "ACTIVE"}]
    ELSE [pkg: Packages[s] \ {row[s].pkg}, status: {"NEW"}]
         \cup [pkg: {row[s].pkg}, status: {"NEW", "ACTIVE"} \ {row[s].status}]
         \cup {NoRow}

(* The core-agent puts back the package and the version that the manifest  *)
(* asks for, not the status.                                               *)
ApiEdit(s) ==
    /\ Spend("client")
    /\ \E r \in ClientRows(s) :
          /\ row' = [row EXCEPT ![s] = r]
          /\ claimed' = IF r \in [pkg: Package, status: {"ACTIVE"}]
                        THEN claimed \cup {s} ELSE claimed \ {s}
    /\ UNCHANGED <<diskVars, runVars, servingVars, torn, target, rpc, tickVars,
                   verifyDue, restartJob>>

-----------------------------------------------------------------------------
(* _iteration.  EndTick is every way out of it: its locals are gone.       *)

EndTick(next) ==
    /\ rpc' = next
    /\ snap' = NoRows
    /\ toActivate' = {}
    /\ toInstall' = {}
    /\ newly' = FALSE
    /\ installedAny' = FALSE
    /\ UNCHANGED cur

VerifyTimer ==
    /\ rpc = "idle"
    /\ ~verifyDue
    /\ verifyDue' = TRUE
    /\ UNCHANGED <<installVars, tableVars, rpc, tickVars, restartJob>>

ReadRows ==
    /\ rpc = "idle"
    /\ Rows(row) # {}
    /\ Pending(row) # {} \/ verifyDue
    /\ snap' = row
    /\ rpc' = "discover"
    /\ UNCHANGED <<installVars, tableVars, toActivate, toInstall, cur, newly,
                   installedAny, verifyDue, restartJob>>

(* Mutant: a package that cannot be compared is taken to match.            *)
ReinstallByVersion(s) ==
    /\ snap[s].pkg.kind = "name"
    /\ snap[s].pkg.pin # Unpinned /\ <<s, snap[s].pkg.pin>> \notin SlugVersions(venv)

(* The installed release of a slug does not satisfy the row: a URL or URN  *)
(* cannot be compared, a missing pin is satisfied by any version.          *)
ShouldReinstall(s) ==
    \/ snap[s].pkg.kind # "name"
    \/ snap[s].pkg.pin # Unpinned /\ <<s, snap[s].pkg.pin>> \notin SlugVersions(venv)

(* Mutant: an ACTIVE row is proof that the plugin is there.                *)
MissingPending == Pending(snap) \ Discovered(venv)

Missing == Rows(snap) \ Discovered(venv)

Classify ==
    /\ rpc = "discover"
    /\ DiscoverOk(venv)
    /\ LET install == Missing \cup {s \in Pending(snap) \ Missing : ShouldReinstall(s)}
       IN  toInstall' = install /\ toActivate' = Pending(snap) \ install
    /\ verifyDue' = FALSE
    /\ rpc' = "activate"
    /\ UNCHANGED <<installVars, tableVars, snap, cur, newly, installedAny, restartJob>>

(* _installed_slugs() is None: the registry refuses the environment, or    *)
(* the interpreter that asks it fails once.                                *)
DiscoveryFails ==
    /\ rpc = "discover"
    /\ IF DiscoverOk(venv) THEN Spend("fault") ELSE UNCHANGED left
    /\ EndTick("idle")
    /\ UNCHANGED <<diskVars, runVars, servingVars, torn, tableVars, verifyDue,
                   restartJob>>

(* Mutant: the status is not assigned.                                     *)
SaveUnchanged(s) ==
    /\ row[s] # NoRow
    /\ row' = [row EXCEPT ![s] =
          [pkg |-> IF WholeRow THEN snap[s].pkg ELSE @.pkg, status |-> snap[s].status]]
    /\ claimed' = claimed \ {s}

(* Mutant: a status the model of the row does not know.                    *)
SaveInstalled(s) ==
    /\ row[s] # NoRow
    /\ row' = [row EXCEPT ![s] =
          [pkg |-> IF WholeRow THEN snap[s].pkg ELSE @.pkg, status |-> "INSTALLED"]]
    /\ claimed' = claimed \ {s}

(* plugin.save() with status ACTIVE, of an object read at the tick's start. *)
SaveActive(s) ==
    /\ row[s] # NoRow
    /\ row' = [row EXCEPT ![s] =
                  [pkg |-> IF WholeRow THEN snap[s].pkg ELSE @.pkg, status |-> "ACTIVE"]]
    /\ claimed' = claimed \ {s}

Activate(s) ==
    /\ rpc = "activate"
    /\ s \in toActivate
    /\ SaveActive(s)
    /\ toActivate' = toActivate \ {s}
    /\ newly' = TRUE
    /\ UNCHANGED <<installVars, target, rpc, snap, toInstall, cur, installedAny,
                   verifyDue, restartJob>>

(* The row is gone: save() raises RecordNotFound, the looper logs it and   *)
(* nothing of the rest of the tick happens.                                *)
ActivateRaises(s) ==
    /\ rpc = "activate"
    /\ s \in toActivate
    /\ row[s] = NoRow
    /\ torn' = (torn \/ newly)
    /\ EndTick("idle")
    /\ UNCHANGED <<diskVars, runVars, servingVars, left, tableVars, verifyDue, restartJob>>

ClassifyDone ==
    /\ rpc = "activate"
    /\ toActivate = {}
    /\ IF toInstall = {} /\ ~newly
       THEN EndTick("idle")
       ELSE rpc' = "install" /\ UNCHANGED tickVars
    /\ UNCHANGED <<installVars, tableVars, verifyDue, restartJob>>

InstallStart(s) ==
    /\ rpc = "install"
    /\ s \in toInstall
    /\ Start(Child, CommandLine(snap[s].pkg))
    /\ cur' = s
    /\ rpc' = "wait"
    /\ UNCHANGED <<tableVars, snap, toActivate, toInstall, newly, installedAny,
                   verifyDue, restartJob>>

(* _spec() raises: Core cannot resolve the URN now. *)
SpecRaises(s) ==
    /\ rpc = "install"
    /\ s \in toInstall
    /\ snap[s].pkg.kind = "urn"
    /\ Spend("fault")
    /\ toInstall' = toInstall \ {s}
    /\ UNCHANGED <<diskVars, runVars, servingVars, torn, tableVars, rpc, snap,
                   toActivate, cur, newly, installedAny, verifyDue, restartJob>>

InstallFailed ==
    /\ rpc = "wait"
    /\ pc[Child] = "failed"
    /\ Exit(Child)
    /\ toInstall' = toInstall \ {cur}
    /\ rpc' = "install"
    /\ UNCHANGED <<tableVars, snap, toActivate, cur, newly, installedAny,
                   verifyDue, restartJob>>

(* Mutant: subprocess.run, which does not look at the exit status.         *)
InstallEnded == rpc = "wait" /\ pc[Child] \in {"done", "failed"}

InstallSucceeded == rpc = "wait" /\ pc[Child] = "done"

MarkInstalled ==
    /\ InstallSucceeded
    /\ Exit(Child)
    /\ \/ snap[cur].status = "ACTIVE" /\ UNCHANGED <<row, claimed>>
       \/ snap[cur].status # "ACTIVE" /\ SaveActive(cur)
    /\ toInstall' = toInstall \ {cur}
    /\ installedAny' = TRUE
    /\ rpc' = "install"
    /\ UNCHANGED <<target, snap, toActivate, cur, newly, verifyDue, restartJob>>

MarkRaises ==
    /\ InstallSucceeded
    /\ snap[cur].status # "ACTIVE"
    /\ row[cur] = NoRow
    /\ Goto(Child, "idle")
    /\ torn' = TRUE
    /\ EndTick("idle")
    /\ UNCHANGED <<diskVars, servingVars, left, req, before, todo, found, tableVars,
                   verifyDue, restartJob>>

(* Mutant: only plugins that were there already are reloaded for.          *)
ReloadIfActivated == newly

ReloadDue == installedAny \/ newly

InstallsDone ==
    /\ rpc = "install"
    /\ toInstall = {}
    /\ ~ReloadDue
    /\ EndTick("idle")
    /\ UNCHANGED <<installVars, tableVars, verifyDue, restartJob>>

SignalWorkers ==
    /\ rpc = "install"
    /\ toInstall = {}
    /\ ReloadDue
    /\ cache' = NoCache
    /\ rpc' = "restart"
    /\ UNCHANGED <<diskVars, runVars, agent, builders, torn, left, tableVars,
                   tickVars, verifyDue, restartJob>>

RestartDetached ==
    /\ rpc = "restart"
    /\ restartJob' = TRUE
    /\ EndTick("idle")
    /\ UNCHANGED <<installVars, tableVars, verifyDue>>

-----------------------------------------------------------------------------
(* The services.  Killing the gservice kills the install command with it.  *)

KillGservice(lost) ==
    /\ StopsAt(Child, "idle", lost \/ pc[Child] = "done")
    /\ EndTick("down")

(* The transient unit restarts both services whatever the reconciler is    *)
(* doing now; a reload that the running tick owes is lost unless the tick  *)
(* has come as far as its own restart.                                     *)
ServicesRestart ==
    /\ restartJob
    /\ restartJob' = FALSE
    /\ agent' = conf
    /\ KillGservice((newly \/ installedAny) /\ rpc # "restart")
    /\ UNCHANGED <<migrated, conf, req, before, todo, found, cache, builders, left,
                   tableVars, verifyDue>>

GserviceCrash ==
    /\ rpc # "down"
    /\ Spend("crash")
    /\ KillGservice(newly \/ installedAny)
    /\ UNCHANGED <<migrated, conf, req, before, todo, found, servingVars,
                   tableVars, verifyDue, restartJob>>

(* main(): discover_paas() raising ends it, and systemd tries again.       *)
GserviceStart ==
    /\ rpc = "down"
    /\ DiscoverOk(venv)
    /\ rpc' = "idle"
    /\ builders' = SlugVersions(venv)
    /\ verifyDue' = TRUE
    /\ UNCHANGED <<diskVars, runVars, cache, agent, torn, left, tableVars, tickVars,
                   restartJob>>

(* A new root image boots: the environment is the image's, the bootstrap   *)
(* renders the configs from it, every service starts; the database stays.  *)
RootReplace ==
    /\ Spend("wipe")
    /\ venv' = NothingInstalled
    /\ conf' = {}
    /\ Goto(Child, "idle")
    /\ cache' = NoCache
    /\ agent' = {}
    /\ builders' = {}
    /\ restartJob' = FALSE
    /\ EndTick("down")
    /\ UNCHANGED <<migrated, req, before, todo, found, torn, tableVars, verifyDue>>

-----------------------------------------------------------------------------
CoreAgent == \E s \in Plugin : CoreAgentUpsert(s) \/ CoreAgentDelete(s)

Tick ==
    \/ ReadRows \/ Classify \/ DiscoveryFails \/ ClassifyDone
    \/ InstallFailed \/ MarkInstalled \/ MarkRaises
    \/ InstallsDone \/ SignalWorkers \/ RestartDetached
    \/ \E s \in Plugin : Activate(s) \/ ActivateRaises(s) \/ InstallStart(s)

ChildStep ==
    /\ \/ DiscoverBefore(Child) \/ PipInstall(Child) \/ DiscoverAfter(Child)
       \/ ApplyMigration(Child) \/ RenderDiscover(Child) \/ RenderWrite(Child)
       \/ StepRaises(Child)
    /\ UNCHANGED reconcilerVars

Environment ==
    \/ \E s \in Plugin : ManifestEdit(s) \/ ApiEdit(s) \/ SpecRaises(s)
    \/ StepFails(Child) /\ UNCHANGED reconcilerVars
    \/ UserApiRequest /\ UNCHANGED reconcilerVars
    \/ GserviceCrash \/ RootReplace

ReconcilerNext ==
    CoreAgent \/ Tick \/ ChildStep \/ VerifyTimer \/ ServicesRestart \/ GserviceStart
    \/ Environment

ReconcilerSpec == ReconcilerInit /\ [][ReconcilerNext]_vars

(* The looper calls _iteration again and again and each subprocess ends;   *)
(* systemd runs a queued restart and retries a failed start; the core-     *)
(* agent polls; time passes.  No edit, fault, crash or request is owed.    *)
Fairness ==
    /\ WF_vars(Tick) /\ WF_vars(ChildStep) /\ WF_vars(CoreAgent)
    /\ WF_vars(VerifyTimer) /\ WF_vars(ServicesRestart) /\ WF_vars(GserviceStart)

FairReconcilerSpec == ReconcilerSpec /\ Fairness

-----------------------------------------------------------------------------
(* Properties *)

(* Whatever failed, was killed or wiped before: when the install the tick  *)
(* waits for exits 0, the plugin about to be marked ACTIVE (line 295) is   *)
(* installed, migrated and rendered, although the row may have changed.    *)
MarkAfterComplete ==
    (rpc = "wait" /\ pc[Child] = "done") =>
        /\ cur \in Discovered(venv)
        /\ Migrated(venv, migrated, cur)
        /\ cur \in conf

(* The installed release is migrated, rendered and known to the services   *)
(* that read it at their start.                                            *)
Applied(s) ==
    /\ s \in Discovered(venv)
    /\ Migrated(venv, migrated, s)
    /\ s \in conf /\ s \in agent
    /\ \A sv \in SlugVersions(venv) : sv[1] = s => sv \in builders

Served(s) == Applied(s) /\ (cache # NoCache => s \in cache)

(* ACTIVE means served (docstring, lines 18-21): between two ticks, with   *)
(* no restart pending, every plugin that is installed is migrated,         *)
(* rendered, subscribed to by the core-agent, built by the gservice in the *)
(* installed release, and routed or about to be.  (An ACTIVE one that is   *)
(* missing, as its reinstall failed, waits for the next verification.)     *)
(* All exceptions come from one window: an installer or a tick that        *)
(* stopped after its pip and before its reload (`torn').                   *)
ActiveIsServed ==
    (rpc = "idle" /\ ~restartJob /\ ~torn) => \A s \in Discovered(venv) : Served(s)

(* The reconciler implements the lifecycle: a row it marks ACTIVE is       *)
(* installed at that moment, although the decision was taken on rows and   *)
(* slugs read earlier, nothing but an edit of the manifest or of the row   *)
(* takes ACTIVE back, and only a client's word makes a row ACTIVE without  *)
(* that (_iteration, PaaSType.update, PaaSTypeController).                 *)
Lifecycle == INSTANCE PluginLifecycle WITH
    state <- [s \in Plugin |-> IF row[s] = NoRow THEN "none"
                               ELSE IF row[s].status # "ACTIVE" THEN "wanted"
                               ELSE IF s \in claimed THEN "claimed" ELSE "active"],
    present <- Discovered(venv) \cap Plugin

(* And so is its promise of progress: what stays wanted is installed and   *)
(* activated, what is missing from an ACTIVE row is installed, whoever     *)
(* wrote the status.                                                       *)
ImplementsLifecycle == Lifecycle!FairSpec

(* The row and the environment are what the manifest asks for.  A row that *)
(* a client has declared ACTIVE is taken at its word: some release is      *)
(* there, but nothing compares it with the one that is asked for.          *)
AsAsked(s) ==
    target[s] # NoRow =>
        /\ row[s] = [pkg |-> target[s], status |-> "ACTIVE"]
        /\ venv[target[s].dist] # Absent
        /\ \/ venv[target[s].dist] = target[s].pin
           \/ target[s].pin = Unpinned
           \/ s \in claimed

(* When edits, faults, crashes and wipes are over, every plugin of the     *)
(* manifest ends up ACTIVE, installed in the version it asks for and       *)
(* served, unless a reload was torn off: an edit that raced a tick, one    *)
(* that its save() overwrote, and a status that a client took back are     *)
(* taken up again.  A client that declares a row ACTIVE costs no more than *)
(* the version of this plugin: a missing one is installed nevertheless.    *)
ConvergesUnlessTorn ==
    <>[](torn \/ \A s \in Plugin : AsAsked(s) /\ (target[s] # NoRow => Served(s)))

(* A plugin whose manifest names a URL or URN in the end gets there even   *)
(* when installs stop halfway, as its row stays NEW and _should_reinstall  *)
(* always says yes: everything but the user_api's routes, which only a     *)
(* signal reloads.  Only a row that a client declares ACTIVE keeps what a  *)
(* stopped install has left.  (A crash between save() and the restart, or  *)
(* an ACTIVE plugin that has to be installed again, is not made up for.)   *)
ConvergesFromUrl ==
    <>[](\A s \in Plugin :
            target[s] # NoRow /\ target[s].kind # "name"
               => AsAsked(s) /\ (s \in claimed \/ Applied(s)))

(* The reconciler's restarts of its own process end: the verification that *)
(* a restart makes due finds nothing to install.                           *)
RestartsEnd == <>[]~restartJob
-----------------------------------------------------------------------------
(* What the documents say and the code does not do *)

(* Installing a plugin means "applying its migrations" (docstring, line    *)
(* 19).  But a plugin that a failed install left on the disk is marked     *)
(* ACTIVE by the next tick, which only asks whether its slug is there.     *)
ActiveIsMigrated ==
    \A s \in Rows(row) \cap Discovered(venv) :
        row[s].status = "ACTIVE" /\ s \notin claimed => Migrated(venv, migrated, s)

(* A changed version or package triggers "the next reconciliation cycle"   *)
(* (DESIGN.md:145).  But a change made while the tick works on the row it  *)
(* read earlier is marked ACTIVE with it.                                  *)
ChangeSurvivesMark ==
    [][\A s \in Plugin :
        (row[s] # NoRow /\ row'[s] # NoRow) =>
            (row[s].status = "NEW" /\ row'[s].status = "ACTIVE" /\ s \notin claimed'
                => row[s].pkg = snap[s].pkg)]_vars
=============================================================================
