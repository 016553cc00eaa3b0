----------------------------- MODULE InstallPaas -----------------------------
(***************************************************************************)
(* exordos-metapaas-install-paas (exordos_metapaas/cmd/install_paas.py)    *)
(* and what it leaves behind: the virtual environment on the root disk,    *)
(* the applied migrations in the database, the rendered core_agent.conf,   *)
(* and the three services that serve a plugin (the user_api route cache,   *)
(* the core-agent's kinds, the gservice's builders).                       *)
(*                                                                         *)
(* A process of Proc is one run of the command: an operator's, or the      *)
(* child the PluginReconciler starts.  Each of its steps is a subprocess   *)
(* of its own in the code, so each is an action here and runs of several   *)
(* processes interleave between them.  Any step may fail (check_call       *)
(* raises) or the run may be killed there; Budget bounds how often.        *)
(***************************************************************************)
EXTENDS Registry

CONSTANTS
    Proc,        \* runs of the command that may overlap
    Request,     \* the command lines: [specs, upgrade, restart]
    Unpinned,    \* a pip spec without a version
    NoCache,     \* user_api's _plugin_cache is None
    Budget       \* Budget[k]: how many events of kind k the environment has

ASSUME InstallPaasAssumption ==
    /\ Unpinned \notin Version
    /\ \A S \in SUBSET Slug : NoCache # S
    /\ Request \subseteq [specs: SUBSET [dist: Dist, pin: Version \cup {Unpinned}],
                          upgrade: BOOLEAN, restart: BOOLEAN]
    /\ Request # {}
    /\ \A r \in Request : \A a, b \in r.specs : a.dist = b.dist => a = b
    /\ Budget \in [DOMAIN Budget -> Nat]
    /\ "fault" \in DOMAIN Budget

VARIABLES
    venv,        \* the root disk: the installed release of each distribution
    migrated,    \* the database: releases whose migrations were applied
    conf,        \* core_agent.conf: slugs whose kinds the last render wrote
    pc,          \* pc[p]: the next step of run p
    req,         \* req[p]: its command line
    before,      \* before[p]: slugs discovered before its pip
    todo,        \* todo[p]: slugs whose migrations it still has to apply
    found,       \* found[p]: slugs its render-config child discovered
    cache,       \* user_api: slugs in the route cache, or NoCache
    agent,       \* core-agent: slugs whose kinds it subscribed to at its start
    builders,    \* gservice: releases whose builders run since its start
    torn,        \* history: some run stopped after its pip, before its exit
    left         \* what remains of Budget

diskVars == <<venv, migrated, conf>>
runVars == <<pc, req, before, todo, found>>
servingVars == <<cache, agent, builders>>
installVars == <<diskVars, runVars, servingVars, torn, left>>

Step == {"idle", "before", "pip", "after", "migrate", "write", "signal",
         "restart", "done", "failed"}

TypeOK ==
    /\ venv \in Venv
    /\ migrated \subseteq Slug \X Version
    /\ conf \subseteq Slug
    /\ pc \in [Proc -> Step]
    /\ req \in [Proc -> Request]
    /\ before \in [Proc -> SUBSET Slug]
    /\ todo \in [Proc -> SUBSET Slug]
    /\ found \in [Proc -> SUBSET Slug]
    /\ cache \in {NoCache} \cup SUBSET Slug
    /\ agent \subseteq Slug
    /\ builders \subseteq Slug \X Version
    /\ torn \in BOOLEAN
    /\ left \in [DOMAIN Budget -> Nat]

(* The command starts on a control plane whose services are up and that    *)
(* has no plugin yet; what a run of it needs of `req' is set by Start.     *)
Init ==
    /\ venv = NothingInstalled
    /\ migrated = {}
    /\ conf = {}
    /\ pc = [p \in Proc |-> "idle"]
    /\ req = [p \in Proc |-> CHOOSE r \in Request : TRUE]
    /\ before = [p \in Proc |-> {}]
    /\ todo = [p \in Proc |-> {}]
    /\ found = [p \in Proc |-> {}]
    /\ cache = NoCache
    /\ agent = {}
    /\ builders = {}
    /\ torn = FALSE
    /\ left = Budget

Spend(kind) ==
    /\ left[kind] > 0
    /\ left' = [left EXCEPT ![kind] = @ - 1]

Goto(p, step) == pc' = [pc EXCEPT ![p] = step]

-----------------------------------------------------------------------------
(* What pip does with a spec.  Only an unpinned spec of an installed       *)
(* distribution leaves it alone, and only without --upgrade.               *)
Choices(installed, pin, upgrade) ==
    IF pin # Unpinned THEN {pin}
    ELSE IF installed # Absent /\ ~upgrade THEN {installed}
    ELSE Version

Resolutions(env, r) ==
    {e \in Venv : \A d \in Dist :
        \/ \E sp \in r.specs : sp.dist = d /\ e[d] \in Choices(env[d], sp.pin, r.upgrade)
        \/ (\A sp \in r.specs : sp.dist # d) /\ e[d] = env[d]}

(* What an interrupted pip may leave: the old releases, or some of the     *)
(* requested distributions removed or replaced, but not all replaced.      *)
Partial(env, r) ==
    {env} \cup
    ({e \in Venv : \A d \in Dist :
        \/ e[d] = env[d]
        \/ \E sp \in r.specs :
              sp.dist = d /\ e[d] \in Choices(env[d], sp.pin, r.upgrade) \cup {Absent}}
     \ Resolutions(env, r))

Start(p, r) ==
    /\ pc[p] = "idle"
    /\ req' = [req EXCEPT ![p] = r]
    /\ Goto(p, "before")
    /\ UNCHANGED <<diskVars, servingVars, before, todo, found, torn, left>>

DiscoverBefore(p) ==
    /\ pc[p] = "before"
    /\ DiscoverOk(venv)
    /\ before' = [before EXCEPT ![p] = Discovered(venv)]
    /\ Goto(p, "pip")
    /\ UNCHANGED <<diskVars, servingVars, req, todo, found, torn, left>>

PipInstall(p) ==
    /\ pc[p] = "pip"
    /\ venv' \in Resolutions(venv, req[p])
    /\ Goto(p, "after")
    /\ UNCHANGED <<migrated, conf, servingVars, req, before, todo, found, torn, left>>

(* Mutant: only the slugs that appeared.                                   *)
TargetsAddedOnly(old, new) == (new \ old) \cap Migrating

(* targets = added or sorted(after): the slugs that appeared, or all of    *)
(* them when none did; a slug without a migrations path is passed over.    *)
Targets(old, new) == (IF new \ old # {} THEN new \ old ELSE new) \cap Migrating

DiscoverAfter(p) ==
    /\ pc[p] = "after"
    /\ DiscoverOk(venv)
    /\ todo' = [todo EXCEPT ![p] = Targets(before[p], Discovered(venv))]
    /\ Goto(p, "migrate")
    /\ UNCHANGED <<diskVars, servingVars, req, before, found, torn, left>>

(* The migrations applied are the files now on disk, whoever put them      *)
(* there.                                                                  *)
ApplyMigration(p) ==
    /\ pc[p] = "migrate"
    /\ \E s \in todo[p] \cap Discovered(venv) :
          /\ migrated' = migrated \cup {sv \in SlugVersions(venv) : sv[1] = s}
          /\ todo' = [todo EXCEPT ![p] = @ \ {s}]
    /\ UNCHANGED <<venv, conf, servingVars, pc, req, before, found, torn, left>>

(* Mutant: the render discovers in an interpreter that began before pip.   *)
RenderDiscoverOld(p) ==
    /\ pc[p] = "migrate"
    /\ todo[p] = {}
    /\ found' = [found EXCEPT ![p] = before[p]]
    /\ Goto(p, "write")
    /\ UNCHANGED <<diskVars, servingVars, req, before, todo, torn, left>>

(* exordos-metapaas-render-config, in two steps: it discovers the plugins, *)
(* then writes the file.                                                   *)
RenderDiscover(p) ==
    /\ pc[p] = "migrate"
    /\ todo[p] = {}
    /\ DiscoverOk(venv)
    /\ found' = [found EXCEPT ![p] = Discovered(venv)]
    /\ Goto(p, "write")
    /\ UNCHANGED <<diskVars, servingVars, req, before, todo, torn, left>>

RenderWrite(p) ==
    /\ pc[p] = "write"
    /\ conf' = found[p]
    /\ Goto(p, IF req[p].restart THEN "signal" ELSE "done")
    /\ UNCHANGED <<venv, migrated, servingVars, req, before, todo, found, torn, left>>

(* Mutant: the signal is not sent.                                         *)
SignalNobody(p) ==
    /\ pc[p] = "signal"
    /\ Goto(p, "restart")
    /\ UNCHANGED <<diskVars, servingVars, req, before, todo, found, torn, left>>

SignalUserApi(p) ==
    /\ pc[p] = "signal"
    /\ cache' = NoCache
    /\ Goto(p, "restart")
    /\ UNCHANGED <<diskVars, agent, builders, req, before, todo, found, torn, left>>

(* Mutant: the slugs instead of what they stand for.                       *)
BuildersBySlug == IF DiscoverOk(venv) THEN Discovered(venv) ELSE {}

(* gservice's main() builds its services from discover_paas(): when that   *)
(* raises the restarted service does not come up.                          *)
BuildersAtStart == IF DiscoverOk(venv) THEN SlugVersions(venv) ELSE {}

RestartServices(p) ==
    /\ pc[p] = "restart"
    /\ agent' = conf
    /\ builders' = BuildersAtStart
    /\ Goto(p, "done")
    /\ UNCHANGED <<diskVars, cache, req, before, todo, found, torn, left>>

-----------------------------------------------------------------------------
Running == Step \ {"idle", "done", "failed"}

(* A run that stops at step `at' tears the runtime if its pip has changed  *)
(* something it did not follow up; `lost' is what else its end loses.      *)
Tears(at) == at \in {"after", "migrate", "write", "signal", "restart"} \/ venv' # venv

StopsAt(p, step, lost) ==
    /\ venv' \in IF pc[p] = "pip" THEN Partial(venv, req[p]) ELSE {venv}
    /\ torn' = (torn \/ Tears(pc[p]) \/ lost)
    /\ Goto(p, step)

(* discover_paas() raises in the child interpreter, or a slug to migrate   *)
(* has left the disk: check_output or check_call raises.                   *)
StepRaises(p) ==
    /\ \/ pc[p] \in {"before", "after"} /\ ~DiscoverOk(venv)
       \/ pc[p] = "migrate" /\ todo[p] = {} /\ ~DiscoverOk(venv)
       \/ pc[p] = "migrate" /\ todo[p] \ Discovered(venv) # {}
    /\ StopsAt(p, "failed", FALSE)
    /\ UNCHANGED <<migrated, conf, servingVars, req, before, todo, found, left>>

(* Any step may fail for a reason of its own, or the run be interrupted.   *)
StepFails(p) ==
    /\ pc[p] \in Running
    /\ Spend("fault")
    /\ StopsAt(p, "failed", FALSE)
    /\ UNCHANGED <<migrated, conf, servingVars, req, before, todo, found>>

Exit(p) ==
    /\ pc[p] \in {"done", "failed"}
    /\ Goto(p, "idle")
    /\ UNCHANGED <<diskVars, servingVars, req, before, todo, found, torn, left>>

(* The next user_api request rebuilds an empty route cache; it fails, and  *)
(* the cache stays empty, while discovery raises.                          *)
UserApiRequest ==
    /\ cache = NoCache
    /\ DiscoverOk(venv)
    /\ cache' = Discovered(venv)
    /\ UNCHANGED <<diskVars, runVars, agent, builders, torn, left>>

RunStep(p) ==
    \/ DiscoverBefore(p) \/ PipInstall(p) \/ DiscoverAfter(p)
    \/ ApplyMigration(p) \/ RenderDiscover(p) \/ RenderWrite(p)
    \/ SignalUserApi(p) \/ RestartServices(p)
    \/ StepRaises(p) \/ StepFails(p)

Next ==
    \/ \E p \in Proc : (\E r \in Request : Start(p, r)) \/ RunStep(p) \/ Exit(p)
    \/ UserApiRequest

Spec == Init /\ [][Next]_installVars

-----------------------------------------------------------------------------
(* Properties *)

(* The slugs that run p asked for, as registered by what is installed.     *)
Requested(p) ==
    {s \in Slug : \E sp \in req[p].specs, v \in Version :
        venv[sp.dist] = v /\ s \in Provides[<<sp.dist, v>>]}

(* A run that exits 0 has applied the migrations of every plugin it was    *)
(* asked for, also when it repeats a run that failed halfway or upgrades   *)
(* an installed plugin: the choice of targets in main() (lines 143-157).   *)
MigratedOnExit ==
    \A p \in Proc : pc[p] = "done" =>
        \A s \in Requested(p) : Migrated(venv, migrated, s)

(* The same of runs that overlap, for as long as none has stopped after    *)
(* its pip and no slug is registered twice: what one run skips as "not     *)
(* added", because it was there before, the other one has migrated by the  *)
(* time the first one exits (lines 143-157).                               *)
MigratedUnlessTorn == (~torn /\ NoDuplicates(venv)) => MigratedOnExit

(* A run that exits 0 leaves core_agent.conf with the kinds of every       *)
(* plugin it was asked for, and, unless --no-restart, no service serves    *)
(* the plugins of an earlier environment: user_api either reloads on its   *)
(* next request or has reloaded, the other two started after the render.   *)
ServedOnExit ==
    \A p \in Proc : pc[p] = "done" =>
        /\ Requested(p) \subseteq conf
        /\ req[p].restart => /\ agent = conf
                             /\ builders = SlugVersions(venv)
                             /\ cache \in {NoCache, Discovered(venv)}

(* However many runs came before, as long as none of them stopped after    *)
(* its pip, the rendered kinds are exactly the installed plugins and every *)
(* one of them is migrated whenever no run is under way: what each run     *)
(* skips as "not added" was done by an earlier one.                        *)
CoherentBetweenRuns ==
    (~torn /\ \A p \in Proc : pc[p] = "idle") =>
        /\ conf = Discovered(venv)
        /\ \A s \in Discovered(venv) : Migrated(venv, migrated, s)
=============================================================================
