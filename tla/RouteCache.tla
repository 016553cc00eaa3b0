----------------------------- MODULE RouteCache -----------------------------
(***************************************************************************)
(* The plugin route cache of one user_api worker                           *)
(* (exordos_metapaas/user_api/api/routes.py), under installs by another    *)
(* process and the SIGUSR1 each of them ends with.                         *)
(*                                                                         *)
(* A worker serves one request at a time, but the signal handler runs      *)
(* between any two bytecodes: it may interrupt _get_plugin_cache anywhere. *)
(* Code is served in the version this process imported first: ep.load()    *)
(* finds a module that is already in sys.modules.  Each definition is      *)
(* taken to live in a module of its own.  The process may be restarted at  *)
(* any time; until it has imported the routes it has no signal handler.    *)
(***************************************************************************)
EXTENDS Registry

CONSTANTS
    NoCache,     \* _plugin_cache is None
    BrokenRoute, \* releases whose get_type_route() raises
    BrokenMap,   \* releases that build_resource_map() raises on
    Installs     \* how many pip installs there are

ASSUME RouteCacheAssumption ==
    /\ \A S \in SUBSET (Slug \X Version) : NoCache # S
    /\ \A S \in SUBSET Slug : NoCache # S
    /\ BrokenRoute \subseteq Dist \X Version /\ BrokenMap \subseteq Dist \X Version
    /\ Installs \in Nat

VARIABLES
    venv,        \* the root disk
    installs,    \* pip installs still to come
    owed,        \* an installer has changed venv and not signalled yet
    signalled,   \* SIGUSR1 is pending in the worker
    modules,     \* sys.modules: the plugin releases imported, by slug
    cache,       \* _plugin_cache
    attrs,       \* slugs set as attributes of TypeRoute
    live,        \* _live_slugs
    loading,     \* _loading
    wpc,         \* where the worker is in _get_plugin_cache
    scan,        \* definitions discovered and not yet routed
    result,      \* result: definitions routed by this load
    answer,      \* what the last _get_plugin_cache returned
    interrupted, \* history: the last signal interrupted a load
    leaked,      \* history: attributes that a load set before it raised
    changed      \* history: pip changed something since the process started

diskVars == <<venv, installs, owed>>
cacheVars == <<modules, cache, attrs, live, loading>>
callVars == <<wpc, scan, result, answer>>
history == <<interrupted, leaked, changed>>
vars == <<diskVars, signalled, cacheVars, callVars, history>>

SlugsOf(releases) == {sv[1] : sv \in releases}

TypeOK ==
    /\ venv \in Venv /\ installs \in 0..Installs
    /\ owed \in BOOLEAN /\ signalled \in BOOLEAN
    /\ modules \subseteq Slug \X Version
    /\ cache = NoCache \/ cache \subseteq Slug \X Version
    /\ attrs \subseteq Slug /\ live \subseteq Slug
    /\ loading \in BOOLEAN
    /\ wpc \in {"starting", "idle", "scan", "route", "prune", "assign", "return"}
    /\ scan \subseteq Slug \X Version /\ result \subseteq Slug \X Version
    /\ answer = NoCache \/ answer \subseteq Slug \X Version
    /\ interrupted \in BOOLEAN /\ changed \in BOOLEAN
    /\ leaked \subseteq Slug

Init ==
    /\ venv = NothingInstalled
    /\ installs = Installs
    /\ owed = FALSE
    /\ signalled = FALSE
    /\ modules = {}
    /\ cache = NoCache
    /\ attrs = {}
    /\ live = {}
    /\ loading = FALSE
    /\ wpc = "starting"
    /\ scan = {}
    /\ result = {}
    /\ answer = {}
    /\ interrupted = FALSE
    /\ leaked = {}
    /\ changed = FALSE

-----------------------------------------------------------------------------
(* The installer: pip changes a distribution, the signal comes later.      *)

Pip ==
    /\ installs > 0
    /\ \E d \in Dist, v \in Version : venv[d] # v /\ venv' = [venv EXCEPT ![d] = v]
    /\ installs' = installs - 1
    /\ owed' = TRUE
    /\ changed' = TRUE
    /\ UNCHANGED <<signalled, cacheVars, callVars, interrupted, leaked>>

SignalUserApi ==
    /\ owed
    /\ owed' = FALSE
    /\ signalled' = TRUE
    /\ UNCHANGED <<venv, installs, cacheVars, callVars, history>>

(* Mutant: the handler only logs.                                          *)
IgnoreSignal ==
    /\ signalled
    /\ wpc # "starting"
    /\ signalled' = FALSE
    /\ interrupted' = FALSE
    /\ UNCHANGED <<diskVars, cacheVars, callVars, leaked, changed>>

(* _sigusr1_handler, between two bytecodes of whatever the worker runs.    *)
InvalidatePluginCache ==
    /\ signalled
    /\ wpc # "starting"
    /\ signalled' = FALSE
    /\ cache' = NoCache
    /\ interrupted' = (wpc \in {"route", "prune", "assign"})
    /\ UNCHANGED <<diskVars, modules, attrs, live, loading, callVars, leaked, changed>>

-----------------------------------------------------------------------------
(* The process of the worker (exordos_metapaas/cmd/user_api.py).           *)

(* It imports the routes, whose module sets the handler; the workers that  *)
(* main() starts inherit both.                                             *)
WorkerStarts ==
    /\ wpc = "starting"
    /\ ~signalled
    /\ wpc' = "idle"
    /\ UNCHANGED <<diskVars, signalled, cacheVars, scan, result, answer, history>>

ProcessEnds(kept) ==
    /\ wpc' = "starting"
    /\ signalled' = FALSE
    /\ modules' = kept
    /\ cache' = NoCache
    /\ attrs' = {} /\ live' = {}
    /\ loading' = FALSE
    /\ scan' = {} /\ result' = {} /\ answer' = {}
    /\ interrupted' = FALSE /\ leaked' = {} /\ changed' = FALSE
    /\ UNCHANGED diskVars

(* Mutant: the new worker is forked from a process that has the modules.   *)
WorkerForked == ProcessEnds(modules)

(* It is restarted, crashes, or is killed by a SIGUSR1 it does not handle  *)
(* yet; systemd starts it again.                                           *)
WorkerRestarts == ProcessEnds({})

-----------------------------------------------------------------------------
(* _get_plugin_cache, called by is_route, get_route and get_routes.        *)

CacheHit ==
    /\ wpc = "idle"
    /\ cache # NoCache
    /\ wpc' = "return"
    /\ UNCHANGED <<diskVars, signalled, cacheVars, scan, result, answer, history>>

CacheMiss ==
    /\ wpc = "idle"
    /\ cache = NoCache
    /\ ~loading
    /\ loading' = TRUE
    /\ wpc' = "scan"
    /\ UNCHANGED <<diskVars, signalled, modules, cache, attrs, live, scan, result,
                   answer, history>>

(* A load calls back into itself: the import machinery asks is_route()     *)
(* while discover_paas() runs, build_resource_map() asks get_routes() at   *)
(* the load's end.  Both get {}.                                           *)
Reentered ==
    /\ wpc \in {"scan", "assign"}
    /\ cache = NoCache
    /\ loading
    /\ answer' = {}
    /\ UNCHANGED <<diskVars, signalled, cacheVars, wpc, scan, result, history>>

(* discover_paas(): what is on the disk, in the version imported first.    *)
Imported ==
    {sv \in modules : sv[1] \in Discovered(venv)}
    \cup {sv \in SlugVersions(venv) : sv[1] \notin SlugsOf(modules)}

(* sv is a definition of one of these releases.                            *)
DefinedIn(releases, sv) == \E r \in releases : r[2] = sv[2] /\ sv[1] \in Provides[r]

Unimportable == {sv \in Imported \ modules : DefinedIn(Broken, sv)}

Discover ==
    /\ wpc = "scan"
    /\ Unimportable = {} /\ NoDuplicates(venv)
    /\ scan' = Imported
    /\ modules' = modules \cup Imported
    /\ result' = {}
    /\ wpc' = "route"
    /\ UNCHANGED <<diskVars, signalled, cache, attrs, live, loading, answer, history>>

(* Mutant: a plugin whose route does not build is passed over.             *)
SetRouteOrSkip ==
    /\ wpc = "route"
    /\ \E sv \in scan :
          /\ scan' = scan \ {sv}
          /\ IF DefinedIn(BrokenRoute, sv) THEN UNCHANGED <<attrs, result>>
             ELSE attrs' = attrs \cup {sv[1]} /\ result' = result \cup {sv}
    /\ UNCHANGED <<diskVars, signalled, modules, cache, live, loading, wpc, answer,
                   history>>

SetRoute ==
    /\ wpc = "route"
    /\ \E sv \in scan :
          /\ ~DefinedIn(BrokenRoute, sv)
          /\ attrs' = attrs \cup {sv[1]}
          /\ result' = result \cup {sv}
          /\ scan' = scan \ {sv}
    /\ UNCHANGED <<diskVars, signalled, modules, cache, live, loading, wpc, answer,
                   history>>

(* Mutant: no finally clause.                                              *)
LoadRaisesKeepingGuard ==
    /\ scan' = {}
    /\ result' = {}
    /\ wpc' = "idle"
    /\ leaked' = leaked \cup (SlugsOf(result) \ live)
    /\ UNCHANGED <<diskVars, signalled, cache, attrs, live, loading, answer, interrupted,
                   changed>>

(* An exception leaves through the finally clause: the request fails.      *)
LoadRaises ==
    /\ loading' = FALSE
    /\ scan' = {}
    /\ result' = {}
    /\ wpc' = "idle"
    /\ leaked' = leaked \cup (SlugsOf(result) \ live)
    /\ UNCHANGED <<diskVars, signalled, cache, attrs, live, answer, interrupted, changed>>

(* discover_paas() raises after it imported any of the definitions.        *)
DiscoverRaises ==
    /\ wpc = "scan"
    /\ Unimportable # {} \/ ~NoDuplicates(venv)
    /\ \E got \in SUBSET (Imported \ Unimportable) : modules' = modules \cup got
    /\ LoadRaises

RouteRaises ==
    /\ wpc = "route"
    /\ \E sv \in scan : DefinedIn(BrokenRoute, sv)
    /\ UNCHANGED modules
    /\ LoadRaises

(* By then the attributes are pruned and the slugs remembered.             *)
MapRaises ==
    /\ wpc = "assign"
    /\ \E sv \in result : DefinedIn(BrokenMap, sv)
    /\ UNCHANGED modules
    /\ LoadRaises

RoutesSet ==
    /\ wpc = "route"
    /\ scan = {}
    /\ wpc' = "prune"
    /\ UNCHANGED <<diskVars, signalled, cacheVars, scan, result, answer, history>>

(* Remove the routes that are not kept; _live_slugs is what is remembered. *)
Prune(kept, remembered) ==
    /\ wpc = "prune"
    /\ attrs' = kept
    /\ live' = remembered
    /\ leaked' = leaked \ SlugsOf(result)
    /\ wpc' = "assign"
    /\ UNCHANGED <<diskVars, signalled, modules, cache, loading, scan, result, answer,
                   interrupted, changed>>

(* Mutants: it removes nothing, or every earlier route, or remembers the   *)
(* routes instead of their slugs.                                          *)
PruneNothing == Prune(attrs, SlugsOf(result))
PruneAll == Prune(attrs \ live, SlugsOf(result))
PruneToRoutes == Prune(attrs \ (live \ SlugsOf(result)), result)

PruneStale == Prune(attrs \ (live \ SlugsOf(result)), SlugsOf(result))

Assign ==
    /\ wpc = "assign"
    /\ \A sv \in result : ~DefinedIn(BrokenMap, sv)
    /\ cache' = result
    /\ loading' = FALSE
    /\ wpc' = "return"
    /\ UNCHANGED <<diskVars, signalled, modules, attrs, live, scan, result, answer,
                   history>>

(* return _plugin_cache: the global is read again.                         *)
Return ==
    /\ wpc = "return"
    /\ answer' = cache
    /\ result' = {}
    /\ wpc' = "idle"
    /\ UNCHANGED <<diskVars, signalled, cacheVars, scan, history>>

Installer == Pip \/ SignalUserApi

Worker ==
    \/ CacheHit \/ CacheMiss \/ Reentered \/ Discover \/ SetRoute
    \/ DiscoverRaises \/ RouteRaises \/ MapRaises
    \/ RoutesSet \/ PruneStale \/ Assign \/ Return

Next ==
    Installer \/ InvalidatePluginCache \/ WorkerStarts \/ WorkerRestarts \/ Worker

Spec == Init /\ [][Next]_vars

-----------------------------------------------------------------------------
(* Properties *)

(* No load, however it ends and wherever a signal hits it, leaves the      *)
(* re-entrancy guard set: a set guard with an empty cache would answer {}  *)
(* to every request from then on (lines 90-96).                            *)
GuardReleased == wpc \in {"idle", "return"} => ~loading

(* Every route in the cache is also an attribute of TypeRoute, which is    *)
(* what restalchemy traverses: "We keep both in sync" (lines 35-38).       *)
CacheIsRoutable ==
    (wpc = "idle" /\ cache # NoCache) => SlugsOf(cache) \subseteq attrs

(* The other half of "in sync": no attribute outlives its plugin's entry   *)
(* in the cache (delattr stale), but for one that only loads that raised   *)
(* have set: _live_slugs never held it, so nothing deletes it.             *)
NoStaleRoute ==
    (wpc = "idle" /\ cache # NoCache) => attrs \subseteq SlugsOf(cache) \cup leaked

Quiet == wpc = "idle" /\ ~owed /\ ~signalled /\ cache # NoCache

(* Once every installer has signalled and the signal was handled, the      *)
(* cache holds exactly the installed plugins, unless the signal hit a load *)
(* that had already looked at the disk.                                    *)
CurrentUnlessInterrupted ==
    (Quiet /\ ~interrupted) => SlugsOf(cache) = Discovered(venv)

(* The routes are those of the installed releases as long as pip has       *)
(* changed nothing since the process started, whatever its predecessors    *)
(* had imported: a restart ends what a reload does not (lines 48-59).      *)
RestartServesReleases ==
    (wpc = "idle" /\ cache # NoCache /\ ~changed) => cache = SlugVersions(venv)

(* The cache implements the abstract table: whatever signals and failures  *)
(* hit a load, a request is routed by all that one discover_paas() call    *)
(* returned, or the load has published nothing (lines 48-97).              *)
Table == INSTANCE RouteTable WITH
    Nothing <- NoCache,
    disk <- Discovered(venv),
    seen <- IF wpc \in {"route", "prune", "assign"} THEN SlugsOf(scan \cup result)
            ELSE NoCache,
    table <- IF cache = NoCache THEN NoCache ELSE SlugsOf(cache)

ImplementsTable == Table!Spec

-----------------------------------------------------------------------------
(* What the documents say and the code does not do *)

(* "new package version in PaaSType resource -> PluginReconciler           *)
(* pip-installs -> applies unapplied migrations -> rolling reload"         *)
(* (DESIGN.md:204-205).  But the reload gets the modules that were         *)
(* imported from the old version.                                          *)
CurrentReleaseServed ==
    (Quiet /\ ~interrupted) => \A sv \in cache : sv \in SlugVersions(venv)
=============================================================================
