--------------------------- MODULE RouteCacheProofs ---------------------------
(***************************************************************************)
(* The route cache of a worker is what it promises, for any plugins,       *)
(* releases and number of installs, wherever the signals arrive.           *)
(***************************************************************************)
EXTENDS RouteCache, TLAPS

Routing == {"route", "prune", "assign"}

(* The guard is set exactly during a load, and a load starts without cache. *)
LoadInv ==
    /\ loading <=> wpc \in {"scan"} \cup Routing
    /\ loading => cache = NoCache
    /\ wpc # "route" => scan = {}
    /\ wpc \in {"starting", "idle", "scan"} => result = {}

(* How the cache, the attributes and the remembered slugs go together.     *)
SyncInv ==
    /\ wpc \in Routing => SlugsOf(result) \subseteq attrs
    /\ wpc = "assign" => live = SlugsOf(result)
    /\ wpc = "return" => SlugsOf(result) \subseteq live
    /\ cache # NoCache => live = SlugsOf(cache) /\ live \subseteq attrs
    /\ attrs \subseteq live \cup leaked \cup SlugsOf(result)

(* Neither what was looked up nor the cache is behind the disk.            *)
FreshInv ==
    (~owed /\ ~signalled /\ ~interrupted) =>
        /\ wpc \in Routing => SlugsOf(scan \cup result) = Discovered(venv)
        /\ cache # NoCache => SlugsOf(cache) = Discovered(venv)

(* While nothing changes on the disk, all that the process has is from it. *)
ReleaseInv ==
    ~changed =>
        /\ modules \subseteq SlugVersions(venv)
        /\ wpc \in Routing => scan \cup result = SlugVersions(venv)
        /\ cache # NoCache => cache = SlugVersions(venv)

IInv == TypeOK /\ LoadInv /\ SyncInv /\ FreshInv /\ ReleaseInv

-----------------------------------------------------------------------------
(* Slugs of a union, of nothing and of well-typed releases.                *)
LEMMA SlugsOfFacts ==
    /\ \A S, T : SlugsOf(S \cup T) = SlugsOf(S) \cup SlugsOf(T)
    /\ SlugsOf({}) = {}
    /\ \A S \in SUBSET (Slug \X Version) : SlugsOf(S) \subseteq Slug
    /\ \A s, v : SlugsOf({<<s, v>>}) = {s}
BY DEF SlugsOf

(* A load finds every plugin that is installed, whatever was imported.     *)
LEMMA ImportedSlugs ==
    ASSUME TypeOK
    PROVE  Imported \subseteq Slug \X Version /\ SlugsOf(Imported) = Discovered(venv)
<1>1. Imported \subseteq Slug \X Version
  BY DEF Imported, SlugVersions, TypeOK
<1>2. ASSUME NEW sv \in Imported PROVE sv[1] \in Discovered(venv)
  <2>1. CASE sv \in modules /\ sv[1] \in Discovered(venv)
    BY <2>1
  <2>2. CASE sv \in SlugVersions(venv)
    <3>1. PICK d \in Dist : venv[d] = sv[2] /\ sv[1] \in Provides[<<d, sv[2]>>]
      BY <2>2 DEF SlugVersions
    <3>2. <<d, sv[2]>> \in Releases(venv)
      BY <1>1, <3>1 DEF Releases
    <3> QED
      BY <1>1, <3>1, <3>2 DEF Discovered
  <2> QED
    BY <2>1, <2>2 DEF Imported
<1>3. ASSUME NEW s \in Discovered(venv) PROVE \E sv \in Imported : sv[1] = s
  <2>1. CASE s \in SlugsOf(modules)
    BY <1>3, <2>1 DEF SlugsOf, Imported
  <2>2. CASE s \notin SlugsOf(modules)
    <3>1. PICK r \in Releases(venv) : s \in Provides[r] /\ s \in Slug
      BY <1>3 DEF Discovered
    <3>2. r = <<r[1], r[2]>> /\ r[1] \in Dist /\ r[2] \in Version /\ venv[r[1]] = r[2]
      BY <3>1 DEF Releases
    <3>3. <<s, r[2]>> \in SlugVersions(venv)
      BY <3>1, <3>2 DEF SlugVersions
    <3> QED
      BY <2>2, <3>3 DEF Imported
  <2> QED
    BY <2>1, <2>2
<1> QED
  BY <1>1, <1>2, <1>3 DEF SlugsOf

(* With no modules but the installed ones, it finds exactly the releases.  *)
LEMMA ImportedReleases ==
    ASSUME TypeOK, NoDuplicates(venv), modules \subseteq SlugVersions(venv)
    PROVE  Imported = SlugVersions(venv)
<1>1. Imported \subseteq SlugVersions(venv)
  BY DEF Imported
<1>2. ASSUME NEW sv \in SlugVersions(venv) PROVE sv \in Imported
  <2>1. sv = <<sv[1], sv[2]>> /\ sv[1] \in Slug /\ sv[2] \in Version
    BY DEF SlugVersions
  <2>2. PICK d \in Dist : venv[d] = sv[2] /\ sv[1] \in Provides[<<d, sv[2]>>]
    BY DEF SlugVersions
  <2>3. <<d, sv[2]>> \in Releases(venv)
    BY <2>1, <2>2 DEF Releases
  <2>4. CASE sv[1] \in SlugsOf(modules)
    <3>1. PICK other \in modules : other[1] = sv[1]
      BY <2>4 DEF SlugsOf
    <3>2. other = <<other[1], other[2]>> /\ other[2] \in Version
      BY DEF SlugVersions
    <3>3. PICK e \in Dist : venv[e] = other[2] /\ other[1] \in Provides[<<e, other[2]>>]
      BY DEF SlugVersions
    <3>4. <<e, other[2]>> \in Releases(venv)
      BY <3>2, <3>3 DEF Releases
    <3>5. <<e, other[2]>> = <<d, sv[2]>>
      BY <2>2, <2>3, <3>1, <3>3, <3>4 DEF NoDuplicates
    <3>6. other = sv
      BY <2>1, <3>1, <3>2, <3>5
    <3>7. sv[1] \in Discovered(venv)
      BY <2>1, <2>2, <2>3 DEF Discovered
    <3> QED
      BY <3>6, <3>7 DEF Imported
  <2>5. CASE sv[1] \notin SlugsOf(modules)
    BY <2>5 DEF Imported
  <2> QED
    BY <2>4, <2>5
<1> QED
  BY <1>1, <1>2

(* What a load that raises leaves.                                         *)
LEMMA RaisedKeepsInv ==
    ASSUME IInv, LoadRaises, wpc \in {"scan"} \cup Routing,
           modules' \subseteq modules \cup Imported
    PROVE  IInv'
<1> USE DEF LoadRaises, IInv, Routing, diskVars
<1>1. TypeOK'
  <2>1. modules' \subseteq Slug \X Version
    BY ImportedSlugs DEF TypeOK
  <2> QED
    BY <2>1, SlugsOfFacts DEF TypeOK
<1>2. LoadInv'
  BY DEF LoadInv
<1>3. SyncInv'
  BY SlugsOfFacts DEF SyncInv, LoadInv
<1>4. FreshInv'
  BY DEF FreshInv, LoadInv
<1>5. ReleaseInv'
  <2>1. ~changed => Imported \subseteq SlugVersions(venv)
    BY DEF ReleaseInv, Imported
  <2> QED
    BY <2>1 DEF ReleaseInv, LoadInv
<1> QED
  BY <1>1, <1>2, <1>3, <1>4, <1>5

-----------------------------------------------------------------------------
(* Every step keeps the invariant.                                         *)
LEMMA IInvStep == ASSUME IInv, [Next]_vars PROVE IInv'
<1> USE DEF IInv, Routing, diskVars, cacheVars, callVars, history
<1>t. TypeOK /\ LoadInv /\ SyncInv /\ FreshInv /\ ReleaseInv
  OBVIOUS
<1>0. CASE UNCHANGED vars
  BY <1>0 DEF vars, TypeOK, LoadInv, SyncInv, FreshInv, ReleaseInv
<1>1. CASE Pip
  <2>1. venv' \in Venv /\ installs' \in 0..Installs
    BY <1>1, RouteCacheAssumption DEF Pip, TypeOK, Venv
  <2> QED
    BY <1>1, <2>1 DEF Pip, TypeOK, LoadInv, SyncInv, FreshInv, ReleaseInv
<1>2. CASE SignalUserApi
  BY <1>2 DEF SignalUserApi, TypeOK, LoadInv, SyncInv, FreshInv, ReleaseInv
<1>3. CASE InvalidatePluginCache
  <2>1. TypeOK'
    <3>1. interrupted' \in BOOLEAN
      <4>1. interrupted' = (wpc \in {"route", "prune", "assign"})
        BY <1>3 DEF InvalidatePluginCache
      <4>2. (wpc \in {"route", "prune", "assign"}) \in BOOLEAN
        OBVIOUS
      <4> QED
        BY <4>1, <4>2, Zenon
    <3>2. /\ signalled' = FALSE /\ cache' = NoCache
          /\ UNCHANGED <<diskVars, modules, attrs, live, loading, callVars, leaked,
                         changed>>
      BY <1>3 DEF InvalidatePluginCache
    <3> QED
      BY <3>1, <3>2 DEF TypeOK
  <2>2. LoadInv'
    BY <1>3 DEF InvalidatePluginCache, LoadInv
  <2>3. SyncInv'
    BY <1>3 DEF InvalidatePluginCache, SyncInv
  <2>4. interrupted' <=> wpc \in Routing
    BY <1>3 DEF InvalidatePluginCache
  <2>5. FreshInv'
    BY <1>3, <2>4 DEF InvalidatePluginCache, FreshInv
  <2>6. ReleaseInv'
    BY <1>3 DEF InvalidatePluginCache, ReleaseInv
  <2> QED
    BY <2>1, <2>2, <2>3, <2>5, <2>6
<1>4. CASE CacheHit
  BY <1>4, SlugsOfFacts DEF CacheHit, TypeOK, LoadInv, SyncInv, FreshInv, ReleaseInv
<1>5. CASE CacheMiss
  BY <1>5 DEF CacheMiss, TypeOK, LoadInv, SyncInv, FreshInv, ReleaseInv
<1>6. CASE Reentered
  BY <1>6 DEF Reentered, TypeOK, LoadInv, SyncInv, FreshInv, ReleaseInv
<1>7. CASE Discover
  <2>1. TypeOK'
    BY <1>7, ImportedSlugs DEF Discover, TypeOK
  <2>2. LoadInv'
    BY <1>7 DEF Discover, LoadInv
  <2>3. SyncInv'
    BY <1>7, SlugsOfFacts DEF Discover, LoadInv, SyncInv
  <2>4. FreshInv'
    BY <1>7, ImportedSlugs DEF Discover, LoadInv, FreshInv
  <2>5. ReleaseInv'
    BY <1>7, ImportedReleases DEF Discover, LoadInv, ReleaseInv
  <2> QED
    BY <2>1, <2>2, <2>3, <2>4, <2>5
<1>8. CASE SetRoute
  <2>1. PICK sv \in scan : /\ attrs' = attrs \cup {sv[1]}
                           /\ result' = result \cup {sv}
                           /\ scan' = scan \ {sv}
    BY <1>8 DEF SetRoute
  <2>2. sv[1] \in Slug /\ sv \in Slug \X Version
    BY DEF TypeOK
  <2>3. SlugsOf(result') = SlugsOf(result) \cup {sv[1]}
    BY <2>1 DEF SlugsOf
  <2>4. scan' \cup result' = scan \cup result
    BY <2>1
  <2>5. wpc = "route" /\ wpc' = "route"
        /\ UNCHANGED <<diskVars, signalled, modules, cache, live, loading, answer, history>>
    BY <1>8 DEF SetRoute
  <2>6. TypeOK'
    BY <2>1, <2>2, <2>5 DEF TypeOK
  <2>7. LoadInv'
    BY <2>5 DEF LoadInv
  <2>8. SyncInv'
    BY <2>1, <2>3, <2>5 DEF LoadInv, SyncInv
  <2>9. FreshInv'
    BY <2>4, <2>5 DEF LoadInv, FreshInv
  <2>10. ReleaseInv'
    BY <2>4, <2>5 DEF LoadInv, ReleaseInv
  <2> QED
    BY <2>6, <2>7, <2>8, <2>9, <2>10
<1>9. CASE DiscoverRaises
  <2>1. modules' \subseteq modules \cup Imported
    BY <1>9 DEF DiscoverRaises
  <2> QED
    BY <1>9, <2>1, RaisedKeepsInv DEF DiscoverRaises
<1>10. CASE RouteRaises
  BY <1>10, RaisedKeepsInv DEF RouteRaises, TypeOK
<1>11. CASE MapRaises
  BY <1>11, RaisedKeepsInv DEF MapRaises, TypeOK
<1>12. CASE RoutesSet
  BY <1>12 DEF RoutesSet, TypeOK, LoadInv, SyncInv, FreshInv, ReleaseInv
<1>13. CASE PruneStale
  <2>1. SlugsOf(result) \subseteq Slug
    BY SlugsOfFacts DEF TypeOK
  <2> QED
    BY <1>13, <2>1 DEF PruneStale, Prune, TypeOK, LoadInv, SyncInv, FreshInv, ReleaseInv
<1>14. CASE Assign
  <2>1. SlugsOf(scan \cup result) = SlugsOf(result)
    BY <1>14 DEF Assign, LoadInv
  <2> QED
    BY <1>14, <2>1 DEF Assign, TypeOK, LoadInv, SyncInv, FreshInv, ReleaseInv
<1>15. CASE Return
  BY <1>15, SlugsOfFacts DEF Return, TypeOK, LoadInv, SyncInv, FreshInv, ReleaseInv
<1>16. CASE WorkerStarts
  BY <1>16 DEF WorkerStarts, TypeOK, LoadInv, SyncInv, FreshInv, ReleaseInv
<1>17. CASE WorkerRestarts
  BY <1>17, SlugsOfFacts
  DEF WorkerRestarts, ProcessEnds, TypeOK, LoadInv, SyncInv, FreshInv, ReleaseInv
<1> QED
  BY <1>0, <1>1, <1>2, <1>3, <1>4, <1>5, <1>6, <1>7, <1>8, <1>9, <1>10, <1>11, <1>12,
     <1>13, <1>14, <1>15, <1>16, <1>17
  DEF Next, Installer, Worker

(* The initial state.                                                      *)
LEMMA IInvInit == ASSUME Init PROVE IInv
<1>1. venv \in Venv
  BY DEF Init, Venv, NothingInstalled
<1>2. installs \in 0..Installs
  BY RouteCacheAssumption DEF Init
<1>3. TypeOK
  BY <1>1, <1>2 DEF Init, TypeOK
<1> QED
  BY <1>3, SlugsOfFacts DEF Init, IInv, LoadInv, SyncInv, FreshInv, ReleaseInv, Routing

(* The invariant holds throughout.                                         *)
THEOREM RouteCacheInvariant == Spec => []IInv
BY IInvInit, IInvStep, PTL DEF Spec

(* Every variable of the cache stays in its domain.                        *)
THEOREM RouteCacheTypeCorrect == Spec => []TypeOK
<1>1. IInv => TypeOK
  BY DEF IInv
<1> QED
  BY <1>1, RouteCacheInvariant, PTL

(* No load leaves the re-entrancy guard set, however it ends.              *)
THEOREM GuardIsReleased == Spec => []GuardReleased
<1>1. IInv => GuardReleased
  BY DEF IInv, LoadInv, GuardReleased, Routing
<1> QED
  BY <1>1, RouteCacheInvariant, PTL

(* Every route in the cache is an attribute that restalchemy traverses.    *)
THEOREM CachedIsRoutable == Spec => []CacheIsRoutable
<1>1. IInv => CacheIsRoutable
  BY SlugsOfFacts DEF IInv, LoadInv, SyncInv, CacheIsRoutable
<1> QED
  BY <1>1, RouteCacheInvariant, PTL

(* No attribute outlives its entry in the cache, but for those that a load *)
(* set before it raised.                                                   *)
THEOREM NoRouteOutlives == Spec => []NoStaleRoute
<1>1. IInv => NoStaleRoute
  BY SlugsOfFacts DEF IInv, LoadInv, SyncInv, NoStaleRoute
<1> QED
  BY <1>1, RouteCacheInvariant, PTL

(* When every signal is handled, the cache has what is installed, unless   *)
(* the last one hit a load.                                                *)
THEOREM CacheIsCurrent == Spec => []CurrentUnlessInterrupted
<1>1. IInv => CurrentUnlessInterrupted
  BY DEF IInv, FreshInv, CurrentUnlessInterrupted, Quiet
<1> QED
  BY <1>1, RouteCacheInvariant, PTL

(* The routes are those of the installed releases as long as pip has       *)
(* changed nothing since the process started.                              *)
THEOREM RestartIsEnough == Spec => []RestartServesReleases
<1>1. IInv => RestartServesReleases
  BY DEF IInv, ReleaseInv, RestartServesReleases
<1> QED
  BY <1>1, RouteCacheInvariant, PTL

-----------------------------------------------------------------------------
(* What the table is in the variables of the cache.                         *)
Seen == IF wpc \in Routing THEN SlugsOf(scan \cup result) ELSE NoCache
Served == IF cache = NoCache THEN NoCache ELSE SlugsOf(cache)

(* The step of the table, in the variables of the cache.                   *)
TableStep ==
    \/ Discovered(venv)' \in SUBSET Slug /\ UNCHANGED <<Seen, Served>>
    \/ /\ Seen = NoCache /\ Served = NoCache /\ Seen' = Discovered(venv)
       /\ UNCHANGED <<Discovered(venv), Served>>
    \/ Seen # NoCache /\ Seen' = NoCache /\ UNCHANGED <<Discovered(venv), Served>>
    \/ Seen # NoCache /\ Served' = Seen /\ Seen' = NoCache /\ UNCHANGED Discovered(venv)
    \/ Served' = NoCache /\ UNCHANGED <<Discovered(venv), Seen>>
    \/ Served' = NoCache /\ Seen' = NoCache /\ UNCHANGED Discovered(venv)
    \/ UNCHANGED <<Discovered(venv), Seen, Served>>

(* Something that was seen or routed is not nothing.                       *)
LEMMA NotNothing ==
    ASSUME TypeOK
    PROVE  SlugsOf(scan \cup result) # NoCache /\ result # NoCache
<1>1. scan \cup result \in SUBSET (Slug \X Version) /\ result \in SUBSET (Slug \X Version)
  BY DEF TypeOK
<1>2. SlugsOf(scan \cup result) \in SUBSET Slug
  BY <1>1, SlugsOfFacts
<1> QED
  BY <1>1, <1>2, RouteCacheAssumption

(* A load that raises gives up what it has seen, if anything.              *)
LEMMA RaisedIsGiveUp ==
    ASSUME TypeOK, LoadRaises PROVE TableStep
<1>1. UNCHANGED <<Discovered(venv), Served>> /\ Seen' = NoCache
  BY DEF LoadRaises, Seen, Served, Routing, diskVars
<1>2. CASE wpc \in Routing
  BY <1>1, <1>2, NotNothing DEF TableStep, Seen
<1>3. CASE wpc \notin Routing
  BY <1>1, <1>3 DEF TableStep, Seen
<1> QED
  BY <1>2, <1>3

(* Every step of the cache is a step of the table or none.                 *)
LEMMA RefinesStep == ASSUME IInv, [Next]_vars PROVE TableStep
<1> USE DEF Routing, diskVars, cacheVars, callVars, history
<1>t. TypeOK /\ LoadInv
  BY DEF IInv
<1>0. CASE UNCHANGED vars
  BY <1>0 DEF vars, TableStep, Seen, Served
<1>1. CASE Pip
  <2>1. Discovered(venv)' \in SUBSET Slug
    BY DEF Discovered
  <2> QED
    BY <1>1, <2>1 DEF Pip, TableStep, Seen, Served
<1>2. CASE SignalUserApi
  BY <1>2 DEF SignalUserApi, TableStep, Seen, Served
<1>3. CASE InvalidatePluginCache
  BY <1>3 DEF InvalidatePluginCache, TableStep, Seen, Served
<1>4. CASE CacheHit
  BY <1>4 DEF CacheHit, TableStep, Seen, Served
<1>5. CASE CacheMiss
  BY <1>5 DEF CacheMiss, TableStep, Seen, Served
<1>6. CASE Reentered
  BY <1>6 DEF Reentered, TableStep, Seen, Served
<1>7. CASE Discover
  <2>1. Seen = NoCache /\ Served = NoCache
    BY <1>7, <1>t DEF Discover, Seen, Served, LoadInv
  <2>2. Seen' = Discovered(venv)
    BY <1>7, <1>t, ImportedSlugs DEF Discover, Seen
  <2>3. UNCHANGED <<Discovered(venv), Served>>
    BY <1>7 DEF Discover, Served
  <2> QED
    BY <2>1, <2>2, <2>3 DEF TableStep
<1>8. CASE SetRoute
  <2>1. scan' \cup result' = scan \cup result
    BY <1>8 DEF SetRoute
  <2> QED
    BY <1>8, <2>1 DEF SetRoute, TableStep, Seen, Served
<1>9. CASE DiscoverRaises \/ RouteRaises \/ MapRaises
  BY <1>9, <1>t, RaisedIsGiveUp DEF DiscoverRaises, RouteRaises, MapRaises
<1>10. CASE RoutesSet
  BY <1>10 DEF RoutesSet, TableStep, Seen, Served
<1>11. CASE PruneStale
  BY <1>11 DEF PruneStale, Prune, TableStep, Seen, Served
<1>12. CASE Assign
  <2>1. Seen = SlugsOf(result) /\ result # NoCache /\ Seen # NoCache
    BY <1>12, <1>t, NotNothing DEF Assign, LoadInv, Seen
  <2>2. Served' = SlugsOf(result) /\ Seen' = NoCache /\ UNCHANGED Discovered(venv)
    BY <1>12, <2>1 DEF Assign, Served, Seen
  <2> QED
    BY <2>1, <2>2 DEF TableStep
<1>13. CASE Return
  BY <1>13 DEF Return, TableStep, Seen, Served
<1>14. CASE WorkerStarts
  BY <1>14 DEF WorkerStarts, TableStep, Seen, Served
<1>15. CASE WorkerRestarts
  BY <1>15 DEF WorkerRestarts, ProcessEnds, TableStep, Seen, Served
<1> QED
  BY <1>0, <1>1, <1>2, <1>3, <1>4, <1>5, <1>6, <1>7, <1>8, <1>9, <1>10, <1>11, <1>12,
     <1>13, <1>14, <1>15
  DEF Next, Installer, Worker

(* Requests are routed by what one look at the disk has seen, or the load  *)
(* has published nothing: the cache implements the table.                  *)
THEOREM CacheImplementsTable == Spec => ImplementsTable
<1>1. Init => Table!Init
  <2> SUFFICES ASSUME Init PROVE Table!Init
    OBVIOUS
  <2>1. Discovered(venv) = {}
    BY RegistryAssumption DEF Init, NothingInstalled, Discovered, Releases
  <2> QED
    BY <2>1 DEF Init, Table!Init
<1>2. IInv /\ [Next]_vars => [Table!Next]_Table!tableVars
  <2> SUFFICES ASSUME IInv, [Next]_vars PROVE [Table!Next]_Table!tableVars
    OBVIOUS
  <2>1. TableStep
    BY RefinesStep
  <2> QED
    BY <2>1 DEF TableStep, Seen, Served, Routing, Table!Next, Table!Change, Table!Look,
       Table!GiveUp, Table!Publish, Table!Invalidate, Table!Restart, Table!tableVars
<1> QED
  BY <1>1, <1>2, RouteCacheInvariant, PTL DEF Spec, ImplementsTable, Table!Spec
=============================================================================
