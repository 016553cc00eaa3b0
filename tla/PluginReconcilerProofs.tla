------------------------ MODULE PluginReconcilerProofs ------------------------
(***************************************************************************)
(* What the reconciler marks is installed and what is installed is served, *)
(* for any plugins, packages, edits, failures, crashes and new root disks. *)
(***************************************************************************)
EXTENDS PluginReconciler, InstallPaasProofs

-----------------------------------------------------------------------------
(* Assumptions on the packages                                             *)

(* Every release of a package has the plugin it is asked for.              *)
PackagesProvide ==
    \A s \in Plugin : \A pkg \in Packages[s] : \A v \in Version :
        s \in Provides[<<pkg.dist, v>>]

-----------------------------------------------------------------------------
(* The invariant                                                           *)

(* Every table of rows holds packages that a manifest may ask for.         *)
Asked(table) == \A s \in Plugin : table[s] # NoRow => table[s].pkg \in Packages[s]

RowInv ==
    /\ \A s \in Plugin : target[s] # NoRow => target[s] \in Packages[s]
    /\ Asked(row) /\ Asked(snap)

(* What a tick knows at each of its steps, and when its child runs.        *)
TickInv ==
    /\ toActivate \cup toInstall \subseteq Rows(snap)
    /\ rpc \in {"idle", "down", "discover"} =>
          toActivate = {} /\ toInstall = {} /\ ~newly /\ ~installedAny
    /\ rpc = "activate" => ~installedAny
    /\ rpc # "wait" => pc[Child] = "idle"
    /\ rpc = "wait" => cur \in toInstall /\ req[Child] = CommandLine(snap[cur].pkg)

(* What the child was asked for is on the disk after its pip.              *)
InstalledInv ==
    pc[Child] \in {"after", "migrate", "write", "done"} =>
        \A sp \in req[Child].specs : venv[sp.dist] \in Version

ChildInv == MigrationInv(Child) /\ ServingInv(Child) /\ CoherenceInv(Child)

(* The child has not changed anything, or there is none.                   *)
Untouched == pc[Child] \in {"idle", "before", "pip", "failed"}

RoutesFresh == cache \in {NoCache, Discovered(venv)}

(* No reload is owed: neither by the running tick nor by a pending restart. *)
NothingOwed == Untouched /\ ~newly /\ ~installedAny

(* Why the services are current when nothing is owed: the signal comes     *)
(* before the restart, and a tick that dies between the two tears.         *)
ServeInv ==
    ~torn =>
        /\ NothingOwed /\ ~restartJob =>
              /\ agent = conf
              /\ rpc # "down" => builders = SlugVersions(venv)
        /\ NothingOwed \/ rpc = "restart" => RoutesFresh

IInv ==
    /\ TypeOK /\ ReconcilerTypeOK
    /\ RowInv /\ TickInv /\ InstalledInv /\ ChildInv /\ ServeInv

-----------------------------------------------------------------------------
(* What a step does to the child                                           *)

(* A step of the install command, none, its end, or a new root disk.       *)
ChildGoesOn == (\E r \in Request : Start(Child, r)) \/ RunStep(Child) \/ Exit(Child)

ChildStays ==
    UNCHANGED <<diskVars, runVars>> /\ (torn => torn') /\ torn' \in BOOLEAN

ChildStops ==
    /\ \E lost \in BOOLEAN : StopsAt(Child, "idle", lost \/ pc[Child] = "done")
    /\ UNCHANGED <<migrated, conf, req, before, todo, found>>

ChildIsWiped ==
    /\ venv' = NothingInstalled /\ conf' = {} /\ Goto(Child, "idle")
    /\ UNCHANGED <<migrated, req, before, todo, found, torn>>

LEMMA ChildEffect ==
    ASSUME TypeOK, ReconcilerTypeOK, RowInv, TickInv, [ReconcilerNext]_vars
    PROVE  ChildGoesOn \/ ChildStays \/ ChildStops \/ ChildIsWiped
<1> USE DEF runVars, servingVars, diskVars, installVars
<1>b. torn \in BOOLEAN /\ newly \in BOOLEAN /\ installedAny \in BOOLEAN
  BY DEF TypeOK, ReconcilerTypeOK
<1>1. ASSUME NEW s \in Plugin, InstallStart(s) PROVE ChildGoesOn
  <2>1. snap[s] # NoRow /\ snap[s].pkg \in Packages[s]
    BY <1>1 DEF InstallStart, TickInv, RowInv, Asked, Rows
  <2>2. CommandLine(snap[s].pkg) \in Request
    BY <2>1, PluginReconcilerAssumption
  <2> QED
    BY <1>1, <2>2 DEF InstallStart, ChildGoesOn
<1>2. CASE ChildStep \/ StepFails(Child) \/ InstallFailed \/ MarkInstalled
  BY <1>2 DEF ChildStep, InstallFailed, MarkInstalled, ChildGoesOn, RunStep
<1>3. CASE MarkRaises
  <2>1. StopsAt(Child, "idle", TRUE \/ pc[Child] = "done")
    BY <1>3 DEF MarkRaises, InstallSucceeded, StopsAt
  <2> QED
    BY <1>3, <2>1 DEF MarkRaises, ChildStops
<1>4. CASE ServicesRestart
  BY <1>4, <1>b DEF ServicesRestart, KillGservice, ChildStops
<1>5. CASE GserviceCrash
  BY <1>5, <1>b DEF GserviceCrash, KillGservice, ChildStops
<1>6. CASE RootReplace
  BY <1>6 DEF RootReplace, ChildIsWiped
<1>7. ASSUME NEW s \in Plugin,
             \/ CoreAgentUpsert(s) \/ CoreAgentDelete(s) \/ ManifestEdit(s)
             \/ ApiEdit(s) \/ SpecRaises(s) \/ Activate(s) \/ ActivateRaises(s)
      PROVE  ChildStays
  BY <1>7, <1>b DEF CoreAgentUpsert, CoreAgentDelete, ManifestEdit, ApiEdit, SpecRaises,
     Activate, ActivateRaises, ChildStays
<1>8. CASE \/ ReadRows \/ Classify \/ DiscoveryFails \/ ClassifyDone \/ InstallsDone
           \/ SignalWorkers \/ RestartDetached \/ VerifyTimer \/ GserviceStart
           \/ UserApiRequest
  BY <1>8, <1>b DEF ReadRows, Classify, DiscoveryFails, ClassifyDone, InstallsDone,
     SignalWorkers, RestartDetached, VerifyTimer, GserviceStart, UserApiRequest, ChildStays
<1>9. CASE UNCHANGED vars
  BY <1>9, <1>b DEF vars, ChildStays
<1> QED
  BY <1>1, <1>2, <1>3, <1>4, <1>5, <1>6, <1>7, <1>8, <1>9
  DEF ReconcilerNext, CoreAgent, Tick, Environment

-----------------------------------------------------------------------------
(* The parts of the invariant, one at a time                               *)

LEMMA TypeKept ==
    ASSUME TypeOK, ReconcilerTypeOK, RowInv, TickInv, [ReconcilerNext]_vars
    PROVE  TypeOK'
<1> USE DEF runVars, servingVars, diskVars, installVars
<1>1. CASE ChildGoesOn \/ UserApiRequest \/ UNCHANGED installVars
  BY <1>1, TypeStep, PluginReconcilerAssumption DEF ChildGoesOn, Next
<1>2. ASSUME NEW kind \in DOMAIN Budget, Spend(kind) PROVE left' \in [DOMAIN Budget -> Nat]
  BY <1>2 DEF Spend, TypeOK
<1>b. {"fault", "crash", "edit", "client", "wipe"} \subseteq DOMAIN Budget
  BY PluginReconcilerAssumption
<1>3. ASSUME NEW lost \in BOOLEAN, StopsAt(Child, "idle", lost)
      PROVE  venv' \in Venv /\ torn' \in BOOLEAN /\ pc' \in [Proc -> Step]
  BY <1>3, StopsAtType, PluginReconcilerAssumption DEF Step
<1>4. ASSUME NEW s \in Plugin, ManifestEdit(s) \/ ApiEdit(s) \/ SpecRaises(s) PROVE TypeOK'
  BY <1>2, <1>4, <1>b DEF ManifestEdit, ApiEdit, SpecRaises, TypeOK
<1>5. CASE DiscoveryFails
  BY <1>2, <1>5, <1>b DEF DiscoveryFails, TypeOK
<1>6. ASSUME NEW s \in Plugin, ActivateRaises(s) PROVE TypeOK'
  BY <1>6 DEF ActivateRaises, TypeOK, ReconcilerTypeOK
<1>7. CASE MarkRaises
  BY <1>7 DEF MarkRaises, Goto, TypeOK, Step
<1>8. CASE SignalWorkers
  BY <1>8 DEF SignalWorkers, TypeOK
<1>9. CASE ServicesRestart
  BY <1>3, <1>9 DEF ServicesRestart, KillGservice, TypeOK
<1>10. CASE GserviceCrash
  BY <1>2, <1>3, <1>10, <1>b DEF GserviceCrash, KillGservice, TypeOK
<1>11. CASE GserviceStart
  BY <1>11, DiscoveredType DEF GserviceStart, TypeOK
<1>12. CASE RootReplace
  <2>1. venv' \in Venv
    BY <1>12 DEF RootReplace, NothingInstalled, Venv
  <2> QED
    BY <1>2, <1>12, <1>b, <2>1 DEF RootReplace, Goto, TypeOK, Step
<1>13. ASSUME NEW s \in Plugin, InstallStart(s) PROVE ChildGoesOn
  <2>1. snap[s] # NoRow /\ snap[s].pkg \in Packages[s]
    BY <1>13 DEF InstallStart, TickInv, RowInv, Asked, Rows
  <2> QED
    BY <1>13, <2>1, PluginReconcilerAssumption DEF InstallStart, ChildGoesOn
<1>14. CASE ChildStep \/ StepFails(Child) \/ InstallFailed \/ MarkInstalled
  BY <1>1, <1>14 DEF ChildStep, InstallFailed, MarkInstalled, ChildGoesOn, RunStep
<1>15. CASE CoreAgent
  BY <1>1, <1>15 DEF CoreAgent, CoreAgentUpsert, CoreAgentDelete
<1>16. CASE \/ ReadRows \/ Classify \/ ClassifyDone \/ InstallsDone \/ RestartDetached
            \/ VerifyTimer \/ UNCHANGED vars \/ \E s \in Plugin : Activate(s)
  BY <1>1, <1>16 DEF ReadRows, Classify, ClassifyDone, InstallsDone, RestartDetached,
     VerifyTimer, vars, Activate
<1> QED
  BY <1>1, <1>4, <1>5, <1>6, <1>7, <1>8, <1>9, <1>10, <1>11, <1>12, <1>13, <1>14, <1>15,
     <1>16
  DEF ReconcilerNext, Tick, Environment

(* A saved row holds an asked package, and is a row.                       *)
LEMMA SaveKeepsRows ==
    ASSUME ReconcilerTypeOK, RowInv, NEW s \in Plugin, snap[s] # NoRow, SaveActive(s)
    PROVE  row' \in [Plugin -> Row \cup {NoRow}] /\ Asked(row)'
<1>1. row[s] \in Row /\ snap[s] \in Row
  BY DEF SaveActive, ReconcilerTypeOK
<1>2. row[s].pkg \in Packages[s] /\ snap[s].pkg \in Packages[s]
  BY DEF SaveActive, RowInv, Asked
<1>3. PICK pkg \in {row[s].pkg, snap[s].pkg} :
          row' = [row EXCEPT ![s] = [pkg |-> pkg, status |-> "ACTIVE"]]
  BY DEF SaveActive, ReconcilerTypeOK
<1>4. [pkg |-> pkg, status |-> "ACTIVE"] \in Row
  BY <1>1, <1>3 DEF Row
<1>5. row' \in [Plugin -> Row \cup {NoRow}]
  BY <1>3, <1>4 DEF ReconcilerTypeOK
<1>6. Asked(row)'
  BY <1>2, <1>3 DEF RowInv, Asked, ReconcilerTypeOK
<1> QED
  BY <1>5, <1>6

(* What a client makes of a row is one, of an asked package.               *)
LEMMA ClientRowsAreRows ==
    ASSUME ReconcilerTypeOK, RowInv, NEW s \in Plugin, NEW r \in ClientRows(s)
    PROVE  r \in Row \cup {NoRow} /\ (r # NoRow => r.pkg \in Packages[s])
<1>a. Packages[s] \subseteq Package
  BY PluginReconcilerAssumption
<1>1. CASE row[s] = NoRow
  BY <1>a, <1>1 DEF ClientRows, Row
<1>2. CASE row[s] # NoRow
  <2>1. row[s] \in Row /\ row[s].pkg \in Packages[s]
    BY <1>2 DEF ReconcilerTypeOK, RowInv, Asked
  <2> QED
    BY <1>a, <1>2, <2>1 DEF ClientRows, Row
<1> QED
  BY <1>1, <1>2

LEMMA RowsKept ==
    ASSUME TypeOK, ReconcilerTypeOK, RowInv, TickInv, [ReconcilerNext]_vars
    PROVE  ReconcilerTypeOK' /\ RowInv'
<1> USE DEF TickStep, tableVars, tickVars
<1>a. \A s \in Plugin : \A pkg \in Packages[s] : pkg \in Package
  BY PluginReconcilerAssumption
<1>b. \A s \in Plugin : \A pkg \in Packages[s] : [pkg |-> pkg, status |-> "NEW"] \in Row
  BY <1>a DEF Row
<1>c. NoRows \in [Plugin -> Row \cup {NoRow}] /\ \A s \in Plugin : NoRows[s] = NoRow
  BY DEF NoRows
<1>d. NoRow \notin Row /\ NoRow \notin Package
  BY PluginReconcilerAssumption
<1>1. ASSUME NEW s \in Plugin, ManifestEdit(s) PROVE ReconcilerTypeOK' /\ RowInv'
  BY <1>a, <1>d, <1>1 DEF ManifestEdit, ReconcilerTypeOK, RowInv, Asked
<1>2. ASSUME NEW s \in Plugin, CoreAgentUpsert(s) PROVE ReconcilerTypeOK' /\ RowInv'
  BY <1>b, <1>2 DEF CoreAgentUpsert, ReconcilerTypeOK, RowInv, Asked
<1>3. ASSUME NEW s \in Plugin, CoreAgentDelete(s) PROVE ReconcilerTypeOK' /\ RowInv'
  BY <1>3 DEF CoreAgentDelete, ReconcilerTypeOK, RowInv, Asked
<1>4. ASSUME NEW s \in Plugin, ApiEdit(s) PROVE ReconcilerTypeOK' /\ RowInv'
  <2>1. PICK r \in ClientRows(s) : row' = [row EXCEPT ![s] = r]
    BY <1>4 DEF ApiEdit
  <2>2. r \in Row \cup {NoRow} /\ (r # NoRow => r.pkg \in Packages[s])
    BY <2>1, ClientRowsAreRows
  <2>3. claimed' \subseteq Plugin
    BY <1>4 DEF ApiEdit, ReconcilerTypeOK
  <2> QED
    BY <1>4, <2>1, <2>2, <2>3 DEF ApiEdit, ReconcilerTypeOK, RowInv, Asked
<1>5. ASSUME NEW s \in Plugin, Activate(s) PROVE ReconcilerTypeOK' /\ RowInv'
  <2>1. snap[s] # NoRow
    BY <1>5 DEF Activate, TickInv, Rows
  <2>2. row' \in [Plugin -> Row \cup {NoRow}] /\ Asked(row)'
    BY <1>5, <2>1, SaveKeepsRows DEF Activate
  <2>3. claimed' \subseteq Plugin
    BY <1>5 DEF Activate, SaveActive, ReconcilerTypeOK
  <2> QED
    BY <1>5, <2>2, <2>3 DEF Activate, ReconcilerTypeOK, RowInv, Asked
<1>6. CASE MarkInstalled
  <2>1. snap[cur] # NoRow /\ cur \in Plugin
    BY <1>6 DEF MarkInstalled, InstallSucceeded, TickInv, Rows, ReconcilerTypeOK
  <2>2. row' = row \/ SaveActive(cur)
    BY <1>6 DEF MarkInstalled
  <2>3. row' \in [Plugin -> Row \cup {NoRow}] /\ Asked(row)'
    BY <2>1, <2>2, SaveKeepsRows DEF ReconcilerTypeOK, RowInv, Asked
  <2>4. claimed' \subseteq Plugin
    BY <1>6 DEF MarkInstalled, SaveActive, ReconcilerTypeOK
  <2> QED
    BY <1>6, <2>3, <2>4 DEF MarkInstalled, ReconcilerTypeOK, RowInv, Asked
<1>7. ASSUME NEW next \in {"idle", "down"}, EndTick(next),
             UNCHANGED <<target, row, claimed>>, verifyDue' \in BOOLEAN, restartJob' \in BOOLEAN
      PROVE  ReconcilerTypeOK' /\ RowInv'
  BY <1>7, <1>c DEF EndTick, ReconcilerTypeOK, RowInv, Asked
<1>8. CASE \/ DiscoveryFails \/ MarkRaises \/ InstallsDone \/ RestartDetached
           \/ \E s \in Plugin : ActivateRaises(s)
  BY <1>7, <1>8 DEF DiscoveryFails, MarkRaises, InstallsDone, RestartDetached,
     ActivateRaises, ReconcilerTypeOK
<1>9. CASE ServicesRestart \/ GserviceCrash \/ RootReplace
  BY <1>7, <1>9
  DEF ServicesRestart, GserviceCrash, KillGservice, RootReplace, ReconcilerTypeOK
<1>10. CASE ClassifyDone
  BY <1>7, <1>10 DEF ClassifyDone, ReconcilerTypeOK, RowInv, Asked
<1>11. CASE ReadRows
  BY <1>11 DEF ReadRows, ReconcilerTypeOK, RowInv, Asked
<1>12. CASE Classify
  BY <1>12 DEF Classify, Missing, Pending, Rows, ReconcilerTypeOK, RowInv, Asked
<1>13. ASSUME NEW s \in Plugin, InstallStart(s) \/ SpecRaises(s)
       PROVE  ReconcilerTypeOK' /\ RowInv'
  BY <1>13 DEF InstallStart, SpecRaises, ReconcilerTypeOK, RowInv, Asked
<1>14. CASE InstallFailed \/ SignalWorkers
  BY <1>14 DEF InstallFailed, SignalWorkers, ReconcilerTypeOK, RowInv, Asked
<1>15. CASE VerifyTimer \/ GserviceStart
  BY <1>15 DEF VerifyTimer, GserviceStart, ReconcilerTypeOK, RowInv, Asked
<1>16. CASE UNCHANGED reconcilerVars
  BY <1>16 DEF reconcilerVars, ReconcilerTypeOK, RowInv, Asked
<1> QED
  BY <1>1, <1>2, <1>3, <1>4, <1>5, <1>6, <1>8, <1>9, <1>10, <1>11, <1>12, <1>13, <1>14,
     <1>15, <1>16
  DEF ReconcilerNext, CoreAgent, Tick, ChildStep, Environment, vars

LEMMA TickKept ==
    ASSUME TypeOK, ReconcilerTypeOK, RowInv, TickInv, [ReconcilerNext]_vars
    PROVE  TickInv'
<1> USE DEF tableVars, tickVars, runVars, installVars, reconcilerVars
<1>t. pc \in [Proc -> Step] /\ req \in [Proc -> Request] /\ Child \in Proc
  BY PluginReconcilerAssumption DEF TypeOK
<1>1. CASE ChildStep \/ (StepFails(Child) /\ UNCHANGED reconcilerVars)
  <2>1. rpc = "wait"
    BY <1>1 DEF ChildStep, DiscoverBefore, PipInstall, DiscoverAfter, ApplyMigration,
       RenderDiscover, RenderWrite, StepRaises, StepFails, Running, TickInv
  <2>2. req' = req /\ UNCHANGED reconcilerVars
    BY <1>1 DEF ChildStep, DiscoverBefore, PipInstall, DiscoverAfter, ApplyMigration,
       RenderDiscover, RenderWrite, StepRaises, StepFails
  <2> QED
    BY <2>1, <2>2 DEF TickInv, Rows
<1>2. ASSUME NEW s \in Plugin, InstallStart(s) PROVE TickInv'
  BY <1>2, <1>t DEF InstallStart, Start, TickInv, Rows
<1>3. CASE InstallFailed \/ MarkInstalled
  BY <1>3, <1>t DEF InstallFailed, MarkInstalled, InstallSucceeded, Exit, Goto, TickInv, Rows
<1>4. ASSUME NEW next \in {"idle", "down"}, EndTick(next), pc'[Child] = "idle"
      PROVE  TickInv'
  BY <1>4 DEF EndTick, NoRows, Rows, TickInv
<1>5. CASE DiscoveryFails \/ InstallsDone \/ RestartDetached \/ MarkRaises
           \/ \E s \in Plugin : ActivateRaises(s)
  <2>1. pc'[Child] = "idle"
    BY <1>5, <1>t DEF DiscoveryFails, InstallsDone, RestartDetached, MarkRaises,
       ActivateRaises, Goto, TickInv
  <2> QED
    BY <1>4, <1>5, <2>1 DEF DiscoveryFails, InstallsDone, RestartDetached, MarkRaises,
       ActivateRaises
<1>6. CASE ServicesRestart \/ GserviceCrash \/ RootReplace
  <2>1. pc'[Child] = "idle"
    BY <1>6, <1>t DEF ServicesRestart, GserviceCrash, RootReplace, KillGservice, StopsAt,
       Goto
  <2> QED
    BY <1>4, <1>6, <2>1 DEF ServicesRestart, GserviceCrash, RootReplace, KillGservice
<1>7. CASE ClassifyDone
  BY <1>4, <1>7 DEF ClassifyDone, TickInv, Rows
<1>8. CASE ReadRows
  BY <1>8 DEF ReadRows, TickInv, Rows
<1>9. CASE Classify
  BY <1>9 DEF Classify, Missing, Pending, TickInv, Rows
<1>10. ASSUME NEW s \in Plugin, Activate(s) PROVE TickInv'
  BY <1>10 DEF Activate, TickInv, Rows
<1>11. ASSUME NEW s \in Plugin, SpecRaises(s) PROVE TickInv'
  BY <1>11 DEF SpecRaises, TickInv, Rows
<1>12. CASE SignalWorkers
  BY <1>12 DEF SignalWorkers, TickInv, Rows
<1>13. CASE GserviceStart
  BY <1>13 DEF GserviceStart, TickInv, Rows
<1>14. CASE VerifyTimer \/ (UserApiRequest /\ UNCHANGED reconcilerVars) \/ UNCHANGED vars
  BY <1>14 DEF VerifyTimer, UserApiRequest, vars, TickInv, Rows
<1>15. ASSUME NEW s \in Plugin,
              CoreAgentUpsert(s) \/ CoreAgentDelete(s) \/ ManifestEdit(s) \/ ApiEdit(s)
       PROVE  TickInv'
  BY <1>15 DEF CoreAgentUpsert, CoreAgentDelete, ManifestEdit, ApiEdit, TickInv, Rows
<1>16. CASE Tick
  BY <1>2, <1>3, <1>5, <1>7, <1>8, <1>9, <1>10, <1>12, <1>16 DEF Tick
<1>17. CASE Environment \/ CoreAgent
  BY <1>1, <1>6, <1>11, <1>14, <1>15, <1>17 DEF Environment, CoreAgent
<1> QED
  BY <1>1, <1>6, <1>13, <1>14, <1>16, <1>17 DEF ReconcilerNext

LEMMA InstalledKept ==
    ASSUME TypeOK, ReconcilerTypeOK, RowInv, TickInv, InstalledInv, ChildInv,
           [ReconcilerNext]_vars
    PROVE  InstalledInv'
<1> USE DEF diskVars, runVars, InstalledInv
<1>t. pc \in [Proc -> Step] /\ req \in [Proc -> Request] /\ Child \in Proc
  BY PluginReconcilerAssumption DEF TypeOK
<1>1. CASE PipInstall(Child)
  BY <1>1, <1>t, PipInstalls DEF PipInstall, Goto
<1>2. CASE ChildGoesOn /\ ~PipInstall(Child)
  <2>1. pc'[Child] \in {"after", "migrate", "write", "done"} =>
            /\ pc[Child] \in {"after", "migrate", "write", "restart"}
            /\ UNCHANGED <<venv, req>>
    BY <1>2, <1>t DEF ChildGoesOn, Start, RunStep, DiscoverBefore, DiscoverAfter,
       ApplyMigration, RenderDiscover, RenderWrite, SignalUserApi, RestartServices,
       StepRaises, StepFails, StopsAt, Exit, Goto
  <2>2. pc[Child] # "restart"
    <3> SUFFICES ASSUME pc[Child] = "restart" PROVE FALSE
      OBVIOUS
    <3>1. req[Child].restart
      BY DEF ChildInv, ServingInv
    <3>2. req[Child] = CommandLine(snap[cur].pkg)
      BY DEF TickInv
    <3> QED
      BY <3>1, <3>2 DEF CommandLine
  <2> QED
    BY <2>1, <2>2
<1>3. CASE ChildStays
  BY <1>3 DEF ChildStays
<1>4. CASE ChildStops \/ ChildIsWiped
  BY <1>4, <1>t DEF ChildStops, ChildIsWiped, StopsAt, Goto
<1> QED
  BY <1>1, <1>2, <1>3, <1>4, ChildEffect

(* The child's own invariant: its steps are those of a solo run, and no    *)
(* one else touches what it works on without ending it.                    *)
LEMMA ChildKept ==
    ASSUME SingleSpec, StableSlugs,
           TypeOK, ReconcilerTypeOK, RowInv, TickInv, ChildInv, [ReconcilerNext]_vars
    PROVE  ChildInv'
<1> USE DEF diskVars, runVars, ChildInv
<1>t. pc \in [Proc -> Step] /\ req \in [Proc -> Request] /\ Child \in Proc
  BY PluginReconcilerAssumption DEF TypeOK
<1>r. pc[Child] # "idle" => ~req[Child].restart
  BY DEF TickInv, CommandLine
<1>1. CASE ChildGoesOn
  BY <1>1, <1>t, SoloStep DEF ChildGoesOn
<1>2. CASE ChildStays
  <2>1. Requested(Child)' = Requested(Child) /\ Unrequested(Child)' = Unrequested(Child)
    BY <1>2, <1>t, RequestFrame DEF ChildStays
  <2>2. MigrationInv(Child)' /\ CoherenceInv(Child)'
    BY <1>2, <2>1 DEF ChildStays, MigrationInv, CoherenceInv
  <2>3. ServingInv(Child)'
    BY <1>2, <1>r DEF ChildStays, ServingInv
  <2> QED
    BY <2>2, <2>3
<1>3. CASE ChildStops
  <2>1. PICK lost \in BOOLEAN : StopsAt(Child, "idle", lost \/ pc[Child] = "done")
    BY <1>3 DEF ChildStops
  <2>2. pc'[Child] = "idle" /\ UNCHANGED <<migrated, conf, req>>
    BY <1>3, <1>t, <2>1 DEF ChildStops, StopsAt, Goto
  <2>3. MigrationInv(Child)' /\ ServingInv(Child)'
    BY <2>2 DEF MigrationInv, ServingInv
  <2>4. ~torn' => ~torn /\ venv' = venv /\ pc[Child] \in {"idle", "before", "pip", "failed"}
    BY <1>t, <2>1 DEF StopsAt, Tears, Step
  <2>5. CoherenceInv(Child)'
    BY <2>2, <2>4 DEF CoherenceInv
  <2> QED
    BY <2>3, <2>5
<1>4. CASE ChildIsWiped
  <2>1. pc'[Child] = "idle" /\ conf' = {}
    BY <1>4, <1>t DEF ChildIsWiped, Goto
  <2>2. Discovered(venv)' = {}
    BY <1>4, RegistryAssumption DEF ChildIsWiped, NothingInstalled, Discovered, Releases
  <2>3. MigrationInv(Child)' /\ ServingInv(Child)'
    BY <2>1 DEF MigrationInv, ServingInv
  <2>4. CoherenceInv(Child)'
    BY <2>1, <2>2 DEF CoherenceInv, Step
  <2> QED
    BY <2>3, <2>4
<1> QED
  BY <1>1, <1>2, <1>3, <1>4, ChildEffect

LEMMA ServeKept ==
    ASSUME TypeOK, ReconcilerTypeOK, TickInv, ServeInv, [ReconcilerNext]_vars
    PROVE  ServeInv'
<1> USE DEF diskVars, runVars, servingVars, tableVars, tickVars, ServeInv, NothingOwed,
            Untouched, RoutesFresh
<1>t. pc \in [Proc -> Step] /\ Child \in Proc
  BY PluginReconcilerAssumption DEF TypeOK
<1>1. CASE ChildStep \/ (StepFails(Child) /\ UNCHANGED reconcilerVars)
  <2>1. rpc = "wait" /\ UNCHANGED <<servingVars, reconcilerVars>>
    BY <1>1 DEF ChildStep, DiscoverBefore, PipInstall, DiscoverAfter, ApplyMigration,
       RenderDiscover, RenderWrite, StepRaises, StepFails, Running, TickInv
  <2>2. ~torn' /\ Untouched' => ~torn /\ Untouched /\ UNCHANGED <<venv, conf>>
    BY <1>1, <1>t DEF ChildStep, DiscoverBefore, PipInstall, DiscoverAfter,
       ApplyMigration, RenderDiscover, RenderWrite, StepRaises, StepFails, StopsAt, Tears,
       Running, Step, Goto
  <2> QED
    BY <2>1, <2>2 DEF reconcilerVars
<1>2. CASE UserApiRequest /\ UNCHANGED reconcilerVars
  BY <1>2 DEF UserApiRequest, reconcilerVars
<1>3. ASSUME NEW s \in Plugin, InstallStart(s) PROVE ServeInv'
  BY <1>3, <1>t DEF InstallStart, Start, Goto, TickInv
<1>4. CASE InstallFailed
  BY <1>4, <1>t DEF InstallFailed, Exit, Goto
<1>5. CASE MarkInstalled \/ MarkRaises
  BY <1>5 DEF MarkInstalled, MarkRaises, Exit
<1>6. ASSUME NEW s \in Plugin, Activate(s) \/ ActivateRaises(s) PROVE ServeInv'
  BY <1>6 DEF Activate, ActivateRaises, EndTick, installVars, TickInv
<1>7. CASE DiscoveryFails \/ ClassifyDone
  BY <1>7 DEF DiscoveryFails, ClassifyDone, EndTick, installVars, TickInv
<1>8. CASE InstallsDone \/ RestartDetached
  BY <1>8 DEF InstallsDone, ReloadDue, RestartDetached, EndTick, installVars
<1>9. CASE SignalWorkers
  BY <1>9 DEF SignalWorkers
<1>10. CASE GserviceStart
  BY <1>10 DEF GserviceStart, TickInv
<1>11. ASSUME NEW lost \in BOOLEAN, StopsAt(Child, "idle", lost \/ pc[Child] = "done"), ~torn'
       PROVE  ~torn /\ ~lost /\ Untouched /\ venv' = venv
  BY <1>11, <1>t DEF StopsAt, Tears, Step
<1>12. CASE ServicesRestart
  <2> SUFFICES ASSUME ~torn' PROVE ServeInv'
    OBVIOUS
  <2>1. /\ ~torn /\ Untouched /\ venv' = venv
        /\ (newly \/ installedAny) => rpc = "restart"
    BY <1>11, <1>12 DEF ServicesRestart, KillGservice, ReconcilerTypeOK
  <2>2. agent' = conf /\ conf' = conf /\ cache' = cache /\ rpc' = "down"
    BY <1>12 DEF ServicesRestart, KillGservice, EndTick
  <2> QED
    BY <2>1, <2>2
<1>13. CASE GserviceCrash
  <2> SUFFICES ASSUME ~torn' PROVE ServeInv'
    OBVIOUS
  <2>1. ~torn /\ Untouched /\ venv' = venv /\ ~newly /\ ~installedAny
    BY <1>11, <1>13 DEF GserviceCrash, KillGservice, ReconcilerTypeOK
  <2>2. /\ rpc' = "down"
        /\ UNCHANGED <<conf, servingVars, restartJob>>
    BY <1>13 DEF GserviceCrash, KillGservice, EndTick
  <2> QED
    BY <2>1, <2>2
<1>14. CASE RootReplace
  BY <1>14 DEF RootReplace, EndTick
<1>15. CASE ReadRows \/ Classify \/ VerifyTimer
  BY <1>15 DEF ReadRows, Classify, VerifyTimer, installVars
<1>16. ASSUME NEW s \in Plugin,
              \/ CoreAgentUpsert(s) \/ CoreAgentDelete(s) \/ ManifestEdit(s)
              \/ ApiEdit(s) \/ SpecRaises(s)
       PROVE  ServeInv'
  BY <1>16 DEF CoreAgentUpsert, CoreAgentDelete, ManifestEdit, ApiEdit, SpecRaises,
     installVars
<1>17. CASE UNCHANGED vars
  BY <1>17 DEF vars, installVars, reconcilerVars
<1>18. CASE Tick
  BY <1>3, <1>4, <1>5, <1>6, <1>7, <1>8, <1>9, <1>15, <1>18 DEF Tick
<1>19. CASE Environment \/ CoreAgent
  BY <1>1, <1>2, <1>13, <1>14, <1>16, <1>19 DEF Environment, CoreAgent
<1> QED
  BY <1>1, <1>10, <1>12, <1>15, <1>17, <1>18, <1>19 DEF ReconcilerNext

-----------------------------------------------------------------------------
LEMMA IInvInit == ASSUME ReconcilerInit PROVE IInv
<1> USE DEF ReconcilerInit
<1>1. TypeOK
  <2>1. venv \in Venv /\ req \in [Proc -> Request]
    BY InstallPaasAssumption DEF Init, NothingInstalled, Venv
  <2> QED
    BY <2>1, InstallPaasAssumption DEF Init, TypeOK, Step
<1>2. ReconcilerTypeOK /\ RowInv
  BY PluginReconcilerAssumption
  DEF ReconcilerTypeOK, RowInv, Asked, NoRows, TickStep
<1>3. pc[Child] = "idle" /\ conf = {} /\ agent = {} /\ builders = {} /\ cache = NoCache
  BY PluginReconcilerAssumption DEF Init
<1>4. Discovered(venv) = {} /\ SlugVersions(venv) = {}
  BY RegistryAssumption
  DEF Init, NothingInstalled, Discovered, Releases, SlugVersions
<1>5. TickInv /\ InstalledInv /\ ChildInv
  BY <1>3, <1>4
  DEF TickInv, Rows, NoRows, InstalledInv, ChildInv, MigrationInv, ServingInv,
      CoherenceInv, Step
<1>6. ServeInv
  BY <1>3, <1>4 DEF ServeInv, RoutesFresh
<1> QED
  BY <1>1, <1>2, <1>5, <1>6 DEF IInv

(* The invariant holds throughout, when a package registers the same slugs *)
(* in all its versions, its own among them, and an install names one.      *)
LEMMA ReconcilerInvariant ==
    ASSUME SingleSpec, StableSlugs
    PROVE  ReconcilerSpec => []IInv
<1>1. IInv /\ [ReconcilerNext]_vars => IInv'
  BY TypeKept, RowsKept, TickKept, InstalledKept, ChildKept, ServeKept DEF IInv
<1> QED
  BY <1>1, IInvInit, PTL DEF ReconcilerSpec

(* Every variable of the reconciler and of its rows stays in its domain.   *)
THEOREM ReconcilerTypeCorrect ==
    ASSUME SingleSpec, StableSlugs
    PROVE  ReconcilerSpec => []ReconcilerTypeOK
<1>1. IInv => ReconcilerTypeOK
  BY DEF IInv
<1> QED
  BY <1>1, ReconcilerInvariant, PTL

(* When the install that a tick waits for exits 0, the plugin about to be  *)
(* marked ACTIVE is installed, migrated and rendered.                      *)
THEOREM MarkIsComplete ==
    ASSUME SingleSpec, StableSlugs, PackagesProvide
    PROVE  ReconcilerSpec => []MarkAfterComplete
<1>1. IInv => MarkAfterComplete
  <2> SUFFICES ASSUME IInv, rpc = "wait", pc[Child] = "done"
               PROVE  /\ cur \in Discovered(venv)
                      /\ Migrated(venv, migrated, cur)
                      /\ cur \in conf
    BY DEF MarkAfterComplete
  <2>1. /\ cur \in Plugin /\ snap[cur].pkg \in Packages[cur]
        /\ req[Child] = CommandLine(snap[cur].pkg)
    BY DEF IInv, ReconcilerTypeOK, RowInv, Asked, TickInv, Rows
  <2>2. PICK pkg \in Packages[cur] : pkg = snap[cur].pkg
    BY <2>1
  <2> DEFINE sp == [dist |-> pkg.dist, pin |-> pkg.pin]
  <2>a. sp \in req[Child].specs /\ sp.dist = pkg.dist
    BY <2>1, <2>2 DEF CommandLine
  <2>b. venv[sp.dist] \in Version
    BY <2>a DEF IInv, InstalledInv
  <2>c. cur \in Provides[<<sp.dist, venv[sp.dist]>>]
    BY <2>1, <2>2, <2>a, <2>b DEF PackagesProvide
  <2>d. cur \in Slug
    BY <2>1, PluginReconcilerAssumption
  <2>3. cur \in Requested(Child)
    <3> HIDE DEF sp
    <3> QED
      BY <2>a, <2>b, <2>c, <2>d DEF Requested
  <2>4. cur \in Discovered(venv)
    BY <2>3, RequestedDiscovered, PluginReconcilerAssumption DEF IInv
  <2> QED
    BY <2>3, <2>4 DEF IInv, ChildInv, MigrationInv, ServingInv
<1> QED
  BY <1>1, ReconcilerInvariant, PTL

(* Between ticks, unless an installer or a tick has stopped in the window  *)
(* from its pip to its reload, every installed plugin is served.           *)
THEOREM InstalledIsServed ==
    ASSUME SingleSpec, StableSlugs
    PROVE  ReconcilerSpec => []ActiveIsServed
<1>1. IInv => ActiveIsServed
  <2> SUFFICES ASSUME IInv, rpc = "idle", ~restartJob, ~torn, NEW s \in Discovered(venv)
               PROVE  Served(s)
    BY DEF ActiveIsServed
  <2>1. pc[Child] = "idle" /\ NothingOwed
    BY DEF IInv, TickInv, NothingOwed, Untouched
  <2>2. conf = Discovered(venv) /\ Migrated(venv, migrated, s)
    BY <2>1 DEF IInv, ChildInv, CoherenceInv
  <2>3. agent = conf /\ builders = SlugVersions(venv) /\ cache \in {NoCache, Discovered(venv)}
    BY <2>1 DEF IInv, ServeInv, RoutesFresh
  <2> QED
    BY <2>2, <2>3 DEF Served, Applied
<1> QED
  BY <1>1, ReconcilerInvariant, PTL
=============================================================================
