------------------------ MODULE PluginLifecycleProofs ------------------------
(***************************************************************************)
(* The reconciler implements the lifecycle of a plugin (its safety part),  *)
(* for any plugins, packages, edits, failures, crashes and new root disks. *)
(***************************************************************************)
EXTENDS PluginReconcilerProofs

(* No release registers two plugins that have rows.                        *)
OnePlugin ==
    \A r \in Dist \X Version : \A s1, s2 \in Provides[r] \cap Plugin : s1 = s2

Present == Discovered(venv) \cap Plugin

StateOf(r, byClient) ==
    IF r = NoRow THEN "none"
    ELSE IF r.status # "ACTIVE" THEN "wanted"
    ELSE IF byClient THEN "claimed" ELSE "active"

-----------------------------------------------------------------------------
(* What a step does to the plugins that are installed                      *)

(* Between environments that differ in one distribution, a slug appears    *)
(* only with a release of it.                                              *)
LEMMA ChangedSlug ==
    ASSUME NEW e \in Venv, NEW f \in Venv, NEW d \in Dist,
           \A other \in Dist \ {d} : e[other] = f[other],
           NEW s \in Discovered(e), s \notin Discovered(f)
    PROVE  \E v \in Version : s \in Provides[<<d, v>>]
<1>1. PICK r \in Releases(e) : s \in Provides[r]
  BY DEF Discovered
<1>2. r = <<r[1], r[2]>> /\ r[1] \in Dist /\ r[2] \in Version /\ e[r[1]] = r[2]
  BY <1>1 DEF Releases
<1>3. r \notin Releases(f) /\ s \in Slug
  BY <1>1 DEF Discovered
<1>4. r[1] = d
  BY <1>2, <1>3 DEF Releases
<1> QED
  BY <1>1, <1>2, <1>4

(* So at most one plugin comes or goes with it.                            *)
LEMMA OneChange ==
    ASSUME StableSlugs, OnePlugin, NEW e \in Venv, NEW f \in Venv, NEW d \in Dist,
           \A other \in Dist \ {d} : e[other] = f[other]
    PROVE  \/ Discovered(f) \cap Plugin = Discovered(e) \cap Plugin
           \/ \E s \in Plugin \ Discovered(e) :
                 Discovered(f) \cap Plugin = (Discovered(e) \cap Plugin) \cup {s}
           \/ \E s \in Plugin \cap Discovered(e) :
                 Discovered(f) \cap Plugin = (Discovered(e) \cap Plugin) \ {s}
<1> DEFINE P == Discovered(e) \cap Plugin
           Q == Discovered(f) \cap Plugin
<1>1. \A s \in (P \ Q) \cup (Q \ P) : \E v \in Version : s \in Provides[<<d, v>>]
  BY ChangedSlug
<1>2. ASSUME NEW s1 \in (P \ Q) \cup (Q \ P), NEW s2 \in (P \ Q) \cup (Q \ P)
      PROVE  s1 = s2
  <2>1. PICK v1 \in Version : s1 \in Provides[<<d, v1>>]
    BY <1>1
  <2>2. PICK v2 \in Version : s2 \in Provides[<<d, v2>>]
    BY <1>1
  <2>3. s2 \in Provides[<<d, v1>>]
    BY <2>2 DEF StableSlugs
  <2> QED
    BY <2>1, <2>3 DEF OnePlugin
<1>3. CASE Q \ P # {}
  <2>1. PICK s \in Q \ P : TRUE
    BY <1>3
  <2>2. Q = P \cup {s}
    BY <1>2, <2>1
  <2> QED
    BY <2>1, <2>2
<1>4. CASE P \ Q # {}
  <2>1. PICK s \in P \ Q : TRUE
    BY <1>4
  <2>2. Q = P \ {s}
    BY <1>2, <2>1
  <2> QED
    BY <2>1, <2>2
<1> QED
  BY <1>3, <1>4

(* A step leaves the environment, changes it in the one distribution that  *)
(* the child was asked for, or empties it.                                 *)
LEMMA VenvEffect ==
    ASSUME SingleSpec, IInv, [ReconcilerNext]_vars
    PROVE  \/ venv' = venv
           \/ venv' = NothingInstalled
           \/ \E d \in Dist : \A other \in Dist \ {d} : venv[other] = venv'[other]
<1> USE DEF diskVars, runVars, IInv
<1>t. req[Child] \in Request /\ Child \in Proc
  BY PluginReconcilerAssumption DEF TypeOK
<1>1. PICK sp : req[Child].specs = {sp}
  BY <1>t DEF SingleSpec
<1>2. sp.dist \in Dist
  BY <1>t, <1>1, InstallPaasAssumption
<1>3. CASE PipInstall(Child)
  BY <1>t, <1>1, <1>2, <1>3, PipKeepsOthers
<1>4. ASSUME NEW step, NEW lost, StopsAt(Child, step, lost)
      PROVE  \A other \in Dist \ {sp.dist} : venv[other] = venv'[other]
  BY <1>1, <1>4 DEF StopsAt, Partial
<1>5. CASE ChildGoesOn /\ ~PipInstall(Child)
  BY <1>2, <1>4, <1>5 DEF ChildGoesOn, Start, RunStep, DiscoverBefore, DiscoverAfter,
     ApplyMigration, RenderDiscover, RenderWrite, SignalUserApi, RestartServices,
     StepRaises, StepFails, Exit
<1>6. CASE ChildStays \/ ChildIsWiped
  BY <1>6 DEF ChildStays, ChildIsWiped
<1>7. CASE ChildStops
  BY <1>2, <1>4, <1>7 DEF ChildStops
<1> QED
  BY <1>3, <1>5, <1>6, <1>7, ChildEffect

LEMMA NothingDiscovered == Discovered(NothingInstalled) = {}
BY RegistryAssumption DEF NothingInstalled, Discovered, Releases

(* What the lifecycle calls Install, Remove and LoseAll.                   *)
LEMMA PresentEffect ==
    ASSUME SingleSpec, StableSlugs, OnePlugin, IInv, TypeOK', [ReconcilerNext]_vars
    PROVE  \/ Present' = Present
           \/ \E s \in Plugin \ Present : Present' = Present \cup {s}
           \/ \E s \in Present : Present' = Present \ {s}
           \/ Present' = {}
<1>1. venv \in Venv /\ venv' \in Venv
  BY DEF IInv, TypeOK
<1>2. CASE venv' = venv
  BY <1>2 DEF Present
<1>3. CASE venv' = NothingInstalled
  BY <1>3, NothingDiscovered DEF Present
<1>4. ASSUME NEW d \in Dist, \A other \in Dist \ {d} : venv[other] = venv'[other]
      PROVE  \/ Present' = Present
             \/ \E s \in Plugin \ Present : Present' = Present \cup {s}
             \/ \E s \in Present : Present' = Present \ {s}
  BY <1>1, <1>4, OneChange DEF Present
<1> QED
  BY <1>2, <1>3, <1>4, VenvEffect

-----------------------------------------------------------------------------
(* What a step does to the rows                                            *)

(* The plugins that a tick marks without installing are still installed,   *)
(* although it asked for the installed ones at an earlier step.            *)
ActivateInv == rpc = "activate" => toActivate \subseteq Discovered(venv)

LEMMA ActivateKept ==
    ASSUME IInv, ActivateInv, [ReconcilerNext]_vars
    PROVE  ActivateInv'
<1> USE DEF ActivateInv, tableVars, tickVars, diskVars, runVars, installVars, reconcilerVars
<1>1. CASE ChildStep \/ (StepFails(Child) /\ UNCHANGED reconcilerVars)
  BY <1>1 DEF ChildStep, DiscoverBefore, PipInstall, DiscoverAfter, ApplyMigration,
     RenderDiscover, RenderWrite, StepRaises, StepFails, Running, IInv, TickInv
<1>2. CASE Classify
  BY <1>2 DEF Classify, Missing, Pending
<1>3. ASSUME NEW s \in Plugin,
             \/ Activate(s) \/ ActivateRaises(s) \/ InstallStart(s) \/ SpecRaises(s)
             \/ CoreAgentUpsert(s) \/ CoreAgentDelete(s) \/ ManifestEdit(s) \/ ApiEdit(s)
      PROVE  ActivateInv'
  BY <1>3 DEF Activate, ActivateRaises, InstallStart, SpecRaises, EndTick,
     CoreAgentUpsert, CoreAgentDelete, ManifestEdit, ApiEdit
<1>4. CASE \/ ReadRows \/ DiscoveryFails \/ ClassifyDone \/ InstallFailed \/ MarkInstalled
           \/ MarkRaises \/ InstallsDone \/ SignalWorkers \/ RestartDetached
  BY <1>4 DEF ReadRows, DiscoveryFails, ClassifyDone, InstallFailed, MarkInstalled,
     MarkRaises, InstallsDone, SignalWorkers, RestartDetached, EndTick
<1>5. CASE ServicesRestart \/ GserviceCrash \/ RootReplace \/ GserviceStart
  BY <1>5 DEF ServicesRestart, GserviceCrash, RootReplace, GserviceStart, KillGservice,
     EndTick
<1>6. CASE VerifyTimer \/ (UserApiRequest /\ UNCHANGED reconcilerVars) \/ UNCHANGED vars
  BY <1>6 DEF VerifyTimer, UserApiRequest, vars
<1> QED
  BY <1>1, <1>2, <1>3, <1>4, <1>5, <1>6 DEF ReconcilerNext, CoreAgent, Tick, Environment

(* A step leaves the rows, or changes one of them while the environment    *)
(* stays; only a row of an installed plugin becomes ACTIVE by anything but *)
(* the word of a client.                                                   *)
Changes(s, r, c) ==
    /\ row' = [row EXCEPT ![s] = r]
    /\ claimed' = IF c THEN claimed \cup {s} ELSE claimed \ {s}
    /\ StateOf(r, c) = "active" => row[s] # NoRow /\ s \in Present
    /\ StateOf(r, c) = "claimed" => StateOf(row[s], s \in claimed) \in {"none", "wanted"}

LEMMA SaveEffect ==
    ASSUME IInv, NEW s \in Plugin, snap[s] # NoRow, SaveActive(s), s \in Present
    PROVE  \E r \in Row \cup {NoRow} : Changes(s, r, FALSE)
<1>1. row[s] # NoRow /\ row' = [row EXCEPT ![s] = row'[s]] /\ claimed' = claimed \ {s}
  BY DEF SaveActive, IInv, ReconcilerTypeOK
<1>2. row'[s] \in Row \cup {NoRow}
  BY SaveKeepsRows DEF IInv
<1>3. StateOf(row'[s], FALSE) # "claimed"
  BY DEF StateOf
<1> QED
  BY <1>1, <1>2, <1>3 DEF Changes

(* What a client gives.                                                    *)
LEMMA ClientEffect ==
    ASSUME IInv, NEW s \in Plugin, ApiEdit(s)
    PROVE  \E r \in Row \cup {NoRow}, c \in BOOLEAN : Changes(s, r, c)
<1>1. PICK r \in ClientRows(s) :
          /\ row' = [row EXCEPT ![s] = r]
          /\ claimed' = IF r \in [pkg: Package, status: {"ACTIVE"}]
                        THEN claimed \cup {s} ELSE claimed \ {s}
  BY DEF ApiEdit
<1>2. r \in Row \cup {NoRow} /\ NoRow \notin Row
  BY ClientRowsAreRows, PluginReconcilerAssumption DEF IInv
<1>3. CASE r \in [pkg: Package, status: {"ACTIVE"}]
  <2>1. r # NoRow /\ r.status = "ACTIVE"
    BY <1>2, <1>3 DEF Row
  <2>2. StateOf(row[s], s \in claimed) \in {"none", "wanted"}
    BY <1>1, <2>1 DEF ClientRows, StateOf
  <2>3. StateOf(r, TRUE) = "claimed"
    BY <2>1 DEF StateOf
  <2> QED
    BY <1>1, <1>2, <1>3, <2>2, <2>3 DEF Changes
<1>4. CASE r \notin [pkg: Package, status: {"ACTIVE"}]
  <2>1. r = NoRow \/ r.status # "ACTIVE"
    BY <1>2, <1>4 DEF Row
  <2>2. StateOf(r, FALSE) \notin {"active", "claimed"}
    BY <2>1 DEF StateOf
  <2> QED
    BY <1>1, <1>2, <1>4, <2>2 DEF Changes
<1> QED
  BY <1>3, <1>4

(* What the core-agent gives.                                              *)
LEMMA AgentEffect ==
    ASSUME IInv, NEW s \in Plugin, CoreAgentUpsert(s) \/ CoreAgentDelete(s)
    PROVE  \E r \in Row \cup {NoRow} : Changes(s, r, FALSE)
<1>1. CASE CoreAgentUpsert(s)
  <2>1. target[s] \in Packages[s]
    BY <1>1 DEF CoreAgentUpsert, IInv, RowInv
  <2>2. PICK r : r = [pkg |-> target[s], status |-> "NEW"]
    OBVIOUS
  <2>3. r \in Row /\ r # NoRow
    BY <2>1, <2>2, PluginReconcilerAssumption DEF Row
  <2>4. StateOf(r, FALSE) = "wanted"
    BY <2>2, <2>3 DEF StateOf
  <2> QED
    BY <1>1, <2>2, <2>3, <2>4 DEF CoreAgentUpsert, Changes
<1>2. CASE CoreAgentDelete(s)
  BY <1>2 DEF CoreAgentDelete, Changes, StateOf
<1> QED
  BY <1>1, <1>2

LEMMA RowEffect ==
    ASSUME IInv, ActivateInv, MarkAfterComplete, [ReconcilerNext]_vars
    PROVE  \/ UNCHANGED <<row, claimed>>
           \/ /\ venv' = venv
              /\ \E s \in Plugin, r \in Row \cup {NoRow}, c \in BOOLEAN : Changes(s, r, c)
<1> USE DEF diskVars, installVars, reconcilerVars, tableVars
<1>1. ASSUME NEW s \in Plugin, Activate(s)
      PROVE  \E r \in Row \cup {NoRow} : Changes(s, r, FALSE)
  <2>1. snap[s] # NoRow /\ s \in Present
    BY <1>1 DEF Activate, IInv, TickInv, Rows, ActivateInv, Present
  <2> QED
    BY <1>1, <2>1, SaveEffect DEF Activate
<1>2. CASE MarkInstalled
  <2>1. cur \in Plugin /\ snap[cur] # NoRow /\ cur \in Present
    BY <1>2 DEF MarkInstalled, InstallSucceeded, IInv, TickInv, Rows, ReconcilerTypeOK,
       MarkAfterComplete, Present
  <2>2. UNCHANGED <<row, claimed>> \/ SaveActive(cur)
    BY <1>2 DEF MarkInstalled
  <2>3. venv' = venv
    BY <1>2 DEF MarkInstalled, Exit
  <2>4. CASE SaveActive(cur)
    <3>1. \E r \in Row \cup {NoRow} : Changes(cur, r, FALSE)
      BY <2>1, <2>4, SaveEffect
    <3> QED
      BY <2>1, <2>3, <3>1
  <2> QED
    BY <2>2, <2>4
<1>3. ASSUME NEW s \in Plugin,
             Activate(s) \/ CoreAgentUpsert(s) \/ CoreAgentDelete(s) \/ ApiEdit(s)
      PROVE  /\ venv' = venv
             /\ \E r \in Row \cup {NoRow}, c \in BOOLEAN : Changes(s, r, c)
  <2>1. venv' = venv
    BY <1>3 DEF Activate, CoreAgentUpsert, CoreAgentDelete, ApiEdit
  <2> QED
    BY <1>1, <1>3, <2>1, ClientEffect, AgentEffect
<1>4. CASE \/ ReadRows \/ Classify \/ DiscoveryFails \/ ClassifyDone \/ InstallFailed
           \/ MarkRaises \/ InstallsDone \/ SignalWorkers \/ RestartDetached
           \/ VerifyTimer
           \/ \E s \in Plugin : \/ ActivateRaises(s) \/ InstallStart(s) \/ SpecRaises(s)
                                \/ ManifestEdit(s)
  BY <1>4 DEF ReadRows, Classify, DiscoveryFails, ClassifyDone, InstallFailed,
     MarkRaises, InstallsDone, SignalWorkers, RestartDetached, VerifyTimer,
     ActivateRaises, InstallStart, SpecRaises, ManifestEdit
<1>5. CASE ServicesRestart \/ GserviceCrash \/ RootReplace \/ GserviceStart
  BY <1>5 DEF ServicesRestart, GserviceCrash, RootReplace, GserviceStart
<1>6. CASE UNCHANGED reconcilerVars \/ UNCHANGED vars
  BY <1>6 DEF vars
<1> QED
  BY <1>2, <1>3, <1>4, <1>5, <1>6
  DEF ReconcilerNext, CoreAgent, Tick, ChildStep, Environment

-----------------------------------------------------------------------------
(* A row becomes active only while its plugin is installed, unless by the  *)
(* word of a client, and only a change of what is wanted takes it back:    *)
(* the reconciler implements the lifecycle, when a package registers one   *)
(* plugin, the same in all its releases.                                   *)
THEOREM ReconcilerKeepsLifecycle ==
    ASSUME SingleSpec, StableSlugs, PackagesProvide, OnePlugin
    PROVE  ReconcilerSpec => Lifecycle!Spec
<1> DEFINE State == [s \in Plugin |-> StateOf(row[s], s \in claimed)]
<1>1. ReconcilerInit => Lifecycle!Init
  <2> SUFFICES ASSUME ReconcilerInit PROVE Lifecycle!Init
    OBVIOUS
  <2>1. Discovered(venv) = {}
    BY NothingDiscovered DEF ReconcilerInit, Init
  <2> QED
    BY <2>1 DEF ReconcilerInit, NoRows, Lifecycle!Init
<1>2. ReconcilerInit => ActivateInv
  BY DEF ReconcilerInit, ActivateInv
<1>3. IInv /\ ActivateInv /\ [ReconcilerNext]_vars => ActivateInv'
  BY ActivateKept
<1>4. IInv /\ IInv' /\ ActivateInv /\ MarkAfterComplete /\ [ReconcilerNext]_vars
        => [Lifecycle!Next]_Lifecycle!lifecycleVars
  <2> SUFFICES ASSUME IInv, IInv', ActivateInv, MarkAfterComplete, [ReconcilerNext]_vars
               PROVE  [Lifecycle!Next]_Lifecycle!lifecycleVars
    OBVIOUS
  <2>1. CASE UNCHANGED <<row, claimed>>
    <3>1. UNCHANGED State
      BY <2>1
    <3>2. \/ Present' = Present
          \/ \E s \in Plugin \ Present : Present' = Present \cup {s}
          \/ \E s \in Present : Present' = Present \ {s}
          \/ Present' = {}
      BY PresentEffect DEF IInv
    <3> QED
      BY <3>1, <3>2 DEF StateOf, Present, Lifecycle!Next, Lifecycle!Install,
         Lifecycle!Remove, Lifecycle!LoseAll, Lifecycle!lifecycleVars
  <2>2. ASSUME NEW s \in Plugin, NEW r \in Row \cup {NoRow}, NEW c \in BOOLEAN,
               venv' = venv, Changes(s, r, c)
        PROVE  [Lifecycle!Next]_Lifecycle!lifecycleVars
    <3>1. State' = [State EXCEPT ![s] = StateOf(r, c)] /\ Present' = Present
      BY <2>2 DEF IInv, ReconcilerTypeOK, Present, Changes, StateOf
    <3>2. State[s] \in {"none", "wanted", "claimed", "active"}
      BY DEF StateOf
    <3>3. CASE StateOf(r, c) = State[s]
      <4>1. UNCHANGED State
        BY <3>1, <3>3
      <4> QED
        BY <3>1, <4>1 DEF StateOf, Present, Lifecycle!lifecycleVars
    <3>4. CASE StateOf(r, c) # State[s]
      <4>1. CASE StateOf(r, c) = "none"
        BY <3>1, <3>4, <4>1 DEF StateOf, Present, Lifecycle!Next, Lifecycle!Drop,
           Lifecycle!Becomes
      <4>2. CASE StateOf(r, c) = "wanted"
        BY <3>1, <3>4, <4>2 DEF StateOf, Present, Lifecycle!Next, Lifecycle!Want,
           Lifecycle!Becomes
      <4>3. CASE StateOf(r, c) = "claimed"
        <5>1. State[s] \in {"none", "wanted"}
          BY <2>2, <4>3 DEF Changes
        <5> QED
          BY <3>1, <4>3, <5>1 DEF StateOf, Present, Lifecycle!Next, Lifecycle!Claim,
             Lifecycle!Becomes
      <4>4. CASE StateOf(r, c) = "active"
        <5>1. State[s] \in {"wanted", "claimed"} /\ s \in Present
          BY <2>2, <3>4, <4>4 DEF StateOf, Changes
        <5>2. CASE State[s] = "wanted"
          BY <3>1, <4>4, <5>1, <5>2 DEF StateOf, Present, Lifecycle!Next,
             Lifecycle!Activate, Lifecycle!Becomes
        <5>3. CASE State[s] = "claimed"
          BY <3>1, <4>4, <5>1, <5>3 DEF StateOf, Present, Lifecycle!Next,
             Lifecycle!Confirm, Lifecycle!Becomes
        <5> QED
          BY <5>1, <5>2, <5>3
      <4> QED
        BY <4>1, <4>2, <4>3, <4>4 DEF StateOf
    <3> QED
      BY <3>3, <3>4
  <2> QED
    BY <2>1, <2>2, RowEffect
<1> QED
  BY <1>1, <1>2, <1>3, <1>4, ReconcilerInvariant, MarkIsComplete, PTL
  DEF ReconcilerSpec, Lifecycle!Spec
=============================================================================
