-------------------------- MODULE InstallPaasProofs --------------------------
(* Theorems about InstallPaas, for every set of distributions, plugins,    *)
(* command lines and runs.                                                 *)
EXTENDS InstallPaas, TLAPS

-----------------------------------------------------------------------------
(* Lemmas on the operators *)

(* What is discovered are slugs, in versions. *)
LEMMA DiscoveredType ==
    ASSUME NEW env
    PROVE  Discovered(env) \subseteq Slug /\ SlugVersions(env) \subseteq Slug \X Version
BY DEF Discovered, SlugVersions

(* A pip, whole or interrupted, turns an environment into an environment. *)
LEMMA PipType ==
    ASSUME NEW env \in Venv, NEW r
    PROVE  Resolutions(env, r) \subseteq Venv /\ Partial(env, r) \subseteq Venv
BY DEF Resolutions, Partial

LEMMA StopsAtType ==
    ASSUME TypeOK, NEW p \in Proc, NEW step \in Step, NEW lost \in BOOLEAN,
           StopsAt(p, step, lost)
    PROVE  venv' \in Venv /\ torn' \in BOOLEAN /\ pc' \in [Proc -> Step]
<1>1. venv' \in Venv
  BY PipType DEF TypeOK, StopsAt
<1>2. torn' \in BOOLEAN
  BY DEF TypeOK, StopsAt, Tears
<1>3. pc' \in [Proc -> Step]
  BY DEF TypeOK, StopsAt, Goto
<1> QED BY <1>1, <1>2, <1>3

-----------------------------------------------------------------------------
(* One step keeps every variable in its domain.                            *)
LEMMA TypeStep == ASSUME TypeOK, [Next]_installVars PROVE TypeOK'
<1> USE DEF diskVars, servingVars
<1>1. ASSUME NEW p \in Proc, NEW r \in Request, Start(p, r) PROVE TypeOK'
  BY <1>1 DEF Start, Goto, TypeOK, Step
<1>2. ASSUME NEW p \in Proc, DiscoverBefore(p) PROVE TypeOK'
  BY <1>2, DiscoveredType DEF DiscoverBefore, Goto, TypeOK, Step
<1>3. ASSUME NEW p \in Proc, PipInstall(p) PROVE TypeOK'
  BY <1>3, PipType DEF PipInstall, Goto, TypeOK, Step
<1>4. ASSUME NEW p \in Proc, DiscoverAfter(p) PROVE TypeOK'
  <2>1. Targets(before[p], Discovered(venv)) \subseteq Slug
    BY DiscoveredType DEF Targets
  <2> QED BY <1>4, <2>1 DEF DiscoverAfter, Goto, TypeOK, Step
<1>5. ASSUME NEW p \in Proc, ApplyMigration(p) PROVE TypeOK'
  <2>1. migrated' \subseteq Slug \X Version
    BY <1>5, DiscoveredType DEF ApplyMigration, TypeOK
  <2>2. todo' \in [Proc -> SUBSET Slug]
    BY <1>5 DEF ApplyMigration, TypeOK
  <2> QED BY <1>5, <2>1, <2>2 DEF ApplyMigration, TypeOK
<1>6. ASSUME NEW p \in Proc, RenderDiscover(p) PROVE TypeOK'
  BY <1>6, DiscoveredType DEF RenderDiscover, Goto, TypeOK, Step
<1>7. ASSUME NEW p \in Proc, RenderWrite(p) PROVE TypeOK'
  BY <1>7 DEF RenderWrite, Goto, TypeOK, Step
<1>8. ASSUME NEW p \in Proc, SignalUserApi(p) PROVE TypeOK'
  BY <1>8 DEF SignalUserApi, Goto, TypeOK, Step
<1>9. ASSUME NEW p \in Proc, RestartServices(p) PROVE TypeOK'
  <2>1. BuildersAtStart \subseteq Slug \X Version
    BY DiscoveredType DEF BuildersAtStart
  <2> QED BY <1>9, <2>1 DEF RestartServices, Goto, TypeOK, Step
<1>10. ASSUME NEW p \in Proc, StepRaises(p) PROVE TypeOK'
  BY <1>10, StopsAtType DEF StepRaises, TypeOK, Step
<1>11. ASSUME NEW p \in Proc, StepFails(p) PROVE TypeOK'
  <2>1. left' \in [DOMAIN Budget -> Nat]
    BY <1>11, InstallPaasAssumption DEF StepFails, Spend, TypeOK
  <2> QED BY <1>11, <2>1, StopsAtType DEF StepFails, TypeOK, Step
<1>12. ASSUME NEW p \in Proc, Exit(p) PROVE TypeOK'
  BY <1>12 DEF Exit, Goto, TypeOK, Step
<1>13. CASE UserApiRequest
  BY <1>13, DiscoveredType DEF UserApiRequest, runVars, TypeOK
<1>14. CASE UNCHANGED installVars
  BY <1>14 DEF installVars, runVars, TypeOK
<1> QED
  BY <1>1, <1>2, <1>3, <1>4, <1>5, <1>6, <1>7, <1>8, <1>9, <1>10, <1>11, <1>12,
     <1>13, <1>14 DEF Next, RunStep

(* Every variable of the install command and of what it leaves behind      *)
(* stays in its domain.                                                    *)
THEOREM TypeCorrect == Spec => []TypeOK
<1>1. Init => TypeOK
  <2> SUFFICES ASSUME Init PROVE TypeOK
    OBVIOUS
  <2>1. venv \in Venv
    BY DEF Init, NothingInstalled, Venv
  <2>2. req \in [Proc -> Request]
    <3>1. (CHOOSE r \in Request : TRUE) \in Request
      BY InstallPaasAssumption
    <3> QED BY <3>1 DEF Init
  <2>3. left \in [DOMAIN Budget -> Nat]
    BY InstallPaasAssumption DEF Init
  <2> QED BY <2>1, <2>2, <2>3 DEF Init, TypeOK, Step
<1> QED BY <1>1, TypeStep, PTL DEF Spec

-----------------------------------------------------------------------------
(* One run at a time                                                       *)

(* The setting of the remaining theorems: runs do not overlap.             *)
Solo == \A p, q \in Proc : p = q

(* Each command line has one spec. *)
SingleSpec == \A r \in Request : \E sp : r.specs = {sp}

(* Slugs of releases that run p did not ask for. *)
Unrequested(p) ==
    {s \in Slug : \E r \in Releases(venv) :
        s \in Provides[r] /\ \A sp \in req[p].specs : sp.dist # r[1]}

(* Why a run that exits 0 has migrated what it was asked for.  Before pip  *)
(* it knows the slugs; after pip, either the requested distribution was    *)
(* there already and nothing was added, or all its slugs are new; either   *)
(* way they are targets, and what has left todo is applied.                *)
MigrationInv(p) ==
    /\ pc[p] = "pip" => before[p] = Discovered(venv)
    /\ pc[p] = "after" =>
          before[p] = Discovered(venv) \/ before[p] \subseteq Unrequested(p)
    /\ pc[p] = "migrate" =>
          \A s \in Requested(p) \ todo[p] : Migrated(venv, migrated, s)
    /\ pc[p] \in {"write", "signal", "restart", "done"} =>
          \A s \in Requested(p) : Migrated(venv, migrated, s)

(* Why nothing stale is served when it exits 0: the environment does not   *)
(* change after the render has read it.                                    *)
ServingInv(p) ==
    /\ pc[p] = "write" => found[p] = Discovered(venv)
    /\ pc[p] \in {"write", "signal", "restart"} => DiscoverOk(venv)
    /\ pc[p] \in {"signal", "restart", "done"} => conf = Discovered(venv)
    /\ pc[p] \in {"signal", "restart"} => req[p].restart
    /\ (pc[p] = "restart" \/ (pc[p] = "done" /\ req[p].restart)) =>
          cache \in {NoCache, Discovered(venv)}
    /\ (pc[p] = "done" /\ req[p].restart) =>
          agent = conf /\ builders = SlugVersions(venv)

(* Why nothing is left to do between runs: what a run was not asked for    *)
(* was migrated before it, and what it was asked for is MigrationInv's.    *)
CoherenceInv(p) ==
    ~torn =>
        /\ pc[p] \in {"idle", "before", "pip", "failed"} =>
              /\ conf = Discovered(venv)
              /\ \A s \in Discovered(venv) : Migrated(venv, migrated, s)
        /\ pc[p] \in Step \ {"idle", "before", "pip", "failed"} =>
              \A s \in Discovered(venv) \ Requested(p) : Migrated(venv, migrated, s)

SoloInv == \A p \in Proc : MigrationInv(p) /\ ServingInv(p) /\ CoherenceInv(p)

-----------------------------------------------------------------------------
(* More lemmas *)

(* Replacing releases of the same distributions keeps the slugs.           *)
LEMMA StableDiscovered ==
    ASSUME StableSlugs, NEW env \in Venv, NEW new \in Venv,
           \A d \in Dist : env[d] = Absent <=> new[d] = Absent
    PROVE  Discovered(new) = Discovered(env)
<1>1. ASSUME NEW e \in Venv, NEW f \in Venv,
             \A d \in Dist : e[d] = Absent <=> f[d] = Absent,
             NEW s \in Discovered(e)
      PROVE  s \in Discovered(f)
  <2>1. PICK r \in Releases(e) : s \in Provides[r]
    BY <1>1 DEF Discovered
  <2>2. r = <<r[1], r[2]>> /\ r[1] \in Dist /\ r[2] \in Version /\ e[r[1]] = r[2]
    BY <2>1 DEF Releases
  <2>3. f[r[1]] \in Version
    BY <1>1, <2>2, RegistryAssumption DEF Venv
  <2>4. <<r[1], f[r[1]]>> \in Releases(f)
    BY <2>2, <2>3 DEF Releases
  <2>5. s \in Provides[<<r[1], f[r[1]]>>]
    BY <2>1, <2>2, <2>3 DEF StableSlugs
  <2> QED BY <1>1, <2>4, <2>5 DEF Discovered
<1>2. Discovered(env) \subseteq Discovered(new)
  BY <1>1
<1>3. \A d \in Dist : new[d] = Absent <=> env[d] = Absent
  OBVIOUS
<1>4. Discovered(new) \subseteq Discovered(env)
  BY <1>1, <1>3
<1> QED BY <1>2, <1>4

(* The requested slugs are among the discovered ones. *)
LEMMA RequestedDiscovered ==
    ASSUME NEW p \in Proc, TypeOK
    PROVE  Requested(p) \subseteq Discovered(venv)
<1> SUFFICES ASSUME NEW s \in Requested(p) PROVE s \in Discovered(venv)
  OBVIOUS
<1>1. PICK sp \in req[p].specs, v \in Version :
          venv[sp.dist] = v /\ s \in Provides[<<sp.dist, v>>]
  BY DEF Requested
<1>2. sp.dist \in Dist
  BY InstallPaasAssumption DEF TypeOK
<1>3. <<sp.dist, v>> \in Releases(venv)
  BY <1>1, <1>2 DEF Releases
<1> QED BY <1>1, <1>3 DEF Discovered, Requested

(* Applying more migrations leaves a migrated slug migrated. *)
LEMMA MigratedGrows ==
    ASSUME NEW env, NEW old, NEW new, old \subseteq new, NEW s, Migrated(env, old, s)
    PROVE  Migrated(env, new, s)
BY DEF Migrated

(* A release that pip was not asked for is untouched. *)
LEMMA PipKeepsOthers ==
    ASSUME TypeOK, NEW p \in Proc, PipInstall(p)
    PROVE  \A d \in Dist : (\A sp \in req[p].specs : sp.dist # d) => venv'[d] = venv[d]
BY DEF PipInstall, Resolutions

(* A distribution that pip was asked for is installed afterwards. *)
LEMMA PipInstalls ==
    ASSUME TypeOK, NEW p \in Proc, PipInstall(p), NEW sp \in req[p].specs
    PROVE  sp.dist \in Dist /\ venv'[sp.dist] \in Version
<1>1. sp.dist \in Dist /\ sp.pin \in Version \cup {Unpinned}
  BY InstallPaasAssumption DEF TypeOK
<1>2. PICK other \in req[p].specs :
          /\ other.dist = sp.dist
          /\ venv'[sp.dist] \in Choices(venv[sp.dist], other.pin, req[p].upgrade)
  BY <1>1 DEF PipInstall, Resolutions
<1>3. other.pin \in Version \cup {Unpinned}
  BY InstallPaasAssumption DEF TypeOK
<1>4. venv[sp.dist] \in Version \cup {Absent}
  BY <1>1 DEF TypeOK, Venv
<1>5. Choices(venv[sp.dist], other.pin, req[p].upgrade) \subseteq Version
  BY <1>3, <1>4 DEF Choices
<1> QED BY <1>1, <1>2, <1>5

(* A step that leaves the environment and the command line of p alone      *)
(* leaves alone what p asked for and what it did not.                      *)
LEMMA RequestFrame ==
    ASSUME NEW p \in Proc, venv' = venv, req'[p] = req[p]
    PROVE  Requested(p)' = Requested(p) /\ Unrequested(p)' = Unrequested(p)
BY DEF Requested, Unrequested

-----------------------------------------------------------------------------
(* The inductive step, for the actions that disturb it                     *)

(* pip: what was discovered before is still what is discovered, or it      *)
(* belongs to releases that were not asked for.                            *)
LEMMA PipMigration ==
    ASSUME SingleSpec, StableSlugs, TypeOK, NEW p \in Proc, MigrationInv(p),
           PipInstall(p)
    PROVE  MigrationInv(p)'
<1>1. PICK sp : req[p].specs = {sp}
  BY DEF SingleSpec, TypeOK
<1>2. venv' \in Venv /\ req' = req /\ before' = before /\ before[p] = Discovered(venv)
  BY PipType DEF PipInstall, MigrationInv, TypeOK
<1>3. sp.dist \in Dist /\ venv'[sp.dist] \in Version
  BY <1>1, PipInstalls
<1>4. \A d \in Dist \ {sp.dist} : venv'[d] = venv[d]
  BY <1>1, PipKeepsOthers
<1>5. CASE venv[sp.dist] = Absent
  <2>1. Discovered(venv) \subseteq Unrequested(p)'
    <3> SUFFICES ASSUME NEW s \in Discovered(venv) PROVE s \in Unrequested(p)'
      OBVIOUS
    <3>1. PICK r \in Releases(venv) : s \in Provides[r]
      BY DEF Discovered
    <3>2. r \in Dist \X Version /\ venv[r[1]] = r[2]
      BY <3>1 DEF Releases
    <3>3. r[1] # sp.dist
      BY <1>5, <3>2, RegistryAssumption
    <3>4. r \in Releases(venv')
      BY <1>4, <3>2, <3>3 DEF Releases
    <3> QED BY <1>1, <1>2, <3>1, <3>3, <3>4 DEF Unrequested, Discovered
  <2> QED BY <1>2, <2>1 DEF PipInstall, Goto, MigrationInv, TypeOK
<1>6. CASE venv[sp.dist] # Absent
  <2>1. \A d \in Dist : venv[d] = Absent <=> venv'[d] = Absent
    BY <1>3, <1>4, <1>6, RegistryAssumption
  <2>2. Discovered(venv') = Discovered(venv)
    BY <1>2, <2>1, StableDiscovered DEF TypeOK
  <2> QED BY <1>2, <2>2 DEF PipInstall, Goto, MigrationInv, TypeOK
<1> QED BY <1>5, <1>6

(* The second discovery: every requested slug becomes a target.            *)
LEMMA DiscoverAfterMigration ==
    ASSUME TypeOK, NEW p \in Proc, MigrationInv(p), DiscoverAfter(p)
    PROVE  MigrationInv(p)'
<1>1. /\ pc[p] = "after" /\ pc'[p] = "migrate" /\ venv' = venv /\ req' = req
      /\ migrated' = migrated /\ todo'[p] = Targets(before[p], Discovered(venv))
  BY DEF DiscoverAfter, Goto, diskVars, TypeOK
<1>2. ASSUME NEW s \in Requested(p), s \notin todo'[p]
      PROVE  Migrated(venv, migrated, s)
  <2>1. s \in Discovered(venv)
    BY <1>2, RequestedDiscovered
  <2>2. CASE s \notin Migrating
    BY <2>2 DEF Migrated
  <2>3. CASE s \in Migrating
    <3>1. Discovered(venv) \ before[p] # {} /\ s \in before[p]
      BY <1>1, <1>2, <2>1, <2>3 DEF Targets
    <3>2. before[p] \subseteq Unrequested(p)
      BY <1>1, <3>1 DEF MigrationInv
    <3>3. PICK r \in Releases(venv) :
              s \in Provides[r] /\ \A sp \in req[p].specs : sp.dist # r[1]
      BY <3>1, <3>2 DEF Unrequested
    <3>4. PICK sp \in req[p].specs, v \in Version :
              venv[sp.dist] = v /\ s \in Provides[<<sp.dist, v>>]
      BY <1>2 DEF Requested
    <3>5. sp.dist \in Dist
      BY InstallPaasAssumption DEF TypeOK
    <3>6. <<sp.dist, v>> \in Releases(venv) /\ <<sp.dist, v>> # r
      BY <3>3, <3>4, <3>5 DEF Releases
    <3>7. NoDuplicates(venv)
      BY DEF DiscoverAfter, DiscoverOk
    <3>8. Provides[r] \cap Provides[<<sp.dist, v>>] = {}
      BY <3>6, <3>7 DEF NoDuplicates
    <3> QED BY <3>3, <3>4, <3>8
  <2> QED BY <2>2, <2>3
<1>3. Requested(p)' = Requested(p)
  BY <1>1, RequestFrame
<1> QED BY <1>1, <1>2, <1>3 DEF MigrationInv

(* A migration that is applied covers its slug, and undoes no other.       *)
LEMMA ApplyMigrationMigration ==
    ASSUME TypeOK, NEW p \in Proc, MigrationInv(p), ApplyMigration(p)
    PROVE  MigrationInv(p)'
<1>1. PICK s \in todo[p] \cap Discovered(venv) :
          /\ migrated' = migrated \cup {sv \in SlugVersions(venv) : sv[1] = s}
          /\ todo' = [todo EXCEPT ![p] = @ \ {s}]
  BY DEF ApplyMigration
<1>2. pc[p] = "migrate" /\ pc' = pc /\ venv' = venv /\ req' = req
  BY DEF ApplyMigration
<1>3. todo'[p] = todo[p] \ {s} /\ migrated \subseteq migrated'
  BY <1>1 DEF TypeOK
<1>4. ASSUME NEW t \in Requested(p) \ todo'[p] PROVE Migrated(venv, migrated', t)
  <2>1. CASE t \in todo[p]
    BY <1>1, <1>3, <1>4, <2>1 DEF Migrated
  <2>2. CASE t \notin todo[p]
    BY <1>2, <1>3, <1>4, <2>2, MigratedGrows DEF MigrationInv
  <2> QED BY <2>1, <2>2
<1>5. Requested(p)' = Requested(p)
  BY <1>2, RequestFrame
<1> QED BY <1>2, <1>4, <1>5 DEF MigrationInv

(* pip: a slug that was not asked for is in the version it was.            *)
LEMMA PipCoherence ==
    ASSUME SingleSpec, TypeOK, NEW p \in Proc, CoherenceInv(p), PipInstall(p)
    PROVE  CoherenceInv(p)'
<1>1. PICK sp : req[p].specs = {sp}
  BY DEF SingleSpec, TypeOK
<1>2. /\ pc[p] = "pip" /\ pc'[p] = "after" /\ req' = req
      /\ torn' = torn /\ migrated' = migrated
  BY DEF PipInstall, Goto, TypeOK
<1>3. sp.dist \in Dist /\ venv'[sp.dist] \in Version
  BY <1>1, PipInstalls
<1>4. \A d \in Dist \ {sp.dist} : venv'[d] = venv[d]
  BY <1>1, PipKeepsOthers
<1>5. ASSUME ~torn, NEW s \in Discovered(venv'), s \notin Requested(p)',
             NEW sv \in SlugVersions(venv'), sv[1] = s, s \in Migrating
      PROVE  sv \in migrated
  <2>1. PICK d \in Dist : venv'[d] = sv[2] /\ s \in Provides[<<d, sv[2]>>]
    BY <1>5 DEF SlugVersions
  <2>2. sv \in Slug \X Version
    BY <1>5 DEF SlugVersions
  <2>3. d # sp.dist
    BY <1>1, <1>2, <1>5, <2>1, <2>2 DEF Requested
  <2>4. venv[d] = sv[2]
    BY <1>4, <2>1, <2>3
  <2>5. sv \in SlugVersions(venv)
    BY <1>5, <2>1, <2>2, <2>4 DEF SlugVersions
  <2>6. <<d, sv[2]>> \in Releases(venv)
    BY <2>2, <2>4 DEF Releases
  <2>7. s \in Discovered(venv)
    BY <2>1, <2>2, <2>6, <1>5 DEF Discovered
  <2> QED BY <1>2, <1>5, <2>5, <2>7 DEF CoherenceInv, Migrated
<1>6. ~torn => \A s \in Discovered(venv') \ Requested(p)' : Migrated(venv', migrated, s)
  BY <1>5 DEF Migrated
<1> QED BY <1>2, <1>6 DEF CoherenceInv

-----------------------------------------------------------------------------
(* Every step of the only run preserves the invariant.                     *)
LEMMA SoloStep ==
    ASSUME SingleSpec, StableSlugs, TypeOK, NEW p \in Proc,
           MigrationInv(p), ServingInv(p), CoherenceInv(p),
           (\E r \in Request : Start(p, r)) \/ RunStep(p) \/ Exit(p)
    PROVE  MigrationInv(p)' /\ ServingInv(p)' /\ CoherenceInv(p)'
<1> USE DEF diskVars, servingVars, TypeOK, Goto
<1>1. ASSUME NEW r \in Request, Start(p, r)
      PROVE  MigrationInv(p)' /\ ServingInv(p)' /\ CoherenceInv(p)'
  <2>1. pc[p] = "idle" /\ pc'[p] = "before" /\ UNCHANGED <<venv, migrated, conf, torn>>
    BY <1>1 DEF Start
  <2>2. MigrationInv(p)' /\ ServingInv(p)'
    BY <2>1 DEF MigrationInv, ServingInv
  <2>3. CoherenceInv(p)'
    BY <2>1 DEF CoherenceInv
  <2> QED BY <2>2, <2>3
<1>2. ASSUME DiscoverBefore(p)
      PROVE  MigrationInv(p)' /\ ServingInv(p)' /\ CoherenceInv(p)'
  <2>1. /\ pc[p] = "before" /\ pc'[p] = "pip" /\ before'[p] = Discovered(venv)
        /\ UNCHANGED <<venv, migrated, conf, torn>>
    BY <1>2 DEF DiscoverBefore
  <2>2. MigrationInv(p)' /\ ServingInv(p)'
    BY <2>1 DEF MigrationInv, ServingInv
  <2>3. CoherenceInv(p)'
    BY <2>1 DEF CoherenceInv
  <2> QED BY <2>2, <2>3
<1>3. ASSUME PipInstall(p)
      PROVE  MigrationInv(p)' /\ ServingInv(p)' /\ CoherenceInv(p)'
  <2>1. pc'[p] = "after"
    BY <1>3 DEF PipInstall
  <2>2. ServingInv(p)'
    BY <2>1 DEF ServingInv
  <2> QED BY <1>3, <2>2, PipMigration, PipCoherence
<1>4. ASSUME DiscoverAfter(p)
      PROVE  MigrationInv(p)' /\ ServingInv(p)' /\ CoherenceInv(p)'
  <2>1. /\ pc[p] = "after" /\ pc'[p] = "migrate"
        /\ UNCHANGED <<venv, migrated, conf, req, torn>>
    BY <1>4 DEF DiscoverAfter
  <2>2. ServingInv(p)'
    BY <2>1 DEF ServingInv
  <2>3. Requested(p)' = Requested(p)
    BY <2>1, RequestFrame
  <2>4. CoherenceInv(p)'
    BY <2>1, <2>3 DEF CoherenceInv, Step
  <2> QED BY <1>4, <2>2, <2>4, DiscoverAfterMigration
<1>5. ASSUME ApplyMigration(p)
      PROVE  MigrationInv(p)' /\ ServingInv(p)' /\ CoherenceInv(p)'
  <2>1. pc[p] = "migrate" /\ UNCHANGED <<venv, conf, pc, req, torn>>
    BY <1>5 DEF ApplyMigration
  <2>2. ServingInv(p)'
    BY <2>1 DEF ServingInv
  <2>3. Requested(p)' = Requested(p) /\ migrated \subseteq migrated'
    BY <1>5, <2>1, RequestFrame DEF ApplyMigration
  <2>4. CoherenceInv(p)'
    BY <2>1, <2>3, MigratedGrows DEF CoherenceInv, Step
  <2> QED BY <1>5, <2>2, <2>4, ApplyMigrationMigration
<1>6. ASSUME RenderDiscover(p)
      PROVE  MigrationInv(p)' /\ ServingInv(p)' /\ CoherenceInv(p)'
  <2>1. /\ pc[p] = "migrate" /\ pc'[p] = "write" /\ todo[p] = {} /\ DiscoverOk(venv)
        /\ found'[p] = Discovered(venv) /\ UNCHANGED <<venv, migrated, conf, req, torn>>
    BY <1>6 DEF RenderDiscover
  <2>2. Requested(p)' = Requested(p)
    BY <2>1, RequestFrame
  <2>3. MigrationInv(p)'
    BY <2>1, <2>2 DEF MigrationInv
  <2>4. ServingInv(p)'
    BY <2>1 DEF ServingInv
  <2>5. CoherenceInv(p)'
    BY <2>1, <2>2 DEF CoherenceInv, Step
  <2> QED BY <2>3, <2>4, <2>5
<1>7. ASSUME RenderWrite(p)
      PROVE  MigrationInv(p)' /\ ServingInv(p)' /\ CoherenceInv(p)'
  <2>1. /\ pc[p] = "write" /\ pc'[p] = IF req[p].restart THEN "signal" ELSE "done"
        /\ conf' = found[p] /\ UNCHANGED <<venv, migrated, req, torn>>
    BY <1>7 DEF RenderWrite
  <2>2. Requested(p)' = Requested(p)
    BY <2>1, RequestFrame
  <2>3. MigrationInv(p)'
    BY <2>1, <2>2 DEF MigrationInv
  <2>4. ServingInv(p)'
    BY <2>1 DEF ServingInv
  <2>5. CoherenceInv(p)'
    BY <2>1, <2>2 DEF CoherenceInv, Step
  <2> QED BY <2>3, <2>4, <2>5
<1>8. ASSUME SignalUserApi(p)
      PROVE  MigrationInv(p)' /\ ServingInv(p)' /\ CoherenceInv(p)'
  <2>1. /\ pc[p] = "signal" /\ pc'[p] = "restart" /\ cache' = NoCache
        /\ UNCHANGED <<venv, migrated, conf, req, torn>>
    BY <1>8 DEF SignalUserApi
  <2>2. Requested(p)' = Requested(p)
    BY <2>1, RequestFrame
  <2>3. MigrationInv(p)'
    BY <2>1, <2>2 DEF MigrationInv
  <2>4. ServingInv(p)'
    BY <2>1 DEF ServingInv
  <2>5. CoherenceInv(p)'
    BY <2>1, <2>2 DEF CoherenceInv, Step
  <2> QED BY <2>3, <2>4, <2>5
<1>9. ASSUME RestartServices(p)
      PROVE  MigrationInv(p)' /\ ServingInv(p)' /\ CoherenceInv(p)'
  <2>1. /\ pc[p] = "restart" /\ pc'[p] = "done"
        /\ agent' = conf /\ builders' = BuildersAtStart
        /\ UNCHANGED <<venv, migrated, conf, cache, req, torn>>
    BY <1>9 DEF RestartServices
  <2>2. Requested(p)' = Requested(p)
    BY <2>1, RequestFrame
  <2>3. MigrationInv(p)'
    BY <2>1, <2>2 DEF MigrationInv
  <2>4. builders' = SlugVersions(venv)
    BY <2>1 DEF ServingInv, BuildersAtStart
  <2>5. ServingInv(p)'
    BY <2>1, <2>4 DEF ServingInv
  <2>6. CoherenceInv(p)'
    BY <2>1, <2>2 DEF CoherenceInv, Step
  <2> QED BY <2>3, <2>5, <2>6
<1>10. ASSUME StepRaises(p) \/ StepFails(p)
       PROVE  MigrationInv(p)' /\ ServingInv(p)' /\ CoherenceInv(p)'
  <2>1. /\ pc'[p] = "failed" /\ UNCHANGED <<migrated, conf, req>>
        /\ pc[p] \in Running
        /\ torn' = (torn \/ Tears(pc[p]))
    BY <1>10 DEF StepRaises, StepFails, StopsAt, Running, Step
  <2>2. MigrationInv(p)' /\ ServingInv(p)'
    BY <2>1 DEF MigrationInv, ServingInv
  <2>3. CoherenceInv(p)'
    <3> SUFFICES ASSUME ~torn' PROVE CoherenceInv(p)'
      BY DEF CoherenceInv
    <3>1. ~torn /\ venv' = venv /\ pc[p] \in {"before", "pip"}
      BY <2>1 DEF Tears, Running, Step
    <3> QED BY <2>1, <3>1 DEF CoherenceInv
  <2> QED BY <2>2, <2>3
<1>11. ASSUME Exit(p)
       PROVE  MigrationInv(p)' /\ ServingInv(p)' /\ CoherenceInv(p)'
  <2>1. /\ pc[p] \in {"done", "failed"} /\ pc'[p] = "idle"
        /\ UNCHANGED <<venv, migrated, conf, torn>>
    BY <1>11 DEF Exit
  <2>2. MigrationInv(p)' /\ ServingInv(p)'
    BY <2>1 DEF MigrationInv, ServingInv
  <2>3. ~torn => conf = Discovered(venv)
    BY <2>1 DEF ServingInv, CoherenceInv
  <2>4. ~torn => \A s \in Discovered(venv) : Migrated(venv, migrated, s)
    BY <2>1 DEF MigrationInv, CoherenceInv, Step
  <2>5. CoherenceInv(p)'
    BY <2>1, <2>3, <2>4 DEF CoherenceInv
  <2> QED BY <2>2, <2>5
<1> QED
  BY <1>1, <1>2, <1>3, <1>4, <1>5, <1>6, <1>7, <1>8, <1>9, <1>10, <1>11 DEF RunStep

(* The invariant holds throughout, when runs do not overlap, each asks for *)
(* one spec, and a package registers the same slugs in all its versions.   *)
LEMMA SoloInvariant ==
    ASSUME Solo, SingleSpec, StableSlugs
    PROVE  Spec => []SoloInv
<1>1. Init => SoloInv
  <2> SUFFICES ASSUME Init, NEW p \in Proc
               PROVE  MigrationInv(p) /\ ServingInv(p) /\ CoherenceInv(p)
    BY DEF SoloInv
  <2>1. pc[p] = "idle" /\ conf = {} /\ venv = NothingInstalled
    BY DEF Init
  <2>2. Discovered(venv) = {}
    BY <2>1, RegistryAssumption DEF Discovered, Releases, NothingInstalled
  <2> QED BY <2>1, <2>2 DEF MigrationInv, ServingInv, CoherenceInv, Step
<1>2. TypeOK /\ SoloInv /\ [Next]_installVars => SoloInv'
  <2> SUFFICES ASSUME TypeOK, SoloInv, [Next]_installVars, NEW p \in Proc
               PROVE  MigrationInv(p)' /\ ServingInv(p)' /\ CoherenceInv(p)'
    BY DEF SoloInv
  <2>1. MigrationInv(p) /\ ServingInv(p) /\ CoherenceInv(p)
    BY DEF SoloInv
  <2>2. CASE \E q \in Proc : (\E r \in Request : Start(q, r)) \/ RunStep(q) \/ Exit(q)
    <3>1. (\E r \in Request : Start(p, r)) \/ RunStep(p) \/ Exit(p)
      BY <2>2 DEF Solo
    <3> QED BY <2>1, <3>1, SoloStep
  <2>3. CASE UserApiRequest \/ UNCHANGED installVars
    <3>1. /\ UNCHANGED <<diskVars, runVars, agent, builders, torn>>
          /\ cache' \in {cache, Discovered(venv)}
      BY <2>3 DEF UserApiRequest, installVars, servingVars
    <3>2. Requested(p)' = Requested(p) /\ Unrequested(p)' = Unrequested(p)
      BY <3>1, RequestFrame DEF diskVars, runVars
    <3>3. MigrationInv(p)'
      BY <2>1, <3>1, <3>2 DEF MigrationInv, diskVars, runVars
    <3>4. ServingInv(p)'
      BY <2>1, <3>1 DEF ServingInv, diskVars, runVars
    <3>5. CoherenceInv(p)'
      BY <2>1, <3>1, <3>2 DEF CoherenceInv, diskVars, runVars
    <3> QED BY <3>3, <3>4, <3>5
  <2> QED BY <2>2, <2>3 DEF Next
<1> QED BY <1>1, <1>2, TypeCorrect, PTL DEF Spec

-----------------------------------------------------------------------------
(* The install command, run by one process at a time with one spec, never  *)
(* exits 0 with a requested plugin whose migrations were not applied: the  *)
(* choice of targets in main() is right for a package whose releases       *)
(* register the same slugs, also after runs that failed half-way.          *)
THEOREM SoloMigrates ==
    ASSUME Solo, SingleSpec, StableSlugs
    PROVE  Spec => []MigratedOnExit
<1>1. SoloInv => MigratedOnExit
  BY DEF SoloInv, MigrationInv, MigratedOnExit
<1> QED BY <1>1, SoloInvariant, PTL

(* Nor with a requested plugin missing from core_agent.conf, or, unless    *)
(* --no-restart, with a service left on the plugins of before.             *)
THEOREM SoloServes ==
    ASSUME Solo, SingleSpec, StableSlugs
    PROVE  Spec => []ServedOnExit
<1>1. TypeOK /\ SoloInv => ServedOnExit
  <2> SUFFICES ASSUME TypeOK, SoloInv, NEW p \in Proc, pc[p] = "done"
               PROVE  /\ Requested(p) \subseteq conf
                      /\ req[p].restart => /\ agent = conf
                                           /\ builders = SlugVersions(venv)
                                           /\ cache \in {NoCache, Discovered(venv)}
    BY DEF ServedOnExit
  <2>1. ServingInv(p)
    BY DEF SoloInv
  <2>2. conf = Discovered(venv)
    BY <2>1 DEF ServingInv
  <2> QED BY <2>1, <2>2, RequestedDiscovered DEF ServingInv
<1> QED BY <1>1, SoloInvariant, TypeCorrect, PTL

(* And as long as no run has stopped after its pip, whatever was installed *)
(* is migrated and rendered whenever none is under way.                    *)
THEOREM SoloCoheres ==
    ASSUME Solo, SingleSpec, StableSlugs, Proc # {}
    PROVE  Spec => []CoherentBetweenRuns
<1>1. SoloInv => CoherentBetweenRuns
  BY DEF SoloInv, CoherenceInv, CoherentBetweenRuns
<1> QED BY <1>1, SoloInvariant, PTL

-----------------------------------------------------------------------------
(* Two runs at a time                                                      *)

(* At most two runs overlap: the reconciler's child and an operator's.     *)
AtMostTwo == \A p, q, r \in Proc : p = q \/ q = r \/ p = r

(* No command line replaces a release that one of them has installed: the  *)
(* specs of a distribution resolve to what is there.                       *)
FirstInstalls ==
    \A r1, r2 \in Request : \A a \in r1.specs, b \in r2.specs :
        a.dist = b.dist =>
            \A v \in Choices(Absent, a.pin, r1.upgrade) : Choices(v, b.pin, r2.upgrade) = {v}

(* Whatever is installed is what some command line asks for.               *)
AskedInv ==
    \A d \in Dist : venv[d] # Absent =>
        \E r \in Request : \E a \in r.specs :
            a.dist = d /\ venv[d] \in Choices(Absent, a.pin, r.upgrade)

(* Run q will apply the migrations of s.                                   *)
Owes(q, s) ==
    \/ pc[q] = "after" /\ s \notin before[q]
    \/ pc[q] = "migrate" /\ s \in todo[q]

(* No plugin is forgotten between the runs.                                *)
OwedInv ==
    \A s \in Discovered(venv) : Migrated(venv, migrated, s) \/ \E q \in Proc : Owes(q, s)

(* What run p knows of the plugins it was asked for.  One that was there   *)
(* before its pip and is not migrated belongs to the other run, which has  *)
(* its pip behind it: so nothing was added since, all plugins are targets. *)
KnownInv(p) ==
    /\ pc[p] \in {"pip", "after"} =>
          /\ before[p] \subseteq Discovered(venv)
          /\ \A s \in before[p] \cap Requested(p) :
                Migrated(venv, migrated, s) \/ before[p] = Discovered(venv)
    /\ pc[p] \in {"after", "migrate", "write", "signal", "restart", "done"} =>
          \A sp \in req[p].specs : venv[sp.dist] # Absent
    /\ pc[p] = "migrate" =>
          \A s \in Requested(p) \ todo[p] : Migrated(venv, migrated, s)
    /\ pc[p] \in {"write", "signal", "restart", "done"} =>
          \A s \in Requested(p) : Migrated(venv, migrated, s)

SharedInv == OwedInv /\ \A p \in Proc : KnownInv(p)

OverlapInv == ~torn => AskedInv /\ (NoDuplicates(venv) => SharedInv)

-----------------------------------------------------------------------------
(* An environment that another one only adds to.                           *)
Grows(old, new) == \A d \in Dist : old[d] # Absent => new[d] = old[d]

(* As long as no slug is registered twice, what was added has new slugs,   *)
(* so it changes nothing of those that were there.                         *)
LEMMA GrowthKeeps ==
    ASSUME NEW old \in Venv, NEW new \in Venv, Grows(old, new), NoDuplicates(new)
    PROVE  /\ NoDuplicates(old)
           /\ Discovered(old) \subseteq Discovered(new)
           /\ \A s \in Discovered(old), d \in Dist, v \in Version :
                 new[d] = v /\ s \in Provides[<<d, v>>] => old[d] = v
           /\ \A s \in Discovered(old) : \A applied :
                 Migrated(old, applied, s) => Migrated(new, applied, s)
<1>1. Releases(old) \subseteq Releases(new)
  BY RegistryAssumption DEF Releases, Grows
<1>2. NoDuplicates(old) /\ Discovered(old) \subseteq Discovered(new)
  BY <1>1 DEF NoDuplicates, Discovered
<1>3. ASSUME NEW s \in Discovered(old), NEW d \in Dist, NEW v \in Version,
             new[d] = v, s \in Provides[<<d, v>>]
      PROVE  old[d] = v
  <2>1. PICK r \in Releases(old) : s \in Provides[r]
    BY DEF Discovered
  <2>2. <<d, v>> \in Releases(new) /\ r \in Releases(new)
    BY <1>1, <1>3 DEF Releases
  <2>3. r = <<d, v>>
    BY <1>3, <2>1, <2>2 DEF NoDuplicates
  <2> QED BY <2>3 DEF Releases
<1>4. ASSUME NEW s \in Discovered(old), NEW applied, Migrated(old, applied, s)
      PROVE  Migrated(new, applied, s)
  <2> SUFFICES ASSUME s \in Migrating, NEW sv \in SlugVersions(new), sv[1] = s
               PROVE  sv \in applied
    BY DEF Migrated
  <2>1. sv \in Slug \X Version
    BY DEF SlugVersions
  <2>2. PICK d \in Dist : new[d] = sv[2] /\ sv[1] \in Provides[<<d, sv[2]>>]
    BY DEF SlugVersions
  <2>3. old[d] = sv[2]
    BY <1>3, <2>1, <2>2
  <2>4. sv \in SlugVersions(old)
    BY <2>1, <2>2, <2>3 DEF SlugVersions
  <2> QED BY <1>4, <2>4 DEF Migrated
<1> QED BY <1>2, <1>3, <1>4

(* A release that a command line has installed stays with any other one.   *)
LEMMA FirstInstallStays ==
    ASSUME FirstInstalls, NEW r1 \in Request, NEW r2 \in Request,
           NEW a \in r1.specs, NEW b \in r2.specs, a.dist = b.dist,
           NEW v \in Choices(Absent, a.pin, r1.upgrade)
    PROVE  Choices(v, b.pin, r2.upgrade) = {v}
BY DEF FirstInstalls

(* pip installs the one distribution that it was asked for, if it is not   *)
(* there, and leaves the others alone.                                     *)
LEMMA PipAdds ==
    ASSUME SingleSpec, FirstInstalls, TypeOK, AskedInv, NEW p \in Proc, PipInstall(p)
    PROVE  /\ AskedInv' /\ Grows(venv, venv') /\ venv' \in Venv
           /\ \A sp \in req[p].specs :
                 sp.dist \in Dist /\ venv'[sp.dist] \in Version
                 /\ (venv[sp.dist] # Absent => venv' = venv)
<1>1. PICK sp : req[p].specs = {sp}
  BY DEF SingleSpec, TypeOK
<1>2. venv' \in Venv /\ req[p] \in Request
  BY PipType DEF PipInstall, TypeOK
<1>3. sp.dist \in Dist /\ venv'[sp.dist] \in Version
  BY <1>1, PipInstalls
<1>4. \A d \in Dist \ {sp.dist} : venv'[d] = venv[d]
  BY <1>1, PipKeepsOthers
<1>5. venv'[sp.dist] \in Choices(venv[sp.dist], sp.pin, req[p].upgrade)
  BY <1>1, <1>3 DEF PipInstall, Resolutions
<1>6. CASE venv[sp.dist] = Absent
  <2>1. AskedInv'
    BY <1>1, <1>2, <1>4, <1>5, <1>6 DEF AskedInv
  <2> QED BY <1>1, <1>2, <1>3, <1>4, <1>6, <2>1 DEF Grows
<1>7. CASE venv[sp.dist] # Absent
  <2>1. PICK r \in Request : \E a \in r.specs :
            a.dist = sp.dist /\ venv[sp.dist] \in Choices(Absent, a.pin, r.upgrade)
    BY <1>3, <1>7 DEF AskedInv
  <2>2. Choices(venv[sp.dist], sp.pin, req[p].upgrade) = {venv[sp.dist]}
    <3>1. PICK a \in r.specs :
              a.dist = sp.dist /\ venv[sp.dist] \in Choices(Absent, a.pin, r.upgrade)
      BY <2>1
    <3>2. sp \in req[p].specs /\ a.dist = sp.dist
      BY <1>1, <3>1
    <3>3. \A cmd \in Request : sp \in cmd.specs =>
              Choices(venv[sp.dist], sp.pin, cmd.upgrade) = {venv[sp.dist]}
      BY <3>1, FirstInstallStays
    <3> QED BY <1>2, <3>2, <3>3
  <2>3. \A d \in Dist : venv'[d] = venv[d]
    BY <1>4, <1>5, <2>2
  <2>4. venv' = venv
    BY <1>2, <2>3 DEF TypeOK, Venv
  <2>5. AskedInv' /\ Grows(venv, venv')
    BY <2>4 DEF AskedInv, Grows
  <2> QED BY <1>1, <1>2, <1>3, <2>4, <2>5
<1> QED BY <1>6, <1>7

(* What a step does to the environment, unless it tears the runtime.       *)
LEMMA EnvStep ==
    ASSUME SingleSpec, FirstInstalls, TypeOK, AskedInv, [Next]_installVars, ~torn'
    PROVE  /\ ~torn /\ AskedInv' /\ Grows(venv, venv') /\ migrated \subseteq migrated'
           /\ venv' = venv \/ \E p \in Proc : PipInstall(p)
<1> USE DEF diskVars, servingVars, runVars
<1>1. ASSUME NEW p \in Proc, PipInstall(p)
      PROVE  ~torn /\ AskedInv' /\ Grows(venv, venv') /\ migrated \subseteq migrated'
  <2>1. torn' = torn /\ migrated' = migrated
    BY <1>1 DEF PipInstall
  <2> QED BY <1>1, <2>1, PipAdds
<1>2. ASSUME venv' = venv PROVE AskedInv' /\ Grows(venv, venv')
  BY <1>2 DEF AskedInv, Grows
<1>3. ASSUME NEW p \in Proc, RunStep(p), ~PipInstall(p)
      PROVE  ~torn /\ venv' = venv /\ migrated \subseteq migrated'
  <2>1. CASE StepRaises(p) \/ StepFails(p)
    BY <2>1 DEF StepRaises, StepFails, StopsAt, Tears
  <2>2. CASE ~(StepRaises(p) \/ StepFails(p))
    BY <1>3, <2>2 DEF RunStep, DiscoverBefore, DiscoverAfter, ApplyMigration,
       RenderDiscover, RenderWrite, SignalUserApi, RestartServices
  <2> QED BY <2>1, <2>2
<1>4. ASSUME \/ UserApiRequest \/ UNCHANGED installVars
             \/ \E p \in Proc : (\E r \in Request : Start(p, r)) \/ Exit(p)
      PROVE  ~torn /\ venv' = venv /\ migrated' = migrated
  BY <1>4 DEF UserApiRequest, Start, Exit, installVars
<1> QED BY <1>1, <1>2, <1>3, <1>4 DEF Next

(* What run p asked for of what was there before is what it asks for now.  *)
LEMMA RequestedBefore ==
    ASSUME TypeOK, venv' \in Venv, Grows(venv, venv'), NoDuplicates(venv'),
           NEW p \in Proc, req'[p] = req[p]
    PROVE  Requested(p)' \cap Discovered(venv) \subseteq Requested(p)
<1> SUFFICES ASSUME NEW s \in Requested(p)', s \in Discovered(venv)
             PROVE  s \in Requested(p)
  OBVIOUS
<1>1. PICK sp \in req[p].specs : \E v \in Version :
          venv'[sp.dist] = v /\ s \in Provides[<<sp.dist, v>>]
  BY DEF Requested
<1>2. PICK v \in Version : venv'[sp.dist] = v /\ s \in Provides[<<sp.dist, v>>]
  BY <1>1
<1>3. sp.dist \in Dist
  BY InstallPaasAssumption DEF TypeOK
<1>4. venv[sp.dist] = v
  BY <1>2, <1>3, GrowthKeeps DEF TypeOK
<1>5. s \in Slug
  BY DEF Discovered
<1> QED BY <1>2, <1>4, <1>5 DEF Requested

(* And what it asked for stays the same once it is installed.              *)
LEMMA RequestedStays ==
    ASSUME TypeOK, Grows(venv, venv'), NEW p \in Proc, req'[p] = req[p],
           \A sp \in req[p].specs : venv[sp.dist] # Absent
    PROVE  Requested(p)' = Requested(p)
<1>1. \A sp \in req[p].specs : venv'[sp.dist] = venv[sp.dist]
  BY InstallPaasAssumption DEF TypeOK, Grows
<1> QED BY <1>1 DEF Requested

(* pip of one run: its new plugins are its own to migrate; what the other  *)
(* one knows still holds, as nothing of it is under way.                   *)
LEMMA PipShared ==
    ASSUME AtMostTwo, SingleSpec, FirstInstalls, TypeOK, AskedInv, SharedInv,
           NoDuplicates(venv'), NEW q \in Proc, PipInstall(q)
    PROVE  SharedInv'
<1>1. /\ Grows(venv, venv') /\ venv \in Venv /\ venv' \in Venv
      /\ \A sp \in req[q].specs :
            sp.dist \in Dist /\ venv'[sp.dist] \in Version
            /\ (venv[sp.dist] # Absent => venv' = venv)
  BY PipAdds DEF TypeOK
<1>2. /\ pc[q] = "pip" /\ pc'[q] = "after" /\ \A p \in Proc : p # q => pc'[p] = pc[p]
      /\ migrated' = migrated /\ UNCHANGED <<req, before, todo>>
  BY DEF PipInstall, Goto, TypeOK
<1>3. KnownInv(q) /\ before[q] \subseteq Discovered(venv)
  BY <1>2 DEF SharedInv, KnownInv
<1>4. \A s \in Discovered(venv) :
          Migrated(venv, migrated, s) => Migrated(venv', migrated, s)
  BY <1>1, GrowthKeeps
<1>5. Discovered(venv) \subseteq Discovered(venv')
  BY <1>1, GrowthKeeps
<1>6. \A s : Owes(q, s) => FALSE
  BY <1>2 DEF Owes
<1>7. OwedInv'
  <2> SUFFICES ASSUME NEW s \in Discovered(venv'), ~Migrated(venv', migrated, s)
               PROVE  \E r \in Proc : Owes(r, s)'
    BY <1>2 DEF OwedInv
  <2>1. CASE s \in Discovered(venv)
    <3>1. PICK r \in Proc : Owes(r, s)
      BY <1>4, <2>1 DEF SharedInv, OwedInv
    <3> QED BY <1>2, <1>6, <3>1 DEF Owes
  <2>2. CASE s \notin Discovered(venv)
    BY <1>2, <1>3, <2>2 DEF Owes
  <2> QED BY <2>1, <2>2
<1>8. KnownInv(q)'
  <2>1. \A sp \in req[q].specs : venv'[sp.dist] # Absent
    BY <1>1, RegistryAssumption
  <2>2. ASSUME NEW s \in before[q], s \in Requested(q)', ~Migrated(venv', migrated, s)
        PROVE  before[q] = Discovered(venv')
    <3>1. s \in Discovered(venv) /\ s \in Requested(q)
      BY <1>1, <1>2, <1>3, <2>2, RequestedBefore
    <3>2. before[q] = Discovered(venv)
      BY <1>2, <1>3, <1>4, <2>2, <3>1 DEF KnownInv
    <3>3. PICK sp \in req[q].specs : venv[sp.dist] \in Version
      BY <3>1 DEF Requested
    <3>4. venv' = venv
      BY <1>1, <3>3, RegistryAssumption
    <3> QED BY <3>2, <3>4
  <2> QED BY <1>2, <1>3, <1>5, <2>1, <2>2 DEF KnownInv
<1>9. ASSUME NEW p \in Proc, p # q PROVE KnownInv(p)'
  <2>k. KnownInv(p)
    BY DEF SharedInv
  <2>1. CASE pc[p] \in {"pip", "after"}
    <3>1. ASSUME NEW s \in before[p], s \in Requested(p)', ~Migrated(venv', migrated, s)
          PROVE  before[p] = Discovered(venv')
      <4>1. s \in Discovered(venv) /\ s \in Requested(p)
        BY <1>1, <1>2, <2>1, <2>k, <3>1, RequestedBefore DEF KnownInv
      <4>2. PICK r \in Proc : Owes(r, s)
        BY <1>4, <3>1, <4>1 DEF SharedInv, OwedInv
      <4>3. r = p
        BY <1>6, <1>9, <4>2 DEF AtMostTwo
      <4> QED BY <2>1, <3>1, <4>2, <4>3 DEF Owes
    <3>2. \A sp \in req[p].specs : sp.dist \in Dist
      BY InstallPaasAssumption DEF TypeOK
    <3>3. pc[p] = "after" => \A sp \in req[p].specs : venv'[sp.dist] # Absent
      BY <1>1, <2>k, <3>2 DEF KnownInv, Grows
    <3> QED BY <1>2, <1>5, <1>9, <2>1, <2>k, <3>1, <3>3 DEF KnownInv
  <2>2. CASE pc[p] \in {"migrate", "write", "signal", "restart", "done"}
    <3>1. \A sp \in req[p].specs : venv[sp.dist] # Absent /\ sp.dist \in Dist
      BY <2>2, <2>k, InstallPaasAssumption DEF KnownInv, TypeOK
    <3>2. Requested(p)' = Requested(p) /\ Requested(p) \subseteq Discovered(venv)
      BY <1>1, <1>2, <3>1, RequestedStays, RequestedDiscovered
    <3>3. \A sp \in req[p].specs : venv'[sp.dist] # Absent
      BY <1>1, <3>1 DEF Grows
    <3> QED BY <1>2, <1>4, <1>9, <2>2, <2>k, <3>2, <3>3 DEF KnownInv
  <2> QED BY <1>2, <1>9, <2>1, <2>2 DEF KnownInv
<1> QED BY <1>7, <1>8, <1>9 DEF SharedInv

(* The second discovery of an overlapping run: what it was asked for and   *)
(* what it owes become targets, or they are migrated.                      *)
LEMMA DiscoverAfterShared ==
    ASSUME TypeOK, NEW q \in Proc, KnownInv(q), DiscoverAfter(q)
    PROVE  /\ KnownInv(q)'
           /\ \A s \in Discovered(venv) :
                 Owes(q, s) => Owes(q, s)' \/ Migrated(venv, migrated', s)
<1>1. /\ pc[q] = "after" /\ pc'[q] = "migrate" /\ venv' = venv /\ req' = req
      /\ migrated' = migrated /\ todo'[q] = Targets(before[q], Discovered(venv))
  BY DEF DiscoverAfter, Goto, diskVars, TypeOK
<1>2. Requested(q)' = Requested(q)
  BY <1>1, RequestFrame
<1>3. ASSUME NEW s \in Requested(q) \ todo'[q] PROVE Migrated(venv, migrated, s)
  <2>1. CASE s \notin Migrating
    BY <2>1 DEF Migrated
  <2>2. CASE s \in Migrating /\ s \in before[q]
    <3>1. Discovered(venv) # before[q]
      BY <1>1, <1>3, <2>2 DEF Targets
    <3> QED BY <1>1, <1>3, <2>2, <3>1 DEF KnownInv
  <2>3. CASE s \in Migrating /\ s \notin before[q]
    BY <1>1, <1>3, <2>3, RequestedDiscovered DEF Targets
  <2> QED BY <2>1, <2>2, <2>3
<1>4. KnownInv(q)'
  BY <1>1, <1>2, <1>3 DEF KnownInv
<1>5. ASSUME NEW s \in Discovered(venv), Owes(q, s)
      PROVE  Owes(q, s)' \/ Migrated(venv, migrated', s)
  <2>1. s \notin before[q]
    BY <1>1, <1>5 DEF Owes
  <2>2. CASE s \in Migrating
    BY <1>1, <2>1, <2>2 DEF Targets, Owes
  <2>3. CASE s \notin Migrating
    BY <2>3 DEF Migrated
  <2> QED BY <2>2, <2>3
<1> QED BY <1>4, <1>5

(* A migration that an overlapping run applies is no longer owed by it.    *)
LEMMA ApplyMigrationShared ==
    ASSUME TypeOK, NEW q \in Proc, KnownInv(q), ApplyMigration(q)
    PROVE  /\ KnownInv(q)'
           /\ \A s \in Discovered(venv) :
                 Owes(q, s) => Owes(q, s)' \/ Migrated(venv, migrated', s)
<1>1. PICK s \in todo[q] \cap Discovered(venv) :
          /\ migrated' = migrated \cup {sv \in SlugVersions(venv) : sv[1] = s}
          /\ todo' = [todo EXCEPT ![q] = @ \ {s}]
  BY DEF ApplyMigration
<1>2. pc[q] = "migrate" /\ pc' = pc /\ venv' = venv /\ req' = req
  BY DEF ApplyMigration
<1>3. todo'[q] = todo[q] \ {s} /\ migrated \subseteq migrated'
  BY <1>1 DEF TypeOK
<1>4. Migrated(venv, migrated', s)
  BY <1>1 DEF Migrated
<1>5. Requested(q)' = Requested(q)
  BY <1>2, RequestFrame
<1>6. \A t \in Requested(q) \ todo'[q] : Migrated(venv, migrated', t)
  BY <1>2, <1>3, <1>4, MigratedGrows DEF KnownInv
<1>7. KnownInv(q)'
  BY <1>2, <1>5, <1>6 DEF KnownInv
<1>8. \A t : Owes(q, t) => Owes(q, t)' \/ t = s
  BY <1>2, <1>3 DEF Owes
<1> QED BY <1>4, <1>7, <1>8

(* What any other step of an overlapping run does for itself.              *)
LEMMA OwnShared ==
    ASSUME TypeOK, NEW q \in Proc, KnownInv(q), ~torn', venv' = venv,
           (\E r \in Request : Start(q, r)) \/ RunStep(q) \/ Exit(q), ~PipInstall(q)
    PROVE  /\ KnownInv(q)'
           /\ \A s \in Discovered(venv) :
                 Owes(q, s) => Owes(q, s)' \/ Migrated(venv, migrated', s)
<1> USE DEF diskVars, servingVars, TypeOK, Goto
<1>1. CASE DiscoverAfter(q)
  BY <1>1, DiscoverAfterShared
<1>2. CASE ApplyMigration(q)
  BY <1>2, ApplyMigrationShared
<1>3. CASE (\E r \in Request : Start(q, r)) \/ Exit(q) \/ StepRaises(q) \/ StepFails(q)
  <2>1. pc'[q] \in {"idle", "before", "failed"}
    BY <1>3 DEF Start, Exit, StepRaises, StepFails, StopsAt
  <2>2. pc[q] \notin {"after", "migrate"}
    BY <1>3 DEF Start, Exit, StepRaises, StepFails, StopsAt, Tears
  <2> QED BY <2>1, <2>2 DEF KnownInv, Owes
<1>4. CASE DiscoverBefore(q)
  <2>1. pc[q] = "before" /\ pc'[q] = "pip" /\ before'[q] = Discovered(venv)
    BY <1>4 DEF DiscoverBefore
  <2> QED BY <2>1 DEF KnownInv, Owes
<1>5. CASE RenderDiscover(q) \/ RenderWrite(q) \/ SignalUserApi(q) \/ RestartServices(q)
  <2>1. /\ pc[q] \in {"migrate", "write", "signal", "restart"}
        /\ pc[q] = "migrate" => todo[q] = {}
        /\ pc'[q] \in {"write", "signal", "restart", "done"}
        /\ UNCHANGED <<migrated, req>>
    BY <1>5 DEF RenderDiscover, RenderWrite, SignalUserApi, RestartServices
  <2>2. Requested(q)' = Requested(q)
    BY <2>1, RequestFrame
  <2> QED BY <2>1, <2>2 DEF KnownInv, Owes
<1> QED BY <1>1, <1>2, <1>3, <1>4, <1>5 DEF RunStep

(* A step of one run leaves the locals of the other ones alone.            *)
LEMMA OtherLocals ==
    ASSUME TypeOK, NEW q \in Proc, NEW p \in Proc, p # q,
           (\E r \in Request : Start(q, r)) \/ RunStep(q) \/ Exit(q)
    PROVE  /\ pc'[p] = pc[p] /\ req'[p] = req[p]
           /\ before'[p] = before[p] /\ todo'[p] = todo[p]
<1> USE DEF TypeOK, Goto
<1>1. CASE (\E r \in Request : Start(q, r)) \/ Exit(q) \/ StepRaises(q) \/ StepFails(q)
  BY <1>1 DEF Start, Exit, StepRaises, StepFails, StopsAt
<1>2. CASE DiscoverBefore(q) \/ PipInstall(q) \/ DiscoverAfter(q) \/ ApplyMigration(q)
  BY <1>2 DEF DiscoverBefore, PipInstall, DiscoverAfter, ApplyMigration
<1>3. CASE RenderDiscover(q) \/ RenderWrite(q) \/ SignalUserApi(q) \/ RestartServices(q)
  BY <1>3 DEF RenderDiscover, RenderWrite, SignalUserApi, RestartServices
<1> QED BY <1>1, <1>2, <1>3 DEF RunStep

(* While the environment stays and migrations are only added, a run that   *)
(* does nothing knows what it knew.                                        *)
LEMMA KnownFrame ==
    ASSUME NEW p \in Proc, KnownInv(p), venv' = venv, migrated \subseteq migrated',
           pc'[p] = pc[p], req'[p] = req[p], before'[p] = before[p], todo'[p] = todo[p]
    PROVE  KnownInv(p)'
<1>1. Requested(p)' = Requested(p)
  BY RequestFrame
<1>2. \A s : Migrated(venv, migrated, s) => Migrated(venv', migrated', s)
  BY MigratedGrows
<1> QED BY <1>1, <1>2 DEF KnownInv

(* Every step of overlapping runs preserves the invariant.                 *)
LEMMA OverlapStep ==
    ASSUME AtMostTwo, SingleSpec, FirstInstalls, TypeOK, OverlapInv, [Next]_installVars
    PROVE  OverlapInv'
<1> SUFFICES ASSUME ~torn' PROVE AskedInv' /\ (NoDuplicates(venv') => SharedInv')
  BY DEF OverlapInv
<1>1. AskedInv
  <2>1. ~torn
    BY DEF Next, RunStep, Start, DiscoverBefore, PipInstall, DiscoverAfter, ApplyMigration,
       RenderDiscover, RenderWrite, SignalUserApi, RestartServices, StepRaises, StepFails,
       StopsAt, Exit, UserApiRequest, installVars
  <2> QED BY <2>1 DEF OverlapInv
<1>2. /\ ~torn /\ AskedInv' /\ Grows(venv, venv') /\ migrated \subseteq migrated'
      /\ venv' = venv \/ \E p \in Proc : PipInstall(p)
  BY <1>1, EnvStep
<1> SUFFICES ASSUME NoDuplicates(venv') PROVE SharedInv'
  BY <1>2
<1>3. venv \in Venv /\ venv' \in Venv
  BY TypeStep DEF TypeOK
<1>4. SharedInv
  BY <1>2, <1>3, GrowthKeeps DEF OverlapInv
<1>5. ASSUME NEW q \in Proc, PipInstall(q) PROVE SharedInv'
  BY <1>1, <1>4, <1>5, PipShared
<1>6. ASSUME venv' = venv, NEW q \in Proc, ~PipInstall(q),
             (\E r \in Request : Start(q, r)) \/ RunStep(q) \/ Exit(q)
      PROVE  SharedInv'
  <2>1. /\ KnownInv(q)'
        /\ \A s \in Discovered(venv) :
              Owes(q, s) => Owes(q, s)' \/ Migrated(venv, migrated', s)
    BY <1>4, <1>6, OwnShared DEF SharedInv
  <2>2. ASSUME NEW p \in Proc, p # q PROVE KnownInv(p)' /\ \A s : Owes(p, s) => Owes(p, s)'
    <3>1. /\ pc'[p] = pc[p] /\ req'[p] = req[p]
          /\ before'[p] = before[p] /\ todo'[p] = todo[p]
      BY <1>6, <2>2, OtherLocals
    <3>2. KnownInv(p)'
      BY <1>2, <1>4, <1>6, <3>1, KnownFrame DEF SharedInv
    <3> QED BY <3>1, <3>2 DEF Owes
  <2>3. OwedInv'
    <3> SUFFICES ASSUME NEW s \in Discovered(venv)
                 PROVE  Migrated(venv, migrated', s) \/ \E r \in Proc : Owes(r, s)'
      BY <1>6 DEF OwedInv
    <3>1. CASE Migrated(venv, migrated, s)
      BY <1>2, <3>1, MigratedGrows
    <3>2. ASSUME NEW r \in Proc, Owes(r, s)
          PROVE  Migrated(venv, migrated', s) \/ Owes(r, s)'
      BY <2>1, <2>2, <3>2
    <3> QED BY <1>4, <3>1, <3>2 DEF SharedInv, OwedInv
  <2> QED BY <2>1, <2>2, <2>3 DEF SharedInv
<1>7. CASE UserApiRequest \/ UNCHANGED installVars
  <2>1. UNCHANGED <<venv, migrated, pc, req, before, todo>>
    BY <1>7 DEF UserApiRequest, installVars, diskVars, runVars
  <2>2. \A p \in Proc : KnownInv(p)'
    BY <1>2, <1>4, <2>1, KnownFrame DEF SharedInv
  <2>3. OwedInv'
    BY <1>4, <2>1 DEF SharedInv, OwedInv, Owes
  <2> QED BY <2>2, <2>3 DEF SharedInv
<1> QED BY <1>2, <1>5, <1>6, <1>7 DEF Next

(* Two overlapping runs, each with one spec and none that replaces a       *)
(* release, never exit 0 with a requested plugin whose migrations were not *)
(* applied, unless a run stopped after its pip or a slug is registered     *)
(* twice: what one of them passes over as there before is done by then.    *)
THEOREM OverlapMigrates ==
    ASSUME AtMostTwo, SingleSpec, FirstInstalls
    PROVE  Spec => []MigratedUnlessTorn
<1>1. Init => OverlapInv
  <2> SUFFICES ASSUME Init PROVE AskedInv /\ SharedInv
    BY DEF OverlapInv
  <2>1. venv = NothingInstalled /\ pc = [p \in Proc |-> "idle"]
    BY DEF Init
  <2>2. Discovered(venv) = {}
    BY <2>1, RegistryAssumption DEF Discovered, Releases, NothingInstalled
  <2>3. AskedInv
    BY <2>1 DEF AskedInv, NothingInstalled
  <2> QED BY <2>1, <2>2, <2>3 DEF SharedInv, OwedInv, KnownInv
<1>2. TypeOK /\ OverlapInv /\ [Next]_installVars => OverlapInv'
  BY OverlapStep
<1>3. OverlapInv => MigratedUnlessTorn
  BY DEF OverlapInv, SharedInv, KnownInv, MigratedUnlessTorn, MigratedOnExit
<1> QED BY <1>1, <1>2, <1>3, TypeCorrect, PTL DEF Spec
=============================================================================
