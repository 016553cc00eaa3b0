--------------------------- MODULE BootstrapProofs ---------------------------
(***************************************************************************)
(* A boot connects to its database and repairs what earlier ones left, for *)
(* any plugins, passwords and number of crashes, with an installer at any  *)
(* step of it.                                                             *)
(***************************************************************************)
EXTENDS Bootstrap, TLAPS

HasRole == {"render", "migrate", "seed", "enable", "up"}

(* Who runs when.                                                          *)
ProcessInv ==
    /\ boot \in HasRole \/ service # NoFile => role # NoRole
    /\ Connecting \/ boot = "up" \/ enabled => service # NoFile
    /\ step["boot"] \in {"none"} \cup WriteStep
    /\ step["boot"] # "none" => boot = "render"
    /\ step["boot"] \in WriteStep \ {"open"} => service # NoFile
    /\ step["installer"] # "none" => enabled /\ boot # "off"
    /\ step["installer"] # "none" /\ boot # "up" => beside

(* The passwords of the script and of an installer's render.               *)
PassInv ==
    /\ boot = "password" => pass["boot"] = supplied
    /\ boot \in {"role", "render"} =>
          /\ pass["boot"] \in Password
          /\ supplied # NoPassword => pass["boot"] = supplied
    /\ step["installer"] \in WriteStep => pass["installer"] \in Password
    /\ step["installer"] = "write" /\ boot \in {"password", "role"} => service = Empty
    /\ ~beside =>
          /\ step["boot"] = "write" => service = Empty
          /\ step["boot"] \in {"openAgent", "writeAgent"} => service = pass["boot"]
          /\ Connecting /\ supplied # NoPassword => service = supplied

(* A role whose password is read back as it is has this one.               *)
ForPlain(password) == role \in Plain => password = role

(* Nothing was supplied that is not the role's.                            *)
Good == supplied \in {NoPassword, role}

(* The config has the role's password, or somebody is about to write one.  *)
Kept == ForPlain(service) \/ (service = Empty /\ "write" \in {step[r] : r \in Renderer})

(* Where it is the role's, when nothing has left a config without it.      *)
RoleInv ==
    ~lost =>
        /\ boot \in {"off", "password", "role"} => Kept
        /\ boot \in HasRole /\ Good => service = NoFile \/ Kept
        /\ boot \in {"role", "render"} /\ Good => ForPlain(pass["boot"])
        /\ /\ step["installer"] \in {"open", "write"}
           /\ boot \in {"password", "role"} \/ (boot \in HasRole /\ Good)
           => ForPlain(pass["installer"])

(* What the steps before the services have repaired.                       *)
RepairInv ==
    /\ boot = "enable" => (KeyOnDisk => seeded)
    /\ ~beside =>
          /\ step["boot"] # "none" => found["boot"] = Discovered(venv) /\ DiscoverOk(venv)
          /\ step["boot"] = "writeAgent" => coreAgent = Empty
          /\ Connecting => coreAgent = Discovered(venv)
          /\ boot = "migrate" => DiscoverOk(venv)
          /\ boot \in {"seed", "enable"} =>
                \A s \in Discovered(venv) : Migrated(venv, migrated, s)

IInv == TypeOK /\ ProcessInv /\ PassInv /\ RoleInv /\ RepairInv

-----------------------------------------------------------------------------
LEMMA IInvInit == ASSUME Init PROVE IInv
<1>1. venv \in Venv
  BY DEF Init, Venv, NothingInstalled
<1>2. crashes \in 0..Crashes /\ pips \in 0..Pips
  BY BootstrapAssumption DEF Init
<1>3. TypeOK
  BY <1>1, <1>2, BootstrapAssumption
  DEF Init, TypeOK, BootStep, InstallerStep, WriteStep
<1> QED
  BY <1>3, BootstrapAssumption
  DEF Init, IInv, ProcessInv, PassInv, RoleInv, RepairInv, ForPlain, Plain, Kept, HasRole,
      Connecting, WriteStep, Renderer

(* Every step keeps the invariant.                                         *)
LEMMA IInvStep == ASSUME IInv, [Next]_vars PROVE IInv'
<1> USE BootstrapAssumption
    DEF HasRole, Connecting, WriteStep, rootDisk, database, persistentVars, processVars,
        bounds
<1>t. TypeOK /\ ProcessInv /\ PassInv /\ RoleInv /\ RepairInv
  BY DEF IInv
<1>r. Renderer = {"boot", "installer"}
  BY DEF Renderer
<1>0. CASE UNCHANGED vars
  BY <1>0, <1>t DEF vars, IInv, TypeOK, ProcessInv, PassInv, RoleInv, RepairInv, Plain,
     ForPlain, Good, Kept
<1>1. CASE PowerOn
  <2>1. TypeOK'
    BY <1>1, <1>t, <1>r DEF PowerOn, TypeOK, BootStep, InstallerStep
  <2>2. ProcessInv'
    BY <1>1, <1>t, <1>r DEF PowerOn, ProcessInv, TypeOK
  <2>3. PassInv'
    BY <1>1, <1>t, <1>r DEF PowerOn, PassInv, ProcessInv, TypeOK
  <2>4. RoleInv'
    BY <1>1, <1>t, <1>r
    DEF PowerOn, RoleInv, PassInv, ProcessInv, TypeOK, Plain, ForPlain, Good, Kept
  <2>5. RepairInv'
    BY <1>1, <1>t, <1>r DEF PowerOn, RepairInv, ProcessInv, TypeOK
  <2> QED
    BY <2>1, <2>2, <2>3, <2>4, <2>5 DEF IInv
<1>2. CASE ResolvePassword
  <2>a. ReadByBoot \in Password \cup {NoPassword}
    BY DEF ReadByBoot
  <2>b. pass' = [pass EXCEPT !["boot"] = pass'["boot"]] /\ pass'["boot"] \in Password
    BY <1>2, <1>t, <1>r, <2>a DEF ResolvePassword, TypeOK, PassInv, Plain
  <2>c. boot' = "role" /\ generated' \subseteq Generable /\ lost' \in BOOLEAN
    BY <1>2, <1>t DEF ResolvePassword, TypeOK
  <2>d. supplied # NoPassword => pass'["boot"] = supplied
    BY <1>2, <1>t, <1>r DEF ResolvePassword, PassInv, TypeOK
  <2>1. TypeOK'
    BY <1>2, <1>t, <1>r, <2>b, <2>c DEF ResolvePassword, TypeOK, BootStep
  <2>2. ProcessInv'
    BY <1>2, <1>t, <1>r DEF ResolvePassword, ReadByBoot, ProcessInv, TypeOK
  <2>3. PassInv'
    BY <1>2, <1>t, <1>r, <2>b, <2>c, <2>d
    DEF ResolvePassword, PassInv, ProcessInv, TypeOK
  <2>4. RoleInv'
    BY <1>2, <1>t, <1>r
    DEF ResolvePassword, ReadByBoot, RoleInv, PassInv, ProcessInv, TypeOK, Plain,
        ForPlain, Good, Kept
  <2>5. RepairInv'
    BY <1>2, <1>t, <1>r DEF ResolvePassword, ReadByBoot, RepairInv, ProcessInv, TypeOK
  <2> QED
    BY <2>1, <2>2, <2>3, <2>4, <2>5 DEF IInv
<1>3. CASE SetupRole
  <2>1. TypeOK'
    BY <1>3, <1>t, <1>r
    DEF SetupRole, TypeOK, BootStep, InstallerStep, PassInv, ProcessInv
  <2>2. ProcessInv'
    BY <1>3, <1>t, <1>r DEF SetupRole, ProcessInv, TypeOK, PassInv
  <2>3. PassInv'
    BY <1>3, <1>t, <1>r DEF SetupRole, PassInv, ProcessInv, TypeOK
  <2>4. RoleInv'
    BY <1>3, <1>t, <1>r
    DEF SetupRole, RoleInv, PassInv, ProcessInv, TypeOK, Plain, ForPlain, Good, Kept
  <2>5. RepairInv'
    BY <1>3, <1>t, <1>r DEF SetupRole, RepairInv, ProcessInv, TypeOK
  <2> QED
    BY <2>1, <2>2, <2>3, <2>4, <2>5 DEF IInv
<1>4. CASE ApplyMigrations
  <2>1. TypeOK'
    BY <1>4, <1>t, <1>r
    DEF ApplyMigrations, PluginMigrations, TypeOK, BootStep, InstallerStep, SlugVersions
  <2>2. ProcessInv'
    BY <1>4, <1>t, <1>r DEF ApplyMigrations, PluginMigrations, ProcessInv, TypeOK
  <2>3. PassInv'
    BY <1>4, <1>t, <1>r
    DEF ApplyMigrations, PluginMigrations, PassInv, ProcessInv, TypeOK
  <2>4. RoleInv'
    BY <1>4, <1>t, <1>r
    DEF ApplyMigrations, PluginMigrations, RoleInv, PassInv, ProcessInv, TypeOK, Plain,
        ForPlain, Good, Kept
  <2>5. RepairInv'
    BY <1>4, <1>t, <1>r
    DEF ApplyMigrations, PluginMigrations, RepairInv, ProcessInv, TypeOK, Migrated
  <2> QED
    BY <2>1, <2>2, <2>3, <2>4, <2>5 DEF IInv
<1>5. CASE SeedKey
  <2>1. TypeOK'
    BY <1>5, <1>t, <1>r DEF SeedKey, TypeOK, BootStep, InstallerStep
  <2>2. ProcessInv'
    BY <1>5, <1>t, <1>r DEF SeedKey, ProcessInv, TypeOK
  <2>3. PassInv'
    BY <1>5, <1>t, <1>r DEF SeedKey, PassInv, ProcessInv, TypeOK
  <2>4. RoleInv'
    BY <1>5, <1>t, <1>r
    DEF SeedKey, RoleInv, PassInv, ProcessInv, TypeOK, Plain, ForPlain, Good, Kept
  <2>5. RepairInv'
    BY <1>5, <1>t, <1>r DEF SeedKey, RepairInv, ProcessInv, TypeOK
  <2> QED
    BY <2>1, <2>2, <2>3, <2>4, <2>5 DEF IInv
<1>6. CASE BootFails
  <2>1. TypeOK'
    BY <1>6, <1>t, <1>r DEF BootFails, Ends, Collision, TypeOK, BootStep, InstallerStep
  <2>2. ProcessInv'
    BY <1>6, <1>t, <1>r DEF BootFails, Ends, Collision, ProcessInv, TypeOK
  <2>3. PassInv'
    BY <1>6, <1>t, <1>r DEF BootFails, Ends, Collision, PassInv, ProcessInv, TypeOK
  <2>4. RoleInv'
    BY <1>6, <1>t, <1>r
    DEF BootFails, Ends, Collision, RoleInv, PassInv, ProcessInv, TypeOK, Plain,
        ForPlain, Good, Kept
  <2>5. RepairInv'
    BY <1>6, <1>t, <1>r DEF BootFails, Ends, Collision, RepairInv, ProcessInv, TypeOK
  <2> QED
    BY <2>1, <2>2, <2>3, <2>4, <2>5 DEF IInv
<1>7. CASE EnableServices
  <2>1. TypeOK'
    BY <1>7, <1>t, <1>r DEF EnableServices, TypeOK, BootStep, InstallerStep
  <2>2. ProcessInv'
    BY <1>7, <1>t, <1>r DEF EnableServices, ProcessInv, TypeOK
  <2>3. PassInv'
    BY <1>7, <1>t, <1>r DEF EnableServices, PassInv, ProcessInv, TypeOK
  <2>4. RoleInv'
    BY <1>7, <1>t, <1>r
    DEF EnableServices, RoleInv, PassInv, ProcessInv, TypeOK, Plain, ForPlain,
        Good, Kept
  <2>5. RepairInv'
    BY <1>7, <1>t, <1>r DEF EnableServices, RepairInv, ProcessInv, TypeOK
  <2> QED
    BY <2>1, <2>2, <2>3, <2>4, <2>5 DEF IInv
<1>8. CASE Pip
  <2>a. /\ step' \in {step, [step EXCEPT !["installer"] = "migrate"]}
        /\ found' = [found EXCEPT !["installer"] = found'["installer"]]
        /\ found'["installer"] \subseteq Slug
    BY <1>8, <1>t, <1>r DEF Pip, TypeOK, Discovered
  <2>b. enabled /\ boot # "off" /\ step["installer"] = "none" /\ beside' = (beside \/ boot # "up")
        /\ UNCHANGED <<enabled, persistentVars, boot, supplied, generated, pass, lost,
                       crashes>>
    BY <1>8 DEF Pip
  <2>1. TypeOK'
    BY <1>8, <1>t, <1>r DEF Pip, TypeOK, BootStep, InstallerStep, Venv, Discovered
  <2>2. ProcessInv'
    BY <1>t, <1>r, <2>a, <2>b DEF ProcessInv, TypeOK
  <2>3. PassInv'
    BY <1>8, <1>t, <1>r DEF Pip, PassInv, ProcessInv, TypeOK
  <2>4. RoleInv'
    BY <1>8, <1>t, <1>r
    DEF Pip, RoleInv, PassInv, ProcessInv, TypeOK, Plain, ForPlain, Good, Kept
  <2>5. RepairInv'
    BY <1>t, <1>r, <2>a, <2>b DEF RepairInv, ProcessInv, TypeOK
  <2> QED
    BY <2>1, <2>2, <2>3, <2>4, <2>5 DEF IInv
<1>9. CASE InstallerMigrates
  <2>1. TypeOK'
    BY <1>9, <1>t, <1>r
    DEF InstallerMigrates, TypeOK, BootStep, InstallerStep, InstallerMigrations,
        SlugVersions
  <2>2. ProcessInv'
    BY <1>9, <1>t, <1>r DEF InstallerMigrates, ProcessInv, TypeOK
  <2>3. PassInv'
    BY <1>9, <1>t, <1>r DEF InstallerMigrates, PassInv, ProcessInv, TypeOK
  <2>4. RoleInv'
    BY <1>9, <1>t, <1>r
    DEF InstallerMigrates, RoleInv, PassInv, ProcessInv, TypeOK, Plain, ForPlain, Good,
        Kept
  <2>5. RepairInv'
    BY <1>9, <1>t, <1>r DEF InstallerMigrates, RepairInv, ProcessInv, TypeOK, Migrated
  <2> QED
    BY <2>1, <2>2, <2>3, <2>4, <2>5 DEF IInv
<1>10. CASE InstallerFails
  <2>1. TypeOK'
    BY <1>10, <1>t, <1>r DEF InstallerFails, Ends, TypeOK, BootStep, InstallerStep
  <2>2. ProcessInv'
    BY <1>10, <1>t, <1>r DEF InstallerFails, Ends, ProcessInv, TypeOK
  <2>3. PassInv'
    BY <1>10, <1>t, <1>r DEF InstallerFails, Ends, PassInv, ProcessInv, TypeOK
  <2>4. RoleInv'
    BY <1>10, <1>t, <1>r
    DEF InstallerFails, Ends, RoleInv, PassInv, ProcessInv, TypeOK, Plain, ForPlain,
        Good, Kept
  <2>5. RepairInv'
    BY <1>10, <1>t, <1>r DEF InstallerFails, Ends, RepairInv, ProcessInv, TypeOK
  <2> QED
    BY <2>1, <2>2, <2>3, <2>4, <2>5 DEF IInv
<1>11. ASSUME NEW r \in Renderer, RenderStart(r) PROVE IInv'
  <2>1. TypeOK'
    BY <1>11, <1>t, <1>r
    DEF RenderStart, Recovered, TypeOK, BootStep, InstallerStep, Discovered, PassInv,
        ProcessInv
  <2>2. ProcessInv'
    BY <1>11, <1>t, <1>r DEF RenderStart, Recovered, ProcessInv, TypeOK
  <2>3. PassInv'
    BY <1>11, <1>t, <1>r DEF RenderStart, Recovered, PassInv, ProcessInv, TypeOK
  <2>4. RoleInv'
    BY <1>11, <1>t, <1>r
    DEF RenderStart, Recovered, RoleInv, PassInv, ProcessInv, TypeOK, Plain, ForPlain,
        Good, Kept
  <2>5. RepairInv'
    BY <1>11, <1>t, <1>r DEF RenderStart, Recovered, RepairInv, ProcessInv, TypeOK
  <2> QED
    BY <2>1, <2>2, <2>3, <2>4, <2>5 DEF IInv
<1>12. ASSUME NEW r \in Renderer, OpenService(r) PROVE IInv'
  <2>1. TypeOK'
    BY <1>12, <1>t, <1>r DEF OpenService, RenderStepTo, TypeOK, BootStep, InstallerStep
  <2>2. ProcessInv'
    BY <1>12, <1>t, <1>r DEF OpenService, RenderStepTo, ProcessInv, TypeOK
  <2>3. PassInv'
    BY <1>12, <1>t, <1>r DEF OpenService, RenderStepTo, PassInv, ProcessInv, TypeOK
  <2>4. RoleInv'
    BY <1>12, <1>t, <1>r
    DEF OpenService, RenderStepTo, RoleInv, PassInv, ProcessInv, TypeOK, Plain,
        ForPlain, Good, Kept
  <2>5. RepairInv'
    BY <1>12, <1>t, <1>r DEF OpenService, RenderStepTo, RepairInv, ProcessInv, TypeOK
  <2> QED
    BY <2>1, <2>2, <2>3, <2>4, <2>5 DEF IInv
<1>13. ASSUME NEW r \in Renderer, WriteService(r) PROVE IInv'
  <2>1. TypeOK'
    BY <1>13, <1>t, <1>r
    DEF WriteService, RenderStepTo, TypeOK, BootStep, InstallerStep, PassInv, ProcessInv
  <2>2. ProcessInv'
    BY <1>13, <1>t, <1>r DEF WriteService, RenderStepTo, ProcessInv, TypeOK, PassInv
  <2>3. PassInv'
    BY <1>13, <1>t, <1>r DEF WriteService, RenderStepTo, PassInv, ProcessInv, TypeOK
  <2>4. RoleInv'
    BY <1>13, <1>t, <1>r
    DEF WriteService, RenderStepTo, RoleInv, PassInv, ProcessInv, TypeOK, Plain,
        ForPlain, Good, Kept
  <2>5. RepairInv'
    BY <1>13, <1>t, <1>r DEF WriteService, RenderStepTo, RepairInv, ProcessInv, TypeOK
  <2> QED
    BY <2>1, <2>2, <2>3, <2>4, <2>5 DEF IInv
<1>14. ASSUME NEW r \in Renderer, OpenAgent(r) PROVE IInv'
  <2>1. TypeOK'
    BY <1>14, <1>t, <1>r DEF OpenAgent, RenderStepTo, TypeOK, BootStep, InstallerStep
  <2>2. ProcessInv'
    BY <1>14, <1>t, <1>r DEF OpenAgent, RenderStepTo, ProcessInv, TypeOK
  <2>3. PassInv'
    BY <1>14, <1>t, <1>r DEF OpenAgent, RenderStepTo, PassInv, ProcessInv, TypeOK
  <2>4. RoleInv'
    BY <1>14, <1>t, <1>r
    DEF OpenAgent, RenderStepTo, RoleInv, PassInv, ProcessInv, TypeOK, Plain, ForPlain,
        Good, Kept
  <2>5. RepairInv'
    BY <1>14, <1>t, <1>r DEF OpenAgent, RenderStepTo, RepairInv, ProcessInv, TypeOK
  <2> QED
    BY <2>1, <2>2, <2>3, <2>4, <2>5 DEF IInv
<1>15. ASSUME NEW r \in Renderer, WriteAgent(r) PROVE IInv'
  <2>1. TypeOK'
    BY <1>15, <1>t, <1>r DEF WriteAgent, Ends, TypeOK, BootStep, InstallerStep
  <2>2. ProcessInv'
    BY <1>15, <1>t, <1>r DEF WriteAgent, Ends, ProcessInv, TypeOK
  <2>3. PassInv'
    BY <1>15, <1>t, <1>r DEF WriteAgent, Ends, PassInv, ProcessInv, TypeOK
  <2>4. RoleInv'
    BY <1>15, <1>t, <1>r
    DEF WriteAgent, Ends, RoleInv, PassInv, ProcessInv, TypeOK, Plain, ForPlain, Good,
        Kept
  <2>5. RepairInv'
    BY <1>15, <1>t, <1>r DEF WriteAgent, Ends, RepairInv, ProcessInv, TypeOK
  <2> QED
    BY <2>1, <2>2, <2>3, <2>4, <2>5 DEF IInv
<1>16. CASE Crash
  <2>1. TypeOK'
    <3>1. venv' \in Venv /\ enabled' \in BOOLEAN
      BY <1>16, <1>t DEF Crash, TypeOK, Venv, NothingInstalled
    <3>2. crashes' \in 0..Crashes
      BY <1>16, <1>t DEF Crash, TypeOK
    <3> QED
      BY <1>16, <1>t, <1>r, <3>1, <3>2 DEF Crash, PowerOff, Forgotten, TypeOK, BootStep,
         InstallerStep
  <2>2. ProcessInv'
    BY <1>16, <1>t, <1>r DEF Crash, PowerOff, Forgotten, ProcessInv, TypeOK
  <2>3. PassInv'
    BY <1>16, <1>t, <1>r DEF Crash, PowerOff, Forgotten, PassInv, ProcessInv, TypeOK
  <2>4. RoleInv'
    BY <1>16, <1>t, <1>r
    DEF Crash, PowerOff, Forgotten, RoleInv, PassInv, ProcessInv, TypeOK, Plain,
        ForPlain, Good, Kept
  <2>5. RepairInv'
    BY <1>16, <1>t, <1>r DEF Crash, PowerOff, Forgotten, RepairInv, ProcessInv, TypeOK
  <2> QED
    BY <2>1, <2>2, <2>3, <2>4, <2>5 DEF IInv
<1>17. CASE InstallerKilled
  <2>1. TypeOK'
    BY <1>17, <1>t, <1>r
    DEF InstallerKilled, Ends, Forgotten, TypeOK, BootStep, InstallerStep
  <2>2. ProcessInv'
    BY <1>17, <1>t, <1>r DEF InstallerKilled, Ends, Forgotten, ProcessInv, TypeOK
  <2>3. PassInv'
    BY <1>17, <1>t, <1>r
    DEF InstallerKilled, Ends, Forgotten, PassInv, ProcessInv, TypeOK
  <2>4. RoleInv'
    <3>1. SUFFICES ASSUME ~lost' PROVE RoleInv'
      BY DEF RoleInv
    <3>2. /\ ~lost /\ (step["installer"] = "write" => ~Forgotten)
          /\ step' = [step EXCEPT !["installer"] = "none"]
          /\ UNCHANGED <<boot, service, role, supplied>>
      BY <1>17, <3>1 DEF InstallerKilled, Ends
    <3>3. pass'["boot"] = pass["boot"]
      BY <1>17, <1>t, <1>r DEF InstallerKilled, Ends, TypeOK
    <3>4. Kept => Kept'
      BY <1>t, <1>r, <3>2 DEF Kept, Forgotten, ForPlain, Plain, TypeOK
    <3> QED
      BY <1>t, <1>r, <3>2, <3>3, <3>4 DEF RoleInv, TypeOK, Plain, ForPlain, Good
  <2>5. RepairInv'
    BY <1>17, <1>t, <1>r
    DEF InstallerKilled, Ends, Forgotten, RepairInv, ProcessInv, TypeOK
  <2> QED
    BY <2>1, <2>2, <2>3, <2>4, <2>5 DEF IInv
<1>18. CASE Reboot
  <2>1. TypeOK'
    BY <1>18, <1>t, <1>r
    DEF Reboot, PowerOff, Forgotten, TypeOK, BootStep, InstallerStep
  <2>2. ProcessInv'
    BY <1>18, <1>t, <1>r DEF Reboot, PowerOff, Forgotten, ProcessInv, TypeOK
  <2>3. PassInv'
    BY <1>18, <1>t, <1>r DEF Reboot, PowerOff, Forgotten, PassInv, ProcessInv, TypeOK
  <2>4. RoleInv'
    BY <1>18, <1>t, <1>r
    DEF Reboot, PowerOff, Forgotten, RoleInv, PassInv, ProcessInv, TypeOK, Plain,
        ForPlain, Good, Kept
  <2>5. RepairInv'
    BY <1>18, <1>t, <1>r DEF Reboot, PowerOff, Forgotten, RepairInv, ProcessInv, TypeOK
  <2> QED
    BY <2>1, <2>2, <2>3, <2>4, <2>5 DEF IInv
<1> QED
  BY <1>0, <1>1, <1>2, <1>3, <1>4, <1>5, <1>6, <1>7, <1>8, <1>9, <1>10, <1>11, <1>12,
     <1>13, <1>14, <1>15, <1>16, <1>17, <1>18, <1>r
  DEF Next, BootNext, InstallerNext, RenderNext

THEOREM BootInvariant == Spec => []IInv
BY IInvInit, IInvStep, PTL DEF Spec

(* Every variable of the boot stays in its domain.                         *)
THEOREM BootTypeCorrect == Spec => []TypeOK
<1>1. IInv => TypeOK
  BY DEF IInv
<1> QED
  BY <1>1, BootInvariant, PTL

(* A boot past its render connects with the role's password, as do the     *)
(* services beside it and after it, unless it was forgotten by a stop or a  *)
(* read in the middle of an installer's write.                             *)
THEOREM BootConnects == Spec => []ConnectsUnlessLost
<1>1. IInv => ConnectsUnlessLost
  BY BootstrapAssumption
  DEF IInv, TypeOK, ProcessInv, PassInv, RoleInv, ForPlain, Good, Kept, HasRole,
      Connecting, Renderer, ConnectsUnlessLost
<1> QED
  BY <1>1, BootInvariant, PTL

(* A boot that reaches the services has repaired what was left before it,  *)
(* by installers beside earlier boots too.                                 *)
THEOREM BootIsRepair == Spec => []BootRepairs
<1>1. IInv => BootRepairs
  BY DEF IInv, RepairInv, Connecting, BootRepairs
<1> QED
  BY <1>1, BootInvariant, PTL
=============================================================================
