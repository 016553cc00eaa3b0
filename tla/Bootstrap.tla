------------------------------ MODULE Bootstrap ------------------------------
(***************************************************************************)
(* The boot of the control-plane node (exordos/images/cp_bootstrap.sh) and *)
(* render-config (exordos_metapaas/cmd/render_config.py), which it shares  *)
(* with the plugin installer: how the database password, kept only in the  *)
(* rendered config, stays the password of the PostgreSQL role.             *)
(*                                                                         *)
(* Config directory and database are on the persistent disk, the virtual   *)
(* environment and the enabled units on the root disk.  A node that keeps  *)
(* its root disk starts the units beside the boot script, so that an       *)
(* installer may pip, migrate and render at any step of it.  The node may  *)
(* crash at any step; a crash between open(path, "w") and the write leaves *)
(* an empty file.                                                          *)
(***************************************************************************)
EXTENDS Registry

CONSTANTS
    Password,    \* passwords of the role or of the config
    Generable,   \* those generate_secure_password may return
    BootReads,   \* what the boot script reads back from a config, by password
    RenderReads, \* what render-config reads back
    NoPassword,  \* an empty GC_PG_PASS
    InitFile,    \* what /etc/exordos_init.txt may set GC_PG_PASS to
    NoFile, Empty, NoRole,
    Garbled,     \* one file with the end of another: it does not parse
    OnExisting,  \* what the role setup may do to an existing role
    KeyOnDisk,   \* the image has the node's private key
    Crashes, Pips

(* Both read back what was written.                                        *)
Plain == {p \in Password : BootReads[p] = p /\ RenderReads[p] = p}

ASSUME BootstrapAssumption ==
    /\ BootReads \in [Password -> Password \cup {NoPassword}]
    /\ RenderReads \in [Password -> Password \cup {NoPassword}]
    /\ Generable \subseteq Plain
    /\ {NoPassword, NoFile, Empty, Garbled, NoRole} \cap Password = {}
    /\ Empty # NoFile /\ Garbled \notin {Empty, NoFile}
    /\ \A S \in SUBSET Slug : S \notin {NoFile, Empty, Garbled}
    /\ InitFile \subseteq Password \cup {NoPassword}
    /\ OnExisting \subseteq {"fail", "keep", "alter"}
    /\ KeyOnDisk \in BOOLEAN
    /\ Crashes \in Nat /\ Pips \in Nat

VARIABLES
    venv,        \* root disk: the installed releases
    enabled,     \* root disk: the units are enabled
    service,     \* exordos_metapaas.conf: its password, Empty, Garbled or NoFile
    coreAgent,   \* core_agent.conf: its slugs, Empty, Garbled or NoFile
    role,        \* PostgreSQL: the role's password, or NoRole
    migrated,    \* PostgreSQL: releases whose migrations are applied
    seeded,      \* PostgreSQL: the node's NodeEncryptionKey is there
    boot,        \* the next step of cp_bootstrap.sh
    supplied,    \* GC_PG_PASS of the init file, at the last power on
    generated,   \* passwords generated so far
    step,        \* the next step of the boot's render-config, or of the installer
    pass,        \* GC_PG_PASS of the script, or of the installer's render-config
    found,       \* the slugs each one works on
    lost,        \* history: what stopped last left a config without the role's
                 \* password, or the boot read one while it was being written
    beside,      \* history: an installer's pip ran beside this boot
    crashes, pips

rootDisk == <<venv, enabled>>
database == <<role, migrated, seeded>>
persistentVars == <<service, coreAgent, database>>
processVars == <<step, pass, found>>
bounds == <<crashes, pips>>
vars == <<rootDisk, persistentVars, boot, supplied, generated, processVars, lost, beside,
          bounds>>

BootStep == {"off", "password", "role", "render", "migrate", "seed", "enable",
             "up", "failed"}

(* The processes that run render-config: the boot script and one installer, *)
(* a child of the gservice or of an operator's shell.                      *)
Renderer == {"boot", "installer"}
WriteStep == {"open", "write", "openAgent", "writeAgent"}
InstallerStep == {"none", "migrate", "render"} \cup WriteStep

TypeOK ==
    /\ venv \in Venv
    /\ enabled \in BOOLEAN
    /\ service \in Password \cup {Empty, Garbled, NoFile}
    /\ coreAgent \in {Empty, Garbled, NoFile} \cup SUBSET Slug
    /\ role \in Password \cup {NoRole}
    /\ migrated \subseteq Slug \X Version
    /\ seeded \in BOOLEAN
    /\ boot \in BootStep
    /\ supplied \in InitFile
    /\ generated \subseteq Generable
    /\ step \in [Renderer -> InstallerStep]
    /\ pass \in [Renderer -> Password \cup {NoPassword}]
    /\ found \in [Renderer -> SUBSET Slug]
    /\ lost \in BOOLEAN /\ beside \in BOOLEAN
    /\ crashes \in 0..Crashes /\ pips \in 0..Pips

Init ==
    /\ venv = NothingInstalled /\ enabled = FALSE
    /\ service = NoFile /\ coreAgent = NoFile
    /\ role = NoRole /\ migrated = {} /\ seeded = FALSE
    /\ boot = "off" /\ supplied \in InitFile /\ generated = {}
    /\ step = [r \in Renderer |-> "none"]
    /\ pass = [r \in Renderer |-> NoPassword]
    /\ found = [r \in Renderer |-> {}]
    /\ lost = FALSE /\ beside = FALSE
    /\ crashes = Crashes /\ pips = Pips

(* A process that ends forgets what it worked with; the script's password  *)
(* is of no use to it after its render.                                    *)
Ends(r) ==
    /\ step' = [step EXCEPT ![r] = "none"]
    /\ pass' = [pass EXCEPT ![r] = NoPassword]
    /\ found' = [found EXCEPT ![r] = {}]

-----------------------------------------------------------------------------
(* cp_bootstrap.sh; set -e: what fails ends it.                            *)

PowerOn ==
    /\ boot = "off"
    /\ boot' = "password"
    /\ supplied' \in InitFile
    /\ pass' = [pass EXCEPT !["boot"] = supplied']
    /\ beside' = FALSE
    /\ UNCHANGED <<rootDisk, persistentVars, generated, step, found, lost, bounds>>

(* Mutant: the config is never asked.                                      *)
NeverRead == NoPassword

(* Mutant: whatever the config holds is taken for a password.              *)
ReadAnything == IF service = NoFile THEN NoPassword ELSE service

ReadByBoot == IF service \in Password THEN BootReads[service] ELSE NoPassword

(* Supplied, else read from the config, else a new one.  A config that an  *)
(* installer is writing is read as it is.                                  *)
ResolvePassword ==
    /\ boot = "password"
    /\ \/ /\ pass["boot"] # NoPassword
          /\ UNCHANGED <<pass, generated, lost>>
       \/ /\ pass["boot"] = NoPassword /\ ReadByBoot # NoPassword
          /\ pass' = [pass EXCEPT !["boot"] = ReadByBoot]
          /\ UNCHANGED <<generated, lost>>
       \/ /\ pass["boot"] = NoPassword /\ ReadByBoot = NoPassword /\ service # Garbled
          /\ \E new \in Generable \ generated :
                /\ pass' = [pass EXCEPT !["boot"] = new]
                /\ generated' = generated \cup {new}
          /\ lost' = (lost \/ step["installer"] = "write")
    /\ boot' = "role"
    /\ UNCHANGED <<rootDisk, persistentVars, supplied, step, found, beside, bounds>>

(* "First boot only" is: there is no config file.                          *)
SetupRole ==
    /\ boot = "role"
    /\ boot' = "render"
    /\ \/ (service # NoFile \/ (role # NoRole /\ "keep" \in OnExisting)) /\ UNCHANGED role
       \/ /\ service = NoFile /\ (role = NoRole \/ "alter" \in OnExisting)
          /\ role' = pass["boot"]
    /\ UNCHANGED <<rootDisk, service, coreAgent, migrated, seeded, supplied, generated,
                   processVars, lost, beside, bounds>>

(* Mutant: plugins are migrated on the first boot only.                    *)
FirstBootMigrations ==
    IF migrated = {} THEN {sv \in SlugVersions(venv) : sv[1] \in Migrating} ELSE {}

(* What the registry says is installed and has migrations; a discovery     *)
(* that raises in "for mpath in $(...)" goes unnoticed.                    *)
PluginMigrations ==
    {sv \in SlugVersions(venv) : sv[1] \in Migrating /\ DiscoverOk(venv)}

(* What an installer's ra-apply-migration is given: its targets.           *)
InstallerMigrations ==
    {sv \in SlugVersions(venv) : sv[1] \in Migrating \cap found["installer"]}

(* Two ra-apply-migration that apply the same migrations.                  *)
Collision ==
    /\ boot = "migrate" /\ step["installer"] = "migrate"
    /\ (PluginMigrations \cap InstallerMigrations) \ migrated # {}

(* ra-apply-migration connects with the password of the config; it is      *)
(* applied to every installed plugin.                                      *)
ApplyMigrations ==
    /\ boot = "migrate"
    /\ service = role
    /\ migrated' = migrated \cup PluginMigrations
    /\ boot' = "seed"
    /\ UNCHANGED <<rootDisk, service, coreAgent, role, seeded, supplied, generated,
                   processVars, lost, beside, bounds>>

(* A key that the database has already stays as it is; a node without one  *)
(* passes over the step before it connects.                                *)
SeedKey ==
    /\ boot = "seed"
    /\ KeyOnDisk => service = role
    /\ seeded' = (seeded \/ KeyOnDisk)
    /\ boot' = "enable"
    /\ UNCHANGED <<rootDisk, service, coreAgent, role, migrated, supplied, generated,
                   processVars, lost, beside, bounds>>

(* configparser raises on a config that does not parse, the role setup may *)
(* on a role that exists, discovery on a plugin that does not load, and    *)
(* what connects on another password or a config that is not written yet.  *)
BootFails ==
    /\ \/ boot = "password" /\ pass["boot"] = NoPassword /\ service = Garbled
       \/ boot = "role" /\ service = NoFile /\ role # NoRole /\ "fail" \in OnExisting
       \/ boot = "render" /\ step["boot"] = "none" /\ ~DiscoverOk(venv)
       \/ boot \in {"migrate", "seed"} /\ service # role
       \/ Collision
    /\ boot' = "failed"
    /\ Ends("boot")
    /\ UNCHANGED <<rootDisk, persistentVars, supplied, generated, lost, beside, bounds>>

(* Units that run already are left running.                                *)
EnableServices ==
    /\ boot = "enable"
    /\ boot' = "up"
    /\ enabled' = TRUE
    /\ UNCHANGED <<venv, persistentVars, supplied, generated, processVars, lost, beside,
                   bounds>>

-----------------------------------------------------------------------------
(* The installer's pip, migrations and render: while the units run, beside *)
(* the boot script of a node that kept its root disk or after it.          *)

(* It discovers before its pip and after it; what was added, or else all,  *)
(* is migrated.                                                            *)
Pip ==
    /\ enabled /\ boot # "off"
    /\ step["installer"] = "none" /\ DiscoverOk(venv)
    /\ pips > 0 /\ pips' = pips - 1
    /\ \E d \in Dist, v \in Version : venv[d] # v /\ venv' = [venv EXCEPT ![d] = v]
    /\ LET added == Discovered(venv') \ Discovered(venv)
           targets == IF added # {} THEN added ELSE Discovered(venv')
       IN  IF DiscoverOk(venv')
           THEN /\ step' = [step EXCEPT !["installer"] = "migrate"]
                /\ found' = [found EXCEPT !["installer"] = targets]
           ELSE UNCHANGED <<step, found>>
    /\ beside' = (beside \/ boot # "up")
    /\ UNCHANGED <<enabled, persistentVars, boot, supplied, generated, pass, lost, crashes>>

InstallerMigrates ==
    /\ step["installer"] = "migrate"
    /\ InstallerMigrations # {} => service = role
    /\ migrated' = migrated \cup InstallerMigrations
    /\ step' = [step EXCEPT !["installer"] = "render"]
    /\ UNCHANGED <<rootDisk, service, coreAgent, role, seeded, boot, supplied, generated,
                   pass, found, lost, beside, bounds>>

(* _collect_env: the environment, else what the old config holds.          *)
Recovered(env) ==
    IF env # NoPassword \/ service \notin Password THEN env ELSE RenderReads[service]

(* A migration fails, or render-config has no password: the run ends.      *)
InstallerFails ==
    /\ \/ /\ step["installer"] = "migrate"
          /\ Collision \/ (InstallerMigrations # {} /\ service # role)
       \/ step["installer"] = "render" /\ Recovered(NoPassword) = NoPassword
    /\ Ends("installer")
    /\ UNCHANGED <<rootDisk, persistentVars, boot, supplied, generated, lost, beside,
                   bounds>>

-----------------------------------------------------------------------------
(* render-config: main() of render_config.py.                              *)

(* The boot's has GC_PG_PASS in its environment, an installer's has none.  *)
RenderStart(r) ==
    /\ \/ r = "boot" /\ boot = "render" /\ step[r] = "none"
       \/ r = "installer" /\ step[r] = "render"
    /\ DiscoverOk(venv)
    /\ LET env == IF r = "boot" THEN pass[r] ELSE NoPassword
       IN  Recovered(env) # NoPassword /\ pass' = [pass EXCEPT ![r] = Recovered(env)]
    /\ found' = [found EXCEPT ![r] = Discovered(venv)]
    /\ step' = [step EXCEPT ![r] = "open"]
    /\ UNCHANGED <<rootDisk, persistentVars, boot, supplied, generated, lost, beside,
                   bounds>>

RenderStepTo(r, next) ==
    /\ step' = [step EXCEPT ![r] = next]
    /\ UNCHANGED <<rootDisk, database, boot, supplied, generated, pass, found, lost, beside,
                   bounds>>

OpenService(r) ==
    /\ step[r] = "open" /\ service' = Empty
    /\ RenderStepTo(r, "write") /\ UNCHANGED coreAgent

(* Written over what the other one wrote after this one's open, a shorter  *)
(* text leaves the end of a longer one.                                    *)
WriteService(r) ==
    /\ step[r] = "write"
    /\ \/ service' = pass[r]
       \/ service \notin {Empty, pass[r]} /\ service' = Garbled
    /\ RenderStepTo(r, "openAgent") /\ UNCHANGED coreAgent

OpenAgent(r) ==
    /\ step[r] = "openAgent" /\ coreAgent' = Empty
    /\ RenderStepTo(r, "writeAgent") /\ UNCHANGED service

WriteAgent(r) ==
    /\ step[r] = "writeAgent"
    /\ \/ coreAgent' = found[r]
       \/ coreAgent \notin {Empty, found[r]} /\ coreAgent' = Garbled
    /\ Ends(r)
    /\ boot' = IF r = "boot" THEN "migrate" ELSE boot
    /\ UNCHANGED <<rootDisk, service, database, supplied, generated, lost, beside, bounds>>

-----------------------------------------------------------------------------
Forgotten == role # NoRole /\ service # role

(* Every process ends with the node.                                       *)
PowerOff ==
    /\ boot' = "off"
    /\ step' = [r \in Renderer |-> "none"]
    /\ pass' = [r \in Renderer |-> NoPassword]
    /\ found' = [r \in Renderer |-> {}]
    /\ lost' = Forgotten
    /\ UNCHANGED <<persistentVars, supplied, generated, beside, pips>>

(* A new root disk has no plugins, and no unit enabled.                    *)
Crash ==
    /\ boot # "off"
    /\ crashes > 0 /\ crashes' = crashes - 1
    /\ \/ UNCHANGED rootDisk
       \/ venv' = NothingInstalled /\ enabled' = FALSE
    /\ PowerOff

Reboot == boot = "failed" /\ PowerOff /\ UNCHANGED <<rootDisk, crashes>>

(* The gservice is restarted, and its install command dies with it.        *)
InstallerKilled ==
    /\ step["installer"] # "none"
    /\ crashes > 0 /\ crashes' = crashes - 1
    /\ Ends("installer")
    /\ lost' = (lost \/ (step["installer"] = "write" /\ Forgotten))
    /\ UNCHANGED <<rootDisk, persistentVars, boot, supplied, generated, beside, pips>>

RenderNext(r) ==
    \/ RenderStart(r) \/ OpenService(r) \/ WriteService(r) \/ OpenAgent(r) \/ WriteAgent(r)

BootNext ==
    \/ PowerOn \/ ResolvePassword \/ SetupRole \/ ApplyMigrations \/ SeedKey
    \/ BootFails \/ EnableServices \/ RenderNext("boot")

InstallerNext == InstallerMigrates \/ InstallerFails \/ RenderNext("installer")

Next == BootNext \/ InstallerNext \/ Pip \/ Crash \/ InstallerKilled \/ Reboot

Spec == Init /\ [][Next]_vars

FairSpec == Spec /\ WF_vars(BootNext) /\ WF_vars(InstallerNext)

-----------------------------------------------------------------------------
(* Properties *)

Connecting == boot \in {"migrate", "seed", "enable"}

(* A boot that gets past its render connects with the role's password when *)
(* it is supplied and no installer runs beside it.  With it or with none   *)
(* supplied, boot and services do, unless an installer is just writing the *)
(* config, as long as the password is one that both programs read back,    *)
(* nothing stopped in the middle of writing it and the boot did not read   *)
(* it while an installer was (lines 74-119: recover, generate, create,     *)
(* render, beside the units that line 181 has enabled).                    *)
ConnectsUnlessLost ==
    /\ (Connecting /\ supplied = role /\ ~beside) => service = role
    /\ /\ Connecting \/ boot = "up"
       /\ supplied \in {NoPassword, role}
       /\ step["installer"] # "write"
       => lost \/ role \notin Plain \/ service = role

(* Whatever installs were interrupted before it, a boot that reaches the   *)
(* services has seeded the node's key, and unless an installer ran beside  *)
(* it has migrated every installed plugin and rendered exactly their       *)
(* kinds, even if an earlier one was cut between these steps or had an     *)
(* installer beside it (lines 113-176).                                    *)
BootRepairs ==
    boot = "enable" =>
        /\ KeyOnDisk => seeded
        /\ ~beside => /\ coreAgent = Discovered(venv)
                      /\ \A s \in Discovered(venv) : Migrated(venv, migrated, s)

(* A node that is not crashed any more comes up: with the role's password  *)
(* in its init file, or with none there and one in the config that the     *)
(* boot reads back; or an installer beside the boot has failed it and left *)
(* a config with the role's password for the next one.  A plugin on its    *)
(* disk that makes discovery raise fails the boot at its render.           *)
ComesUpUnlessLost ==
    <>[](\/ boot = "up"
         \/ boot = "failed" /\ beside /\ service = role
         \/ lost \/ ~DiscoverOk(venv)
         \/ supplied \notin {NoPassword, role}
         \/ role \notin Plain /\ (supplied # role \/ beside))

-----------------------------------------------------------------------------
(* What the comments say and the code does not do *)

(* Recovering the password from the config "prevents a newly generated     *)
(* password from diverging from the PostgreSQL role password" (lines       *)
(* 74-76).  But a crash may leave the config empty.                        *)
PasswordNeverDiverges == boot = "migrate" => service = role
=============================================================================
