--------------------------- MODULE DemoDataPlane ----------------------------
(***************************************************************************)
(* The nodes of the demo instance (metapaas_demo/dataplane/driver.py),     *)
(* composed with its control plane.  Two programs write the env file of a  *)
(* node, with different comments around the same name: Core's config       *)
(* delivery (external), from the config of the infra builder, and the      *)
(* capability driver, from the payload of the PaaS builder.  Either may be *)
(* given a new name before the other.                                      *)
(***************************************************************************)
EXTENDS DemoInstance

CONSTANTS
    Padded,      \* names that end in blanks
    Stripped,    \* such a name without them
    NoFile, NoMeta

Content == [by: {"config", "driver"}, name: Name]

ASSUME DataPlaneAssumption ==
    /\ Padded \subseteq Name /\ Stripped \notin Name
    /\ NoFile \notin Content /\ NoFile \notin Name /\ NoMeta \notin Name

VARIABLES
    file,        \* by node: the env file
    tmp,         \* by node: the name in the .tmp file about to be renamed
    meta         \* by node: the name in the driver's meta file

nodeVars == <<file, tmp, meta>>
vars == <<cpVars, nodeVars>>

DataPlaneTypeOK ==
    /\ TypeOK
    /\ file \in [Node -> Content \cup {NoFile}]
    /\ tmp \in [Node -> Name \cup {NoFile}]
    /\ meta \in [Node -> Name \cup {NoMeta}]

DemoInit ==
    /\ Init
    /\ file = [n \in Node |-> NoFile]
    /\ tmp = [n \in Node |-> NoFile]
    /\ meta = [n \in Node |-> NoMeta]

-----------------------------------------------------------------------------
(* The config delivery: it puts its content back whenever it differs.      *)
ConfigApplies(n) ==
    /\ n \in live
    /\ configs[n] # NoConfig
    /\ file[n] # [by |-> "config", name |-> configs[n]]
    /\ file' = [file EXCEPT ![n] = [by |-> "config", name |-> configs[n]]]
    /\ UNCHANGED <<cpVars, tmp, meta>>

(* Mutant: the defaults are returned, whatever is on the disk.             *)
RestoredDefault(n) == NoMeta

(* restore_from_dp: the name on the disk, in a line that it strips; without *)
(* a file, the one in meta.                                                *)
Restored(n) ==
    IF file[n] = NoFile THEN meta[n]
    ELSE IF file[n].name \in Padded THEN Stripped
    ELSE file[n].name

Scheduled(n) == payload # NoPayload /\ payload.node = n

(* The agent may fetch and decrypt a payload, and target and actual differ. *)
Outdated(n) ==
    /\ n \in live \cap registered \cap keys
    /\ Scheduled(n)
    /\ meta[n] = NoMeta \/ Restored(n) # payload.name
    /\ tmp[n] = NoFile

(* _write_file_atomic: the content is there already.                       *)
DriverUnchanged(n) ==
    /\ Outdated(n)
    /\ file[n] = [by |-> "driver", name |-> payload.name]
    /\ meta' = [meta EXCEPT ![n] = payload.name]
    /\ UNCHANGED <<cpVars, file, tmp>>

(* Or it is written to the .tmp file; the library saves meta before or     *)
(* after.                                                                  *)
DriverWrites(n) ==
    /\ Outdated(n)
    /\ file[n] # [by |-> "driver", name |-> payload.name]
    /\ tmp' = [tmp EXCEPT ![n] = payload.name]
    /\ meta' \in {meta, [meta EXCEPT ![n] = payload.name]}
    /\ UNCHANGED <<cpVars, file>>

DriverRenames(n) ==
    /\ n \in live
    /\ tmp[n] # NoFile
    /\ file' = [file EXCEPT ![n] = [by |-> "driver", name |-> tmp[n]]]
    /\ meta' = [meta EXCEPT ![n] = tmp[n]]
    /\ tmp' = [tmp EXCEPT ![n] = NoFile]
    /\ UNCHANGED cpVars

(* delete_from_dp leaves the file. *)
DriverForgets(n) ==
    /\ n \in live
    /\ tmp[n] = NoFile
    /\ meta[n] # NoMeta
    /\ ~Scheduled(n)
    /\ meta' = [meta EXCEPT ![n] = NoMeta]
    /\ UNCHANGED <<cpVars, file, tmp>>

(* The agent is killed before its rename, or after it and before the       *)
(* library has saved the meta file.                                        *)
AgentCrash(n) ==
    /\ tmp[n] # NoFile
    /\ Spend
    /\ tmp' = [tmp EXCEPT ![n] = NoFile]
    /\ file' \in {file, [file EXCEPT ![n] = [by |-> "driver", name |-> tmp[n]]]}
    /\ UNCHANGED <<row, request, builderVars, paasVars, coreVars, meta>>

(* Someone removes the env file.                                           *)
FileLost(n) ==
    /\ file[n] # NoFile
    /\ Spend
    /\ file' = [file EXCEPT ![n] = NoFile]
    /\ UNCHANGED <<row, request, builderVars, paasVars, coreVars, tmp, meta>>

-----------------------------------------------------------------------------
(* The files of a node go with it. *)
DisksGo ==
    /\ file' = [n \in Node |-> IF n \in live' THEN file[n] ELSE NoFile]
    /\ tmp' = [n \in Node |-> IF n \in live' THEN tmp[n] ELSE NoFile]
    /\ meta' = [n \in Node |-> IF n \in live' THEN meta[n] ELSE NoMeta]

Driver(n) ==
    DriverUnchanged(n) \/ DriverWrites(n) \/ DriverRenames(n) \/ DriverForgets(n)

DemoNext ==
    \/ Next /\ DisksGo
    \/ \E n \in Node : ConfigApplies(n) \/ Driver(n) \/ AgentCrash(n) \/ FileLost(n)

DemoSpec == DemoInit /\ [][DemoNext]_vars

(* The engine calls both builders again and again, but owes an instance    *)
(* nothing once it has rolled back its transaction; Core reconciles its    *)
(* node set, reports it and delivers configs; an agent registers, polls    *)
(* and is restarted.  Edits, deletions, losses and faults are never owed.  *)
ControlPlaneFairness ==
    /\ WF_vars((InfraRead \/ InfraBootstrap \/ InfraActualize \/ SaveRaises \/ InfraDelete)
               /\ DisksGo)
    /\ WF_vars((PaaSBuild \/ PaaSRemove) /\ ~refused /\ DisksGo)

CoreFairness ==
    /\ WF_vars(CoreProvision /\ DisksGo)
    /\ WF_vars(CoreReport /\ DisksGo)
    /\ WF_vars(CoreRemove /\ DisksGo)
    /\ \A n \in Node :
          /\ WF_vars(AgentRegisters(n) /\ DisksGo)
          /\ WF_vars(ConfigApplies(n))
          /\ WF_vars(Driver(n))

FairDemoSpec == DemoSpec /\ ControlPlaneFairness /\ CoreFairness

-----------------------------------------------------------------------------
(* Properties *)

(* Everything says what the row says.                                      *)
Converged ==
    /\ row.status = "ACTIVE"
    /\ setDisk = row.disk
    /\ \E n \in live :
          /\ row.ips = {n}
          /\ n \in keys
          /\ configs = [m \in Node |-> IF m = n THEN row.name ELSE NoConfig]
          /\ payload = [node |-> n, name |-> row.name]
          /\ file[n] # NoFile /\ file[n].name = row.name

(* Whatever edits, lost nodes and files, failed ticks and killed agents    *)
(* there were, the node set, its keys and configs, the payload and the env *)
(* file of the instance come to agree with its row and stay so, unless its *)
(* name is one that the API takes and the PaaS builder raises on, or the   *)
(* builder came before the agent of the node had registered and no later   *)
(* call has made up for it: "stuck", as DESIGN.md says (lines 246-252, 295) *)
(* (builder.py of infra, lines 60-144, and of paas, 53-86; driver.py).     *)
ConvergesToRow ==
    <>[](row = NoRow \/ row.name \in Long \/ refused \/ Converged)

(* A deleted instance leaves no target and no node behind, also when it is *)
(* deleted between the read and the save of a tick (lines 146-166).        *)
DeletionCompletes ==
    (row = NoRow) ~>
        [](row = NoRow /\ setDisk = NoSet /\ configs = NoConfigs
           /\ payload = NoPayload /\ live = {})

(* The two writers of the env file do not fight: writes end, although the  *)
(* contents differ (driver.py, lines 68-90; DESIGN.md, "DP Driver          *)
(* Idempotency").  They do for a name that the driver does not read back,  *)
(* and for one that only the config delivery is given.                     *)
WritesEnd ==
    <>[][file' = file \/ (row # NoRow /\ row.name \in Padded \cup Long)]_vars
=============================================================================
