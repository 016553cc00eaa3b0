---------------------------- MODULE DemoInstance ----------------------------
(***************************************************************************)
(* The control plane of the demo plugin (metapaas_demo/controlplane): one  *)
(* demo instance, the API that edits and deletes it, the infra builder     *)
(* that turns it into a node set with node keys and configs in Core, and   *)
(* the PaaS builder that turns it into the payload of the agent on its     *)
(* node.  Core and the builder engine of gcl_sdk are external: the engine  *)
(* calls a builder again and again with the instance and what was last     *)
(* reported of its resources, stores what the builder returns, deletes     *)
(* what it no longer returns, and takes nothing of a call that raises.     *)
(***************************************************************************)
EXTENDS Naturals, FiniteSets

CONSTANTS
    Node,        \* nodes Core may provision, each at most once
    Name,        \* names of the instance
    Long,        \* names that the API takes and DemoInstanceNode does not
    Disk,        \* disk sizes
    Client,      \* concurrent API requests that edit the instance
    WholeRow,    \* update() writes every column (TRUE) or the changed ones
    NoRow, NoTick, NoSet, NoConfig, NoPayload,
    Events       \* edits, deletions, lost nodes and faults there may be

ASSUME DemoAssumption ==
    /\ Name # {} /\ Long \subseteq Name /\ Disk \subseteq Nat
    /\ WholeRow \in BOOLEAN
    /\ NoSet \notin Disk /\ NoConfig \notin Name
    /\ Events \in Nat

InstanceStatus == {"NEW", "IN_PROGRESS", "ACTIVE", "ERROR"}

(* "other" is any status of a node set that instances do not have.         *)
SetStatus == InstanceStatus \cup {"other"}

Row == [name: Name, disk: Disk, status: InstanceStatus, ips: SUBSET Node]

(* An actual node set: its nodes, and those that have an address by now.   *)
NodeSet == [nodes: SUBSET Node, addressed: SUBSET Node, status: SetStatus]

ASSUME DemoNullAssumption ==
    /\ NoRow \notin Row /\ NoSet \notin NodeSet
    /\ NoTick \notin [row: Row, actual: NodeSet \cup {NoSet}]
    /\ NoPayload \notin [node: Node, name: Name]

VARIABLES
    row,         \* demo_instances
    request,     \* the row each API request has read, until it updates it
    tick,        \* what the infra builder's call was given, or NoTick
    setDisk,     \* the target node set: its data disk, or NoSet
    configs,     \* the target configs, by node: the name in them
    keys,        \* nodes with a NodeEncryptionKey
    payload,     \* the target DemoInstanceNode
    refused,     \* the database has refused the PaaS builder's last one for the row
    live,        \* Core: the nodes of the set that exist
    reported,    \* the actual node set, as Core last reported it
    used,        \* nodes there ever were
    registered,  \* agents in ua_agents, by node
    left         \* events left

builderVars == <<tick, setDisk, configs, keys>>
paasVars == <<payload, refused>>
coreVars == <<live, reported, used, registered>>
cpVars == <<row, request, builderVars, paasVars, coreVars, left>>

TypeOK ==
    /\ row \in Row \cup {NoRow}
    /\ request \in [Client -> Row \cup {NoRow}]
    /\ tick \in [row: Row, actual: NodeSet \cup {NoSet}] \cup {NoTick}
    /\ setDisk \in Disk \cup {NoSet}
    /\ configs \in [Node -> Name \cup {NoConfig}]
    /\ keys \subseteq Node
    /\ payload \in [node: Node, name: Name] \cup {NoPayload}
    /\ refused \in BOOLEAN
    /\ live \subseteq Node
    /\ reported \in NodeSet \cup {NoSet}
    /\ used \subseteq Node
    /\ registered \subseteq Node
    /\ left \in 0..Events

NoConfigs == [n \in Node |-> NoConfig]

Init ==
    /\ row \in [name: {CHOOSE a \in Name : TRUE}, disk: Disk, status: {"NEW"}, ips: {{}}]
    /\ request = [c \in Client |-> NoRow]
    /\ tick = NoTick
    /\ setDisk = NoSet
    /\ configs = NoConfigs
    /\ keys = {}
    /\ payload = NoPayload /\ refused = FALSE
    /\ live = {}
    /\ reported = NoSet
    /\ used = {}
    /\ registered = {}
    /\ left = Events

Spend ==
    /\ left > 0
    /\ left' = left - 1

-----------------------------------------------------------------------------
(* The API: a request reads the row, changes it and updates it.            *)

EditRead(c) ==
    /\ request[c] = NoRow
    /\ row # NoRow
    /\ Spend
    /\ request' = [request EXCEPT ![c] = row]
    /\ UNCHANGED <<row, builderVars, paasVars, coreVars>>

(* Mutant: update() without its validation.                                *)
AnySize(old, new) == TRUE

(* _validate_update: against the size the request itself has read.         *)
Validates(old, new) == new >= old

EditWrite(c) ==
    /\ request[c] # NoRow
    /\ row # NoRow
    /\ \E name \in Name, disk \in Disk :
          /\ Validates(request[c].disk, disk)
          /\ row' = IF WholeRow
                    THEN [request[c] EXCEPT !.name = name, !.disk = disk]
                    ELSE [row EXCEPT
                            !.name = IF name = request[c].name THEN @ ELSE name,
                            !.disk = IF disk = request[c].disk THEN @ ELSE disk]
    /\ request' = [request EXCEPT ![c] = NoRow]
    /\ UNCHANGED <<builderVars, paasVars, coreVars, left>>

(* The new size is refused, or the row is gone. *)
EditRaises(c) ==
    /\ request[c] # NoRow
    /\ \/ row = NoRow
       \/ \E disk \in Disk : ~Validates(request[c].disk, disk)
    /\ request' = [request EXCEPT ![c] = NoRow]
    /\ UNCHANGED <<row, builderVars, paasVars, coreVars, left>>

Delete ==
    /\ row # NoRow
    /\ Spend
    /\ row' = NoRow
    /\ refused' = FALSE
    /\ UNCHANGED <<request, builderVars, payload, coreVars>>

-----------------------------------------------------------------------------
(* The infra builder.  Between the read and the commit it asks Core for    *)
(* the private keys of the nodes.                                          *)

InfraRead ==
    /\ tick = NoTick
    /\ row # NoRow
    /\ tick' = [row |-> row, actual |-> reported]
    /\ UNCHANGED <<row, request, setDisk, configs, keys, paasVars, coreVars, left>>

(* get_infra: the node set a row asks for, as far as it may change.        *)
GetInfra(instance) == instance.disk

(* Mutant: a row that is gone is inserted again.                           *)
CommitUpserting(status, ips) ==
    /\ tick # NoTick
    /\ row' = [IF WholeRow THEN tick.row ELSE row EXCEPT !.status = status, !.ips = ips]
    /\ setDisk' = GetInfra(tick.row)
    /\ tick' = NoTick
    /\ UNCHANGED <<request, paasVars, coreVars, left>>

(* The engine saves the instance with what the builder assigned.           *)
Commit(status, ips) ==
    /\ tick # NoTick
    /\ row # NoRow
    /\ row' = [IF WholeRow THEN tick.row ELSE row EXCEPT !.status = status, !.ips = ips]
    /\ setDisk' = GetInfra(tick.row)
    /\ tick' = NoTick
    /\ UNCHANGED <<request, paasVars, coreVars, left>>

(* create_infra, and a node set that is not provisioned yet.               *)
InfraBootstrap ==
    /\ tick # NoTick
    /\ setDisk = NoSet \/ tick.actual = NoSet
    /\ Commit("IN_PROGRESS", tick.row.ips)
    /\ UNCHANGED <<configs, keys>>

(* Mutant: the status of the node set is taken as it is.                   *)
StatusCopied(status) == status

(* A status that instances do not have counts as in progress.              *)
StatusOf(status) == IF status \in InstanceStatus THEN status ELSE "IN_PROGRESS"

(* No address is taken from a set without nodes: the old ones stay.        *)
Addresses(actual, old) == IF actual.nodes = {} THEN old ELSE actual.addressed

(* Keys of the nodes that live now, configs for the nodes that were        *)
(* reported before the call.                                               *)
InfraActualize ==
    /\ tick # NoTick
    /\ setDisk # NoSet
    /\ tick.actual # NoSet
    /\ Commit(StatusOf(tick.actual.status), Addresses(tick.actual, tick.row.ips))
    /\ keys' = keys \cup live
    /\ configs' = [n \in Node |->
                      IF n \in tick.actual.nodes THEN tick.row.name ELSE NoConfig]

EndTick ==
    /\ tick' = NoTick
    /\ UNCHANGED <<row, request, setDisk, configs, keys, paasVars, coreVars>>

(* Core does not give the keys.                                            *)
KeysFail ==
    /\ tick # NoTick
    /\ setDisk # NoSet
    /\ tick.actual # NoSet
    /\ Spend
    /\ EndTick

(* The row is gone by the time it is saved.                                *)
SaveRaises ==
    /\ tick # NoTick
    /\ row = NoRow
    /\ EndTick
    /\ UNCHANGED left

(* pre_delete_instance_resource, then the engine deletes the targets.      *)
InfraDelete ==
    /\ tick = NoTick
    /\ row = NoRow
    /\ setDisk # NoSet
    /\ keys' = IF reported = NoSet THEN keys ELSE keys \ reported.nodes
    /\ setDisk' = NoSet
    /\ configs' = NoConfigs
    /\ UNCHANGED <<row, request, tick, paasVars, coreVars, left>>

-----------------------------------------------------------------------------
(* The PaaS builder.  It waits for no dependency: DemoInstance lacks the   *)
(* DependenciesActiveReadinessMixin that DESIGN.md asks of it.             *)

(* Mutant: a node that has its object keeps it as it is.                   *)
KeptPayload(n) ==
    IF payload # NoPayload /\ payload.node = n THEN payload
    ELSE [node |-> n, name |-> row.name]

BuiltPayload(n) == [node |-> n, name |-> row.name]

(* A name that is too long for a DemoInstanceNode raises, time and again.  *)
CanBuild(n) ==
    /\ row # NoRow
    /\ row.name \notin Long
    /\ reported # NoSet
    /\ n \in reported.nodes

PaaSBuild ==
    /\ \E n \in registered : CanBuild(n) /\ payload' = BuiltPayload(n)
    /\ refused' = FALSE
    /\ UNCHANGED <<row, request, builderVars, coreVars, left>>

(* The agent of the node is not registered: the foreign key rolls back the *)
(* whole transaction, and the payload stays what it was.                   *)
PaaSRefused ==
    /\ \E n \in Node \ registered : CanBuild(n)
    /\ refused' = TRUE
    /\ UNCHANGED <<row, request, builderVars, payload, coreVars, left>>

(* No node set is reported, or it has no node; or the instance is deleted. *)
NothingToBuild == row # NoRow /\ reported # NoSet => reported.nodes = {}

PaaSRemove ==
    /\ payload # NoPayload
    /\ NothingToBuild
    /\ payload' = NoPayload /\ refused' = FALSE
    /\ UNCHANGED <<row, request, builderVars, coreVars, left>>

-----------------------------------------------------------------------------
(* Core and the agents (external).                                         *)

(* Nodes have nothing but their identity: which new one it is does not     *)
(* matter.                                                                 *)
NewNode == CHOOSE n \in Node : n \notin used

CoreProvision ==
    /\ setDisk # NoSet
    /\ live = {}
    /\ used # Node
    /\ live' = {NewNode} /\ used' = used \cup {NewNode}
    /\ UNCHANGED <<row, request, builderVars, paasVars, reported, registered, left>>

(* A node is lost, as long as there is another one to take its place.      *)
CoreLose ==
    /\ live # {} /\ used # Node
    /\ Spend
    /\ live' = {}
    /\ UNCHANGED <<row, request, builderVars, paasVars, reported, used, registered>>

(* The nodes before they have addresses, in a status that is not ours. *)
CoreReportEarly ==
    /\ setDisk # NoSet
    /\ live # {}
    /\ reported # NoSet => reported.nodes # live
    /\ reported' = [nodes |-> live, addressed |-> {}, status |-> "other"]
    /\ UNCHANGED <<row, request, builderVars, paasVars, live, used, registered, left>>

CoreReport ==
    /\ setDisk # NoSet
    /\ reported' = [nodes |-> live, addressed |-> live,
                    status |-> IF live = {} THEN "IN_PROGRESS" ELSE "ACTIVE"]
    /\ reported' # reported
    /\ UNCHANGED <<row, request, builderVars, paasVars, live, used, registered, left>>

CoreRemove ==
    /\ setDisk = NoSet
    /\ live # {} \/ reported # NoSet
    /\ live' = {}
    /\ reported' = NoSet
    /\ UNCHANGED <<row, request, builderVars, paasVars, used, registered, left>>

AgentRegisters(n) ==
    /\ n \in live \ registered
    /\ registered' = registered \cup {n}
    /\ UNCHANGED <<row, request, builderVars, paasVars, live, reported, used, left>>

-----------------------------------------------------------------------------
Api == Delete \/ \E c \in Client : EditRead(c) \/ EditWrite(c) \/ EditRaises(c)

InfraBuilder ==
    InfraRead \/ InfraBootstrap \/ InfraActualize \/ KeysFail \/ SaveRaises \/ InfraDelete

PaaSBuilder == PaaSBuild \/ PaaSRefused \/ PaaSRemove

Core ==
    \/ CoreProvision \/ CoreLose \/ CoreReportEarly \/ CoreReport \/ CoreRemove
    \/ \E n \in Node : AgentRegisters(n)

Next == Api \/ InfraBuilder \/ PaaSBuilder \/ Core

Spec == Init /\ [][Next]_cpVars

-----------------------------------------------------------------------------
(* Properties *)

(* "disk_size shrink is not supported": the node set that Core is asked    *)
(* for never gets a smaller disk, although the row itself shrinks when a   *)
(* tick writes back what it read (models.py, lines 61-71).  It needs       *)
(* requests that do not overlap: of two, one may grow what the other read. *)
DiskNeverShrinks ==
    [][(setDisk # NoSet /\ setDisk' # NoSet) => setDisk' >= setDisk]_cpVars

(* The builders implement the abstract targets: whatever row and report a  *)
(* call has worked on, however stale, the instance does not come back, a   *)
(* node set is not shrunk nor asked for after it was removed, and only     *)
(* nodes that Core has had get a config or a payload (builder.py of infra, *)
(* lines 60-166, and of paas, 53-86).  It needs the same of requests.      *)
Targets == INSTANCE InstanceTargets WITH
    Size <- Disk,
    Nothing <- NoSet,
    instance <- row # NoRow,
    target <- setDisk,
    nodes <- used,
    configured <- {n \in Node : configs[n] # NoConfig},
    assigned <- IF payload = NoPayload THEN {} ELSE {payload.node}

ImplementsTargets == Targets!Spec

OneWriter == \A c1, c2 \in Client : c1 = c2
=============================================================================
