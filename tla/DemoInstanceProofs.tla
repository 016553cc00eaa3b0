------------------------- MODULE DemoInstanceProofs -------------------------
(***************************************************************************)
(* The disk of the demo's node set never shrinks, for any nodes, names,    *)
(* sizes and number of events, if API requests do not overlap.             *)
(***************************************************************************)
EXTENDS DemoInstance, TLAPS

(* There is a node that was never used, as long as not all were.           *)
LEMMA NewNodeExists ==
    ASSUME used \subseteq Node, used # Node
    PROVE  NewNode \in Node \ used
<1>1. \E n \in Node : n \notin used
  OBVIOUS
<1> QED
  BY <1>1, Zenon DEF NewNode

(* No step of the control plane takes a variable out of its domain.        *)
LEMMA ControlPlaneTypeStep ==
    ASSUME TypeOK, [Next]_cpVars
    PROVE  TypeOK'
<1> USE DemoAssumption, DemoNullAssumption DEF TypeOK, paasVars
<1>0. CASE UNCHANGED cpVars
  BY <1>0 DEF cpVars, builderVars, paasVars, coreVars
<1>1. ASSUME NEW c \in Client, EditRead(c) PROVE TypeOK'
  BY <1>1 DEF EditRead, Spend, builderVars, paasVars, coreVars
<1>2. ASSUME NEW c \in Client, EditWrite(c) PROVE TypeOK'
  <2>1. row' \in Row
    BY <1>2 DEF EditWrite, Row
  <2> QED
    BY <1>2, <2>1 DEF EditWrite, builderVars, paasVars, coreVars
<1>3. ASSUME NEW c \in Client, EditRaises(c) PROVE TypeOK'
  BY <1>3 DEF EditRaises, builderVars, paasVars, coreVars
<1>4. CASE Delete
  <2>1. row' = NoRow /\ refused' = FALSE
    BY <1>4 DEF Delete
  <2>2. left' \in 0..Events
    BY <1>4 DEF Delete, Spend
  <2>3. UNCHANGED <<request, builderVars, payload, coreVars>>
    BY <1>4 DEF Delete
  <2> QED
    BY <2>1, <2>2, <2>3 DEF builderVars, coreVars
<1>5. CASE InfraRead
  BY <1>5 DEF InfraRead, coreVars
<1>6. ASSUME NEW status \in InstanceStatus, NEW ips \in SUBSET Node, Commit(status, ips)
      PROVE  /\ row' \in Row /\ setDisk' \in Disk /\ tick' = NoTick
             /\ UNCHANGED <<request, paasVars, live, reported, used, registered, left>>
  BY <1>6 DEF Commit, GetInfra, Row, coreVars
<1>7. CASE InfraBootstrap
  <2>1. "IN_PROGRESS" \in InstanceStatus /\ tick.row.ips \in SUBSET Node
    BY <1>7 DEF InfraBootstrap, InstanceStatus, Row
  <2> QED
    BY <1>6, <1>7, <2>1 DEF InfraBootstrap
<1>8. CASE InfraActualize
  <2>1. tick.actual \in NodeSet /\ tick.row \in Row
    BY <1>8 DEF InfraActualize
  <2>2. StatusOf(tick.actual.status) \in InstanceStatus
    BY DEF StatusOf, InstanceStatus
  <2>3. Addresses(tick.actual, tick.row.ips) \in SUBSET Node
    BY <2>1 DEF Addresses, NodeSet, Row
  <2>4. configs' \in [Node -> Name \cup {NoConfig}]
    BY <1>8, <2>1 DEF InfraActualize, Row
  <2>5. keys' \subseteq Node
    BY <1>8 DEF InfraActualize
  <2> QED
    BY <1>6, <1>8, <2>2, <2>3, <2>4, <2>5 DEF InfraActualize
<1>9. CASE KeysFail
  BY <1>9 DEF KeysFail, EndTick, Spend, coreVars
<1>10. CASE SaveRaises
  BY <1>10 DEF SaveRaises, EndTick, coreVars
<1>11. CASE InfraDelete
  BY <1>11 DEF InfraDelete, NoConfigs, coreVars
<1>12. CASE PaaSBuild
  <2>1. PICK n \in registered : CanBuild(n) /\ payload' = [node |-> n, name |-> row.name]
    BY <1>12 DEF PaaSBuild, BuiltPayload
  <2>2. n \in Node /\ row.name \in Name
    BY <2>1 DEF CanBuild, Row
  <2> QED
    BY <1>12, <2>1, <2>2 DEF PaaSBuild, builderVars, coreVars
<1>13. CASE PaaSRefused \/ PaaSRemove
  BY <1>13 DEF PaaSRefused, PaaSRemove, builderVars, coreVars
<1>14. CASE CoreProvision
  BY <1>14, NewNodeExists DEF CoreProvision, builderVars
<1>15. CASE CoreLose
  BY <1>15 DEF CoreLose, Spend, builderVars
<1>16. CASE CoreReportEarly
  BY <1>16 DEF CoreReportEarly, NodeSet, SetStatus, InstanceStatus, builderVars
<1>17. CASE CoreReport
  BY <1>17 DEF CoreReport, NodeSet, SetStatus, InstanceStatus, builderVars
<1>18. CASE CoreRemove
  BY <1>18 DEF CoreRemove, builderVars
<1>19. ASSUME NEW n \in Node, AgentRegisters(n) PROVE TypeOK'
  BY <1>19 DEF AgentRegisters, builderVars
<1> QED
  BY <1>0, <1>1, <1>2, <1>3, <1>4, <1>5, <1>7, <1>8, <1>9, <1>10, <1>11, <1>12, <1>13,
     <1>14, <1>15, <1>16, <1>17, <1>18, <1>19
  DEF Next, Api, InfraBuilder, PaaSBuilder, Core

(* The control plane starts with every variable in its domain.             *)
LEMMA InitTypeOK == Init => TypeOK
<1> SUFFICES ASSUME Init PROVE TypeOK
  OBVIOUS
<1> USE DEF Init
<1>1. row \in Row
  BY DemoAssumption DEF Row, InstanceStatus
<1>2. left \in 0..Events
  BY DemoAssumption
<1>r. refused = FALSE
  OBVIOUS
<1>3. /\ request \in [Client -> Row \cup {NoRow}]
      /\ configs \in [Node -> Name \cup {NoConfig}]
  BY DEF NoConfigs
<1>4. tick = NoTick /\ setDisk = NoSet /\ payload = NoPayload /\ reported = NoSet
  OBVIOUS
<1>5. keys = {} /\ live = {} /\ used = {} /\ registered = {}
  OBVIOUS
<1> QED
  BY <1>1, <1>2, <1>3, <1>4, <1>5, <1>r DEF TypeOK

(* Every variable of the demo's control plane stays in its domain, for any *)
(* number of overlapping requests.                                         *)
THEOREM DemoTypeCorrect == Spec => []TypeOK
<1>1. Init => TypeOK
  BY InitTypeOK
<1> QED
  BY <1>1, ControlPlaneTypeStep, PTL DEF Spec

-----------------------------------------------------------------------------
(* What a request has read is at least the row, the row at least what a    *)
(* tick has read, and that at least what Core was asked for.               *)
DiskChain ==
    /\ row # NoRow => \A c \in Client : request[c] # NoRow => request[c].disk >= row.disk
    /\ row # NoRow /\ tick # NoTick => row.disk >= tick.row.disk
    /\ tick # NoTick /\ setDisk # NoSet => tick.row.disk >= setDisk
    /\ row # NoRow /\ setDisk # NoSet => row.disk >= setDisk

(* The sizes that are compared are numbers.                                *)
LEMMA DiskNumbers ==
    ASSUME TypeOK
    PROVE  /\ row # NoRow => row.disk \in Nat
           /\ \A c \in Client : request[c] # NoRow => request[c].disk \in Nat
           /\ tick # NoTick => tick.row.disk \in Nat
           /\ setDisk # NoSet => setDisk \in Nat
<1> USE DemoAssumption DEF TypeOK
<1>1. row # NoRow => row.disk \in Nat
  BY DEF Row
<1>2. ASSUME NEW c \in Client, request[c] # NoRow PROVE request[c].disk \in Nat
  <2>1. request[c] \in Row
    BY <1>2
  <2> QED
    BY <2>1 DEF Row
<1>3. tick # NoTick => tick.row.disk \in Nat
  BY DEF Row
<1> QED
  BY <1>1, <1>2, <1>3

(* One step keeps the chain, and does not shrink the disk.                 *)
LEMMA DiskStep ==
    ASSUME OneWriter, TypeOK, DiskChain, [Next]_cpVars
    PROVE  /\ DiskChain'
           /\ (setDisk # NoSet /\ setDisk' # NoSet) => setDisk' >= setDisk
<1> USE DiskNumbers DEF DiskChain
<1>r. request \in [Client -> Row \cup {NoRow}]
  BY DEF TypeOK
<1>0. CASE UNCHANGED cpVars
  BY <1>0 DEF cpVars, builderVars, paasVars, coreVars
<1>1. ASSUME NEW c \in Client, EditRead(c)
      PROVE  DiskChain' /\ setDisk' = setDisk
  <2>1. \A c1 \in Client : request'[c1] = request[c1] \/ request'[c1] = row
    BY <1>1, <1>r DEF EditRead
  <2>2. UNCHANGED <<row, tick, setDisk>>
    BY <1>1 DEF EditRead, builderVars
  <2> QED
    BY <2>1, <2>2
<1>2. ASSUME NEW c \in Client, EditWrite(c)
      PROVE  DiskChain' /\ setDisk' = setDisk
  <2>1. row # NoRow /\ row'.disk \in Nat /\ row'.disk >= row.disk
    <3>1. request[c] # NoRow /\ row # NoRow /\ request[c] \in Row /\ row \in Row
      BY <1>2, <1>r DEF EditWrite, TypeOK
    <3>2. PICK name \in Name, disk \in Disk :
             /\ Validates(request[c].disk, disk)
             /\ row' = IF WholeRow
                       THEN [request[c] EXCEPT !.name = name, !.disk = disk]
                       ELSE [row EXCEPT
                               !.name = IF name = request[c].name THEN @ ELSE name,
                               !.disk = IF disk = request[c].disk THEN @ ELSE disk]
      BY <1>2 DEF EditWrite
    <3>3. row'.disk = disk \/ row'.disk = row.disk
      BY <3>1, <3>2 DEF Row
    <3>4. disk \in Nat /\ disk >= request[c].disk /\ request[c].disk >= row.disk
      BY <3>1, <3>2, DemoAssumption DEF Validates
    <3> QED
      BY <3>1, <3>3, <3>4
  <2>2. \A c1 \in Client : request'[c1] = NoRow
    BY <1>2, <1>r DEF EditWrite, OneWriter
  <2>3. UNCHANGED <<tick, setDisk>>
    BY <1>2 DEF EditWrite, builderVars
  <2> QED
    BY <2>1, <2>2, <2>3
<1>3. ASSUME NEW c \in Client, EditRaises(c)
      PROVE  DiskChain' /\ setDisk' = setDisk
  <2>1. \A c1 \in Client : request'[c1] = request[c1] \/ request'[c1] = NoRow
    BY <1>3, <1>r DEF EditRaises
  <2>2. UNCHANGED <<row, tick, setDisk>>
    BY <1>3 DEF EditRaises, builderVars
  <2> QED
    BY <2>1, <2>2
<1>4. CASE Delete
  BY <1>4 DEF Delete, builderVars
<1>5. CASE InfraRead
  <2>1. tick'.row = row /\ row # NoRow /\ UNCHANGED <<row, request, setDisk>>
    BY <1>5 DEF InfraRead
  <2> QED
    BY <2>1
<1>6. ASSUME NEW status, NEW ips, Commit(status, ips)
      PROVE  DiskChain' /\ (setDisk # NoSet => setDisk' >= setDisk)
  <2>1. /\ tick # NoTick /\ row # NoRow /\ tick' = NoTick
        /\ setDisk' = tick.row.disk /\ UNCHANGED request
    BY <1>6 DEF Commit, GetInfra
  <2>2. tick.row \in Row /\ row \in Row
    BY <2>1 DEF TypeOK
  <2>3. row'.disk = tick.row.disk \/ row'.disk = row.disk
    BY <1>6, <2>2 DEF Commit, Row
  <2> QED
    BY <2>1, <2>3
<1>7. CASE InfraBootstrap \/ InfraActualize
  BY <1>6, <1>7 DEF InfraBootstrap, InfraActualize
<1>8. CASE KeysFail \/ SaveRaises
  BY <1>8 DEF KeysFail, SaveRaises, EndTick
<1>9. CASE InfraDelete
  BY <1>9 DEF InfraDelete
<1>10. CASE PaaSBuilder \/ Core
  <2>1. UNCHANGED <<row, request, tick, setDisk>>
    BY <1>10 DEF PaaSBuilder, PaaSBuild, PaaSRefused, PaaSRemove, Core, CoreProvision, CoreLose,
                 CoreLose, CoreReportEarly, CoreReport, CoreRemove, AgentRegisters,
                 builderVars
  <2> QED
    BY <2>1
<1> QED
  BY <1>0, <1>1, <1>2, <1>3, <1>4, <1>5, <1>7, <1>8, <1>9, <1>10
  DEF Next, Api, InfraBuilder

(* The node set of the instance never gets a smaller disk.                 *)
THEOREM DiskIsSafe ==
    ASSUME OneWriter
    PROVE  Spec => DiskNeverShrinks
<1>1. Init => DiskChain
  BY DEF Init, DiskChain
<1>2. TypeOK /\ DiskChain /\ [Next]_cpVars => DiskChain'
  BY DiskStep, OneWriter
<1>3. TypeOK /\ DiskChain /\ [Next]_cpVars
        => [(setDisk # NoSet /\ setDisk' # NoSet) => setDisk' >= setDisk]_cpVars
  BY DiskStep, OneWriter
<1>4. QED
  BY <1>1, <1>2, <1>3, DemoTypeCorrect, PTL DEF Spec, DiskNeverShrinks

-----------------------------------------------------------------------------
(* Every node that is reported, or that a call has been told of, is one    *)
(* that Core has provisioned.                                              *)
ProvisionedInv ==
    /\ live \subseteq used
    /\ reported # NoSet => reported.nodes \subseteq used
    /\ tick # NoTick /\ tick.actual # NoSet => tick.actual.nodes \subseteq used

LEMMA ProvisionedStep ==
    ASSUME TypeOK, ProvisionedInv, [Next]_cpVars
    PROVE  ProvisionedInv'
<1> USE DEF ProvisionedInv, builderVars, coreVars
<1>0. CASE UNCHANGED cpVars
  BY <1>0 DEF cpVars
<1>1. CASE Api
  <2>1. UNCHANGED <<tick, live, reported, used>>
    <3>1. ASSUME NEW c \in Client, EditWrite(c)
          PROVE  UNCHANGED <<tick, live, reported, used>>
      BY <3>1 DEF EditWrite
    <3>2. ASSUME NEW c \in Client, EditRead(c) \/ EditRaises(c)
          PROVE  UNCHANGED <<tick, live, reported, used>>
      BY <3>2 DEF EditRead, EditRaises
    <3>3. CASE Delete
      BY <3>3 DEF Delete
    <3> QED BY <1>1, <3>1, <3>2, <3>3 DEF Api
  <2> QED BY <2>1
<1>2. CASE InfraRead
  BY <1>2 DEF InfraRead
<1>3. CASE InfraBootstrap \/ InfraActualize \/ KeysFail \/ SaveRaises \/ InfraDelete
  BY <1>3 DEF InfraBootstrap, InfraActualize, Commit, KeysFail, SaveRaises, EndTick,
     InfraDelete
<1>4. CASE PaaSBuilder
  BY <1>4 DEF PaaSBuilder, PaaSBuild, PaaSRefused, PaaSRemove
<1>5. CASE CoreProvision
  BY <1>5 DEF CoreProvision
<1>6. CASE CoreReportEarly \/ CoreReport
  BY <1>6 DEF CoreReportEarly, CoreReport
<1>7. CASE CoreLose \/ CoreRemove \/ \E n \in Node : AgentRegisters(n)
  BY <1>7 DEF CoreLose, CoreRemove, AgentRegisters
<1> QED
  BY <1>0, <1>1, <1>2, <1>3, <1>4, <1>5, <1>6, <1>7 DEF Next, InfraBuilder, Core

(* What the abstract targets are in the variables of the control plane.    *)
Configured == {n \in Node : configs[n] # NoConfig}
Assigned == IF payload = NoPayload THEN {} ELSE {payload.node}

(* A step that leaves alone what the targets are made of.                  *)
TargetsStutter == UNCHANGED <<row, setDisk, used, configs, payload>>

(* Every step of the control plane is a step of the targets or none.       *)
LEMMA TargetsStep ==
    ASSUME OneWriter, TypeOK, DiskChain, ProvisionedInv, [Next]_cpVars
    PROVE  [Targets!Next]_Targets!targetVars
<1> USE DEF builderVars, paasVars, coreVars
<1>0. ASSUME \/ TargetsStutter
             \/ row # NoRow /\ row' # NoRow /\ UNCHANGED <<setDisk, used, configs, payload>>
      PROVE  [Targets!Next]_Targets!targetVars
  BY <1>0 DEF TargetsStutter, Targets!targetVars
<1>1. CASE UNCHANGED cpVars
  BY <1>0, <1>1 DEF cpVars, TargetsStutter
<1>2. CASE Delete
  BY <1>2 DEF Delete, Targets!Next, Targets!Delete
<1>3. ASSUME NEW c \in Client, EditRead(c) \/ EditWrite(c) \/ EditRaises(c)
      PROVE  [Targets!Next]_Targets!targetVars
  <2>1. row' \in Row \cup {NoRow} /\ request \in [Client -> Row \cup {NoRow}]
    BY ControlPlaneTypeStep DEF TypeOK
  <2>2. CASE EditWrite(c)
    <3>1. row # NoRow /\ UNCHANGED <<setDisk, used, configs, payload>>
      BY <2>2 DEF EditWrite
    <3>2. row' \in Row
      BY <2>1, <2>2 DEF EditWrite, TypeOK, Row
    <3> QED BY <1>0, <3>1, <3>2, DemoNullAssumption
  <2>3. CASE EditRead(c) \/ EditRaises(c)
    BY <1>0, <2>3 DEF EditRead, EditRaises, TargetsStutter
  <2> QED BY <1>3, <2>2, <2>3
<1>4. ASSUME NEW status \in InstanceStatus, NEW ips \in SUBSET Node, Commit(status, ips)
      PROVE  /\ row # NoRow /\ row' # NoRow /\ setDisk' \in Disk /\ UNCHANGED <<used, payload>>
             /\ setDisk # NoSet => setDisk' >= setDisk
  <2>1. row' \in Row /\ tick.row.disk \in Disk
    BY <1>4 DEF Commit, TypeOK, Row
  <2>2. setDisk' = tick.row.disk /\ tick # NoTick
    BY <1>4 DEF Commit, GetInfra
  <2> QED BY <1>4, <2>1, <2>2, DemoNullAssumption DEF Commit, DiskChain
<1>5. CASE InfraBootstrap
  <2>1. "IN_PROGRESS" \in InstanceStatus /\ tick.row.ips \in SUBSET Node
    BY <1>5 DEF InfraBootstrap, InstanceStatus, TypeOK, Row
  <2>2. UNCHANGED configs /\ Commit("IN_PROGRESS", tick.row.ips)
    BY <1>5 DEF InfraBootstrap
  <2> QED BY <1>4, <2>1, <2>2 DEF Targets!Next, Targets!Ask
<1>6. CASE InfraActualize
  <2>1. tick.actual \in NodeSet /\ tick.row \in Row /\ setDisk # NoSet /\ tick # NoTick
    BY <1>6 DEF InfraActualize, TypeOK
  <2>2. StatusOf(tick.actual.status) \in InstanceStatus
    BY DEF StatusOf, InstanceStatus
  <2>3. Addresses(tick.actual, tick.row.ips) \in SUBSET Node
    BY <2>1 DEF Addresses, NodeSet, Row
  <2>4. Configured' \subseteq used
    BY <1>6 DEF InfraActualize, Configured, ProvisionedInv, TypeOK
  <2> QED
    BY <1>4, <1>6, <2>1, <2>2, <2>3, <2>4
    DEF InfraActualize, Configured, Targets!Next, Targets!Configure
<1>7. CASE InfraRead \/ KeysFail \/ SaveRaises
  BY <1>0, <1>7 DEF InfraRead, KeysFail, SaveRaises, EndTick, TargetsStutter
<1>8. CASE InfraDelete
  <2>1. Configured' = {}
    BY <1>8 DEF InfraDelete, NoConfigs, Configured
  <2> QED
    BY <1>8, <2>1 DEF InfraDelete, Configured, Targets!Next, Targets!Remove
<1>9. CASE PaaSBuild
  <2>1. PICK n \in registered : CanBuild(n) /\ payload' = [node |-> n, name |-> row.name]
    BY <1>9 DEF PaaSBuild, BuiltPayload
  <2>2. n \in used /\ payload'.node = n /\ row # NoRow /\ row.name \in Name
    BY <2>1 DEF CanBuild, ProvisionedInv, TypeOK, Row
  <2>3. payload' # NoPayload
    BY <2>1, <2>2, DemoNullAssumption DEF TypeOK
  <2> QED
    BY <1>9, <2>2, <2>3 DEF PaaSBuild, Targets!Next, Targets!Assign
<1>10. CASE PaaSRefused \/ PaaSRemove
  BY <1>0, <1>10 DEF PaaSRefused, PaaSRemove, TargetsStutter, Targets!Next, Targets!Unassign
<1>11. CASE CoreProvision
  <2>1. NewNode \in Node \ used
    BY <1>11, NewNodeExists DEF CoreProvision, TypeOK
  <2> QED
    BY <1>11, <2>1 DEF CoreProvision, Targets!Next, Targets!Provision
<1>12. CASE CoreLose \/ CoreReportEarly \/ CoreReport \/ CoreRemove
            \/ \E n \in Node : AgentRegisters(n)
  BY <1>0, <1>12 DEF CoreLose, CoreReportEarly, CoreReport, CoreRemove, AgentRegisters,
     TargetsStutter
<1> QED
  BY <1>1, <1>2, <1>3, <1>5, <1>6, <1>7, <1>8, <1>9, <1>10, <1>11, <1>12
  DEF Next, Api, InfraBuilder, PaaSBuilder, Core

LEMMA TargetsInit == Init => Targets!Init
<1> SUFFICES ASSUME Init PROVE Targets!Init
  OBVIOUS
<1>1. row # NoRow
  <2>1. row \in Row
    BY DemoAssumption DEF Init, Row, InstanceStatus
  <2> QED BY <2>1, DemoNullAssumption
<1>2. {n \in Node : configs[n] # NoConfig} = {}
  BY DEF Init, NoConfigs
<1> QED BY <1>1, <1>2 DEF Init, Targets!Init

(* The builders implement the abstract targets: a deleted instance does    *)
(* not come back, its node set is not asked for again nor ever shrunk, and *)
(* configs and payload are for nodes that Core has provisioned.            *)
THEOREM BuildersImplementTargets ==
    ASSUME OneWriter
    PROVE  Spec => ImplementsTargets
<1>1. Init => DiskChain /\ ProvisionedInv
  BY DEF Init, DiskChain, ProvisionedInv
<1>2. TypeOK /\ DiskChain /\ ProvisionedInv /\ [Next]_cpVars
        => DiskChain' /\ ProvisionedInv' /\ [Targets!Next]_Targets!targetVars
  BY DiskStep, ProvisionedStep, TargetsStep, OneWriter
<1> QED
  BY <1>1, <1>2, TargetsInit, DemoTypeCorrect, PTL DEF Spec, ImplementsTargets, Targets!Spec
=============================================================================
