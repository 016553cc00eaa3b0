------------------------- MODULE DemoDataPlaneProofs -------------------------
(***************************************************************************)
(* The demo with its nodes keeps what its control plane guarantees: what   *)
(* happens on the nodes is a stutter of the control plane.                 *)
(***************************************************************************)
EXTENDS DemoDataPlane, DemoInstanceProofs

(* Nothing on a node touches the control plane, but for the count of       *)
(* faults; the nodes change with the control plane's steps or alone.       *)
LEMMA NodesStutter ==
    ASSUME [DemoNext]_vars
    PROVE  \/ Next
           \/ /\ UNCHANGED <<row, request, builderVars, paasVars, coreVars>>
              /\ left' = left \/ Spend
<1>1. ASSUME NEW n \in Node, ConfigApplies(n) \/ Driver(n) PROVE UNCHANGED cpVars
  BY <1>1 DEF ConfigApplies, Driver, DriverUnchanged, DriverWrites, DriverRenames,
     DriverForgets
<1>2. ASSUME NEW n \in Node, AgentCrash(n) \/ FileLost(n)
      PROVE  UNCHANGED <<row, request, builderVars, paasVars, coreVars>> /\ Spend
  BY <1>2 DEF AgentCrash, FileLost
<1> QED
  BY <1>1, <1>2 DEF DemoNext, vars, cpVars

(* The control plane of the demo stays in its domains with nodes, too.     *)
LEMMA ControlPlaneTypeCorrect == DemoSpec => []TypeOK
<1>1. DemoInit => TypeOK
  BY InitTypeOK DEF DemoInit
<1>2. TypeOK /\ [DemoNext]_vars => TypeOK'
  <2> SUFFICES ASSUME TypeOK, [DemoNext]_vars PROVE TypeOK'
    OBVIOUS
  <2>1. CASE Next
    BY <2>1, ControlPlaneTypeStep
  <2>2. CASE /\ UNCHANGED <<row, request, builderVars, paasVars, coreVars>>
             /\ left' = left \/ Spend
    BY <2>2, DemoAssumption DEF TypeOK, Spend, builderVars, paasVars, coreVars
  <2> QED
    BY <2>1, <2>2, NodesStutter
<1> QED
  BY <1>1, <1>2, PTL DEF DemoSpec

(* Every variable of the demo, with its nodes, stays in its domain.        *)
THEOREM DataPlaneTypeCorrect == DemoSpec => []DataPlaneTypeOK
<1>1. DemoInit => DataPlaneTypeOK
  <2>1. TypeOK /\ DemoInit => DataPlaneTypeOK
    BY DEF DemoInit, DataPlaneTypeOK
  <2> QED
    BY <2>1, InitTypeOK DEF DemoInit
<1>2. DataPlaneTypeOK /\ TypeOK' /\ [DemoNext]_vars => DataPlaneTypeOK'
  <2> SUFFICES ASSUME DataPlaneTypeOK, TypeOK', [DemoNext]_vars PROVE DataPlaneTypeOK'
    OBVIOUS
  <2> USE DEF DataPlaneTypeOK
  <2>p. \A n \in Node : Scheduled(n) => payload.name \in Name
    BY DEF Scheduled, TypeOK
  <2>1. ASSUME NEW n \in Node, ConfigApplies(n) PROVE DataPlaneTypeOK'
    <3>1. [by |-> "config", name |-> configs[n]] \in Content
      BY <2>1 DEF ConfigApplies, TypeOK, Content
    <3> QED
      BY <2>1, <3>1 DEF ConfigApplies
  <2>2. ASSUME NEW n \in Node, DriverUnchanged(n) \/ DriverWrites(n) PROVE DataPlaneTypeOK'
    <3>1. payload.name \in Name
      BY <2>p, <2>2 DEF DriverUnchanged, DriverWrites, Outdated
    <3> QED
      BY <2>2, <3>1 DEF DriverUnchanged, DriverWrites
  <2>3. ASSUME NEW n \in Node, tmp[n] # NoFile
        PROVE  [by |-> "driver", name |-> tmp[n]] \in Content /\ tmp[n] \in Name
    BY <2>3 DEF Content
  <2>4. ASSUME NEW n \in Node, DriverRenames(n) PROVE DataPlaneTypeOK'
    BY <2>3, <2>4 DEF DriverRenames
  <2>5. ASSUME NEW n \in Node, DriverForgets(n) PROVE DataPlaneTypeOK'
    BY <2>5 DEF DriverForgets
  <2>6. ASSUME NEW n \in Node, AgentCrash(n) PROVE DataPlaneTypeOK'
    BY <2>3, <2>6 DEF AgentCrash
  <2>7. ASSUME NEW n \in Node, FileLost(n) PROVE DataPlaneTypeOK'
    BY <2>7 DEF FileLost
  <2>8. CASE DisksGo
    BY <2>8 DEF DisksGo
  <2>9. CASE UNCHANGED vars
    BY <2>9 DEF vars, nodeVars
  <2> QED
    BY <2>1, <2>2, <2>4, <2>5, <2>6, <2>7, <2>8, <2>9 DEF DemoNext, Driver
<1> QED
  BY <1>1, <1>2, ControlPlaneTypeCorrect, PTL DEF DemoSpec

(* The node set never gets a smaller disk, whatever the nodes do.          *)
THEOREM DiskIsSafeWithNodes ==
    ASSUME OneWriter
    PROVE  DemoSpec => DiskNeverShrinks
<1>1. DemoInit => DiskChain
  BY DEF DemoInit, Init, DiskChain
<1>2. TypeOK /\ DiskChain /\ [DemoNext]_vars
        => DiskChain' /\ [(setDisk # NoSet /\ setDisk' # NoSet) => setDisk' >= setDisk]_cpVars
  <2> SUFFICES ASSUME TypeOK, DiskChain, [DemoNext]_vars
               PROVE  /\ DiskChain'
                      /\ (setDisk # NoSet /\ setDisk' # NoSet) => setDisk' >= setDisk
    OBVIOUS
  <2>1. CASE Next
    BY <2>1, DiskStep, OneWriter
  <2>2. CASE UNCHANGED <<row, request, builderVars, paasVars, coreVars>>
    BY <2>2, DiskNumbers DEF DiskChain, builderVars
  <2> QED
    BY <2>1, <2>2, NodesStutter
<1> QED
  BY <1>1, <1>2, ControlPlaneTypeCorrect, PTL DEF DemoSpec, DiskNeverShrinks

(* Nor do the nodes disturb what is asked for: with them the builders      *)
(* implement the abstract targets, too.                                    *)
THEOREM DemoImplementsTargets ==
    ASSUME OneWriter
    PROVE  DemoSpec => ImplementsTargets
<1>1. DemoInit => DiskChain /\ ProvisionedInv /\ Targets!Init
  BY TargetsInit DEF DemoInit, Init, DiskChain, ProvisionedInv
<1>2. TypeOK /\ DiskChain /\ ProvisionedInv /\ [DemoNext]_vars
        => DiskChain' /\ ProvisionedInv' /\ [Targets!Next]_Targets!targetVars
  <2> SUFFICES ASSUME TypeOK, DiskChain, ProvisionedInv, [DemoNext]_vars
               PROVE  DiskChain' /\ ProvisionedInv' /\ [Targets!Next]_Targets!targetVars
    OBVIOUS
  <2>1. CASE Next
    BY <2>1, DiskStep, ProvisionedStep, TargetsStep, OneWriter
  <2>2. CASE UNCHANGED <<row, request, builderVars, paasVars, coreVars>>
    <3>1. DiskChain' /\ ProvisionedInv'
      BY <2>2, DiskNumbers DEF DiskChain, ProvisionedInv, builderVars, coreVars
    <3>2. UNCHANGED Targets!targetVars
      BY <2>2 DEF Targets!targetVars, builderVars, paasVars, coreVars
    <3> QED BY <3>1, <3>2
  <2> QED
    BY <2>1, <2>2, NodesStutter
<1> QED
  BY <1>1, <1>2, ControlPlaneTypeCorrect, PTL DEF DemoSpec, ImplementsTargets, Targets!Spec
=============================================================================
