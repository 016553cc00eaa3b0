--------------------------- MODULE InstanceTargets ---------------------------
(***************************************************************************)
(* What the builders of the demo promise about an instance, without rows,  *)
(* calls, reports and statuses: as long as there is the instance, its node *)
(* set is asked for in a size that only grows, and configs and payload are *)
(* made for nodes that Core has provisioned; once it is gone, nothing is   *)
(* asked for any more, and what was is only taken back.                    *)
(***************************************************************************)
EXTENDS Naturals

CONSTANTS Node, Size, Nothing

VARIABLES
    instance,    \* there is the instance
    target,      \* the size of the node set that is asked for, or Nothing
    nodes,       \* nodes provisioned so far
    configured,  \* nodes with a config
    assigned     \* the node with a payload, if there is one

targetVars == <<instance, target, nodes, configured, assigned>>

Init ==
    /\ instance = TRUE
    /\ target = Nothing
    /\ nodes = {} /\ configured = {} /\ assigned = {}

Delete ==
    /\ instance
    /\ instance' = FALSE
    /\ UNCHANGED <<target, nodes, configured, assigned>>

Ask ==
    /\ instance
    /\ \E size \in Size : (target # Nothing => size >= target) /\ target' = size
    /\ UNCHANGED <<instance, nodes, configured, assigned>>

(* Nodes are configured together with another look at the size.            *)
Configure ==
    /\ instance
    /\ target # Nothing
    /\ \E size \in Size : size >= target /\ target' = size
    /\ configured' \in SUBSET nodes
    /\ UNCHANGED <<instance, nodes, assigned>>

Remove ==
    /\ ~instance
    /\ target # Nothing
    /\ target' = Nothing
    /\ configured' = {}
    /\ UNCHANGED <<instance, nodes, assigned>>

Assign ==
    /\ instance
    /\ \E n \in nodes : assigned' = {n}
    /\ UNCHANGED <<instance, target, nodes, configured>>

Unassign ==
    /\ assigned' = {}
    /\ UNCHANGED <<instance, target, nodes, configured>>

Provision ==
    /\ target # Nothing
    /\ \E n \in Node \ nodes : nodes' = nodes \cup {n}
    /\ UNCHANGED <<instance, target, configured, assigned>>

Next ==
    Delete \/ Ask \/ Configure \/ Remove \/ Assign \/ Unassign \/ Provision

Spec == Init /\ [][Next]_targetVars
=============================================================================
