------------------------------- MODULE MCDemo -------------------------------
(* Instances of DemoDataPlane for TLC. *)
EXTENDS DemoDataPlane

(* The instance starts with the smallest disk; from a larger one it could  *)
(* only do less.                                                           *)
MCInit == DemoInit /\ \A disk \in Disk : row.disk <= disk

MCSpec == MCInit /\ [][DemoNext]_vars /\ ControlPlaneFairness /\ CoreFairness
=============================================================================
