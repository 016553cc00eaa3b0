---------------------------- MODULE MCInstallPaas ----------------------------
(* Instances of InstallPaas for TLC: two distributions in two versions.    *)
EXTENDS InstallPaas

CONSTANTS d1, d2, v1, v2, s1, s2

Spec1(d, v) == [dist |-> d, pin |-> v]
Line(specs, up, re) == [specs |-> specs, upgrade |-> up, restart |-> re]

(* One plugin per distribution, in every version. *)
MCProvides == [r \in Dist \X Version |-> IF r[1] = d1 THEN {s1} ELSE {s2}]

(* Version v2 of d2 does not import. *)
MCBroken == {<<d2, v2>>}

(* One spec per command line: pinned, bare and bare with --upgrade, with   *)
(* and without --no-restart.                                               *)
MCSingles ==
    {Line({Spec1(d, v)}, FALSE, re) : d \in Dist, v \in Version, re \in BOOLEAN}
    \cup {Line({Spec1(d, Unpinned)}, up, TRUE) : d \in Dist, up \in BOOLEAN}

(* First installs: one version of d1, any of d2, whose v2 claims the slug  *)
(* of d1 as well.                                                          *)
MCFirst == {Line({Spec1(d1, v1)}, FALSE, FALSE), Line({Spec1(d2, Unpinned)}, FALSE, FALSE)}
MCClashing == [MCProvides EXCEPT ![<<d2, v2>>] = {s1, s2}]

(* First install of d1, then one command line that upgrades d1 and adds d2. *)
MCMixed == {Line({Spec1(d1, v1)}, FALSE, TRUE),
            Line({Spec1(d1, v2), Spec1(d2, v1)}, FALSE, TRUE)}

MCBudget == [fault |-> 2]
MCOneFault == [fault |-> 1]
MCNoFaults == [fault |-> 0]
=============================================================================
