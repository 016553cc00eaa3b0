---------------------------- MODULE MCRouteCache ----------------------------
(* Instances of RouteCache for TLC.                                        *)
EXTENDS RouteCache

CONSTANTS d1, d2, v1, v2, v3, s1, s2, s3

(* Version v2 of d1 has a second plugin, which a downgrade takes away. *)
MCProvides ==
    [r \in Dist \X Version |->
        IF r[1] = d2 THEN {s2} ELSE IF r[2] = v2 THEN {s1, s3} ELSE {s1}]

(* One release of d1 does not import, the route of one of d2 does not build, *)
(* and one that builds makes the resource map fail.                          *)
MCBroken == {<<d1, v3>>}
MCBrokenRoute == {<<d2, v2>>}
MCBrokenMap == {<<d2, v3>>}
=============================================================================
