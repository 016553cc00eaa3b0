------------------------------ MODULE RouteTable ------------------------------
(***************************************************************************)
(* What the route cache promises its requests, without modules, attributes *)
(* and guards: the table is nothing, or exactly what one look at the disk  *)
(* has seen, never a part of it and never a mixture of two.  A look that   *)
(* comes to nothing changes nothing; an invalidation may come at any time, *)
(* and so may a restart.                                                   *)
(***************************************************************************)
CONSTANTS Slug, Nothing

VARIABLES
    disk,        \* the plugins that are installed
    seen,        \* what a load in progress has seen of it, or Nothing
    table        \* what requests are routed by, or Nothing

tableVars == <<disk, seen, table>>

Init == disk = {} /\ seen = Nothing /\ table = Nothing

Change == disk' \in SUBSET Slug /\ UNCHANGED <<seen, table>>

Look == seen = Nothing /\ table = Nothing /\ seen' = disk /\ UNCHANGED <<disk, table>>

GiveUp == seen # Nothing /\ seen' = Nothing /\ UNCHANGED <<disk, table>>

Publish == seen # Nothing /\ table' = seen /\ seen' = Nothing /\ UNCHANGED disk

Invalidate == table' = Nothing /\ UNCHANGED <<disk, seen>>

Restart == table' = Nothing /\ seen' = Nothing /\ UNCHANGED disk

Next == Change \/ Look \/ GiveUp \/ Publish \/ Invalidate \/ Restart

Spec == Init /\ [][Next]_tableVars
=============================================================================
