------------------------- MODULE MCPluginReconciler -------------------------
(* Instances of PluginReconciler for TLC.                                  *)
EXTENDS PluginReconciler

CONSTANTS d1, d2, v1, v2, s1, s2

Pkg(kind, d, v) == [kind |-> kind, dist |-> d, pin |-> v]

(* Every release of d1 registers s1, of d2 s2. *)
MCProvides == [r \in Dist \X Version |-> IF r[1] = d1 THEN {s1} ELSE {s2}]

(* s1 from the index, in two pinned versions; s2 from a URN. *)
MCPackages ==
    [s \in Plugin |-> IF s = s1
        THEN {Pkg("name", d1, v1), Pkg("name", d1, v2)}
        ELSE {Pkg("urn", d2, v2)}]

(* s1 from the index, pinned, or from a URL. *)
MCMixed == [s \in Plugin |-> {Pkg("name", d1, v1), Pkg("url", d1, v2)}]

(* s1 from URLs only. *)
MCUrls == [s \in Plugin |-> {Pkg("url", d1, v1), Pkg("url", d1, v2)}]

(* s1 from the index only, with and without a pin. *)
MCNames == [s \in Plugin |-> {Pkg("name", d1, v1), Pkg("name", d1, Unpinned)}]

MCRequest == UNION {{CommandLine(pkg) : pkg \in Packages[s]} : s \in Plugin}

MCFaults == [edit |-> 2, client |-> 0, fault |-> 1, crash |-> 1, wipe |-> 1]
MCClients == [edit |-> 2, client |-> 2, fault |-> 1, crash |-> 0, wipe |-> 0]
MCOneFault == [edit |-> 1, client |-> 0, fault |-> 1, crash |-> 0, wipe |-> 0]
MCEdits == [edit |-> 3, client |-> 1, fault |-> 0, crash |-> 0, wipe |-> 0]
=============================================================================
