----------------------------- MODULE MCBootstrap -----------------------------
(* Instances of Bootstrap for TLC. *)
EXTENDS Bootstrap, ConnectionUrl

CONSTANTS d1, d2, v1, v2, s1, s2

MCProvides == [r \in Dist \X Version |-> IF r[1] = d1 THEN {s1} ELSE {s2}]

(* Passwords as texts: three that may be generated, a plain one that may   *)
(* be supplied, and one that the two programs read differently.            *)
MCGenerable == {<<"1">>, <<"2">>, <<"3">>}
MCPlainText == <<"p">>
MCWithAt == <<"a", "@", "b">>
MCUpToAt == <<"a">>
MCSupplied == {NoText, MCPlainText, MCWithAt}
MCNothingSupplied == {NoText}
MCPassword == MCGenerable \cup {MCPlainText, MCWithAt, MCUpToAt}

(* Tables of ConnectionUrl's operators, which TLC would evaluate anew at   *)
(* each use.                                                               *)
MCSame == [p \in MCPassword \ {MCWithAt} |-> p]
MCBootReads == MCSame @@ (MCWithAt :> MCWithAt)
MCRenderReads == MCSame @@ (MCWithAt :> MCUpToAt)

ASSUME MCReadsAssumption ==
    \A p \in MCPassword :
        /\ MCBootReads[p] = UrlsplitPassword(ConnectionUrlOf(p))
        /\ MCRenderReads[p] = RecoverPgPassword(ConnectionUrlOf(p))

MCBroken == {<<d2, v2>>}
=============================================================================
