------------------------------ MODULE Registry ------------------------------
(***************************************************************************)
(* The plugin registry of exordos_metapaas (exordos_metapaas/registry.py). *)
(*                                                                         *)
(* A pip distribution registers PaaS definitions as entry points; each     *)
(* definition has a slug.  The registry has no state of its own: every     *)
(* caller re-reads the entry points of the virtual environment, which is   *)
(* all there is to know about a runtime's plugins.                         *)
(***************************************************************************)
EXTENDS Naturals, FiniteSets

CONSTANTS
    Dist,        \* pip distributions that may hold plugins
    Version,     \* versions of a distribution
    Slug,        \* PaaS slugs
    Absent,      \* "this distribution is not installed"
    Provides,    \* Provides[<<d, v>>]: the slugs version v of d registers
    Broken,      \* releases with an entry point whose load() raises
    Migrating    \* slugs whose definition has a migrations path

ASSUME RegistryAssumption ==
    /\ Absent \notin Version
    /\ Provides \in [Dist \X Version -> SUBSET Slug]
    /\ Broken \subseteq Dist \X Version
    /\ Migrating \subseteq Slug

(* The virtual environment on the root disk: what pip has installed.       *)
Venv == [Dist -> Version \cup {Absent}]

NothingInstalled == [d \in Dist |-> Absent]

(* The installed releases.                                                 *)
Releases(env) == {r \in Dist \X Version : env[r[1]] = r[2]}

(* What importlib.metadata.entry_points yields, by slug.                   *)
Discovered(env) == {s \in Slug : \E r \in Releases(env) : s \in Provides[r]}

(* The version of the release that registers each slug (the dictionary     *)
(* the reconciler's discovery snippet prints).                             *)
SlugVersions(env) ==
    {sv \in Slug \X Version :
        \E d \in Dist : env[d] = sv[2] /\ sv[1] \in Provides[<<d, sv[2]>>]}

NoDuplicates(env) ==
    \A r1, r2 \in Releases(env) : r1 # r2 => Provides[r1] \cap Provides[r2] = {}

(* discover_paas() returns rather than raises: every entry point loads and *)
(* no slug is registered twice.  It is all or nothing, over all plugins.   *)
DiscoverOk(env) == Releases(env) \cap Broken = {} /\ NoDuplicates(env)

(* The tables of a slug are those its installed release expects.           *)
Migrated(env, applied, s) ==
    s \in Migrating => \A sv \in SlugVersions(env) : sv[1] = s => sv \in applied

(* No release of a distribution registers other slugs than another one     *)
(* does: true of a package that ships a single plugin.                     *)
StableSlugs ==
    \A d \in Dist : \A v1, v2 \in Version :
        Provides[<<d, v1>>] = Provides[<<d, v2>>]
=============================================================================
