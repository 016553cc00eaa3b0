\* One command line that upgrades one plugin and adds another one.
SPECIFICATION Spec
CONSTANTS
    d1 = d1  d2 = d2
    v1 = v1  v2 = v2
    s1 = s1  s2 = s2
    Dist = {d1, d2}
    Version = {v1, v2}
    Slug = {s1, s2}
    Migrating = {s1, s2}
    Proc = {cli}
    Absent = Absent
    Unpinned = Unpinned
    NoCache = NoCache
    Provides <- MCProvides
    Broken = {}
    Request <- MCMixed
    Budget <- MCNoFaults
INVARIANTS
    MigratedOnExit
