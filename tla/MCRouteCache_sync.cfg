\* Four installs, one release that does not import and one without a route.
SPECIFICATION Spec
CONSTANTS
    d1 = d1  d2 = d2
    v1 = v1  v2 = v2  v3 = v3
    s1 = s1  s2 = s2  s3 = s3
    Dist = {d1, d2}
    Version = {v1, v2, v3}
    Slug = {s1, s2, s3}
    Migrating = {}
    Absent = Absent
    NoCache = NoCache
    Installs = 4
    Provides <- MCProvides
    Broken <- MCBroken
    BrokenRoute <- MCBrokenRoute
    BrokenMap <- MCBrokenMap
INVARIANTS
    TypeOK
    GuardReleased
    CacheIsRoutable
    NoStaleRoute
    CurrentUnlessInterrupted
    RestartServesReleases
PROPERTIES
    ImplementsTable
