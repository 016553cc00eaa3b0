\* An upgrade and its signal.
SPECIFICATION Spec
CONSTANTS
    d1 = d1  d2 = d2
    v1 = v1  v2 = v2  v3 = v3
    s1 = s1  s2 = s2  s3 = s3
    Dist = {d1, d2}
    Version = {v1, v2}
    Slug = {s1, s2, s3}
    Migrating = {}
    Absent = Absent
    NoCache = NoCache
    Installs = 2
    Provides <- MCProvides
    Broken = {}
    BrokenRoute = {}
    BrokenMap = {}
INVARIANTS
    CurrentReleaseServed
