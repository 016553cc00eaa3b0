\* Two plugins, one from the index and one from a URN; every kind of failure.
SPECIFICATION FairReconcilerSpec
CONSTANTS
    d1 = d1  d2 = d2
    v1 = v1  v2 = v2
    s1 = s1  s2 = s2
    Dist = {d1, d2}
    Version = {v1, v2}
    Slug = {s1, s2}
    Plugin = {s1, s2}
    Migrating = {s1, s2}
    Child = child
    Proc = {child}
    Absent = Absent
    Unpinned = Unpinned
    NoCache = NoCache
    NoRow = NoRow
    WholeRow = TRUE
    Broken = {}
    Provides <- MCProvides
    Packages <- MCPackages
    Request <- MCRequest
    Budget <- MCFaults
INVARIANTS
    ReconcilerTypeOK
    MarkAfterComplete
    ActiveIsServed
PROPERTIES
    ConvergesUnlessTorn
    ImplementsLifecycle
CHECK_DEADLOCK FALSE
