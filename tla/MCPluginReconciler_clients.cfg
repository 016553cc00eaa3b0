\* One plugin from the index or from a URL: edits of the manifest and of the row, and a failing step.
SPECIFICATION FairReconcilerSpec
CONSTANTS
    d1 = d1  d2 = d2
    v1 = v1  v2 = v2
    s1 = s1  s2 = s2
    Dist = {d1}
    Version = {v1, v2}
    Slug = {s1}
    Plugin = {s1}
    Migrating = {s1}
    Child = child
    Proc = {child}
    Absent = Absent
    Unpinned = Unpinned
    NoCache = NoCache
    NoRow = NoRow
    WholeRow = TRUE
    Broken = {}
    Provides <- MCProvides
    Packages <- MCMixed
    Request <- MCRequest
    Budget <- MCClients
PROPERTIES
    ConvergesUnlessTorn
    ImplementsLifecycle
    ConvergesFromUrl
    RestartsEnd
CHECK_DEADLOCK FALSE
