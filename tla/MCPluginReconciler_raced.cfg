\* One plugin whose package is edited during an install.
SPECIFICATION ReconcilerSpec
CONSTANTS
    d1 = d1  d2 = d2
    v1 = v1  v2 = v2
    s1 = s1  s2 = s2
    Dist = {d1}
    Version = {v1, v2}
    Slug = {s1}
    Plugin = {s1}
    Migrating = {s1}
    Child = child
    Proc = {child}
    Absent = Absent
    Unpinned = Unpinned
    NoCache = NoCache
    NoRow = NoRow
    WholeRow = TRUE
    Broken = {}
    Provides <- MCProvides
    Packages <- MCUrls
    Request <- MCRequest
    Budget <- MCEdits
PROPERTIES
    ChangeSurvivesMark
CHECK_DEADLOCK FALSE
