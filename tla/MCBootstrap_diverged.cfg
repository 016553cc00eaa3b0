\* A generated password and one crash.
SPECIFICATION Spec
CONSTANTS
    d1 = d1  d2 = d2
    v1 = v1  v2 = v2
    s1 = s1  s2 = s2
    Dist = {d1, d2}
    Version = {v1, v2}
    Slug = {s1, s2}
    Migrating = {s1, s2}
    Absent = Absent
    Provides <- MCProvides
    Broken = {}
    Password <- MCPassword
    Generable <- MCGenerable
    BootReads <- MCBootReads
    RenderReads <- MCRenderReads
    NoPassword <- NoText
    InitFile <- MCNothingSupplied
    NoFile = NoFile
    Empty = Empty
    Garbled = Garbled
    NoRole = NoRole
    OnExisting = {"fail"}
    KeyOnDisk = TRUE
    Crashes = 1
    Pips = 2
INVARIANTS
    PasswordNeverDiverges
CHECK_DEADLOCK FALSE
