\* A supplied password that changes between boots, or a generated one; two crashes, two installers.
SPECIFICATION FairSpec
CONSTANTS
    d1 = d1  d2 = d2
    v1 = v1  v2 = v2
    s1 = s1  s2 = s2
    Dist = {d1, d2}
    Version = {v1, v2}
    Slug = {s1, s2}
    Migrating = {s1, s2}
    Absent = Absent
    Provides <- MCProvides
    Broken <- MCBroken
    Password <- MCPassword
    Generable <- MCGenerable
    BootReads <- MCBootReads
    RenderReads <- MCRenderReads
    NoPassword <- NoText
    InitFile <- MCSupplied
    NoFile = NoFile
    Empty = Empty
    Garbled = Garbled
    NoRole = NoRole
    OnExisting = {"fail", "keep", "alter"}
    KeyOnDisk = TRUE
    Crashes = 2
    Pips = 2
INVARIANTS
    TypeOK
    ConnectsUnlessLost
    BootRepairs
PROPERTIES
    ComesUpUnlessLost
CHECK_DEADLOCK FALSE
