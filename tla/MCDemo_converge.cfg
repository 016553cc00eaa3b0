\* One instance, builds that are refused, and two of: edits, its deletion, lost nodes and files, failed ticks, killed agents.
SPECIFICATION MCSpec
CONSTANTS
    Node = {n1, n2}
    Name = {a, b, c}
    Long = {c}
    Padded = {b}
    Stripped = Stripped
    Disk = {1, 2}
    Client = {c1}
    WholeRow = TRUE
    NoRow = NoRow
    NoTick = NoTick
    NoSet = NoSet
    NoConfig = NoConfig
    NoPayload = NoPayload
    NoFile = NoFile
    NoMeta = NoMeta
    Events = 2
INVARIANTS
    DataPlaneTypeOK
PROPERTIES
    DiskNeverShrinks
    ImplementsTargets
    ConvergesToRow
    DeletionCompletes
    WritesEnd
CHECK_DEADLOCK FALSE
