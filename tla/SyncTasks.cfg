SPECIFICATION Spec
CONSTANTS
    u1 = u1
    u2 = u2
    p1 = p1
    v1 = v1
    v2 = v2
    mp3 = mp3
    Tasks = {t1, t2}
    AutoSlots = {}
    Playlists = {p1, p2}
    Videos = {v1, v2}
    Users = {u1, u2}
    Formats = {mp3}
    MetadataImport = import
    AutoFormat = mp3
    NoFormat = NoFormat
    NoVideo = NoVideo
    NoJob = NoJob
    Owner <- OneEach
    SizeOf <- UnitSizes
    Gone = {v2}
    Quotas = {1}
    ForeignKeys = TRUE
    MaxRestarts = 1
SYMMETRY TaskSymmetry
INVARIANTS TypeOK OneActivePerKey ActiveTasksAreWorkedOn CountersAddUp ChargedExactly NoRedundantDownload NoOrphanRows
PROPERTIES LifecycleSpec NeverAvailableAgain ReopenedOnlyBySave JobsRunOut
