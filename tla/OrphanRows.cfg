SPECIFICATION Spec
CONSTANTS
    u1 = u1
    u2 = u2
    p1 = p1
    v1 = v1
    v2 = v2
    mp3 = mp3
    Tasks = {t1, t2}
    AutoSlots = {}
    Playlists = {p1}
    Videos = {v1}
    Users = {u1}
    Formats = {mp3}
    MetadataImport = import
    AutoFormat = mp3
    NoFormat = NoFormat
    NoVideo = NoVideo
    NoJob = NoJob
    Owner <- SoleOwner
    SizeOf <- UnitSizes
    Gone = {}
    Quotas = {2}
    ForeignKeys = FALSE
    MaxRestarts = 0
INVARIANTS NoOrphanRows
