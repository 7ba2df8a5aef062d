SPECIFICATION FairSpec
CONSTANTS
    u1 = u1
    u2 = u2
    p1 = p1
    v1 = v1
    v2 = v2
    mp3 = mp3
    Tasks = {t1}
    AutoSlots = {auto}
    Playlists = {p1}
    Videos = {v1}
    Users = {u1}
    Formats = {mp3, mp4}
    MetadataImport = import
    AutoFormat = mp3
    NoFormat = NoFormat
    NoVideo = NoVideo
    NoJob = NoJob
    Owner <- SoleOwner
    SizeOf <- DoubleSizes
    Gone = {}
    Quotas = {1, 3}
    ForeignKeys = TRUE
    MaxRestarts = 1
INVARIANTS UsedWithinSomeQuota NeverOvercharged SavedVideosAreMarked
PROPERTIES TasksEnd AutoSyncEnds
