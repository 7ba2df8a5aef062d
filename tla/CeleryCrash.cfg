SPECIFICATION FairSpec
CONSTANTS
    Tasks = {t1}
    Keys = {k1}
    Clients = {c1}
    Workers = {w1, w2}
    NoTask = NoTask
    NoKey = NoKey
    Missing = Missing
    Mortal = {w1, w2}
    SendErrors = {"sent", "unsent"}
    EngineFails = TRUE
    Redelivers = TRUE
    MaxFaults = 0
    MaxMishaps = 2
INVARIANTS TypeOK NothingForgotten ActiveTasksAreIndexed RecordsKeepTheirOwner
PROPERTIES TasksEnd
