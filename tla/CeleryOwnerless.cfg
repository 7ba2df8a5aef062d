SPECIFICATION Spec
CONSTANTS
    Tasks = {t1}
    Keys = {k1}
    Clients = {c1}
    Workers = {w1}
    NoTask = NoTask
    NoKey = NoKey
    Missing = Missing
    Mortal = {}
    SendErrors = {}
    EngineFails = FALSE
    Redelivers = FALSE
    MaxFaults = 1
    MaxMishaps = 0
SYMMETRY Symmetry
INVARIANTS RecordsKeepTheirOwner
