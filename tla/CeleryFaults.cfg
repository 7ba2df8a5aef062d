SPECIFICATION Spec
CONSTANTS
    Tasks = {t1, t2}
    Keys = {k1}
    Clients = {c1, c2}
    Workers = {w1, w2}
    NoTask = NoTask
    NoKey = NoKey
    Missing = Missing
    Mortal = {c1, c2}
    SendErrors = {"unsent"}
    EngineFails = TRUE
    Redelivers = FALSE
    MaxFaults = 2
    MaxMishaps = 1
SYMMETRY Symmetry
INVARIANTS MessagesHaveRecords
PROPERTIES FinishedStaysFinished
