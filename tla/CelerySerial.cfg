SPECIFICATION Spec
CONSTANTS
    Tasks = {t1, t2, t3}
    Keys = {k1, k2}
    Clients = {c1, c2}
    Workers = {w1}
    NoTask = NoTask
    NoKey = NoKey
    Missing = Missing
    Mortal = {}
    SendErrors = {"unsent"}
    EngineFails = FALSE
    Redelivers = FALSE
    MaxFaults = 0
    MaxMishaps = 0
SYMMETRY Symmetry
CONSTRAINT RequestsApart
PROPERTIES LifecycleSpec
