SPECIFICATION Spec
CONSTANTS
    Workers = {w1, w2}
    Rows = {r1}
    NoRow = NoRow
    NoFile = NoFile
    MaxCrashes = 1
SYMMETRY Symmetry
INVARIANTS TypeOK NothingTemporaryLeft SavedAsAsked
PROPERTIES RecordedMediaStays
