SPECIFICATION Spec
CONSTANTS
    Workers = {w1}
    Rows = {r1, r2}
    NoRow = NoRow
    NoFile = NoFile
    MaxCrashes = 0
SYMMETRY Symmetry
INVARIANTS StreamServesRecorded
