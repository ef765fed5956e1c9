SPECIFICATION Spec
CONSTANTS
    None = None
    Absent = Absent
    Inferred = {"infer"}
    Ops <- MCOps
    a = a  b = b  p1 = p1  p2 = p2
    Codecs = {2}
    Paths = {a, b}
    Pids = {p1, p2}
    OldArchives <- MCOldArchives
    MaxEvents = 2
    MaxCandidates = 1
    MaxOpened = 1
    MaxTemps = 1
    MaxFaults = 1
SYMMETRY Symmetry
CONSTRAINTS TwoRun FirstStarts MigratesOnly TwoSaves
INVARIANTS PathsHoldSaves SavedIsLoaded MigrationsAgree
CHECK_DEADLOCK FALSE
