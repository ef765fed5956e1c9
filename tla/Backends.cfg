SPECIFICATION Spec
CONSTANTS
    None = None
    Clocks = {"production", "fixture"}
    Timings = {5}
    MaxTargets = 2
    MaxPlans = 2
    MaxRevisions = 3
    MaxArtifacts = 2
    MaxRecords = 2
    MaxUpstream = 1
    MaxSchedules = 2
INVARIANTS SnapshotReplays RecordsNameOneArtifact CursorsCoverSources
CHECK_DEADLOCK FALSE
