CONSTANTS
    p1 = p1  a1 = a1  a2 = a2  c1 = c1  d1 = d1  d2 = d2  b1 = b1  t1 = t1  t2 = t2
    Plans = {p1}
    Artifacts = {a1, a2}
    PlanArtifacts <- OneArtifact
    PlanRounds <- TwoRounds
    PlanConfig <- OneConfig
    Configs = {c1}
    Devices = {d1, d2}
    Builds = {b1}
    PlanBuild = b1
    Timings = {t1}
    NoHash = NoHash
    NoSession = NoSession
    NoJournal = NoJournal
    NoArchive = NoArchive
    Synthetic = FALSE
    MaxRecords = 2
    MaxCheckpoints = 0
    MaxSlots = 1
    MaxAttempts = 2
SPECIFICATION RestartSpec
CHECK_DEADLOCK FALSE
INVARIANTS RecordCountedOnce NoRecordLost ResolvedAgrees
PROPERTIES PublishedIsRecovered
