CONSTANTS
    p1 = p1  p2 = p2  a1 = a1  a2 = a2  c1 = c1
    d1 = d1  d2 = d2  b1 = b1  b2 = b2  t1 = t1  t2 = t2
    Plans = {p1, p2}
    Artifacts = {a1, a2}
    PlanArtifacts <- BothArtifacts
    PlanRounds <- BothRounds
    PlanConfig <- BothConfig
    Configs = {c1}
    Devices = {d1, d2}
    Builds = {b1}
    PlanBuild = b1
    Timings = {t1, t2}
    NoHash = NoHash
    NoSession = NoSession
    MaxRecords = 3
    MaxCheckpoints = 1
    MaxSlots = 2
SYMMETRY Symmetry
SPECIFICATION Spec
INVARIANTS CompletedPrefix EvidenceRetained OneSlotPerRecord
PROPERTIES StoppedStaysStopped
CHECK_DEADLOCK FALSE
