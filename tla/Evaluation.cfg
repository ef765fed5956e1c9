SPECIFICATION HarnessSpec
CONSTANTS
    none = none
    None = none
    Tasks <- MCTasks
    Respond <- MCRespond
    Continues <- MCContinues
    Score <- MCScore
    StateHash <- MCStateHash
    Objective <- MCObjective
    SearchLimits <- MCSearchLimits
    TaskLists <- MCTaskLists
    ScriptLists <- MCScriptLists
    Policies <- MCPolicies
    ScriptedRankers = {"goal"}
    Scripts <- MCScripts
    Free = {"tile"}
    Plans <- MCPlans
    Units = {1, 2}
    MaxRuns = 2
    MaxActive = 2
    MaxStarted = 2
    MaxListed = 2
    MaxSearches = 1
CONSTRAINTS OneKindAtATime SmallArchive ShortLearning OneRunMoves
INVARIANTS EndedReplays RepairsExplainRejections SearchIsBeam
PROPERTIES RetainedStays
CHECK_DEADLOCK FALSE
