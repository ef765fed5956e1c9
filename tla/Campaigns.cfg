SPECIFICATION Spec
CONSTANTS
    none = none
    None = none
    Tasks <- MCTasks
    Respond <- MCRespond
    Continues <- MCContinues
    Score <- MCScore
    StateHash <- MCStateHash
    Objective <- MCObjective
    SearchLimits <- MCSearchLimits
    CampaignPlans <- MCCampaignPlans
    Catalog = {"a", "b"}
    HashOrder <- MCHashOrder
    Machine <- MCMachine
    Timings = {100, 104, 130}
    Units = {1, 9}
    MaxAttempts = 2
    MaxCampaigns = 2
    MaxRecords = 3
    MaxCheckpoints = 1
CONSTRAINTS SecondOnlyMeasures ThirdRecord SlowIsRare OneCheckpoint
INVARIANTS StagesAgree RecommendationIsFastest FinalCampaignReplays SharedOnlyByReconciling
CHECK_DEADLOCK FALSE
