SPECIFICATION Spec
CONSTANTS
    RequestChunks = 2
    PipeChunks = 1
    FrameChunks = 2
    Programs <- MCPrograms
    Inputs <- MCInputs
    Limits <- MCLimits
    Executables <- MCExecutables
    DefaultLimits <- MCDefaultLimits
    WorkerCaps <- MCWorkerCaps
    Runtime = "this"
CONSTRAINTS FixturesOnce
INVARIANTS
    AnswerIsWhole
    EnginesAgree
PROPERTIES
    EveryCallCleansUp
CHECK_DEADLOCK FALSE
