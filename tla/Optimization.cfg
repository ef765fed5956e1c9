CONSTANTS
    spec = spec  folded = folded  reduced = reduced  ones = ones  wrong = wrong
    Impls <- SmallImpls
    Identity = spec
    Matches <- SmallMatches
    Fragments <- SmallFragments
    Divisions <- SmallDivisions
    Inputs <- SmallInputs
    Meaning <- SmallMeaning
    DebtLimit = 2
    NodeLimit = 4
    FuelLimit = 2
    MaxRevisions = 5
    MaxCandidates = 2
    MaxSpaces = 1
    MaxChunks = 2
SPECIFICATION Spec
CHECK_DEADLOCK FALSE
INVARIANTS SealedIsExact MembersAreExact FrontierIsProvedPrefix ChunksAreInvisible HistoryReplays
