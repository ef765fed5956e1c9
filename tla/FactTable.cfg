CONSTANTS
    Symbols = {1, 2, 3}
    MaxExtent = 3
    Requests <- SmallRequests
    Queries <- SmallQueries
    Valuations <- SmallValuations
SPECIFICATION Spec
CHECK_DEADLOCK FALSE
INVARIANTS QuerySound RefusalSound OrderIndependent
