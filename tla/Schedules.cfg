SPECIFICATION Spec
CONSTANTS
    Nodes <- MCNodes
    Levels = {"serial", "grid_x", "workgroup_x", "workgroup_y", "block_x"}
    Widths = {1, 2}
    Factors = {2, 3}
    Launches <- MCLaunches
    MaxWorkgroup <- MCWorkgroup
    MaxThreads = 4
    MaxPlans = 2
    MaxRevisions = 3
    MaxRequests = 1
    MaxAxes = 7
    MaxBackends = 2
    Sizes = {3, 4}
INVARIANTS CoveredExactlyOnce EveryElementReached
CHECK_DEADLOCK FALSE
