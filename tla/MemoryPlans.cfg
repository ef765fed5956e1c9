SPECIFICATION Spec
CONSTANTS
    Operations <- MCOperations
    TypeOf <- MCTypeOf
    External = {"x"}
    Literals = {}
    Outputs = {"e"}
    Layouts = {"strided", "row_major"}
    Spaces = {"private"}
    Alignments = {2, 8}
    Others = {"x"}
    ElementBytes = 4
    MaxPlans = 2
    MaxRevisions = 3
    MaxActions = 2
INVARIANTS ReuseLosesNothing
CHECK_DEADLOCK FALSE
