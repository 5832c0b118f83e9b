CONSTANTS
    Mutations = {1}
    BatchLimit = 1
    MaxRetries = 3
    MaxSeconds = 0
    MaxKills = 0
    Calls = {r1, r2}
    WorkflowMutations = {}
    NoMutation = NoMutation
    MaxDispatches = 3
    NoCall = NoCall
    RefusalModels = {{"token"}, {"header"}}
    MaxCrashes = 0
CHECK_DEADLOCK FALSE
SPECIFICATION Spec
INVARIANTS
    NoDuplicate
