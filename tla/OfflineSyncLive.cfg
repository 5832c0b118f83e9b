CONSTANTS
    Mutations = {1}
    BatchLimit = 1
    MaxRetries = 2
    MaxSeconds = 0
    MaxKills = 1
    Calls = {r1, r2}
    WorkflowMutations = {}
    NoMutation = NoMutation
    MaxDispatches = 2
    NoCall = NoCall
    RefusalModels = {{"token"}, {"header"}}
    MaxCrashes = 1
CHECK_DEADLOCK FALSE
SPECIFICATION FairSpec
PROPERTIES
    KeepsPromise
    Settles
