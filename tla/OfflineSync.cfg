CONSTANTS
    Mutations = {1, 2}
    BatchLimit = 2
    MaxRetries = 2
    MaxSeconds = 0
    MaxKills = 0
    Calls = {r1, r2}
    WorkflowMutations = {2}
    NoMutation = NoMutation
    MaxDispatches = 3
    NoCall = NoCall
    RefusalModels = {{"token"}, {"header"}}
    MaxCrashes = 0
CHECK_DEADLOCK FALSE
SPECIFICATION Spec
SYMMETRY Symmetry
INVARIANTS
    ConflictIsGenuine
PROPERTIES
    KeepsPromise
