CONSTANTS
    Mutations = {1, 2}
    BatchLimit = 1
    MaxRetries = 2
    MaxSeconds = 1
    MaxKills = 2
    FaultModels = {{}, {"localStore", "malformed"}}
SPECIFICATION MobileSpec
CHECK_DEADLOCK FALSE
INVARIANTS
    RowsGoInOrder
PROPERTIES
    AnsweredIsFinal
    EventuallySettled
