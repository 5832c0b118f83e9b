CONSTANTS
    Steps = {1, 2, 3, 4, 5, 6}
    Workflows <- WithApproval
    NoStep = 0
    MaxConcurrency = 2
    MaxAttempts = 2
    Faults = {}
SPECIFICATION Spec
CHECK_DEADLOCK FALSE
INVARIANTS
    ApprovalIsPersisted
