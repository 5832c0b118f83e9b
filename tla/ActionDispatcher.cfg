CONSTANTS
    Calls = {c1, c2, c3}
    Mutations = {m1, m2}
    WorkflowMutations = {m2}
    NoMutation = NoMutation
    MaxDispatches = 4
SPECIFICATION Spec
SYMMETRY Symmetry
CHECK_DEADLOCK FALSE
INVARIANTS
    SuccessIsApplied
    AppliedOnceUnlessErred
PROPERTIES
    SuccessKept
