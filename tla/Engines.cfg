CONSTANTS
    Steps = {1, 2, 3, 4, 5, 6}
    Workflows <- All
    NoStep = 0
    MaxConcurrency = 2
    MaxAttempts = 2
    Faults = {"database", "process"}
    Flows <- MCFlows
    Collections <- MCCollections
    Values = {0, 1}
    Subjects <- MCSubjects
    Requests <- MCRequests
    Depth = 2
    Formulas <- MCFormulas
    Inputs <- MCInputs
    MaxDepth = 8
    Talks = {r1, r2}
    Surfaces = {"s1"}
    Sizes = {1, 6}
    Says <- MCSays
    Nothing = Nothing
    Window = 16
    Nominal = 1
    Reserve = 2
    PromptSize = 2
    AnswerSize = 1
    MaxRetries = 2
SPECIFICATION EnginesSpec
INVARIANTS
    TypesOK
    StepsAreAccounted
    ResultsAreExplained
    ConfinedRole
    VerdictsAreRight
    ScriptsAreRight
    LayoutsAreRight
    FormulasMean
    NoHoles
    OnlyValidIsShown
PROPERTIES
    NoStartAfterFailure
    ImplementsRow
    RevertRestores
    Ends
CHECK_DEADLOCK FALSE
