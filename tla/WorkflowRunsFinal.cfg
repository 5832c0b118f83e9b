CONSTANTS
    Calls = {c1, c2, c3}
    NoCall = NoCall
    Machine <- Reopened
    Finals = {"cloture_confirmee"}
    MaxCalls = 3
SPECIFICATION Spec
PROPERTY FinalIsFinal
CHECK_DEADLOCK FALSE
