\* Two workers, up to three lines, channels of capacity one, one retry.
SPECIFICATION Spec
CONSTANTS
    Inputs <- MCInputs
    Kind <- MCKind
    Cuts <- MCCuts
    History <- MCHistory
    Shown <- MCShown
    Processors <- MCProcessors
    Workers = {w1, w2}
    WorkCap = 1
    ResultsCap = 1
    Retries = 1
    MaxRound = 2
INVARIANTS
    
    ExitCodeTells
PROPERTIES
    Terminates
CHECK_DEADLOCK FALSE
