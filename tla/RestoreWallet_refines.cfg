\* A reliable backend: the user leaves the wizard while _restore awaits.
CONSTANTS
    w1 = w1
    w2 = w2
    Null = Null
    Wallets <- MCWallets
    RestoreSteps = 4
    MaxRuns = 1
    MaxUserActions = 8
    BackendMayFail = FALSE
SPECIFICATION Spec
CHECK_DEADLOCK FALSE
PROPERTY RestoreRefinement
