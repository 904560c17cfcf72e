\* Two wallets, the four steps of RESTORE_WALLET_STEPS, two _restore calls
\* in flight, a backend that may reject, twelve user events.
CONSTANTS
    w1 = w1
    w2 = w2
    Null = Null
    Wallets <- MCWallets
    RestoreSteps = 4
    MaxRuns = 2
    MaxUserActions = 12
    BackendMayFail = TRUE
SPECIFICATION Spec
\* The user may stop anywhere.
CHECK_DEADLOCK FALSE
INVARIANT TypeOK
