\* One handler at a time, a reliable backend, and isExecuting set one tick
\* after execute, as Request does: does the pause keep every getWallets
\* answer away from the changes of the handler that holds it?
CONSTANTS
    w1 = w1
    w2 = w2
    w3 = w3
    Null = Null
    Wallets <- MCWallets
    Legacy <- MCLegacy
    WalletOrder <- MCWalletOrder
    MaxFlows = 1
    MaxUserActions = 4
    BackendMayFail = FALSE
    ExecutingFlagLags = TRUE
SPECIFICATION Spec
PROPERTY PauseShieldsList
