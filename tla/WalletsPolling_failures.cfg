\* One handler at a time; backend calls may fail; isExecuting set by a timer;
\* three user events.
CONSTANTS
    w1 = w1
    w2 = w2
    w3 = w3
    Null = Null
    Wallets <- MCWallets
    Legacy <- MCLegacy
    WalletOrder <- MCWalletOrder
    MaxFlows = 1
    MaxUserActions = 3
    BackendMayFail = TRUE
    ExecutingFlagLags = TRUE
SPECIFICATION Spec
INVARIANT TypeOK
INVARIANT NoDuplicateWallet
