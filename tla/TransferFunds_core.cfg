\* Two legacy and two rewards wallets; fee, address and transfer calls may fail.
CONSTANTS
    l1 = l1
    l2 = l2
    r1 = r1
    r2 = r2
    Empty = Empty
    Null = Null
    LegacyWallets <- MCLegacyWallets
    RewardsOrder <- MCRewardsOrder
    MaxUserActions = 6
    BackendMayFail = TRUE
SPECIFICATION Spec
\* The user may stop at any point.
CHECK_DEADLOCK FALSE
INVARIANT TypeOK
INVARIANT StepTwoHasFee
