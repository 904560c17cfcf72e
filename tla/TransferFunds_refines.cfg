\* A reliable backend; the user may go back or close while the fee loads.
CONSTANTS
    l1 = l1
    l2 = l2
    r1 = r1
    r2 = r2
    Empty = Empty
    Null = Null
    LegacyWallets <- MCLegacyWallets
    RewardsOrder <- MCRewardsOrder
    MaxUserActions = 6
    BackendMayFail = FALSE
SPECIFICATION Spec
\* The user may stop at any point.
CHECK_DEADLOCK FALSE
PROPERTY WizardRefinement
