-------------------------- MODULE MC_TransferFunds --------------------------
EXTENDS TransferFunds

CONSTANTS l1, l2, r1, r2

\* Two legacy sources and two rewards targets.
MCLegacyWallets == {l1, l2}
MCRewardsOrder == <<r1, r2>>

====
