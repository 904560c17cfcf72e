-------------------------- MODULE MC_ActiveWallet --------------------------
EXTENDS ActiveWallet

CONSTANTS w1, w2, a1, a2

\* Two wallets: deleting one leaves a list; a1 belongs to w1, a2 to w2.
MCWallets == {w1, w2}
MCWalletOrder == <<w1, w2>>
MCAddresses == {a1, a2}
MCOwner == [x \in MCAddresses |-> IF x = a1 THEN w1 ELSE w2]

====
