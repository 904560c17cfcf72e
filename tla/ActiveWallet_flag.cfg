\* As core: the same-wallet warning on the send page.
CONSTANTS
    w1 = w1
    w2 = w2
    a1 = a1
    a2 = a2
    Null = Null
    Wallets <- MCWallets
    WalletOrder <- MCWalletOrder
    Addresses <- MCAddresses
    Owner <- MCOwner
    MaxUserActions = 6
    MaxCalls = 2
SPECIFICATION Spec
INVARIANT SameWalletFlagCurrent
