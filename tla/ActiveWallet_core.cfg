\* Two wallets, two addresses, two validations in flight.
CONSTANTS
    w1 = w1
    w2 = w2
    a1 = a1
    a2 = a2
    Null = Null
    Wallets <- MCWallets
    WalletOrder <- MCWalletOrder
    Addresses <- MCAddresses
    Owner <- MCOwner
    MaxUserActions = 7
    MaxCalls = 2
SPECIFICATION Spec
INVARIANT TypeOK
INVARIANT RouteShowsActiveWallet
PROPERTY ActiveWalletRefreshed
