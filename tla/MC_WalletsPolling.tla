------------------------- MODULE MC_WalletsPolling -------------------------
(* Instantiates WalletsPolling for TLC: two wallets and one legacy wallet, *)
(* listed by the backend in the order w1, w2, w3.                          *)
EXTENDS WalletsPolling

CONSTANTS w1, w2, w3

MCWallets == {w1, w2, w3}
MCLegacy == {w3}
MCWalletOrder == <<w1, w2, w3>>
=============================================================================
