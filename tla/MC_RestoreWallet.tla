-------------------------- MODULE MC_RestoreWallet --------------------------
(* Instantiates RestoreWallet for TLC: two wallets a mnemonic may denote,   *)
(* so that a second restore can be for the same wallet or another one.     *)
EXTENDS RestoreWallet, TLC

CONSTANTS w1, w2

MCWallets == {w1, w2}

\* the two wallets play the same part
Symm == Permutations(MCWallets)
====
