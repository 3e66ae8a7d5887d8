----------------------------- MODULE MCWallets -----------------------------
EXTENDS Wallets, TLC
CONSTANTS w1, w2, w3
Symmetry == Permutations(Seeds)
=============================================================================
