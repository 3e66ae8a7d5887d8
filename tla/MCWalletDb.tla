----------------------------- MODULE MCWalletDb -----------------------------
(* Small instances of WalletDb.  Receipts r1, r2 and spends s1, s2 are      *)
(* model values; spends are interchangeable, and so are receipts.           *)
EXTENDS WalletDb, TLC

Symmetry == Permutations(Incoming) \cup Permutations(Spend)
=============================================================================
