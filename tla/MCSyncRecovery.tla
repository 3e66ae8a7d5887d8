--------------------------- MODULE MCSyncRecovery ---------------------------
(* Small instances of the block processor and the app's recovery: a batch  *)
(* of downloads is smaller than the chain, one block carries a transaction.*)
EXTENDS SyncRecovery
=============================================================================
