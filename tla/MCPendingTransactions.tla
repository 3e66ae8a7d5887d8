----------------------- MODULE MCPendingTransactions -----------------------
(* Small instances of PendingTransactions: two payments, of which t1 leaves *)
(* change, compete for one note within the first heights of the chain.      *)
EXTENDS PendingTransactions
=============================================================================
