---------------------------- MODULE ScannedLedger ----------------------------
(***************************************************************************)
(* What the wallet database promises, without tables, locks or witnesses:  *)
(* a ledger of the wallet's notes over the blocks scanned so far.  A note  *)
(* is on the ledger at the height its transaction was mined, and is spent  *)
(* at the height its nullifier was revealed; extending the blocks extends  *)
(* the ledger, and truncating them takes back exactly what was above.      *)
(***************************************************************************)
EXTENDS Integers, Sequences

CONSTANTS
  Notes,   \* the notes the wallet may receive, named by their transactions
  None     \* not on the ledger, not spent

VARIABLES
  blocks,    \* the scanned blocks: [epoch, txs], a transaction [hash, spends]
  minedAt,   \* height of each note on the ledger, or None
  spend      \* <<transaction, height>> that spent each note, or None

ledgerVars == <<blocks, minedAt, spend>>

Position(n) == <<minedAt[n], blocks[minedAt[n]].epoch>>
Reveals(x, n) == minedAt[n] # None /\ <<n, Position(n)>> \in x.spends

LedgerInit ==
  /\ blocks = << >>
  /\ minedAt = [n \in Notes |-> None]
  /\ spend = [n \in Notes |-> None]

Extend ==
  LET h == Len(blocks) + 1
      txs == blocks'[h].txs
  IN  /\ Len(blocks') = h /\ SubSeq(blocks', 1, h - 1) = blocks
      /\ minedAt' = [n \in Notes |-> IF \E x \in txs : x.hash = n THEN h
                                     ELSE minedAt[n]]
      /\ spend' = [n \in Notes |->
                     IF \E x \in txs : Reveals(x, n)
                     THEN <<(CHOOSE x \in txs : Reveals(x, n)).hash, h>>
                     ELSE spend[n]]

Truncate(h) ==
  /\ blocks' = SubSeq(blocks, 1, h)
  /\ minedAt' = [n \in Notes |-> IF minedAt[n] # None /\ minedAt[n] > h
                                 THEN None ELSE minedAt[n]]
  /\ spend' = [n \in Notes |-> IF spend[n] # None /\ spend[n][2] > h
                               THEN None ELSE spend[n]]

LedgerNext == Extend \/ \E h \in 0 .. Len(blocks) - 1 : Truncate(h)

LedgerSpec == LedgerInit /\ [][LedgerNext]_ledgerVars
=============================================================================
