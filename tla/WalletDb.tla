------------------------------ MODULE WalletDb ------------------------------
(***************************************************************************)
(* The wallet database of librustzcash/zcash_client_sqlite: the tables     *)
(* blocks, transactions, received_notes and sapling_witnesses, and every   *)
(* operation that writes them: scanning a block, building a spend, storing *)
(* a decrypted transaction, rewinding, and a rewind cut short by a crash.  *)
(*                                                                         *)
(* Rows are keyed by transaction: txBlock and txExpiry are the columns of  *)
(* transactions; nf and spent are the columns of the one received note a   *)
(* transaction of Pays may have.                                           *)
(***************************************************************************)
EXTENDS Network

CONSTANTS
  PruningHeight,   \* PRUNING_HEIGHT: rows of older witnesses are deleted
  AnchorOffset,    \* ANCHOR_OFFSET: a spend is anchored this far back
  Validated,       \* does the caller run validate_chain before it scans?
  CanCrash         \* may the process die between two SQL statements?

ASSUME WalletDbAssumption ==
  /\ PruningHeight \in Nat /\ AnchorOffset \in Nat
  /\ Validated \in BOOLEAN /\ CanCrash \in BOOLEAN

VARIABLES
  blocks,     \* blocks: what was scanned, above the birthday checkpoint
  txBlock,    \* transactions.block: height a transaction was mined at, or None
  txExpiry,   \* transactions.expiry_height, or None while unknown
  nf,         \* received_notes.nf: the position part; None if there is no row
  spent,      \* received_notes.spent: the transaction that spends it, or None
  witnesses   \* sapling_witnesses: rows (note, block) with the path's position

VARIABLES     \* history, read by no action
  highest,    \* the highest block ever scanned
  damage,     \* how rewinds went below the pruned rows
  displaced,  \* transactions whose mark on a note a scan replaced by another's
  torn        \* lowest target of a rewind cut short and not repaired, or None

dbVars == <<blocks, txBlock, txExpiry, nf, spent, witnesses>>
histVars == <<highest, damage, displaced, torn>>
vars == <<netVars, dbVars, histVars>>

Witness == [note: Pays, block: Nat, pos: BlockHash]
Harm == {"shallow", "deep"}

----------------------------------------------------------------------------
(* Queries                                                                 *)

Tip == Len(blocks)                         \* block_height_extrema, the maximum
Pruned == highest - PruningHeight          \* rows below have been deleted
Mined(t) == txBlock[t] # None

\* Mutant: a note locked by a pending spend is no longer looked for.
MutantGetNullifiers ==
  {<<n, nf[n]>> : n \in {m \in Pays : nf[m] # None /\ spent[m] = None}}

\* The nullifiers a scan looks for: the note is unspent, or its spend is not
\* mined yet.
GetNullifiers ==
  {<<n, nf[n]>> : n \in {m \in Pays : /\ nf[m] # None
                                      /\ spent[m] # None => ~Mined(spent[m])}}

GetWitnesses(h) == {w \in witnesses : w.block = h}

\* get_target_and_anchor_heights: the anchor lies AnchorOffset below the block
\* a spend built now would be mined in, but not below the first block.
AnchorHeight == IF Tip + 1 > AnchorOffset THEN Tip + 1 - AnchorOffset ELSE 0

UnspentNotes == {n \in Pays : nf[n] # None /\ spent[n] = None /\ Mined(n)}

\* The witness rows of the notes a spend may use now.
GetUnspentSaplingNotes ==
  {w \in GetWitnesses(AnchorHeight) :
     w.note \in UnspentNotes /\ txBlock[w.note] <= AnchorHeight}

----------------------------------------------------------------------------
(* scan_cached_blocks and advance_by_block, one block per transaction      *)

\* validate_chain's check, for the block that follows the wallet's tip.
LinksToTip ==
  Tip > 0 => /\ Tip <= Len(chain)
             /\ HashAt(blocks, Tip) = HashAt(chain, Tip)

\* scan_block keeps a transaction that pays us or reveals a tracked nullifier.
WalletTxs(txs) ==
  {x \in txs : x.hash \in Pays \/ x.spends \cap GetNullifiers # {}}

PutTxMeta(wtxs, h) ==
  [t \in Tx |-> IF t \in Hashes(wtxs) THEN h ELSE txBlock[t]]

\* UPDATE received_notes SET spent = ? WHERE nf = ?, for the spends scan_block
\* found among the nullifiers it was given.
MarkSpent(wtxs) ==
  [n \in Pays |->
     IF <<n, nf[n]>> \in GetNullifiers /\ \E x \in wtxs : <<n, nf[n]>> \in x.spends
     THEN (CHOOSE x \in wtxs : <<n, nf[n]>> \in x.spends).hash
     ELSE spent[n]]

\* History only: whose marks these marks replace.
Replaced(marks) == {spent[n] : n \in {m \in Pays : spent[m] \notin {None, marks[m]}}}

PutReceivedNotes(wtxs, pos) ==
  [n \in Pays |-> IF n \in Hashes(wtxs) THEN pos ELSE nf[n]]

\* Mutant: the witnesses of locked notes are not carried to the new block.
MutantInsertWitnesses(wtxs, h, pos) ==
  witnesses
    \cup {[w EXCEPT !.block = h] :
            w \in {v \in GetWitnesses(Tip) : spent[v.note] = None}}
    \cup {[note |-> n, block |-> h, pos |-> pos] : n \in Hashes(wtxs) \cap Pays}

\* INSERT OR IGNORE: the rows of the notes already tracked are written first,
\* those of the notes found in this block only where there is none yet.
InsertWitnesses(wtxs, h, pos) ==
  LET updated == {[w EXCEPT !.block = h] : w \in GetWitnesses(Tip)}
      found == {[note |-> n, block |-> h, pos |-> pos] :
                  n \in Hashes(wtxs) \cap Pays}
  IN  witnesses \cup updated
        \cup {w \in found : \A v \in updated : v.note # w.note}

\* Mutant: off by one, deletes the rows of the bound itself.
MutantPruneWitnesses(rows, below) == {w \in rows : w.block > below}

PruneWitnesses(rows, below) == {w \in rows : w.block >= below}

\* Mutants: the lock ends one block early, one block late.
MutantExpiresEarly(marks, mined, h) ==
  [n \in Pays |->
     IF /\ marks[n] # None /\ mined[marks[n]] = None
        /\ txExpiry[marks[n]] # None /\ txExpiry[marks[n]] <= h
     THEN None ELSE marks[n]]
MutantExpiresLate(marks, mined, h) ==
  [n \in Pays |->
     IF /\ marks[n] # None /\ mined[marks[n]] = None
        /\ txExpiry[marks[n]] # None /\ txExpiry[marks[n]] < h - 1
     THEN None ELSE marks[n]]

\* Un-spend the notes whose spending transaction expired without being mined.
UpdateExpiredNotes(marks, mined, h) ==
  [n \in Pays |->
     IF /\ marks[n] # None
        /\ mined[marks[n]] = None
        /\ txExpiry[marks[n]] # None
        /\ txExpiry[marks[n]] < h
     THEN None
     ELSE marks[n]]

AdvanceByBlock ==
  LET h == Tip + 1
      pos == HashAt(chain, h)
      wtxs == WalletTxs(chain[h].txs)
  IN  /\ h <= Len(chain)
      /\ Validated => LinksToTip
      /\ blocks' = Append(blocks, chain[h])
      /\ txBlock' = PutTxMeta(wtxs, h)
      /\ nf' = PutReceivedNotes(wtxs, pos)
      /\ witnesses' = PruneWitnesses(InsertWitnesses(wtxs, h, pos),
                                     h - PruningHeight)
      /\ spent' = UpdateExpiredNotes(MarkSpent(wtxs), txBlock', h)
      /\ highest' = IF h > highest THEN h ELSE highest
      /\ displaced' = displaced \cup Replaced(MarkSpent(wtxs))
      /\ UNCHANGED <<netVars, txExpiry, damage, torn>>

----------------------------------------------------------------------------
(* Building a spend or a consolidation: the notes are chosen, the proof is *)
(* made, and store_sent_tx locks them, all in one call on one thread.      *)

StoreSentTx(t, rows) ==
  LET revealed == {<<w.note, w.pos>> : w \in rows}
      expiry == Tip + 1 + ExpiryDelta
  IN  /\ own' = [own EXCEPT ![t] = [by |-> "wallet", spends |-> revealed,
                                    expiry |-> expiry]]
      /\ txExpiry' = [txExpiry EXCEPT ![t] = expiry]
      /\ spent' = [n \in Pays |-> IF <<n, nf[n]>> \in revealed THEN t
                                                               ELSE spent[n]]

BuildSpend(t) ==
  /\ own[t].by = "nobody"
  /\ \E rows \in SUBSET GetUnspentSaplingNotes \ {{}} : StoreSentTx(t, rows)
  /\ UNCHANGED <<chain, epoch, blocks, txBlock, nf, witnesses, histVars>>

\* Enhancement fetches the full transaction of a scanned one, which is how the
\* wallet learns the expiry of a spend it did not build.  Its own viewing key
\* recovers at least one output of every spend made with its seed.
StoreDecryptedTx(t) ==
  /\ Mined(t)
  /\ txExpiry' = [txExpiry EXCEPT ![t] = own[t].expiry]
  /\ UNCHANGED <<netVars, blocks, txBlock, nf, spent, witnesses, histVars>>

----------------------------------------------------------------------------
(* rewind_to_height.  Each SQL statement commits on its own.               *)

\* get_rewind_height: SELECT MIN(tx.block) over the unspent notes.
IsRewindHeight(h) ==
  /\ \E n \in UnspentNotes : txBlock[n] = h
  /\ \A n \in UnspentNotes : h <= txBlock[n]

Shallow(h) == h >= Tip - PruningHeight

RewindAllowed(h) ==
  h < Tip /\ (Shallow(h) \/ \A m \in 0 .. Tip : IsRewindHeight(m) => h <= m)

DeleteWitnesses(h) == {w \in witnesses : w.block <= h}

\* Mutant: off by one, leaves the transactions of block h + 1 mined.
MutantUnmineTransactions(h) ==
  [t \in Tx |-> IF Mined(t) /\ txBlock[t] > h + 1 THEN None ELSE txBlock[t]]

\* Mutant: a rewind that finds no witness to delete takes itself for done.
MutantRewindIsDone(h) ==
  [t \in Tx |-> IF Mined(t) /\ txBlock[t] > h /\ \E w \in witnesses : w.block > h
                THEN None ELSE txBlock[t]]

UnmineTransactions(h) ==
  [t \in Tx |-> IF Mined(t) /\ txBlock[t] > h THEN None ELSE txBlock[t]]

\* DELETE FROM received_notes ... WHERE tx.block > ?, after the statement above.
RewindNotes(col, h) ==
  [n \in Pays |-> IF txBlock'[n] # None /\ txBlock'[n] > h THEN None ELSE col[n]]

\* History only: what this rewind does to the witnesses it should preserve.
Harms(h) ==
  IF h >= Pruned THEN {}
  ELSE IF Shallow(h) THEN {"shallow"} ELSE {"deep"}

RewindToHeight(h) ==
  /\ RewindAllowed(h)
  /\ witnesses' = DeleteWitnesses(h)
  /\ txBlock' = UnmineTransactions(h)
  /\ blocks' = SubSeq(blocks, 1, h)
  /\ nf' = RewindNotes(nf, h)
  /\ spent' = RewindNotes(spent, h)
  /\ damage' = damage \cup Harms(h)
  /\ torn' = IF torn # None /\ h <= torn THEN None ELSE torn
  /\ UNCHANGED <<netVars, txExpiry, highest, displaced>>

\* The process dies after the first or the second statement.
CrashInRewind(h) ==
  /\ CanCrash
  /\ RewindAllowed(h)
  /\ witnesses' = DeleteWitnesses(h)
  /\ txBlock' \in {txBlock, UnmineTransactions(h)}
  /\ torn' = IF torn # None /\ torn <= h THEN torn ELSE h
  /\ UNCHANGED <<netVars, blocks, txExpiry, nf, spent, highest, damage, displaced>>

----------------------------------------------------------------------------
Init ==
  /\ NetInit
  /\ blocks = << >>
  /\ txBlock = [t \in Tx |-> None]
  /\ txExpiry = [t \in Spend |-> None]
  /\ nf = [n \in Pays |-> None]
  /\ spent = [n \in Pays |-> None]
  /\ witnesses = {}
  /\ highest = 0
  /\ damage = {}
  /\ displaced = {}
  /\ torn = None

Next ==
  \/ NetNext /\ UNCHANGED <<dbVars, histVars>>
  \/ AdvanceByBlock
  \/ \E t \in Spend : BuildSpend(t) \/ StoreDecryptedTx(t)
  \/ \E h \in 0 .. Tip : RewindToHeight(h) \/ CrashInRewind(h)

Spec == Init /\ [][Next]_vars

----------------------------------------------------------------------------
(* Types and the FOREIGN KEY and UNIQUE constraints of the schema: rows    *)
(* refer to blocks that are there, and there is one witness per note and   *)
(* block.                                                                  *)
TypeOK ==
  /\ NetTypeOK
  /\ blocks \in Seq(CompactBlock)
  /\ txBlock \in [Tx -> (0 .. Tip) \cup {None}]
  /\ txExpiry \in [Spend -> Nat \cup {None}]
  /\ nf \in [Pays -> BlockHash \cup {None}]
  /\ spent \in [Pays -> Tx \cup {None}]
  /\ witnesses \subseteq [note: Pays, block: 0 .. Tip, pos: BlockHash]
  /\ highest \in Nat
  /\ damage \subseteq Harm
  /\ displaced \subseteq Tx
  /\ torn \in Nat \cup {None}

WitnessedAt(n, h) == \E w \in witnesses : w.note = n /\ w.block = h

\* While no rewind went below the pruned rows, every mined note has a witness
\* at every block from the one that mined it up to the tip: scanning, pruning
\* and rewinding together never lose the witness a later spend will need, and a
\* rewind cut short by a crash is made good by any rewind at least as deep.
WitnessCoverage ==
  damage = {} /\ torn = None =>
    \A n \in Pays : Mined(n) =>
      \A h \in txBlock[n] .. Tip : h >= Pruned => WitnessedAt(n, h)

\* However deep the rewinds went, a note that has a witness at some block has
\* one at every later block: no hole can open between two scans.
WitnessesReachTip ==
  torn = None =>
    \A w \in witnesses : \A h \in w.block .. Tip : WitnessedAt(w.note, h)

\* A note that is offered for spending is not spent by any block the wallet has
\* scanned, and its witness is for the position its nullifier was derived from.
OfferedNotesAreLive ==
  torn = None =>
    \A w \in GetUnspentSaplingNotes :
      /\ w.pos = nf[w.note]
      /\ \A h \in 1 .. Tip :
           <<w.note, nf[w.note]>> \notin Revealed(blocks[h].txs)

\* A spend the wallet builds shares no note with an earlier one of its own that
\* the network could still mine, as far up the chain as the wallet ever scanned:
\* the lock set by store_sent_tx outlives rewinds and rescans, unless a scan found
\* the note spent by another transaction, whose mark takes its place.
NoConflictingSpend ==
  [][\A t, u \in Spend :
       /\ own[t].by = "nobody" /\ own'[t].by = "wallet"
       /\ own[u].by = "wallet" /\ u \notin displaced
       /\ own'[t].spends \cap own[u].spends # {}
       => own[u].expiry < highest]_vars

\* A spend the wallet built locks its notes no longer than it can be mined: once
\* a later block is scanned, the note is spent on chain or free again.
LocksExpire ==
  torn = None =>
    \A n \in Pays :
      LET t == spent[n] IN
      t # None /\ own[t].by = "wallet" => Mined(t) \/ Tip <= own[t].expiry

----------------------------------------------------------------------------
\* The tables implement the ledger of the scanned blocks: a note's confirmed
\* state is read off received_notes and transactions, pending spends aside.
Ledger == INSTANCE ScannedLedger WITH
  Notes <- Pays,
  minedAt <- [n \in Pays |-> txBlock[n]],
  spend <- [n \in Pays |-> IF spent[n] # None /\ Mined(spent[n])
                           THEN <<spent[n], txBlock[spent[n]]>> ELSE None]

\* Received, confirmed-spent and abandoned notes always match the blocks scanned:
\* no order of scans, own or foreign spends, expiries and rewinds confuses them.
ImplementsLedger == Ledger!LedgerSpec

----------------------------------------------------------------------------
(* What comments and error messages of the code say, and TLC refutes.      *)

\* lib.rs: store_sent_tx locks its notes "so they aren't selected again ...
\* before this transaction has been mined", until it has expired.
LockHolds ==
  [][\A t, u \in Spend :
       /\ own[t].by = "nobody" /\ own'[t].by = "wallet"
       /\ own[u].by = "wallet"
       /\ own'[t].spends \cap own[u].spends # {}
       => own[u].expiry < highest]_vars
=============================================================================
