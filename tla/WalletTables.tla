----------------------------- MODULE WalletTables -----------------------------
(***************************************************************************)
(* The tables of zcash_client_sqlite, statement by statement: what each    *)
(* function of wallet.rs does to them, the bodies that lib.rs runs inside  *)
(* a transaction, and the rewind, which runs outside one.                  *)
(*                                                                         *)
(* A statement is a record of its function and arguments, a body the       *)
(* sequence of the statements it issues; a statement that fails leaves     *)
(* none.  A transaction's body is fixed: its id stands for it, the pair of *)
(* its id and an output's index for the output and for its nullifier.      *)
(* An SQL value that may be NULL is a sequence of at most one.             *)
(***************************************************************************)
EXTENDS Integers, Sequences, FiniteSets, SequencesExt, FiniteSetsExt, TLC

CONSTANTS
  Body,           \* id -> [spends, outs, vins, vouts, expiry]
  PruningHeight,  \* PRUNING_HEIGHT
  AnchorOffset,   \* ANCHOR_OFFSET
  SaplingActivation   \* the height Sapling is active from

Null == << >>
IfNull(value, otherwise) == IF value = Null THEN otherwise ELSE value
Least(h, k) == IF h < k THEN h ELSE k
Members(value) == {value[i] : i \in DOMAIN value}
Outputs(tx) == 0 .. Len(Body[tx].outs) - 1
Out(tx, i) == Body[tx].outs[i + 1]

TableNames == 7   \* accounts, blocks, transactions, received_notes,
                  \* sapling_witnesses, sent_notes, utxos

NoDb ==
  [tables |-> 0, accounts |-> << >>, blocks |-> {}, transactions |-> << >>, received |-> << >>,
   witnesses |-> {}, sent |-> << >>, utxos |-> << >>]

-----------------------------------------------------------------------------
(* Queries. *)

AccountIds(db) == 0 .. Len(db.accounts) - 1
GetAddress(db, account) ==
  IF account \in AccountIds(db) THEN <<db.accounts[account + 1]>> ELSE Null
IsValidAccountExtfvk(db, account, key) == GetAddress(db, account) = <<key>>

BlockHeightExtrema(db) ==
  IF db.blocks = {} THEN Null ELSE <<[min |-> Min(db.blocks), max |-> Max(db.blocks)]>>

\* Where a scan and a rewind start from.
LastScanned(db) == IF db.blocks = {} THEN SaplingActivation - 1 ELSE Max(db.blocks)

\* None when the transaction is unknown; the row of an unmined one fails to load.
GetTxHeight(db, tx) ==
  IF tx \notin DOMAIN db.transactions THEN [ok |-> TRUE, height |-> Null]
  ELSE [ok |-> db.transactions[tx].block # Null, height |-> db.transactions[tx].block]

Mined(db, tx) == tx \in DOMAIN db.transactions /\ db.transactions[tx].block # Null
MinedAt(db, tx) == db.transactions[tx].block[1]

GetNullifiers(db) ==
  {n \in DOMAIN db.received : \A tx \in Members(db.received[n].spent) : ~Mined(db, tx)}
GetAllNullifiers(db) == DOMAIN db.received
GetWitnesses(db, height) == {w[1] : w \in {x \in db.witnesses : x[2] = height}}

GetReceivedMemo(db, note) ==
  IF note \in DOMAIN db.received THEN db.received[note].memo ELSE Null
GetSentMemo(db, output) ==
  IF output \in DOMAIN db.sent THEN db.sent[output].memo ELSE Null

\* Outputs up to a height whose spending transaction is not in a block: also
\* those a transaction in flight spends.
GetUnspentTransparentUtxos(db, height) ==
  {u \in DOMAIN db.utxos :
     db.utxos[u].height <= height /\ \A tx \in Members(db.utxos[u].spent) : ~Mined(db, tx)}

\* get_rewind_height: the lowest block of a note that is not spent.
GetRewindHeight(db) ==
  LET heights == {MinedAt(db, n[1]) : n \in {m \in DOMAIN db.received :
                    db.received[m].spent = Null /\ Mined(db, m[1])}}
  IN  IF heights = {} THEN Null ELSE <<Min(heights)>>

-----------------------------------------------------------------------------
(* Statements: <<the tables after it>>, or Null when it fails. *)

Put(f, key, row) == [k \in {key} \cup DOMAIN f |-> IF k = key THEN row ELSE f[k]]
Set(f, keys, change(_)) == [k \in DOMAIN f |-> IF k \in keys THEN change(f[k]) ELSE f[k]]

\* The table is there, or it is created.
CreateTable(db, s) == <<[db EXCEPT !.tables = IF @ < s.table THEN s.table ELSE @]>>
InsertAccount(db, s) == <<[db EXCEPT !.accounts = Append(@, s.key)]>>
InsertBlock(db, s) ==
  IF s.height \in db.blocks THEN Null ELSE <<[db EXCEPT !.blocks = @ \cup {s.height}]>>

PutTxMeta(db, s) ==
  <<[db EXCEPT !.transactions =
       IF s.tx \in DOMAIN @ THEN [@ EXCEPT ![s.tx].block = <<s.height>>]
       ELSE Put(@, s.tx, [block |-> <<s.height>>, raw |-> FALSE, created |-> FALSE])]>>
PutTxData(db, s) ==
  <<[db EXCEPT !.transactions =
       IF s.tx \in DOMAIN @ THEN [@ EXCEPT ![s.tx].raw = TRUE]
       ELSE Put(@, s.tx, [block |-> Null, raw |-> TRUE, created |-> s.created])]>>

\* By its nullifier; a note the wallet does not know is no row.
MarkSaplingNoteSpent(db, s) ==
  <<[db EXCEPT !.received = Set(@, {s.nf}, LAMBDA row : [row EXCEPT !.spent = <<s.tx>>])]>>
MarkTransparentUtxoSpent(db, s) ==
  <<[db EXCEPT !.utxos = Set(@, {s.outpoint}, LAMBDA row : [row EXCEPT !.spent = <<s.tx>>])]>>

\* A transparent output is inserted once.
PutReceivedTransparentUtxo(db, s) ==
  IF s.outpoint \in DOMAIN db.utxos THEN Null
  ELSE <<[db EXCEPT !.utxos = Put(@, s.outpoint, [height |-> s.height, spent |-> Null])]>>
DeleteUtxosAbove(db, s) ==
  <<[db EXCEPT !.utxos =
       [u \in {v \in DOMAIN @ : @[v].height <= s.height} |-> db.utxos[u]]]>>

Updated(row, s) ==
  [row EXCEPT !.nf = IfNull(s.nf, @), !.memo = IfNull(s.memo, @), !.change = IfNull(s.change, @)]

\* Mutant: a scan, which knows no memo, overwrites it.
MutantPutReceivedNote(db, s) ==
  IF s.note \in DOMAIN db.received
  THEN <<[db EXCEPT !.received = Put(@, s.note, [Updated(@[s.note], s) EXCEPT !.memo = s.memo])]>>
  ELSE IF Null \in {s.nf, s.change} THEN Null
  ELSE <<[db EXCEPT !.received =
            Put(@, s.note, [nf |-> s.nf, memo |-> s.memo, change |-> s.change, spent |-> Null])]>>

\* Found by a scan (with a nullifier and change, without a memo) or decrypted in
\* full (the other way round): an update keeps what it does not bring, and the
\* nullifier and the change flag of a new row may not be NULL.
PutReceivedNote(db, s) ==
  IF s.note \in DOMAIN db.received
  THEN <<[db EXCEPT !.received = Put(@, s.note, Updated(@[s.note], s))]>>
  ELSE IF Null \in {s.nf, s.change} THEN Null
  ELSE <<[db EXCEPT !.received =
            Put(@, s.note, [nf |-> s.nf, memo |-> s.memo, change |-> s.change, spent |-> Null])]>>

\* put_sent_note and put_sent_utxo: both are keyed by the output's index.
PutSentNote(db, s) == <<[db EXCEPT !.sent = Put(@, s.output, [to |-> s.to, memo |-> s.memo])]>>
InsertSentNote(db, s) == IF s.output \in DOMAIN db.sent THEN Null ELSE PutSentNote(db, s)

\* INSERT OR IGNORE.
InsertWitness(db, s) == <<[db EXCEPT !.witnesses = @ \cup {<<s.note, s.height>>}]>>
\* Heights are unsigned: below PRUNING_HEIGHT the subtraction panics.
PruneWitnesses(db, s) ==
  IF s.height < PruningHeight THEN Null
  ELSE <<[db EXCEPT !.witnesses = {w \in @ : w[2] >= s.height - PruningHeight}]>>
UpdateExpiredNotes(db, s) ==
  LET expired == {n \in DOMAIN db.received : \E tx \in Members(db.received[n].spent) :
                    ~Mined(db, tx) /\ db.transactions[tx].raw /\ Body[tx].expiry < s.height}
  IN  <<[db EXCEPT !.received = Set(@, expired, LAMBDA row : [row EXCEPT !.spent = Null])]>>

\* The six statements of a rewind.  Transactions are un-mined before their notes
\* are looked for, so no note goes with them.
RewindStatement(db, s) ==
  LET above(k) == k > s.height
      of(rows) == {r \in DOMAIN rows : Mined(db, r[1]) /\ above(MinedAt(db, r[1]))}
  IN
  CASE s.part = 1 -> <<[db EXCEPT !.witnesses = {w \in @ : ~above(w[2])}]>>
    [] s.part = 2 -> <<[db EXCEPT !.transactions =
                          Set(@, {tx \in DOMAIN @ : Mined(db, tx) /\ above(MinedAt(db, tx))},
                              LAMBDA row : [row EXCEPT !.block = Null])]>>
    [] s.part = 3 -> <<[db EXCEPT !.blocks = {k \in @ : ~above(k)}]>>
    [] s.part = 4 -> <<[db EXCEPT !.received = [r \in DOMAIN @ \ of(@) |-> db.received[r]]]>>
    [] s.part = 5 -> <<[db EXCEPT !.sent = [r \in DOMAIN @ \ of(@) |-> db.sent[r]]]>>
    [] s.part = 6 -> DeleteUtxosAbove(db, s)

Exec(db, s) ==
  CASE s.fn = "create_table" -> CreateTable(db, s)
    [] s.fn = "insert_account" -> InsertAccount(db, s)
    [] s.fn = "insert_block" -> InsertBlock(db, s)
    [] s.fn = "put_tx_meta" -> PutTxMeta(db, s)
    [] s.fn = "put_tx_data" -> PutTxData(db, s)
    [] s.fn = "mark_sapling_note_spent" -> MarkSaplingNoteSpent(db, s)
    [] s.fn = "mark_transparent_utxo_spent" -> MarkTransparentUtxoSpent(db, s)
    [] s.fn = "put_utxo" -> PutReceivedTransparentUtxo(db, s)
    [] s.fn = "delete_utxos" -> DeleteUtxosAbove(db, s)
    [] s.fn = "put_received_note" -> PutReceivedNote(db, s)
    [] s.fn = "put_sent_note" -> PutSentNote(db, s)
    [] s.fn = "insert_sent_note" -> InsertSentNote(db, s)
    [] s.fn = "insert_witness" -> InsertWitness(db, s)
    [] s.fn = "prune_witnesses" -> PruneWitnesses(db, s)
    [] s.fn = "update_expired_notes" -> UpdateExpiredNotes(db, s)
    [] s.fn = "rewind" -> RewindStatement(db, s)
    [] s.fn = "panic" -> Null

\* The statements one after the other; the one at `fault` fails, none when it is
\* 0.  What is left of the count goes to the next body.
Advance(r, s) ==
  IF ~r.ok THEN r
  ELSE IF r.fault = 1 \/ Exec(r.db, s) = Null THEN [r EXCEPT !.ok = FALSE]
  ELSE [ok |-> TRUE, db |-> Exec(r.db, s)[1], fault |-> IF r.fault = 0 THEN 0 ELSE r.fault - 1]
Execute(db, body, fault) ==
  LET run[k \in 0 .. Len(body)] ==
        IF k = 0 THEN [ok |-> TRUE, db |-> db, fault |-> fault] ELSE Advance(run[k - 1], body[k])
  IN  run[Len(body)]

\* Mutant: the error is returned without the rollback.
MutantTransactionally(db, body, fault) == Execute(db, body, fault)

\* All of the body, or nothing of it.
Transactionally(db, body, fault) ==
  LET r == Execute(db, body, fault) IN IF r.ok THEN r ELSE [r EXCEPT !.db = db]

-----------------------------------------------------------------------------
(* Bodies. *)

InitWalletDb == [i \in 1 .. TableNames |-> [fn |-> "create_table", table |-> i]]

AccountRows(keys) == [i \in DOMAIN keys |-> [fn |-> "insert_account", key |-> keys[i]]]

\* Of a transaction, what scan_block finds with the wallet's viewing keys: the
\* known notes it spends and the outputs it pays to the wallet, as change when
\* it spends notes of the same account.
Spends(tx, known) == Body[tx].spends \cap known
Received(db, tx) == {i \in Outputs(tx) : Members(Out(tx, i).account) \cap AccountIds(db) # {}}
IsRelevant(db, tx) == Spends(tx, GetNullifiers(db)) # {} \/ Received(db, tx) # {}

\* advance_by_block; the transparent outputs a transaction spends are not marked.
BlockBody(db, height, tx) ==
  LET relevant == {t \in tx : IsRelevant(db, t)}
      notes == UNION {{<<t, i>> : i \in Received(db, t)} : t \in relevant}
      spent(t) == Spends(t, GetNullifiers(db))
  IN
  <<[fn |-> "insert_block", height |-> height]>>
  \o SetToSeq({[fn |-> "put_tx_meta", tx |-> t, height |-> height] : t \in relevant})
  \o SetToSeq(UNION {{[fn |-> "mark_sapling_note_spent", tx |-> t, nf |-> n] : n \in spent(t)} :
                       t \in relevant})
  \o SetToSeq({[fn |-> "put_received_note", note |-> n, nf |-> <<n>>, memo |-> Null,
                change |-> <<spent(n[1]) # {}>>] : n \in notes})
  \o SetToSeq({[fn |-> "insert_witness", note |-> n, height |-> height] :
                 n \in notes \cup GetWitnesses(db, height - 1)})
  \o <<[fn |-> "prune_witnesses", height |-> height],
       [fn |-> "update_expired_notes", height |-> height]>>

\* decrypt_transaction, with one account: an output is the wallet's by its
\* incoming key, or else one it sent by its outgoing key.
SentBy(db, tx) ==
  {i \in Outputs(tx) \ Received(db, tx) : Members(Out(tx, i).payer) \cap AccountIds(db) # {}}

\* store_decrypted_tx; the transparent outputs of a transaction are the wallet's
\* payments when it spends a note the wallet knows.
DecryptedBody(db, tx) ==
  LET payers == UNION {Members(Out(tx, i).account) \cap AccountIds(db) : i \in Received(db, tx)}
      ours == Body[tx].spends \cap GetAllNullifiers(db) # {}
  IN
  <<[fn |-> "put_tx_data", tx |-> tx, created |-> FALSE]>>
  \o SetToSeq({[fn |-> "put_sent_note", output |-> <<tx, i>>, to |-> Out(tx, i).to,
                memo |-> <<Out(tx, i).memo>>] : i \in SentBy(db, tx)})
  \o SetToSeq({[fn |-> "put_received_note", note |-> <<tx, i>>, nf |-> Null,
                memo |-> <<Out(tx, i).memo>>, change |-> Null] : i \in Received(db, tx)})
  \o (IF Cardinality(payers) > 1 THEN <<[fn |-> "panic"]>> ELSE << >>)
  \o [j \in 1 .. (IF ours THEN Len(Body[tx].vouts) ELSE 0) |->
        [fn |-> "put_sent_note", output |-> <<tx, j - 1>>, to |-> Body[tx].vouts[j], memo |-> Null]]

\* store_sent_tx, with the one payment of the request.
SentBody(tx, payment) ==
  <<[fn |-> "put_tx_data", tx |-> tx, created |-> TRUE]>>
  \o SetToSeq({[fn |-> "mark_sapling_note_spent", tx |-> tx, nf |-> n] : n \in Body[tx].spends})
  \o SetToSeq({[fn |-> "mark_transparent_utxo_spent", tx |-> tx, outpoint |-> u] :
                 u \in Body[tx].vins})
  \o <<[fn |-> "insert_sent_note", output |-> <<tx, payment.index>>, to |-> payment.to,
        memo |-> payment.memo]>>

\* rewind_to_height: refused below an unspent note when it is deeper than the
\* witnesses are kept; without a block it starts from the activation height.
RewindBody(db, height) ==
  LET last == LastScanned(db)
      lowest == GetRewindHeight(db)
  IN
  IF \/ last < PruningHeight
     \/ height < last - PruningHeight /\ \E h \in Members(lowest) : height > h
  THEN <<[fn |-> "panic"]>>
  ELSE IF height < last THEN [i \in 1 .. 6 |-> [fn |-> "rewind", part |-> i, height |-> height]]
  ELSE << >>

-----------------------------------------------------------------------------
(* scan_cached_blocks: from the block above the last one, each in its own      *)
(* transaction; those before a failure stay.                                  *)

\* rows: the cache, as a function of heights.
WithBlocks(cache, from, limit) ==
  LET above == {h \in DOMAIN cache : h > from} IN
  {h \in above : Cardinality({k \in above : k <= h}) <= limit}

\* The row of height h, which must be the next.
ScanRow(r, h, rows) ==
  IF ~r.ok THEN r
  ELSE IF h # LastScanned(r.db) + 1 THEN [r EXCEPT !.ok = FALSE]
  ELSE Transactionally(r.db, BlockBody(r.db, h, rows[h]), r.fault)
ScanCachedBlocks(db, cache, limit, fault) ==
  LET rows == WithBlocks(cache, LastScanned(db), limit)
      last == Max({0} \cup rows)
      scan[h \in 0 .. last] ==
        IF h = 0 THEN [ok |-> TRUE, db |-> db, fault |-> fault]
        ELSE IF h \in rows THEN ScanRow(scan[h - 1], h, cache) ELSE scan[h - 1]
  IN  scan[last]
=============================================================================
