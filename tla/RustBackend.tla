----------------------------- MODULE RustBackend -----------------------------
(***************************************************************************)
(* The native methods of RustBackend (main/rust/lib.rs) over WalletTables: *)
(* one action per call, and a call may fail at any of its statements.      *)
(*                                                                         *)
(* A result is [ok, db, value]: what a method left of the tables, and      *)
(* whether it returned or threw; a panic throws like an error.  Arguments  *)
(* are the ones the SDK passes: a known network, one account, keys and     *)
(* addresses of that network.                                              *)
(***************************************************************************)
EXTENDS WalletTables

CONSTANTS
  ViewingKey,    \* the viewing key the SDK registers
  Birthday,      \* the checkpoint init_blocks_table is given
  ChainBound,    \* bound of the chain
  RewindHeights, \* the heights a rewind asks for
  CacheLimit,    \* SCAN_BATCH_SIZE
  ClampFloor,    \* 100: below it a rewind is not clamped
  Faults,        \* the statements that may fail: 0 .. a bound
  UtxoHeight,    \* outpoint -> the height it is reported at
  BuiltPayment   \* tx -> [index, to, memo], of the transactions built here

\* What the wallet notes of the outputs of a transaction that are not its own:
\* those it can decrypt, the transparent ones, and the payment it made.
OwnOutputs(tx) == {i \in Outputs(tx) : 0 \in Members(Out(tx, i).account)}
PaidOutputs(tx) == {i \in Outputs(tx) \ OwnOutputs(tx) : 0 \in Members(Out(tx, i).payer)}
Notices(tx, index) ==
  {[to |-> Out(tx, i).to, memo |-> <<Out(tx, i).memo>>] : i \in PaidOutputs(tx) \cap {index}}
  \cup {[to |-> Body[tx].vouts[j], memo |-> Null] : j \in DOMAIN Body[tx].vouts \cap {index + 1}}
  \cup {[to |-> BuiltPayment[t].to, memo |-> BuiltPayment[t].memo] :
           t \in {p \in DOMAIN BuiltPayment \cap {tx} : BuiltPayment[p].index = index}}

\* A transaction of the wallet makes one payment (the SDK's requests have one),
\* so no two of them share an index: sent_notes is keyed by it alone, whatever
\* the pool.  A checkpoint is not below the activation of Sapling.
ASSUME BackendAssumption ==
  /\ {PruningHeight, AnchorOffset, SaplingActivation, Birthday, ChainBound} \cup RewindHeights \subseteq Nat
  /\ 0 < SaplingActivation /\ SaplingActivation <= Birthday /\ Birthday <= ChainBound
  /\ DOMAIN BuiltPayment \subseteq DOMAIN Body
  /\ \A u \in DOMAIN UtxoHeight : UtxoHeight[u] \in Nat
  /\ \A tx \in DOMAIN Body :
       /\ {Len(Body[tx].outs), Len(Body[tx].vouts)} \subseteq Nat
       /\ DOMAIN Body[tx].vouts = 1 .. Len(Body[tx].vouts)
       /\ IsFiniteSet(Body[tx].spends) /\ IsFiniteSet(Body[tx].vins)
       /\ \A n \in Body[tx].spends : n = <<n[1], n[2]>> /\ n[1] \in DOMAIN Body
       /\ \A i \in Outputs(tx) \cup {j - 1 : j \in DOMAIN Body[tx].vouts}
                   \cup {BuiltPayment[t].index : t \in DOMAIN BuiltPayment \cap {tx}} :
            \A row, other \in Notices(tx, i) : row = other

VARIABLES
  db,
  cache,     \* compactblocks: height -> the set of its relevant transaction
  enhanced   \* history: what decryptAndStoreTransaction returned for

backendVars == <<db, cache, enhanced>>

-----------------------------------------------------------------------------
(* What every method does with its result.                                   *)

\* unwrap_exc_or: the value, or an exception and the value for an error.
UnwrapExcOr(result, errorValue) ==
  [thrown |-> ~result.ok, value |-> IF result.ok THEN result.value ELSE errorValue]
Okay(value) == [ok |-> TRUE, value |-> value]
Err == [ok |-> FALSE]
NonNull(value) == IF value = Null THEN Err ELSE Okay(value[1])

TargetAndAnchorHeights(d) ==
  IF BlockHeightExtrema(d) = Null THEN Null
  ELSE LET ends == BlockHeightExtrema(d)[1]
           deep == IF ends.max + 1 > AnchorOffset THEN ends.max + 1 - AnchorOffset ELSE 0
       IN  <<[target |-> ends.max + 1, anchor |-> IF deep > ends.min THEN deep ELSE ends.min]>>

-----------------------------------------------------------------------------
(* The methods that read. *)

GetShieldedAddress(d, account) == UnwrapExcOr(NonNull(GetAddress(d, account)), Null)

\* A memo that is NULL is an error.
GetReceivedMemoAsUtf8(d, note) == UnwrapExcOr(NonNull(GetReceivedMemo(d, note)), Null)
GetSentMemoAsUtf8(d, output) == UnwrapExcOr(NonNull(GetSentMemo(d, output)), Null)

\* The transparent balances, as the sets of outputs they sum: up to the target
\* and ANCHOR_OFFSET below it.
GetTotalTransparentBalance(d) ==
  UnwrapExcOr(
    IF TargetAndAnchorHeights(d) = Null THEN Err
    ELSE Okay(GetUnspentTransparentUtxos(d, TargetAndAnchorHeights(d)[1].target)), {})
GetVerifiedTransparentBalance(d) ==
  UnwrapExcOr(
    IF TargetAndAnchorHeights(d) = Null THEN Err
    ELSE LET target == TargetAndAnchorHeights(d)[1].target IN
         IF target < AnchorOffset THEN Err
         ELSE Okay(GetUnspentTransparentUtxos(d, target - AnchorOffset)), {})

\* The shielded balances, as the sets of notes they sum: those no transaction
\* spends, mined up to the target; and those with a witness at the anchor,
\* which a payment may spend.
BalanceAt(d, height) ==
  {n \in DOMAIN d.received : d.received[n].spent = Null /\ Mined(d, n[1]) /\ MinedAt(d, n[1]) <= height}
GetBalance(d) ==
  UnwrapExcOr(IF TargetAndAnchorHeights(d) = Null THEN Err
              ELSE Okay(BalanceAt(d, TargetAndAnchorHeights(d)[1].target)), {})
Spendable(d) ==
  LET at == TargetAndAnchorHeights(d)[1].anchor IN
  {n \in BalanceAt(d, at) : <<n, at>> \in d.witnesses}
GetVerifiedBalance(d) ==
  UnwrapExcOr(IF TargetAndAnchorHeights(d) = Null THEN Err ELSE Okay(Spendable(d)), {})

\* Above the floor at most the block of the first unspent note.
GetNearestRewindHeight(d, height) ==
  IF height < ClampFloor \/ GetRewindHeight(d) = Null THEN height
  ELSE Least(GetRewindHeight(d)[1], height)

-----------------------------------------------------------------------------
(* The methods that write, as functions of the tables and of the fault.      *)

InitDataDb(d, fault) == Execute(d, InitWalletDb, fault)

\* In one transaction; a table with a row is left as it is, and it is an error.
InitAccountsTableWithKeys(d, fault) ==
  IF d.accounts # << >> THEN [ok |-> FALSE, db |-> d]
  ELSE Transactionally(d, AccountRows(<<ViewingKey>>), fault)
InitBlocksTable(d, fault) ==
  IF d.blocks # {} THEN [ok |-> FALSE, db |-> d]
  ELSE Execute(d, <<[fn |-> "insert_block", height |-> Birthday]>>, fault)

ScanBlocks(d, fault) == ScanCachedBlocks(d, cache, ChainBound + 1, fault)
ScanBlockBatch(d, fault) == ScanCachedBlocks(d, cache, CacheLimit, fault)

RewindToHeight(d, height, fault) == Execute(d, RewindBody(d, height), fault)

PutUtxo(d, outpoint, fault) ==
  Execute(d, <<[fn |-> "put_utxo", outpoint |-> outpoint, height |-> UtxoHeight[outpoint]]>>, fault)
ClearUtxos(d, above, fault) ==
  Execute(d, <<[fn |-> "delete_utxos", height |-> above]>>, fault)

\* The height decides what the outputs decrypt to; that of a transaction the
\* wallet knows without a block fails to load.  A transaction with nothing for
\* the wallet and no transparent output is not stored.
DecryptAndStoreTransaction(d, tx, fault) ==
  IF ~GetTxHeight(d, tx).ok THEN [ok |-> FALSE, db |-> d]
  ELSE IF Received(d, tx) \cup SentBy(d, tx) = {} /\ Body[tx].vouts = << >>
  THEN [ok |-> TRUE, db |-> d]
  ELSE Transactionally(d, DecryptedBody(d, tx), fault)

\* The transaction spends spendable notes; which ones is NoteSelection.
CreateToAddress(d, tx, fault) ==
  IF \/ ~IsValidAccountExtfvk(d, 0, ViewingKey) \/ TargetAndAnchorHeights(d) = Null
     \/ ~(Body[tx].spends \subseteq Spendable(d))
  THEN [ok |-> FALSE, db |-> d]
  ELSE Transactionally(d, SentBody(tx, BuiltPayment[tx]), fault)

\* shield_funds: every output at the anchor that no block spends.
ShieldFunds(d, tx, fault) ==
  IF \/ TargetAndAnchorHeights(d) = Null
     \/ Body[tx].vins # GetUnspentTransparentUtxos(d, TargetAndAnchorHeights(d)[1].anchor)
  THEN [ok |-> FALSE, db |-> d]
  ELSE Transactionally(d, SentBody(tx, BuiltPayment[tx]), fault)

\* Of account 0 only, which is the one the SDK has.
ShieldToAddress(d, tx, fault) == ShieldFunds(d, tx, fault)

Call(name, argument) == [name |-> name, argument |-> argument]
Run(c, d, fault) ==
  CASE c.name = "initDataDb" -> InitDataDb(d, fault)
    [] c.name = "initAccountsTableWithKeys" -> InitAccountsTableWithKeys(d, fault)
    [] c.name = "initBlocksTable" -> InitBlocksTable(d, fault)
    [] c.name = "scanBlocks" -> ScanBlocks(d, fault)
    [] c.name = "scanBlockBatch" -> ScanBlockBatch(d, fault)
    [] c.name = "rewindToHeight" -> RewindToHeight(d, c.argument, fault)
    [] c.name = "putUtxo" -> PutUtxo(d, c.argument, fault)
    [] c.name = "clearUtxos" -> ClearUtxos(d, c.argument, fault)
    [] c.name = "decryptAndStoreTransaction" -> DecryptAndStoreTransaction(d, c.argument, fault)
    [] c.name = "createToAddress" -> CreateToAddress(d, c.argument, fault)
    [] c.name = "shieldToAddress" -> ShieldToAddress(d, c.argument, fault)

-----------------------------------------------------------------------------
(* The calls of the SDK, and what the other actors do.                        *)

\* initMissingDatabases, on every start of the app; a failure other than of a
\* table with rows ends the start.
StartCalls ==
  {Call("initDataDb", 0)}
  \cup (IF db.tables = TableNames THEN {Call("initBlocksTable", 0)} ELSE {})
  \cup (IF db.blocks # {} THEN {Call("initAccountsTableWithKeys", 0)} ELSE {})

ScanCalls == {Call("scanBlocks", 0), Call("scanBlockBatch", 0)}

RewindCalls == {Call("rewindToHeight", GetNearestRewindHeight(db, h)) : h \in RewindHeights}

\* processUtxoResult, of the outputs the server reports.
RefreshCalls ==
  {Call("clearUtxos", h) : h \in {Birthday, ChainBound}} \cup {Call("putUtxo", u) : u \in DOMAIN UtxoHeight}

\* enhance, of a transaction the scan found.
EnhanceCalls ==
  {Call("decryptAndStoreTransaction", tx) : tx \in {t \in DOMAIN db.transactions : Mined(db, t)}}

\* The transaction a payment results in is new.
Cached == UNION {cache[h] : h \in DOMAIN cache}
BuildCalls ==
  {Call(IF Body[tx].vins = {} THEN "createToAddress" ELSE "shieldToAddress", tx) :
     tx \in DOMAIN BuiltPayment \ (DOMAIN db.transactions \cup Cached)}

Made(c) ==
  /\ \E fault \in Faults : \E r \in {Run(c, db, fault)} :
       /\ db' = r.db
       /\ enhanced' = IF r.ok /\ c.name = "decryptAndStoreTransaction"
                      THEN enhanced \cup {c.argument} ELSE enhanced
  /\ UNCHANGED cache

Ready == db.accounts # << >>

Start == \E c \in StartCalls : Made(c)
Scan == Ready /\ \E c \in ScanCalls : Made(c)
Rewind == Ready /\ \E c \in RewindCalls : Made(c)
RefreshUtxos == Ready /\ \E c \in RefreshCalls : Made(c)
Enhance == Ready /\ \E c \in EnhanceCalls : Made(c)
Build == Ready /\ \E c \in BuildCalls : Made(c)

\* The network mines the next block, of a transaction that is valid there, and
\* the downloader stores it.  Another wallet of the same seed may have built it.
Download ==
  /\ Ready
  /\ LET h == IF DOMAIN cache = {} THEN Birthday + 1 ELSE Max(DOMAIN cache) + 1
         valid(tx) == /\ tx \notin Cached
                      /\ {n[1] : n \in Body[tx].spends} \subseteq Cached
                      /\ \A u \in Body[tx].vins : UtxoHeight[u] < h
                      /\ \A other \in Cached : Body[other].spends \cap Body[tx].spends = {}
     IN /\ h <= ChainBound
        /\ \E tx \in DOMAIN Body : valid(tx) /\ cache' = Put(cache, h, {tx})
  /\ UNCHANGED <<db, enhanced>>

\* The blocks that were not scanned, or were scanned and rewound, are dropped.
RewindCache ==
  /\ \E h \in Birthday .. ChainBound - 1 :
       /\ h < Max(DOMAIN cache \cup {0}) /\ \A k \in db.blocks : k <= h
       /\ cache' = [k \in {j \in DOMAIN cache : j <= h} |-> cache[k]]
  /\ UNCHANGED <<db, enhanced>>

BackendInit == db = NoDb /\ cache = << >> /\ enhanced = {}

BackendNext ==
  \/ Start \/ Scan \/ Rewind \/ RefreshUtxos \/ Enhance \/ Build
  \/ Download \/ RewindCache

BackendSpec == BackendInit /\ [][BackendNext]_backendVars

-----------------------------------------------------------------------------
(* Properties. *)

\* What the wallet shows of a transaction is what the transaction says, whatever
\* was scanned, decrypted, failed, rewound and scanned again in between: once it
\* was decrypted in full, every output to the wallet has its note with its memo
\* and its nullifier (a scan brings no memo and full decryption no nullifier,
\* wallet.rs:901-946), every payment of the wallet its recipient and memo, from
\* the moment it is built, and a transaction that spends a note of the wallet its
\* transparent outputs; the account has its address; the verified balances are
\* of what the totals count.
RecordsMatchTransactions ==
  /\ \A tx \in enhanced :
       /\ \A i \in Received(db, tx) :
            /\ GetReceivedMemoAsUtf8(db, <<tx, i>>) = [thrown |-> FALSE, value |-> Out(tx, i).memo]
            /\ db.received[<<tx, i>>].nf = <<<<tx, i>>>>
       /\ \A i \in SentBy(db, tx) :
            /\ GetSentMemoAsUtf8(db, <<tx, i>>) = [thrown |-> FALSE, value |-> Out(tx, i).memo]
            /\ db.sent[<<tx, i>>].to = Out(tx, i).to
       /\ \A j \in DOMAIN Body[tx].vouts :
            (\E n \in Body[tx].spends : n[2] \in Received(db, n[1])) =>
            db.sent[<<tx, j - 1>>] = [to |-> Body[tx].vouts[j], memo |-> Null]
  /\ \A tx \in DOMAIN db.transactions \cap DOMAIN BuiltPayment :
       db.transactions[tx].created =>
         db.sent[<<tx, BuiltPayment[tx].index>>] = [to |-> BuiltPayment[tx].to, memo |-> BuiltPayment[tx].memo]
  /\ Ready => GetShieldedAddress(db, 0) = [thrown |-> FALSE, value |-> ViewingKey]
  /\ GetVerifiedTransparentBalance(db).value \subseteq GetTotalTransparentBalance(db).value
  /\ GetVerifiedBalance(db).value \subseteq GetBalance(db).value

\* A call that threw half way can be made again: the second time leaves what the
\* first would have.  A batch that failed is taken up where it stopped, so it is
\* compared once everything is scanned.  A rewind that lost its last statement
\* keeps the transparent outputs above it, which no retry looks for again; one
\* whose blocks then end below PRUNING_HEIGHT, where heights cannot be
\* subtracted, panics the next time and is left out.  Calls that make something
\* new or change transparent outputs are not among these: createToAddress,
\* shieldToAddress, putUtxo and clearUtxos.
FailedCallsCanBeRepeated ==
  \A c \in StartCalls \cup (IF Ready THEN ScanCalls \cup RewindCalls \cup EnhanceCalls ELSE {}) :
  \A fault \in Faults :
  \A half \in {Run(c, db, fault)} :
    LET again == IF c.name = "scanBlockBatch" THEN [c EXCEPT !.name = "scanBlocks"] ELSE c
        Kept(d) == IF c.name = "rewindToHeight" THEN [d EXCEPT !.utxos = << >>] ELSE d
    IN  \/ half.ok \/ half.db = db
        \/ c.name = "rewindToHeight" /\ LastScanned(half.db) < PruningHeight
        \/ \A whole \in {Run(again, db, 0)} : \A second \in {Run(again, half.db, 0)} :
             second.ok = whole.ok /\ Kept(second.db) = Kept(whole.db)
=============================================================================
