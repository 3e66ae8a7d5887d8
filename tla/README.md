# DragonX wallet: a TLA+ model from its key slots to its circuits

This directory models the DragonX Android wallet: the wallet database and the
primitives of `librustzcash`, the native bridge, block processor, payments and
consolidation sweep of the SDK, and the app's wallets and automatic recovery.
Paths are relative to the repository's sources. `K` stands for
`dragonx-android-wallet-sdk/sdk-lib/src/main/java/cash/z/ecc/android/sdk`, `J` for
`dragonx-android-wallet-sdk/sdk-lib/src/main/rust/lib.rs`, `A` for
`SilentDragonXAndroid/app/src/main/java/cash/z/ecc/android`, `Z` for
`librustzcash`, `Q` for `Z/zcash_client_sqlite/src`, `P` for
`Z/zcash_primitives/src`. Which lines each definition stands for is in
`PROJECT.json`, under `map`.

## 1. The system

A light wallet asks a *lightwalletd* server for compact blocks, stores them in a
**cache DB**, and scans them into a **data DB** with the wallet's transactions,
notes and witnesses. Payments to be sent live in a third database, the **pending
DB**. The three are separate SQLite files; no transaction spans two of them. Keys
live in the **lock box**, a map of which each entry is written on its own.

| component | state it keeps | operations |
| --- | --- | --- |
| Wallet database (`Q`) | tables accounts, blocks, transactions, received_notes, sapling_witnesses, sent_notes, utxos | initialise, scan a block, build and store a spend, shield, store a decrypted transaction, put and clear UTXOs, rewind |
| Chain scanning and spending (`Z/zcash_client_backend`) | none of its own | validate_chain, scan_cached_blocks, scan_block, create_spend_to_address, shield_funds, decrypt_and_store_transaction |
| JNI bridge (`J`) | none of its own | one native method per call of the SDK; a panic and an error both throw |
| Compact block processor (`K/block`, `K/internal/block`) | State, currentInfo, didReenhanceAtTip; the cache DB | the polling loop, the download pipeline, enhancement, rewindToNearestHeight, quickRewind |
| App recovery (`A/ui/MainActivity.kt`) | in-progress flags in memory, throttles in preferences | onProcessorError, autoFkRewind, clearBlockDataAndRestart, onCriticalError |
| Synchronizer (`K/SdkSynchronizer.kt`) | status flows, the job of onReady | onScanComplete, refreshPendingTransactions, sendToAddress, cancelSpend, consolidate |
| Pending transactions (`K/internal/transaction`, `K/internal/db`) | one row per payment: raw transaction, attempts, error, mined height | initSpend, encode, submit, cancel, markForDeletion, abort, applyMinedHeight; clean-up of the data DB |
| Consolidation sweep (`K/SdkSynchronizer.kt`, `A/ext/ConsolidationController.kt`) | the batches in flight, idle rounds, failures | start, top up, submit, settle, give up |
| Wallets of the app (`A/ext/WalletManager.kt`, `A/di`) | key slots, live keys, active index | create, import, restore, switch, migrate; the start that opens a database |
| Initialisation (`K/Initializer.kt`, `K/tool/CheckpointTool.kt`) | database files | import, erase, nearest checkpoint |
| Primitives (`P`) | values | commitment tree and witnesses, keys, notes, builder, formats, digests, signatures |
| Proofs, history, extensions, texts (`Z/zcash_proofs`, `Z/zcash_history`, ...) | values | circuits, history tree, demo extension, Equihash, payment URIs, encodings |

How they interact:

- the processor's loop calls the wallet database through JNI; `processingMutex`
  excludes a cycle and a rewind from each other, and nothing else;
- the processor publishes its `State`; the synchronizer's collector of that flow
  refreshes the pending transactions after every scan, in a coroutine that is a
  child of the same job as the loop;
- a payment's flow runs in the coroutine of whoever collects it. It shares the
  data DB with the scanner and the refresh, and the pending DB with the refresh
  and with cancellations. `daoMutex` covers single calls on the pending DB, not
  the span between reading a row and writing it;
- the sweep runs in a scope of the process, beside payments and scans, and locks
  notes through the same builder;
- the processor reports errors to the app's listener, which answers from the
  loop's coroutine and launches rewinds and wipes beside it;
- the active wallet's alias names the data DB and the cache DB, its live keys sign;
  the pending DB is shared by all wallets.

What is hard here: every SQL statement of a rewind commits alone; a crash may
fall between two databases, or between two entries of the lock box; the chain
reorganises at any point of a cycle; a submission's reply may be lost; a refresh
acts on a snapshot that is seconds old; recoveries are throttled by wall-clock
time; the primitives keep the same thing twice (tree and witness, writer and
reader, circuit and native code) and must agree for every input. The hazards, each
at its line, are in `PROJECT.json`.

What makes each component correct:

- *wallet database*: a note never loses the witness its spend will need, a note
  is locked exactly as long as its spend may be mined, the tables always
  describe the blocks scanned and the transactions seen, and a call that failed
  half way can be made again;
- *processor*: the two block databases stay in step, "synced" is true when it is
  shown, each scanned transaction is asked for, and no error is final;
- *pending transactions*: a payment that may be mined keeps its notes; a row is
  dropped only when nothing is left to undo; in the end locks agree with the
  chain, and no row remains;
- *sweep*: batches never share a note, the window is kept, every sweep ends;
- *wallets of the app*: the active keys and the database belong to one wallet, and
  a registered wallet keeps its keys;
- *primitives*: a note sent arrives and can be spent, whatever the server
  exchanges; a transaction balances, verifies and reads back as it was written;
  witness and tree have one root; a viewing key sees what its spending key owns;
- *circuits*: they admit exactly the statements the native code computes.

## 2. The modules

| module | models | builds on |
| --- | --- | --- |
| `Network` | the chain and the transactions of the wallet on it (environment) | |
| `WalletDb` | notes, witnesses and locks of the data DB, all writers | `Network` |
| `ScannedLedger` | what that database promises (abstract specification) | |
| `WalletTables` | the seven tables, statement by statement | |
| `RustBackend` | the native methods over the tables, each cut short by faults | `WalletTables` |
| `CompactBlockProcessor` | the loop, rewinds, enhancement; environment: the server | |
| `SyncRecovery` | the app's recovery, composed with the processor | `CompactBlockProcessor` |
| `PendingTransactions` | payments, cancellation, refresh; environment: network, scanner | |
| `NoteSelection` | the queries and builders that choose notes | |
| `ConsolidationSweep` | the sweep, composed with scanner, refresh and a payment | `NoteSelection` |
| `Wallets` | key slots, live keys, databases; environment: the process dies | |
| `Serialize` | CompactSize, vectors, options | |
| `CommitmentTree` | the note commitment tree, its witnesses, save and rewind | `Serialize` |
| `HistoryTree` | the Merkle mountain range and its partly loaded view | |
| `TxFormat`, `TxWire` | layouts, signature hashes and ids of all versions; a transaction on its way | `Serialize` |
| `TransactionBuilder` | the builder call by call, proving, signing, verification | |
| `SaplingKeys` | Sapling keys, ZIP 32, addresses | `Serialize` |
| `SaplingNotes`, `NoteDelivery` | notes and their encryption; delivery around Canopy by a server that exchanges fields | `SaplingKeys` |
| `Addresses` | encodings of keys and addresses, memos, scripts, activation heights | `SaplingKeys` |
| `DerivationTool` | the native methods without a database | `Addresses` |
| `PaymentUri` | ZIP 321 texts | `Addresses` |
| `Signatures`, `Equihash`, `DemoExtension` | RedJubjub and its batches; the proof of work; transparent extensions and their demo | |
| `Circuits`, `SaplingCircuit`, `SproutCircuit` | gadgets, Spend and Output, JoinSplit, beside the native computation | |
| `WalletDb_proofs` | theorems: types and witnesses; locks, offers and the refinement | `WalletDb` |
| `SyncRecovery_proofs` | theorems on the processor under the recovery | `SyncRecovery` |
| `PendingTransactions_proofs` | theorems: locks and rows | `PendingTransactions` |
| `ConsolidationSweep_proofs`, `Wallets_proofs`, `NoteDelivery_proofs`, `RustBackend_proofs`, `TransactionBuilder_proofs` | theorems | their components |
| `MC...` | the instances TLC checks; `MCLibraries` extends `NoteDelivery`, `RustBackend` and `TransactionBuilder` and puts `MCTrees`, `MCTransactions` and `MCAlgorithms` beside them | the above |

### WalletDb

`blocks`, `txBlock`, `txExpiry`, `nf`, `spent` and `witnesses` are columns of
the tables, keyed by the transaction that made the note. A note's nullifier
depends on its position in the tree, so it is named by the block that mined it:
after a reorganisation the same note has another nullifier. `AdvanceByBlock` is
`scan_cached_blocks` with `advance_by_block` for one block, which is what one
SQL transaction commits: recognise transactions by the nullifiers tracked before
the block, store their notes, extend the witness rows (`INSERT OR IGNORE`), prune,
and un-spend what expired. `BuildSpend` is `create_spend_to_address` with
`store_sent_tx`; any non-empty set of the notes offered stands for the selection
by amount. `RewindToHeight` runs the statements of `rewind_to_height` in their
order, and `CrashInRewind` ends after the first or second of them.
`highest`, `damage`, `displaced` and `torn` are history: no action reads them, and
they let the properties say which rewinds went below the pruned rows, which were
cut, and whose mark on a note a scan replaced by another transaction's.

`ScannedLedger` keeps only the scanned blocks and, for each note, the heights at
which it was mined and spent. `WalletDb` implements it: locks of pending spends,
expiry and witnesses are invisible there.

### WalletTables and RustBackend

The same database seen from its callers. A statement is a record of its function
and arguments; a body is the sequence of statements a method issues, a transaction
when `lib.rs` opens one and bare otherwise. `Run` is a native method: it executes
its body up to the statement at which a fault strikes, and throws. Every column
the wallet shows is kept: addresses, memos of received and sent notes, recipients,
transparent outputs, the viewing key. `WalletDb` has what this leaves out (a chain
that reorganises, expiry in all orders, witnesses block by block) and leaves out
what this has.

### CompactBlockProcessor and SyncRecovery

`pc` says what the holder of `processingMutex` does next: a cycle of the loop
(`idle`, `download`, `scan`, `clear`, `enhance`), a rewind that has cut the data
DB (`rewound`), its rescan (`validate`), or an error on its way to the listener.
Retries inside one call are part of the step that finally succeeds or gives up.
`cache` is the cache DB, `scanned` and `raw` the tables of the data DB, `info` is
`currentInfo`. A block carries its epoch and that of its predecessor, which is
all that a comparison of hashes can tell. `Crash` may fall between any two steps,
so between the two halves of a rewind.

`getLastScannedHeight` falls back to the height last published when its read fails
(`K/block/CompactBlockProcessor.kt:1166`). That height may lie below the tip (a scan
threw after it had committed blocks), above it (a rewind published a target it did
not reach) or be missing (the first cycle of a process): the ranges are then
computed from it, and after a batch it looks like the end of the scan. `misread`
marks such a cycle, which may show SYNCED too early.

So SYNCED does not always mean scanned, and `SyncedMeansScanned` says where it does.
After a cycle of the loop it means that everything up to the height the server last
reported was scanned. After a rewind that kept the cache (`work.by = "keep"`) it
means only that the rescan reached its end, or the end of what was cached, or did
not get above the rewind: nothing is cached as a rule, so this is the SYNCED with
nothing scanned of section 4. It means nothing in a `misread` cycle or rescan, nor
between the two halves of a rewind (`pc = "rewound"`), when the data DB is cut and the
state still shows what was. The next cycles make up for all three (`CatchesUp`).

`didReenhanceAtTip` says that the catch-up pass was made since blocks were last
scanned by the loop. It is set when the query of that pass failed too
(`K/block/CompactBlockProcessor.kt:307-309`), and a rescan of the kept cache does not
clear it. `missed` holds the transactions nobody asked for on either account, until
the pass is armed again; `CatchUpEnhances` leaves out those and no others. A cycle
that had no scanned height to start from ends at the tip without the pass.

`SyncRecovery` adds the listener. `launched` are the recoveries running beside
the loop, where a rewind that threw is one no longer; `recentRewind`, `recentWipe` and `wipes` are the throttles kept in
preferences, which survive a crash.

### PendingTransactions

`pending` is the pending DB, `pc` the position of each payment's flow, `refresh`
the locals of `refreshPendingTransactions`: the rows each of its four passes
selected from the one snapshot, and what is being marked. `row`, `block`,
`change` and `lock` are the data DB as far as payments go. The flow's steps end
where the code suspends or commits, so a cancellation, a scan or a refresh may
come between the submission and the record of its reply. `SubmitTransaction` has
the outcomes of a remote call: accepted, rejected, and an exception with or
without broadcast. `Abandon` is the screen being left while it collects the flow.
`ThrowNoId` is the exception that ends the synchronizer's job, after which nothing
is scanned or refreshed until the app restarts. The network and the scanner are
reduced to what decides locks; `WalletDb` has them in full. The two UPDATEs of
`markForDeletion` are one step (`Marked`): a kill between them leaves a row without
transaction id that is not marked, as the row of finding 3 is.

### NoteSelection and ConsolidationSweep

`NoteSelection` has the balance queries, the largest-first selection of at most
six notes that is joined with the witnesses only afterwards, and the smallest-first
choice of `consolidateToAddress` with its answer -3. In `ConsolidationSweep`, `txs`
are the transactions under way, of a batch or of an ordinary payment, from their
building to the deletion of their row; `sweep` is the state of the coroutine.
Ages and expiry are held as distances, so the state space is finite without a
bound on the chain.

### Wallets

Each operation is the queue of single writes the code makes (`todo`), and `Die` may
come between any two. `dbOf` is the key whose notes the database of an alias holds,
as written by the first start that found it empty; `pending` the wallets with rows
in the shared pending DB. `torn` is history.

### The primitives

Hashes, ciphers and curves are constructors that obey the algebra the code relies
on and no other, so two values are equal only when the code would have computed
them from the same inputs. Streams are sequences of tokens, one for each
fixed-size field. `CommitmentTree` appends, saves by writing and reading the bytes,
and rewinds to another chain; `HistoryTree` keeps its caller's array and may drop
its view at any time. `TransactionBuilder` makes its calls in any order before
`BuildTransaction`, and a consensus verifier reads the result. `NoteDelivery` has honest and
crafting senders, both rules for plaintexts, and a server that exchanges fields of
compact outputs. In `Circuits` a gadget is the *set* of outputs its constraints
admit under some assignment, so a constraint that is missing shows as a second
output. The toy curves have Jubjub's shape: cofactor 8, the equation with its own
`d`, complete and incomplete additions.

## 3. The runs

| run | instance | checks |
| --- | --- | --- |
| `wallet_db` | a receipt, two spends with change, 4 blocks, 1 reorganisation | types and foreign keys, `WitnessCoverage`, `WitnessesReachTip`, `OfferedNotesAreLive`, `LocksExpire`, `NoConflictingSpend`, `ImplementsLedger` (refinement of `ScannedLedger`) |
| `wallet_db_crash` | the same on 3 blocks, rewinds may be cut | coverage, once a later rewind repaired the cut |
| `sync_recovery` | 4 blocks, batches of 2, one reorganisation, fault, user rewind and wipe | `CacheFollowsScan`, `SyncedMeansScanned`, `CatchUpEnhances`, `CatchesUp` |
| `pending_transactions` | two payments for one note, one with change, one fault | types and foreign keys, `InFlightStaysLocked`, `DeletedRowsHoldNoLock`, `ConvergesToChain`, `PendingDrains` |
| `consolidation_sweep` | four notes, batches of two, two in flight, a payment, a lost answer, a death | `BatchesAreDisjoint`, `SpendsUpToSixNotes`, `SweepSettles` |
| `wallets` | two seeds and an imported key in three slots, one erasure, deaths anywhere | `SignsForItsDatabaseUnlessTorn`, `RegisteredWalletsAreWhole` |
| `libraries` | the six parts of `MCLibraries` (below) | eighteen properties (below) |
| `wallet_db_lock`, `processor_reorg`, `pending_orphan`, `wallets_crash`, `sweep_rescan` | as the run of their module | findings 1 to 5 |

`libraries` picks one part at the start and leaves the others still:

| part | what it does | properties |
| --- | --- | --- |
| trees | append, save, reload and rewind a commitment tree of 8 leaves with two witnesses; append to and truncate a history tree of 9 leaves whose view is reloaded at will | `CommitmentsAreProved`, `RangeIsTheChain`, `LoadedNodesSuffice` |
| builder | every order of three calls, and what is built read back | `ValueIsConserved`, `BuiltTransactionsVerify`, `RoundTrip` |
| formats | one transaction of each version written, altered in one token, and read | `RoundTrip`, `DigestsCommit` |
| delivery | notes built, crafted, mined, served with exchanged fields, scanned and enhanced around Canopy | `PaymentsArrive`, `NotesAreSpendable`, `DetailsAgree` |
| algorithms | keys along a ZIP 32 path; texts as typed; a URI of three parameters; a batch of signatures; an Equihash solution under edits; a transaction of the demo extension; witnesses of the circuits | `KeysAgree`, `ReadingIsCanonical`, `SignaturesVerify`, `SolutionsAreValid`, `DemoLocksHold`, `CircuitsProveClaims` |
| backend | the native calls of the SDK over all tables, two blocks above the checkpoint; in every state each call is cut by each fault and repeated | `RecordsMatchTransactions`, `FailedCallsCanBeRepeated` |

Bounds, and why they are enough. *Database*: pruning and anchor depth are 1 or 2
blocks on chains of 3 or 4, so rows are pruned, anchors lie below the tip, and
rewinds go both above and below the pruned rows; in the code the same numbers are
100 and 10. Expiry is 0 or 1 block, so spends expire within the chain. One
reorganisation gives one note two nullifiers and one height two blocks; a second
one repeats the first. *Processor*: batches of 2 on a chain of 4 give a download
several batches, the last one cut, and a cache that outlives a cycle; one fault is
a crash, a failed call or a failed read at every point. `AutoRewindDepth` is 0, in the
code 8064 of some million blocks: `getNearestRewindHeight` subtracts one more, so the
app's rewind ends just below the tip, may miss the gap that made the scan fail, and
the wipe that must follow is taken (with a depth of 2 each rewind of this instance
reaches the gap). *Payments*:
two payments and one note are the smallest conflict; one fault is a crash, a failed
call, a lost reply, an abandoned flow or a rewind, at every point; the liveness
properties need the faults to end. The third age of a row and the expiry of every
transaction lie within the bounds, so each way a row may be dropped is taken.
*Sweep*: two batches of two notes fill the window, the third note waits, one note
has no witness; one round of grace and two failures reach every exit. There are as
many transactions as the window holds, so the part of `BatchesAreDisjoint` about the
window is shown by its proof, where there may be more, and not by this run. *Wallets*: a
third slot is what an interrupted registration leaves behind for the next one.
*Backend*: a payment to the wallet, one of its own, one to a transparent address and
a shielding take every body; faults strike at statements 1, 3 and 5, so in each of
the groups a body consists of; rewinds go to 0, 2 and 3; pruning does not delete
here, as `WalletDb` has it. *Trees*: eight leaves fill a tree of depth 3, so that the
fillers of a witness reach every depth; nine leaves of the range have peaks 8 and 1.
*Builder*: three calls are a spend, an output and a change address, in any order,
with amounts at the limits. *Formats*: one sample of each version has every optional
part. *URI*: three parameters are two payments with a field each or one with two,
so that duplicates and gaps of indices occur. *Equihash*: the smallest parameters
the code accepts with three rounds. *Circuits*: the group law on a curve of 40 points
where every point and every pair of coordinates is tried, the circuits on one of 1096
points, where the coordinates a prover may choose include those of low order and of
no point.

`CHECK_DEADLOCK FALSE` is set for the wallet database, the libraries and the
wallets, whose callers may stop, for the sweep, which nobody has to start again,
and for the runs that look for a counterexample.

**Fairness.** `sync_recovery`: the loop polls for ever (`CycleStep`,
`HandleError`); launched coroutines run (`EraseAndRestart` weakly; `AutoRewind`
strongly, because it waits for a mutex the loop takes again and again, and the
mutex is a fair queue); time passes (`RewindCoolDownEnds`, `WipeCoolDownEnds`,
`WindowEnds`), which may be before or after any cycle: how long a cycle takes is not
assumed. A failed scan wipes only within two minutes of the last rewind, so
`CatchesUp` has a premise: of scans that fail for ever, infinitely many fail that soon
(`FailsAgainSoon`). The backoff of `K/internal/ext/WalletService.kt:82-103` provides for
it: after its longest delay, 600 s, it goes on at half its count, so its delays are
5.6 s, 31.6 s, 178 s and 600 s over and over, and the two short ones lie within the
two minutes. It is not provided for when each failing cycle itself takes two minutes
(section 4). No fairness is given to the
server, the user, failures or crashes. `pending_transactions`: flows and
refreshes run, blocks are mined and scanned, time passes, and the user starts an
app that reported an unrecoverable error again. A payment need not be made, and
a transaction need not be mined. `consolidation_sweep`: the sweep's coroutine runs
and polls, blocks are found and scanned, and each row is refreshed after a scan;
nobody has to start a sweep, to pay or to die, and no transaction need be accepted;
one that was may be passed over in `MaxSkips` blocks.

Each property has a mutant in `PROJECT.json`: a definition changed as a slip in
the code would change it, which breaks that property in the same run.

## 4. Findings

With a run that shows them:

1. `wallet_db_lock`: scanning across an undetected reorganisation gives a locked
   note a new nullifier and keeps its old witness row; `store_sent_tx` then locks
   nothing, and a second spend reveals the same nullifier.
2. `processor_reorg`: the loop never validates the chain, so a reorganisation is
   scanned over.
3. `pending_orphan`: a payment cancelled during its submission, cleaned up, and
   then rejected leaves a row whose transaction id is null; every refresh throws
   at it, which stops the synchronizer, before it reaches the pass that was to
   "get rid of all of them after a long while".
4. `wallets_crash`: a process that dies inside `loadIntoActive` leaves one wallet's
   keys with another's database, and the switch back returns early.
5. `sweep_rescan`: notes that have not matured are taken for notes that lost their
   witness, and the sweep ends in the demand for a full rescan.

Met while modelling and stated in `PROJECT.json` beside the run of their module, since a
single call shows each: `rewind_to_height` accepts the height that
`get_rewind_height` calls safe although the witnesses there were pruned; its
statements are not in a transaction, though its comment demands one; a note locked
by another device's spend that a reorganisation drops stays locked for ever; a
rewind that keeps the block cache finds it empty and reports that it scanned;
`erase` deletes the pending DB of all wallets; adding amounts panics where the
documentation promises a result; `mark_sapling_note_spent` loses the mark of a spend
that is still pending (below, section 5); a ZFuture builder always panics; the v5 digests
leave out proofs; the unit tests of `consensus.rs` expect another schedule; an epoch
ignores the extension id of a witness; the comment on `generate_circuit_generator`
counts the window wrongly; `shieldToAddress` explains its refusal wrongly.

Seen besides, and kept here as notes:

- *recovery*: when each failing cycle takes more than two minutes, every failed scan
  finds the cool-down of the last rewind over and rewinds again
  (`A/ui/MainActivity.kt:866`), so the app rewinds for ever and never wipes, where
  `A/ui/MainActivity.kt:677-679` says that persistent failures escalate to a resync.
  `CatchesUp` without its premise is false for this reason;
- *transactions*: `read_v5` takes the Orchard part of a transaction for well formed
  without keeping its proof and its signatures
  (`P/transaction/components/orchard.rs:116,121`), so bytes altered there are accepted
  unnoticed. `RoundTrip` says that of the rest of a v5 transaction no byte can be
  altered so;
- *payments*: a cancellation is granted, and reported as granted, until the
  submission's reply is recorded, so a payment may be cancelled and broadcast; the
  idle refresh of `onScanComplete` never happens, because the time it measures
  restarts with each poll; `stop()` is overwritten by the cycle that runs, and
  `consecutiveReconnects` is never reset;
- *wallets*: what an interrupted creation leaves in a slot is combined with the
  entries of a later `restoreFromSpendingKey`; `setOverwriteKeys` never overwrites,
  since `init_accounts_table` refuses a table with rows;
- *native methods*: `isValidShieldedAddress` throws on a text that is no address;
  scanning below `PRUNING_HEIGHT` panics, so a wallet on a chain of under 100 blocks
  cannot scan; `decryptAndStoreTransaction` throws for a transaction known but not
  mined, since `get_tx_height` cannot load it; a retry of a rewind that lost its last
  statement keeps transparent outputs, and one whose blocks then end below
  `PRUNING_HEIGHT` panics; a transparent output fetched again after a rewind loses its spending
  mark, and is offered again while its shielding is pending; a mixed payment by
  another device overwrites its sent note (a FIXME of `lib.rs` says so);
- *builder*: `add_sapling_spend` takes the anchor over before it refuses the amount,
  and a proof that fails has already added its randomness; `Transaction::write` of
  a v5 transaction writes a layout `read` does not expect;
- *scanner*: a compact output that does not parse is skipped without its commitment
  being appended to the tree;
- *texts*: an amount with more than eight decimals, or followed by other characters,
  is read as its whole part; names reserved for later parameters are accepted as
  unknown ones; a memo's trailing NULs are lost; the decoders of extended keys
  ignore bytes that follow;
- *ZIP 32*: the depth overflows at 255 and `to_index` wraps;
- *Equihash*: `Params::new` accepts parameters for which `expand_array` asserts;
- *demo extension*: `demo_transfer_to_close` leaves its input in the builder when
  the output is refused.

`PendingDrains` and `ConvergesToChain` are stated for behaviours in which no row
stays in the state of finding 3. `SignsForItsDatabaseUnlessTorn` and
`FailedCallsCanBeRepeated` name what they leave out: a torn switch (finding 4), and
the two ends of a torn rewind listed above.

## 5. The proofs

Each theorem holds for every value of the constants that satisfies the named
assumptions of its modules; what it assumes beyond them is said below. TLC checked
each invariant on the run's instance before it was proved.

### The wallet database

`WalletDb_proofs`, for every chain, every set of transactions, and every pruning and
anchor depth:

- `TypeCorrect`: `TypeOK`, with the schema's foreign keys, is inductive;
- `Coverage`: `WitnessCoverage`. It is not inductive: a rewind above a cut one
  must know what the cut left. The invariant is `CoverageInv`, that is `TypeOK`,
  `CoveredBelowTorn` (below the target of a cut rewind coverage still holds,
  `torn` being above everything when there is none), and `TipNotPruned` (while no
  rewind went below the pruned rows the tip is not below them, so the rows that a
  scan extends are there);
- `NoHoles`: `WitnessesReachTip`, from `NoHolesBelowTorn`, the same statement for
  the rows below a cut rewind, with no condition on how deep rewinds went.

The second half of the module needs what the network guarantees, so it starts from
`ValidChain`: a spend is mined as it was built and before it expires, reveals notes
of blocks below it, and no two blocks share a transaction or a nullifier.

- `LocksEndInTime`: `LocksExpire`, with or without validation, and for cut rewinds
  too. `LockInv` adds to `ValidChain` that a spend is recorded as mined no later than
  it expires, that the expiry of an own spend is known, that marks name spends, and
  the lock itself;
- `OfferedLive` and `SpendsDoNotConflict`: `OfferedNotesAreLive` and
  `NoConflictingSpend`, assuming `Validated`: the caller runs `validate_chain` before
  it scans, as the documentation of `Z/zcash_client_backend/src/data_api/chain.rs`
  demands and the loop of the SDK does not (findings 1 and 2 are what happens then).
  `BlockInv` says that the wallet's blocks are a valid chain of their own, and that a
  block they share with the network has the same blocks below it on both, which is why
  comparing one hash suffices. `NoteInv` says that a witness belongs to its note's
  nullifier unless a cut rewind left it, that every spend in the scanned blocks is
  marked, and that an own spend that can be mined, and was not displaced, holds its
  lock.

`NoConflictingSpend` is the case in which the proof found something. As first
stated, without `displaced`, it holds in the run and is false beyond its bounds: a
note holds one `spent` transaction, so the scan of an own spend believed expired
overwrites the mark of a second, pending one; when a reorganisation drops the first,
its expiry frees the note while the second can still be mined. It takes three spends
of one note and two reorganisations. `displaced` names the spends whose mark was
overwritten so, and the theorem covers all others.

The last of them is `TablesAreLedger`, that is `ImplementsLedger`, assuming
`Validated` and that no rewind is cut (a cut one leaves tables no ledger describes).
A scan extends the ledger (`ScanExtends`), because the nullifiers it looks for are
those of all notes not known to be spent in a block; a rewind truncates it
(`RewindTruncates`); everything else leaves it alone (`OtherStutters`).

### The processor

`SyncRecovery_proofs`, for every batch size, checkpoint and set of transactions, and
any number of blocks, reorganisations, faults, rewinds and wipes:

- `TypeCorrect`: the types of both databases, the memory and the throttles. That the
  last cached height and the run a scan commits exist takes an induction, made
  through the least element of a set of numbers (`Least`, `Greatest`);
- `CacheFollows`: `CacheFollowsScan`. Two moments break it on the way: after a
  rewind, until its rescan, the cache may only start low enough, and inside a download
  the next batch must start where the last one ended. `CacheInv` says both;
- `ScanNeverThrows`: what it is for. A cache without gaps is scanned to its end, so a
  discontinuity has one of the three named causes;
- `SyncedIsScanned`: `SyncedMeansScanned`, with the exceptions of section 2.
  `HolderInv` says which steps belong to whose work, `RangeInv` what a cycle knows: its
  range ends at the height the server reported, and after the download all of it is in
  the cache or below the tip. `KeepInv` says what a rescan of the kept cache knows: the
  height it compares with is the tip or the height it started from, which is why it may
  stop after one batch;
- `CatchUpAsks`: `CatchUpEnhances`, from `EnhanceInv`: `didReenhanceAtTip` is down
  whenever the loop scans, so a pass that was cut short is made again, and while it is
  up, what nobody asked for is in `missed`: `RescanAsked` shows that a rescan puts there
  what it brings.

### The payments

`PendingTransactions_proofs`, for every number of payments, notes and faults, every
expiry, slack and bound:

- `TypeCorrect`: `TypeOK`, with the foreign keys of the data DB, is inductive;
- `InFlightLocked`: `InFlightStaysLocked`. Whether a lock may be freed depends on
  what a snapshot of the refresh found, on where the flow of the payment stands
  and on what the network holds, so the invariant `Inv` adds to `TypeOK`
  - `MempoolIsMinable`: what the network holds has not expired, is not mined and
    does not conflict;
  - `FlowMatchesRow`: a transaction is sent last, and a row that was not
    cancelled shows how far its flow came (so a late reply cannot bring back a
    payment that was given up);
  - `SnapshotHolds`: what a snapshot found cancelled or failed still is, however
    much later its passes come to it (`GivesUpForGood`);
  - `SendableIsLocked`: a payment that is or may yet be sent, was not given up
    and has not expired locks its notes. Three lemmas carry it: only encoding
    makes a payment sendable (`StillSendable`), what was built for it does not
    change after (`BuiltOnce`), and no step frees its notes (`KeepsItsLock`).

From the same invariant and `RowAssumption` (null is not a row):

- `DeletedRowsAreSettled`: `DeletedRowsHoldNoLock`. What a refresh deletes it chose
  from a snapshot that may be any number of encodings, submissions and blocks old, so
  `RowInv` adds to `Inv`
  - `RowTruthful`: a row that shows a transaction or a block tells the truth, and a
    payment whose row shows one never returns to its encoding;
  - `RetiredIsRemoved`: what was marked for deletion has left the data DB or is mined;
  - `SnapshotJust`: what the snapshot chose to delete was never encoded, or its
    transaction is gone, mined or expired. Each of these is for good
    (`SettledForGood`), which is why the snapshot may be stale.

### The sweep

`ConsolidationSweep_proofs`, for any notes, number of transactions under way, cap,
window, expiry and number of faults:

- `NeverSharesANote`: `BatchesAreDisjoint`. The invariant `Inv` adds to it
  - `WellFormed`: notes and transactions have their fields, and both the notes and
    the inputs of a transaction are finite, so that an id is always left for the
    next note (`FreeNoteIsFree`) and no transaction meets a note that was mined
    after it was built;
  - `WindowHolds`: there is room in the window for the batch being submitted, which
    the check before its encoding made sure of and nothing may take since;
  - `BatchAwaitsSubmission`: neither the scanner nor the refresh touches the row of a
    batch between its building and its submission, so that a late acceptance marks
    the transaction it is about.

  For this, what the selection adds up to is not needed: only that it offers unspent
  notes (`BatchIsUnspent`, `PaymentIsUnspent`). `Builds` and `GivesUp` are the two ways
  locks change; they hold for a batch and a payment alike;
- `SelectionSuffices`: `SpendsUpToSixNotes`, for every window `MaxTxSpends`, fee and set
  of note values. Of the state it needs only that the notes are finitely many and their
  values natural numbers (`Sound`, part of `WellFormed`); the rest is about the
  selection itself:
  - `TotalAdds`, `TotalGrows`: the sum of the values of a set of notes is a fold in an
    order nobody chose; that it exists, is unique and does not depend on the order is an
    induction on the size of the set, made through a smallest counterexample
    (`SmallestSet`);
  - `FirstOnes`: the first so many of a finite total order (`Orders`) are closed
    downwards, at most the cap, and exactly the cap when one is left out. The two
    instances are the window by value and the batch, smallest first;
  - `BestAreFirst`: no other choice of as many notes is worth more than the largest (a
    note outside is exchanged for one inside);
  - `SelectionReaches`: the notes below the target stay below it together, and the one
    that reaches it is worth no more than any of them, so none can be left out.

### The wallets of the app

`Wallets_proofs`, for any number of slots, seeds, imported keys and erasures, with
deaths between any two writes:

- `RegisteredWhole`: `RegisteredWalletsAreWhole`;
- `SignsRight`: `SignsForItsDatabaseUnlessTorn`.

An operation is a queue of up to a dozen writes, and neither property says anything
about the store between two of them. So `Inv` looks ahead: what is left of the queue
leads from the store as it is to some store `T` by writes that keep every store on
the way `Whole` (`Runs`), and unless a process died before, `T` is `Good`. `Whole` is
what no single write may break: a slot that is counted has its keys and its own alias.
`Good` is what holds when an operation is complete: the live entries are those of the
active slot, the slots not counted are empty, and each database holds the key of its
slot or none. A write takes the head of the queue (`RunsTail`); a death keeps only
`Whole`; and for each operation one lemma builds its queue write by write
(`MigrateRuns`, `SwitchRuns`, `AddRuns`, `StoreRuns`, `ImportRuns`) and one shows that
it leads from a good store to a good one (`GoodMigrated`, `GoodSwitched`,
`GoodAdded`, `GoodFirst`). `WalletsAssumption` says that there is a slot, and that a
missing entry is neither a key nor an alias.

### The delivery of notes

`NoteDelivery_proofs`, for every network and activation height, any accounts,
diversifiers and memos, any set `Garbage` of plaintexts that a cipher without a tag
may yield, and any number of payments, foreign outputs and exchanged fields:

- `PaymentsAreFound`: `PaymentsArrive`;
- `FoundNotesAreSpendable`: `NotesAreSpendable`;
- `DetailsAgreeWithScan`: `DetailsAgree`.

First come lemmas about the constructors: an account is told by each of its keys
(`KeysTellAccounts`), sender and recipient agree on the key of a ciphertext
(`KeyAgreement`), an output whose commitment is that of a note is read by nobody but
its recipient whatever else the output holds (`RecipientOnly`), and the four ways to
read an output nobody altered (`RecipientReads`, `ScanReads`, `TriesRead`,
`RecoveryReads`) succeed under one condition, `Readable`: the lead byte is valid at
that height, the value is within MAX_MONEY, and the ephemeral key is the one the note
derives. The invariant `Inv` says that every output is `Sealed` by its sender; that
what the builder sent is `Fresh` until it is mined and `ReadableAt` its height from
then on, where `FreshIsReadable` needs the expiry to lie within the grace period; and
that notes and details are exactly what was readable (`NotesInv`, `DetailsInv`).
`DeliveryAssumption` says that: `DEFAULT_TX_EXPIRY_DELTA` (20) is no more than
`ZIP212_GRACE_PERIOD` (32256). It also says that diversifiers hash into the subgroup
of prime order, as `group_hash` makes sure.

### The native methods

`RustBackend_proofs`, for every chain and set of transactions, every pruning depth,
anchor offset, batch limit and target of a rewind, any order of calls, and a fault
at any statement of any call:

- `RecordsMatch`: `RecordsMatchTransactions`;
- `CallsCanBeRepeated`: `FailedCallsCanBeRepeated`.

A call issues a sequence of statements, and a fault may leave any prefix of them when
no transaction wraps them. The argument therefore goes statement by statement:

- `Base` holds after every statement, `Tables` after every call, complete or not. `Base`
  gives each row its form: a mined transaction is the one of its block, a received
  note has the nullifier and the memo of its output, a sent row is one of the
  `Notices` of its index. `Tables` adds what only a whole body makes true: a block is
  recorded with the wallet's notes in it, and a payment built here with its row.
- A statement is `Legal` when a body may issue it in these tables; it then has done
  what it was for (`Done`), loses nothing noted (`Grows`) and keeps `Base`: one lemma
  for each kind of statement, put together in `LegalFollows`. `BodyFollows` carries
  that over a body of any length, where `LegalBody` may use that the statements
  before were done: a transaction is attached to a block that is already there.
- `BlockBodyIs` and `DecryptedBodyIs` show that the statements of a scanned block and
  of a decrypted transaction are legal; `ScanLeaves` takes the first over a batch.
- A rewind is not of this kind, because it deletes. `RewindStep` shows why nothing
  noted goes with the blocks: once its second statement has detached the transactions
  above the height none is mined there, and the fourth and fifth, which delete the
  notes of such transactions, find none.

The invariant `Inv` says `Tables`, that a block of the cache holds one transaction
whose inputs were mined below it (`CacheInv`), and that every transaction
`decryptAndStoreTransaction` returned for is `Noted`, which no later call, rewinds
included, takes back (`NotedStays`). Its last conjunct needs the blocks to be
complete: an input is recognised as the wallet's because the note it spends was
received in an earlier block (`SpentNotesAreKnown`). `InvMatches` derives the
property, with the two balances from the order of the anchor and the target height.

That a call can be made again (`InvRepeats`) is another argument for each kind of call:

- A call in a transaction left everything or nothing (`AllOrNone`).
- `initDataDb` and a rewind leave what some prefix of their statements makes of the
  tables (`StagesFollow`): `Created` and `Rewound` say what that is, and each is
  idempotent. A rewind that is made again may ask for nothing, when the torn one got
  as far as the blocks, and it does not panic: what it left unspent and mined is a
  part of what was there, so the height below which a rewind is refused only rises.
- A scan that stopped, at a fault or at the limit of its batch, is compared with a
  scan of everything that is cached. `ScanOn` shows that scanning everything from the
  next block on ends exactly where it would have ended from the block before:
  a body that ends well despite a fault to come did what it does without one
  (`WithoutFault`), and the two runs, over the heights, coincide from that block on.
  `ScanAgain` carries this over the blocks a cut scan has behind it.

`BackendAssumption` says what the proofs found they need: heights are numbers, with
the checkpoint not below the activation of Sapling; the wallet builds what is one of
the transactions; and no two records of one transaction share an output index. The
last is about the code: `sent_notes` is keyed by `(tx, output_index)` whatever the
pool, so a transaction that paid a shielded and a transparent recipient at the same
index would keep only one record of them; the SDK's requests have one payment, so the
transactions it builds do not. (A transaction that other software built from the same
seed may, and the theorem does not cover it.) The results of a body and of a scan are functions
defined recursively on numbers; that they exist is proved through the least number of
a set (`RunsAre`, `ScanIs`).

### The transaction builder

`TransactionBuilder_proofs`, for any notes, coins, keys, amounts, fee and limit of money,
any number of calls in any order, every shuffle and all randomness:

- `ValueConserved`: `ValueIsConserved`;
- `BuiltVerify`: `BuiltTransactionsVerify`.

What is known before `BuildTransaction` is `BuilderIsSound`: types, and that the value balance is
what the notes leave over the outputs, that each coin is spent by its owner, and that
only a ZFuture builder has inputs and outputs of extensions (the builder of the app's
network never has, and a ZFuture one never finishes). Each call keeps it, refused or not
(`SpendIsSound` and those after it). The two properties say nothing of a state without a
transaction, so the rest of `BuilderInvariant` is about the step that makes one:

- `Total` is a recursive function, and that it does not depend on the order of its terms
  (`TotalShuffled`) is an induction on the length, made through the least number of a
  set: a shuffle of one term more is a shuffle in which the last term was exchanged for
  another (`ArrangesOneLess`, `PermutesOneMore`);
- `CommitsTo`: a commitment tells its value because the randomness stays below the
  generator, which stands for the independence of the code's two generators;
- `SameHash`: two transactions with the same effects have the same signature hash. The
  code signs a transaction that lacks its signatures, its witnesses and its scripts, and
  the network checks the finished one; `SignedFinal` shows that they are of one kind,
  for the shielded hash and for that of each transparent input;
- `BuiltIs` and `DescriptionsAre` say what each field and each description of the final
  transaction is. `BuiltConserves`, `BuiltVerifies` and `BuiltPointsHome` follow;
- `BindingKeyIs`: the keys the prover sums up while it proves are the key the verifier
  computes from the commitments and the value balance. A commitment is linear in its
  value and its randomness, so the commitments of the spends, and those of the outputs,
  sum up to both (`TotalOfCommitments`), and the values cancel because the change leaves
  the value balance and the outputs together. So `build` never refuses a
  transaction for its binding key (`BindingKeyMatches`, the third part of
  `BuiltTransactionsVerify`), and the theorems are not about the few that get past that check.

`BuilderAssumption` says that amounts are numbers, those of notes not negative, and that
the prover draws randomness for every description: at most one for each call, one for the
change and one for a dummy (`RandomnessSuffices`).

### Only model-checked

The properties of `libraries` other than those of `NoteDelivery`, of
`TransactionBuilder` and of `RustBackend`: most say what a
recursion over data computes (trees, readers and writers, key paths, batches,
circuits); the prover cannot instantiate an induction theorem, so each would need a
smallest counterexample of its own. Out of reach is liveness, which needs
`ENABLED`: `CatchesUp`, `SweepSettles`, `ConvergesToChain` and `PendingDrains`.
`HistoryTree` declares recursive operators, and `MCTrees` and `MCLibraries` reach
them; every other module can be proved about.

## 6. Not modelled

- *Proof parameters* (`Z/zcash_proofs`: downloading, hashing and loading files, the
  local prover's plumbing): input and output.
- *Hashes and ciphers* themselves (Pedersen hash, `group_hash`, BLAKE2b, FF1,
  ChaCha20): constructors stand for them.
- *Processor*: its setup (`verifySetup`, checkpoint choice), the reconnect counter,
  `stop()`, and the server picker decide when it starts and what is shown.
- *Transparent funds in the SDK*: `transparentUtxoFetchSupported = false`
  (`K/block/CompactBlockProcessor.kt:585`), so no output is fetched; the native
  methods are modelled in `RustBackend`, the flow of a shielding through the pending
  DB is not.
- *Balance flows, paged views, screens, the background service*: they show what the
  databases hold.
- *Labels and birthdays* of wallets; *several accounts*: the app uses account 0.
- *App libraries, tests, demo application, generated protobuf code*.

`PROJECT.json` gives the reason for each component.

## 7. The plan

What is left, in the order of importance:

1. The controller's hint that a sweep was interrupted, with the preference it is
   kept in; the flow of a shielding through the pending DB.
2. The processor's setup with the choice of a checkpoint.
