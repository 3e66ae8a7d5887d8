------------------------ MODULE CompactBlockProcessor ------------------------
(***************************************************************************)
(* The SDK's CompactBlockProcessor.kt: the loop that downloads compact     *)
(* blocks from lightwalletd into the cache DB, scans them into the data    *)
(* DB, clears the cache, fetches the full transactions it found, and the   *)
(* rewinds that callers request, which exclude the loop by a mutex.        *)
(*                                                                         *)
(* One control point stands for whoever holds processingMutex: a cycle of  *)
(* the loop, or a rewind.  Heights are relative to the birthday checkpoint.*)
(* A block is [epoch, prev]: the reorganisation it was mined after, which  *)
(* with its height makes its hash, and the same of its predecessor.        *)
(* Retries of one call are part of the step that succeeds or gives up.     *)
(***************************************************************************)
EXTENDS Integers, Sequences, FiniteSets, Functions

CONSTANTS
  None,                \* null
  DownloadBatchSize,   \* DOWNLOAD_BATCH_SIZE: blocks per request
  ScanBatchSize,       \* SCAN_BATCH_SIZE: blocks per call of scanBlocks
  OriginalCheckpoint,  \* no rewind request goes below this height
  TxHeights,           \* heights of the blocks with a transaction of the wallet
  MaxHeight,           \* bound: the chain grows no higher
  MaxReorgs,           \* bound: number of reorganisations
  MaxFaults,           \* bound: crashes and failed calls
  MaxRewinds           \* bound: rewinds requested by the user

ASSUME ProcessorAssumption ==
  /\ DownloadBatchSize \in Nat \ {0} /\ ScanBatchSize \in Nat \ {0}
  /\ OriginalCheckpoint \in Nat /\ MaxHeight \in Nat /\ MaxReorgs \in Nat
  /\ MaxFaults \in Nat /\ MaxRewinds \in Nat
  /\ TxHeights \subseteq Nat
  /\ None \notin Nat

VARIABLES
  chain,     \* the server's chain
  epoch      \* number of reorganisations so far

VARIABLES    \* persisted by the wallet
  cache,     \* cache DB, compactblocks: height -> block
  scanned,   \* data DB, blocks: what was scanned above the checkpoint
  raw        \* data DB, transactions with raw NOT NULL, by height

VARIABLES    \* in memory
  pc,        \* what the holder of processingMutex does next
  state,     \* CompactBlockProcessor.State
  info,      \* currentInfo: networkBlockHeight and lastScannedHeight
  work,      \* the holder's locals: who it is, next download, range to scan
  didReenhanceAtTip

VARIABLES    \* history and bounds, read by no guard but those of the bounds
  tried,     \* transactions whose download was attempted since the start
  missed,    \* transactions that came, in a rescan of the kept cache, after the
             \* last catch-up pass, or that its failed query did not find
  gaps,      \* what may have left a gap in the cache
  misread,   \* the cycle took a height for the tip that is not
  faults, rewinds

serverVars == <<chain, epoch>>
dbVars == <<cache, scanned, raw>>
memVars == <<pc, state, info, work, didReenhanceAtTip>>
histVars == <<tried, missed, gaps, misread, faults, rewinds>>
vars == <<serverVars, dbVars, memVars, histVars>>

State == {"Initialized", "Disconnected", "Downloading", "Validating",
          "Scanning", "Scanned", "Enhancing"}

----------------------------------------------------------------------------
(* lightwalletd                                                            *)

EpochAt(blocks, h) == IF h = 0 THEN 0 ELSE blocks[h].epoch

MineBlock ==
  /\ Len(chain) < MaxHeight
  /\ chain' = Append(chain, [epoch |-> epoch, prev |-> EpochAt(chain, Len(chain))])
  /\ UNCHANGED <<epoch, dbVars, memVars, histVars>>

Reorg(h) ==
  /\ epoch < MaxReorgs
  /\ chain' = SubSeq(chain, 1, h)
  /\ epoch' = epoch + 1
  /\ UNCHANGED <<dbVars, memVars, histVars>>

----------------------------------------------------------------------------
(* The two databases                                                       *)

Tip == Len(scanned)
CachedAbove(h) == {k \in DOMAIN cache : k > h}
LastDownloaded ==                             \* getLatestHeight, 0 if empty
  CHOOSE k \in {0} \cup DOMAIN cache : \A j \in DOMAIN cache : j <= k

Lower(a, b) == IF a < b THEN a ELSE b
Higher(a, b) == IF a > b THEN a ELSE b

NoBlocks == [h \in {} |-> {}]
Fault == faults < MaxFaults /\ faults' = faults + 1

\* getLastScannedHeight: when the database is locked, the height last published.
GetLastScannedHeight(height) ==
  \/ height = Tip /\ UNCHANGED faults
  \/ height = info.scanned /\ height # Tip /\ Fault

----------------------------------------------------------------------------
(* Enhancement: getTransaction may fail for each transaction on its own,   *)
(* which is reported and otherwise ignored.                                *)

Enhance(todo) ==
  /\ \E stored \in SUBSET todo : raw' = raw \cup stored
  /\ tried' = tried \cup todo

Unenhanced == (TxHeights \cap 1 .. Tip) \ raw

----------------------------------------------------------------------------
(* One cycle: processNewBlocks                                             *)

\* updateRanges asks for the network height and reads both databases.  Without a
\* scanned height there is nothing to scan.
UpdateRanges(tip) ==
  /\ pc = "idle"
  /\ GetLastScannedHeight(tip)
  /\ info' = [net |-> Len(chain), scanned |-> tip]
  /\ work' = [by |-> "loop", end |-> Len(chain),
              next |-> IF tip = None THEN LastDownloaded + 1 ELSE Higher(LastDownloaded, tip) + 1,
              from |-> IF tip = None THEN Len(chain) + 1 ELSE tip + 1]
  /\ misread' = (tip # Tip)

Disconnected ==
  /\ pc = "idle" /\ Fault
  /\ state' = "Disconnected"
  /\ UNCHANGED <<serverVars, dbVars, pc, info, work, didReenhanceAtTip, tried,
                 missed, gaps, misread, rewinds>>

\* Mutant: the catch-up pass is never armed again.
MutantRearm == didReenhanceAtTip
\* New blocks re-arm the catch-up pass.
Rearm == FALSE

\* enhanceUnenhancedTransactions: its query may fail, and the pass counts as done.
CatchUp ==
  \/ ~didReenhanceAtTip /\ Enhance(Unenhanced) /\ missed' = {}
  \/ ~didReenhanceAtTip /\ missed' = Unenhanced /\ UNCHANGED <<raw, tried>>
  \/ didReenhanceAtTip /\ UNCHANGED <<raw, tried, missed>>

NoBlocksToProcess(tip) ==
  /\ UpdateRanges(tip)
  /\ work'.next > work'.end /\ work'.from > work'.end
  /\ CatchUp
  /\ didReenhanceAtTip' = TRUE
  /\ state' = "Scanned"
  /\ UNCHANGED <<serverVars, cache, scanned, pc, gaps, rewinds>>

ScanWhatIsCached(tip) ==
  /\ UpdateRanges(tip)
  /\ work'.next > work'.end /\ work'.from <= work'.end
  /\ didReenhanceAtTip' = Rearm
  /\ pc' = "scan" /\ state' = "Scanning"
  /\ UNCHANGED <<serverVars, dbVars, tried, missed, gaps, rewinds>>

StartDownload(tip) ==
  /\ UpdateRanges(tip)
  /\ work'.next <= work'.end
  /\ didReenhanceAtTip' = Rearm
  /\ gaps' = IF work'.next > Higher(LastDownloaded, Tip) + 1
             THEN gaps \cup {"ahead"} ELSE gaps
  /\ pc' = "download" /\ state' = "Downloading"
  /\ UNCHANGED <<serverVars, dbVars, tried, missed, rewinds>>

\* The producer of downloadAndScanPipelined: one batch, stored all or nothing.
BatchEnd == Lower(work.next + DownloadBatchSize - 1, work.end)

DownloadBatch ==
  /\ pc = "download"
  /\ BatchEnd <= Len(chain)
  /\ cache' = [h \in DOMAIN cache \cup work.next .. BatchEnd |->
                 IF h \in work.next .. BatchEnd THEN chain[h] ELSE cache[h]]
  /\ work' = [work EXCEPT !.next = BatchEnd + 1]
  /\ IF BatchEnd = work.end THEN pc' = "scan" /\ state' = "Scanning"
                            ELSE UNCHANGED <<pc, state>>
  /\ UNCHANGED <<serverVars, scanned, raw, info, didReenhanceAtTip, histVars>>

\* All attempts failed: the network, or blocks that a reorganisation took away.
DownloadFails ==
  /\ pc = "download"
  /\ \/ Fault
     \/ BatchEnd > Len(chain) /\ UNCHANGED faults
  /\ pc' = "failedDownload"
  /\ UNCHANGED <<serverVars, dbVars, state, info, work, didReenhanceAtTip, tried,
                 missed, gaps, misread, rewinds>>

----------------------------------------------------------------------------
(* scanNewBlocks.  One call scans the cached blocks above the tip, in      *)
(* height order, and throws at a height that does not follow.  It does not *)
(* compare hashes.                                                         *)

Sequential(n) == \A h \in Tip + 1 .. Tip + n : h \in DOMAIN cache

\* How many blocks the call commits before it returns or throws.
RunLength ==
  CHOOSE n \in 0 .. ScanBatchSize :
    /\ Sequential(n)
    /\ n < ScanBatchSize => ~Sequential(n + 1)

Discontinuous ==
  RunLength < ScanBatchSize /\ CachedAbove(Tip + RunLength) # {}

AppendScanned(n) == scanned \o [i \in 1 .. n |-> cache[Tip + i]]

\* A cycle of the loop has armed the catch-up pass before it scans, a rescan of
\* the kept cache has not.
RescanMisses(n) ==
  missed' = IF work.by = "keep"
            THEN missed \cup (TxHeights \cap Tip + 1 .. Tip + n) ELSE missed

\* Mutant: the loop ends one block early.
MutantMoreToScan(tip) == info.scanned # tip /\ tip + 1 < work.end

\* The loop of scanNewBlocks goes on while it makes progress.
MoreToScan(tip) == info.scanned # tip /\ tip < work.end

\* A height that cannot be read after the batch looks like no progress, and ends
\* the loop; it is read once more after the loop.
ScanBatch ==
  LET tip == Tip + RunLength
      published == [info EXCEPT !.scanned = tip]
  IN
  /\ pc = "scan" /\ work.from <= work.end /\ ~Discontinuous
  /\ scanned' = AppendScanned(RunLength)
  /\ \/ /\ info' = published
        /\ IF MoreToScan(tip)
           THEN UNCHANGED <<pc, state>>
           ELSE pc' = "clear" /\ state' = "Scanned"
        /\ UNCHANGED <<misread, faults>>
     \/ /\ Fault /\ misread' = TRUE
        /\ info' \in {info, published}
        /\ pc' = "clear" /\ state' = "Scanned"
  /\ RescanMisses(RunLength)
  /\ UNCHANGED <<serverVars, cache, raw, work, didReenhanceAtTip, tried, gaps, rewinds>>

\* Without a range to scan the scan succeeds at once.
ScanNothing ==
  /\ pc = "scan" /\ work.from > work.end
  /\ pc' = "clear" /\ state' = "Scanned"
  /\ UNCHANGED <<serverVars, dbVars, info, work, didReenhanceAtTip, histVars>>

\* The call threw four times in a row.  A rewind throws to its caller, the loop
\* reports FailedScan.
ScanFails ==
  /\ pc = "scan" /\ work.from <= work.end
  /\ \E n \in 0 .. RunLength :
       /\ \/ Discontinuous /\ n = RunLength /\ UNCHANGED faults
          \/ Fault
       /\ scanned' = AppendScanned(n)
       /\ RescanMisses(n)
  /\ pc' = IF work.by = "loop" THEN "failedScan" ELSE "idle"
  /\ UNCHANGED <<serverVars, cache, raw, state, info, work, didReenhanceAtTip,
                 tried, gaps, misread, rewinds>>

\* downloader.rewindToHeight(0)
ClearCache ==
  /\ pc = "clear"
  /\ cache' = NoBlocks
  /\ gaps' = {}
  /\ pc' = IF work.from <= work.end THEN "enhance" ELSE "idle"
  /\ UNCHANGED <<serverVars, scanned, raw, state, info, work, didReenhanceAtTip,
                 tried, missed, misread, faults, rewinds>>

EnhanceTransactionDetails ==
  /\ pc = "enhance"
  /\ state' = "Enhancing"
  /\ \/ Enhance(TxHeights \cap work.from .. Lower(work.end, Tip)) /\ UNCHANGED faults
     \/ Fault /\ UNCHANGED <<raw, tried>>
  /\ pc' = "idle"
  /\ UNCHANGED <<serverVars, cache, scanned, info, work, didReenhanceAtTip,
                 missed, gaps, misread, rewinds>>

----------------------------------------------------------------------------
(* Errors reach the listener outside the mutex; the loop then tries again. *)

OnProcessorError ==
  /\ pc \in {"failedDownload", "failedScan"}
  /\ pc' = "idle"
  /\ UNCHANGED <<serverVars, dbVars, state, info, work, didReenhanceAtTip, histVars>>

----------------------------------------------------------------------------
(* rewindToNearestHeight and quickRewind                                   *)

\* getNearestRewindHeight: not below the checkpoint, otherwise one below the
\* request or the block of an older unspent note.
NearestRewindHeights(h) ==
  IF h < OriginalCheckpoint THEN {OriginalCheckpoint}
  ELSE {h - 1} \cup {k \in TxHeights : k <= Lower(h - 1, Tip)}

LastScanned == IF info.scanned = None THEN Tip ELSE info.scanned

Rewind(h, by) ==
  /\ pc = "idle"
  /\ h > 0
  /\ \E target \in NearestRewindHeights(h) :
       /\ scanned' = IF target < LastScanned
                     THEN SubSeq(scanned, 1, Lower(target, Tip)) ELSE scanned
       /\ work' = [by |-> by, next |-> 0, from |-> target + 1, end |-> 0]
  /\ pc' = "rewound"
  /\ UNCHANGED <<serverVars, cache, raw, state, info, didReenhanceAtTip, tried,
                 missed, gaps, misread, faults>>

UserRewinds(h, by) ==
  /\ rewinds < MaxRewinds /\ rewinds' = rewinds + 1
  /\ Rewind(h, by)

\* Mutant: the cache is left as it is.
MutantRewindCacheTo(h) == cache
RewindCacheTo(h) == Restrict(cache, {k \in DOMAIN cache : k <= h})

RewindClearsCache ==
  /\ pc = "rewound" /\ work.by = "clear"
  /\ cache' = RewindCacheTo(work.from - 1)
  /\ info' = [info EXCEPT !.scanned = work.from - 1]
  /\ pc' = "idle" /\ state' = "Downloading"
  /\ UNCHANGED <<serverVars, scanned, raw, work, didReenhanceAtTip, histVars>>

\* The rescan of the kept cache, when there is a height to rescan to.
RewindKeepsCache ==
  /\ pc = "rewound" /\ work.by = "keep"
  /\ info' = [info EXCEPT !.scanned = work.from - 1]
  /\ gaps' = gaps \cup {"kept"}
  /\ IF info.scanned = None
     THEN pc' = "idle" /\ UNCHANGED <<work, state>>
     ELSE /\ work' = [work EXCEPT !.end = info.scanned]
          /\ pc' = IF work.from <= info.scanned THEN "validate" ELSE "idle"
          /\ state' = "Validating"
  /\ UNCHANGED <<serverVars, dbVars, didReenhanceAtTip, tried, missed, misread,
                 faults, rewinds>>

\* validateCombinedChain: the cached blocks follow the tip and each other.
CombinedChainIsValid ==
  \A h \in CachedAbove(Tip) :
    \/ h = Tip + 1 /\ cache[h].prev = EpochAt(scanned, Tip)
    \/ h - 1 \in CachedAbove(Tip) /\ cache[h].prev = cache[h - 1].epoch

ValidateNewBlocks ==
  /\ pc = "validate"
  /\ IF CombinedChainIsValid THEN pc' = "scan" /\ state' = "Scanning"
                             ELSE pc' = "idle" /\ UNCHANGED state
  /\ UNCHANGED <<serverVars, dbVars, info, work, didReenhanceAtTip, histVars>>

----------------------------------------------------------------------------
NothingKnown == [net |-> None, scanned |-> None]
NoWork == [by |-> "loop", next |-> 0, from |-> 1, end |-> 0]

\* A new process: the memory and the history that speaks of it.
Restart ==
  /\ pc' = "idle" /\ state' = "Initialized" /\ didReenhanceAtTip' = FALSE
  /\ info' = NothingKnown /\ work' = NoWork
  /\ tried' = {} /\ missed' = {} /\ misread' = FALSE

Crash ==
  /\ Fault
  /\ Restart
  /\ gaps' = IF pc = "rewound" THEN gaps \cup {"crash"} ELSE gaps
  /\ UNCHANGED <<serverVars, dbVars, rewinds>>

Init ==
  /\ chain = << >> /\ epoch = 0
  /\ cache = NoBlocks /\ scanned = << >> /\ raw = {}
  /\ pc = "idle" /\ state = "Initialized" /\ didReenhanceAtTip = FALSE
  /\ info = NothingKnown /\ work = NoWork
  /\ tried = {} /\ missed = {} /\ misread = FALSE
  /\ gaps = {} /\ faults = 0 /\ rewinds = 0

\* The steps of the processor itself; what is left are the server, the user,
\* and faults.
Cycle ==
  \/ \E tip \in {Tip, info.scanned} :
       NoBlocksToProcess(tip) \/ ScanWhatIsCached(tip) \/ StartDownload(tip)
  \/ DownloadBatch \/ DownloadFails
  \/ ScanBatch \/ ScanNothing \/ ScanFails \/ ClearCache \/ EnhanceTransactionDetails
  \/ RewindClearsCache \/ RewindKeepsCache \/ ValidateNewBlocks

Environment ==
  \/ MineBlock
  \/ \E h \in 0 .. Len(chain) - 1 : Reorg(h)
  \/ \E h \in 1 .. MaxHeight, by \in {"clear", "keep"} : UserRewinds(h, by)
  \/ Disconnected

Next == Cycle \/ OnProcessorError \/ Environment \/ Crash

Spec == Init /\ [][Next]_vars

----------------------------------------------------------------------------
\* The cached blocks still to be scanned follow the wallet's tip without a gap,
\* so the scan cannot throw: partial downloads, crashes, reorganisations and
\* clearing rewinds keep the two databases in step.  Only a crash between the
\* rewind of the one and of the other, a rewind that keeps the cache, or an old
\* height above the tip, used when the tip cannot be read, may leave a gap, until
\* the cache is next cleared.
CacheFollowsScan ==
  gaps = {} /\ pc # "rewound" =>
    \A h \in CachedAbove(Tip) : h = Tip + 1 \/ h - 1 \in CachedAbove(Tip)

\* The state that the wallet shows as SYNCED means, after a cycle of the loop,
\* that every block up to the height the server last reported was scanned,
\* whatever failed before.  The rescan of a kept cache shows it too, and there it
\* says only that the cache was scanned up to the end of the range or as far as
\* it went, or that the scan reached the height already published: mostly nothing
\* is cached.  Nothing is said while a rewind has cut the data DB and not yet
\* reported it, nor when in this very cycle or rescan the scanned height could not
\* be read and an old one was used.
SyncedMeansScanned ==
  state = "Scanned" /\ pc # "rewound" /\ ~misread =>
    IF work.by # "keep" THEN Tip >= info.net
    ELSE \/ Tip >= work.end
         \/ CachedAbove(Tip) = {}
         \/ Tip = work.from - 1

\* While the catch-up pass counts as done, the details of every transaction
\* scanned were fetched or at least asked for since the wallet started, although
\* the pass that follows a scan may fail, be cut off by a crash or see a range
\* that misses them.  Two kinds are left out until the pass is armed again: those
\* a failed query of the pass did not find, and those a rescan of the kept cache
\* brought.  A cycle that ends at the tip has made the pass, unless it had no
\* scanned height to start from.
CatchUpEnhances ==
  /\ didReenhanceAtTip => TxHeights \cap 1 .. Tip \subseteq raw \cup tried \cup missed
  /\ pc = "idle" /\ state = "Scanned" /\ work.by = "loop" =>
       didReenhanceAtTip \/ info.scanned = None

----------------------------------------------------------------------------
(* What comments of the code say, and TLC refutes.                         *)

\* start: "Download compact blocks, verify and scan them": what was scanned is
\* one chain.
ScannedBlocksLink ==
  \A h \in 1 .. Tip : scanned[h].prev = EpochAt(scanned, h - 1)

=============================================================================
