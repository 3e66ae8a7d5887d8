------------------------- MODULE SyncRecovery_proofs -------------------------
(* Proofs about the block processor under the app's recovery, for every       *)
(* batch size, checkpoint and set of transactions, and for any number of      *)
(* blocks, reorganisations, faults, rewinds and wipes.                        *)
EXTENDS SyncRecovery, WellFoundedInduction, TLAPS

USE ProcessorAssumption, RecoveryAssumption
    DEF ProcessorAssumption, RecoveryAssumption

----------------------------------------------------------------------------
(* Numbers.  The greatest element stands behind getLatestHeight, a maximum    *)
(* over the cache, and behind the length of the run a scan commits.           *)

LEMMA Least ==
  ASSUME NEW S \in SUBSET Nat, S # {}
  PROVE  \E m \in S : \A k \in S : m <= k
<1>1. PICK m \in S : \A k \in S : <<k, m>> \notin OpToRel(<, Nat)
  BY NatLessThanWellFounded, WFMin
<1>2. \A k \in S : ~(k < m)
  BY <1>1 DEF OpToRel
<1> QED BY <1>2

LEMMA Greatest ==
  ASSUME NEW N \in Nat, NEW S \in SUBSET (0 .. N), S # {}
  PROVE  \E m \in S : \A k \in S : k <= m
<1> DEFINE D == {N - k : k \in S}
<1>1. D \in SUBSET Nat /\ D # {}
  <2>1. \A k \in S : k \in 0 .. N /\ N - k \in Nat
    OBVIOUS
  <2> QED BY <2>1
<1>2. PICK d \in D : \A e \in D : d <= e
  BY <1>1, Least
<1>3. PICK m \in S : d = N - m
  OBVIOUS
<1>4. ASSUME NEW k \in S
      PROVE  k <= m
  <2>1. d <= N - k
    BY <1>2
  <2> QED BY <1>3, <2>1
<1> QED BY <1>3, <1>4

----------------------------------------------------------------------------
(* Types.                                                                     *)

Block == [epoch : Nat, prev : Nat]
Holder == {"idle", "download", "failedDownload", "scan", "failedScan", "clear",
           "enhance", "rewound", "validate"}
Height == Nat \cup {None}

Work == [by : {"loop", "clear", "keep"}, next : Nat, from : Nat \ {0}, end : Nat]

StoreTypeOK ==
  /\ chain \in Seq(Block) /\ Len(chain) <= MaxHeight /\ epoch \in Nat
  /\ DOMAIN cache \subseteq 1 .. MaxHeight
  /\ \A h \in DOMAIN cache : cache[h] \in Block
  /\ scanned \in Seq(Block)
  /\ raw \subseteq TxHeights

MemoryTypeOK ==
  /\ pc \in Holder /\ state \in State
  /\ info \in [net : Height, scanned : Height]
  /\ work \in Work
  /\ pc = "download" => work.next > 0
  /\ didReenhanceAtTip \in BOOLEAN

HistoryTypeOK ==
  /\ tried \subseteq TxHeights
  /\ missed \subseteq TxHeights /\ misread \in BOOLEAN
  /\ gaps \subseteq {"kept", "crash", "ahead"}
  /\ faults \in Nat /\ rewinds \in Nat

RecoveryTypeOK ==
  /\ launched \subseteq {"rewind", "wipe"}
  /\ recentRewind \in BOOLEAN /\ recentWipe \in BOOLEAN
  /\ wipes \in Nat

TypeOK == StoreTypeOK /\ MemoryTypeOK /\ HistoryTypeOK /\ RecoveryTypeOK

ProcessorTypeOK == StoreTypeOK /\ MemoryTypeOK /\ HistoryTypeOK

LEMMA WorkType ==
  ASSUME MemoryTypeOK
  PROVE  /\ work.by \in {"loop", "clear", "keep"}
         /\ work.next \in Nat /\ work.end \in Nat
         /\ work.from \in Nat /\ work.from > 0 /\ work.from - 1 \in Nat
         /\ info.net \in Height /\ info.scanned \in Height
  BY DEF MemoryTypeOK, Work

LEMMA WorkUpdate ==
  ASSUME NEW w \in Work, NEW n \in Nat
  PROVE  /\ [w EXCEPT !.next = n] \in Work /\ [w EXCEPT !.next = n].next = n
         /\ [w EXCEPT !.end = n] \in Work
  BY DEF Work

LEMMA TipType == StoreTypeOK => Tip \in Nat
  BY DEF StoreTypeOK, Tip

LEMMA LastDownloadedType ==
  ASSUME StoreTypeOK
  PROVE  /\ LastDownloaded \in {0} \cup DOMAIN cache
         /\ LastDownloaded \in Nat
         /\ \A k \in DOMAIN cache : k <= LastDownloaded
<1> DEFINE S == {0} \cup DOMAIN cache
<1>1. S \in SUBSET (0 .. MaxHeight) /\ S # {}
  BY DEF StoreTypeOK
<1>2. PICK m \in S : \A k \in S : k <= m
  BY <1>1, Greatest
<1>3. LastDownloaded \in S /\ \A k \in DOMAIN cache : k <= LastDownloaded
  BY <1>2 DEF LastDownloaded
<1> QED BY <1>1, <1>3

(* A scan commits a run of cached blocks that starts above the tip.           *)
LEMMA RunLengthType ==
  ASSUME StoreTypeOK
  PROVE  /\ RunLength \in 0 .. ScanBatchSize /\ Sequential(RunLength)
         /\ RunLength < ScanBatchSize => ~Sequential(RunLength + 1)
<1> DEFINE S == {n \in 0 .. ScanBatchSize : Sequential(n)}
<1>1. Tip \in Nat
  BY TipType
<1>2. Sequential(0)
  BY <1>1 DEF Sequential
<1>3. S \in SUBSET (0 .. ScanBatchSize) /\ S # {}
  BY <1>2
<1>4. PICK m \in S : \A k \in S : k <= m
  BY <1>3, Greatest
<1>5. m < ScanBatchSize => ~Sequential(m + 1)
  <2>1. m \in 0 .. ScanBatchSize
    OBVIOUS
  <2>2. SUFFICES ASSUME m < ScanBatchSize, Sequential(m + 1)
                 PROVE  FALSE
    OBVIOUS
  <2>3. m + 1 \in S
    BY <2>1, <2>2
  <2>4. m + 1 <= m
    BY <1>4, <2>3
  <2> QED BY <2>1, <2>4
<1> QED BY <1>4, <1>5 DEF RunLength

LEMMA AppendScannedType ==
  ASSUME StoreTypeOK, NEW n \in 0 .. RunLength
  PROVE  /\ AppendScanned(n) \in Seq(Block)
         /\ Len(AppendScanned(n)) = Tip + n
<1>1. Tip \in Nat /\ RunLength \in Nat /\ Sequential(RunLength)
  BY TipType, RunLengthType
<1>2. ASSUME NEW i \in 1 .. n
      PROVE  cache[Tip + i] \in Block
  <2>1. Tip + i \in Tip + 1 .. Tip + RunLength
    BY <1>1
  <2> QED BY <1>1, <2>1 DEF Sequential, StoreTypeOK
<1>3. [i \in 1 .. n |-> cache[Tip + i]] \in Seq(Block)
  BY <1>1, <1>2
<1>4. scanned \in Seq(Block)
  BY DEF StoreTypeOK
<1>5. Len([i \in 1 .. n |-> cache[Tip + i]]) = n
  BY <1>1
<1> QED BY <1>3, <1>4, <1>5 DEF AppendScanned, Tip

LEMMA NoBlocksType == DOMAIN NoBlocks = {} /\ << >> \in Seq(Block) /\ Len(<< >>) = 0
  BY DEF NoBlocks

LEMMA InitTypeOK == RecoveryInit => TypeOK
<1> SUFFICES ASSUME RecoveryInit
             PROVE  TypeOK
  OBVIOUS
<1> USE NoBlocksType DEF RecoveryInit, Init
<1>1. StoreTypeOK
  BY DEF StoreTypeOK
<1>2. NothingKnown \in [net : Height, scanned : Height] /\ NoWork \in Work
  BY DEF NothingKnown, NoWork, Height, Work
<1>3. MemoryTypeOK
  BY <1>2 DEF State, Holder, MemoryTypeOK
<1>4. HistoryTypeOK /\ RecoveryTypeOK
  BY DEF HistoryTypeOK, RecoveryTypeOK
<1> QED BY <1>1, <1>3, <1>4 DEF TypeOK

(* The server.                                                                *)
LEMMA ServerTypeOK ==
  ASSUME ProcessorTypeOK, MineBlock \/ \E h \in 0 .. Len(chain) - 1 : Reorg(h)
  PROVE  ProcessorTypeOK'
<1>1. chain' \in Seq(Block) /\ Len(chain') <= MaxHeight /\ epoch' \in Nat
  <2>1. CASE MineBlock
    <3>1. EpochAt(chain, Len(chain)) \in Nat
      <4>1. Len(chain) # 0 => chain[Len(chain)] \in Block
        BY DEF ProcessorTypeOK, StoreTypeOK
      <4> QED BY <4>1 DEF EpochAt, Block
    <3>2. [epoch |-> epoch, prev |-> EpochAt(chain, Len(chain))] \in Block
      BY <3>1 DEF Block, ProcessorTypeOK, StoreTypeOK
    <3> QED BY <2>1, <3>2 DEF MineBlock, ProcessorTypeOK, StoreTypeOK
  <2>2. CASE \E h \in 0 .. Len(chain) - 1 : Reorg(h)
    BY <2>2 DEF Reorg, ProcessorTypeOK, StoreTypeOK
  <2> QED BY <2>1, <2>2
<1>2. UNCHANGED <<dbVars, memVars, histVars>>
  BY DEF MineBlock, Reorg
<1> QED BY <1>1, <1>2
        DEF dbVars, memVars, histVars, ProcessorTypeOK, StoreTypeOK,
            MemoryTypeOK, HistoryTypeOK

(* The heights a cycle starts from.                                           *)
LEMMA UpdateRangesType ==
  ASSUME ProcessorTypeOK, NEW tip \in {Tip, info.scanned}, UpdateRanges(tip)
  PROVE  /\ tip \in Height
         /\ info' \in [net : Height, scanned : Height]
         /\ work' \in Work /\ work'.next > 0
         /\ misread' \in BOOLEAN /\ faults' \in Nat
<1>1. tip \in Height
  BY TipType DEF ProcessorTypeOK, MemoryTypeOK, Height
<1>2. LastDownloaded \in Nat /\ Len(chain) \in Nat
  BY LastDownloadedType DEF ProcessorTypeOK, StoreTypeOK
<1> QED BY <1>1, <1>2
        DEF UpdateRanges, GetLastScannedHeight, Fault, Higher, Height, Work,
            ProcessorTypeOK, HistoryTypeOK

LEMMA CycleStartTypeOK ==
  ASSUME ProcessorTypeOK, NEW tip \in {Tip, info.scanned},
         NoBlocksToProcess(tip) \/ ScanWhatIsCached(tip) \/ StartDownload(tip)
  PROVE  ProcessorTypeOK'
<1>1. UpdateRanges(tip)
  BY DEF NoBlocksToProcess, ScanWhatIsCached, StartDownload
<1>2. /\ info' \in [net : Height, scanned : Height]
      /\ work' \in Work /\ work'.next > 0
      /\ misread' \in BOOLEAN /\ faults' \in Nat
  BY <1>1, UpdateRangesType
<1>3. CASE NoBlocksToProcess(tip)
  <2>1. raw' \subseteq TxHeights /\ tried' \subseteq TxHeights
        /\ missed' \subseteq TxHeights
    BY <1>3 DEF NoBlocksToProcess, CatchUp, Enhance, Unenhanced,
                ProcessorTypeOK, StoreTypeOK, HistoryTypeOK
  <2> QED BY <1>2, <1>3, <2>1
          DEF NoBlocksToProcess, serverVars, State,
              ProcessorTypeOK, StoreTypeOK, MemoryTypeOK, HistoryTypeOK
<1>4. CASE ScanWhatIsCached(tip)
  BY <1>2, <1>4 DEF ScanWhatIsCached, Rearm, serverVars, dbVars, State, Holder,
         ProcessorTypeOK, StoreTypeOK, MemoryTypeOK, HistoryTypeOK
<1>5. CASE StartDownload(tip)
  BY <1>2, <1>5 DEF StartDownload, Rearm, serverVars, dbVars, State, Holder,
         ProcessorTypeOK, StoreTypeOK, MemoryTypeOK, HistoryTypeOK
<1> QED BY <1>3, <1>4, <1>5

(* The download and the scan.                                                 *)
LEMMA DownloadTypeOK ==
  ASSUME ProcessorTypeOK, DownloadBatch \/ DownloadFails \/ Disconnected
  PROVE  ProcessorTypeOK'
<1>1. CASE DownloadBatch
  <2>1. /\ BatchEnd \in Nat /\ BatchEnd <= Len(chain)
        /\ work.next \in Nat /\ work.next > 0
        /\ Len(chain) \in Nat /\ Len(chain) <= MaxHeight
        /\ \A h \in 1 .. Len(chain) : chain[h] \in Block
    <3>1. work.next \in Nat /\ work.end \in Nat /\ work.next > 0
      BY <1>1, WorkType DEF DownloadBatch, ProcessorTypeOK, MemoryTypeOK
    <3>2. BatchEnd \in Nat
      BY <3>1 DEF BatchEnd, Lower
    <3> QED BY <1>1, <3>1, <3>2 DEF DownloadBatch, ProcessorTypeOK, StoreTypeOK
  <2>2. \A h \in DOMAIN cache' : h \in 1 .. MaxHeight /\ cache'[h] \in Block
    <3>1. TAKE h \in DOMAIN cache'
    <3>2. DOMAIN cache' = DOMAIN cache \cup work.next .. BatchEnd
      BY <1>1 DEF DownloadBatch
    <3>3. CASE h \in work.next .. BatchEnd
      <4>1. h \in 1 .. Len(chain)
        BY <2>1, <3>3
      <4>2. cache'[h] = chain[h]
        BY <1>1, <3>2, <3>3 DEF DownloadBatch
      <4> QED BY <2>1, <4>1, <4>2
    <3>4. CASE h \notin work.next .. BatchEnd
      BY <1>1, <3>2, <3>4 DEF DownloadBatch, ProcessorTypeOK, StoreTypeOK
    <3> QED BY <3>3, <3>4
  <2>3. work' \in Work /\ work'.next > 0
    <3>1. work \in Work /\ work' = [work EXCEPT !.next = BatchEnd + 1]
      BY <1>1 DEF DownloadBatch, ProcessorTypeOK, MemoryTypeOK
    <3>2. BatchEnd + 1 \in Nat /\ BatchEnd + 1 > 0
      BY <2>1
    <3> QED BY <3>1, <3>2, WorkUpdate
  <2> QED BY <1>1, <2>2, <2>3
          DEF DownloadBatch, serverVars, histVars, State, Holder,
              ProcessorTypeOK, StoreTypeOK, MemoryTypeOK, HistoryTypeOK
<1>2. CASE DownloadFails
  BY <1>2 DEF DownloadFails, Fault, serverVars, dbVars, Holder,
              ProcessorTypeOK, StoreTypeOK, MemoryTypeOK, HistoryTypeOK
<1>3. CASE Disconnected
  BY <1>3 DEF Disconnected, Fault, serverVars, dbVars, State,
              ProcessorTypeOK, StoreTypeOK, MemoryTypeOK, HistoryTypeOK
<1> QED BY <1>1, <1>2, <1>3

LEMMA ScanTypeOK ==
  ASSUME ProcessorTypeOK,
         ScanBatch \/ ScanNothing \/ ScanFails \/ ClearCache \/ EnhanceTransactionDetails
  PROVE  ProcessorTypeOK'
<1>1. CASE ScanBatch
  <2>1. Tip \in Nat /\ RunLength \in Nat /\ AppendScanned(RunLength) \in Seq(Block)
    BY TipType, RunLengthType, AppendScannedType DEF ProcessorTypeOK
  <2>2. info' \in [net : Height, scanned : Height]
    <3>1. Tip + RunLength \in Height
      BY <2>1 DEF Height
    <3> QED BY <1>1, <3>1, WorkType DEF ScanBatch, ProcessorTypeOK, MemoryTypeOK
  <2>3. StoreTypeOK'
    BY <1>1, <2>1 DEF ScanBatch, serverVars, ProcessorTypeOK, StoreTypeOK
  <2>4. MemoryTypeOK'
    BY <1>1, <2>2 DEF ScanBatch, State, Holder, ProcessorTypeOK, MemoryTypeOK
  <2>5. HistoryTypeOK'
    <3>1. misread' \in BOOLEAN
      BY <1>1 DEF ScanBatch, ProcessorTypeOK, HistoryTypeOK
    <3>2. faults' \in Nat
      BY <1>1 DEF ScanBatch, Fault, ProcessorTypeOK, HistoryTypeOK
    <3>3. missed' \subseteq TxHeights
      BY <1>1 DEF ScanBatch, RescanMisses, ProcessorTypeOK, HistoryTypeOK
    <3> QED BY <1>1, <3>1, <3>2, <3>3 DEF ScanBatch, ProcessorTypeOK, HistoryTypeOK
  <2> QED BY <2>3, <2>4, <2>5 DEF ProcessorTypeOK
<1>2. CASE ScanNothing
  BY <1>2 DEF ScanNothing, serverVars, dbVars, histVars, State, Holder,
              ProcessorTypeOK, StoreTypeOK, MemoryTypeOK, HistoryTypeOK
<1>3. CASE ScanFails
  <2>1. \A n \in 0 .. RunLength : AppendScanned(n) \in Seq(Block)
    BY AppendScannedType DEF ProcessorTypeOK
  <2>2. PICK n \in 0 .. RunLength :
          /\ (Discontinuous /\ UNCHANGED faults) \/ Fault
          /\ scanned' = AppendScanned(n) /\ RescanMisses(n)
    BY <1>3 DEF ScanFails
  <2>3. scanned' \in Seq(Block)
    BY <2>1, <2>2
  <2>4. missed' \subseteq TxHeights
    BY <2>2 DEF RescanMisses, ProcessorTypeOK, HistoryTypeOK
  <2>5. faults' \in Nat
    BY <2>2 DEF Fault, ProcessorTypeOK, HistoryTypeOK
  <2> QED BY <1>3, <2>3, <2>4, <2>5
          DEF ScanFails, serverVars, State, Holder,
              ProcessorTypeOK, StoreTypeOK, MemoryTypeOK, HistoryTypeOK
<1>4. CASE ClearCache
  BY <1>4, NoBlocksType
     DEF ClearCache, serverVars, Holder,
         ProcessorTypeOK, StoreTypeOK, MemoryTypeOK, HistoryTypeOK
<1>5. CASE EnhanceTransactionDetails
  <2>1. raw' \subseteq TxHeights /\ tried' \subseteq TxHeights
    BY <1>5 DEF EnhanceTransactionDetails, Enhance, ProcessorTypeOK,
                StoreTypeOK, HistoryTypeOK
  <2>2. faults' \in Nat
    BY <1>5 DEF EnhanceTransactionDetails, Fault, ProcessorTypeOK, HistoryTypeOK
  <2> QED BY <1>5, <2>1, <2>2
          DEF EnhanceTransactionDetails, serverVars, State, Holder,
              ProcessorTypeOK, StoreTypeOK, MemoryTypeOK, HistoryTypeOK
<1> QED BY <1>1, <1>2, <1>3, <1>4, <1>5

(* The rewinds.                                                               *)
LEMMA RewindHeightsType ==
  ASSUME StoreTypeOK, NEW h \in Nat \ {0}, NEW target \in NearestRewindHeights(h)
  PROVE  target \in Nat
  BY DEF NearestRewindHeights

LEMMA RewindTypeOK ==
  ASSUME ProcessorTypeOK, NEW h \in Nat, NEW by \in {"clear", "keep"}, Rewind(h, by),
         rewinds' \in Nat
  PROVE  ProcessorTypeOK'
<1>1. PICK target \in NearestRewindHeights(h) :
        /\ scanned' = IF target < LastScanned
                      THEN SubSeq(scanned, 1, Lower(target, Tip)) ELSE scanned
        /\ work' = [by |-> by, next |-> 0, from |-> target + 1, end |-> 0]
  BY DEF Rewind
<1>2. target \in Nat /\ Tip \in Nat
  BY RewindHeightsType, TipType DEF Rewind, ProcessorTypeOK
<1>3. scanned' \in Seq(Block)
  <2>1. Lower(target, Tip) \in 0 .. Tip
    BY <1>2 DEF Lower
  <2>2. scanned \in Seq(Block)
    BY DEF ProcessorTypeOK, StoreTypeOK
  <2>3. SubSeq(scanned, 1, Lower(target, Tip)) \in Seq(Block)
    BY <2>1, <2>2 DEF Tip
  <2> QED BY <1>1, <2>2, <2>3
<1>4. work' \in Work
  BY <1>1, <1>2 DEF Work
<1> QED BY <1>3, <1>4
        DEF Rewind, serverVars, Holder,
            ProcessorTypeOK, StoreTypeOK, MemoryTypeOK, HistoryTypeOK

LEMMA RewindEndsTypeOK ==
  ASSUME ProcessorTypeOK, RewindClearsCache \/ RewindKeepsCache \/ ValidateNewBlocks
  PROVE  ProcessorTypeOK'
<1>1. CASE RewindClearsCache
  <2>1. info' \in [net : Height, scanned : Height]
    BY <1>1, WorkType DEF RewindClearsCache, Height, ProcessorTypeOK, MemoryTypeOK
  <2>2. \A h \in DOMAIN cache' : h \in DOMAIN cache /\ cache'[h] = cache[h]
    BY <1>1 DEF RewindClearsCache, RewindCacheTo, Restrict
  <2> QED BY <1>1, <2>1, <2>2
          DEF RewindClearsCache, serverVars, histVars, State, Holder,
              ProcessorTypeOK, StoreTypeOK, MemoryTypeOK, HistoryTypeOK
<1>2. CASE RewindKeepsCache
  <2>1. info' \in [net : Height, scanned : Height]
    BY <1>2, WorkType DEF RewindKeepsCache, Height, ProcessorTypeOK, MemoryTypeOK
  <2>2. work' \in Work
    BY <1>2, WorkType
       DEF RewindKeepsCache, Height, Work, ProcessorTypeOK, MemoryTypeOK
  <2> QED BY <1>2, <2>1, <2>2
          DEF RewindKeepsCache, serverVars, dbVars, State, Holder,
              ProcessorTypeOK, StoreTypeOK, MemoryTypeOK, HistoryTypeOK
<1>3. CASE ValidateNewBlocks
  BY <1>3 DEF ValidateNewBlocks, serverVars, dbVars, histVars, State, Holder,
              ProcessorTypeOK, StoreTypeOK, MemoryTypeOK, HistoryTypeOK
<1> QED BY <1>1, <1>2, <1>3

(* The recovery.                                                              *)
LEMMA RestartType ==
  ASSUME ProcessorTypeOK, Restart
  PROVE  MemoryTypeOK' /\ tried' \subseteq TxHeights /\ missed' \subseteq TxHeights
                       /\ misread' \in BOOLEAN
<1>1. NothingKnown \in [net : Height, scanned : Height] /\ NoWork \in Work
  BY DEF NothingKnown, NoWork, Height, Work
<1> QED BY <1>1 DEF Restart, State, Holder, MemoryTypeOK

LEMMA ErrorTypeOK ==
  ASSUME TypeOK, HandleError \/ AutoRewindFails
  PROVE  TypeOK'
<1>1. ASSUME NEW running \in SUBSET {"rewind", "wipe"},
             ClearBlockDataAndRestart(running)
      PROVE  /\ launched' \subseteq {"rewind", "wipe"} /\ recentWipe' \in BOOLEAN
             /\ wipes' \in Nat
  <2>1. launched' \subseteq {"rewind", "wipe"} /\ recentWipe' \in BOOLEAN
    BY <1>1, Zenon DEF ClearBlockDataAndRestart, TypeOK, RecoveryTypeOK
  <2>2. wipes' \in Nat
    BY <1>1 DEF ClearBlockDataAndRestart, TypeOK, RecoveryTypeOK
  <2> QED BY <2>1, <2>2
<1>2. CASE HandleError
  <2>1. RecoveryTypeOK'
    <3>1. CASE UNCHANGED recoveryVars
      BY <3>1 DEF recoveryVars, TypeOK, RecoveryTypeOK
    <3>2. CASE ClearBlockDataAndRestart(launched) /\ UNCHANGED recentRewind
      BY <1>1, <3>2 DEF TypeOK, RecoveryTypeOK
    <3>3. CASE /\ launched' = launched \cup {"rewind"}
               /\ recentRewind' = TRUE
               /\ UNCHANGED <<recentWipe, wipes>>
      BY <3>3 DEF TypeOK, RecoveryTypeOK
    <3> QED BY <1>2, <3>1, <3>2, <3>3 DEF HandleError, AutoFkRewind
  <2>2. ProcessorTypeOK'
    BY <1>2 DEF HandleError, OnProcessorError, serverVars, dbVars, histVars, Holder,
                TypeOK, ProcessorTypeOK, StoreTypeOK, MemoryTypeOK, HistoryTypeOK
  <2> QED BY <2>1, <2>2 DEF TypeOK, ProcessorTypeOK
<1>3. CASE AutoRewindFails
  <2>1. RecoveryTypeOK'
    <3>1. launched \ {"rewind"} \in SUBSET {"rewind", "wipe"}
      BY DEF TypeOK, RecoveryTypeOK
    <3> QED BY <1>1, <1>3, <3>1 DEF AutoRewindFails, TypeOK, RecoveryTypeOK
  <2>2. ProcessorTypeOK'
    BY <1>3 DEF AutoRewindFails, Fault, serverVars, dbVars, memVars,
                TypeOK, ProcessorTypeOK, StoreTypeOK, MemoryTypeOK, HistoryTypeOK
  <2> QED BY <2>1, <2>2 DEF TypeOK, ProcessorTypeOK
<1> QED BY <1>2, <1>3

LEMMA UnchangedTypeOK ==
  ASSUME ProcessorTypeOK, UNCHANGED vars
  PROVE  ProcessorTypeOK'
  BY DEF vars, serverVars, dbVars, memVars, histVars,
         ProcessorTypeOK, StoreTypeOK, MemoryTypeOK, HistoryTypeOK

LEMMA AutoRewindTypeOK ==
  ASSUME TypeOK, AutoRewind
  PROVE  TypeOK'
<1>1. RecoveryTypeOK'
  BY DEF AutoRewind, TypeOK, RecoveryTypeOK
<1>2. ProcessorTypeOK
  BY DEF TypeOK, ProcessorTypeOK
<1>3. ProcessorTypeOK'
  <2>1. CASE info.net = None
    BY <1>2, <2>1, UnchangedTypeOK DEF AutoRewind
  <2>2. CASE info.net # None
    <3>1. info.net \in Nat
      BY <2>2, <1>2, WorkType DEF ProcessorTypeOK, Height
    <3>2. Higher(info.net - AutoRewindDepth, 1) \in Nat
      BY <3>1 DEF Higher
    <3>3. rewinds' \in Nat
      BY <2>2 DEF AutoRewind, TypeOK, HistoryTypeOK
    <3> QED BY <1>2, <2>2, <3>2, <3>3, RewindTypeOK DEF AutoRewind
  <2> QED BY <2>1, <2>2
<1> QED BY <1>1, <1>3 DEF TypeOK, ProcessorTypeOK

LEMMA RestartsTypeOK ==
  ASSUME TypeOK, EraseAndRestart \/ CrashStep
  PROVE  TypeOK'
<1>1. ProcessorTypeOK /\ Restart
  BY DEF EraseAndRestart, CrashStep, Crash, TypeOK, ProcessorTypeOK
<1>2. MemoryTypeOK' /\ tried' \subseteq TxHeights /\ missed' \subseteq TxHeights
                    /\ misread' \in BOOLEAN
  BY <1>1, RestartType
<1>3. StoreTypeOK'
  BY NoBlocksType DEF EraseAndRestart, CrashStep, Crash, serverVars, dbVars,
                      TypeOK, StoreTypeOK
<1>4. HistoryTypeOK'
  <2>1. gaps' \subseteq {"kept", "crash", "ahead"}
    BY DEF EraseAndRestart, CrashStep, Crash, TypeOK, HistoryTypeOK
  <2>2. faults' \in Nat /\ rewinds' \in Nat
    BY DEF EraseAndRestart, CrashStep, Crash, Fault, TypeOK, HistoryTypeOK
  <2> QED BY <1>2, <2>1, <2>2 DEF HistoryTypeOK
<1>5. RecoveryTypeOK'
  BY DEF EraseAndRestart, CrashStep, TypeOK, RecoveryTypeOK
<1> QED BY <1>2, <1>3, <1>4, <1>5 DEF TypeOK

LEMMA CycleTypeOK ==
  ASSUME ProcessorTypeOK, Cycle
  PROVE  ProcessorTypeOK'
  BY CycleStartTypeOK, DownloadTypeOK, ScanTypeOK, RewindEndsTypeOK DEF Cycle

LEMMA EnvironmentTypeOK ==
  ASSUME ProcessorTypeOK, Environment
  PROVE  ProcessorTypeOK'
<1>1. CASE \E h \in 1 .. MaxHeight, by \in {"clear", "keep"} : UserRewinds(h, by)
  <2>1. PICK h \in 1 .. MaxHeight, by \in {"clear", "keep"} : UserRewinds(h, by)
    BY <1>1
  <2>2. rewinds' \in Nat
    BY <2>1 DEF UserRewinds, ProcessorTypeOK, HistoryTypeOK
  <2> QED BY <2>1, <2>2, RewindTypeOK DEF UserRewinds
<1> QED BY <1>1, ServerTypeOK, DownloadTypeOK DEF Environment

LEMMA StepTypeOK ==
  ASSUME TypeOK, [RecoveryNext]_allVars
  PROVE  TypeOK'
<1>1. ProcessorTypeOK
  BY DEF TypeOK, ProcessorTypeOK
<1>2. ASSUME ProcessorTypeOK', RecoveryTypeOK'
      PROVE  TypeOK'
  BY <1>2 DEF TypeOK, ProcessorTypeOK
<1>3. CASE CycleStep
  <2>1. RecoveryTypeOK'
    BY <1>3 DEF CycleStep, recoveryVars, TypeOK, RecoveryTypeOK
  <2> QED BY <1>1, <1>2, <1>3, <2>1, CycleTypeOK DEF CycleStep
<1>4. CASE EnvironmentStep
  <2>1. RecoveryTypeOK'
    BY <1>4 DEF EnvironmentStep, recoveryVars, TypeOK, RecoveryTypeOK
  <2> QED BY <1>1, <1>2, <1>4, <2>1, EnvironmentTypeOK DEF EnvironmentStep
<1>5. CASE RewindCoolDownEnds \/ WipeCoolDownEnds \/ WindowEnds \/ UNCHANGED allVars
  <2>1. launched' = launched /\ UNCHANGED vars /\ (wipes' = wipes \/ wipes' = 0)
    BY <1>5, Zenon DEF RewindCoolDownEnds, WipeCoolDownEnds, WindowEnds, allVars,
                       recoveryVars
  <2>2. recentRewind' \in BOOLEAN /\ recentWipe' \in BOOLEAN
    BY <1>5, Zenon DEF RewindCoolDownEnds, WipeCoolDownEnds, WindowEnds, allVars,
                       recoveryVars, TypeOK, RecoveryTypeOK
  <2>3. RecoveryTypeOK'
    BY <2>1, <2>2 DEF TypeOK, RecoveryTypeOK
  <2> QED BY <1>1, <1>2, <2>1, <2>3, UnchangedTypeOK
<1> QED BY <1>3, <1>4, <1>5, ErrorTypeOK, AutoRewindTypeOK, RestartsTypeOK
        DEF RecoveryNext, Recovery

(* The two databases, the processor's memory and the app's throttles keep     *)
(* their types: the cache holds blocks of heights above the checkpoint, and   *)
(* what is scanned is a sequence of blocks.                                   *)
THEOREM TypeCorrect == RecoverySpec => []TypeOK
<1>1. RecoveryInit => TypeOK
  BY InitTypeOK
<1>2. TypeOK /\ [RecoveryNext]_allVars => TypeOK'
  BY StepTypeOK
<1> QED BY <1>1, <1>2, PTL DEF RecoverySpec

----------------------------------------------------------------------------
(* The steps, as the invariants below tell them apart: what the server, the   *)
(* clock and a reported error do leaves the databases and the holder's locals *)
(* alone, and a process stops either by a crash or to erase the databases.    *)

Quiet ==
  /\ UNCHANGED <<cache, scanned, raw, state, info, work, didReenhanceAtTip, tried,
                 missed, gaps, misread>>
  /\ \/ pc' = pc
     \/ pc \in {"failedDownload", "failedScan"} /\ pc' = "idle"

Erased == cache' = NoBlocks /\ scanned' \in {<< >>, scanned} /\ gaps' = {}

Killed ==
  /\ UNCHANGED <<cache, scanned>>
  /\ gaps' = IF pc = "rewound" THEN gaps \cup {"crash"} ELSE gaps

Stopped == Restart /\ (Erased \/ Killed)

Rewound == \E h \in Nat, by \in {"clear", "keep"} : Rewind(h, by)

LEMMA StepCases ==
  ASSUME TypeOK, [RecoveryNext]_allVars
  PROVE  Quiet \/ Cycle \/ Disconnected \/ Rewound \/ Stopped
<1>1. UNCHANGED vars => Quiet
  BY DEF vars, dbVars, memVars, histVars, Quiet
<1>2. CASE HandleError \/ AutoRewindFails
  BY <1>2 DEF HandleError, OnProcessorError, AutoRewindFails, dbVars, memVars,
              histVars, Quiet
<1>3. CASE AutoRewind
  <2>1. CASE info.net = None
    BY <1>1, <1>3, <2>1 DEF AutoRewind
  <2>2. CASE info.net # None
    <3>1. info.net \in Nat
      BY <2>2, WorkType DEF TypeOK, Height
    <3>2. Higher(info.net - AutoRewindDepth, 1) \in Nat
      BY <3>1 DEF Higher
    <3> QED BY <1>3, <2>2, <3>2 DEF AutoRewind, Rewound
  <2> QED BY <2>1, <2>2
<1>4. CASE EraseAndRestart \/ CrashStep
  <2>1. EraseAndRestart => Restart /\ Erased
    BY DEF EraseAndRestart, Erased
  <2>2. CrashStep => Restart /\ Killed
    BY DEF CrashStep, Crash, dbVars, Killed
  <2> QED BY <1>4, <2>1, <2>2 DEF Stopped
<1>5. CASE RewindCoolDownEnds \/ WipeCoolDownEnds \/ WindowEnds \/ UNCHANGED allVars
  <2>1. UNCHANGED vars
    BY <1>5, Zenon DEF RewindCoolDownEnds, WipeCoolDownEnds, WindowEnds, allVars
  <2> QED BY <1>1, <2>1
<1>6. CASE EnvironmentStep
  <2>1. CASE MineBlock \/ \E h \in 0 .. Len(chain) - 1 : Reorg(h)
    BY <2>1 DEF MineBlock, Reorg, dbVars, memVars, histVars, Quiet
  <2>2. CASE \E h \in 1 .. MaxHeight, by \in {"clear", "keep"} : UserRewinds(h, by)
    BY <2>2 DEF UserRewinds, Rewound
  <2> QED BY <1>6, <2>1, <2>2 DEF EnvironmentStep, Environment
<1> QED BY <1>2, <1>3, <1>4, <1>5, <1>6 DEF RecoveryNext, Recovery, CycleStep

(* What a rewind does to the tip: either it comes down to just below what is  *)
(* scanned next, or it stays.                                                 *)
LEMMA RewindTip ==
  ASSUME TypeOK, TypeOK', Rewound
  PROVE  /\ pc = "idle" /\ pc' = "rewound" /\ work'.by \in {"clear", "keep"}
         /\ Tip' <= Tip /\ (Tip' = Tip \/ work'.from <= Tip' + 1)
         /\ work'.end = 0
         /\ UNCHANGED <<cache, raw, state, info, didReenhanceAtTip, tried, missed,
                        gaps, misread>>
<1>1. PICK h \in Nat, by \in {"clear", "keep"} : Rewind(h, by)
  BY DEF Rewound
<1>2. PICK target \in NearestRewindHeights(h) :
        /\ scanned' = IF target < LastScanned
                      THEN SubSeq(scanned, 1, Lower(target, Tip)) ELSE scanned
        /\ work' = [by |-> by, next |-> 0, from |-> target + 1, end |-> 0]
  BY <1>1 DEF Rewind
<1>3. target \in Nat /\ Tip \in Nat /\ scanned \in Seq(Block)
  BY <1>1, RewindHeightsType, TipType DEF Rewind, TypeOK, StoreTypeOK
<1>4. Tip' <= Tip /\ (Tip' = Tip \/ target + 1 <= Tip' + 1)
  <2>1. Lower(target, Tip) \in 0 .. Tip /\ Lower(target, Tip) <= target
        /\ (Lower(target, Tip) = Tip \/ Lower(target, Tip) = target)
    BY <1>3 DEF Lower
  <2>2. Len(SubSeq(scanned, 1, Lower(target, Tip))) = Lower(target, Tip)
    BY <1>3, <2>1 DEF Tip
  <2> QED BY <1>2, <1>3, <2>1, <2>2 DEF Tip
<1> QED BY <1>1, <1>2, <1>4 DEF Rewind

(* What a call of scanBlocks does to the tip: it moves up by some blocks of   *)
(* the run above it.                                                          *)
LEMMA ScanTip ==
  ASSUME TypeOK, ScanBatch \/ ScanFails
  PROVE  Tip \in Nat /\ Tip' \in Nat /\ Tip <= Tip'
<1>1. \A n \in 0 .. RunLength : Len(AppendScanned(n)) = Tip + n
  BY AppendScannedType DEF TypeOK
<1>2. Tip \in Nat /\ RunLength \in Nat
  BY TipType, RunLengthType DEF TypeOK
<1>3. \E n \in 0 .. RunLength : scanned' = AppendScanned(n)
  <2>1. RunLength \in 0 .. RunLength
    BY <1>2
  <2>2. ScanFails => \E n \in 0 .. RunLength : scanned' = AppendScanned(n)
    BY DEF ScanFails
  <2> QED BY <2>1, <2>2 DEF ScanBatch
<1> QED BY <1>1, <1>2, <1>3 DEF Tip

----------------------------------------------------------------------------
(* The cache follows what is scanned.                                         *)

Follows == \A h \in CachedAbove(Tip) : h = Tip + 1 \/ h - 1 \in CachedAbove(Tip)

\* Without a known cause of a gap there is none, but while a rewind that moved the
\* tip down has yet to cut the cache; and a download goes on where the cache or
\* the tip ends.
CacheInv ==
  gaps = {} =>
    /\ Follows \/ (pc = "rewound" /\ work.from <= Tip + 1)
    /\ pc = "download" => work.next <= Tip + 1 \/ work.next - 1 \in DOMAIN cache

LEMMA EmptyFollows ==
  ASSUME DOMAIN cache = {}
  PROVE  Follows
  BY DEF Follows, CachedAbove

LEMMA FollowsStays ==
  ASSUME Follows, UNCHANGED cache, Tip' = Tip
  PROVE  Follows'
  BY DEF Follows, CachedAbove

LEMMA FollowsHigher ==
  ASSUME TypeOK, Follows, UNCHANGED cache, Tip' \in Nat, Tip <= Tip'
  PROVE  Follows'
<1>1. Tip \in Nat /\ DOMAIN cache \subseteq Nat
  BY TipType DEF TypeOK, StoreTypeOK
<1>2. SUFFICES ASSUME NEW h \in DOMAIN cache, h > Tip'
               PROVE  h = Tip' + 1 \/ (h - 1 \in DOMAIN cache /\ h - 1 > Tip')
  BY DEF Follows, CachedAbove
<1>3. h = Tip + 1 \/ h - 1 \in DOMAIN cache
  BY <1>1, <1>2 DEF Follows, CachedAbove
<1> QED BY <1>1, <1>2, <1>3

LEMMA DownloadFollows ==
  ASSUME TypeOK, DownloadBatch, CacheInv, gaps = {}
  PROVE  Follows' /\ (pc' = "download" => work'.next - 1 \in DOMAIN cache')
<1>1. /\ Tip \in Nat /\ Tip' = Tip /\ work.next \in Nat /\ BatchEnd \in Nat
      /\ DOMAIN cache \subseteq Nat
      /\ DOMAIN cache' = DOMAIN cache \cup work.next .. BatchEnd
  <2>1. work.next \in Nat /\ work.end \in Nat
    BY WorkType DEF TypeOK
  <2>2. BatchEnd \in Nat
    BY <2>1 DEF BatchEnd, Lower, TypeOK, MemoryTypeOK, DownloadBatch
  <2> QED BY <2>1, <2>2, TipType DEF DownloadBatch, Tip, TypeOK, StoreTypeOK
<1>2. Follows /\ (work.next <= Tip + 1 \/ work.next - 1 \in DOMAIN cache)
  BY DEF CacheInv, DownloadBatch
<1>3. Follows'
  <2>1. SUFFICES ASSUME NEW h \in DOMAIN cache', h > Tip
                 PROVE  h = Tip + 1 \/ (h - 1 \in DOMAIN cache' /\ h - 1 > Tip)
    BY <1>1 DEF Follows, CachedAbove
  <2>2. CASE h \in DOMAIN cache
    BY <1>1, <1>2, <2>1, <2>2 DEF Follows, CachedAbove
  <2>3. CASE h = work.next
    BY <1>1, <1>2, <2>1, <2>3
  <2>4. CASE h \in work.next + 1 .. BatchEnd
    BY <1>1, <2>1, <2>4
  <2> QED BY <1>1, <2>1, <2>2, <2>3, <2>4
<1>4. ASSUME pc' = "download"
      PROVE  work'.next - 1 \in DOMAIN cache'
  <2>1. BatchEnd # work.end
    BY <1>4 DEF DownloadBatch
  <2>2. work.next <= BatchEnd
    BY <1>1, <2>1, WorkType DEF BatchEnd, Lower, TypeOK
  <2>3. work'.next = BatchEnd + 1
    BY WorkUpdate, <1>1 DEF DownloadBatch, TypeOK, MemoryTypeOK, Work
  <2> QED BY <1>1, <2>2, <2>3
<1> QED BY <1>3, <1>4

LEMMA StartFollows ==
  ASSUME TypeOK, TypeOK', NEW tip \in {Tip, info.scanned}, StartDownload(tip), gaps' = {}
  PROVE  work'.next <= Tip + 1 \/ work'.next - 1 \in DOMAIN cache
<1>1. tip \in Height /\ Tip \in Nat
  BY TipType, WorkType DEF TypeOK, Height
<1>2. /\ LastDownloaded \in {0} \cup DOMAIN cache /\ LastDownloaded \in Nat
  BY LastDownloadedType DEF TypeOK
<1>3. work'.next \in Nat /\ work'.next <= Higher(LastDownloaded, Tip) + 1
  <2>1. work'.next \in Nat
    BY DEF TypeOK, MemoryTypeOK, Work
  <2>2. Higher(LastDownloaded, Tip) + 1 \in Nat
    BY <1>1, <1>2 DEF Higher
  <2>3. ~(work'.next > Higher(LastDownloaded, Tip) + 1)
    BY DEF StartDownload
  <2> QED BY <2>1, <2>2, <2>3
<1>4. work'.next >= LastDownloaded + 1
  BY <1>1, <1>2 DEF StartDownload, UpdateRanges, Higher, Height
<1> QED BY <1>1, <1>2, <1>3, <1>4 DEF Higher

LEMMA CacheInvStays ==
  ASSUME CacheInv, pc # "rewound", pc' # "download", UNCHANGED <<cache, gaps>>,
         Tip' = Tip
  PROVE  CacheInv'
  BY FollowsStays DEF CacheInv

LEMMA CacheInvCycle ==
  ASSUME TypeOK, TypeOK', CacheInv, Cycle
  PROVE  CacheInv'
<1>1. CASE \E tip \in {Tip, info.scanned} : NoBlocksToProcess(tip) \/ ScanWhatIsCached(tip)
  <2>1. pc = "idle" /\ pc' # "download" /\ UNCHANGED <<cache, gaps>> /\ Tip' = Tip
    BY <1>1 DEF NoBlocksToProcess, ScanWhatIsCached, UpdateRanges, dbVars, Tip
  <2> QED BY <2>1, CacheInvStays
<1>2. CASE \E tip \in {Tip, info.scanned} : StartDownload(tip)
  <2>1. PICK tip \in {Tip, info.scanned} : StartDownload(tip)
    BY <1>2
  <2>2. pc = "idle" /\ UNCHANGED cache /\ Tip' = Tip /\ (gaps' = {} => gaps = {})
    BY <2>1 DEF StartDownload, UpdateRanges, dbVars, Tip
  <2>3. gaps' = {} => work'.next <= Tip + 1 \/ work'.next - 1 \in DOMAIN cache
    BY <2>1, StartFollows
  <2> QED BY <2>2, <2>3, FollowsStays DEF CacheInv
<1>3. CASE DownloadBatch
  BY <1>3, DownloadFollows DEF CacheInv, DownloadBatch, histVars
<1>4. CASE ScanBatch \/ ScanFails
  <2>1. pc = "scan" /\ pc' # "download" /\ UNCHANGED <<cache, gaps>>
    BY <1>4 DEF ScanBatch, ScanFails
  <2> QED BY <1>4, <2>1, ScanTip, FollowsHigher DEF CacheInv
<1>5. CASE ClearCache
  <2>1. DOMAIN cache' = {} /\ pc' # "download"
    BY <1>5, NoBlocksType DEF ClearCache
  <2>2. Follows'
    BY <2>1 DEF Follows, CachedAbove
  <2> QED BY <2>1, <2>2 DEF CacheInv
<1>6. CASE DownloadFails \/ ScanNothing \/ EnhanceTransactionDetails \/ ValidateNewBlocks
  <2>1. pc # "rewound" /\ pc' # "download" /\ UNCHANGED <<cache, gaps>> /\ Tip' = Tip
    BY <1>6 DEF DownloadFails, ScanNothing, EnhanceTransactionDetails,
                ValidateNewBlocks, dbVars, histVars, Tip
  <2> QED BY <2>1, CacheInvStays
<1>7. CASE RewindClearsCache
  <2>1. /\ pc = "rewound" /\ pc' = "idle" /\ UNCHANGED gaps /\ Tip' = Tip
        /\ DOMAIN cache' = {h \in DOMAIN cache : h <= work.from - 1}
    BY <1>7 DEF RewindClearsCache, RewindCacheTo, Restrict, histVars, Tip
  <2>2. Tip \in Nat /\ work.from \in Nat /\ DOMAIN cache \subseteq Nat
    BY TipType, WorkType DEF TypeOK, StoreTypeOK
  <2>3. SUFFICES ASSUME gaps = {}, NEW h \in DOMAIN cache', h > Tip
                 PROVE  h = Tip + 1 \/ (h - 1 \in DOMAIN cache' /\ h - 1 > Tip)
    BY <2>1 DEF CacheInv, Follows, CachedAbove
  <2>4. CASE Follows
    BY <2>1, <2>2, <2>3, <2>4 DEF Follows, CachedAbove
  <2>5. CASE work.from <= Tip + 1
    BY <2>1, <2>2, <2>3, <2>5
  <2> QED BY <2>1, <2>3, <2>4, <2>5 DEF CacheInv
<1>8. CASE RewindKeepsCache
  BY <1>8 DEF RewindKeepsCache, CacheInv
<1> QED BY <1>1, <1>2, <1>3, <1>4, <1>5, <1>6, <1>7, <1>8 DEF Cycle

LEMMA CacheInvStep ==
  ASSUME TypeOK, TypeOK', CacheInv, [RecoveryNext]_allVars
  PROVE  CacheInv'
<1>1. CASE Quiet
  BY <1>1, FollowsStays DEF Quiet, CacheInv, Tip
<1>2. CASE Cycle
  BY <1>2, CacheInvCycle
<1>3. CASE Disconnected
  BY <1>3, CacheInvStays DEF Disconnected, dbVars, Tip
<1>4. CASE Rewound
  <2>1. /\ pc = "idle" /\ pc' = "rewound" /\ UNCHANGED <<cache, gaps>>
        /\ Tip' = Tip \/ work'.from <= Tip' + 1
    BY <1>4, RewindTip
  <2> QED BY <2>1, FollowsStays DEF CacheInv
<1>5. CASE Stopped
  <2>1. pc' = "idle"
    BY <1>5 DEF Stopped, Restart
  <2>2. CASE Erased
    <3>1. DOMAIN cache' = {}
      BY <2>2, NoBlocksType DEF Erased
    <3> QED BY <2>1, <3>1 DEF CacheInv, Follows, CachedAbove
  <2>3. CASE Killed
    BY <2>1, <2>3, FollowsStays DEF Killed, CacheInv, Tip
  <2> QED BY <1>5, <2>2, <2>3 DEF Stopped
<1> QED BY <1>1, <1>2, <1>3, <1>4, <1>5, StepCases

(* The blocks that wait in the cache follow the tip without a gap, whatever   *)
(* failed downloads, crashes, reorganisations, clearing rewinds and wipes     *)
(* came before, unless a step that is named in gaps may have opened one.      *)
THEOREM CacheFollows == RecoverySpec => []CacheFollowsScan
<1>1. RecoveryInit => CacheInv
  BY NoBlocksType DEF RecoveryInit, Init, CacheInv, Follows, CachedAbove
<1>2. TypeOK /\ TypeOK' /\ CacheInv /\ [RecoveryNext]_allVars => CacheInv'
  BY CacheInvStep
<1>3. CacheInv => CacheFollowsScan
  BY DEF CacheInv, Follows, CacheFollowsScan
<1> QED BY <1>1, <1>2, <1>3, TypeCorrect, PTL DEF RecoverySpec

(* What CacheFollowsScan is for: a cache without gaps is scanned to its end,  *)
(* so that only a failure of the database itself can fail a scan, and the     *)
(* recovery by a rewind answers the named causes and nothing else.            *)
ScansToTheEnd == gaps = {} /\ pc = "scan" => ~Discontinuous

LEMMA FollowsScans ==
  ASSUME TypeOK, Follows
  PROVE  ~Discontinuous
<1>1. /\ Tip \in Nat /\ RunLength \in 0 .. ScanBatchSize /\ Sequential(RunLength)
      /\ RunLength < ScanBatchSize => ~Sequential(RunLength + 1)
      /\ DOMAIN cache \subseteq Nat
  BY TipType, RunLengthType DEF TypeOK, StoreTypeOK
<1>2. SUFFICES ASSUME RunLength < ScanBatchSize, CachedAbove(Tip + RunLength) # {}
               PROVE  FALSE
  BY DEF Discontinuous
<1>3. PICK k \in CachedAbove(Tip + RunLength) :
        \A j \in CachedAbove(Tip + RunLength) : k <= j
  <2>1. CachedAbove(Tip + RunLength) \in SUBSET Nat
    BY <1>1 DEF CachedAbove
  <2> QED BY <1>2, <2>1, Least
<1>4. Tip + RunLength + 1 \notin DOMAIN cache
  BY <1>1, <1>2 DEF Sequential
<1>5. k \in DOMAIN cache /\ k > Tip + RunLength + 1
  BY <1>1, <1>3, <1>4 DEF CachedAbove
<1>6. k - 1 \in CachedAbove(Tip + RunLength)
  BY <1>1, <1>5 DEF Follows, CachedAbove
<1>7. k <= k - 1
  BY <1>3, <1>6
<1> QED BY <1>1, <1>5, <1>7

(* Without a named cause of a gap no scan throws for a discontinuity.         *)
THEOREM ScanNeverThrows == RecoverySpec => []ScansToTheEnd
<1>1. RecoveryInit => CacheInv
  BY NoBlocksType DEF RecoveryInit, Init, CacheInv, Follows, CachedAbove
<1>2. TypeOK /\ TypeOK' /\ CacheInv /\ [RecoveryNext]_allVars => CacheInv'
  BY CacheInvStep
<1>3. TypeOK /\ CacheInv => ScansToTheEnd
  BY FollowsScans DEF CacheInv, ScansToTheEnd
<1> QED BY <1>1, <1>2, <1>3, TypeCorrect, PTL DEF RecoverySpec

----------------------------------------------------------------------------
(* What is shown as synced is scanned.                                        *)

\* The cycle of the loop, with the tip read correctly.
InCycle(holders) == pc \in holders /\ work.by = "loop" /\ ~misread

HolderInv ==
  /\ pc \in {"download", "failedDownload", "failedScan"} => work.by = "loop"
  /\ pc = "validate" => work.by = "keep"
  /\ work.by = "clear" => pc \in {"idle", "rewound"}
  /\ work.by = "clear" /\ pc = "idle" => state # "Scanned"
  /\ pc = "rewound" => work.end = 0
  /\ pc \in {"download", "scan", "failedDownload", "failedScan"} => state # "Scanned"

\* What a cycle knows: the range it scans ends at the height the server reported,
\* and once the download is over the range is in the cache or below the tip.
RangeInv ==
  /\ pc = "download" => work.next <= work.end
  /\ InCycle({"download", "scan", "clear"}) =>
       work.from <= work.end /\ work.end = info.net
  /\ InCycle({"download", "scan"}) => info.scanned = Tip
  /\ InCycle({"scan"}) => Tip >= work.end \/ \E k \in DOMAIN cache : k >= work.end

\* What a rescan of the kept cache knows: it starts where the rewind ended, and
\* the height it publishes is the tip or, before the first batch, that start.
KeepInv ==
  work.by = "keep" =>
    /\ pc = "validate" => work.from <= work.end /\ info.scanned = work.from - 1
    /\ pc = "scan" => work.from <= work.end /\ info.scanned \in {Tip, work.from - 1}

SyncInv == HolderInv /\ RangeInv /\ KeepInv /\ SyncedMeansScanned

LEMMA StartSync ==
  ASSUME TypeOK, TypeOK', NEW tip \in {Tip, info.scanned},
         NoBlocksToProcess(tip) \/ ScanWhatIsCached(tip) \/ StartDownload(tip)
  PROVE  SyncInv'
<1>1. /\ info' = [net |-> Len(chain), scanned |-> tip]
      /\ work'.by = "loop" /\ work'.end = Len(chain)
      /\ work'.next = IF tip = None THEN LastDownloaded + 1
                                    ELSE Higher(LastDownloaded, tip) + 1
      /\ work'.from = IF tip = None THEN Len(chain) + 1 ELSE tip + 1
      /\ ~misread' => tip = Tip
      /\ Tip' = Tip /\ cache' = cache
  <2>1. UpdateRanges(tip) /\ UNCHANGED <<cache, scanned>>
    BY DEF NoBlocksToProcess, ScanWhatIsCached, StartDownload, dbVars
  <2>2. misread' = (tip # Tip)
    BY <2>1 DEF UpdateRanges
  <2>3. ~misread' => tip = Tip
    BY <2>2, Zenon
  <2> QED BY <2>1, <2>3 DEF UpdateRanges, Tip
<1>2. /\ Tip \in Nat /\ Len(chain) \in Nat /\ LastDownloaded \in Nat
      /\ LastDownloaded \in {0} \cup DOMAIN cache /\ DOMAIN cache \subseteq Nat
  BY TipType, LastDownloadedType DEF TypeOK, StoreTypeOK
<1>3. tip = Tip => /\ work'.from = Tip + 1
                   /\ work'.next = Higher(LastDownloaded, Tip) + 1
  BY <1>1, <1>2
<1>4. CASE NoBlocksToProcess(tip)
  <2>1. pc' = "idle" /\ work'.from > work'.end
    BY <1>4 DEF NoBlocksToProcess, UpdateRanges
  <2>2. ~misread' => Tip' >= info'.net
    BY <1>1, <1>2, <1>3, <2>1
  <2> QED BY <1>1, <2>1, <2>2
          DEF SyncInv, HolderInv, RangeInv, KeepInv, InCycle,
              SyncedMeansScanned
<1>5. CASE ScanWhatIsCached(tip)
  <2>1. /\ pc' = "scan" /\ state' = "Scanning"
        /\ work'.next > work'.end /\ work'.from <= work'.end
    BY <1>5 DEF ScanWhatIsCached
  <2>2. ASSUME ~misread'
        PROVE  Tip' >= work'.end \/ \E k \in DOMAIN cache' : k >= work'.end
    <3>1. LastDownloaded >= Len(chain) \/ Tip >= Len(chain)
      BY <1>1, <1>2, <1>3, <2>1, <2>2 DEF Higher
    <3>2. Len(chain) > 0
      BY <1>1, <1>2, <1>3, <2>1, <2>2
    <3> QED BY <1>1, <1>2, <3>1, <3>2
  <2> QED BY <1>1, <2>1, <2>2
          DEF SyncInv, HolderInv, RangeInv, KeepInv, InCycle,
              SyncedMeansScanned
<1>6. CASE StartDownload(tip)
  <2>1. pc' = "download" /\ state' = "Downloading" /\ work'.next <= work'.end
    BY <1>6 DEF StartDownload
  <2>2. ~misread' => work'.from <= work'.end
    BY <1>1, <1>2, <1>3, <2>1 DEF Higher
  <2> QED BY <1>1, <2>1, <2>2
          DEF SyncInv, HolderInv, RangeInv, KeepInv, InCycle,
              SyncedMeansScanned
<1> QED BY <1>4, <1>5, <1>6

LEMMA DownloadSync ==
  ASSUME TypeOK, SyncInv, DownloadBatch
  PROVE  SyncInv'
<1>1. /\ pc = "download" /\ state # "Scanned" /\ work.by = "loop"
      /\ work.next <= work.end
      /\ ~misread => work.from <= work.end /\ work.end = info.net /\ info.scanned = Tip
  BY DEF DownloadBatch, SyncInv, HolderInv, RangeInv, InCycle
<1>2. /\ work.next \in Nat /\ work.end \in Nat /\ BatchEnd \in Nat
      /\ BatchEnd <= work.end
  <2>1. work.next \in Nat /\ work.end \in Nat
    BY WorkType DEF TypeOK
  <2> QED BY <2>1 DEF BatchEnd, Lower
<1>3. /\ work'.next = BatchEnd + 1 /\ work'.by = work.by /\ work'.end = work.end
      /\ work'.from = work.from
  BY DEF DownloadBatch, TypeOK, MemoryTypeOK, Work
<1>4. UNCHANGED <<info, misread>> /\ Tip' = Tip
  BY DEF DownloadBatch, histVars, Tip
<1>5. CASE BatchEnd = work.end
  <2>1. pc' = "scan" /\ state' = "Scanning"
    BY <1>5 DEF DownloadBatch
  <2>2. work.end \in DOMAIN cache'
    BY <1>1, <1>2, <1>5 DEF DownloadBatch
  <2>3. \E k \in DOMAIN cache' : k >= work'.end
    BY <1>2, <1>3, <2>2
  <2> QED BY <1>1, <1>3, <1>4, <2>1, <2>3
          DEF SyncInv, HolderInv, RangeInv, KeepInv, InCycle,
              SyncedMeansScanned
<1>6. CASE BatchEnd # work.end
  <2>1. pc' = "download" /\ state' # "Scanned"
    BY <1>1, <1>6 DEF DownloadBatch
  <2>2. work'.next <= work'.end
    BY <1>2, <1>3, <1>6
  <2> QED BY <1>1, <1>3, <1>4, <2>1, <2>2
          DEF SyncInv, HolderInv, RangeInv, KeepInv, InCycle,
              SyncedMeansScanned
<1> QED BY <1>5, <1>6

LEMMA ScanSync ==
  ASSUME TypeOK, SyncInv, ScanBatch
  PROVE  SyncInv'
<1> DEFINE tip == Tip + RunLength
<1>1. /\ Tip \in Nat /\ RunLength \in 0 .. ScanBatchSize /\ Tip' = tip
      /\ DOMAIN cache \subseteq Nat /\ work.end \in Nat
  <2>1. Tip \in Nat /\ RunLength \in 0 .. ScanBatchSize
    BY TipType, RunLengthType DEF TypeOK
  <2>2. Len(AppendScanned(RunLength)) = Tip + RunLength
    BY <2>1, AppendScannedType DEF TypeOK
  <2> QED BY <2>1, <2>2, WorkType DEF ScanBatch, Tip, TypeOK, StoreTypeOK
<1>2. pc = "scan" /\ state # "Scanned" /\ work.by \in {"loop", "keep"}
      /\ UNCHANGED <<cache, work>>
  BY WorkType DEF ScanBatch, TypeOK, SyncInv, HolderInv
<1>3. CASE Fault /\ misread' = TRUE /\ pc' = "clear"
  BY <1>2, <1>3 DEF SyncInv, HolderInv, RangeInv, KeepInv, InCycle,
     SyncedMeansScanned
<1>4. CASE /\ info' = [info EXCEPT !.scanned = tip] /\ UNCHANGED misread
           /\ IF MoreToScan(tip) THEN UNCHANGED <<pc, state>>
                                 ELSE pc' = "clear" /\ state' = "Scanned"
  <2>1. info'.net = info.net /\ info'.scanned = tip
    BY <1>4 DEF TypeOK, MemoryTypeOK
  <2>2. ASSUME work.by = "loop", ~misread
        PROVE  /\ work.from <= work.end /\ work.end = info.net /\ info.scanned = Tip
               /\ Tip >= work.end \/ \E k \in DOMAIN cache : k >= work.end
    BY <1>2, <2>2 DEF SyncInv, RangeInv, InCycle
  <2>3. CASE MoreToScan(tip)
    <3>1. state' # "Scanned" /\ pc' = "scan"
      BY <1>2, <1>4, <2>3
    <3> QED BY <3>1, <1>1, <1>2, <1>4, <2>1, <2>2, <2>3
       DEF SyncInv, HolderInv, RangeInv, KeepInv, InCycle,
           SyncedMeansScanned
  <2>4. CASE ~MoreToScan(tip)
    <3>1. ASSUME work.by = "loop", ~misread
          PROVE  tip >= work.end
      <4>1. CASE tip >= work.end
        BY <4>1
      <4>2. CASE info.scanned = tip
        <5>1. RunLength = 0
          BY <1>1, <2>2, <3>1, <4>2
        <5>2. CachedAbove(Tip) = {}
          BY <1>1, <5>1 DEF ScanBatch, Discontinuous
        <5> QED BY <1>1, <2>2, <3>1, <5>2 DEF CachedAbove
      <4> QED BY <1>1, <2>4, <4>1, <4>2 DEF MoreToScan
    <3>2. ASSUME work.by = "keep", ~misread
          PROVE  \/ tip >= work.end \/ CachedAbove(tip) = {} \/ tip = work.from - 1
      <4>1. info.scanned \in {Tip, work.from - 1}
        BY <1>2, <3>2 DEF SyncInv, KeepInv
      <4>2. CASE tip = Tip
        <5>1. RunLength = 0
          BY <1>1, <4>2
        <5> QED BY <1>1, <4>2, <5>1 DEF ScanBatch, Discontinuous
      <4> QED BY <1>1, <2>4, <4>1, <4>2 DEF MoreToScan
    <3>3. CachedAbove(Tip)' = CachedAbove(tip)
      BY <1>1, <1>2 DEF CachedAbove
    <3> QED BY <1>1, <1>2, <1>4, <2>1, <2>2, <2>4, <3>1, <3>2, <3>3
            DEF SyncInv, HolderInv, RangeInv, KeepInv, InCycle,
                SyncedMeansScanned
  <2> QED BY <2>3, <2>4
<1> QED BY <1>3, <1>4 DEF ScanBatch

LEMMA CycleSync ==
  ASSUME TypeOK, TypeOK', SyncInv, Cycle
  PROVE  SyncInv'
<1> USE DEF SyncInv, HolderInv, RangeInv, KeepInv, InCycle, SyncedMeansScanned
<1>1. CASE DownloadFails
  <2>1. Tip' = Tip
    BY <1>1 DEF DownloadFails, dbVars, Tip
  <2> QED BY <1>1, <2>1 DEF DownloadFails, dbVars
<1>2. CASE ScanNothing
  <2>1. Tip' = Tip /\ pc = "scan" /\ pc' = "clear" /\ UNCHANGED <<info, work, misread>>
        /\ ~(work.from <= work.end) /\ work.by = "loop"
    BY <1>2, WorkType DEF ScanNothing, dbVars, histVars, Tip, TypeOK
  <2> QED BY <2>1
<1>3. CASE ScanFails
  BY <1>3 DEF ScanFails
<1>4. CASE ClearCache
  <2>1. /\ Tip' = Tip /\ pc = "clear" /\ pc' \in {"enhance", "idle"}
        /\ UNCHANGED <<info, work, misread, state>>
    BY <1>4 DEF ClearCache, Tip
  <2>2. CachedAbove(Tip)' = {}
    BY <1>4, NoBlocksType DEF ClearCache, CachedAbove
  <2> QED BY <2>1, <2>2
<1>5. CASE EnhanceTransactionDetails
  BY <1>5 DEF EnhanceTransactionDetails
<1>6. CASE RewindClearsCache
  BY <1>6 DEF RewindClearsCache
<1>7. CASE RewindKeepsCache
  <2>1. /\ pc' \in {"idle", "validate"} /\ work'.by = "keep" /\ work'.from = work.from
        /\ info'.scanned = work.from - 1
    BY <1>7 DEF RewindKeepsCache, TypeOK, MemoryTypeOK, Work
  <2>2. CASE info.scanned = None
    <3>1. pc' = "idle" /\ UNCHANGED <<work, state>> /\ Tip' = Tip
      BY <1>7, <2>2 DEF RewindKeepsCache, dbVars, Tip
    <3>2. work.end = 0
      BY <1>7 DEF RewindKeepsCache
    <3>3. Tip >= 0
      BY TipType DEF TypeOK
    <3> QED BY <2>1, <3>1, <3>2, <3>3
  <2>3. CASE info.scanned # None
    <3>1. /\ state' = "Validating" /\ work'.end = info.scanned
          /\ pc' = "validate" => work'.from <= work'.end
      BY <1>7, <2>3 DEF RewindKeepsCache, TypeOK, MemoryTypeOK, Work
    <3> QED BY <2>1, <3>1
  <2> QED BY <2>2, <2>3
<1>8. CASE ValidateNewBlocks
  <2>1. /\ pc = "validate" /\ work.by = "keep" /\ UNCHANGED <<work, info, misread>>
        /\ Tip' = Tip /\ cache' = cache /\ pc' \in {"idle", "scan"}
        /\ pc' = "scan" => state' = "Scanning"
        /\ pc' = "idle" => state' = state
    BY <1>8 DEF ValidateNewBlocks, dbVars, histVars, Tip
  <2> QED BY <2>1 DEF CachedAbove
<1> QED BY <1>1, <1>2, <1>3, <1>4, <1>5, <1>6, <1>7, <1>8,
           StartSync, DownloadSync, ScanSync DEF Cycle

LEMMA SyncInvStep ==
  ASSUME TypeOK, TypeOK', SyncInv, [RecoveryNext]_allVars
  PROVE  SyncInv'
<1> USE DEF SyncInv, HolderInv, RangeInv, KeepInv, InCycle, SyncedMeansScanned
<1>1. CASE Quiet
  BY <1>1 DEF Quiet, Tip, CachedAbove
<1>2. CASE Disconnected
  BY <1>2 DEF Disconnected
<1>3. CASE Rewound
  BY <1>3, RewindTip
<1>4. CASE Stopped
  BY <1>4 DEF Stopped, Restart, NoWork
<1> QED BY <1>1, <1>2, <1>3, <1>4, CycleSync, StepCases

(* What is shown as SYNCED after a cycle of the loop is scanned up to the     *)
(* height the server last reported.  After a rewind that keeps the cache it   *)
(* is scanned only to the end of the rescan, or of what was cached, or not    *)
(* above the rewind.  Not covered are the moment in which a rewind has cut    *)
(* the data DB and not yet reported it, and a cycle or rescan in which the    *)
(* scanned height could not be read, so that an old one was taken for it.     *)
THEOREM SyncedIsScanned == RecoverySpec => []SyncedMeansScanned
<1>1. RecoveryInit => SyncInv
  BY DEF RecoveryInit, Init, NoWork, SyncInv, HolderInv, RangeInv, KeepInv, InCycle,
         SyncedMeansScanned
<1>2. TypeOK /\ TypeOK' /\ SyncInv /\ [RecoveryNext]_allVars => SyncInv'
  BY SyncInvStep
<1>3. SyncInv => SyncedMeansScanned
  BY DEF SyncInv
<1> QED BY <1>1, <1>2, <1>3, TypeCorrect, PTL DEF RecoverySpec

----------------------------------------------------------------------------
(* The details of what was scanned are asked for.                             *)

AllAsked == TxHeights \cap 1 .. Tip \subseteq raw \cup tried \cup missed

\* While the catch-up pass is marked as done it has left out nothing but what is
\* named in missed; a cycle arms it again before it scans, and has no range to scan
\* only without a scanned height; resting at the tip the pass is done.
EnhanceInv ==
  /\ didReenhanceAtTip => AllAsked
  /\ work.by = "loop" /\ pc \in {"download", "scan"} => ~didReenhanceAtTip
  /\ work.by = "loop" /\ pc \in {"download", "scan", "clear"} /\ work.from > work.end =>
       info.scanned = None
  /\ work.by = "loop" /\ pc = "idle" /\ state = "Scanned" =>
       didReenhanceAtTip \/ info.scanned = None

LEMMA AskedStays ==
  ASSUME TypeOK, TypeOK', AllAsked, Tip' <= Tip,
         raw \subseteq raw', tried \subseteq tried', missed' = missed
  PROVE  AllAsked'
<1>1. Tip \in Nat /\ Tip' \in Nat
  BY TipType DEF TypeOK, StoreTypeOK, Tip
<1>2. 1 .. Tip' \subseteq 1 .. Tip
  BY <1>1
<1> QED BY <1>2 DEF AllAsked

(* A batch of the rescan is named in missed as far as it was committed.       *)
LEMMA RescanAsked ==
  ASSUME TypeOK, AllAsked, work.by = "keep", NEW n \in 0 .. RunLength,
         scanned' = AppendScanned(n), RescanMisses(n), UNCHANGED <<raw, tried>>
  PROVE  AllAsked'
<1>1. Tip \in Nat /\ Tip' = Tip + n /\ n \in Nat
  <2>1. RunLength \in Nat
    BY RunLengthType DEF TypeOK
  <2> QED BY <2>1, TipType, AppendScannedType DEF TypeOK, Tip
<1>2. 1 .. Tip' \subseteq (1 .. Tip) \cup (Tip + 1 .. Tip + n)
  BY <1>1
<1>3. missed' = missed \cup (TxHeights \cap Tip + 1 .. Tip + n)
  BY DEF RescanMisses
<1> QED BY <1>2, <1>3 DEF AllAsked

LEMMA StartEnhance ==
  ASSUME TypeOK, TypeOK', EnhanceInv, NEW tip \in {Tip, info.scanned},
         NoBlocksToProcess(tip) \/ ScanWhatIsCached(tip) \/ StartDownload(tip)
  PROVE  EnhanceInv'
<1>1. CASE NoBlocksToProcess(tip)
  <2>1. pc = "idle" /\ pc' = "idle" /\ didReenhanceAtTip' = TRUE /\ Tip' = Tip
    BY <1>1 DEF NoBlocksToProcess, UpdateRanges, Tip
  <2>2. CASE Enhance(Unenhanced) /\ missed' = {}
    BY <2>1, <2>2 DEF Enhance, Unenhanced, EnhanceInv, AllAsked
  <2>3. CASE missed' = Unenhanced /\ UNCHANGED <<raw, tried>>
    BY <2>1, <2>3 DEF Unenhanced, EnhanceInv, AllAsked
  <2>4. CASE didReenhanceAtTip /\ UNCHANGED <<raw, tried, missed>>
    BY <2>1, <2>4, Zenon DEF EnhanceInv, AllAsked
  <2> QED BY <1>1, <2>2, <2>3, <2>4, Zenon DEF NoBlocksToProcess, CatchUp
<1>2. CASE ScanWhatIsCached(tip) \/ StartDownload(tip)
  <2>1. pc' \in {"download", "scan"} /\ ~didReenhanceAtTip'
    BY <1>2 DEF ScanWhatIsCached, StartDownload, Rearm
  <2>2. /\ info' = [net |-> Len(chain), scanned |-> tip]
        /\ work'.end = Len(chain)
        /\ work'.next = IF tip = None THEN LastDownloaded + 1
                                      ELSE Higher(LastDownloaded, tip) + 1
        /\ work'.from = IF tip = None THEN Len(chain) + 1 ELSE tip + 1
        /\ work'.next <= work'.end \/ work'.from <= work'.end
    BY <1>2 DEF ScanWhatIsCached, StartDownload, UpdateRanges
  <2>3. Len(chain) \in Nat /\ LastDownloaded \in Nat /\ (tip = None \/ tip \in Nat)
    BY TipType, WorkType, LastDownloadedType DEF TypeOK, StoreTypeOK, Height
  <2>4. tip = None \/ work'.from <= work'.end
    BY <2>2, <2>3 DEF Higher
  <2>5. work'.from > work'.end => info'.scanned = None
    BY <2>2, <2>3, <2>4
  <2> QED BY <2>1, <2>5 DEF EnhanceInv
<1> QED BY <1>1, <1>2

\* A step that scans nothing, arms nothing and forgets nothing.
LEMMA EnhanceInvStays ==
  ASSUME TypeOK, TypeOK', EnhanceInv, UNCHANGED <<didReenhanceAtTip, missed>>,
         Tip' <= Tip, raw \subseteq raw', tried \subseteq tried',
         pc' \notin {"download", "scan", "clear"},
         pc' = "idle" /\ state' = "Scanned" /\ work'.by = "loop" =>
           didReenhanceAtTip' \/ info'.scanned = None
  PROVE  EnhanceInv'
  BY AskedStays, Zenon DEF EnhanceInv

LEMMA CycleEnhance ==
  ASSUME TypeOK, TypeOK', SyncInv, EnhanceInv, Cycle
  PROVE  EnhanceInv'
<1>1. Tip \in Nat
  BY TipType DEF TypeOK
<1>2. CASE DownloadBatch
  <2>1. /\ UNCHANGED <<scanned, raw, didReenhanceAtTip, tried, missed, info>>
        /\ pc = "download" /\ pc' \in {"download", "scan"}
        /\ work'.by = work.by /\ work'.from = work.from /\ work'.end = work.end
    BY <1>2 DEF DownloadBatch, histVars, TypeOK, MemoryTypeOK, Work
  <2>2. AllAsked => AllAsked'
    BY <2>1 DEF AllAsked, Tip
  <2> QED BY <2>1, <2>2, Zenon DEF EnhanceInv
<1>3. CASE DownloadFails
  <2>1. /\ UNCHANGED <<scanned, raw, didReenhanceAtTip, tried, missed>>
        /\ pc' = "failedDownload"
    BY <1>3 DEF DownloadFails, dbVars
  <2> QED BY <1>1, <2>1, EnhanceInvStays DEF Tip
<1>4. CASE ScanBatch \/ ScanFails
  <2>1. /\ UNCHANGED <<raw, tried, work, didReenhanceAtTip>>
        /\ pc = "scan" /\ work.from <= work.end
        /\ pc' = "idle" => state' # "Scanned"
        /\ pc' # "download"
    BY <1>4 DEF ScanBatch, ScanFails, SyncInv, HolderInv
  <2>2. PICK n \in 0 .. RunLength : scanned' = AppendScanned(n) /\ RescanMisses(n)
    <3>1. RunLength \in 0 .. RunLength
      BY RunLengthType DEF TypeOK
    <3>2. CASE ScanBatch
      BY <3>1, <3>2 DEF ScanBatch
    <3>3. CASE ScanFails
      BY <3>3 DEF ScanFails
    <3> QED BY <1>4, <3>2, <3>3
  <2>3. work.from \in Nat /\ work.end \in Nat /\ work.by \in {"loop", "keep"}
    BY <2>1, WorkType DEF TypeOK, SyncInv, HolderInv
  <2>4. ~(work'.from > work'.end)
    BY <2>1, <2>3
  <2>5. CASE work.by = "loop"
    BY <2>1, <2>4, <2>5 DEF EnhanceInv
  <2>6. CASE work.by = "keep"
    <3>1. didReenhanceAtTip => AllAsked'
      BY <2>1, <2>2, <2>6, RescanAsked DEF EnhanceInv
    <3> QED BY <2>1, <2>6, <3>1 DEF EnhanceInv
  <2> QED BY <2>3, <2>5, <2>6
<1>5. CASE ScanNothing
  <2>1. /\ UNCHANGED <<scanned, raw, didReenhanceAtTip, tried, missed, info, work>>
        /\ pc = "scan" /\ pc' = "clear"
    BY <1>5 DEF ScanNothing, dbVars, histVars
  <2>2. AllAsked => AllAsked'
    BY <2>1 DEF AllAsked, Tip
  <2> QED BY <2>1, <2>2, Zenon DEF EnhanceInv
<1>6. CASE ClearCache
  <2>1. /\ UNCHANGED <<scanned, raw, work, info, didReenhanceAtTip, tried, missed>>
        /\ pc = "clear" /\ pc' \in {"idle", "enhance"}
        /\ pc' = "idle" => ~(work.from <= work.end)
    BY <1>6 DEF ClearCache
  <2>2. work.from \in Nat /\ work.end \in Nat
    BY WorkType DEF TypeOK
  <2>3. pc' = "idle" /\ work'.by = "loop" => info'.scanned = None
    BY <2>1, <2>2 DEF EnhanceInv
  <2> QED BY <1>1, <2>1, <2>3, EnhanceInvStays DEF Tip
<1>7. CASE EnhanceTransactionDetails
  <2>1. /\ UNCHANGED <<scanned, didReenhanceAtTip, missed>>
        /\ pc' = "idle" /\ state' = "Enhancing"
        /\ raw \subseteq raw' /\ tried \subseteq tried'
    BY <1>7 DEF EnhanceTransactionDetails, Enhance
  <2> QED BY <1>1, <2>1, EnhanceInvStays DEF Tip
<1>8. CASE RewindClearsCache
  <2>1. /\ UNCHANGED <<scanned, raw, didReenhanceAtTip, tried, missed>>
        /\ pc' = "idle" /\ state' = "Downloading"
    BY <1>8 DEF RewindClearsCache, histVars
  <2> QED BY <1>1, <2>1, EnhanceInvStays DEF Tip
<1>9. CASE RewindKeepsCache
  <2>1. /\ UNCHANGED <<scanned, raw, didReenhanceAtTip, tried, missed>>
        /\ work'.by = "keep" /\ pc' \in {"idle", "validate"}
    BY <1>9 DEF RewindKeepsCache, dbVars, TypeOK, MemoryTypeOK, Work
  <2> QED BY <1>1, <2>1, EnhanceInvStays DEF Tip
<1>10. CASE ValidateNewBlocks
  <2>1. /\ UNCHANGED <<scanned, raw, work, didReenhanceAtTip, tried, missed>>
        /\ work'.by = "keep"
    BY <1>10 DEF ValidateNewBlocks, dbVars, histVars, SyncInv, HolderInv
  <2>2. AllAsked => AllAsked'
    BY <2>1 DEF AllAsked, Tip
  <2> QED BY <2>1, <2>2 DEF EnhanceInv
<1> QED BY <1>2, <1>3, <1>4, <1>5, <1>6, <1>7, <1>8, <1>9, <1>10, StartEnhance DEF Cycle

LEMMA EnhanceInvStep ==
  ASSUME TypeOK, TypeOK', SyncInv, EnhanceInv, [RecoveryNext]_allVars
  PROVE  EnhanceInv'
<1>1. Tip \in Nat
  BY TipType DEF TypeOK
<1>2. CASE Quiet
  <2>1. UNCHANGED <<scanned, raw, state, info, work, didReenhanceAtTip, tried, missed>>
    BY <1>2 DEF Quiet
  <2>2. AllAsked => AllAsked'
    BY <2>1 DEF AllAsked, Tip
  <2>3. pc' = pc \/ (pc' = "idle" /\ state # "Scanned")
    BY <1>2 DEF Quiet, SyncInv, HolderInv
  <2> QED BY <2>1, <2>2, <2>3 DEF EnhanceInv
<1>3. CASE Disconnected
  <2>1. /\ UNCHANGED <<scanned, raw, pc, didReenhanceAtTip, tried, missed>>
        /\ pc = "idle" /\ state' = "Disconnected"
    BY <1>3 DEF Disconnected, dbVars
  <2> QED BY <1>1, <2>1, EnhanceInvStays DEF Tip
<1>4. CASE Rewound
  <2>1. /\ UNCHANGED <<raw, didReenhanceAtTip, tried, missed>>
        /\ pc' = "rewound" /\ Tip' <= Tip
    BY <1>4, RewindTip
  <2> QED BY <2>1, EnhanceInvStays
<1>5. CASE Stopped
  BY <1>5 DEF Stopped, Restart, EnhanceInv
<1> QED BY <1>2, <1>3, <1>4, <1>5, CycleEnhance, StepCases

(* While the catch-up pass counts as done, every transaction the wallet has   *)
(* scanned was fetched or asked for, whatever cut the pass after its scan     *)
(* short, but for those that a failed query of the catch-up pass did not find *)
(* or that a rescan of the kept cache brought after it; and a cycle that ends *)
(* at the tip has made the pass, unless it had no scanned height.             *)
THEOREM CatchUpAsks == RecoverySpec => []CatchUpEnhances
<1>1. RecoveryInit => SyncInv /\ EnhanceInv
  BY DEF RecoveryInit, Init, NoWork, SyncInv, HolderInv, RangeInv, KeepInv, InCycle,
         SyncedMeansScanned, EnhanceInv
<1>2. TypeOK /\ TypeOK' /\ SyncInv /\ EnhanceInv /\ [RecoveryNext]_allVars
        => SyncInv' /\ EnhanceInv'
  BY SyncInvStep, EnhanceInvStep
<1>3. EnhanceInv => CatchUpEnhances
  BY DEF EnhanceInv, AllAsked, CatchUpEnhances
<1> QED BY <1>1, <1>2, <1>3, TypeCorrect, PTL DEF RecoverySpec

=============================================================================
