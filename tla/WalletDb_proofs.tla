--------------------------- MODULE WalletDb_proofs ---------------------------
(* Proofs about the wallet database, for every chain, every set of            *)
(* transactions and every pruning and anchor depth: the types and the         *)
(* witnesses first; then locks end with the spend they protect, what is       *)
(* offered is live, and no spend conflicts with one that may still be mined;  *)
(* last, the tables implement the ledger.                                     *)
EXTENDS WalletDb, TLAPS

USE NetworkAssumption, WalletDbAssumption DEF NetworkAssumption, WalletDbAssumption

(* What a block of the chain is made of.                                      *)
LEMMA HashAtType ==
  ASSUME NEW bs \in Seq(CompactBlock), NEW h \in 1 .. Len(bs)
  PROVE  /\ bs[h] \in CompactBlock
         /\ HashAt(bs, h) \in BlockHash
<1>1. bs[h] \in CompactBlock
  OBVIOUS
<1>2. h \in Nat
  OBVIOUS
<1>3. bs[h].epoch \in Nat
  BY <1>1 DEF CompactBlock
<1> QED BY <1>1, <1>2, <1>3 DEF HashAt, BlockHash

LEMMA AppendType ==
  ASSUME NEW bs \in Seq(CompactBlock), NEW b \in CompactBlock
  PROVE  /\ Append(bs, b) \in Seq(CompactBlock)
         /\ Len(Append(bs, b)) = Len(bs) + 1
  OBVIOUS

LEMMA SubSeqType ==
  ASSUME NEW bs \in Seq(CompactBlock), NEW h \in 0 .. Len(bs)
  PROVE  /\ SubSeq(bs, 1, h) \in Seq(CompactBlock)
         /\ Len(SubSeq(bs, 1, h)) = h
  OBVIOUS

LEMMA LiveNullifiersType ==
  NetTypeOK => LiveNullifiers \subseteq Nullifier
  BY HashAtType DEF NetTypeOK, LiveNullifiers, Nullifier

LEMMA MinableType == NetTypeOK => Minable \subseteq CompactTx
  BY DEF NetTypeOK, Minable, CompactTx, Nullifier, Spend

(* The network keeps its types, whatever the wallet does.                     *)
LEMMA NetTypeStep ==
  ASSUME NetTypeOK, NetNext
  PROVE  NetTypeOK'
<1>1. CASE MineBlock
  <2>1. PICK txs \in SUBSET Minable :
          chain' = Append(chain, [epoch |-> epoch, txs |-> txs])
    BY <1>1 DEF MineBlock
  <2>2. [epoch |-> epoch, txs |-> txs] \in CompactBlock
    BY MinableType DEF NetTypeOK, CompactBlock
  <2> QED BY <1>1, <2>1, <2>2, AppendType DEF MineBlock, NetTypeOK
<1>2. CASE \E h \in 0 .. Len(chain) : Reorg(h)
  BY <1>2, SubSeqType DEF Reorg, NetTypeOK
<1>3. CASE \E t \in Spend : OtherDeviceSpends(t)
  <2>1. PICK t \in Spend, nfs \in SUBSET LiveNullifiers :
          own' = [own EXCEPT ![t] = [by |-> "other", spends |-> nfs,
                                     expiry |-> Len(chain) + 1 + ExpiryDelta]]
    BY <1>3 DEF OtherDeviceSpends
  <2>2. nfs \in SUBSET Nullifier
    BY LiveNullifiersType
  <2>3. Len(chain) + 1 + ExpiryDelta \in Nat
    BY DEF NetTypeOK
  <2>4. chain' = chain /\ epoch' = epoch
    BY <1>3 DEF OtherDeviceSpends
  <2> QED BY <2>1, <2>2, <2>3, <2>4 DEF NetTypeOK, Builder
<1> QED BY <1>1, <1>2, <1>3 DEF NetNext

----------------------------------------------------------------------------
(* Type correctness.  TypeOK is inductive by itself.                          *)

LEMMA TipType == TypeOK => Tip \in Nat /\ Len(blocks) = Tip
  BY DEF TypeOK, Tip

LEMMA InitTypeOK == Init => TypeOK
  BY DEF Init, NetInit, TypeOK, NetTypeOK, Tip, Builder

(* Scanning the block that follows the tip.                                   *)
LEMMA AdvanceTypeOK ==
  ASSUME TypeOK, AdvanceByBlock
  PROVE  TypeOK'
<1> DEFINE h == Tip + 1
           pos == HashAt(chain, h)
           wtxs == WalletTxs(chain[h].txs)
<1>1. /\ h \in 1 .. Len(chain)
      /\ Tip \in Nat
  BY TipType DEF AdvanceByBlock
<1>2. chain[h] \in CompactBlock /\ pos \in BlockHash
  BY <1>1, HashAtType DEF TypeOK, NetTypeOK
<1>3. wtxs \in SUBSET CompactTx
  BY <1>2 DEF WalletTxs, CompactBlock
<1>4. blocks' \in Seq(CompactBlock) /\ Tip' = Tip + 1
  BY <1>2, AppendType DEF AdvanceByBlock, TypeOK, Tip
<1>5. txBlock' \in [Tx -> (0 .. Tip') \cup {None}]
  <2>1. txBlock' = PutTxMeta(wtxs, h)
    BY DEF AdvanceByBlock
  <2> QED BY <1>1, <1>4, <2>1 DEF PutTxMeta, TypeOK
<1>6. nf' \in [Pays -> BlockHash \cup {None}]
  <2>1. nf' = PutReceivedNotes(wtxs, pos)
    BY DEF AdvanceByBlock
  <2> QED BY <1>2, <2>1 DEF PutReceivedNotes, TypeOK
<1>7. spent' \in [Pays -> Tx \cup {None}]
  <2>1. spent' = UpdateExpiredNotes(MarkSpent(wtxs), txBlock', h)
    BY DEF AdvanceByBlock
  <2>2. ASSUME NEW n \in Pays, \E x \in wtxs : <<n, nf[n]>> \in x.spends
        PROVE  (CHOOSE x \in wtxs : <<n, nf[n]>> \in x.spends).hash \in Tx
    BY <1>3, <2>2 DEF CompactTx
  <2>3. MarkSpent(wtxs) \in [Pays -> Tx \cup {None}]
    BY <2>2 DEF MarkSpent, TypeOK
  <2> QED BY <2>1, <2>3 DEF UpdateExpiredNotes
<1>8. witnesses' \subseteq [note: Pays, block: 0 .. Tip', pos: BlockHash]
  <2>1. witnesses' = PruneWitnesses(InsertWitnesses(wtxs, h, pos),
                                    h - PruningHeight)
    BY DEF AdvanceByBlock
  <2>2. witnesses \subseteq [note: Pays, block: 0 .. Tip', pos: BlockHash]
    BY <1>1, <1>4 DEF TypeOK
  <2>3. h \in 0 .. Tip'
    BY <1>1, <1>4
  <2> QED BY <1>2, <2>1, <2>2, <2>3
          DEF PruneWitnesses, InsertWitnesses, GetWitnesses
<1>9. NetTypeOK' /\ txExpiry' = txExpiry /\ damage' = damage /\ torn' = torn
  BY DEF AdvanceByBlock, netVars, TypeOK, NetTypeOK
<1>10. highest' \in Nat
  BY <1>1 DEF AdvanceByBlock, TypeOK
<1>11. displaced' \subseteq Tx
  BY DEF AdvanceByBlock, Replaced, TypeOK
<1> QED BY <1>4, <1>5, <1>6, <1>7, <1>8, <1>9, <1>10, <1>11 DEF TypeOK

(* Building a spend marks notes with a transaction of Spend.                  *)
LEMMA BuildTypeOK ==
  ASSUME TypeOK, NEW t \in Spend, BuildSpend(t)
  PROVE  TypeOK'
<1>1. PICK rows \in SUBSET GetUnspentSaplingNotes : StoreSentTx(t, rows)
  BY DEF BuildSpend
<1>2. Tip + 1 + ExpiryDelta \in Nat
  BY TipType
<1>3. {<<w.note, w.pos>> : w \in rows} \in SUBSET Nullifier
  BY DEF GetUnspentSaplingNotes, GetWitnesses, TypeOK, Nullifier
<1>4. own' \in [Spend -> [by: {"nobody", "wallet", "other"},
                          spends: SUBSET Nullifier, expiry: Nat]]
  BY <1>1, <1>2, <1>3 DEF StoreSentTx, TypeOK, NetTypeOK, Builder
<1>5. txExpiry' \in [Spend -> Nat \cup {None}]
  BY <1>1, <1>2 DEF StoreSentTx, TypeOK
<1>6. spent' \in [Pays -> Tx \cup {None}]
  BY <1>1 DEF StoreSentTx, TypeOK, Spend
<1> QED BY <1>4, <1>5, <1>6
        DEF BuildSpend, histVars, TypeOK, NetTypeOK, Builder, Tip

LEMMA DecryptTypeOK ==
  ASSUME TypeOK, NEW t \in Spend, StoreDecryptedTx(t)
  PROVE  TypeOK'
  BY DEF StoreDecryptedTx, histVars, netVars, TypeOK, NetTypeOK, Tip

(* Rewinding, whole or cut short.                                             *)
LEMMA RewindTypeOK ==
  ASSUME TypeOK, NEW h \in 0 .. Tip, RewindToHeight(h)
  PROVE  TypeOK'
<1>1. Tip \in Nat /\ h < Tip
  BY TipType DEF RewindToHeight, RewindAllowed
<1>2. blocks' \in Seq(CompactBlock) /\ Tip' = h
  BY <1>1, SubSeqType DEF RewindToHeight, TypeOK, Tip
<1>3. txBlock' \in [Tx -> (0 .. h) \cup {None}]
  <2>1. txBlock' = UnmineTransactions(h)
    BY DEF RewindToHeight
  <2> QED BY <1>1, <2>1 DEF UnmineTransactions, Mined, TypeOK
<1>4. witnesses' \subseteq [note: Pays, block: 0 .. h, pos: BlockHash]
  BY <1>1 DEF RewindToHeight, DeleteWitnesses, TypeOK
<1>5. /\ nf' \in [Pays -> BlockHash \cup {None}]
      /\ spent' \in [Pays -> Tx \cup {None}]
  BY DEF RewindToHeight, RewindNotes, TypeOK
<1>6. damage' \subseteq Harm /\ torn' \in Nat \cup {None}
  BY DEF RewindToHeight, Harms, Harm, TypeOK
<1> QED BY <1>2, <1>3, <1>4, <1>5, <1>6
        DEF RewindToHeight, netVars, TypeOK, NetTypeOK

LEMMA CrashTypeOK ==
  ASSUME TypeOK, NEW h \in 0 .. Tip, CrashInRewind(h)
  PROVE  TypeOK'
<1>1. Tip \in Nat /\ Tip' = Tip
  BY TipType DEF CrashInRewind, Tip
<1>2. txBlock' \in [Tx -> (0 .. Tip) \cup {None}]
  BY DEF CrashInRewind, UnmineTransactions, TypeOK
<1>3. witnesses' \subseteq witnesses
  BY DEF CrashInRewind, DeleteWitnesses
<1>4. torn' \in Nat \cup {None}
  BY <1>1 DEF CrashInRewind, TypeOK
<1> QED BY <1>1, <1>2, <1>3, <1>4
        DEF CrashInRewind, netVars, TypeOK, NetTypeOK

LEMMA StutterTypeOK ==
  ASSUME TypeOK, UNCHANGED vars
  PROVE  TypeOK'
  BY DEF vars, netVars, dbVars, histVars, TypeOK, NetTypeOK, Tip

(* The database always holds rows of the right types, that refer to blocks    *)
(* which are there: the schema's FOREIGN KEYs never fail.                     *)
THEOREM TypeCorrect == Spec => []TypeOK
<1>1. ASSUME TypeOK, [Next]_vars
      PROVE  TypeOK'
  <2>1. CASE NetNext /\ UNCHANGED <<dbVars, histVars>>
    BY <1>1, <2>1, NetTypeStep DEF dbVars, histVars, TypeOK, Tip
  <2> QED BY <1>1, <2>1, AdvanceTypeOK, BuildTypeOK, DecryptTypeOK,
             RewindTypeOK, CrashTypeOK, StutterTypeOK DEF Next
<1> QED BY InitTypeOK, <1>1, PTL DEF Spec

----------------------------------------------------------------------------
(* Witness coverage.  While a rewind cut short waits to be made good, only    *)
(* the blocks up to its target are covered; a rewind that stays above the     *)
(* pruned rows leaves the tip above them, so the next scan finds a row at the *)
(* tip to carry over.                                                         *)

CoveredBelowTorn ==
  damage = {} =>
    \A n \in Pays : Mined(n) =>
      \A h \in txBlock[n] .. Tip :
        h >= Pruned /\ (torn # None => h <= torn) => WitnessedAt(n, h)

TipNotPruned == damage = {} => Tip >= Pruned

CoverageInv == TypeOK /\ CoveredBelowTorn /\ TipNotPruned

LEMMA InitCoverage == Init => CoverageInv
<1> SUFFICES ASSUME Init PROVE CoverageInv
  OBVIOUS
<1>1. TypeOK
  BY InitTypeOK
<1>2. Tip = 0 /\ Pruned = 0 - PruningHeight
  BY DEF Init, Tip, Pruned
<1>3. \A n \in Pays : ~Mined(n)
  BY DEF Init, Mined
<1> QED BY <1>1, <1>2, <1>3 DEF CoverageInv, CoveredBelowTorn, TipNotPruned

(* A step that touches none of the rows, the tip or the history.              *)
LEMMA FrameCoverage ==
  ASSUME CoverageInv, TypeOK',
         UNCHANGED <<blocks, txBlock, witnesses, histVars>>
  PROVE  CoverageInv'
  BY DEF CoverageInv, CoveredBelowTorn, TipNotPruned, histVars, Tip, Pruned,
         Mined, WitnessedAt

LEMMA AdvanceCoverage ==
  ASSUME CoverageInv, TypeOK', AdvanceByBlock
  PROVE  CoverageInv'
<1> DEFINE h == Tip + 1
           pos == HashAt(chain, h)
           wtxs == WalletTxs(chain[h].txs)
           rows == InsertWitnesses(wtxs, h, pos)
<1>1. /\ TypeOK /\ CoveredBelowTorn /\ TipNotPruned
      /\ Tip \in Nat
      /\ highest \in Nat
  BY TipType DEF CoverageInv, TypeOK
<1>2. Tip' = h
  <2>1. blocks' = Append(blocks, chain[h])
    BY DEF AdvanceByBlock
  <2> QED BY <1>1, <2>1 DEF TypeOK, Tip
<1>3. /\ highest' \in Nat
      /\ Pruned \in Int /\ Pruned' \in Int
      /\ Pruned' >= Pruned /\ Pruned' >= h - PruningHeight
      /\ Tip >= Pruned => h >= Pruned'
  BY <1>1 DEF AdvanceByBlock, Pruned
<1>4. txBlock' = PutTxMeta(wtxs, h)
  BY DEF AdvanceByBlock
<1>5. witnesses' = PruneWitnesses(rows, h - PruningHeight)
  BY DEF AdvanceByBlock
<1>6. UNCHANGED <<damage, torn>>
  BY DEF AdvanceByBlock
<1>7. TipNotPruned'
  BY <1>1, <1>2, <1>3, <1>6 DEF TipNotPruned
<1>8. ASSUME NEW n \in Pays, NEW w \in rows, w.note = n, w.block >= Pruned',
             w.block \in Nat
      PROVE  WitnessedAt(n, w.block)'
  <2>1. w.block >= h - PruningHeight
    BY <1>1, <1>3, <1>8
  <2> QED BY <1>5, <1>8, <2>1 DEF PruneWitnesses, WitnessedAt
<1>9. ASSUME damage = {}, NEW n \in Pays, Mined(n)', NEW k \in txBlock'[n] .. h,
             k >= Pruned', torn # None => k <= torn
      PROVE  WitnessedAt(n, k)'
  <2>1. n \in Tx /\ k \in Nat
    <3>1. n \in Tx
      BY NetworkAssumption
    <3>2. txBlock'[n] \in 0 .. Tip'
      BY <1>9, <3>1 DEF TypeOK, Mined
    <3> QED BY <1>1, <1>2, <3>1, <3>2
  <2>2. CASE n \in Hashes(wtxs)
    <3>1. k = h
      BY <1>1, <1>4, <1>9, <2>1, <2>2 DEF PutTxMeta
    <3>2. \E w \in rows : w.note = n /\ w.block = h
      <4>1. CASE \E v \in GetWitnesses(Tip) : v.note = n
        <5>1. PICK v \in GetWitnesses(Tip) : v.note = n
          BY <4>1
        <5>2. v \in [note: Pays, block: 0 .. Tip, pos: BlockHash]
          BY <1>1, <5>1 DEF GetWitnesses, TypeOK
        <5>3. [v EXCEPT !.block = h].note = n /\ [v EXCEPT !.block = h].block = h
          BY <5>1, <5>2
        <5> QED BY <5>1, <5>3 DEF InsertWitnesses
      <4>2. CASE ~\E v \in GetWitnesses(Tip) : v.note = n
        <5> DEFINE w == [note |-> n, block |-> h, pos |-> pos]
        <5>1. \A v \in {[u EXCEPT !.block = h] : u \in GetWitnesses(Tip)} :
                v.note # n
          BY <1>1, <4>2 DEF GetWitnesses, TypeOK
        <5>2. w \in rows
          BY <2>2, <5>1 DEF InsertWitnesses
        <5> QED BY <5>2
      <4> QED BY <4>1, <4>2
    <3> QED BY <1>1, <1>8, <1>9, <3>1, <3>2
  <2>3. CASE n \notin Hashes(wtxs)
    <3>1. txBlock'[n] = txBlock[n] /\ Mined(n)
      BY <1>4, <1>9, <2>1, <2>3 DEF PutTxMeta, Mined
    <3>2. txBlock[n] \in 0 .. Tip
      BY <1>1, <2>1, <3>1 DEF TypeOK, Mined
    <3>3. CASE k <= Tip
      <4>1. WitnessedAt(n, k)
        BY <1>1, <1>3, <1>9, <2>1, <3>1, <3>2, <3>3 DEF CoveredBelowTorn
      <4>2. PICK w \in witnesses : w.note = n /\ w.block = k
        BY <4>1 DEF WitnessedAt
      <4>3. w \in rows
        BY <4>2 DEF InsertWitnesses
      <4> QED BY <1>8, <1>9, <2>1, <4>2, <4>3
    <3>4. CASE k = h
      <4>1. Tip >= Pruned /\ (torn # None => Tip <= torn)
        BY <1>1, <1>9, <3>4 DEF TipNotPruned, TypeOK
      <4>2. WitnessedAt(n, Tip)
        BY <1>1, <1>9, <3>1, <3>2, <4>1 DEF CoveredBelowTorn
      <4>3. PICK v \in GetWitnesses(Tip) : v.note = n
        BY <4>2 DEF WitnessedAt, GetWitnesses
      <4>4. v \in [note: Pays, block: 0 .. Tip, pos: BlockHash]
        BY <1>1, <4>3 DEF GetWitnesses, TypeOK
      <4>5. [v EXCEPT !.block = h].note = n /\ [v EXCEPT !.block = h].block = h
        BY <4>3, <4>4
      <4>6. PICK w \in rows : w.note = n /\ w.block = h
        BY <4>3, <4>5 DEF InsertWitnesses
      <4>7. w.block \in Nat /\ w.block >= Pruned'
        BY <1>1, <1>9, <3>4, <4>6
      <4> QED BY <1>8, <3>4, <4>6, <4>7
    <3> QED BY <1>1, <1>9, <2>1, <3>3, <3>4
  <2> QED BY <2>2, <2>3
<1>10. CoveredBelowTorn'
  BY <1>2, <1>6, <1>9 DEF CoveredBelowTorn
<1> QED BY <1>7, <1>10 DEF CoverageInv

LEMMA RewindCoverage ==
  ASSUME CoverageInv, TypeOK', NEW h \in 0 .. Tip, RewindToHeight(h)
  PROVE  CoverageInv'
<1>1. /\ TypeOK /\ CoveredBelowTorn /\ TipNotPruned
      /\ Tip \in Nat /\ h < Tip /\ torn \in Nat \cup {None}
  BY TipType DEF CoverageInv, TypeOK, RewindToHeight, RewindAllowed
<1>2. Tip' = h /\ Pruned' = Pruned
  BY <1>1, SubSeqType DEF RewindToHeight, TypeOK, Tip, Pruned
<1>3. damage' = {} => damage = {} /\ h >= Pruned
  BY DEF RewindToHeight, Harms
<1>4. ASSUME NEW n \in Pays, Mined(n)'
      PROVE  Mined(n) /\ txBlock'[n] = txBlock[n] /\ txBlock[n] \in 0 .. Tip
  <2>1. txBlock' = UnmineTransactions(h) /\ n \in Tx
    BY DEF RewindToHeight
  <2> QED BY <1>1, <1>4, <2>1 DEF UnmineTransactions, Mined, TypeOK
<1>5. ASSUME damage' = {}, NEW n \in Pays, Mined(n)',
             NEW k \in txBlock'[n] .. h, k >= Pruned, torn' # None => k <= torn'
      PROVE  WitnessedAt(n, k)'
  <2>1. Mined(n) /\ txBlock'[n] = txBlock[n] /\ txBlock[n] \in 0 .. Tip
    BY <1>4, <1>5
  <2>2. k \in txBlock[n] .. Tip /\ k <= h
    BY <1>1, <1>5, <2>1
  <2>3. torn # None => k <= torn
    BY <1>1, <1>5, <2>2 DEF RewindToHeight
  <2>4. WitnessedAt(n, k)
    BY <1>1, <1>3, <1>5, <2>1, <2>2, <2>3 DEF CoveredBelowTorn
  <2> QED BY <2>2, <2>4 DEF WitnessedAt, RewindToHeight, DeleteWitnesses
<1>6. CoveredBelowTorn'
  BY <1>2, <1>5 DEF CoveredBelowTorn
<1>7. TipNotPruned'
  BY <1>2, <1>3 DEF TipNotPruned
<1> QED BY <1>6, <1>7 DEF CoverageInv

LEMMA CrashCoverage ==
  ASSUME CoverageInv, TypeOK', NEW h \in 0 .. Tip, CrashInRewind(h)
  PROVE  CoverageInv'
<1>1. /\ TypeOK /\ CoveredBelowTorn /\ TipNotPruned
      /\ Tip \in Nat /\ torn \in Nat \cup {None}
  BY TipType DEF CoverageInv, TypeOK
<1>2. Tip' = Tip /\ Pruned' = Pruned /\ damage' = damage
  BY DEF CrashInRewind, Tip, Pruned
<1>3. torn' \in Nat /\ torn' <= h /\ (torn # None => torn' <= torn)
  BY <1>1 DEF CrashInRewind
<1>4. ASSUME NEW n \in Pays, Mined(n)'
      PROVE  Mined(n) /\ txBlock'[n] = txBlock[n]
  <2>1. txBlock' \in {txBlock, UnmineTransactions(h)} /\ n \in Tx
    BY DEF CrashInRewind
  <2> QED BY <1>1, <1>4, <2>1 DEF UnmineTransactions, Mined, TypeOK
<1>5. ASSUME damage = {}, NEW n \in Pays, Mined(n)',
             NEW k \in txBlock'[n] .. Tip, k >= Pruned, k <= torn'
      PROVE  WitnessedAt(n, k)'
  <2>1. Mined(n) /\ txBlock'[n] = txBlock[n] /\ txBlock[n] \in 0 .. Tip
    BY <1>1, <1>4, <1>5 DEF TypeOK, Mined
  <2>2. k \in Nat /\ k <= h /\ (torn # None => k <= torn)
    BY <1>1, <1>3, <1>5, <2>1
  <2>3. WitnessedAt(n, k)
    BY <1>1, <1>5, <2>1, <2>2 DEF CoveredBelowTorn
  <2> QED BY <2>2, <2>3 DEF WitnessedAt, CrashInRewind, DeleteWitnesses
<1>6. CoveredBelowTorn'
  BY <1>2, <1>3, <1>5 DEF CoveredBelowTorn
<1> QED BY <1>1, <1>2, <1>6 DEF CoverageInv, TipNotPruned

(* Witness coverage for every chain and every order of scans, spends, rewinds *)
(* and crashes: no note loses the witness a later spend will need unless a    *)
(* rewind goes below the pruned rows, or is cut short and not made good.      *)
THEOREM Coverage == Spec => []WitnessCoverage
<1>1. ASSUME CoverageInv, TypeOK', [Next]_vars
      PROVE  CoverageInv'
  <2>1. CASE NetNext /\ UNCHANGED <<dbVars, histVars>>
    BY <1>1, <2>1, FrameCoverage DEF dbVars
  <2>2. CASE \E t \in Spend : BuildSpend(t) \/ StoreDecryptedTx(t)
    BY <1>1, <2>2, FrameCoverage DEF BuildSpend, StoreDecryptedTx
  <2>3. CASE UNCHANGED vars
    BY <1>1, <2>3, FrameCoverage DEF vars, dbVars
  <2> QED BY <1>1, <2>1, <2>2, <2>3, AdvanceCoverage, RewindCoverage,
             CrashCoverage DEF Next
<1>2. CoverageInv => WitnessCoverage
  BY DEF CoverageInv, CoveredBelowTorn, WitnessCoverage
<1> QED BY InitCoverage, TypeCorrect, <1>1, <1>2, PTL DEF Spec

----------------------------------------------------------------------------
(* No holes: a note witnessed at some block is witnessed at every later one,  *)
(* however deep the rewinds went.                                             *)

NoHolesBelowTorn ==
  \A w \in witnesses : \A h \in w.block .. Tip :
    (torn # None => h <= torn) => WitnessedAt(w.note, h)

LEMMA AdvanceNoHoles ==
  ASSUME TypeOK, TypeOK', NoHolesBelowTorn, AdvanceByBlock
  PROVE  NoHolesBelowTorn'
<1> DEFINE h == Tip + 1
           pos == HashAt(chain, h)
           wtxs == WalletTxs(chain[h].txs)
           rows == InsertWitnesses(wtxs, h, pos)
<1>1. Tip \in Nat
  BY TipType
<1>2. Tip' = h
  <2>1. blocks' = Append(blocks, chain[h])
    BY DEF AdvanceByBlock
  <2> QED BY <1>1, <2>1 DEF TypeOK, Tip
<1>3. witnesses' = PruneWitnesses(rows, h - PruningHeight) /\ torn' = torn
  BY DEF AdvanceByBlock
<1>4. ASSUME NEW w \in witnesses', NEW k \in w.block .. h, torn # None => k <= torn
      PROVE  WitnessedAt(w.note, k)'
  <2>1. w \in rows /\ w.block >= h - PruningHeight /\ w.block \in 0 .. h
    BY <1>2, <1>3 DEF PruneWitnesses, TypeOK
  <2>2. k \in Nat /\ k >= h - PruningHeight
    BY <1>1, <2>1
  <2>3. SUFFICES \E v \in rows : v.note = w.note /\ v.block = k
    BY <1>3, <2>2 DEF WitnessedAt, PruneWitnesses
  <2>4. CASE w.block = h
    BY <1>1, <2>1, <2>4
  <2>5. CASE w.block # h
    <3>1. w \in witnesses
      <4> DEFINE updated == {[v EXCEPT !.block = h] : v \in GetWitnesses(Tip)}
                 found == {[note |-> n, block |-> h, pos |-> pos] :
                             n \in Hashes(wtxs) \cap Pays}
      <4>1. rows \subseteq witnesses \cup updated \cup found
        BY DEF InsertWitnesses
      <4>2. \A v \in updated : v.block = h
        BY <1>1 DEF GetWitnesses, TypeOK
      <4>3. \A v \in found : v.block = h
        OBVIOUS
      <4> HIDE DEF rows, updated, found
      <4> QED BY <2>1, <2>5, <4>1, <4>2, <4>3
    <3>2. CASE k <= Tip
      <4>1. WitnessedAt(w.note, k)
        BY <1>1, <1>4, <2>1, <2>2, <3>1, <3>2 DEF NoHolesBelowTorn
      <4> QED BY <4>1 DEF WitnessedAt, InsertWitnesses
    <3>3. CASE k = h
      <4>1. torn # None => Tip <= torn
        BY <1>1, <1>4, <3>3 DEF TypeOK
      <4>2. Tip \in w.block .. Tip
        BY <1>1, <2>1, <2>5
      <4>3. PICK v \in GetWitnesses(Tip) : v.note = w.note
        BY <3>1, <4>1, <4>2 DEF NoHolesBelowTorn, WitnessedAt, GetWitnesses
      <4>4. v \in [note: Pays, block: 0 .. Tip, pos: BlockHash]
        BY <4>3 DEF GetWitnesses, TypeOK
      <4>5. [v EXCEPT !.block = h].note = v.note /\ [v EXCEPT !.block = h].block = h
        BY <4>4
      <4> QED BY <3>3, <4>3, <4>5 DEF InsertWitnesses
    <3> QED BY <1>1, <2>2, <3>2, <3>3
  <2> QED BY <2>4, <2>5
<1> QED BY <1>2, <1>3, <1>4 DEF NoHolesBelowTorn

LEMMA RewindNoHoles ==
  ASSUME TypeOK, NoHolesBelowTorn, NEW h \in 0 .. Tip, RewindToHeight(h)
  PROVE  NoHolesBelowTorn'
<1>1. Tip \in Nat /\ h < Tip /\ torn \in Nat \cup {None}
  BY TipType DEF TypeOK, RewindToHeight, RewindAllowed
<1>2. Tip' = h
  BY <1>1, SubSeqType DEF RewindToHeight, TypeOK, Tip
<1>3. ASSUME NEW w \in witnesses', NEW k \in w.block .. h, torn' # None => k <= torn'
      PROVE  WitnessedAt(w.note, k)'
  <2>1. w \in witnesses /\ w.block \in 0 .. h
    BY <1>1 DEF RewindToHeight, DeleteWitnesses, TypeOK
  <2>2. k \in w.block .. Tip /\ k <= h
    BY <1>1, <2>1
  <2>3. torn # None => k <= torn
    BY <1>1, <1>3, <2>1, <2>2 DEF RewindToHeight
  <2>4. WitnessedAt(w.note, k)
    BY <2>1, <2>2, <2>3 DEF NoHolesBelowTorn
  <2> QED BY <2>2, <2>4 DEF WitnessedAt, RewindToHeight, DeleteWitnesses
<1> QED BY <1>2, <1>3 DEF NoHolesBelowTorn

LEMMA CrashNoHoles ==
  ASSUME TypeOK, NoHolesBelowTorn, NEW h \in 0 .. Tip, CrashInRewind(h)
  PROVE  NoHolesBelowTorn'
<1>1. Tip \in Nat /\ Tip' = Tip /\ torn \in Nat \cup {None}
  BY TipType DEF TypeOK, CrashInRewind, Tip
<1>2. torn' \in Nat /\ torn' <= h /\ (torn # None => torn' <= torn)
  BY <1>1 DEF CrashInRewind
<1>3. ASSUME NEW w \in witnesses', NEW k \in w.block .. Tip, k <= torn'
      PROVE  WitnessedAt(w.note, k)'
  <2>1. w \in witnesses /\ w.block \in 0 .. Tip
    BY DEF CrashInRewind, DeleteWitnesses, TypeOK
  <2>2. k \in Nat /\ k <= h /\ (torn # None => k <= torn)
    BY <1>1, <1>2, <1>3, <2>1
  <2>3. WitnessedAt(w.note, k)
    BY <2>1, <2>2 DEF NoHolesBelowTorn
  <2> QED BY <2>2, <2>3 DEF WitnessedAt, CrashInRewind, DeleteWitnesses
<1> QED BY <1>1, <1>2, <1>3 DEF NoHolesBelowTorn

(* No note ever has a gap in its witnesses below the tip.                     *)
THEOREM NoHoles == Spec => []WitnessesReachTip
<1>1. Init => NoHolesBelowTorn
  BY DEF Init, NoHolesBelowTorn
<1>2. ASSUME TypeOK, TypeOK', NoHolesBelowTorn, [Next]_vars
      PROVE  NoHolesBelowTorn'
  <2>1. ASSUME UNCHANGED <<blocks, witnesses, torn>>
        PROVE  NoHolesBelowTorn'
    BY <1>2, <2>1 DEF NoHolesBelowTorn, WitnessedAt, Tip
  <2>2. CASE NetNext /\ UNCHANGED <<dbVars, histVars>>
    BY <2>1, <2>2 DEF dbVars, histVars
  <2>3. CASE \E t \in Spend : BuildSpend(t) \/ StoreDecryptedTx(t)
    BY <2>1, <2>3 DEF BuildSpend, StoreDecryptedTx, histVars
  <2>4. CASE UNCHANGED vars
    BY <2>1, <2>4 DEF vars, dbVars, histVars
  <2> QED BY <1>2, <2>2, <2>3, <2>4, AdvanceNoHoles, RewindNoHoles,
             CrashNoHoles DEF Next
<1>3. NoHolesBelowTorn => WitnessesReachTip
  BY DEF NoHolesBelowTorn, WitnessesReachTip
<1> QED BY TypeCorrect, <1>1, <1>2, <1>3, PTL DEF Spec

----------------------------------------------------------------------------
(* What the network guarantees of a chain, which the wallet's blocks inherit  *)
(* from it.                                                                   *)

Known(t) == own[t].by # "nobody"

\* A transaction in block h is a payment that spends nothing of the wallet's, or a
\* spend as it was built, which has not expired there.
GenuineTx(x, h) ==
  /\ x.hash \in Incoming => x.spends = {}
  /\ x.hash \in Spend => /\ Known(x.hash) /\ x.spends = own[x.hash].spends
                         /\ h <= own[x.hash].expiry

\* It reveals notes of blocks below, each at the position it was mined at.
SpendsBelow(bs, x, h) ==
  \A y \in x.spends : \E k \in 1 .. h - 1 : y[2] = HashAt(bs, k)
                                            /\ y[1] \in Hashes(bs[k].txs)

\* Blocks g and h have no transaction in common, and reveal different notes.
Apart(bs, g, h) ==
  /\ Hashes(bs[g].txs) \cap Hashes(bs[h].txs) = {}
  /\ Revealed(bs[g].txs) \cap Revealed(bs[h].txs) = {}

ValidChain(bs) ==
  \A h \in 1 .. Len(bs) :
    /\ \A x \in bs[h].txs : GenuineTx(x, h) /\ SpendsBelow(bs, x, h)
    /\ Consistent(bs[h].txs)
    /\ \A g \in 1 .. h - 1 : Apart(bs, g, h)

LEMMA SubSeqAt ==
  ASSUME NEW bs \in Seq(CompactBlock), NEW h \in 0 .. Len(bs)
  PROVE  /\ SubSeq(bs, 1, h) \in Seq(CompactBlock) /\ Len(SubSeq(bs, 1, h)) = h
         /\ \A k \in 1 .. h : SubSeq(bs, 1, h)[k] = bs[k]
  OBVIOUS

LEMMA AppendAt ==
  ASSUME NEW bs \in Seq(CompactBlock), NEW b \in CompactBlock
  PROVE  /\ Append(bs, b) \in Seq(CompactBlock) /\ Len(Append(bs, b)) = Len(bs) + 1
         /\ \A k \in 1 .. Len(bs) : Append(bs, b)[k] = bs[k]
         /\ Append(bs, b)[Len(bs) + 1] = b
  OBVIOUS

LEMMA EpochType ==
  ASSUME NEW bs \in Seq(CompactBlock)
  PROVE  Len(bs) \in Nat /\ \A k \in 1 .. Len(bs) : bs[k].epoch \in Nat
<1>1. \A k \in 1 .. Len(bs) : bs[k] \in CompactBlock
  OBVIOUS
<1> QED BY <1>1 DEF CompactBlock

(* Validity is a matter of the blocks alone, so that a prefix is valid too.   *)
LEMMA ValidPrefix ==
  ASSUME NEW bs \in Seq(CompactBlock), NEW cs \in Seq(CompactBlock),
         ValidChain(bs), Len(cs) <= Len(bs), \A k \in 1 .. Len(cs) : cs[k] = bs[k]
  PROVE  ValidChain(cs)
<1> SUFFICES ASSUME NEW h \in 1 .. Len(cs)
             PROVE  /\ \A x \in cs[h].txs : GenuineTx(x, h) /\ SpendsBelow(cs, x, h)
                    /\ Consistent(cs[h].txs)
                    /\ \A g \in 1 .. h - 1 : Apart(cs, g, h)
  BY DEF ValidChain
<1>1. h \in 1 .. Len(bs) /\ cs[h] = bs[h] /\ \A k \in 1 .. h - 1 : cs[k] = bs[k]
  OBVIOUS
<1>2. \A x \in cs[h].txs : GenuineTx(x, h) /\ SpendsBelow(cs, x, h)
  BY <1>1 DEF ValidChain, SpendsBelow, HashAt
<1>3. Consistent(cs[h].txs) /\ \A g \in 1 .. h - 1 : Apart(cs, g, h)
  BY <1>1 DEF ValidChain, Apart
<1> QED BY <1>2, <1>3

(* A spend that is known never changes, so neither does what is valid.        *)
LEMMA KnownStays ==
  ASSUME TypeOK, [Next]_vars, NEW t \in Spend, Known(t)
  PROVE  own'[t] = own[t]
<1>1. CASE NetNext
  <2>1. CASE \E u \in Spend : OtherDeviceSpends(u)
    BY <2>1 DEF OtherDeviceSpends, Known, TypeOK, NetTypeOK
  <2> QED BY <1>1, <2>1 DEF NetNext, MineBlock, Reorg
<1>2. CASE \E u \in Spend : BuildSpend(u)
  BY <1>2 DEF BuildSpend, StoreSentTx, Known, TypeOK, NetTypeOK
<1>3. CASE UNCHANGED own
  BY <1>3
<1> QED BY <1>1, <1>2, <1>3
        DEF Next, AdvanceByBlock, StoreDecryptedTx, RewindToHeight, CrashInRewind,
            vars, netVars

LEMMA ValidStays ==
  ASSUME TypeOK, [Next]_vars, NEW bs \in Seq(CompactBlock), ValidChain(bs)
  PROVE  ValidChain(bs)'
<1>1. ASSUME NEW h \in 1 .. Len(bs), NEW x \in bs[h].txs
      PROVE  GenuineTx(x, h)'
  <2>1. GenuineTx(x, h)
    BY <1>1 DEF ValidChain
  <2> QED BY <2>1, KnownStays DEF GenuineTx, Known
<1> QED BY <1>1 DEF ValidChain, SpendsBelow

(* What may be mined on top of the chain keeps it valid.                      *)
LEMMA LiveFacts ==
  ASSUME NetTypeOK, NEW y \in LiveNullifiers
  PROVE  /\ \E k \in 1 .. Len(chain) : y[2] = HashAt(chain, k)
                                       /\ y[1] \in Hashes(chain[k].txs)
         /\ \A g \in 1 .. Len(chain) : y \notin Revealed(chain[g].txs)
<1>1. DOMAIN chain = 1 .. Len(chain)
  BY DEF NetTypeOK
<1>2. PICK n \in Pays, k \in DOMAIN chain : y = <<n, HashAt(chain, k)>>
  BY DEF LiveNullifiers
<1>3. y[1] = n /\ y[2] = HashAt(chain, k) /\ y[2][1] = k
  BY <1>2 DEF HashAt
<1>4. MinedOn(y[1], y[2][1]) /\ ~SpentOnChain(y)
  BY DEF LiveNullifiers
<1> QED BY <1>1, <1>3, <1>4 DEF MinedOn, SpentOnChain

LEMMA MinableFacts ==
  ASSUME NetTypeOK, NEW x \in Minable
  PROVE  /\ GenuineTx(x, Len(chain) + 1) /\ SpendsBelow(chain, x, Len(chain) + 1)
         /\ \A g \in 1 .. Len(chain) : /\ x.hash \notin Hashes(chain[g].txs)
                                       /\ x.spends \cap Revealed(chain[g].txs) = {}
<1>1. DOMAIN chain = 1 .. Len(chain) /\ Len(chain) \in Nat
  BY DEF NetTypeOK
<1>2. ASSUME NEW t \in Tx, ~OnChain(t), x.hash = t, NEW g \in 1 .. Len(chain)
      PROVE  x.hash \notin Hashes(chain[g].txs)
  BY <1>1, <1>2 DEF OnChain, MinedOn
<1>3. CASE \E t \in Incoming : ~OnChain(t) /\ x = [hash |-> t, spends |-> {}]
  BY <1>2, <1>3 DEF GenuineTx, SpendsBelow, Spend
<1>4. CASE \E t \in Spend : /\ Known(t) /\ ~OnChain(t)
                            /\ Len(chain) + 1 <= own[t].expiry
                            /\ own[t].spends \subseteq LiveNullifiers
                            /\ x = [hash |-> t, spends |-> own[t].spends]
  <2>1. PICK t \in Spend : /\ Known(t) /\ ~OnChain(t)
                           /\ Len(chain) + 1 <= own[t].expiry
                           /\ own[t].spends \subseteq LiveNullifiers
                           /\ x = [hash |-> t, spends |-> own[t].spends]
    BY <1>4
  <2>2. x.hash = t /\ x.spends = own[t].spends
    BY <2>1
  <2>3. GenuineTx(x, Len(chain) + 1)
    BY <2>1, <2>2 DEF GenuineTx, Spend
  <2>4. SpendsBelow(chain, x, Len(chain) + 1)
    BY <1>1, <2>1, <2>2, LiveFacts DEF SpendsBelow
  <2>5. \A g \in 1 .. Len(chain) : x.spends \cap Revealed(chain[g].txs) = {}
    BY <2>1, <2>2, LiveFacts
  <2> QED BY <1>2, <2>1, <2>2, <2>3, <2>4, <2>5 DEF Spend
<1> QED BY <1>3, <1>4 DEF Minable, Known

LEMMA MineValid ==
  ASSUME TypeOK, TypeOK', ValidChain(chain), MineBlock
  PROVE  ValidChain(chain)'
<1> DEFINE L == Len(chain) + 1
<1>1. PICK txs \in SUBSET Minable :
        Consistent(txs) /\ chain' = Append(chain, [epoch |-> epoch, txs |-> txs])
  BY DEF MineBlock
<1>2. /\ chain \in Seq(CompactBlock) /\ Len(chain) \in Nat /\ NetTypeOK
      /\ own' = own
  BY DEF TypeOK, NetTypeOK, MineBlock
<1>3. [epoch |-> epoch, txs |-> txs] \in CompactBlock
  BY MinableType DEF TypeOK, NetTypeOK, CompactBlock
<1>4. /\ Len(chain') = L /\ chain'[L].txs = txs
      /\ \A k \in 1 .. Len(chain) : chain'[k] = chain[k]
  BY <1>1, <1>2, <1>3, AppendAt
<1>5. ASSUME NEW h \in 1 .. Len(chain')
      PROVE  /\ \A x \in chain'[h].txs : GenuineTx(x, h)' /\ SpendsBelow(chain', x, h)
             /\ Consistent(chain'[h].txs)
             /\ \A g \in 1 .. h - 1 : Apart(chain', g, h)
  <2>1. CASE h = L
    <3>1. \A x \in txs : GenuineTx(x, h)' /\ SpendsBelow(chain', x, h)
      BY <1>2, <1>4, <2>1, MinableFacts DEF GenuineTx, SpendsBelow, HashAt, Known
    <3>2. ASSUME NEW g \in 1 .. Len(chain)
          PROVE  Apart(chain', g, L)
      BY <1>2, <1>4, MinableFacts DEF Apart, Hashes, Revealed
    <3> QED BY <1>1, <1>2, <1>4, <2>1, <3>1, <3>2
  <2>2. CASE h # L
    <3>1. h \in 1 .. Len(chain) /\ \A k \in 1 .. h : chain'[k] = chain[k]
      BY <1>2, <1>4, <2>2
    <3>2. \A x \in chain'[h].txs : GenuineTx(x, h)' /\ SpendsBelow(chain', x, h)
      BY <1>2, <3>1 DEF ValidChain, GenuineTx, SpendsBelow, HashAt, Known
    <3>3. Consistent(chain'[h].txs)
      BY <3>1 DEF ValidChain
    <3>4. ASSUME NEW g \in 1 .. h - 1
          PROVE  Apart(chain', g, h)
      <4>1. Apart(chain, g, h)
        BY <3>1 DEF ValidChain
      <4>2. chain'[g] = chain[g] /\ chain'[h] = chain[h]
        BY <3>1
      <4> QED BY <4>1, <4>2 DEF Apart
    <3> QED BY <3>2, <3>3, <3>4
  <2> QED BY <2>1, <2>2
<1> QED BY <1>5 DEF ValidChain

LEMMA ChainStaysValid ==
  ASSUME TypeOK, TypeOK', ValidChain(chain), [Next]_vars
  PROVE  ValidChain(chain)'
<1>1. CASE UNCHANGED chain
  <2>1. chain \in Seq(CompactBlock)
    BY DEF TypeOK, NetTypeOK
  <2>2. \A bs \in Seq(CompactBlock) : ValidChain(bs) => ValidChain(bs)'
    BY ValidStays
  <2> QED BY <1>1, <2>1, <2>2 DEF ValidChain, GenuineTx, SpendsBelow
<1>2. CASE \E h \in 0 .. Len(chain) : Reorg(h)
  <2>1. PICK h \in 0 .. Len(chain) : Reorg(h)
    BY <1>2
  <2>2. chain \in Seq(CompactBlock) /\ chain' = SubSeq(chain, 1, h) /\ own' = own
    BY <2>1 DEF TypeOK, NetTypeOK, Reorg
  <2>3. ValidChain(SubSeq(chain, 1, h))
    <3>1. /\ SubSeq(chain, 1, h) \in Seq(CompactBlock)
          /\ Len(SubSeq(chain, 1, h)) <= Len(chain)
          /\ \A k \in 1 .. Len(SubSeq(chain, 1, h)) : SubSeq(chain, 1, h)[k] = chain[k]
      BY <2>2, SubSeqAt
    <3> QED BY <2>2, <3>1, ValidPrefix
  <2> QED BY <2>2, <2>3 DEF ValidChain, GenuineTx, SpendsBelow, Known
<1>3. CASE MineBlock
  BY <1>3, MineValid
<1> QED BY <1>1, <1>2, <1>3
        DEF Next, NetNext, OtherDeviceSpends, AdvanceByBlock, BuildSpend,
            StoreDecryptedTx, RewindToHeight, CrashInRewind, vars, netVars

----------------------------------------------------------------------------
(* A scan of the block above the tip.                                         *)

Found == WalletTxs(chain[Tip + 1].txs)
Marks == MarkSpent(Found)
Overdue(t) == txBlock'[t] = None /\ txExpiry[t] # None /\ txExpiry[t] < Tip + 1

LEMMA ScanFacts ==
  ASSUME TypeOK, AdvanceByBlock
  PROVE  /\ Tip \in Nat /\ Tip + 1 \in 1 .. Len(chain) /\ Tip' = Tip + 1
         /\ chain[Tip + 1] \in CompactBlock
         /\ blocks' = Append(blocks, chain[Tip + 1])
         /\ Found \in SUBSET chain[Tip + 1].txs
         /\ \A t \in Tx : txBlock'[t] = IF t \in Hashes(Found) THEN Tip + 1
                                                               ELSE txBlock[t]
         /\ \A n \in Pays : nf'[n] = IF n \in Hashes(Found)
                                     THEN HashAt(chain, Tip + 1) ELSE nf[n]
         /\ UNCHANGED <<chain, epoch, own, txExpiry, torn>>
<1>1. Tip \in Nat /\ Tip + 1 \in 1 .. Len(chain)
  BY TipType DEF AdvanceByBlock
<1>2. chain[Tip + 1] \in CompactBlock
  BY <1>1, HashAtType DEF TypeOK, NetTypeOK
<1>3. Tip' = Tip + 1 /\ blocks' = Append(blocks, chain[Tip + 1])
  BY <1>2, AppendType DEF AdvanceByBlock, TypeOK, Tip
<1>4. txBlock' = PutTxMeta(Found, Tip + 1)
      /\ nf' = PutReceivedNotes(Found, HashAt(chain, Tip + 1))
  BY DEF AdvanceByBlock, Found
<1> QED BY <1>1, <1>2, <1>3, <1>4
        DEF PutTxMeta, PutReceivedNotes, Found, WalletTxs, AdvanceByBlock, netVars

\* A note is marked by the spend found in the block, if it is looked for, and
\* otherwise keeps its mark.
LEMMA MarkFacts ==
  ASSUME NEW n \in Pays
  PROVE  \/ /\ <<n, nf[n]>> \in GetNullifiers
            /\ \E x \in Found : <<n, nf[n]>> \in x.spends /\ Marks[n] = x.hash
         \/ /\ \/ <<n, nf[n]>> \notin GetNullifiers
               \/ \A x \in Found : <<n, nf[n]>> \notin x.spends
            /\ Marks[n] = spent[n]
  BY DEF Marks, MarkSpent

LEMMA UnlockFacts ==
  ASSUME TypeOK, AdvanceByBlock, NEW n \in Pays
  PROVE  IF Marks[n] # None /\ Overdue(Marks[n]) THEN spent'[n] = None
                                                 ELSE spent'[n] = Marks[n]
<1>1. spent' = UpdateExpiredNotes(Marks, txBlock', Tip + 1)
  BY DEF AdvanceByBlock, Marks, Found
<1> QED BY <1>1 DEF UpdateExpiredNotes, Overdue

LEMMA FoundIsGenuine ==
  ASSUME TypeOK, ValidChain(chain), AdvanceByBlock, NEW x \in Found
  PROVE  x.hash \in Hashes(Found) /\ x.hash \in Tx /\ GenuineTx(x, Tip + 1)
<1>1. x \in chain[Tip + 1].txs /\ Tip + 1 \in 1 .. Len(chain)
      /\ chain[Tip + 1] \in CompactBlock
  BY ScanFacts
<1> QED BY <1>1 DEF Hashes, ValidChain, CompactBlock, CompactTx

----------------------------------------------------------------------------
(* Locks end with the spend they protect.                                     *)

\* A spend that a scanned block contains was built, and was not yet expired there.
MinedInTime ==
  \A t \in Spend : Mined(t) => Known(t) /\ txBlock[t] <= own[t].expiry

\* The wallet knows when its own spends expire.
ExpiryKnown ==
  \A t \in Spend : own[t].by = "wallet" => txExpiry[t] = own[t].expiry

\* A note is marked by a spend that reveals it.
Marked(n) == spent[n] # None
MarksAreSpends ==
  \A n \in Pays : Marked(n) =>
    /\ spent[n] \in Spend /\ Known(spent[n])
    /\ \E y \in own[spent[n]].spends : y[1] = n

\* While a cut rewind waits to be made good, a lock may outlive its spend, but not
\* one that was still to be mined at the target of the rewind.
LocksEnd ==
  \A n \in Pays : Marked(n) /\ own[spent[n]].by = "wallet" =>
    \/ Mined(spent[n])
    \/ Tip <= own[spent[n]].expiry
    \/ torn # None /\ torn <= own[spent[n]].expiry

LockInv == ValidChain(chain) /\ MinedInTime /\ ExpiryKnown /\ MarksAreSpends /\ LocksEnd

LEMMA OwnType ==
  ASSUME TypeOK, NEW t \in Spend
  PROVE  /\ own[t].by \in Builder /\ own[t].expiry \in Nat
         /\ own[t].spends \subseteq Nullifier /\ t \in Tx
  BY DEF TypeOK, NetTypeOK, Spend

LEMMA AdvanceLock ==
  ASSUME TypeOK, TypeOK', LockInv, AdvanceByBlock
  PROVE  MinedInTime' /\ ExpiryKnown' /\ MarksAreSpends' /\ LocksEnd'
<1>1. /\ Tip \in Nat /\ Tip' = Tip + 1 /\ ValidChain(chain)
      /\ UNCHANGED <<own, txExpiry, torn>>
  BY ScanFacts DEF LockInv
<1>2. ASSUME NEW t \in Spend, Mined(t)'
      PROVE  Known(t) /\ txBlock'[t] <= own[t].expiry
  <2>1. CASE t \in Hashes(Found)
    <3>1. PICK x \in Found : x.hash = t
      BY <2>1 DEF Hashes
    <3> QED BY <2>1, <3>1, ScanFacts, FoundIsGenuine, <1>1 DEF GenuineTx
  <2>2. CASE t \notin Hashes(Found)
    BY <1>2, <2>2, ScanFacts, OwnType DEF LockInv, MinedInTime, Mined
  <2> QED BY <2>1, <2>2
<1>3. ASSUME NEW n \in Pays, NEW t, t = spent'[n], t # None
      PROVE  /\ t \in Spend /\ Known(t) /\ \E y \in own[t].spends : y[1] = n
             /\ own[t].by = "wallet" => Mined(t)' \/ Tip' <= own[t].expiry
  <2>1. t = Marks[n] /\ ~Overdue(t)
    BY <1>3, UnlockFacts
  <2>2. CASE \E x \in Found : <<n, nf[n]>> \in x.spends /\ t = x.hash
    <3>1. PICK x \in Found : <<n, nf[n]>> \in x.spends /\ t = x.hash
      BY <2>2
    <3>2. t \in Hashes(Found) /\ t \in Tx /\ GenuineTx(x, Tip + 1)
      BY <1>1, <3>1, FoundIsGenuine
    <3>3. t \in Spend /\ Known(t) /\ x.spends = own[t].spends
      BY <3>1, <3>2 DEF GenuineTx, Spend
    <3>4. Mined(t)'
      BY <1>1, <3>2, ScanFacts DEF Mined
    <3> QED BY <3>1, <3>3, <3>4
  <2>3. CASE t = spent[n]
    <3>1. t \in Spend /\ Known(t) /\ \E y \in own[t].spends : y[1] = n
      BY <1>3, <2>3 DEF LockInv, MarksAreSpends, Marked
    <3>2. ASSUME own[t].by = "wallet"
          PROVE  Mined(t)' \/ Tip' <= own[t].expiry
      <4>1. txExpiry[t] = own[t].expiry /\ own[t].expiry \in Nat
        BY <3>1, <3>2, OwnType DEF LockInv, ExpiryKnown
      <4> QED BY <1>1, <2>1, <4>1 DEF Overdue, Mined
    <3> QED BY <3>1, <3>2
  <2> QED BY <2>1, <2>2, <2>3, MarkFacts
<1>4. MinedInTime'
  BY <1>1, <1>2 DEF MinedInTime, Known
<1>5. ExpiryKnown'
  BY <1>1 DEF LockInv, ExpiryKnown
<1>6. MarksAreSpends' /\ LocksEnd'
  <2>1. ASSUME NEW n \in Pays, Marked(n)'
        PROVE  /\ spent'[n] \in Spend /\ Known(spent'[n])
               /\ \E y \in own[spent'[n]].spends : y[1] = n
               /\ own[spent'[n]].by = "wallet" => \/ txBlock'[spent'[n]] # None
                                                 \/ Tip' <= own[spent'[n]].expiry
    BY <1>3, <2>1 DEF Marked, Mined
  <2> QED BY <1>1, <2>1 DEF MarksAreSpends, LocksEnd, Known, Mined
<1> QED BY <1>4, <1>5, <1>6

(* A rewind, whole or cut short.  The notes above the target keep their       *)
(* columns: by the time they are looked for their transaction has no block.   *)
LEMMA RewindFacts ==
  ASSUME TypeOK, NEW h \in 0 .. Tip, RewindToHeight(h)
  PROVE  /\ Tip \in Nat /\ h < Tip /\ Tip' = h
         /\ blocks' = SubSeq(blocks, 1, h)
         /\ \A t \in Tx : txBlock'[t] = IF Mined(t) /\ txBlock[t] > h THEN None
                                                                     ELSE txBlock[t]
         /\ \A n \in Pays : nf'[n] = nf[n] /\ spent'[n] = spent[n]
         /\ torn' = IF torn # None /\ h <= torn THEN None ELSE torn
         /\ torn \in Nat \cup {None}
         /\ UNCHANGED <<chain, epoch, own, txExpiry, highest, displaced>>
<1>1. Tip \in Nat /\ h < Tip
  BY TipType DEF RewindToHeight, RewindAllowed
<1>2. blocks' = SubSeq(blocks, 1, h) /\ Tip' = h
  BY <1>1, SubSeqType DEF RewindToHeight, TypeOK, Tip
<1>3. \A t \in Tx : txBlock'[t] = IF Mined(t) /\ txBlock[t] > h THEN None ELSE txBlock[t]
  BY DEF RewindToHeight, UnmineTransactions
<1>4. \A t \in Tx : ~(txBlock'[t] # None /\ txBlock'[t] > h)
  BY <1>3 DEF Mined
<1>5. \A n \in Pays : nf'[n] = nf[n] /\ spent'[n] = spent[n]
  BY <1>4 DEF RewindToHeight, RewindNotes
<1> QED BY <1>1, <1>2, <1>3, <1>5 DEF RewindToHeight, netVars, TypeOK

LEMMA CrashFacts ==
  ASSUME TypeOK, NEW h \in 0 .. Tip, CrashInRewind(h)
  PROVE  /\ Tip \in Nat /\ h < Tip /\ Tip' = Tip
         /\ \A t \in Tx : \/ txBlock'[t] = txBlock[t]
                          \/ Mined(t) /\ txBlock[t] > h /\ txBlock'[t] = None
         /\ torn' \in Nat /\ torn' <= h /\ (torn # None => torn' <= torn)
         /\ torn \in Nat \cup {None}
         /\ UNCHANGED <<chain, epoch, own, blocks, txExpiry, nf, spent, highest,
                        displaced>>
<1>1. Tip \in Nat /\ Tip' = Tip /\ h < Tip
  BY TipType DEF CrashInRewind, RewindAllowed, Tip
<1>2. torn' \in Nat /\ torn' <= h /\ (torn # None => torn' <= torn)
      /\ torn \in Nat \cup {None}
  BY <1>1 DEF CrashInRewind, TypeOK
<1> QED BY <1>1, <1>2 DEF CrashInRewind, UnmineTransactions, netVars

LEMMA RewindLock ==
  ASSUME TypeOK, LockInv, NEW h \in 0 .. Tip, RewindToHeight(h) \/ CrashInRewind(h)
  PROVE  MinedInTime' /\ ExpiryKnown' /\ MarksAreSpends' /\ LocksEnd'
<1>1. /\ UNCHANGED <<own, txExpiry>> /\ Tip \in Nat /\ h < Tip
      /\ \A n \in Pays : spent'[n] = spent[n]
      /\ \A t \in Tx : \/ txBlock'[t] = txBlock[t]
                       \/ Mined(t) /\ txBlock[t] > h /\ txBlock'[t] = None
  BY RewindFacts, CrashFacts
<1>2. MinedInTime' /\ ExpiryKnown' /\ MarksAreSpends'
  BY <1>1, OwnType
     DEF LockInv, MinedInTime, ExpiryKnown, MarksAreSpends, Mined, Known, Marked
<1>3. ASSUME NEW n \in Pays, NEW t, t = spent[n], t # None, own[t].by = "wallet"
      PROVE  \/ Mined(t)' \/ Tip' <= own[t].expiry
             \/ torn' # None /\ torn' <= own[t].expiry
  <2>1. t \in Spend /\ t \in Tx /\ own[t].expiry \in Nat
    BY <1>3, OwnType DEF LockInv, MarksAreSpends, Marked
  <2>2. \/ Mined(t) \/ Tip <= own[t].expiry
        \/ torn # None /\ torn <= own[t].expiry
    BY <1>3 DEF LockInv, LocksEnd, Marked
  <2>3. Mined(t) => txBlock[t] <= own[t].expiry /\ txBlock[t] \in Nat
    BY <2>1, <1>1 DEF LockInv, MinedInTime, TypeOK, Mined
  <2>4. CASE RewindToHeight(h)
    BY <1>1, <2>1, <2>2, <2>3, <2>4, RewindFacts DEF Mined
  <2>5. CASE CrashInRewind(h)
    BY <1>1, <2>1, <2>2, <2>3, <2>5, CrashFacts DEF Mined
  <2> QED BY <2>4, <2>5
<1>4. LocksEnd'
  BY <1>1, <1>3 DEF LocksEnd, Marked, Mined
<1> QED BY <1>2, <1>4

(* Building a spend: its notes are marked, and nobody knew it before.         *)
Built(t, rows) ==
  LET revealed == {<<w.note, w.pos>> : w \in rows} IN
  /\ ~Known(t)
  /\ own'[t].by = "wallet" /\ own'[t].spends = revealed
  /\ own'[t].expiry = Tip + 1 + ExpiryDelta
  /\ txExpiry'[t] = Tip + 1 + ExpiryDelta
  /\ \A u \in Spend \ {t} : own'[u] = own[u] /\ txExpiry'[u] = txExpiry[u]
  /\ \A n \in Pays : spent'[n] = IF <<n, nf[n]>> \in revealed THEN t ELSE spent[n]
  /\ UNCHANGED <<chain, epoch, blocks, txBlock, nf, witnesses, histVars>>

LEMMA BuildFacts ==
  ASSUME TypeOK, NEW t \in Spend, BuildSpend(t)
  PROVE  \E rows \in SUBSET GetUnspentSaplingNotes : Built(t, rows)
<1>1. PICK rows \in SUBSET GetUnspentSaplingNotes : StoreSentTx(t, rows)
  BY DEF BuildSpend
<1> DEFINE revealed == {<<w.note, w.pos>> : w \in rows}
           e == Tip + 1 + ExpiryDelta
<1>2. /\ own' = [own EXCEPT ![t] = [by |-> "wallet", spends |-> revealed, expiry |-> e]]
      /\ txExpiry' = [txExpiry EXCEPT ![t] = e]
      /\ spent' = [n \in Pays |-> IF <<n, nf[n]>> \in revealed THEN t ELSE spent[n]]
  BY <1>1 DEF StoreSentTx
<1> HIDE DEF revealed, e
<1>3. own'[t] = [by |-> "wallet", spends |-> revealed, expiry |-> e] /\ txExpiry'[t] = e
  BY <1>2 DEF TypeOK, NetTypeOK
<1>4. \A u \in Spend \ {t} : own'[u] = own[u] /\ txExpiry'[u] = txExpiry[u]
  BY <1>2 DEF TypeOK, NetTypeOK
<1>5. own'[t].by = "wallet" /\ own'[t].spends = revealed /\ own'[t].expiry = e
  BY <1>3
<1>6. \A n \in Pays : spent'[n] = IF <<n, nf[n]>> \in revealed THEN t ELSE spent[n]
  BY <1>2
<1>7. ~Known(t) /\ UNCHANGED <<chain, epoch, blocks, txBlock, nf, witnesses, histVars>>
  BY DEF BuildSpend, Known
<1> QED BY <1>3, <1>4, <1>5, <1>6, <1>7 DEF Built, revealed, e

LEMMA BuildLock ==
  ASSUME TypeOK, LockInv, NEW t \in Spend, BuildSpend(t)
  PROVE  MinedInTime' /\ ExpiryKnown' /\ MarksAreSpends' /\ LocksEnd'
<1> USE DEF Built
<1>1. PICK rows \in SUBSET GetUnspentSaplingNotes : Built(t, rows)
  BY BuildFacts
<1>2. Tip \in Nat /\ Tip' = Tip /\ torn' = torn
  BY <1>1, TipType DEF Tip, histVars
<1>3. MinedInTime'
  BY <1>1 DEF LockInv, MinedInTime, Mined, Known
<1>4. ExpiryKnown'
  BY <1>1 DEF LockInv, ExpiryKnown
<1>5. ASSUME NEW n \in Pays, <<n, nf[n]>> \in own'[t].spends
      PROVE  /\ t \in Spend /\ Known(t)' /\ \E y \in own'[t].spends : y[1] = n
             /\ Tip' <= own'[t].expiry
  <2>1. t \in Spend /\ Known(t)'
    BY <1>1 DEF Known
  <2>2. \E y \in own'[t].spends : y[1] = n
    BY <1>5
  <2>3. Tip' <= own'[t].expiry
    BY <1>1, <1>2
  <2> QED BY <2>1, <2>2, <2>3
<1>6. ASSUME NEW n \in Pays, spent[n] # None
      PROVE  /\ spent[n] \in Spend \ {t} /\ own'[spent[n]] = own[spent[n]]
             /\ Known(spent[n]) /\ \E y \in own[spent[n]].spends : y[1] = n
  BY <1>1, <1>6 DEF LockInv, MarksAreSpends, Marked
<1>7. MarksAreSpends'
  BY <1>1, <1>5, <1>6 DEF MarksAreSpends, Marked, Known
<1>8. LocksEnd'
  BY <1>1, <1>2, <1>5, <1>6 DEF LockInv, LocksEnd, Marked, Mined
<1> QED BY <1>3, <1>4, <1>7, <1>8

LEMMA OtherLock ==
  ASSUME TypeOK, LockInv,
         \/ NetNext /\ UNCHANGED <<dbVars, histVars>>
         \/ \E t \in Spend : StoreDecryptedTx(t)
         \/ UNCHANGED vars
  PROVE  MinedInTime' /\ ExpiryKnown' /\ MarksAreSpends' /\ LocksEnd'
<1>1. UNCHANGED <<blocks, txBlock, spent, torn>> /\ Tip' = Tip
  BY DEF StoreDecryptedTx, dbVars, histVars, vars, Tip
<1>2. ASSUME NEW t \in Spend
      PROVE  own'[t] = own[t] \/ (~Known(t) /\ own'[t].by = "other")
  <2>1. CASE \E u \in Spend : OtherDeviceSpends(u)
    BY <2>1 DEF OtherDeviceSpends, Known, TypeOK, NetTypeOK
  <2> QED BY <2>1 DEF NetNext, MineBlock, Reorg, StoreDecryptedTx, vars, netVars
<1>3. \A t \in Spend : txExpiry'[t] \in {txExpiry[t], own[t].expiry}
  <2>1. CASE \E u \in Spend : StoreDecryptedTx(u)
    BY <2>1 DEF StoreDecryptedTx, TypeOK
  <2> QED BY <2>1 DEF dbVars, vars
<1>4. \A t \in Spend : Known(t) => own'[t] = own[t]
  BY <1>2
<1>5. MinedInTime' /\ MarksAreSpends'
  BY <1>1, <1>4 DEF LockInv, MinedInTime, MarksAreSpends, Mined, Marked, Known
<1>6. ExpiryKnown'
  BY <1>2, <1>3 DEF LockInv, ExpiryKnown
<1>7. LocksEnd'
  <2>1. \A n \in Pays : Marked(n) => own'[spent[n]] = own[spent[n]]
    BY <1>4 DEF LockInv, MarksAreSpends
  <2> QED BY <1>1, <2>1 DEF LockInv, LocksEnd, Marked, Mined
<1> QED BY <1>5, <1>6, <1>7

LEMMA LockStep ==
  ASSUME TypeOK, TypeOK', LockInv, [Next]_vars
  PROVE  LockInv'
<1>1. ValidChain(chain)'
  BY ChainStaysValid DEF LockInv
<1>2. MinedInTime' /\ ExpiryKnown' /\ MarksAreSpends' /\ LocksEnd'
  BY AdvanceLock, RewindLock, BuildLock, OtherLock DEF Next
<1> QED BY <1>1, <1>2 DEF LockInv

LEMMA InitLock == Init => LockInv
<1> SUFFICES ASSUME Init
             PROVE  LockInv
  OBVIOUS
<1>1. ValidChain(chain)
  BY DEF Init, NetInit, ValidChain
<1>2. MinedInTime /\ ExpiryKnown /\ MarksAreSpends /\ LocksEnd
  BY DEF Init, NetInit, MinedInTime, ExpiryKnown, MarksAreSpends, LocksEnd, Mined,
         Marked, Spend
<1> QED BY <1>1, <1>2 DEF LockInv

(* A lock the wallet set ends with the spend it protects, for every order of  *)
(* scans, spends, rewinds, cut rewinds and reorganisations: the note is spent *)
(* on chain or free again once the spend can no longer be mined.              *)
THEOREM LocksEndInTime == Spec => []LocksExpire
<1>1. TypeOK /\ TypeOK' /\ LockInv /\ [Next]_vars => LockInv'
  BY LockStep
<1>2. LockInv => LocksExpire
  BY DEF LockInv, LocksEnd, LocksExpire, Marked
<1> QED BY InitLock, <1>1, <1>2, TypeCorrect, PTL DEF Spec

----------------------------------------------------------------------------
(* The blocks the wallet scanned.  A block of the wallet's that the chain has *)
(* too follows the same blocks on both, since an epoch starts at a            *)
(* reorganisation: what validate_chain compares at the tip decides for all of *)
(* them.                                                                      *)

EpochInv ==
  /\ \A h \in 1 .. Len(chain) : chain[h].epoch <= epoch
  /\ \A h \in 1 .. Len(blocks) :
       /\ blocks[h].epoch <= epoch
       /\ blocks[h].epoch = epoch => h <= Len(chain)
       /\ h <= Len(chain) /\ blocks[h].epoch = chain[h].epoch =>
            \A k \in 1 .. h : blocks[k] = chain[k]

\* The columns of a mined transaction and its note name the block it is in.
MinedInv ==
  \A t \in Tx : Mined(t) =>
    /\ txBlock[t] \in 1 .. Len(blocks) /\ t \in Hashes(blocks[txBlock[t]].txs)
    /\ t \in Pays => nf[t] = HashAt(blocks, txBlock[t])

\* A witness is of a mined note, from its block on, at its position.
WitnessInv ==
  \A w \in witnesses :
    /\ Mined(w.note) /\ txBlock[w.note] <= w.block
    /\ w.pos = HashAt(blocks, txBlock[w.note])

\* A note revealed in a scanned block is marked by a transaction mined by then,
\* up to the target of a rewind that was cut short.
SpendSeen ==
  \A n \in Pays : \A h \in 1 .. Len(blocks) :
    /\ torn # None => h <= torn
    /\ Mined(n)
    /\ <<n, nf[n]>> \in Revealed(blocks[h].txs)
    => /\ spent[n] \in Tx
       /\ Mined(spent[n]) /\ txBlock[spent[n]] <= h

\* A spend of the wallet's that no scan displaced holds the notes it reveals, as
\* far up as it may be mined.
LockHeld ==
  \A u \in Spend : own[u].by = "wallet" /\ u \notin displaced
                     /\ highest <= own[u].expiry
    => \A x \in own[u].spends : x[1] \in Pays /\ spent[x[1]] = u

BlockInv == EpochInv /\ ValidChain(blocks) /\ MinedInv
NoteInv == WitnessInv /\ SpendSeen /\ LockHeld

\* While the caller validates the chain, a scan leaves the wallet with the chain's
\* own blocks.
LEMMA ScannedBlocks ==
  ASSUME Validated, TypeOK, EpochInv, AdvanceByBlock
  PROVE  /\ Tip \in Nat /\ Len(blocks) = Tip /\ Len(blocks') = Tip + 1
         /\ Tip + 1 \in 1 .. Len(chain) /\ chain[Tip + 1] \in CompactBlock
         /\ chain' = chain /\ epoch' = epoch
         /\ \A k \in 1 .. Tip : blocks'[k] = blocks[k] /\ blocks[k] = chain[k]
         /\ \A k \in 1 .. Tip + 1 : blocks'[k] = chain[k]
<1>1. /\ Tip \in Nat /\ Len(blocks) = Tip /\ Tip + 1 \in 1 .. Len(chain)
      /\ chain[Tip + 1] \in CompactBlock /\ blocks' = Append(blocks, chain[Tip + 1])
      /\ chain' = chain /\ epoch' = epoch
  BY ScanFacts, TipType
<1>2. /\ Len(blocks') = Tip + 1 /\ blocks'[Tip + 1] = chain[Tip + 1]
      /\ \A k \in 1 .. Tip : blocks'[k] = blocks[k]
  BY <1>1, AppendAt DEF TypeOK
<1>3. \A k \in 1 .. Tip : blocks[k] = chain[k]
  <2>1. CASE Tip = 0
    BY <2>1
  <2>2. CASE Tip > 0
    <3>1. Tip \in 1 .. Len(blocks) /\ Tip <= Len(chain)
      BY <1>1, <2>2
    <3>2. blocks[Tip].epoch = chain[Tip].epoch
      BY <2>2 DEF AdvanceByBlock, LinksToTip, HashAt
    <3> QED BY <3>1, <3>2 DEF EpochInv
  <2> QED BY <1>1, <2>1, <2>2
<1> QED BY <1>1, <1>2, <1>3

LEMMA AdvanceBlocks ==
  ASSUME Validated, TypeOK, TypeOK', LockInv, BlockInv, AdvanceByBlock
  PROVE  BlockInv'
<1>1. /\ Tip \in Nat /\ Len(blocks) = Tip /\ Len(blocks') = Tip + 1
      /\ Tip + 1 \in 1 .. Len(chain) /\ chain' = chain /\ epoch' = epoch
      /\ \A k \in 1 .. Tip : blocks'[k] = blocks[k] /\ blocks[k] = chain[k]
      /\ \A k \in 1 .. Tip + 1 : blocks'[k] = chain[k]
      /\ own' = own
  BY ScannedBlocks, ScanFacts DEF BlockInv
<1>2. EpochInv'
  <2>1. \A h \in 1 .. Len(chain) : chain[h].epoch <= epoch
    BY DEF BlockInv, EpochInv
  <2>2. ASSUME NEW h \in 1 .. Tip + 1
        PROVE  /\ blocks'[h].epoch <= epoch /\ h <= Len(chain)
               /\ \A k \in 1 .. h : blocks'[k] = chain[k]
    BY <1>1, <2>1
  <2> QED BY <1>1, <2>1, <2>2 DEF EpochInv
<1>3. ValidChain(blocks)'
  <2>1. /\ chain \in Seq(CompactBlock) /\ blocks' \in Seq(CompactBlock)
        /\ ValidChain(chain) /\ Len(blocks') <= Len(chain)
    BY <1>1 DEF TypeOK, NetTypeOK, LockInv
  <2>2. ValidChain(blocks')
    BY <1>1, <2>1, ValidPrefix
  <2> QED BY <1>1, <2>2 DEF ValidChain, GenuineTx, SpendsBelow, Known
<1>4. MinedInv'
  <2>1. ASSUME NEW t \in Tx, Mined(t)'
        PROVE  /\ txBlock'[t] \in 1 .. Tip + 1
               /\ t \in Hashes(blocks'[txBlock'[t]].txs)
               /\ t \in Pays => nf'[t] = HashAt(blocks', txBlock'[t])
    <3>1. CASE t \in Hashes(Found)
      <4>1. txBlock'[t] = Tip + 1 /\ (t \in Pays => nf'[t] = HashAt(chain, Tip + 1))
        BY <3>1, ScanFacts
      <4>2. t \in Hashes(chain[Tip + 1].txs)
        BY <3>1, ScanFacts DEF Hashes
      <4> QED BY <1>1, <4>1, <4>2 DEF HashAt
    <3>2. CASE t \notin Hashes(Found)
      <4>1. txBlock'[t] = txBlock[t] /\ (t \in Pays => nf'[t] = nf[t]) /\ Mined(t)
        BY <2>1, <3>2, ScanFacts DEF Mined
      <4>2. /\ txBlock[t] \in 1 .. Tip /\ t \in Hashes(blocks[txBlock[t]].txs)
            /\ t \in Pays => nf[t] = HashAt(blocks, txBlock[t])
        BY <1>1, <4>1 DEF BlockInv, MinedInv
      <4> QED BY <1>1, <4>1, <4>2 DEF HashAt
    <3> QED BY <3>1, <3>2
  <2> QED BY <1>1, <2>1 DEF MinedInv, Mined
<1> QED BY <1>2, <1>3, <1>4 DEF BlockInv

LEMMA RewindBlocks ==
  ASSUME TypeOK, BlockInv, NEW h \in 0 .. Tip, RewindToHeight(h)
  PROVE  BlockInv'
<1>1. /\ Tip \in Nat /\ Len(blocks) = Tip /\ h < Tip
      /\ blocks' = SubSeq(blocks, 1, h) /\ Len(blocks') = h
      /\ \A k \in 1 .. h : blocks'[k] = blocks[k]
      /\ blocks' \in Seq(CompactBlock)
      /\ UNCHANGED <<chain, epoch, own>>
  <2>1. /\ Tip \in Nat /\ h < Tip /\ blocks' = SubSeq(blocks, 1, h)
        /\ UNCHANGED <<chain, epoch, own>>
    BY RewindFacts
  <2>2. blocks \in Seq(CompactBlock) /\ Len(blocks) = Tip
    BY TipType DEF TypeOK
  <2> QED BY <2>1, <2>2, SubSeqAt
<1>2. EpochInv'
  BY <1>1 DEF BlockInv, EpochInv
<1>3. ValidChain(blocks)'
  <2>1. ValidChain(blocks')
    <3>1. /\ blocks \in Seq(CompactBlock) /\ ValidChain(blocks)
          /\ Len(blocks') <= Len(blocks)
          /\ \A k \in 1 .. Len(blocks') : blocks'[k] = blocks[k]
      BY <1>1 DEF BlockInv, TypeOK
    <3> QED BY <1>1, <3>1, ValidPrefix
  <2> QED BY <1>1, <2>1 DEF ValidChain, GenuineTx, SpendsBelow, Known
<1>4. MinedInv'
  <2>1. ASSUME NEW t \in Tx, Mined(t)'
        PROVE  /\ txBlock'[t] \in 1 .. h
               /\ t \in Hashes(blocks'[txBlock'[t]].txs)
               /\ t \in Pays => nf'[t] = HashAt(blocks', txBlock'[t])
    <3>1. Mined(t) /\ txBlock'[t] = txBlock[t] /\ ~(txBlock[t] > h)
      BY <2>1, RewindFacts DEF Mined
    <3>2. /\ txBlock[t] \in 1 .. Tip /\ t \in Hashes(blocks[txBlock[t]].txs)
          /\ t \in Pays => nf[t] = HashAt(blocks, txBlock[t])
      BY <1>1, <3>1 DEF BlockInv, MinedInv
    <3>3. t \in Pays => nf'[t] = nf[t]
      BY RewindFacts
    <3>4. txBlock[t] \in 1 .. h
      BY <1>1, <3>1, <3>2
    <3> QED BY <1>1, <3>1, <3>2, <3>3, <3>4 DEF HashAt
  <2> QED BY <1>1, <2>1 DEF MinedInv, Mined
<1> QED BY <1>2, <1>3, <1>4 DEF BlockInv

LEMMA NetBlocks ==
  ASSUME TypeOK, TypeOK', BlockInv, NetNext, UNCHANGED <<dbVars, histVars>>
  PROVE  EpochInv'
<1>1. /\ blocks' = blocks /\ blocks \in Seq(CompactBlock) /\ chain \in Seq(CompactBlock)
      /\ epoch \in Nat /\ Len(blocks) \in Nat /\ Len(chain) \in Nat
      /\ \A k \in 1 .. Len(blocks) : blocks[k].epoch \in Nat
  <2>1. /\ blocks' = blocks /\ blocks \in Seq(CompactBlock)
        /\ chain \in Seq(CompactBlock) /\ epoch \in Nat
    BY DEF TypeOK, NetTypeOK, dbVars
  <2> QED BY <2>1, EpochType
<1>2. CASE MineBlock
  <2>1. PICK txs \in SUBSET Minable :
          chain' = Append(chain, [epoch |-> epoch, txs |-> txs])
    BY <1>2 DEF MineBlock
  <2>2. [epoch |-> epoch, txs |-> txs] \in CompactBlock
    BY MinableType DEF TypeOK, NetTypeOK, CompactBlock
  <2>3. /\ Len(chain') = Len(chain) + 1 /\ epoch' = epoch
        /\ \A k \in 1 .. Len(chain) : chain'[k] = chain[k]
        /\ chain'[Len(chain) + 1].epoch = epoch
    BY <1>1, <1>2, <2>1, <2>2, AppendAt DEF MineBlock
  <2>4. \A h \in 1 .. Len(chain') : chain'[h].epoch <= epoch'
    BY <1>1, <2>3 DEF BlockInv, EpochInv
  <2>5. ASSUME NEW h \in 1 .. Len(blocks)
        PROVE  /\ blocks[h].epoch <= epoch'
               /\ blocks[h].epoch = epoch' => h <= Len(chain')
               /\ h <= Len(chain') /\ blocks[h].epoch = chain'[h].epoch =>
                    \A k \in 1 .. h : blocks[k] = chain'[k]
    <3>1. /\ blocks[h].epoch <= epoch
          /\ blocks[h].epoch = epoch => h <= Len(chain)
          /\ h <= Len(chain) /\ blocks[h].epoch = chain[h].epoch =>
               \A k \in 1 .. h : blocks[k] = chain[k]
      BY DEF BlockInv, EpochInv
    <3> QED BY <1>1, <2>3, <3>1
  <2> QED BY <1>1, <2>4, <2>5 DEF EpochInv
<1>3. CASE \E h \in 0 .. Len(chain) : Reorg(h)
  <2>1. PICK g \in 0 .. Len(chain) : Reorg(g)
    BY <1>3
  <2>2. /\ Len(chain') = g /\ epoch' = epoch + 1 /\ g < Len(chain)
        /\ \A k \in 1 .. g : chain'[k] = chain[k]
    BY <1>1, <2>1, SubSeqAt DEF Reorg
  <2>3. \A h \in 1 .. Len(chain') : chain[h].epoch \in Nat
    BY <1>1, <2>2, EpochType
  <2>4. \A h \in 1 .. Len(chain') : chain'[h].epoch <= epoch'
    BY <1>1, <2>2, <2>3 DEF BlockInv, EpochInv
  <2>5. ASSUME NEW h \in 1 .. Len(blocks)
        PROVE  /\ blocks[h].epoch <= epoch'
               /\ blocks[h].epoch = epoch' => h <= Len(chain')
               /\ h <= Len(chain') /\ blocks[h].epoch = chain'[h].epoch =>
                    \A k \in 1 .. h : blocks[k] = chain'[k]
    <3>1. /\ blocks[h].epoch <= epoch
          /\ h <= Len(chain) /\ blocks[h].epoch = chain[h].epoch =>
               \A k \in 1 .. h : blocks[k] = chain[k]
      BY DEF BlockInv, EpochInv
    <3> QED BY <1>1, <2>2, <3>1
  <2> QED BY <1>1, <2>4, <2>5 DEF EpochInv
<1>4. CASE UNCHANGED <<chain, epoch>>
  BY <1>1, <1>4 DEF BlockInv, EpochInv
<1> QED BY <1>2, <1>3, <1>4 DEF NetNext, OtherDeviceSpends

LEMMA OtherBlocks ==
  ASSUME TypeOK, TypeOK', BlockInv, [Next]_vars, UNCHANGED <<blocks, nf>>,
         \A t \in Tx : txBlock'[t] = txBlock[t] \/ txBlock'[t] = None,
         EpochInv'
  PROVE  BlockInv'
<1>1. ValidChain(blocks)'
  <2>1. blocks \in Seq(CompactBlock) /\ ValidChain(blocks)
    BY DEF TypeOK, BlockInv
  <2>2. \A bs \in Seq(CompactBlock) : ValidChain(bs) => ValidChain(bs)'
    BY ValidStays
  <2> QED BY <2>1, <2>2 DEF ValidChain, GenuineTx, SpendsBelow
<1>2. MinedInv'
  BY DEF BlockInv, MinedInv, Mined, HashAt
<1> QED BY <1>1, <1>2 DEF BlockInv

LEMMA BlockStep ==
  ASSUME Validated, TypeOK, TypeOK', LockInv, BlockInv, [Next]_vars
  PROVE  BlockInv'
<1>1. CASE AdvanceByBlock
  BY <1>1, AdvanceBlocks
<1>2. CASE \E h \in 0 .. Tip : RewindToHeight(h)
  BY <1>2, RewindBlocks
<1>3. CASE \E h \in 0 .. Tip : CrashInRewind(h)
  <2>1. /\ UNCHANGED <<chain, epoch, blocks, nf>>
        /\ \A t \in Tx : txBlock'[t] = txBlock[t] \/ txBlock'[t] = None
    BY <1>3, CrashFacts
  <2>2. EpochInv'
    BY <2>1 DEF BlockInv, EpochInv
  <2> QED BY <2>1, <2>2, OtherBlocks
<1>4. CASE NetNext /\ UNCHANGED <<dbVars, histVars>>
  BY <1>4, NetBlocks, OtherBlocks DEF dbVars
<1>5. CASE UNCHANGED <<chain, epoch, blocks, txBlock, nf>>
  <2>1. EpochInv'
    BY <1>5 DEF BlockInv, EpochInv
  <2> QED BY <1>5, <2>1, OtherBlocks
<1> QED BY <1>1, <1>2, <1>3, <1>4, <1>5
        DEF Next, BuildSpend, StoreDecryptedTx, vars, netVars, dbVars

LEMMA InitBlocks == Init => BlockInv
  BY DEF Init, NetInit, BlockInv, EpochInv, ValidChain, MinedInv, Mined

(* What the scanned blocks say of a scan.                                     *)

\* A transaction the wallet knows as mined is not in the next block.
LEMMA FoundIsNew ==
  ASSUME Validated, TypeOK, TypeOK', LockInv, BlockInv, AdvanceByBlock,
         NEW t \in Tx, Mined(t)
  PROVE  t \notin Hashes(Found) /\ txBlock'[t] = txBlock[t] /\ txBlock[t] \in 1 .. Tip
<1>1. /\ Tip \in Nat /\ Len(blocks) = Tip /\ Tip + 1 \in 1 .. Len(chain)
      /\ \A k \in 1 .. Tip : blocks[k] = chain[k]
  BY ScannedBlocks DEF BlockInv
<1>2. txBlock[t] \in 1 .. Tip /\ t \in Hashes(blocks[txBlock[t]].txs)
  BY <1>1 DEF BlockInv, MinedInv
<1>3. Apart(chain, txBlock[t], Tip + 1)
  BY <1>1, <1>2 DEF LockInv, ValidChain
<1>4. t \notin Hashes(chain[Tip + 1].txs)
  BY <1>1, <1>2, <1>3 DEF Apart
<1>5. t \notin Hashes(Found)
  BY <1>4, ScanFacts DEF Hashes
<1> QED BY <1>2, <1>5, ScanFacts

\* A note of the next block is revealed in no block up to it.
LEMMA FoundIsUnrevealed ==
  ASSUME Validated, TypeOK, TypeOK', LockInv, BlockInv, AdvanceByBlock,
         NEW n \in Pays, NEW h \in 1 .. Len(blocks'),
         <<n, nf'[n]>> \in Revealed(blocks'[h].txs)
  PROVE  n \notin Hashes(Found) /\ nf'[n] = nf[n]
<1>1. /\ Tip \in Nat /\ Len(blocks') = Tip + 1 /\ Tip + 1 \in 1 .. Len(chain)
      /\ \A k \in 1 .. Tip + 1 : blocks'[k] = chain[k]
  BY ScannedBlocks DEF BlockInv
<1>2. PICK x \in chain[h].txs : <<n, nf'[n]>> \in x.spends
  BY <1>1 DEF Revealed
<1>3. SpendsBelow(chain, x, h)
  BY <1>1, <1>2 DEF LockInv, ValidChain
<1>4. PICK k \in 1 .. h - 1 : nf'[n] = HashAt(chain, k)
  BY <1>2, <1>3 DEF SpendsBelow
<1>5. n \notin Hashes(Found)
  <2>1. SUFFICES ASSUME n \in Hashes(Found)
                 PROVE  FALSE
    OBVIOUS
  <2>2. HashAt(chain, k) = HashAt(chain, Tip + 1)
    BY <1>4, <2>1, ScanFacts
  <2>3. k = Tip + 1
    BY <2>2 DEF HashAt
  <2> QED BY <1>1, <2>3
<1> QED BY <1>5, ScanFacts

LEMMA AdvanceWitness ==
  ASSUME Validated, TypeOK, TypeOK', LockInv, BlockInv, WitnessInv, AdvanceByBlock
  PROVE  WitnessInv'
<1> DEFINE rows == InsertWitnesses(Found, Tip + 1, HashAt(chain, Tip + 1))
<1>1. /\ Tip \in Nat /\ Len(blocks) = Tip
      /\ \A k \in 1 .. Tip : blocks'[k] = blocks[k] /\ blocks[k] = chain[k]
      /\ \A k \in 1 .. Tip + 1 : blocks'[k] = chain[k]
  BY ScannedBlocks DEF BlockInv
<1>2. witnesses' \subseteq rows
  BY DEF AdvanceByBlock, PruneWitnesses, Found
<1>3. ASSUME NEW v \in witnesses, NEW g \in Nat, v.block <= g
      PROVE  /\ txBlock'[v.note] # None /\ txBlock'[v.note] <= g
             /\ v.pos = HashAt(blocks', txBlock'[v.note])
  <2>1. v.note \in Tx /\ v.block \in Nat
    BY DEF TypeOK
  <2>2. /\ Mined(v.note) /\ txBlock[v.note] <= v.block
        /\ v.pos = HashAt(blocks, txBlock[v.note])
    BY DEF WitnessInv
  <2>3. txBlock'[v.note] = txBlock[v.note] /\ txBlock[v.note] \in 1 .. Tip
    BY <2>1, <2>2, FoundIsNew
  <2>4. HashAt(blocks', txBlock[v.note]) = HashAt(blocks, txBlock[v.note])
    BY <1>1, <2>3 DEF HashAt
  <2>5. txBlock[v.note] <= g /\ txBlock[v.note] # None
    BY <1>1, <1>3, <2>1, <2>2, <2>3 DEF Mined
  <2> QED BY <2>2, <2>3, <2>4, <2>5
<1>4. ASSUME NEW w \in rows
      PROVE  /\ txBlock'[w.note] # None /\ txBlock'[w.note] <= w.block
             /\ w.pos = HashAt(blocks', txBlock'[w.note])
  <2>1. CASE w \in witnesses
    <3>1. w.block \in Nat /\ w.block <= w.block
      BY <2>1 DEF TypeOK
    <3> QED BY <1>3, <2>1, <3>1
  <2>2. CASE \E v \in GetWitnesses(Tip) : w = [v EXCEPT !.block = Tip + 1]
    <3>1. PICK v \in GetWitnesses(Tip) : w = [v EXCEPT !.block = Tip + 1]
      BY <2>2
    <3>2. /\ v \in witnesses /\ v.block = Tip
          /\ v \in [note: Pays, block: 0 .. Tip, pos: BlockHash]
      BY <3>1 DEF GetWitnesses, TypeOK
    <3>3. w.note = v.note /\ w.block = Tip + 1 /\ w.pos = v.pos
      BY <3>1, <3>2
    <3>4. Tip + 1 \in Nat /\ v.block <= Tip + 1
      BY <1>1, <3>2
    <3> QED BY <1>3, <3>2, <3>3, <3>4
  <2>3. CASE \E n \in Hashes(Found) \cap Pays :
               w = [note |-> n, block |-> Tip + 1, pos |-> HashAt(chain, Tip + 1)]
    <3>1. PICK n \in Hashes(Found) \cap Pays :
            w = [note |-> n, block |-> Tip + 1, pos |-> HashAt(chain, Tip + 1)]
      BY <2>3
    <3>2. n \in Tx /\ txBlock'[n] = Tip + 1
      BY <3>1, ScanFacts
    <3>3. w.note = n /\ w.block = Tip + 1 /\ w.pos = HashAt(chain, Tip + 1)
      BY <3>1
    <3>4. HashAt(chain, Tip + 1) = HashAt(blocks', Tip + 1)
      BY <1>1 DEF HashAt
    <3>5. Tip + 1 # None /\ Tip + 1 <= Tip + 1
      BY <1>1
    <3> QED BY <3>2, <3>3, <3>4, <3>5
  <2> QED BY <2>1, <2>2, <2>3 DEF InsertWitnesses
<1> QED BY <1>2, <1>4 DEF WitnessInv, Mined

LEMMA AdvanceSeen ==
  ASSUME Validated, TypeOK, TypeOK', LockInv, BlockInv, SpendSeen, AdvanceByBlock
  PROVE  SpendSeen'
<1>1. /\ Tip \in Nat /\ Len(blocks) = Tip /\ Len(blocks') = Tip + 1
      /\ Tip + 1 \in 1 .. Len(chain)
      /\ \A k \in 1 .. Tip : blocks'[k] = blocks[k] /\ blocks[k] = chain[k]
      /\ \A k \in 1 .. Tip + 1 : blocks'[k] = chain[k]
      /\ torn' = torn
  BY ScannedBlocks, ScanFacts DEF BlockInv
<1>2. ASSUME NEW n \in Pays, NEW h \in 1 .. Tip + 1, torn # None => h <= torn,
             txBlock'[n] # None, <<n, nf'[n]>> \in Revealed(blocks'[h].txs)
      PROVE  /\ spent'[n] \in Tx
             /\ txBlock'[spent'[n]] # None /\ txBlock'[spent'[n]] <= h
  <2>1. n \in Tx /\ nf'[n] = nf[n] /\ n \notin Hashes(Found)
    BY <1>1, <1>2, FoundIsUnrevealed
  <2>2. Mined(n) /\ nf[n] # None
    <3>1. Mined(n)
      BY <1>2, <2>1, ScanFacts DEF Mined
    <3>2. txBlock[n] \in 1 .. Tip /\ nf[n] = HashAt(blocks, txBlock[n])
      BY <1>1, <2>1, <3>1 DEF BlockInv, MinedInv
    <3>3. nf[n] \in Nat \X Nat
      BY <1>1, <3>2, HashAtType DEF BlockHash, TypeOK
    <3> QED BY <3>1, <3>3
  <2>3. ASSUME spent[n] \in Tx, Mined(spent[n])
        PROVE  /\ spent'[n] = spent[n]
               /\ txBlock'[spent[n]] = txBlock[spent[n]]
               /\ txBlock[spent[n]] \in 1 .. Tip
    <3>1. <<n, nf[n]>> \notin GetNullifiers
      BY <2>3 DEF GetNullifiers
    <3>2. Marks[n] = spent[n]
      BY <3>1, MarkFacts
    <3>3. txBlock'[spent[n]] = txBlock[spent[n]] /\ txBlock[spent[n]] \in 1 .. Tip
      BY <2>3, FoundIsNew
    <3>4. ~Overdue(spent[n])
      BY <2>3, <3>3 DEF Overdue, Mined
    <3> QED BY <3>2, <3>3, <3>4, UnlockFacts
  <2>4. CASE h <= Tip
    <3>1. spent[n] \in Tx /\ Mined(spent[n]) /\ txBlock[spent[n]] <= h
      <4>1. h \in 1 .. Len(blocks) /\ <<n, nf[n]>> \in Revealed(blocks[h].txs)
        BY <1>1, <1>2, <2>1, <2>4
      <4> QED BY <1>2, <2>2, <4>1 DEF SpendSeen
    <3> QED BY <2>3, <3>1 DEF Mined
  <2>5. CASE h = Tip + 1
    <3>1. PICK x \in chain[Tip + 1].txs : <<n, nf[n]>> \in x.spends
      BY <1>1, <1>2, <2>1, <2>5 DEF Revealed
    <3>2. CASE <<n, nf[n]>> \in GetNullifiers
      <4>1. x \in Found
        BY <3>1, <3>2 DEF Found, WalletTxs
      <4>2. PICK z \in Found : Marks[n] = z.hash
        BY <3>1, <3>2, <4>1, MarkFacts
      <4>3. z.hash \in Tx /\ txBlock'[z.hash] = Tip + 1
        BY <4>2, FoundIsGenuine, ScanFacts DEF LockInv
      <4>4. ~Overdue(z.hash) /\ Tip + 1 # None
        BY <1>1, <4>3 DEF Overdue
      <4>5. spent'[n] = z.hash
        BY <4>2, <4>4, UnlockFacts
      <4> QED BY <1>1, <2>5, <4>3, <4>4, <4>5
    <3>3. CASE <<n, nf[n]>> \notin GetNullifiers
      <4>1. spent[n] # None /\ Mined(spent[n])
        BY <2>2, <3>3 DEF GetNullifiers
      <4>2. spent[n] \in Tx
        BY <4>1 DEF TypeOK
      <4>3. txBlock[spent[n]] \in 1 .. Tip /\ txBlock[spent[n]] # None
        BY <2>3, <4>1, <4>2 DEF Mined
      <4> QED BY <1>1, <2>3, <2>5, <4>1, <4>2, <4>3
    <3> QED BY <3>2, <3>3
  <2> QED BY <1>1, <2>4, <2>5
<1> QED BY <1>1, <1>2 DEF SpendSeen, Mined

LEMMA AdvanceHeld ==
  ASSUME TypeOK, TypeOK', LockInv, LockHeld, AdvanceByBlock
  PROVE  LockHeld'
<1>1. /\ Tip \in Nat /\ own' = own /\ txExpiry' = txExpiry /\ highest \in Nat
      /\ highest' >= highest /\ highest' >= Tip + 1 /\ highest' \in Nat
      /\ displaced' = displaced \cup Replaced(Marks)
  BY ScanFacts DEF AdvanceByBlock, TypeOK, Marks, Found
<1>2. ASSUME NEW u \in Spend, own[u].by = "wallet", u \notin displaced',
             highest' <= own[u].expiry, NEW x \in own[u].spends
      PROVE  x[1] \in Pays /\ spent'[x[1]] = u
  <2>1. own[u].expiry \in Nat /\ u \in Tx
    BY <1>2, OwnType
  <2>2. x[1] \in Pays /\ spent[x[1]] = u
    BY <1>1, <1>2, <2>1 DEF LockHeld
  <2>3. Marks[x[1]] = u
    BY <1>1, <1>2, <2>1, <2>2 DEF Replaced
  <2>4. txExpiry[u] = own[u].expiry
    BY <1>2 DEF LockInv, ExpiryKnown
  <2>5. ~Overdue(u)
    BY <1>1, <1>2, <2>1, <2>4 DEF Overdue
  <2> QED BY <2>1, <2>2, <2>3, <2>5, UnlockFacts
<1> QED BY <1>1, <1>2 DEF LockHeld

(* A rewind keeps what lies below its target, whole or cut short; what a cut  *)
(* rewind took from above it, the next one takes too.                         *)
LEMMA RewindNotesInv ==
  ASSUME TypeOK, TypeOK', BlockInv, NoteInv, NEW h \in 0 .. Tip, RewindToHeight(h)
  PROVE  NoteInv'
<1>1. /\ Tip \in Nat /\ Len(blocks) = Tip /\ h < Tip /\ Len(blocks') = h
      /\ \A k \in 1 .. h : blocks'[k] = blocks[k]
      /\ \A n \in Pays : nf'[n] = nf[n] /\ spent'[n] = spent[n]
      /\ torn' = IF torn # None /\ h <= torn THEN None ELSE torn
      /\ torn \in Nat \cup {None}
      /\ UNCHANGED <<own, highest, displaced>>
  <2>1. /\ Tip \in Nat /\ h < Tip /\ blocks' = SubSeq(blocks, 1, h)
        /\ \A n \in Pays : nf'[n] = nf[n] /\ spent'[n] = spent[n]
        /\ torn' = IF torn # None /\ h <= torn THEN None ELSE torn
        /\ torn \in Nat \cup {None}
        /\ UNCHANGED <<own, highest, displaced>>
    BY RewindFacts
  <2>2. blocks \in Seq(CompactBlock) /\ Len(blocks) = Tip
    BY TipType DEF TypeOK
  <2> QED BY <2>1, <2>2, SubSeqAt
<1>2. \A t \in Tx : Mined(t) => txBlock[t] \in 1 .. Tip
  BY <1>1 DEF BlockInv, MinedInv
<1>3. \A t \in Tx : Mined(t) /\ txBlock[t] <= h =>
        txBlock'[t] = txBlock[t] /\ txBlock[t] \in 1 .. h
  BY <1>1, <1>2, RewindFacts
<1>4. \A t \in Tx : txBlock'[t] # None => Mined(t) /\ txBlock'[t] = txBlock[t]
  BY RewindFacts DEF Mined
<1>5. WitnessInv'
  <2>1. ASSUME NEW w \in witnesses'
        PROVE  /\ txBlock'[w.note] # None /\ txBlock'[w.note] <= w.block
               /\ w.pos = HashAt(blocks', txBlock'[w.note])
    <3>1. w \in witnesses /\ w.block <= h
      BY DEF RewindToHeight, DeleteWitnesses
    <3>2. w.note \in Tx /\ w.block \in Nat
      BY <3>1 DEF TypeOK
    <3>3. /\ Mined(w.note) /\ txBlock[w.note] <= w.block
          /\ w.pos = HashAt(blocks, txBlock[w.note])
      BY <3>1 DEF NoteInv, WitnessInv
    <3>4. txBlock[w.note] <= h
      BY <1>1, <1>2, <3>1, <3>2, <3>3
    <3> QED BY <1>1, <1>3, <3>2, <3>3, <3>4 DEF HashAt, Mined
  <2> QED BY <2>1 DEF WitnessInv, Mined
<1>6. SpendSeen'
  <2>1. ASSUME NEW n \in Pays, NEW k \in 1 .. h, torn' # None => k <= torn',
               txBlock'[n] # None, <<n, nf'[n]>> \in Revealed(blocks'[k].txs)
        PROVE  /\ spent'[n] \in Tx
               /\ txBlock'[spent'[n]] # None /\ txBlock'[spent'[n]] <= k
    <3>1. Mined(n) /\ (torn # None => k <= torn)
      BY <1>1, <1>4, <2>1
    <3>2. k \in 1 .. Len(blocks) /\ <<n, nf[n]>> \in Revealed(blocks[k].txs)
      BY <1>1, <2>1
    <3>3. spent[n] \in Tx /\ Mined(spent[n]) /\ txBlock[spent[n]] <= k
      BY <3>1, <3>2 DEF NoteInv, SpendSeen
    <3>4. txBlock[spent[n]] <= h
      BY <1>1, <1>2, <3>3
    <3> QED BY <1>1, <1>3, <3>3, <3>4 DEF Mined
  <2> QED BY <1>1, <2>1 DEF SpendSeen, Mined
<1>7. LockHeld'
  BY <1>1 DEF NoteInv, LockHeld
<1> QED BY <1>5, <1>6, <1>7 DEF NoteInv

LEMMA CrashNotesInv ==
  ASSUME TypeOK, TypeOK', BlockInv, NoteInv, NEW h \in 0 .. Tip, CrashInRewind(h)
  PROVE  NoteInv'
<1>1. /\ Tip \in Nat /\ Len(blocks) = Tip /\ h < Tip
      /\ torn' \in Nat /\ torn' <= h /\ (torn # None => torn' <= torn)
      /\ torn \in Nat \cup {None}
      /\ UNCHANGED <<own, blocks, nf, spent, highest, displaced>>
      /\ \A t \in Tx : \/ txBlock'[t] = txBlock[t]
                       \/ Mined(t) /\ txBlock[t] > h /\ txBlock'[t] = None
  BY CrashFacts, TipType
<1>2. \A t \in Tx : Mined(t) => txBlock[t] \in 1 .. Tip
  BY <1>1 DEF BlockInv, MinedInv
<1>3. \A t \in Tx : Mined(t) /\ txBlock[t] <= h => txBlock'[t] = txBlock[t]
  BY <1>1, <1>2
<1>4. WitnessInv'
  <2>1. ASSUME NEW w \in witnesses'
        PROVE  /\ txBlock'[w.note] # None /\ txBlock'[w.note] <= w.block
               /\ w.pos = HashAt(blocks, txBlock'[w.note])
    <3>1. w \in witnesses /\ w.block <= h
      BY DEF CrashInRewind, DeleteWitnesses
    <3>2. w.note \in Tx /\ w.block \in Nat
      BY <3>1 DEF TypeOK
    <3>3. /\ Mined(w.note) /\ txBlock[w.note] <= w.block
          /\ w.pos = HashAt(blocks, txBlock[w.note])
      BY <3>1 DEF NoteInv, WitnessInv
    <3>4. txBlock[w.note] <= h
      BY <1>1, <1>2, <3>1, <3>2, <3>3
    <3> QED BY <1>3, <3>2, <3>3, <3>4 DEF Mined
  <2> QED BY <1>1, <2>1 DEF WitnessInv, Mined, HashAt
<1>5. SpendSeen'
  <2>1. ASSUME NEW n \in Pays, NEW k \in 1 .. Len(blocks), k <= torn',
               txBlock'[n] # None, <<n, nf[n]>> \in Revealed(blocks[k].txs)
        PROVE  /\ spent[n] \in Tx
               /\ txBlock'[spent[n]] # None /\ txBlock'[spent[n]] <= k
    <3>1. Mined(n) /\ (torn # None => k <= torn) /\ k <= h
      BY <1>1, <2>1 DEF Mined
    <3>2. spent[n] \in Tx /\ Mined(spent[n]) /\ txBlock[spent[n]] <= k
      BY <2>1, <3>1 DEF NoteInv, SpendSeen
    <3>3. txBlock[spent[n]] <= h
      BY <1>1, <1>2, <3>1, <3>2
    <3> QED BY <1>3, <3>2, <3>3 DEF Mined
  <2> QED BY <1>1, <2>1 DEF SpendSeen, Mined
<1>6. LockHeld'
  BY <1>1 DEF NoteInv, LockHeld
<1> QED BY <1>4, <1>5, <1>6 DEF NoteInv

(* A spend is built from notes that are free, at the positions the wallet     *)
(* derived their nullifiers from.                                             *)
LEMMA UnspentFacts ==
  ASSUME TypeOK, BlockInv, WitnessInv, NEW w \in GetUnspentSaplingNotes
  PROVE  /\ w.note \in Pays /\ w.note \in Tx /\ Mined(w.note)
         /\ spent[w.note] = None /\ w.pos = nf[w.note]
<1>1. w \in witnesses /\ w.note \in UnspentNotes
  BY DEF GetUnspentSaplingNotes, GetWitnesses
<1>2. /\ w.note \in Pays /\ w.note \in Tx /\ Mined(w.note) /\ spent[w.note] = None
  BY <1>1 DEF UnspentNotes
<1>3. w.pos = HashAt(blocks, txBlock[w.note])
  BY <1>1 DEF WitnessInv
<1>4. nf[w.note] = HashAt(blocks, txBlock[w.note])
  BY <1>2 DEF BlockInv, MinedInv
<1> QED BY <1>2, <1>3, <1>4

LEMMA BuildNotesInv ==
  ASSUME TypeOK, BlockInv, NoteInv, NEW t \in Spend, BuildSpend(t)
  PROVE  NoteInv'
<1> USE DEF Built
<1>1. PICK rows \in SUBSET GetUnspentSaplingNotes : Built(t, rows)
  BY BuildFacts
<1> DEFINE revealed == {<<w.note, w.pos>> : w \in rows}
<1>2. \A x \in revealed : /\ x[1] \in Pays /\ spent[x[1]] = None
                          /\ x = <<x[1], nf[x[1]]>>
  BY UnspentFacts DEF NoteInv
<1>3. ASSUME NEW n \in Pays, spent[n] # None
      PROVE  spent'[n] = spent[n]
  BY <1>1, <1>2, <1>3
<1>4. WitnessInv'
  BY <1>1 DEF NoteInv, WitnessInv, Mined, HashAt
<1>5. SpendSeen'
  <2>1. ASSUME NEW n \in Pays, spent[n] \in Tx
        PROVE  spent'[n] = spent[n]
    BY <1>3, <2>1
  <2> QED BY <1>1, <2>1 DEF NoteInv, SpendSeen, Mined, histVars
<1>6. LockHeld'
  <2>1. ASSUME NEW x \in own'[t].spends
        PROVE  x[1] \in Pays /\ spent'[x[1]] = t
    BY <1>1, <1>2, <2>1
  <2>2. ASSUME NEW u \in Spend \ {t}, own[u].by = "wallet", u \notin displaced,
               highest <= own[u].expiry, NEW x \in own[u].spends
        PROVE  x[1] \in Pays /\ spent'[x[1]] = u
    <3>1. x[1] \in Pays /\ spent[x[1]] = u /\ u # None
      BY <2>2 DEF NoteInv, LockHeld, Spend
    <3> QED BY <1>3, <3>1
  <2>3. displaced' = displaced /\ highest' = highest
    BY <1>1 DEF histVars
  <2> QED BY <1>1, <2>1, <2>2, <2>3 DEF LockHeld
<1> QED BY <1>4, <1>5, <1>6 DEF NoteInv

LEMMA OtherNotesInv ==
  ASSUME TypeOK, NoteInv,
         \/ NetNext /\ UNCHANGED <<dbVars, histVars>>
         \/ \E t \in Spend : StoreDecryptedTx(t)
         \/ UNCHANGED vars
  PROVE  NoteInv'
<1>1. UNCHANGED <<blocks, txBlock, nf, spent, witnesses, histVars>>
  BY DEF StoreDecryptedTx, dbVars, vars
<1>2. \A t \in Spend : own'[t] = own[t] \/ own'[t].by = "other"
  <2>1. CASE \E u \in Spend : OtherDeviceSpends(u)
    BY <2>1 DEF OtherDeviceSpends, TypeOK, NetTypeOK
  <2> QED BY <2>1 DEF NetNext, MineBlock, Reorg, StoreDecryptedTx, vars, netVars
<1>3. WitnessInv' /\ SpendSeen'
  BY <1>1 DEF NoteInv, WitnessInv, SpendSeen, Mined, HashAt, histVars
<1>4. LockHeld'
  BY <1>1, <1>2 DEF NoteInv, LockHeld, histVars
<1> QED BY <1>3, <1>4 DEF NoteInv

LEMMA NoteStep ==
  ASSUME Validated, TypeOK, TypeOK', LockInv, BlockInv, NoteInv, [Next]_vars
  PROVE  NoteInv'
<1>1. CASE AdvanceByBlock
  BY <1>1, AdvanceWitness, AdvanceSeen, AdvanceHeld DEF NoteInv
<1> QED BY <1>1, RewindNotesInv, CrashNotesInv, BuildNotesInv, OtherNotesInv DEF Next

LEMMA InitNotesInv == Init => NoteInv
  BY DEF Init, NetInit, NoteInv, WitnessInv, SpendSeen, LockHeld, Mined

LEMMA ScanInvariant ==
  ASSUME Validated
  PROVE  Spec => [](TypeOK /\ LockInv /\ BlockInv /\ NoteInv)
<1>1. TypeOK /\ TypeOK' /\ LockInv /\ BlockInv /\ NoteInv /\ [Next]_vars
        => LockInv' /\ BlockInv' /\ NoteInv'
  BY LockStep, BlockStep, NoteStep
<1> QED BY InitLock, InitBlocks, InitNotesInv, <1>1, TypeCorrect, PTL DEF Spec

(* What the wallet offers for spending is spent in no block it has scanned,   *)
(* and its witness belongs to the nullifier it would reveal: for every order  *)
(* of scans, spends of any device, expiries, rewinds and reorganisations, as  *)
(* long as validate_chain runs before each scan.                              *)
THEOREM OfferedLive ==
  ASSUME Validated
  PROVE  Spec => []OfferedNotesAreLive
<1>1. TypeOK /\ BlockInv /\ NoteInv => OfferedNotesAreLive
  <2> SUFFICES ASSUME TypeOK, BlockInv, NoteInv, torn = None,
                      NEW w \in GetUnspentSaplingNotes
               PROVE  /\ w.pos = nf[w.note]
                      /\ \A h \in 1 .. Tip :
                           <<w.note, nf[w.note]>> \notin Revealed(blocks[h].txs)
    BY DEF OfferedNotesAreLive
  <2>1. /\ w.note \in Pays /\ Mined(w.note) /\ spent[w.note] = None
        /\ w.pos = nf[w.note]
    BY UnspentFacts DEF NoteInv
  <2>2. spent[w.note] \notin Tx
    BY <2>1
  <2> QED BY <2>1, <2>2, TipType DEF NoteInv, SpendSeen
<1> QED BY <1>1, ScanInvariant, PTL

(* No spend of the wallet's reveals a note that an earlier spend of its own   *)
(* reveals, while that one can be mined and no other transaction has been     *)
(* seen to take its place.                                                    *)
THEOREM SpendsDoNotConflict ==
  ASSUME Validated
  PROVE  Spec => NoConflictingSpend
<1>1. ASSUME TypeOK, BlockInv, NoteInv, [Next]_vars, NEW t \in Spend, NEW u \in Spend,
             own[t].by = "nobody", own'[t].by = "wallet",
             own[u].by = "wallet", u \notin displaced,
             own'[t].spends \cap own[u].spends # {}
      PROVE  own[u].expiry < highest
  <2>1. BuildSpend(t)
    <3>1. CASE \E v \in Spend : OtherDeviceSpends(v)
      BY <1>1, <3>1 DEF OtherDeviceSpends, TypeOK, NetTypeOK
    <3>2. CASE \E v \in Spend : BuildSpend(v)
      <4>1. PICK v \in Spend : BuildSpend(v)
        BY <3>2
      <4>2. \A x \in Spend \ {v} : own'[x] = own[x]
        BY <1>1, <4>1, BuildFacts DEF Built
      <4> QED BY <1>1, <4>1, <4>2
    <3>3. CASE UNCHANGED own
      BY <1>1, <3>3
    <3> QED BY <1>1, <3>1, <3>2, <3>3
            DEF Next, NetNext, MineBlock, Reorg, AdvanceByBlock, StoreDecryptedTx,
                RewindToHeight, CrashInRewind, vars, netVars
  <2>2. \A x \in own'[t].spends : spent[x[1]] = None
    <3>1. PICK rows \in SUBSET GetUnspentSaplingNotes : Built(t, rows)
      BY <1>1, <2>1, BuildFacts
    <3>2. own'[t].spends = {<<w.note, w.pos>> : w \in rows}
      BY <3>1 DEF Built
    <3>3. \A w \in GetUnspentSaplingNotes : spent[w.note] = None
      BY <1>1, UnspentFacts DEF NoteInv
    <3> QED BY <3>2, <3>3
  <2>3. PICK x \in own[u].spends : spent[x[1]] = None
    BY <1>1, <2>2
  <2>4. u # None /\ own[u].expiry \in Nat /\ highest \in Nat
    BY <1>1, OwnType DEF TypeOK
  <2> QED BY <1>1, <2>3, <2>4 DEF NoteInv, LockHeld
<1>2. TypeOK /\ BlockInv /\ NoteInv /\ [Next]_vars
        => [\A t, u \in Spend :
              /\ own[t].by = "nobody" /\ own'[t].by = "wallet"
              /\ own[u].by = "wallet" /\ u \notin displaced
              /\ own'[t].spends \cap own[u].spends # {}
              => own[u].expiry < highest]_vars
  BY <1>1
<1> QED BY <1>2, ScanInvariant, PTL DEF Spec, NoConflictingSpend
----------------------------------------------------------------------------
(* The tables of the wallet database implement the ledger of the blocks it    *)
(* scanned, while validate_chain runs before each scan and no rewind is cut   *)
(* short: every scan extends the ledger, every rewind truncates it, and       *)
(* nothing else changes it.                                                   *)

\* A payment in a scanned block is recorded as mined there.
PaymentsMined ==
  \A n \in Pays : \A k \in 1 .. Len(blocks) :
    n \in Hashes(blocks[k].txs) => txBlock[n] = k

LedgerInv ==
  /\ TypeOK /\ LockInv /\ BlockInv /\ NoteInv /\ PaymentsMined
  /\ torn = None

\* The column of ScannedLedger that received_notes.spent stands for.
ConfirmedSpend(n) ==
  IF spent[n] # None /\ Mined(spent[n]) THEN <<spent[n], txBlock[spent[n]]>> ELSE None

LEMMA PaymentsStep ==
  ASSUME Validated, ~CanCrash, LedgerInv, TypeOK', [Next]_vars
  PROVE  PaymentsMined'
<1>1. CASE AdvanceByBlock
  <2>1. /\ Tip \in Nat /\ Len(blocks) = Tip /\ Len(blocks') = Tip + 1
        /\ \A k \in 1 .. Tip : blocks'[k] = blocks[k]
        /\ \A k \in 1 .. Tip + 1 : blocks'[k] = chain[k]
    BY <1>1, ScannedBlocks DEF LedgerInv, BlockInv
  <2>2. ASSUME NEW n \in Pays, NEW k \in 1 .. Tip + 1, n \in Hashes(blocks'[k].txs)
        PROVE  txBlock'[n] = k
    <3>1. CASE k <= Tip
      <4>1. k \in 1 .. Tip /\ n \in Hashes(blocks[k].txs)
        BY <2>1, <2>2, <3>1
      <4>2. txBlock[n] = k /\ k # None /\ n \in Tx
        BY <2>1, <4>1 DEF LedgerInv, PaymentsMined
      <4> QED BY <1>1, <4>2, FoundIsNew DEF LedgerInv, Mined
    <3>2. CASE k = Tip + 1
      <4>1. n \in Hashes(Found)
        BY <2>1, <2>2, <3>2 DEF Found, WalletTxs, Hashes
      <4> QED BY <1>1, <3>2, <4>1, ScanFacts DEF LedgerInv
    <3> QED BY <2>1, <3>1, <3>2
  <2> QED BY <2>1, <2>2 DEF PaymentsMined
<1>2. CASE \E h \in 0 .. Tip : RewindToHeight(h)
  <2>1. PICK h \in 0 .. Tip : RewindToHeight(h)
    BY <1>2
  <2>2. /\ Tip \in Nat /\ h < Tip /\ blocks' = SubSeq(blocks, 1, h)
        /\ blocks \in Seq(CompactBlock) /\ Len(blocks) = Tip
    BY <2>1, RewindFacts, TipType DEF LedgerInv, TypeOK
  <2>3. Len(blocks') = h /\ \A k \in 1 .. h : blocks'[k] = blocks[k]
    BY <2>2, SubSeqAt
  <2>4. ASSUME NEW n \in Pays, NEW k \in 1 .. h, n \in Hashes(blocks'[k].txs)
        PROVE  txBlock'[n] = k
    <3>1. txBlock[n] = k
      BY <2>2, <2>3, <2>4 DEF LedgerInv, PaymentsMined
    <3>2. ~(txBlock[n] > h)
      BY <2>2, <3>1
    <3> QED BY <2>1, <3>1, <3>2, RewindFacts DEF LedgerInv
  <2> QED BY <2>3, <2>4 DEF PaymentsMined
<1>3. CASE UNCHANGED <<blocks, txBlock>>
  BY <1>3 DEF LedgerInv, PaymentsMined
<1> QED BY <1>1, <1>2, <1>3
        DEF Next, BuildSpend, StoreDecryptedTx, CrashInRewind, vars, dbVars

LEMMA TornStays ==
  ASSUME ~CanCrash, LedgerInv, [Next]_vars
  PROVE  torn' = None
<1>1. CASE \E h \in 0 .. Tip : RewindToHeight(h)
  BY <1>1, RewindFacts DEF LedgerInv
<1> QED BY <1>1 DEF LedgerInv, Next, AdvanceByBlock, BuildSpend, StoreDecryptedTx,
                    CrashInRewind, vars, histVars

LEMMA LedgerInvariant ==
  ASSUME Validated, ~CanCrash
  PROVE  Spec => []LedgerInv
<1>1. Init => LedgerInv
  BY InitTypeOK, InitLock, InitBlocks, InitNotesInv
     DEF LedgerInv, Init, PaymentsMined
<1>2. LedgerInv /\ TypeOK' /\ [Next]_vars => LedgerInv'
  BY LockStep, BlockStep, NoteStep, PaymentsStep, TornStays DEF LedgerInv
<1> QED BY <1>1, <1>2, TypeCorrect, PTL DEF Spec

----------------------------------------------------------------------------
(* A scan extends the ledger.                                                 *)

\* What a valid block reveals of a note is the nullifier of the block that mined
\* it, and the wallet has it.
LEMMA RevealedAtPosition ==
  ASSUME LedgerInv, NEW n \in Pays, NEW j \in 1 .. Len(blocks),
         n \in Hashes(blocks[j].txs)
  PROVE  Mined(n) /\ txBlock[n] = j /\ nf[n] = HashAt(blocks, j)
<1>1. txBlock[n] = j /\ j # None /\ n \in Tx
  BY DEF LedgerInv, PaymentsMined
<1> QED BY <1>1 DEF LedgerInv, BlockInv, MinedInv, Mined

\* A spend in block k, marked on note n, reveals n as the wallet knows it.
LEMMA MarkIsReveal ==
  ASSUME LedgerInv, NEW bs \in Seq(CompactBlock), ValidChain(bs),
         NEW k \in 1 .. Len(bs), k - 1 <= Len(blocks),
         \A j \in 1 .. k - 1 : blocks[j] = bs[j],
         NEW x \in bs[k].txs, NEW y \in x.spends, y[1] \in Pays
  PROVE  Mined(y[1]) /\ nf[y[1]] = y[2] /\ y = <<y[1], nf[y[1]]>>
<1>1. PICK j \in 1 .. k - 1 : y[2] = HashAt(bs, j) /\ y[1] \in Hashes(bs[j].txs)
  BY DEF ValidChain, SpendsBelow
<1>2. /\ j \in 1 .. Len(blocks) /\ y[1] \in Hashes(blocks[j].txs)
      /\ y[2] = HashAt(blocks, j)
  BY <1>1 DEF LedgerInv, TypeOK, HashAt
<1>3. bs[k] \in CompactBlock
  OBVIOUS
<1>4. y \in Nullifier
  BY <1>3 DEF CompactBlock, CompactTx
<1>5. y = <<y[1], y[2]>>
  BY <1>4 DEF Nullifier
<1> QED BY <1>2, <1>5, RevealedAtPosition

LEMMA ScanSpends ==
  ASSUME Validated, LedgerInv, TypeOK', AdvanceByBlock, NEW n \in Pays
  PROVE  LET txs == chain[Tip + 1].txs
             reveals(x) == Mined(n) /\ <<n, nf[n]>> \in x.spends
         IN  IF \E x \in txs : reveals(x)
             THEN \A x \in txs : reveals(x) => ConfirmedSpend(n)' = <<x.hash, Tip + 1>>
             ELSE ConfirmedSpend(n)' = ConfirmedSpend(n)
<1> DEFINE txs == chain[Tip + 1].txs
           reveals(x) == Mined(n) /\ <<n, nf[n]>> \in x.spends
<1>1. /\ TypeOK /\ LockInv /\ BlockInv
      /\ Tip \in Nat /\ Len(blocks) = Tip /\ Tip + 1 \in 1 .. Len(chain)
      /\ chain \in Seq(CompactBlock) /\ ValidChain(chain)
      /\ \A k \in 1 .. Tip : blocks[k] = chain[k]
      /\ UNCHANGED own
  BY ScannedBlocks, ScanFacts DEF LedgerInv, LockInv, BlockInv, TypeOK, NetTypeOK
<1>2. ASSUME NEW x \in txs, reveals(x)
      PROVE  ConfirmedSpend(n)' = <<x.hash, Tip + 1>>
  <2>1. <<n, nf[n]>> \in GetNullifiers
    <3>1. nf[n] # None
      <4>1. txBlock[n] \in 1 .. Len(blocks) /\ nf[n] = HashAt(blocks, txBlock[n])
        BY <1>1, <1>2 DEF MinedInv, BlockInv
      <4> QED BY <1>1, <4>1, HashAtType DEF TypeOK, BlockHash
    <3>2. SUFFICES ASSUME spent[n] # None, Mined(spent[n])
                   PROVE  FALSE
      BY <3>1 DEF GetNullifiers
    <3>3. /\ spent[n] \in Spend /\ spent[n] \in Tx
          /\ \E y \in own[spent[n]].spends : y[1] = n
      BY <1>1, <3>2 DEF LockInv, MarksAreSpends, Marked, Spend
    <3> DEFINE k == txBlock[spent[n]]
    <3>4. k \in 1 .. Tip /\ spent[n] \in Hashes(blocks[k].txs)
      BY <1>1, <3>2, <3>3 DEF BlockInv, MinedInv
    <3>5. PICK z \in chain[k].txs : z.hash = spent[n]
      BY <1>1, <3>4 DEF Hashes
    <3>6. k \in 1 .. Len(chain)
      BY <1>1, <3>4
    <3>7. z.spends = own[spent[n]].spends
      BY <1>1, <3>3, <3>5, <3>6 DEF ValidChain, GenuineTx
    <3>8. PICK y \in z.spends : y[1] = n
      BY <3>3, <3>7
    <3>9. y = <<n, nf[n]>>
      <4>1. k - 1 <= Len(blocks) /\ \A j \in 1 .. k - 1 : blocks[j] = chain[j]
        BY <1>1, <3>4
      <4> QED BY <1>1, <3>5, <3>6, <3>8, <4>1, MarkIsReveal
    <3>10. Apart(chain, k, Tip + 1)
      BY <1>1, <3>4 DEF ValidChain
    <3>11. <<n, nf[n]>> \in Revealed(chain[k].txs) /\ <<n, nf[n]>> \in Revealed(txs)
      BY <1>2, <3>5, <3>8, <3>9 DEF Revealed
    <3> QED BY <3>10, <3>11 DEF Apart
  <2>2. x \in Found
    BY <1>2, <2>1 DEF Found, WalletTxs
  <2>3. PICK z \in Found : <<n, nf[n]>> \in z.spends /\ Marks[n] = z.hash
    BY <1>2, <2>1, <2>2, MarkFacts
  <2>4. z = x
    <3>1. z \in txs /\ Consistent(txs)
      BY <1>1, <2>3, ScanFacts DEF ValidChain
    <3> QED BY <1>2, <2>3, <3>1 DEF Consistent
  <2>5. x.hash \in Tx /\ txBlock'[x.hash] = Tip + 1 /\ x.hash # None /\ Tip + 1 # None
    BY <1>1, <2>2, FoundIsGenuine, ScanFacts
  <2>6. spent'[n] = x.hash
    BY <2>3, <2>4, <2>5, UnlockFacts, <1>1 DEF Overdue
  <2> QED BY <2>5, <2>6 DEF ConfirmedSpend, Mined
<1>3. ASSUME \A x \in txs : ~reveals(x)
      PROVE  ConfirmedSpend(n)' = ConfirmedSpend(n)
  <2>1. ASSUME NEW x \in txs, NEW y \in x.spends
        PROVE  y[1] # n
    <3>1. ASSUME NEW k, k = Tip + 1, NEW z \in chain[k].txs, NEW v \in z.spends,
                 v[1] \in Pays
          PROVE  Mined(v[1]) /\ v = <<v[1], nf[v[1]]>>
      <4>1. /\ k \in 1 .. Len(chain) /\ k - 1 <= Len(blocks)
            /\ \A j \in 1 .. k - 1 : blocks[j] = chain[j]
        BY <1>1, <3>1
      <4> QED BY <1>1, <3>1, <4>1, MarkIsReveal
    <3>2. ASSUME y[1] = n
          PROVE  FALSE
      <4>1. x \in chain[Tip + 1].txs /\ y[1] \in Pays
        BY <2>1, <3>2
      <4>2. Mined(y[1]) /\ y = <<y[1], nf[y[1]]>>
        BY <2>1, <3>1, <4>1
      <4> QED BY <1>3, <2>1, <3>2, <4>2
    <3> QED BY <3>2
  <2>2. Marks[n] = spent[n]
    <3>1. \A x \in Found : <<n, nf[n]>> \notin x.spends
      BY <1>1, <2>1, ScanFacts
    <3> QED BY <3>1, MarkFacts
  <2>3. CASE spent[n] = None
    BY <1>1, <2>2, <2>3, UnlockFacts DEF ConfirmedSpend
  <2>4. CASE spent[n] # None
    <3>1. /\ spent[n] \in Spend /\ spent[n] \in Tx
          /\ \E y \in own[spent[n]].spends : y[1] = n
      BY <1>1, <2>4 DEF LockInv, MarksAreSpends, Marked, Spend
    <3>2. spent[n] \notin Hashes(Found)
      <4>1. SUFFICES ASSUME NEW x \in Found, x.hash = spent[n]
                     PROVE  FALSE
        BY DEF Hashes
      <4>2. x \in txs /\ x.spends = own[spent[n]].spends
        BY <1>1, <3>1, <4>1, FoundIsGenuine, ScanFacts DEF GenuineTx
      <4> QED BY <2>1, <3>1, <4>2
    <3>3. txBlock'[spent[n]] = txBlock[spent[n]]
      BY <1>1, <3>1, <3>2, ScanFacts
    <3>4. CASE Mined(spent[n])
      <4>1. spent'[n] = spent[n]
        BY <1>1, <2>2, <3>3, <3>4, UnlockFacts DEF Overdue, Mined
      <4> QED BY <3>3, <3>4, <4>1 DEF ConfirmedSpend, Mined
    <3>5. CASE ~Mined(spent[n])
      <4>1. spent'[n] \in {spent[n], None}
        BY <1>1, <2>2, UnlockFacts
      <4> QED BY <3>3, <3>5, <4>1 DEF ConfirmedSpend, Mined
    <3> QED BY <3>4, <3>5
  <2> QED BY <2>3, <2>4
<1> QED BY <1>2, <1>3

LEMMA PositionIsNullifier ==
  ASSUME BlockInv, NEW n \in Pays, Mined(n)
  PROVE  nf[n] = <<txBlock[n], blocks[txBlock[n]].epoch>>
  BY DEF BlockInv, MinedInv, HashAt

LEMMA AppendPrefix ==
  ASSUME NEW bs \in Seq(CompactBlock), NEW b \in CompactBlock
  PROVE  SubSeq(Append(bs, b), 1, Len(bs)) = bs
  OBVIOUS

LEMMA ScanExtends ==
  ASSUME Validated, LedgerInv, TypeOK', AdvanceByBlock
  PROVE  Ledger!Extend
<1> DEFINE h == Len(blocks) + 1
           txs == blocks'[h].txs
<1>1. /\ TypeOK /\ BlockInv /\ blocks \in Seq(CompactBlock)
      /\ Tip \in Nat /\ Len(blocks) = Tip /\ Len(blocks') = Tip + 1
      /\ blocks' = Append(blocks, chain[Tip + 1])
      /\ chain[Tip + 1] \in CompactBlock
      /\ blocks'[Tip + 1] = chain[Tip + 1]
  BY ScannedBlocks, ScanFacts DEF LedgerInv, BlockInv, TypeOK
<1>2. Len(blocks') = h /\ SubSeq(blocks', 1, h - 1) = blocks /\ txs = chain[Tip + 1].txs
  BY <1>1, AppendPrefix
<1>3. ASSUME NEW n \in Pays
      PROVE  txBlock'[n] = IF \E x \in txs : x.hash = n THEN h ELSE txBlock[n]
  <2>1. n \in Hashes(Found) <=> \E x \in txs : x.hash = n
    BY <1>2 DEF Found, WalletTxs, Hashes
  <2> QED BY <1>1, <2>1, ScanFacts
<1>4. ASSUME NEW n \in Pays, NEW x
      PROVE  Ledger!Reveals(x, n) <=> Mined(n) /\ <<n, nf[n]>> \in x.spends
  BY <1>1, PositionIsNullifier DEF Ledger!Reveals, Ledger!Position, Mined
<1>5. ASSUME NEW n \in Pays
      PROVE  ConfirmedSpend(n)' =
               IF \E x \in txs : Ledger!Reveals(x, n)
               THEN <<(CHOOSE x \in txs : Ledger!Reveals(x, n)).hash, h>>
               ELSE ConfirmedSpend(n)
  <2> DEFINE r(x) == Ledger!Reveals(x, n)
  <2>1. \A x : r(x) <=> Mined(n) /\ <<n, nf[n]>> \in x.spends
    BY <1>4
  <2> HIDE DEF r
  <2>2. CASE \E x \in txs : r(x)
    <3>1. (CHOOSE x \in txs : r(x)) \in txs /\ r(CHOOSE x \in txs : r(x))
      BY <2>2
    <3>2. \A x \in txs : r(x) => ConfirmedSpend(n)' = <<x.hash, Tip + 1>>
      BY <1>2, <2>1, ScanSpends
    <3> QED BY <1>1, <2>2, <3>1, <3>2 DEF r
  <2>3. CASE \A x \in txs : ~r(x)
    <3>1. ConfirmedSpend(n)' = ConfirmedSpend(n)
      BY <1>2, <2>1, <2>3, ScanSpends
    <3> QED BY <2>3, <3>1 DEF r
  <2> QED BY <2>2, <2>3
<1> QED BY <1>2, <1>3, <1>5 DEF Ledger!Extend, ConfirmedSpend

(* A rewind truncates it.                                                     *)
LEMMA RewindTruncates ==
  ASSUME LedgerInv, TypeOK', NEW h \in 0 .. Tip, RewindToHeight(h)
  PROVE  h \in 0 .. Len(blocks) - 1 /\ Ledger!Truncate(h)
<1>1. /\ Tip \in Nat /\ Len(blocks) = Tip /\ h < Tip
      /\ blocks' = SubSeq(blocks, 1, h)
      /\ \A t \in Tx : txBlock'[t] = IF Mined(t) /\ txBlock[t] > h THEN None
                                                                  ELSE txBlock[t]
      /\ \A n \in Pays : spent'[n] = spent[n]
  BY RewindFacts, TipType DEF LedgerInv
<1>2. ASSUME NEW n \in Pays
      PROVE  txBlock'[n] = IF txBlock[n] # None /\ txBlock[n] > h THEN None
                                                                  ELSE txBlock[n]
  BY <1>1 DEF Mined
<1>3. ASSUME NEW n \in Pays
      PROVE  ConfirmedSpend(n)' =
               IF ConfirmedSpend(n) # None /\ ConfirmedSpend(n)[2] > h THEN None
                                                                       ELSE ConfirmedSpend(n)
  <2>1. spent'[n] = spent[n]
    BY <1>1
  <2>2. CASE spent[n] # None /\ Mined(spent[n])
    <3>1. spent[n] \in Tx /\ txBlock[spent[n]] \in 1 .. Len(blocks)
      BY <2>2 DEF LedgerInv, TypeOK, BlockInv, MinedInv
    <3>2. /\ ConfirmedSpend(n) = <<spent[n], txBlock[spent[n]]>>
          /\ ConfirmedSpend(n)[2] = txBlock[spent[n]]
      BY <2>2 DEF ConfirmedSpend
    <3>3. CASE txBlock[spent[n]] > h
      <4>1. txBlock'[spent[n]] = None
        BY <1>1, <2>2, <3>1, <3>3
      <4>2. ConfirmedSpend(n)' = None
        BY <2>1, <4>1 DEF ConfirmedSpend, Mined
      <4>3. ConfirmedSpend(n) # None \/ ConfirmedSpend(n) = None
        OBVIOUS
      <4> QED BY <3>2, <3>3, <4>2, <4>3
    <3>4. CASE ~(txBlock[spent[n]] > h)
      <4>1. txBlock'[spent[n]] = txBlock[spent[n]]
        BY <1>1, <3>1, <3>4
      <4>2. ConfirmedSpend(n)' = ConfirmedSpend(n)
        BY <2>1, <4>1 DEF ConfirmedSpend, Mined
      <4> QED BY <3>2, <3>4, <4>2
    <3> QED BY <3>3, <3>4
  <2>3. CASE ~(spent[n] # None /\ Mined(spent[n]))
    <3>1. ConfirmedSpend(n) = None
      BY <2>3 DEF ConfirmedSpend
    <3>2. spent[n] # None => txBlock'[spent[n]] = None
      BY <1>1, <2>3 DEF LedgerInv, TypeOK, Mined
    <3>3. ConfirmedSpend(n)' = None
      BY <2>1, <3>2 DEF ConfirmedSpend, Mined
    <3> QED BY <3>1, <3>3
  <2> QED BY <2>2, <2>3
<1> QED BY <1>1, <1>2, <1>3 DEF Ledger!Truncate, ConfirmedSpend

(* Locks, expiries, witnesses and the chain are no part of it.                *)
LEMMA OtherStutters ==
  ASSUME ~CanCrash, LedgerInv, [Next]_vars,
         ~AdvanceByBlock, \A h \in 0 .. Tip : ~RewindToHeight(h)
  PROVE  UNCHANGED Ledger!ledgerVars
<1>1. UNCHANGED <<blocks, txBlock>>
  BY DEF Next, BuildSpend, StoreDecryptedTx, CrashInRewind, vars, dbVars
<1>2. ASSUME NEW n \in Pays
      PROVE  ConfirmedSpend(n)' = ConfirmedSpend(n)
  <2>1. CASE \E t \in Spend : BuildSpend(t)
    <3>1. PICK t \in Spend : BuildSpend(t)
      BY <2>1
    <3>2. ~Known(t) /\ spent'[n] \in {t, spent[n]} /\ t # None
      BY <3>1, BuildFacts DEF LedgerInv, Built, Spend
    <3>3. ~Mined(t)
      BY <3>2 DEF LedgerInv, LockInv, MinedInTime
    <3>4. CASE spent'[n] = spent[n]
      BY <1>1, <3>4 DEF ConfirmedSpend, Mined
    <3>5. CASE spent'[n] # spent[n]
      <4>1. spent[n] = None
        <5>1. PICK rows \in SUBSET GetUnspentSaplingNotes : Built(t, rows)
          BY <3>1, BuildFacts DEF LedgerInv
        <5>2. PICK w \in rows : <<n, nf[n]>> = <<w.note, w.pos>>
          BY <3>5, <5>1 DEF Built
        <5> QED BY <5>2, UnspentFacts DEF LedgerInv, NoteInv
      <4> QED BY <1>1, <3>2, <3>3, <3>5, <4>1 DEF ConfirmedSpend, Mined
    <3> QED BY <3>4, <3>5
  <2>2. CASE UNCHANGED spent
    BY <1>1, <2>2 DEF ConfirmedSpend, Mined
  <2> QED BY <2>1, <2>2 DEF Next, StoreDecryptedTx, CrashInRewind, vars, dbVars
<1> QED BY <1>1, <1>2 DEF Ledger!ledgerVars, ConfirmedSpend

(* The tables implement the ledger of the scanned blocks: a note is received, *)
(* and spent, exactly where the scanned blocks say so, for every order of     *)
(* scans, spends of any device, expiries, rewinds and reorganisations, while  *)
(* validate_chain runs before each scan and no rewind is cut short.           *)
THEOREM TablesAreLedger ==
  ASSUME Validated, ~CanCrash
  PROVE  Spec => ImplementsLedger
<1>1. Init => Ledger!LedgerInit
  BY DEF Init, Ledger!LedgerInit
<1>2. LedgerInv /\ TypeOK' /\ [Next]_vars => [Ledger!LedgerNext]_(Ledger!ledgerVars)
  BY ScanExtends, RewindTruncates, OtherStutters DEF Ledger!LedgerNext
<1> QED BY <1>1, <1>2, LedgerInvariant, TypeCorrect, PTL
        DEF Spec, ImplementsLedger, Ledger!LedgerSpec
=============================================================================
